CONSTANTS
    AcceptSockets = {s1}
    ConnectSockets = {}
    NoSocket = NoSocket
    Overlappeds = {o1, o2, o3}
    NoOverlapped = NoOverlapped
    MaxJobs = 1
SPECIFICATION FairSpec
PROPERTY FailedReceiveCloses
PROPERTY BrokenConnectionEnds
CHECK_DEADLOCK FALSE
