\* A Lobby server: an accepted client, the connection to the Control server and
\* a notice on each.
CONSTANTS
    AcceptSockets = {s1}
    ConnectSockets = {c}
    NoSocket = NoSocket
    Overlappeds = {o1, o2, o3, o4, o5}
    NoOverlapped = NoOverlapped
    MaxJobs = 2
SYMMETRY ObjectSymmetry
SPECIFICATION Spec
INVARIANT TypeOK
INVARIANT PoolNeverDry
INVARIANT OneReceivePerSocket
INVARIANT HandlersUseLiveSockets
INVARIANT DanglingOnlyWhileErasing
CHECK_DEADLOCK FALSE
