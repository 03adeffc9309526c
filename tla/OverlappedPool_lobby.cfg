\* A Lobby server: a job thread sends while the network thread posts receives.
CONSTANTS
    OverlappedQueueMax = 4
    AcceptsPosted = 2
    NetThread = net
    OtherPoppers = {job}
SPECIFICATION PoolSpec
INVARIANT ExclusiveUse
CHECK_DEADLOCK FALSE
