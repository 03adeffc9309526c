\* A server that only receives: the network thread alone pops, and every object
\* is in use when it starts, so that the pool is found empty too.
CONSTANTS
    OverlappedQueueMax = 4
    AcceptsPosted = 4
    NetThread = net
    OtherPoppers = {}
SPECIFICATION PoolSpec
INVARIANT ExclusiveUse
INVARIANT LostExactlyIfRefused
CHECK_DEADLOCK FALSE
