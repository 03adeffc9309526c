\* Two JobThreads, a queue of two jobs, four jobs: the indices go round the ring.
CONSTANTS
    QueueMaxSize = 2
    Items <- JobNumbers
    NoItem = 0
    Poppers = {j1, j2}
    MoveEmptiesSlot = TRUE
    NoThread = NoThread
    MaxJobs = 4
SPECIFICATION HubFairSpec
INVARIANT TypeOK
INVARIANT NoSlotRace
INVARIANT PopIsServed
PROPERTY CheckedPopReturnsItem
PROPERTY ImplementsFifo
PROPERTY ImplementsDispatch
PROPERTY RingJobsExecuted
