\* Three JobThreads, a queue of two jobs, six jobs: the queue fills and drains.
CONSTANTS
    JobThreads = {j1, j2, j3}
    NoThread = NoThread
    QueueMaxSize = 2
    MaxJobs = 6
SPECIFICATION FairSpec
INVARIANT TypeOK
INVARIANT OneDrainer
INVARIANT NoLostWakeup
PROPERTY ExecutesInOrder
PROPERTY AnswersInOrder
PROPERTY EveryJobExecuted
