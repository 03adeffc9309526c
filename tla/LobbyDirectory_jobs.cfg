\* Two lobbies, as main starts them, and queues that fill up.
CONSTANTS
    LobbyCount = 2
    QueueMaxSize = 2
    MaxRequests = 3
SPECIFICATION FairSpec
INVARIANT TypeOK
INVARIANT SeesEarlierLobbies
PROPERTY NoLobbyMeansNone
PROPERTY JobsEnd
CHECK_DEADLOCK FALSE
