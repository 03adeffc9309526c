CONSTANTS
    LobbyCount = 2
    QueueMaxSize = 2
    MaxRequests = 1
SPECIFICATION Spec
INVARIANT ControlSurvives
CHECK_DEADLOCK FALSE
