\* Every table of three lobbies with up to two users, two free places and two speeds.
CONSTANTS
    RecordCount = 3
    Currents = {0, 1, 2}
    Remains = {0, 1, 2}
    Speeds = {0, 1}
SPECIFICATION SearchSpec
INVARIANT SearchTypeOK
INVARIANT ReturnsBest
CHECK_DEADLOCK FALSE
