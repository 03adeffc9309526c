SPECIFICATION Spec
CONSTANTS
    SocketCount = 3
    MaxLevel = 2
INVARIANTS KeepsOrder NothingDangles CalmFindIsRight
