\* Three accepts, three clients, an address more for the Control server, and a
\* queue with exactly one slot for each connection.
CONSTANTS
    Addresses = {a1, a2, a3, a4}
    AcceptSockets = {a1, a2, a3}
    Clients = {c1, c2, c3}
    ControlServer = Control
    NoPeer = NoPeer
    NoKey = NoKey
    LobbyCapacity = 5
    QueueMaxSize = 4
SPECIFICATION Spec
SYMMETRY Symmetry
INVARIANT TypeOK
INVARIANT RoomIsNotOverstated
INVARIANT NoticeNeverRefused
 
CHECK_DEADLOCK FALSE
