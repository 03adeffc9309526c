\* A message that fits the buffer and one that does not.
SPECIFICATION Spec
CONSTANTS
    MaxMessages = 2
    BodySize <- Sizes
    FieldSize = 2
    BufferSizeMax = 3
    AddressSize = 2
    AnswerSizes = {1, 3}
    Numbers <- AnyNumber
    Overlappeds = {o1, o2, o3}
    NoOverlapped = NoOverlapped
    Accepted = o1
    NoPacket = NoPacket
SYMMETRY Symmetry
INVARIANTS TypeOK ReceivesIntoCleanBuffers PacketFromItsReceive OverrunOnlyIfMisread WholeMessageIntact
CHECK_DEADLOCK FALSE
