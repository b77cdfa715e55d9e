SPECIFICATION FairSpec
CONSTANTS
    Roles = {"client", "server"}
    Lines <- MCLines
    Packets <- MCPackets
    Header = 2
    Body = 2
    KexPackets = 1
    IdBuffer = 7
    Messages = 1
INVARIANTS
    TypeOK
    IdentificationFound
    InStep
    HandledInOrder
    PanicsExplained
PROPERTIES
    StreamEnds
CHECK_DEADLOCK FALSE
