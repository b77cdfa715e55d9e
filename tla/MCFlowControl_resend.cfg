SPECIFICATION Spec
CONSTANTS
    Total = 12
    Ends = {12}
    Senders = {"client"}
    Ext = FALSE
    ShortReads = TRUE
    Waits = FALSE
    WindowSize = 4
    Targets = {0}
    MaxPacket = 3
    Capacity = 2
    Closes = FALSE
INVARIANTS
    InOrder
CHECK_DEADLOCK FALSE
