SPECIFICATION TunnelSpec
CONSTANTS
    Total = 14
    Ends = {4, 14}
    Senders = {"client", "server"}
    Ext = TRUE
    ShortReads = TRUE
    Waits = TRUE
    WindowSize = 4
    Targets = {0, 2, 6}
    MaxPacket = 3
    Capacity = 3
    Closes = FALSE
    Uses = {"Channel", "RemoteTunnel"}
    Margin = 1
    Answers = 1
    Endings = {"eof", "error", "reset"}
INVARIANTS
    TypeOK
    WindowConserved
    NoExtraData
    InOrderUntilCut
    CutsExplained
CHECK_DEADLOCK FALSE
