SPECIFICATION TunnelFairSpec
CONSTANTS
    Total = 14
    Ends = {5, 9, 14}
    Senders = {"client"}
    Ext = TRUE
    ShortReads = TRUE
    Waits = FALSE
    WindowSize = 3
    Targets = {0}
    MaxPacket = 3
    Capacity = 3
    Closes = TRUE
    Uses = {"Channel", "RemoteTunnel"}
    Margin = 1
    Answers = 2
    Endings = {}
INVARIANTS
    RemainingWindow
PROPERTIES
    ImplementsByteStream
    AllDelivered
    DataReturns
CHECK_DEADLOCK FALSE
