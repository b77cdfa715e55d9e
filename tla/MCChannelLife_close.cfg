SPECIFICATION Spec
CONSTANTS
    Calls = {c1}
    Forwards = {}
    Types = {"known"}
    ClientCloses = FALSE
    ClientOps = 2
    ServerOps = 1
    IdLimit = 3
PROPERTIES
    WrongChannelUnopened
CHECK_DEADLOCK FALSE
