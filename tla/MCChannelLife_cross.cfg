SPECIFICATION FairSpec
CONSTANTS
    Calls = {c1, c2}
    Forwards = {f1}
    Types = {"known", "other"}
    ClientCloses = TRUE
    ClientOps = 1
    ServerOps = 2
    IdLimit = 6
INVARIANTS
    TypeOK
    TablesAgree
    OwnEnd
    SuccessWasWanted
    FatesExplained
PROPERTIES
    ImplementsOpenCall
    OpenReturns
CHECK_DEADLOCK FALSE
