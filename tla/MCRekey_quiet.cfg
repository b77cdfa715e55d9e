SPECIFICATION FairSpec
CONSTANTS
    MaxSends = 2
    MaxAnswers = 2
    ClientLimits = 2
    ServerLimits = 0
    CrossingAnswers = FALSE
INVARIANTS
    NoFailure
PROPERTIES
    GateReopens
CHECK_DEADLOCK FALSE
