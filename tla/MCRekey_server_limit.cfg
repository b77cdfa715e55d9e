SPECIFICATION Spec
CONSTANTS
    MaxSends = 1
    MaxAnswers = 1
    ClientLimits = 0
    ServerLimits = 1
    CrossingAnswers = FALSE
INVARIANTS
    RekeyRequestAccepted
CHECK_DEADLOCK FALSE
