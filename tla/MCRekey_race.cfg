SPECIFICATION Spec
CONSTANTS
    MaxSends = 1
    MaxAnswers = 3
    ClientLimits = 2
    ServerLimits = 1
    CrossingAnswers = TRUE
INVARIANTS
    TypeOK
    SealedForReader
    HonestSignature
    SessionIdsAgree
    ExchangeKept
    FailuresExplained
PROPERTIES
    SessionIdFixed
CHECK_DEADLOCK FALSE
