SPECIFICATION ZipFairSpec
CONSTANTS
    alice = alice
    bob = bob
    alices_key = alices_key
    bobs_key = bobs_key
    PublicKeys <- TwoKeys
    Users <- TwoUsers
    Kinds = {"thrussh", "external"}
    MethodSets <- OfferedMethods
    Banners = {TRUE, FALSE}
    NoName = NoName
    Preferences <- AnyPreferences
    KexInits <- AnyKexInits
    Keys = {"ed25519", "rsa512"}
    MaxRequests = 3
    MaxDrops = 1
INVARIANTS
    TypeOK
    GrantedByVerdict
    KeyWasJudged
    TrueIsOwnSuccess
    FalseIsRefusal
    SuccessIsMutual
    ReadAsWritten
    NamesAgree
PROPERTIES
    CallReturns
CHECK_DEADLOCK FALSE
