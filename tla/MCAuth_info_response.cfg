SPECIFICATION Spec
CONSTANTS
    alice = alice
    alices_key = alices_key
    PublicKeys <- OneKey
    Users <- OneUser
    Kinds = {"external"}
    MethodSets <- AllMethods
    Banners = {FALSE}
    MaxRequests = 2
    MaxDrops = 0
INVARIANTS
    AcceptMovesOn
CHECK_DEADLOCK FALSE
