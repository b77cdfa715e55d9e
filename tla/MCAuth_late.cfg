SPECIFICATION Spec
CONSTANTS
    alice = alice
    alices_key = alices_key
    PublicKeys <- OneKey
    Users <- OneUser
    Kinds = {"thrussh"}
    MethodSets <- AllMethods
    Banners = {FALSE}
    MaxRequests = 1
    MaxDrops = 0
INVARIANTS
    AnswerUnderstood
CHECK_DEADLOCK FALSE
