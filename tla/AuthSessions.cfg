SPECIFICATION Spec
CONSTANTS
    Callers = {c1, c2, c3}
    AdminLogin = "ann"
    Tabs = {t1, t2}
    Clients = {k1, k2}
    MaxTokens = 3
    MaxSignIns = 2
    MaxRoles = 1
    None = None
INVARIANTS
    HalfMadeExplained
    OneSuccessor
    ReloadKeepsSession
    LeftForGood
PROPERTIES
    LogoutReachesAll
CHECK_DEADLOCK FALSE
