SPECIFICATION Spec
CONSTANTS
    Jobs = {j1, j2}
    Archives = {j1}
    Workers = {w1, w2}
    Admin = Admin
    None = None
    MaxDeaths = 1
    LastRead = 0
INVARIANTS
    ListMissesOnlyHandOver
    DoneIsPublished
    LeftoversExplained
PROPERTIES
    EveryJobEnds
    PollingPageSettles
