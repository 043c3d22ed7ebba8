SPECIFICATION Spec
CONSTANTS
    MaxTurns = 2
    Readers = {r1}
    Askers = {a1, a2}
    ForeignKeys = FALSE
    None = None
INVARIANTS
    CleanCacheIsCurrent
    NamedOnce
    NoOrphans
PROPERTIES
    StreamsEnd
CHECK_DEADLOCK FALSE
