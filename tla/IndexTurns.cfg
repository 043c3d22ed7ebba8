CONSTANTS
    None = None
    f1 = f1
    f2 = f2
    v1 = v1
    v2 = v2
    Sources = {s1, s2}
    Files = {f1, f2}
    Versions = {v1, v2}
    Workers = {w1}
    Admins = {a1}
    Upsert = FALSE
    Serial = TRUE
    Batch = 2
    MaxFails = 1
    Chunks <- MCChunks
    FileOf <- MCFileOf
    In <- MCIn
SPECIFICATION Spec
INVARIANT NoStaleChunks
INVARIANT RegistryBacked
INVARIANT ReturnedRunIsInSync
PROPERTY UnchangedFilesStaySearchable
SYMMETRY Symmetry
