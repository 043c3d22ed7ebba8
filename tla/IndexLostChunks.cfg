CONSTANTS
    None = None
    f1 = f1
    f2 = f2
    v1 = v1
    v2 = v2
    Sources = {s1}
    Files = {f1}
    Versions = {v1, v2}
    Workers = {w1}
    Admins = {}
    Upsert = TRUE
    Serial = TRUE
    Batch = 1
    MaxFails = 1
    Chunks <- OneChunks
    FileOf <- OneFileOf
    In <- OneIn
SPECIFICATION Spec
INVARIANT ReturnedSourceIsInSync
