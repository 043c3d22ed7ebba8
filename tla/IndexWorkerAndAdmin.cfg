CONSTANTS
    None = None
    f1 = f1
    f2 = f2
    v1 = v1
    v2 = v2
    Sources = {s1}
    Files = {f1}
    Versions = {v1, v2}
    Workers = {w1}
    Admins = {a1}
    Upsert = FALSE
    Serial = FALSE
    Batch = 1
    MaxFails = 0
    Chunks <- OneChunks
    FileOf <- OneFileOf
    In <- OneIn
SPECIFICATION Spec
INVARIANT QuiescentIndexAgrees
