SPECIFICATION Spec
CONSTANTS
    Callers = {c1, c2}
    Files = {f1, f2}
    Hashes = {h1, h2}
    None = None
    MaxFails = 1
INVARIANTS
    CleanHashesAgree
PROPERTY
    TableSpec
SYMMETRY Symmetry
