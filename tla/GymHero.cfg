SPECIFICATION Spec
CONSTANTS
    ann = ann
    bob = bob
    cat = cat
    n1 = n1
    n2 = n2
    m1 = m1
    p1 = p1
    w1 = w1
    x1 = x1
    b1 = b1
    t1 = t1
    l1 = l1
    Users = {ann, bob, cat}
    Plans = {p1, p2}
    Units = {w1, w2}
    Exercises = {x1, x2}
    BodyParts = {b1, b2}
    Types = {t1, t2}
    Levels = {l1, l2}
    Names = {n1, n2}
    Terms = {m1}
    Requests = {r1, r2, r3}
    Root = ann
    Seeded <- MCSeeded
    SeedName <- MCSeedName
    None = None
    New = New
    Gone = Gone
SYMMETRY Alike
INVARIANTS
    TypeOK
    NamesFindOne
    ReferencesExist
    SuperuserRemains
    ListsAnswer
    RightsLastUntilCommit
    DoublesComeFromOverlap
CHECK_DEADLOCK FALSE
