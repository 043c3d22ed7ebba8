CONSTANTS
    Publishers = {p1}
    Searchers = {s1, s2}
    Queries = {q1, q2}
    Lexical = {q2}
    None = None
    MaxVersion = 2
    MaxEpoch = 2
    MaxFails = 1
SPECIFICATION Spec
INVARIANT CleanCacheIsCurrent
INVARIANT OnlyLexicalIsStale
PROPERTY FreshSpec
SYMMETRY Symmetry
VIEW View
