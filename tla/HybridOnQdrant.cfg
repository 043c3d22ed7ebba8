SPECIFICATION HybridSpec
CONSTANTS
    p1 = p1
    p2 = p2
    p3 = p3
    p4 = p4
    Points = {p1, p2, p3, p4}
    Stores <- MCStores
    IdOf <- MCId
    SourceOf <- MCSource
    RelevanceOf <- MCRelevance
    LikenessOf <- MCLikeness
    Policies <- MCPolicies
    Filters <- MCFilters
    Ks = {2}
    KCand = 3
    Store = "qdrant"
    Scale = 238266
    Nothing = Nothing
INVARIANT DiversifiesWhenAsked
CHECK_DEADLOCK FALSE
