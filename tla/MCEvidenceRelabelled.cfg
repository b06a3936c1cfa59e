SPECIFICATION PolicySpec
CONSTANTS
    s1 = s1
    s2 = s2
    t1 = t1
    t2 = t2
    c1 = c1
    c2 = c2
    e1 = e1
    e2 = e2
    none = none
    Ids <- MCIds
    Types <- MCTypes
    Lists <- MCLists
    Edges <- MCEdges
    Comparison <- MCComparison
    Policies <- MCPolicies
    NoPolicy = none
INVARIANT NeverRelabelled
