SPECIFICATION FairSpec
CONSTANTS
    a = a
    b = b
    c = c
    d = d
    Ids <- MCIds
    Types <- MCTypes
    Lists <- MCLists
INVARIANTS
    VerdictExact
    BlameOnCycle
    IndInv
PROPERTY DecidesAncestry
