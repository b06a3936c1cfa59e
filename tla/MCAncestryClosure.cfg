SPECIFICATION FairClosureSpec
CONSTANTS
    a = a
    b = b
    c = c
    d = d
    Ids <- MCIds
    Types <- MCTypes
    Lists <- MCLists
INVARIANTS
    ClosureExact
    ClosuresAgree
    ClosureInv
PROPERTY Returns
