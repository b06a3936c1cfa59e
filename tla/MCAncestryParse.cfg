SPECIFICATION FairParseSpec
CONSTANTS
    a = a
    b = b
    c = c
    d = d
    Ids <- MCIds
    Types <- MCTypes
    Lists <- MCLists
    MaxDepth = 3
INVARIANTS
    TraceIsLasso
    RecursionNeedsDepth
PROPERTY ParserDecides
