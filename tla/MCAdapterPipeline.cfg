SPECIFICATION Spec
CONSTANTS
    s1 = s1
    d1 = d1
    a = a
    b = b
    c = c
    ab = ab
    bc = bc
    ac = ac
    garbled = garbled
    NotDecimal = garbled
    Coefficients = {0, 1}
    MaxPlaces = 1
    Precision = 3
    MaxDepth = 3
    MAX_SNAPSHOT_LIST_LENGTH = 6
    Documents <- MCDocuments
    Problems <- MCProblems
    Entries <- MCEntries
    MAX_RATIONAL_CHARS = 2
    OCamlBuilt = TRUE
    MaxReplacements = 1
INVARIANTS
    ChainSound
    EmittedAdmissible
    PassMeans
    NoFalseFailure
