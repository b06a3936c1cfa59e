SPECIFICATION DerivationSpec
CONSTANTS
    s1 = s1
    d1 = d1
    a = a
    b = b
    c = c
    ab = ab
    bc = bc
    garbled = garbled
    placeholder = placeholder
    NotDecimal = garbled
    NoDigest = placeholder
    Coefficients <- MCCoefficients
    MaxPlaces = 2
    Precision = 3
    MaxDepth = 3
    MAX_SNAPSHOT_LIST_LENGTH = 17
    MAX_RATIONAL_CHARS = 6
    Drafts <- MCDrafts
    Values = {1}
    Positions <- MCPositions
    Places = {1}
INVARIANTS
    OneProblem
    TamperEvident
    OnlyOffsetsObstruct
    GatesAgree
    EmittedAsDeclared
