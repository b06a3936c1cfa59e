SPECIFICATION Spec
CONSTANTS
    Problems <- MCProblems
    Entries <- MCEntries
    MAX_RATIONAL_CHARS = 2
    MaxReplacements = 0
INVARIANT EmittedAccepted
