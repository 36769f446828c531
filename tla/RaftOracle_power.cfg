SPECIFICATION Spec
CONSTANTS
    Servers = {s1, s2}
    Values = {v1, v2}
    NoOne = NoOne
    MAX_TERM = 1
    LOG_CAPACITY = 2
    MAX_FAILED = 1
    MAX_BOOT = 1
    LOSSY = TRUE
    DUPLICATES = FALSE
    MAX_IN_FLIGHT = 2
SYMMETRY Symmetry
INVARIANTS TypeOK EntryInPlace
CHECK_DEADLOCK FALSE
