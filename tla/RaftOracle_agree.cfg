SPECIFICATION Spec
CONSTANTS
    Servers = {s1, s2, s3}
    Values = {v1, v2}
    NoOne = NoOne
    MAX_TERM = 1
    LOG_CAPACITY = 1
    MAX_FAILED = 0
    MAX_BOOT = 0
    LOSSY = TRUE
    DUPLICATES = FALSE
    MAX_IN_FLIGHT = 2
SYMMETRY Symmetry
INVARIANT EveryoneAgrees
CHECK_DEADLOCK FALSE
