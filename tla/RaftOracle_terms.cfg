SPECIFICATION Spec
CONSTANTS
    Servers = {s1, s2, s3}
    Values = {v1}
    NoOne = NoOne
    MAX_TERM = 2
    LOG_CAPACITY = 1
    MAX_FAILED = 0
    MAX_BOOT = 0
    LOSSY = TRUE
    DUPLICATES = TRUE
    MAX_IN_FLIGHT = 2
SYMMETRY Symmetry
INVARIANTS LeaderHasQuorum VoteOncePerTerm
PROPERTY CommittedStays
CHECK_DEADLOCK FALSE
