SPECIFICATION ElectionSpec
CONSTANTS
    Servers = {s1, s2, s3}
    Values = {}
    NoOne = NoOne
    MAX_TERM = 1
    LOG_CAPACITY = 1
    MAX_FAILED = 1
    MAX_BOOT = 0
    LOSSY = FALSE
    DUPLICATES = FALSE
    MAX_IN_FLIGHT = 3
PROPERTY LeaderEmerges
CHECK_DEADLOCK FALSE
