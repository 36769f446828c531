CONSTANTS
    Nodes = {n1}
    BOX_ID = 1
    MAX_HEALTH_NODES = 2
    HB_INTERVAL_MS = 2
    SUSPECT_THRESHOLD = 3
    DOWN_TIMEOUT_MS = 5
    TICK_MOD = 26
    MISS_MOD = 16
    HB_INBOX_DEPTH = 4
    LOG_CAPACITY = 6
    SILENCE_CAP = 24
    ORACLE_TICK_MS = 5
    MAX_LAG = 0
    MAX_STOPS = 1
    MAX_RESTARTS = 1
    MAX_LOST = 2
SPECIFICATION FairSpec
INVARIANTS TimedTypeOK DetectionBound
PROPERTIES NoFalseSuspicion FailureGetsCommitted RecoveryGetsCommitted
