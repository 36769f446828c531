CONSTANTS
    Nodes = {n1}
    BOX_ID = 1
    MAX_HEALTH_NODES = 2
    HB_INTERVAL_MS = 1
    SUSPECT_THRESHOLD = 2
    DOWN_TIMEOUT_MS = 1
    TICK_MOD = 4
    MISS_MOD = 4
    HB_INBOX_DEPTH = 1
    LOG_CAPACITY = 3
    SILENCE_CAP = 3
    MAX_LAG = 1
SPECIFICATION Spec
INVARIANTS TypeOK NodeIdsUnique SilentWhenSuspected ApplyKeepsVerdict LogIsPath
PROPERTY IsFailureDetector
