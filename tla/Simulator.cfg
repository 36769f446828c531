SPECIFICATION FairSpec
CONSTANTS
    Boxes = {1}
    MAX_HEALTH_NODES = 1
    HB_INTERVAL_MS = 1
    SUSPECT_THRESHOLD = 3
    DOWN_TIMEOUT_MS = 5
    TICK_MOD = 128
    MISS_MOD = 64
    PAUSE = 5
    LEADERS = {1}
    SIM_TICK_MS = 5
    SETTLE = 1
    SECOND = 14
    SIM_RUNTIME_S = 2
    CHAOS_KILL_AT_S = 0
    CHAOS = TRUE
    DRAIN_MAX = 2
    UDP_BUFFER = 4
    MAX_LATE = 0
    CLOCK_END = 34
INVARIANTS TypeOK ChaosIsSeen AliveNeverDown NoUseAfterDestroy
PROPERTIES Terminates
CHECK_DEADLOCK FALSE
