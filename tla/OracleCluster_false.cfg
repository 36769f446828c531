SPECIFICATION Spec
CONSTANTS
    s1 = s1
    s2 = s2
    n1 = n1
    Servers = {s1, s2, s3}
    Nodes = {n1}
    Home <- MCHome
    WideIds = {}
    WidePeers = {}
    CORROBORATION_K = 2
    MAX_HEALTH_NODES = 2
    MAX_OBSERVATIONS = 2
    LOG_CAPACITY = 4
    MAX_IN_FLIGHT = 2
    MAX_OUTAGES = 1
    MAX_CHANGES = 1
PROPERTY NoFalsePositive
CHECK_DEADLOCK FALSE
