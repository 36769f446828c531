SPECIFICATION FairSpec
CONSTANTS
    s1 = s1
    s2 = s2
    n1 = n1
    Servers = {s1, s2}
    Nodes = {n1}
    Home <- MCHome
    WideIds = {}
    WidePeers = {s2}
    CORROBORATION_K = 1
    MAX_HEALTH_NODES = 2
    MAX_OBSERVATIONS = 2
    LOG_CAPACITY = 6
    MAX_IN_FLIGHT = 2
    MAX_OUTAGES = 1
    MAX_CHANGES = 1
INVARIANT TypeOK
PROPERTIES LeaderFailureSpreads OwnBoxRecovers
CHECK_DEADLOCK FALSE
