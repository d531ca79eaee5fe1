CONSTANTS
    Conns = {c1}
    OpRequests = {r1, r2}
    WarmRequests = {w1}
    NoRequest = NoRequest
    MaxPoolSize = 1
    MinPoolSize = 1
    MaxConnecting = 1
    IdleTimeout = TRUE
    MaxGeneration = 1
    MaxRequests = 2
SPECIFICATION FairSpec
PROPERTIES
    EveryRequestAnswered
    PoolCloses
CHECK_DEADLOCK FALSE
