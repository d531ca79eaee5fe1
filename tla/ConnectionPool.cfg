CONSTANTS
    Conns = {c1, c2, c3}
    OpRequests = {r1, r2}
    WarmRequests = {}
    NoRequest = NoRequest
    MaxPoolSize = 1
    MinPoolSize = 2
    MaxConnecting = 2
    IdleTimeout = TRUE
    MaxGeneration = 1
    MaxRequests = 2
SPECIFICATION Spec
SYMMETRY Symmetry
INVARIANTS
    IInv
    WithinPoolLimits
    ExclusiveUse
PROPERTIES
    OnlyFreshHandedOut
CHECK_DEADLOCK FALSE
