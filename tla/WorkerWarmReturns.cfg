SPECIFICATION FairWorkerSpec
CONSTANTS
    a1 = a1
    a2 = a2
    Addresses <- OneAddress
    Options <- OneSeed
    Replies <- LiveReplies
    Versions <- LiveVersions
    Lookups <- NoSets
    ClusterTimes <- NoSets
    SrvMaxHosts = 0
    None = None
    Garbled = Garbled
    Ops = {p1}
    Filler = Filler
    Warm = TRUE
    MonitorErrors <- TwoMonitorErrors
    AppErrors <- WarmErrors
    Heartbeats = TRUE
    Closes = TRUE
    MaxGeneration = 1
    MaxJoins = 1
PROPERTY WarmReturns
CHECK_DEADLOCK FALSE
