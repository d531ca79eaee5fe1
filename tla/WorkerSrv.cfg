SPECIFICATION MonitoredSpec
CONSTANTS
    a1 = a1
    a2 = a2
    Addresses <- TwoAddresses
    Options <- TwoSeeds
    Replies <- SrvReplies
    Versions <- TwoVersions
    Lookups <- TwoLookups
    ClusterTimes <- TwoTimes
    SrvMaxHosts = 0
    None = None
    Garbled = Garbled
    Ops = {p1}
    Filler = Filler
    Warm = FALSE
    MonitorErrors <- NoSets
    AppErrors <- NoSets
    Heartbeats = FALSE
    Closes = FALSE
    MaxGeneration = 1
    MaxJoins = 1
PROPERTIES
    ImplementsDescription
    RemovedNotMonitored
CHECK_DEADLOCK FALSE
