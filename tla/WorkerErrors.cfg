SPECIFICATION WorkerSpec
CONSTANTS
    a1 = a1
    a2 = a2
    Addresses <- OneAddress
    Options <- OneSeed
    Replies <- OneReplies
    Versions <- OneVersions
    Lookups <- NoSets
    ClusterTimes <- NoSets
    SrvMaxHosts = 0
    None = None
    Garbled = Garbled
    Ops = {p1, p2}
    Filler = Filler
    Warm = FALSE
    MonitorErrors <- OneMonitorErrors
    AppErrors <- OneAppErrors
    Heartbeats = TRUE
    Closes = TRUE
    MaxGeneration = 1
    MaxJoins = 2
INVARIANTS
    PublishedIsReady
    FailedIsPaused
PROPERTIES
    OutageClearsOnce
CHECK_DEADLOCK FALSE
