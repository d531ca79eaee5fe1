SPECIFICATION FamilySpec
CONSTANTS
    a1 = a1
    a2 = a2
    a3 = a3
    Addresses <- MCAddresses
    Options <- AllOptions
    Replies <- AllReplies
    Versions <- SummaryVersions
    Lookups <- SrvLookups
    ClusterTimes <- SummaryTimes
    SrvMaxHosts = 2
    None = None
    Garbled = Garbled
INVARIANTS
    OnePrimary
    NewestPrimary
    HostsListed
    SummariesExact
