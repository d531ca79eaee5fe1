SPECIFICATION StreamsSpec
CONSTANTS
    None = None
    Primary = Primary
    Secondary = Secondary
    MaxLog = 3
    MaxTrouble = 2
    Streams <- ManyStreams
    New = New
    Old = Old
    ChunkSize = 2
    Buckets <- ManyBuckets
    Careless = FALSE
    MaxFailures = 1
    Jobs <- ManyJobs
    MaxOperations = 2
    MaxMessage = 5
    MaxEncrypted = 3
    MaxDocument = 4
    MaxLost = 2
INVARIANTS
    
    
    
    
    DownloadIsExact
    EachWriteOnceInOrder
    OutcomeIsExact

    
CHECK_DEADLOCK FALSE
