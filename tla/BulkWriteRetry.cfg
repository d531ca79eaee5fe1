SPECIFICATION WSpec
CONSTANTS
    None = None
    Jobs <- ManyJobs
    MaxOperations = 2
    MaxMessage = 5
    MaxEncrypted = 3
    MaxDocument = 4
    MaxLost = 2
CHECK_DEADLOCK FALSE
INVARIANT BulkWriteAttemptsAll
