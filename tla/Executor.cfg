SPECIFICATION FairSpec
CONSTANTS
    t1 = t1
    t2 = t2
    s1 = s1
    s2 = s2
    Tasks = {t1, t2}
    Cleanup = cleanup
    MaxOps = 4
    None = None
    Clients <- ManyClients
INVARIANTS
    ServerSessionExclusive
    CommitAnswerIsTrue
    CommitsOneAttempt
PROPERTIES
    ImplementsWriteOnce
    ComesToRest
CHECK_DEADLOCK FALSE
