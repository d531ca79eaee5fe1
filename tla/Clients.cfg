SPECIFICATION ClientsSpec
CONSTANTS
    None = None
    Uris <- ManyUris
    Answers <- ManyAnswers
    Sockets = {s1, s2}
    Setups <- ManySetups
    MaxTokens = 3
    MaxEvents = 2
    MaxRounds = 2
    Inherit = Inherit
    NotSupported = NotSupported
    Configurations <- AllConfigurations
INVARIANTS
    SpellingIrrelevant
    AcceptedIsCoherent
    
    SaltedPasswordIsOwn
    OneCallbackWhenNeeded
    StaleIffCleared
    
    SessionReads
    ExecutedOnce
PROPERTIES
    EveryAttemptEnds
CHECK_DEADLOCK FALSE
