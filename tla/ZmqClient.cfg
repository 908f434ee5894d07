SPECIFICATION FairSpec
CONSTANTS
    MaxCalls = 3
    Timeouts = {0, 2}
    HasPreempt = TRUE
INVARIANTS
    TypeOK
    SentReplyIsOwn
    ExecutedAtMostOnce
    AbandonedCallIsHarmless
PROPERTIES
    CallTerminates
    ImplementsRpc
