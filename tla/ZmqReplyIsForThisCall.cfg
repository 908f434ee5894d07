SPECIFICATION Spec
CONSTANTS
    MaxCalls = 2
    Timeouts = {0, 2}
    HasPreempt = FALSE
INVARIANT ReplyIsForThisCall
