SPECIFICATION Spec
CONSTANTS
    Threads = {t1, t2}
    NoThread = NoThread
    Ops = {"get", "postForm", "setAdditionalHeaders"}
    Solo = {}
    MaxCalls = 3
CHECK_DEADLOCK FALSE
INVARIANT AdditionalHeadersOnAllRequests
