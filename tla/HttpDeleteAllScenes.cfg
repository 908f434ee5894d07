SPECIFICATION FairSpec
CONSTANTS
    Threads = {t1, t2}
    NoThread = NoThread
    Ops = {"get", "deleteAllScenes"}
    Solo = {}
    MaxCalls = 2
CHECK_DEADLOCK FALSE
PROPERTY DeleteAllScenesReturns
