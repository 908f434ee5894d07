SPECIFICATION FairSpec
CONSTANTS
    Threads = {t1, t2}
    NoThread = NoThread
    Ops <- MostOps
    Solo <- MustBeSolo
    MaxCalls = 3
CHECK_DEADLOCK FALSE
INVARIANTS
    TypeOK
    RequestAsIntended
    ResponseIsOwn
    NothingLeftBehind
    HeadersAlive
    RouteIsOne
PROPERTIES
    HandleStable
    
