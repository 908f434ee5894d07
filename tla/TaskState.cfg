SPECIFICATION FairSpec
CONSTANTS
    Slaves = {s1, s2}
    None = None
    InitSlaves = {s1, None}
    Kinds = {"present", "timeless", "absent", "garbage", "broken"}
    ReinitTimeout = 1
    MaxVersion = 2
    MaxInits = 2
    MaxDrops = 1
    MaxQueue = 1
CHECK_DEADLOCK FALSE
INVARIANTS
    TypeOK
    NotOlderThanPublished
    StateIsOfSlave
PROPERTIES
    DestructorReturns
    CacheCatchesUp
