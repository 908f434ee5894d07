SPECIFICATION FairSpec
CONSTANTS
    Clients = {c1, c2}
    Wanted <- AllWanted
    Found <- AllFound
    MaxTasks = 3
    Limits = {0, 1}
    ClearsResults = TRUE
    MaxCommands = 2
    MaxFaults = 1
CHECK_DEADLOCK FALSE
INVARIANTS
    TaskIsAsAsked
    OneTaskPerName
    ResultIsOwn
PROPERTY CommandsEnd
