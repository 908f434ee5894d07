SPECIFICATION FairSpec
CONSTANTS
    Users = {u1, u2}
    Subs = {s1, s2}
    Conns = {c1}
    None = None
    CallbackUsesClient = FALSE
PROPERTIES
    EveryoneHearsOfTheEnd
    OperationsEnd
