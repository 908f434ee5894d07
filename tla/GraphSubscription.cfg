SPECIFICATION Spec
CONSTANTS
    Users = {u1, u2}
    Subs = {s1, s2}
    Conns = {c1, c2}
    None = None
    CallbackUsesClient = FALSE
SYMMETRY Symmetry
INVARIANTS
    TypeOK
    NoCallbackAfterStop
    NoUseAfterDestroy
    OrphansAreFailedStarts
    OneOpenConnection
