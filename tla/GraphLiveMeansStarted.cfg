SPECIFICATION Spec
CONSTANTS
    Users = {u1}
    Subs = {s1, s2}
    Conns = {c1}
    None = None
    CallbackUsesClient = FALSE
INVARIANT LiveMeansStarted
