SPECIFICATION Spec
CONSTANTS
    Clients = {c1, c2}
    AllGrabs = {g1, g2, g3}
    None = None
    MaxCalls = 5
    MaxFaults = 1
SYMMETRY Symmetry
INVARIANTS
    CopyIsCurrent
    ReturnedMeansDone
PROPERTY GrabsStay
