SPECIFICATION Spec
CONSTANTS
    Users = {u1}
    Requests = {r1}
    Rows = {k1, k2}
    AccessTTL = 2
    RefreshTTL = 3
    MaxTime = 3
    MaxVersion = 1
    None = None
SYMMETRY MCSymmetry
CHECK_DEADLOCK FALSE
INVARIANTS
    NoHandlerPanics
