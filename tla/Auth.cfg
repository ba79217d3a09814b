SPECIFICATION Spec
CONSTANTS
    Users = {u1}
    Requests = {r1, r2}
    Rows = {k1, k2}
    AccessTTL = 1
    RefreshTTL = 2
    MaxTime = 2
    MaxVersion = 1
    None = None
SYMMETRY MCSymmetry
CHECK_DEADLOCK FALSE
INVARIANTS
    AcceptedIsCurrent
    RotatedIsSpent
    LogoutAllEnds
