SPECIFICATION ReadsSpec
CONSTANTS
    Users = {u1, u2}
    Files = {f1, f2, f3, f4}
    Readers = {r1}
    Sizes = {1, 2, 9, 17}
    DefaultPageSize = 2
    IntLimit = 8
    MaxTime = 2
    None = None
SYMMETRY MCSymmetry
CHECK_DEADLOCK FALSE
INVARIANTS
    WalkMissesNothing
    ListedIsFound
