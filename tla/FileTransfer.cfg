SPECIFICATION Spec
CONSTANTS
    Users = {u1, u2}
    Uploads = {r1, r2}
    Downloads = {d1}
    Ids = {i1, i2, i3}
    small = small
    large = large
    huge = huge
    empty = empty
    Content <- MCContent
    SizeOf <- MCSizeOf
    EmptyBytes = empty
    None = None
    Batches <- MCBatches
    MaxFileSize = 2
SYMMETRY MCSymmetry
CHECK_DEADLOCK FALSE
INVARIANTS
    ConfirmedIsStored
    ResultsAreDurable
    ConfirmedIsServed
    LeftoversAreBounded
    ObjectsHaveRows
PROPERTIES
    ConfirmedIsFinal
    ImplementsCatalog
