SPECIFICATION LiveSpec
CONSTANTS
    Files = {f1, f2, f3}
    MaxIds = 3
    Window = 1
CHECK_DEADLOCK FALSE
INVARIANTS
    WholeOrError
    NothingIsHeld
PROPERTIES
    RequestEnds
