SPECIFICATION LiveSpec
CONSTANTS
    MaxChunks = 3
    Window = 2
    Absent = Absent
CHECK_DEADLOCK FALSE
INVARIANTS
    RowIsWholeFile
    OrphanIsLate
    NoCircularWait
PROPERTIES
    UploadReturns
    PumpEnds
