SPECIFICATION FairSpec
CONSTANTS
    Users = {u1}
    Uploads = {r1, r2}
    Downloads = {}
    Ids = {i1, i2}
    small = small
    large = large
    huge = huge
    empty = empty
    Content <- MCContent
    SizeOf <- MCSizeOf
    EmptyBytes = empty
    None = None
    Batches <- MCBatches
    MaxFileSize = 2
CHECK_DEADLOCK FALSE
PROPERTIES
    UploadsAreAnswered
