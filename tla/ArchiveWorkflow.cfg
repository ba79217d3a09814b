SPECIFICATION FairSpec
CONSTANTS
    f1 = f1
    f2 = f2
    Files <- MCFiles
    Workers = {w1, w2}
    MaxAttempts = 2
CHECK_DEADLOCK FALSE
INVARIANTS
    ArchiveIsExact
    ZipFindsFiles
    LeftoversAreLate
PROPERTIES
    DownloadsRetryAlone
    ImplementsJob
    WorkflowCloses
