SPECIFICATION Spec
CONSTANTS
    MaxBatches = 4
    QueueCap = 2
    SentinelTries = 2
    HasTimeout = TRUE
    HasCancel = TRUE
    ValidateParquet = TRUE
INVARIANTS
    TypeOK
    UploadIsWhole
    EmptyMeansEmpty
    CleanupSafe
PROPERTIES
    StopEndsShard
    Termination
    HangOnlyAfterGiveUp
    ImplementsContract
