SPECIFICATION Spec
CONSTANTS
    MaxBatches = 4
    QueueCap = 2
    SentinelTries = 2
    HasTimeout = FALSE
    HasCancel = FALSE
    ValidateParquet = TRUE
INVARIANT UploadedComplete
