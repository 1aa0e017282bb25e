SPECIFICATION Spec
CONSTANTS
    MaxBatches = 3
    QueueCap = 2
    SentinelTries = 2
    HasTimeout = FALSE
    HasCancel = FALSE
    ValidateParquet = TRUE
PROPERTY ReaderEndsWriter
