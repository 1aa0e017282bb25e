SPECIFICATION Spec
CONSTANTS
    NumShards = 3
    MaxWorkers = 2
INVARIANTS
    TypeOK
    ReturnIsComplete
    NothingOutlivesRun
PROPERTIES
    FailureEndsRun
    ShardsKeepContract
    Termination
