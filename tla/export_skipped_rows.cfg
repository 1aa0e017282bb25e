SPECIFICATION Spec
CONSTANTS
    NumRuns = 1
    NumShards = 1
    MaxRows = 2
    MaxTries = 2
    MaxActive = 1
    Interval = 1
    Options = {{"watermark_query", "skip_if_exists"}}
INVARIANTS
    NothingLost
CHECK_DEADLOCK FALSE
