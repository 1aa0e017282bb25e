SPECIFICATION Spec
CONSTANTS
    NumRuns = 2
    NumShards = 2
    MaxRows = 3
    MaxTries = 3
    MaxActive = 2
    Interval = 1
    Options = {{"watermark_query"}, {"skip_if_exists"}, {}}
INVARIANTS
    TypeOK
    NothingLost
    ManifestSound
    CatalogueCovers
CHECK_DEADLOCK FALSE
