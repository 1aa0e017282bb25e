SPECIFICATION MCSpec
CONSTANTS
    Strategies = {"bigquery", "redshift", "snowflake"}
    MaxFiles = 3
    MaxTries = 4
    NumRuns = 2
    NumShards = 2
    MaxRows = 2
    WindowTries = 2
    MaxActive = 2
    Interval = 1
    Options <- MCOptions
INVARIANTS
    TypeOK
    ResultsAreProduced
    CatalogueMatchesWatermark
    RowsBackOnceDone
CHECK_DEADLOCK FALSE
