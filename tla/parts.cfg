SPECIFICATION MCSpec
CONSTANTS
    MemoryLimit = 1024
    MaxWorkers = 6
    ChunkRows = 15000
    Widths = {64, 1024}
    MaxBatches = 6
    Names <- TwoNames
    Exports = {1, 2}
    Paths <- SomePaths
    ReportRows = 1
    ReportCalls = 2
    SqlParams <- MCSqlParams
    Contexts <- MCContexts
    ShardMaps <- MCShardMaps
    TemplateCalls = 2
INVARIANTS
    PartsTypeOK
    PeakBounded
    Released
    PluginsOnlyAdd
    VerdictMeans
    ProbeRemoved
    ManifestApart
    TotalsAgree
    WindowInEffect
    NamesApart
CHECK_DEADLOCK FALSE
