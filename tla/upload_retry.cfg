SPECIFICATION Spec
CONSTANTS
    NumWriters = 2
    MaxBlocks = 3
    SimpleLimit = 2
    UploadRetries = 1
INVARIANTS
    TypeOK
    OneVersion
    ReturnedIsThere
PROPERTIES
    UploadEnds
