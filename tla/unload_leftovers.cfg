SPECIFICATION Spec
CONSTANTS
    Strategies = {"bigquery"}
    MaxFiles = 3
    MaxTries = 4
INVARIANTS
    OnlyProduced
CHECK_DEADLOCK FALSE
