SPECIFICATION Spec
CONSTANTS
    NumExports = 2
    MaxDirs = 4
    MaxFaults = 2
    Day = 1
INVARIANTS
    TypeOK
    SafeForADay
PROPERTIES
    LeftoversGo
