SPECIFICATION Spec
CONSTANTS
    NumExports = 2
    MaxDirs = 4
    MaxFaults = 0
    Day = 1
INVARIANT
    OnlyLeftovers
