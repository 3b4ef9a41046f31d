SPECIFICATION Spec
CONSTANTS
    MaxReorgDepth = 3
    PageSize = 2
    InitialHead = 5
    Settings <- MCSettings
    MaxHead = 8
    MaxReorgs = 2
    MaxStops = 2
INVARIANTS
    StateIsChain
    NeverRefused
PROPERTIES
    CatchesUp
CHECK_DEADLOCK FALSE
