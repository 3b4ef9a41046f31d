SPECIFICATION Spec
CONSTANTS
    MaxInFlight = 2
    ResubmitAfter = 1
    MaxReorgDepth = 1
    Lifetimes = {0, 1}
    MaxRows = 2
    MaxHead = 4
    MaxReorgs = 1
    MaxStops = 1
INVARIANTS
    ExecutedOnce
    NoNonceGap
PROPERTIES
    PrunedIsExecuted
CHECK_DEADLOCK FALSE
