CONSTANTS
    Leaves = 3
    Depth = 3
SPECIFICATION Spec
INVARIANTS
    SettersKeepTheState
    LoopIsSafe
    OneResumption
PROPERTIES
    EndsUnlessThrown
CHECK_DEADLOCK FALSE
