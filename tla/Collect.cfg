CONSTANTS
    N = 3
SPECIFICATION Spec
INVARIANTS
    EveryInputAddedOnce
    Barrier
    ResultSetOnce
PROPERTIES
    CallbacksEnd
    CallerReturns
CHECK_DEADLOCK FALSE
