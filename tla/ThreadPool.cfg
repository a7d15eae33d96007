CONSTANTS
    w1 = w1
    w2 = w2
    t1 = t1
    t2 = t2
    t3 = t3
    Workers = {w1, w2}
    Tasks = {t1, t2, t3}
    Pill = Pill
    S0 = S0
    SP = SP
    ST = ST
    R0 = R0
    RP = RP
SPECIFICATION Spec
INVARIANTS
    WorkersNeverSeeClosed
    TaskInOnePlace
    ShutdownRunsEarlierTasks
PROPERTIES
    ThrowMeansWorkersDown
    AcceptedTaskRuns
    ShutdownReturns
