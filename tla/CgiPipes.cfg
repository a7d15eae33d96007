CONSTANTS
    p1 = p1
    p2 = p2
    Requests = {p1, p2}
    Server = Server
    Cap = 1
    Headers = 1
    Bodies = {0, 3}
    Reply = 2
SPECIFICATION Spec
INVARIANTS
    RequestIntact
    EndsAccounted
    FailureHasCause
PROPERTIES
    CgiAnswered
CHECK_DEADLOCK FALSE
