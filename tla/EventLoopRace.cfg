CONSTANTS
    f1 = f1
    f2 = f2
    f3 = f3
    w1 = w1
    w2 = w2
    Fds = {f1, f2, f3}
    Acceptor = f1
    Workers = {w1, w2}
    NoFd = NoFd
    NoThread = NoThread
    MaxOpens = 1
SPECIFICATION Spec
INVARIANTS
    EventMustBeHere
CHECK_DEADLOCK FALSE
