CONSTANTS
    s1 = s1
    s2 = s2
    r1 = r1
    r2 = r2
    r3 = r3
    v1 = v1
    v2 = v2
    Senders = {s1, s2}
    Receivers = {r1, r2, r3}
    FirstSender = s1
    FirstReceiver = r1
    Values = {v1, v2}
    MaxSends = 3
    Nodes = {1, 2, 3, 4}
    NoNode = NoNode
    Nothing = Nothing
SPECIFICATION LSpec
INVARIANTS
    CountsMatchHandles
    NoLostWakeup
    ClosedReleasesWaiters
    FifoExactlyOnce
    HeapIntact
    ListHoldsQueue
PROPERTIES
    ClosedIsFinal
    ImplementsChannel
CHECK_DEADLOCK FALSE
