CONSTANTS
    MaxTokens = 6
    Files <- MCFiles
    PathOf <- Paths
    Requests <- MCRequests
SPECIFICATION Spec
INVARIANTS
    AcceptsRepairable
    KeepsEveryOperator
    RoutesToLongestPrefix
CHECK_DEADLOCK FALSE
