SPECIFICATION Spec
CONSTANTS
    Trees <- LimitTrees
    Infinity = 9
    NumBfs = 2
    NumDiving = 1
    Step = 3
    DivesPerWorker = 2
    Reuse = FALSE
    LastWork = 10
    Heuristics <- LimitNone
    WorkLimit <- LimitWork
    TimeLimit <- LimitNever
    InitialUpper <- LimitUpper
INVARIANT OptimalIsProved
CHECK_DEADLOCK FALSE
