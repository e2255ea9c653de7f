SPECIFICATION TwinSpec
CONSTANTS
    Trees <- TwinTrees
    Infinity = 9
    NumBfs = 2
    NumDiving = 1
    Step = 2
    DivesPerWorker = 1
    Reuse = TRUE
    LastWork = 8
    Heuristics <- TwinHeuristics
    WorkLimit <- TwinWorkLimit
    TimeLimit <- TwinTimeLimit
    InitialUpper <- TwinUpper
INVARIANT RunsAgree
CHECK_DEADLOCK FALSE
