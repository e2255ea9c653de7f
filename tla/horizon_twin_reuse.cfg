SPECIFICATION TwinSpec
CONSTANTS
    Trees <- AgainTrees
    Infinity = 9
    NumBfs = 2
    NumDiving = 1
    Step = 2
    DivesPerWorker = 1
    Reuse = TRUE
    LastWork = 8
    Heuristics <- AgainNone
    WorkLimit <- AgainNoLimit
    TimeLimit <- AgainNever
    InitialUpper <- AgainUpper
INVARIANT RunsAlwaysAgree
CHECK_DEADLOCK FALSE
