SPECIFICATION FairSpec
CONSTANTS
    Trees <- SmallTrees
    Infinity = 9
    NumBfs = 2
    NumDiving = 1
    Step = 2
    DivesPerWorker = 2
    Reuse = TRUE
    LastWork = 10
    Heuristics <- SmallHeuristics
    WorkLimit <- SmallWorkLimit
    TimeLimit <- SmallTimeLimit
    InitialUpper <- SmallUpper
INVARIANT NobodyOutrunsTheBarrier
INVARIANT EveryNodeHeldOnce
INVARIANT OptimumNotDiscarded
INVARIANT NothingFromThePast
INVARIANT StatusIsSound
PROPERTY SearchEnds
CHECK_DEADLOCK FALSE
