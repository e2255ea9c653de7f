CONSTANTS
    NumWorkers = 2
    Trees <- SmallTrees
    Infinity = 5
    Integral = TRUE
    NodesPerSteal = 1
    MinQueue <- SmallQueue
    MaxSolutions <- SmallSolutions
    Limits <- SmallLimits
    InitialUpper <- SmallUpper
SPECIFICATION Spec
INVARIANTS
    EveryNodeHeldOnce
    NoUseAfterFree
    OptimumNotDiscarded
    StoppedWhenExplored
    FinalBoundIsValid
    VerdictIsSound
PROPERTIES
    SearchEnds
CHECK_DEADLOCK FALSE
