CONSTANTS
    NumWorkers = 1
    Trees <- FailingTrees
    Infinity = 5
    Integral = FALSE
    NodesPerSteal = 1
    MinQueue <- FailingOne
    MaxSolutions <- FailingOne
    Limits <- FailingNone
    InitialUpper <- FailingUpper
SPECIFICATION Spec
INVARIANTS
    InfeasibleIsProved
CHECK_DEADLOCK FALSE
