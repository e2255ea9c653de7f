CONSTANTS
    NumWorkers = 1
    Trees <- RacingTrees
    Infinity = 5
    Integral = FALSE
    NodesPerSteal = 1
    MinQueue <- RacingOne
    MaxSolutions <- RacingOne
    Limits <- RacingNone
    InitialUpper <- RacingUpper
SPECIFICATION Spec
INVARIANTS
    OptimalIsProved
CHECK_DEADLOCK FALSE
