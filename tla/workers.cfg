CONSTANTS
    NumWorkers = 2
    SpawnRetries = 2
    MaxFailures = 1
    Hangs = TRUE
    SpawnFails = TRUE
    Wedges = TRUE
SPECIFICATION Spec
INVARIANTS
    PidsAreOwn
    NoWorkerLeftBehind
PROPERTIES
    HungWorkerStopsServer
    ShutdownCompletes
    DeadIsReplaced
CHECK_DEADLOCK FALSE
