CONSTANTS
    w1 = w1
    j1 = j1
    None = None
    NumSlots = 1
    NumResults = 1
    Workers = {w1}
    Jobs = {j1}
    ChunkedJobs = {}
    Malformed = {}
    MaxDeaths = 0
    MaxCancels = 0
    SlowDispatch = TRUE
    PipeHolds = 0
    Deletes = FALSE
SPECIFICATION FairSpec
PROPERTIES
    EveryJobAlwaysEnds
CHECK_DEADLOCK FALSE
