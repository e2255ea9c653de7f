CONSTANTS
    w1 = w1
    j1 = j1
    j2 = j2
    None = None
    NumSlots = 2
    NumResults = 1
    Workers = {w1}
    Jobs = {j1, j2}
    ChunkedJobs = {j1, j2}
    Malformed = {j1}
    MaxDeaths = 0
    MaxCancels = 1
    SlowDispatch = TRUE
    PipeHolds = 0
    Deletes = FALSE
SPECIFICATION FairSpec
PROPERTIES
    EveryJobEnds
CHECK_DEADLOCK FALSE
