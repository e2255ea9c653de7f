CONSTANTS
    w1 = w1
    j1 = j1
    None = None
    NumSlots = 1
    NumResults = 1
    Workers = {w1}
    Jobs = {j1}
    ChunkedJobs = {}
    Malformed = {}
    MaxDeaths = 0
    MaxCancels = 1
    SlowDispatch = FALSE
    PipeHolds = 1
    Deletes = FALSE
SPECIFICATION FairSpec
PROPERTIES
    TerminalIsFinal
CHECK_DEADLOCK FALSE
