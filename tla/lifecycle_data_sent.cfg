CONSTANTS
    w1 = w1
    j1 = j1
    j2 = j2
    None = None
    NumSlots = 1
    NumResults = 1
    Workers = {w1}
    Jobs = {j1, j2}
    ChunkedJobs = {}
    Malformed = {}
    MaxDeaths = 0
    MaxCancels = 0
    SlowDispatch = FALSE
    PipeHolds = 1
    Deletes = FALSE
SPECIFICATION Spec
SYMMETRY Symmetry
INVARIANTS
    DataSentMeansSent
CHECK_DEADLOCK FALSE
