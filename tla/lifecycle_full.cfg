CONSTANTS
    w1 = w1
    j1 = j1
    j2 = j2
    None = None
    NumSlots = 1
    NumResults = 1
    Workers = {w1}
    Jobs = {j1, j2}
    ChunkedJobs = {j1, j2}
    Malformed = {}
    MaxDeaths = 1
    MaxCancels = 1
    SlowDispatch = TRUE
    PipeHolds = 1
    Deletes = TRUE
SPECIFICATION Spec
SYMMETRY Symmetry
INVARIANTS
    PayloadInOnePlace
    DeletedStaysDeleted
CHECK_DEADLOCK FALSE
