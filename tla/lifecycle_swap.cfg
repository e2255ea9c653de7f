CONSTANTS
    w1 = w1
    j1 = j1
    j2 = j2
    j3 = j3
    None = None
    NumSlots = 2
    NumResults = 2
    Workers = {w1}
    Jobs = {j1, j2, j3}
    ChunkedJobs = {}
    Malformed = {}
    MaxDeaths = 0
    MaxCancels = 0
    SlowDispatch = FALSE
    PipeHolds = 1
    Deletes = FALSE
SPECIFICATION Spec
SYMMETRY Symmetry
INVARIANTS
    CompletedWithOwnSolution
CHECK_DEADLOCK FALSE
