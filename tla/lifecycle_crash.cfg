CONSTANTS
    w1 = w1
    j1 = j1
    None = None
    NumSlots = 1
    NumResults = 1
    Workers = {w1}
    Jobs = {j1}
    ChunkedJobs = {j1}
    Malformed = {}
    MaxDeaths = 1
    MaxCancels = 0
    SlowDispatch = FALSE
    PipeHolds = 1
    Deletes = FALSE
SPECIFICATION Spec
SYMMETRY Symmetry
INVARIANTS
    PayloadDroppedAtEnd
    CancelledOnlyOnRequest
CHECK_DEADLOCK FALSE
