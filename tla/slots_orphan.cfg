CONSTANTS
    MAX_JOBS = 1
    p1 = p1
    w1 = w1
    j1 = j1
    None = None
    Submitters = {p1}
    Workers = {w1}
    FirstWorkers = {w1}
    Jobs = {j1}
SPECIFICATION Spec
INVARIANT NoOrphanedSlot
CHECK_DEADLOCK FALSE
