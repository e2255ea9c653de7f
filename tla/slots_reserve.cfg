CONSTANTS
    MAX_JOBS = 1
    p1 = p1
    p2 = p2
    w1 = w1
    j1 = j1
    j2 = j2
    None = None
    Submitters = {p1, p2}
    Workers = {w1}
    FirstWorkers = {w1}
    Jobs = {j1, j2}
SPECIFICATION Spec
INVARIANT ReservedSlotIsFree
CHECK_DEADLOCK FALSE
