CONSTANTS
    MAX_JOBS = 2
    p1 = p1
    w1 = w1
    w2 = w2
    w3 = w3
    j1 = j1
    j2 = j2
    None = None
    Submitters = {p1}
    Workers = {w1, w2, w3}
    FirstWorkers = {w1, w2}
    Jobs = {j1, j2}
SPECIFICATION Spec
SYMMETRY Symmetry
PROPERTIES
    PoolSpec
CHECK_DEADLOCK FALSE
