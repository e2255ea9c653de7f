CONSTANTS
    MAX_JOBS = 2
    p1 = p1
    p2 = p2
    w1 = w1
    w2 = w2
    j1 = j1
    j2 = j2
    j3 = j3
    None = None
    Submitters = {p1, p2}
    Workers = {w1, w2}
    FirstWorkers = {w1, w2}
    Jobs = {j1, j2, j3}
SPECIFICATION Spec
SYMMETRY Symmetry
INVARIANTS
    TypeOK
    SlotOwnership
    WorksOnSelectedJob
    TicketsPublishedInOrder
    NoOvertaking
CHECK_DEADLOCK FALSE
