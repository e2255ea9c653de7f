CONSTANTS
    w1 = w1
    w2 = w2
    MAX_RESULTS = 1
    Writers = {w1, w2}
    MaxProduced = 4
    MaxDeaths = 0
SPECIFICATION ResultSpec
INVARIANTS
    WritersExclude
