CONSTANTS
    w1 = w1
    w2 = w2
    MAX_RESULTS = 2
    Writers = {w1, w2}
    MaxProduced = 3
    MaxDeaths = 1
SPECIFICATION ResultSpec
INVARIANTS
    ReadsWhatWasWritten
    NothingLost
PROPERTIES
    VisibleIsRecycled
