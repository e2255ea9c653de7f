CONSTANTS
    h1 = h1
    h2 = h2
    Handlers = {h1, h2}
    Cancels = TRUE
    Deletes = TRUE
    MaxFaults = 1
SPECIFICATION Spec
INVARIANTS
    AnswerWasTrue
PROPERTIES
    WaitReturnsUnlessDeleted
CHECK_DEADLOCK FALSE
