CONSTANTS
    h1 = h1
    Handlers = {h1}
    Cancels = TRUE
    Deletes = TRUE
    MaxFaults = 0
SPECIFICATION Spec
PROPERTIES
    EveryWaitReturns
CHECK_DEADLOCK FALSE
