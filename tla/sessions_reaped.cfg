CONSTANTS
    u1 = u1
    d1 = d1
    h1 = h1
    Uploads = {u1}
    Downloads = {d1}
    Handlers = {h1}
    MaxSessions = 1
    Timeout = 2
    MaxChunks = 1
    MaxReads = 1
    ArraySize = 1
    NoId = NoId
SPECIFICATION Spec
PROPERTIES
    StaleSessionsReaped
