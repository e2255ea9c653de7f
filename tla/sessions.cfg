CONSTANTS
    u1 = u1
    d1 = d1
    d2 = d2
    h1 = h1
    h2 = h2
    Uploads = {u1}
    Downloads = {d1, d2}
    Handlers = {h1, h2}
    MaxSessions = 1
    Timeout = 1
    MaxChunks = 2
    MaxReads = 1
    ArraySize = 2
    NoId = NoId
SPECIFICATION Spec
SYMMETRY Symmetry
INVARIANTS
    TypeOK
    SessionLimits
    OneJobPerUpload
PROPERTIES
    ActiveUploadSurvives
