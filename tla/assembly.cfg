CONSTANTS
    ElemSizes <- Sizes
    MaxArrayBytes = 6
    MaxElements = 3
    MaxChunkBytes = 6
    MaxPieces = 3
SPECIFICATION ArraySpec
INVARIANTS
    WorkerUndisturbed
    WrittenExactly
    GoodUploadWritten
CHECK_DEADLOCK FALSE
