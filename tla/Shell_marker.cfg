SPECIFICATION Spec
CONSTANTS
    Symbol <- Symbols
    MaxLen = 12
    BufferSize = 15
    Batches <- TypedBatches
    Inputs = {"terminal", "pipe"}
    MaxBatches = 1
    Capacity = 1
    AllocFails = FALSE
INVARIANT
    MarkerCounts
