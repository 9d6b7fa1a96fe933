SPECIFICATION Spec
CONSTANTS
    Symbol <- Symbols
    MaxLen = 12
    BufferSize = 15
    Batches <- TypedBatches
    Inputs = {"terminal", "pipe"}
    MaxBatches = 4
    Capacity = 1
    AllocFails = TRUE
INVARIANTS
    TokensRight
    VariablesSound
    MemorySound
PROPERTIES
    EnvSpec
    MessageRight
