SPECIFICATION BufferSpec
CONSTANTS
    InitialBufferSize = 2
    UintModulus = 16
    ConfiguredSizes = {2, 7, 8, 15}
    MaxRequired = 15
INVARIANTS AcceptedSizeBounds
