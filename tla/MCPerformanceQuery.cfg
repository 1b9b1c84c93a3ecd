SPECIFICATION Spec
CONSTANTS
    PdhCode <- MCPdhCode
    IgnoredErrors = {}
    Fault <- MCFault
    Host = {h1, h2}
    Handle = {q1, q2, q3}
    NoHandle = NoHandle
    Missing = {}
    Counter = {c1, c2}
    Name = {"i"}
    InitialBufferSize = 2
    UintModulus = 16
    ConfiguredSizes = {0, 1, 2, 3, 7, 8, 15, 16, 19, 23}
    MaxRequired = 15
    TwoUnits = {"U+10400"}
    Symbol <- MCSymbol
    Input <- MCInput
    Counters <- MCCounters
    MaxFound = 2
    MaxSpare = 2
    Reader <- SoundReaders
    MaxItems = 3
    MaxPathLen = 6
INVARIANTS
    QueryOwnership BufferTypeOK LimitMeansLarge PanicMeansHuge PathTypeOK
    PartsInOrder InBuffer OneUnitPathsArrive ItemsDecoded
PROPERTIES CallReturns
