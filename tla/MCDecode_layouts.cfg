SPECIFICATION DecodeSpec
CONSTANTS
    TwoUnits = {"U+10400"}
    Symbol <- MCSymbol
    Input <- MCInput
    Counters <- MCCounters
    MaxFound = 2
    MaxSpare = 2
    Reader <- OtherReaders
    MaxItems = 3
    MaxPathLen = 0
INVARIANTS ItemsDecoded
