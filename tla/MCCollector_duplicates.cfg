SPECIFICATION Spec
CONSTANTS
    h1 = h1
    h2 = h2
    PdhCode <- MCPdhCode
    IgnoredErrors = {}
    Fault <- NoFaults
    Host = {h1, h2}
    Handle = {q1, q2}
    NoHandle = NoHandle
    Counter <- EnglishCounters
    Name <- MCName
    Missing = {}
    UseWildcardsExpansion = FALSE
    EmptyInstance = "------"
    TotalNames <- MCTotalNames
    PrefixPairs <- MCPrefixPairs
    Answer <- TwoProcesses
    ReportedName <- MCReportedName
    FieldName <- MCFieldName
    fieldName <- MCfieldName
    CounterOf <- MCCounterOf
    HasObject = TRUE
    Config <- Star
    RefreshEnabled = TRUE
    UsePerfCounterTime = FALSE
    LocalizeWildcardsExpansion = TRUE
    WildcardCounters = {"*"}
    Expansion <- MCExpansion
    Localhost = h1
INVARIANTS NoValueDropped
