SPECIFICATION FairSpec
CONSTANTS
    h1 = h1
    h2 = h2
    PdhCode <- MCPdhCode
    IgnoredErrors = {}
    Fault <- QueryKeptFaults
    Host = {h1, h2}
    Handle = {q1, q2}
    NoHandle = NoHandle
    Counter <- WithLocal
    Name <- MCName
    Missing = {}
    UseWildcardsExpansion = TRUE
    EmptyInstance = "------"
    TotalNames <- MCTotalNames
    PrefixPairs <- MCPrefixPairs
    Answer <- MCAnswer
    ReportedName <- MCReportedName
    FieldName <- MCFieldName
    fieldName <- MCfieldName
    CounterOf <- MCCounterOf
    HasObject = TRUE
    Config <- ThreeItems
    RefreshEnabled = TRUE
    UsePerfCounterTime = TRUE
    LocalizeWildcardsExpansion = FALSE
    WildcardCounters = {"*"}
    Expansion <- LocalExpansion
    Localhost = h1
INVARIANTS RequestedOnly
PROPERTIES GatherReturns Recovers
