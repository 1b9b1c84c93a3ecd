SPECIFICATION FairSpec
CONSTANTS
    h1 = h1
    h2 = h2
    PdhCode <- MCPdhCode
    IgnoredErrors = {}
    Fault <- OpenFaults
    Host = {h1, h2}
    Handle = {q1, q2}
    NoHandle = NoHandle
    Counter <- EnglishCounters
    Name <- MCName
    Missing = {}
    UseWildcardsExpansion = FALSE
    EmptyInstance = "------"
    TotalNames <- MCTotalNames
    PrefixPairs <- MCPrefixPairs
    Answer <- MCAnswer
    ReportedName <- MCReportedName
    FieldName <- MCFieldName
    fieldName <- MCfieldName
    CounterOf <- MCCounterOf
    HasObject = TRUE
    Config <- OneEach
    RefreshEnabled = TRUE
    UsePerfCounterTime = FALSE
    LocalizeWildcardsExpansion = TRUE
    WildcardCounters = {"*"}
    Expansion <- MCExpansion
    Localhost = h1
PROPERTIES Recovers
