SPECIFICATION Spec
CONSTANTS
    h1 = h1
    h2 = h2
    PdhCode <- MCPdhCode
    IgnoredErrors = {}
    Fault <- AllFaults
    Host = {h1, h2}
    Handle = {q1, q2, q3}
    NoHandle = NoHandle
    Counter <- EnglishCounters
    Name <- MCName
    Missing <- OneMissing
    UseWildcardsExpansion = FALSE
    EmptyInstance = "------"
    TotalNames <- MCTotalNames
    PrefixPairs <- MCPrefixPairs
    Answer <- MCAnswer
    ReportedName <- MCReportedName
    FieldName <- MCFieldName
    fieldName <- MCfieldName
    CounterOf <- MCCounterOf
    HasObject = TRUE
    Config <- TwoHosts
    RefreshEnabled = TRUE
    UsePerfCounterTime = TRUE
    LocalizeWildcardsExpansion = TRUE
    WildcardCounters = {"*"}
    Expansion <- MCExpansion
    Localhost = h1
INVARIANTS
    NoQueryLeaked LiveHandles TwoSamples DeliveredFresh RequestedOnly TotalsLeftOut
    NoValueDropped
PROPERTIES ContractKept SourceTagStable
