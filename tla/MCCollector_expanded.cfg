SPECIFICATION Spec
CONSTANTS
    h1 = h1
    h2 = h2
    PdhCode <- MCPdhCode
    IgnoredErrors = {"PDH_NO_DATA"}
    Fault <- AllFaults
    Host = {h1, h2}
    Handle = {q1, q2, q3}
    NoHandle = NoHandle
    Counter <- WithWildcard
    Name <- MCName
    Missing = {}
    UseWildcardsExpansion = TRUE
    EmptyInstance = "------"
    TotalNames <- MCTotalNames
    PrefixPairs <- MCPrefixPairs
    Answer <- MCAnswer
    ReportedName <- MCReportedName
    FieldName <- MCFieldName
    fieldName <- MCfieldName
    CounterOf <- MCCounterOf
    HasObject = TRUE
    Config <- WildHosts
    RefreshEnabled = TRUE
    UsePerfCounterTime = FALSE
    LocalizeWildcardsExpansion = TRUE
    WildcardCounters = {"*"}
    Expansion <- MCExpansion
    Localhost = h1
INVARIANTS
    CollectorTypeOK NoQueryLeaked LiveHandles TwoSamples DeliveredFresh RequestedOnly
    TotalsLeftOut NoValueDropped UnknownErrorReported
PROPERTIES ContractKept
