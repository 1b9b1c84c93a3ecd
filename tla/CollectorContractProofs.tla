---------------------- MODULE CollectorContractProofs -----------------------
(***************************************************************************)
(* Proofs of what the caller of Gather sees, on top of the invariant of    *)
(* the collector: only requested values are delivered, Gather implements   *)
(* GatherContract, no value is lost and, with wildcard expansion, no error *)
(* is hidden.                                                              *)
(***************************************************************************)
EXTENDS CollectorProofs

(* The counters addItem may append for the host h: the handle is of what    *)
(* pdh.dll has for an item, and of what the labels say.                     *)
Serves(i, m) ==
    /\ i.useRawValue = m.useRawValue /\ i.includeTotal = m.includeTotal
    /\ IF UseWildcardsExpansion
       THEN \E p \in Found(i) :
              /\ m.counter = NameFor(i, p) /\ m.handle.path = <<NameFor(i, p), p[2]>>
              /\ m.instance = ParsedInstance(p[2])
              /\ ~SkipsTotal(i, m.instance)
       ELSE /\ i.counter = m.counter /\ i.instance = m.instance
            /\ m.handle.path = <<m.counter, m.instance>>

(* A counter with this handle and these labels is of the item.              *)
Labels(i, p, c, n) ==
    \A m \in Metric :
        /\ m.handle.path = p /\ m.counter = c /\ m.instance = n
        /\ m.useRawValue = i.useRawValue /\ m.includeTotal = i.includeTotal
        => Serves(i, m)

AskedMetric(h) ==
    {m \in Metric :
       \E k \in DOMAIN Config : Config[k].computer = h /\ Serves(Config[k], m)}

(* Below "*", pdh.dll finds no total but "_Total", and below another name   *)
(* none but the one of that name.                                           *)
TotalsAlone ==
    \A k \in DOMAIN Config : \A p \in Found(Config[k]) : p[2] \in TotalNames =>
        \/ Config[k].instance \in {p[2], EmptyInstance}
        \/ Config[k].instance = "*" /\ p[2] = "_Total"

(* The requested entries, without the totals nobody asked for.              *)
WantsTotal(h, e) ==
    \E k \in DOMAIN Config :
        /\ Config[k].computer = h /\ Requests(Config[k], e)
        /\ Config[k].includeTotal \/ Config[k].instance \in {e.instance, EmptyInstance}
Sought(h) ==
    {e \in Requested[h] :
       (UseWildcardsExpansion => TotalsAlone) /\ e.instance \in TotalNames
           => WantsTotal(h, e)}

(* From the expansion over the counters to the callback, nothing but that.  *)
PendingFound ==
    pc \in {"expanding", "adding"} =>
        \A j \in DOMAIN pending : pending[j] \in Found(Config[item])

CountersAsked ==
    \A h \in Host : \A i \in DOMAIN counters[h] : counters[h][i] \in AskedMetric(h)

InvRequested ==
    /\ PendingFound
    /\ CountersAsked
    /\ \A h \in Host : collectedFields[h] \subseteq Sought(h)
    /\ \A h \in Host : delivered[h] \subseteq Sought(h)

(* A host that owes an answer owes it once and has given none.              *)
InvOwed ==
    pc = "spawn" =>
        /\ todo \cap wg = {}
        /\ \A h \in todo \cup wg : delivered[h] = {}

(* No two counters share a field name.                                      *)
FieldsApart ==
    \A c, d \in Counter \X BOOLEAN : fieldName[c] = fieldName[d] => c = d

(* Arrays give every instance its own name, or the name with the index the  *)
(* item asked for.                                                          *)
InstancesApart ==
    \A n \in Name : \A insts \in Answer[n] : \A x \in insts :
        ReportedName[x] = x \/ <<ReportedName[x], n>> \in PrefixPairs

(* On no host does a formatted counter follow a raw one.                    *)
RawLast ==
    \A j, k \in DOMAIN Config :
        j < k /\ Config[j].computer = Config[k].computer /\ Config[j].useRawValue
            => Config[k].useRawValue

(* With expansion, a goroutine has met no unexpected error and, if counters *)
(* have field names of their own, has collected what it was answered.       *)
InvAnswered ==
    /\ \A h \in wg : ~failed[h]
    /\ UnknownErrorReported
    /\ FieldsApart => /\ \A h \in wg : collectedFields[h] = answered[h]
                      /\ NoValueDropped

(* The counters of a host are in the order of the configuration: each is of *)
(* an item that parseConfig has passed, and the raw ones come last.         *)
Passed == {j \in DOMAIN Config : pc = "parse" => j < item}
Ordered(h, s, items) ==
    \A k \in DOMAIN s :
       /\ \E j \in items : Config[j].computer = h /\ Config[j].useRawValue = s[k].useRawValue
       /\ \A k2 \in DOMAIN s : k < k2 /\ s[k].useRawValue => s[k2].useRawValue
InvOrder == \A h \in Host : Ordered(h, counters[h], Passed)

(* The entries of a host that are under the name of their instance.         *)
OwnName(h) ==
    {e \in Sought(h) :
       e.instance = IF UseWildcardsExpansion THEN ParsedInstance(e.value.instance)
                    ELSE e.value.instance}

(* A goroutine has collected what it was answered, and an err that an       *)
(* earlier counter left is seen by raw counters only, which overwrite it.   *)
InvArrays ==
    /\ \A h \in wg :
         /\ collectedFields[h] = answered[h] /\ answered[h] \subseteq OwnName(h)
         /\ readErr[h] # Nil =>
              \A k \in DOMAIN counters[h] : k >= pos[h] => counters[h][k].useRawValue
    /\ NoValueDropped
-----------------------------------------------------------------------------
(* Only requested values.                                                   *)

(* What pdh.dll finds for an item is a counter and an instance.             *)
LEMMA FoundType ==
    ASSUME NEW k \in DOMAIN Config, NEW p \in Found(Config[k])
    PROVE  /\ p = <<p[1], p[2]>> /\ p[1] \in Counter /\ p[2] \in Name
           /\ NameFor(Config[k], p) \in Counter
           /\ UseWildcardsExpansion =>
                /\ p[2] # NoInstance
                /\ InitAccepts => NameFor(Config[k], p) \notin WildcardCounters
<1> DEFINE i == Config[k]
<1>1. i \in Item
  BY ConfigAssumption, SMTT(30)
<1>2. i.counter \in Counter /\ i.instance \in Name /\ ItemPath(i) \in Path
  BY <1>1, ZenonT(30) DEF Item, ItemPath, Path
<1> HIDE DEF i
<1>3. UseWildcardsExpansion => p \in ExpandedPath
  <2> SUFFICES ASSUME UseWildcardsExpansion PROVE p \in ExpandedPath
    OBVIOUS
  <2>1. PICK list \in Expansion[ItemPath(i)] : p \in {list[j] : j \in DOMAIN list}
    BY Zenon DEF Found, Findings, i
  <2>2. list \in Seq(ExpandedPath)
    BY <1>2, <2>1, ConfigAssumption, ZenonT(30)
  <2> QED
    BY <2>1, <2>2, SMTT(30)
<1>4. ~UseWildcardsExpansion => p \in {i.counter} \X Name
  <2> SUFFICES ASSUME ~UseWildcardsExpansion PROVE p \in {i.counter} \X Name
    OBVIOUS
  <2>1. PICK insts \in Answer[i.instance] : p \in {i.counter} \X insts
    BY Zenon DEF Found, Findings, i
  <2>2. insts \in SUBSET Name
    BY <1>2, NameAssumption, SMTT(30)
  <2> QED
    BY <2>1, <2>2, ZenonT(30)
<1>5. p = <<p[1], p[2]>> /\ p[1] \in Counter /\ p[2] \in Name
  BY <1>2, <1>3, <1>4, SMTT(30) DEF ExpandedPath
<1>6. NameFor(i, p) \in Counter
  BY <1>2, <1>5, Zenon DEF NameFor
<1>7. ASSUME UseWildcardsExpansion PROVE p[2] # NoInstance /\ p[1] \notin WildcardCounters
  BY <1>3, <1>7, ZenonT(30) DEF ExpandedPath
<1>8. ASSUME UseWildcardsExpansion, InitAccepts PROVE NameFor(i, p) \notin WildcardCounters
  BY <1>7, <1>8, Zenon DEF NameFor, InitAccepts, i
<1> QED
  BY <1>5, <1>6, <1>7, <1>8, Zenon DEF i

(* An entry of an array is under its own name or the one reported for it.   *)
LEMMA ArrayRequested ==
    ASSUME ~UseWildcardsExpansion, NEW h \in Host, NEW m \in AskedMetric(h),
           NEW insts \in Answer[m.instance]
    PROVE  ArrayEntries(m, insts) \subseteq Sought(h)
<1>1. PICK k \in DOMAIN Config :
        /\ Config[k].computer = h /\ Config[k].useRawValue = m.useRawValue
        /\ Config[k].includeTotal = m.includeTotal
        /\ Config[k].counter = m.counter /\ Config[k].instance = m.instance
        /\ m.handle.path = <<m.counter, m.instance>> /\ m \in Metric
  BY Zenon DEF AskedMetric, Serves
<1>2. insts \in SUBSET Name /\ m.instance \in Name /\ m.counter \in Counter
  BY <1>1, NameAssumption, ZenonT(30) DEF Metric
<1> SUFFICES ASSUME NEW x \in insts,
                    shouldIncludeMetric(m, InstanceName(m, ReportedName[x]))
             PROVE  NewEntry(m, InstanceName(m, ReportedName[x]), x) \in Sought(h)
  BY SMTT(30) DEF ArrayEntries, NewEntry
<1> DEFINE n == InstanceName(m, ReportedName[x])
           e == NewEntry(m, n, x)
           p == <<m.counter, x>>
<1>4. n \in Name /\ x \in Name
  BY <1>2, NameAssumption, ZenonT(30) DEF InstanceName
<1>5. n \in {x, ReportedName[x]}
  BY <1>2, NameAssumption, SMTT(30) DEF InstanceName
<1>6. e \in Entry
  BY <1>1, <1>4, EntryType, ZenonT(30)
<1>7. /\ m.includeTotal \/ n \notin TotalNames \/ m.instance \in {n, EmptyInstance}
  BY ZenonT(30) DEF shouldIncludeMetric
<1>8. /\ e.field = fieldName[<<m.counter, m.useRawValue>>] /\ e.instance = n
      /\ e.value.counter = CounterOf[m.counter] /\ e.value.raw = m.useRawValue
      /\ e.value.instance = x
  BY <1>1, SMTT(30) DEF NewEntry
<1>9. p \in Found(Config[k]) /\ p[1] = m.counter /\ p[2] = x
  <2>1. p \in {m.counter} \X insts /\ p[1] = m.counter /\ p[2] = x
    OBVIOUS
  <2> QED
    BY <1>1, <2>1, Zenon DEF Found, Findings
<1>10. NameFor(Config[k], p) = m.counter
  BY <1>1, Zenon DEF NameFor
<1> HIDE DEF e, n, p
<1>11. Requests(Config[k], e)
  BY <1>1, <1>5, <1>8, <1>9, <1>10, Zenon DEF Requests
<1>12. e.instance \in TotalNames => WantsTotal(h, e)
  BY <1>1, <1>7, <1>8, <1>11, Zenon DEF WantsTotal
<1> QED
  BY <1>1, <1>6, <1>11, <1>12, Zenon DEF Requested, Sought, e, n

(* With expansion a counter has one value, of its own instance.             *)
LEMMA ValueRequested ==
    ASSUME UseWildcardsExpansion, NEW h \in Host, NEW m \in AskedMetric(h)
    PROVE  NewEntry(m, m.instance, m.handle.path[2]) \in OwnName(h)
<1> DEFINE e == NewEntry(m, m.instance, m.handle.path[2])
<1>1. PICK k \in DOMAIN Config :
        /\ Config[k].computer = h /\ Config[k].useRawValue = m.useRawValue
        /\ Config[k].includeTotal = m.includeTotal /\ m \in Metric
        /\ \E p \in Found(Config[k]) :
             /\ m.counter = NameFor(Config[k], p)
             /\ m.handle.path = <<NameFor(Config[k], p), p[2]>>
             /\ m.instance = ParsedInstance(p[2])
             /\ ~SkipsTotal(Config[k], m.instance)
  BY Zenon DEF AskedMetric, Serves
<1>2. PICK p \in Found(Config[k]) :
             /\ m.counter = NameFor(Config[k], p)
             /\ m.handle.path = <<NameFor(Config[k], p), p[2]>>
             /\ m.instance = ParsedInstance(p[2])
             /\ ~SkipsTotal(Config[k], m.instance)
  BY <1>1, Zenon
<1>3. /\ p[2] \in Name /\ p[2] # NoInstance
      /\ InitAccepts => NameFor(Config[k], p) \notin WildcardCounters
  BY FoundType, Zenon
<1>4. /\ m.instance \in Name /\ m.handle.path[2] = p[2]
      /\ m.handle.path[1] = NameFor(Config[k], p)
  BY <1>1, <1>2, SMTT(30) DEF Metric
<1>5. e \in Entry
  BY <1>1, <1>3, <1>4, EntryType, ZenonT(30)
<1>6. /\ e.field = fieldName[<<m.counter, m.useRawValue>>] /\ e.instance = m.instance
      /\ e.value.counter = CounterOf[m.handle.path[1]] /\ e.value.raw = m.useRawValue
      /\ e.value.instance = m.handle.path[2]
  BY SMTT(30) DEF NewEntry
<1> HIDE DEF e
<1>7. Requests(Config[k], e)
  BY <1>1, <1>2, <1>3, <1>4, <1>6, Zenon DEF Requests
<1>8. ASSUME TotalsAlone, e.instance \in TotalNames
      PROVE  Config[k].includeTotal \/ Config[k].instance \in {e.instance, EmptyInstance}
  <2>1. e.instance # NoInstance
    BY <1>8, NameAssumption, ZenonT(30)
  <2>2. e.instance = p[2]
    BY <1>2, <1>6, <2>1, Zenon DEF ParsedInstance
  <2>3. \/ Config[k].instance \in {p[2], EmptyInstance}
        \/ Config[k].instance = "*" /\ p[2] = "_Total"
    BY <1>8, <2>2, Zenon DEF TotalsAlone
  <2> QED
    BY <1>1, <1>2, <1>6, <2>2, <2>3, Zenon DEF SkipsTotal
<1>9. TotalsAlone /\ e.instance \in TotalNames => WantsTotal(h, e)
  BY <1>1, <1>7, <1>8, Zenon DEF WantsTotal
<1>10. e \in Sought(h)
  BY <1>1, <1>5, <1>7, <1>9, Zenon DEF Requested, Sought
<1> QED
  BY <1>2, <1>4, <1>6, <1>10, Zenon DEF OwnName, e

(* A counter that is asked for may be appended.                             *)
LEMMA AppendAsked ==
    ASSUME HostTypeOK, CountersAsked, NEW h \in Host, NEW m \in AskedMetric(h),
           counters' = [counters EXCEPT ![h] = Append(@, m)]
    PROVE  CountersAsked'
<1>1. counters[h] \in Seq(Metric) /\ m \in Metric
  BY DEF HostTypeOK, AskedMetric
<1>2. /\ counters'[h] = Append(counters[h], m)
      /\ \A g \in Host \ {h} : counters'[g] = counters[g]
  BY DEF HostTypeOK
<1>3. \A i \in DOMAIN counters'[h] :
        \/ i \in DOMAIN counters[h] /\ counters'[h][i] = counters[h][i]
        \/ counters'[h][i] = m
  BY <1>1, <1>2, SMTT(30)
<1> QED
  BY <1>2, <1>3, ZenonT(30) DEF CountersAsked

(* What addItem appends for an item is what the item asks for.              *)
LEMMA NewCounterAsked ==
    ASSUME Inv, item <= Len(Config), NEW p \in Path, NEW c \in Counter, NEW n \in Name,
           AddCounterToQuery(Config[item].computer, p, Nil), AppendCounter(p, c, n),
           Labels(Config[item], p, c, n)
    PROVE  CountersAsked => CountersAsked'
<1> DEFINE h == Config[item].computer
           m == newCounter(p, c, n)
<1>1. item \in DOMAIN Config /\ h \in Host
  BY ItemInConfig, ZenonT(30) DEF Inv, CollectorTypeOK, InvControl
<1>2. m \in Metric
  BY <1>1, AddNeedsQuery, AppendType, ZenonT(30) DEF Inv
<1>4. /\ m.handle.path = p /\ m.counter = c /\ m.instance = n
      /\ m.useRawValue = Config[item].useRawValue
      /\ m.includeTotal = Config[item].includeTotal
  BY ZenonT(30) DEF newCounter
<1>8. counters' = [counters EXCEPT ![h] = Append(@, m)]
  BY DEF AppendCounter
<1> HIDE DEF m
<1>5. Serves(Config[item], m)
  BY <1>2, <1>4, Zenon DEF Labels
<1>7. m \in AskedMetric(h)
  BY <1>1, <1>2, <1>5, Zenon DEF AskedMetric
<1> QED
  BY <1>1, <1>7, <1>8, AppendAsked, Zenon DEF Inv, CollectorTypeOK

(* Without expansion, the counter of an item is one it asks for.            *)
LEMMA AddItemAsked ==
    ASSUME Inv, CountersAsked, AddItem PROVE CountersAsked'
<1> DEFINE i == Config[item]
<1>1. item <= Len(Config) /\ ItemPath(i) \in Path /\ i \in Item
  BY ItemInConfig, ZenonT(30) DEF AddItem, Inv, CollectorTypeOK, InvControl
<1>a. i.counter \in Counter /\ i.instance \in Name
  BY <1>1, ZenonT(30) DEF Item
<1>2. CASE UNCHANGED counters
  BY <1>2 DEF CountersAsked
<1>3. CASE /\ ~UseWildcardsExpansion
           /\ AddCounterToQuery(i.computer, ItemPath(i), Nil)
           /\ AppendCounter(ItemPath(i), i.counter, i.instance)
  <2>1. Labels(i, ItemPath(i), i.counter, i.instance)
    BY <1>3, Zenon DEF Labels, Serves, ItemPath
  <2> QED
    BY <1>1, <1>a, <1>3, <2>1, NewCounterAsked, Zenon
<1> QED
  BY <1>2, <1>3, ZenonT(60) DEF AddItem

(* With expansion, so is the counter of every path that is reported.        *)
LEMMA AddReportedAsked ==
    ASSUME Inv, PendingFound, CountersAsked, AddReported PROVE CountersAsked'
<1> DEFINE i == Config[item]
           q == Head(pending)
           p == ReportedPath(i, q)
           c == ReportedCounter(i, q)
           n == ParsedInstance(q[2])
<1>1. item <= Len(Config) /\ item \in DOMAIN Config /\ UseWildcardsExpansion
  BY ItemInConfig, Zenon DEF AddReported, Inv, CollectorTypeOK, InvControl
<1>2. q \in ExpandedPath /\ q \in Found(i)
  <2>1. pending \in Seq(ExpandedPath) /\ pending # <<>> /\ pc = "adding"
    BY Zenon DEF AddReported, Inv, CollectorTypeOK, InvControl
  <2>2. q \in ExpandedPath /\ q = pending[1] /\ 1 \in DOMAIN pending
    BY <2>1, SMTT(30)
  <2> QED
    BY <2>1, <2>2, Zenon DEF PendingFound
<1>3. q \in Path /\ q = <<q[1], q[2]>> /\ q[2] # NoInstance
  BY <1>2, SMTT(30) DEF ExpandedPath, Path
<1> HIDE DEF q
<1>4. p \in Path /\ c \in Counter /\ n \in Name
  BY <1>1, <1>3, ItemInConfig, Zenon DEF Inv, CollectorTypeOK, InvControl
<1>5. c = NameFor(i, q) /\ p = <<NameFor(i, q), q[2]>>
  <2>1. newInstance(ParsedInstance(q[2])) = q[2]
    BY <1>3, Zenon DEF newInstance, ParsedInstance
  <2> QED
    BY <1>1, <1>3, <2>1, Zenon DEF ReportedPath, ReportedCounter, NameFor
<1>6. CASE UNCHANGED counters
  BY <1>6 DEF CountersAsked
<1>7. CASE /\ AddCounterToQuery(i.computer, p, Nil) /\ AppendCounter(p, c, n)
           /\ ~SkipsTotal(i, n)
  <2>1. Labels(i, p, c, n)
    BY <1>1, <1>2, <1>5, <1>7, Zenon DEF Labels, Serves
  <2> HIDE DEF p, c, n
  <2> QED
    BY <1>1, <1>4, <1>7, <2>1, NewCounterAsked, Zenon
<1> QED
  BY <1>6, <1>7, ZenonT(60) DEF AddReported, q

(* The paths addItem has still to add are of the item it works on.          *)
LEMMA PendingNext ==
    ASSUME Inv, PendingFound, [Next]_vars PROVE PendingFound'
<1> DEFINE At == {"expanding", "adding"}
<1>1. ASSUME pc' \notin At PROVE PendingFound'
  BY <1>1, Zenon DEF PendingFound
<1>2. ASSUME UNCHANGED <<pending, item>>, pc' \in At => pc \in At PROVE PendingFound'
  BY <1>2, Zenon DEF PendingFound
<1>3. ASSUME NEW e, ItemDone(e) PROVE PendingFound'
  <2>1. pc' \notin At
    BY <1>3 DEF ItemDone, GatherReturn
  <2> QED
    BY <1>1, <2>1, ZenonT(30)
<1>4. CASE Expand
  <2>1. CASE pending' \in Expansion[ItemPath(Config[item])] /\ UNCHANGED item
    <3>1. UseWildcardsExpansion
      BY <1>4, Zenon DEF Expand, Inv, InvControl
    <3>2. ASSUME NEW j \in DOMAIN pending' PROVE pending'[j] \in Found(Config[item])
      <4>1. {pending'[k] : k \in DOMAIN pending'} \in Findings(Config[item])
        BY <2>1, <3>1, Zenon DEF Findings
      <4> QED
        BY <4>1, Zenon DEF Found
    <3> QED
      BY <2>1, <3>2, Zenon DEF PendingFound
  <2> QED
    BY <1>3, <1>4, <2>1, Zenon DEF Expand
<1>5. CASE AddExpanded
  BY <1>2, <1>3, <1>5, Zenon DEF AddExpanded
<1>6. CASE AddReported
  <2>1. CASE pending' = Tail(pending) /\ UNCHANGED item
    <3>1. pending \in Seq(ExpandedPath) /\ pending # <<>> /\ pc = "adding"
      BY <1>6, Zenon DEF AddReported, Inv, CollectorTypeOK, InvControl
    <3>2. \A j \in DOMAIN Tail(pending) :
            j + 1 \in DOMAIN pending /\ Tail(pending)[j] = pending[j + 1]
      BY <3>1, SMTT(30)
    <3> QED
      BY <2>1, <3>1, <3>2, Zenon DEF PendingFound
  <2> QED
    BY <1>3, <1>6, <2>1, Zenon DEF AddReported
<1>7. CASE OpenHost
  BY <1>2, <1>3, <1>7, Zenon DEF OpenHost
<1>8. CASE AddItem
  BY <1>1, <1>3, <1>8, Zenon DEF AddItem
<1>9. CASE ExpandDone
  BY <1>3, <1>9, Zenon DEF ExpandDone
<1>10. CASE CleanDone \/ ParseDone \/ WarmDone \/ CollectDone \/ Wait \/ Gather
  <2>1. pc' \notin At
    BY <1>10 DEF CleanDone, ParseDone, WarmDone, CollectDone, Wait, Gather, GatherReturn
  <2> QED
    BY <1>1, <2>1, SMTT(30)
<1>11. ASSUME NEW h \in Host, cleanQueries(h) \/ WarmCollect(h) \/ CollectHost(h) \/ Spawn(h)
       PROVE  PendingFound'
  <2>1. UNCHANGED <<pending, item>> /\ (UNCHANGED pc \/ pc' = "idle")
    BY <1>11, Zenon DEF cleanQueries, WarmCollect, CollectHost, Spawn, GatherReturn
  <2> QED
    BY <1>1, <1>2, <2>1, Zenon
<1>12. CASE UNCHANGED <<pc, item, pending>>
  BY <1>2, <1>12, Zenon
<1> QED
  BY <1>4, <1>5, <1>6, <1>7, <1>8, <1>9, <1>10, <1>11, <1>12, ZenonT(60)
     DEF Next, GatherStep, HostStep, Expire, vars, gatherVars

(* Outside Gather's beginning and the goroutines no step touches what has   *)
(* been read or delivered, and three steps touch the counters.              *)
Quiet ==
    /\ UNCHANGED <<wg, pos, readErr, collectedFields, result, delivered, answered, failed>>
    /\ UNCHANGED counters \/ CleanDone \/ AddItem \/ AddReported

(* Every step is quiet, begins a Gather, or is one of a goroutine.          *)
LEMMA StepKinds ==
    ASSUME [Next]_vars
    PROVE  Quiet \/ Gather \/ \E h \in Host : Spawn(h) \/ HostStep(h)
<1>1. CASE UNCHANGED hostVars
  BY <1>1, ZenonT(30) DEF Quiet, hostVars
<1>2. CASE CleanDone \/ AddItem \/ AddReported
  <2>1. CASE CleanDone
    BY <2>1, SMTT(30) DEF CleanDone, Quiet
  <2>2. CASE AddItem
    BY <2>2, ZenonT(30) DEF AddItem, Quiet
  <2>3. CASE AddReported
    BY <2>3, ZenonT(60) DEF AddReported, Quiet
  <2> QED
    BY <1>2, <2>1, <2>2, <2>3, ZenonT(30)
<1>3. CASE OpenHost \/ Expand \/ AddExpanded \/ ExpandDone \/ ParseDone \/ WarmDone
           \/ CollectDone \/ Wait \/ Expire
  BY <1>1, <1>3, ZenonT(30) DEF OpenHost, Expand, AddExpanded, ExpandDone, ParseDone, WarmDone,
     CollectDone, Wait, Expire
<1>4. ASSUME NEW h \in Host, cleanQueries(h) \/ WarmCollect(h) \/ CollectHost(h)
      PROVE  UNCHANGED hostVars
  BY <1>4 DEF cleanQueries, WarmCollect, CollectHost
<1>5. CASE UNCHANGED vars
  BY <1>1, <1>5, Zenon DEF vars
<1> QED
  BY <1>1, <1>2, <1>3, <1>4, <1>5, ZenonT(30) DEF Next, GatherStep

(* What a step of the goroutine of h does: it reads on, or it ends and      *)
(* hands over what it has collected or nothing new.                         *)
LEMMA HostOutcome ==
    ASSUME HostTypeOK, InvRequested, NEW h \in Host, gatherComputerCounters(h)
    PROVE  /\ h \in wg /\ UNCHANGED counters
           /\ \/ /\ UNCHANGED <<wg, delivered>>
                 /\ \E c \in SUBSET Sought(h) :
                      collectedFields' = [collectedFields EXCEPT ![h] = c]
              \/ /\ wg' = wg \ {h}
                 /\ collectedFields' = [collectedFields EXCEPT ![h] = {}]
                 /\ UNCHANGED delivered
                    \/ delivered' = [delivered EXCEPT ![h] = collectedFields[h]]
<1> DEFINE m == counters[h][pos[h]]
           Outcome == \/ \E c \in SUBSET Sought(h) :
                           /\ collectedFields' = [collectedFields EXCEPT ![h] = c]
                           /\ UNCHANGED wg
                      \/ /\ wg' = wg \ {h}
                         /\ collectedFields' = [collectedFields EXCEPT ![h] = {}]
<1>0. h \in wg
  BY HostStepOwn, Zenon
<1>1. ASSUME NEW e, NEW new \in SUBSET Sought(h), AfterRead(h, e, new)
      PROVE  UNCHANGED counters /\ Outcome
  <2>1. collectedFields[h] \in SUBSET Sought(h)
    BY DEF InvRequested
  <2>2. CASE AddEntries(h, new)
    <3>1. PICK last \in LastWritten(new) :
            NextCounter(h, Nil, addCounterMeasurement(collectedFields[h], last))
      BY <2>2, ZenonT(30) DEF AddEntries
    <3>2. addCounterMeasurement(collectedFields[h], last) \in SUBSET Sought(h)
      BY <2>1, MeasurementSubset, ZenonT(30)
    <3> QED
      BY <1>1, <3>1, <3>2, ZenonT(30) DEF NextCounter, AfterRead
  <2>3. CASE NextCounter(h, e, collectedFields[h])
    BY <1>1, <2>1, <2>3, ZenonT(30) DEF NextCounter, AfterRead
  <2>4. CASE EndHost(h, e)
    BY <1>1, <2>4, SMTT(30) DEF EndHost, AfterRead
  <2> QED
    BY <1>1, <2>2, <2>3, <2>4, ZenonT(30) DEF AfterRead
<1>2. Reading(h) => m \in AskedMetric(h)
  BY ZenonT(30) DEF Reading, InvRequested, CountersAsked
<1>3. CASE ReadValue(h)
  <2> DEFINE new == {NewEntry(m, m.instance, m.handle.path[2])}
  <2>1. UseWildcardsExpansion /\ m \in AskedMetric(h)
    BY <1>2, <1>3, ZenonT(30) DEF ReadValue
  <2>2. PICK e : AfterRead(h, e, new) /\ Record(h, e, new)
    BY <1>3, ZenonT(30) DEF ReadValue
  <2>3. new \in SUBSET Sought(h)
    BY <2>1, ValueRequested, ZenonT(60) DEF OwnName
  <2> HIDE DEF new, Outcome
  <2>4. UNCHANGED counters /\ Outcome /\ UNCHANGED delivered
    BY <1>1, <2>2, <2>3 DEF Record
  <2> QED
    BY <1>0, <2>4, ZenonT(60) DEF Outcome
<1>4. CASE ReadArray(h)
  <2>1. ~UseWildcardsExpansion /\ m \in AskedMetric(h)
    BY <1>2, <1>4, ZenonT(60) DEF ReadArray
  <2> DEFINE new(e, insts) == IF e = Nil THEN ArrayEntries(m, insts) ELSE {}
  <2>2. PICK e \in CounterArrayReturns, insts \in Answer[m.instance] :
          /\ AfterRead(h, IF m.useRawValue THEN e ELSE readErr[h], new(e, insts))
          /\ Record(h, e, new(e, insts))
    BY <1>4, ZenonT(30) DEF ReadArray
  <2>3. new(e, insts) \in SUBSET Sought(h)
    BY <2>1, ArrayRequested, ZenonT(60)
  <2> HIDE DEF new, Outcome
  <2>4. UNCHANGED counters /\ Outcome /\ UNCHANGED delivered
    BY <1>1, <2>2, <2>3, ZenonT(30) DEF Record
  <2> QED
    BY <1>0, <2>4, Zenon DEF Outcome
<1>5. CASE Deliver(h)
  BY <1>0, <1>5, ZenonT(30) DEF Deliver, EndHost
<1> QED
  BY <1>3, <1>4, <1>5, ZenonT(30) DEF gatherComputerCounters

(* Every step keeps counters, fields and deliveries to what is requested.   *)
LEMMA RequestedNext ==
    Inv /\ InvRequested /\ [Next]_vars => InvRequested'
<1> SUFFICES ASSUME Inv, InvRequested, [Next]_vars PROVE InvRequested'
  BY ZenonT(30)
<1>0. PendingFound'
  BY PendingNext, ZenonT(30) DEF InvRequested
<1>1. CASE Quiet
  <2>1. CASE UNCHANGED counters
    BY <1>0, <1>1, <2>1, Zenon DEF Quiet, InvRequested, CountersAsked
  <2>2. CASE CleanDone
    <3>1. \A h \in Host : DOMAIN counters'[h] = {}
      BY <2>2, SMTT(30) DEF CleanDone
    <3> QED
      BY <1>0, <1>1, <3>1, Zenon DEF Quiet, InvRequested, CountersAsked
  <2>3. CASE AddItem \/ AddReported
    <3>1. CountersAsked'
      BY <2>3, AddItemAsked, AddReportedAsked, ZenonT(30) DEF InvRequested
    <3> QED
      BY <1>0, <1>1, <3>1, Zenon DEF Quiet, InvRequested
  <2> QED
    BY <1>1, <2>1, <2>2, <2>3, ZenonT(30) DEF Quiet
<1>2. CASE Gather
  BY <1>0, <1>2, Zenon DEF Gather, InvRequested, CountersAsked
<1>3. ASSUME NEW h \in Host, Spawn(h) PROVE InvRequested'
  BY <1>0, <1>3, Zenon DEF Spawn, StartHost, InvRequested, CountersAsked, Inv,
     CollectorTypeOK, HostTypeOK
<1>4. ASSUME NEW h \in Host, HostStep(h) PROVE InvRequested'
  <2>1. HostTypeOK /\ gatherComputerCounters(h)
    BY <1>4, Zenon DEF HostStep, Inv, CollectorTypeOK
  <2>2. UNCHANGED counters
    BY <2>1, HostOutcome, ZenonT(30)
  <2>3. \A g \in Host \ {h} :
          collectedFields'[g] = collectedFields[g] /\ delivered'[g] = delivered[g]
    <3>1. \E c : collectedFields' = [collectedFields EXCEPT ![h] = c]
      BY <2>1, HostOutcome, Zenon
    <3>2. \A g \in Host \ {h} : collectedFields'[g] = collectedFields[g]
      BY <2>1, <3>1, Zenon DEF HostTypeOK
    <3> QED
      BY <2>1, <3>2, HostStepOwn, ZenonT(30)
  <2>4. collectedFields'[h] \subseteq Sought(h) /\ delivered'[h] \subseteq Sought(h)
    <3>1. collectedFields[h] \subseteq Sought(h) /\ delivered[h] \subseteq Sought(h)
      BY Zenon DEF InvRequested
    <3>2. CASE /\ UNCHANGED <<wg, delivered>>
               /\ \E c \in SUBSET Sought(h) :
                    collectedFields' = [collectedFields EXCEPT ![h] = c]
      <4>1. PICK c \in SUBSET Sought(h) : collectedFields' = [collectedFields EXCEPT ![h] = c]
        BY <3>2, Zenon
      <4>2. collectedFields'[h] = c
        BY <2>1, <4>1, Zenon DEF HostTypeOK
      <4> QED
        BY <3>1, <3>2, <4>1, <4>2, Zenon
    <3>3. CASE /\ collectedFields' = [collectedFields EXCEPT ![h] = {}]
               /\ UNCHANGED delivered
                  \/ delivered' = [delivered EXCEPT ![h] = collectedFields[h]]
      <4>1. collectedFields'[h] = {} /\ delivered'[h] \in {delivered[h], collectedFields[h]}
        BY <2>1, <3>3, Zenon DEF HostTypeOK
      <4> QED
        BY <3>1, <4>1, Zenon
    <3> QED
      BY <2>1, <3>2, <3>3, HostOutcome, Zenon
  <2> QED
    BY <1>0, <2>2, <2>3, <2>4, ZenonT(30) DEF InvRequested, CountersAsked
<1> QED
  BY <1>1, <1>2, <1>3, <1>4, StepKinds, ZenonT(30)

(* Before the first Gather there is nothing to request.                     *)
LEMMA RequestedInit == Init => InvRequested
<1> SUFFICES ASSUME Init PROVE InvRequested
  OBVIOUS
<1>1. \A h \in Host : counters[h] = <<>>
  BY ZenonT(30) DEF Init, HostInit
<1>2. DOMAIN <<>> = {}
  OBVIOUS
<1> QED
  BY <1>1, <1>2, ZenonT(30) DEF Init, HostInit, InvRequested, CountersAsked, PendingFound

(* The callback is given only values the configuration asks for: no value   *)
(* under the label of another counter or instance, no local name unless     *)
(* names are to be localised, no field name with a wildcard.                *)
THEOREM OnlyRequested == Spec => []RequestedOnly
<1>1. InvRequested => RequestedOnly
  BY Zenon DEF InvRequested, RequestedOnly, Sought
<1> QED
  BY <1>1, InvInit, InvNext, RequestedInit, RequestedNext, PTL DEF Spec

(* Totals are left out unless they are asked for, always without expansion, *)
(* and with it for objects whose only total is "_Total".                    *)
THEOREM TotalsAreLeftOut ==
    ASSUME UseWildcardsExpansion => TotalsAlone PROVE Spec => []TotalsLeftOut
<1>1. InvRequested => TotalsLeftOut
  BY Zenon DEF InvRequested, TotalsLeftOut, Sought, WantsTotal
<1> QED
  BY <1>1, InvInit, InvNext, RequestedInit, RequestedNext, PTL DEF Spec
-----------------------------------------------------------------------------
(* Gather implements GatherContract.                                        *)

(* A step of Gather before the goroutines: Gather goes on, or returns.      *)
SamplingStep ==
    /\ pc \notin {"idle", "spawn"}
    /\ UNCHANGED <<wg, delivered>>
    /\ pc' = "idle" \/ (pc' \notin {"idle", "spawn"} /\ UNCHANGED gatherErr)

(* Where Gather is when a step is taken, and where the step takes it.       *)
LEMMA StepPhases ==
    ASSUME Inv, [Next]_vars
    PROVE  \/ Gather \/ SamplingStep \/ CollectDone \/ Wait
           \/ \E h \in Host : Spawn(h) \/ HostStep(h)
           \/ UNCHANGED <<pc, todo, wg, delivered, gatherErr>>
<1>1. ASSUME NEW e, ItemDone(e)
      PROVE  pc' = "idle" \/ (pc' \notin {"idle", "spawn"} /\ UNCHANGED gatherErr)
  BY <1>1, ZenonT(30) DEF ItemDone, GatherReturn
<1>2. CASE CleanDone
  BY <1>2, ZenonT(30) DEF CleanDone, SamplingStep, GatherReturn
<1>3. CASE OpenHost
  <2>1. pc = "parse" /\ UNCHANGED hostVars
    BY <1>3, ZenonT(30) DEF OpenHost
  <2>2. UNCHANGED <<pc, gatherErr>> \/ \E e : ItemDone(e)
    BY <1>3, ZenonT(30) DEF OpenHost
  <2> QED
    BY <1>1, <2>1, <2>2, ZenonT(30) DEF SamplingStep, hostVars
<1>4. CASE AddItem
  <2>1. pc = "parse" /\ UNCHANGED <<wg, delivered>>
    BY <1>4 DEF AddItem
  <2>2. (pc' = "expand" /\ UNCHANGED gatherErr) \/ \E e : ItemDone(e)
    BY <1>4, ZenonT(30) DEF AddItem
  <2>3. pc' = "idle" \/ (pc' \notin {"idle", "spawn"} /\ UNCHANGED gatherErr)
    BY <1>1, <2>2, Zenon
  <2> QED
    BY <2>1, <2>3, Zenon DEF SamplingStep
<1>5. CASE Expand
  <2>1. pc = "expand" /\ UNCHANGED hostVars
    BY <1>5, ZenonT(30) DEF Expand
  <2>2. (pc' = "expanding" /\ UNCHANGED gatherErr) \/ \E e : ItemDone(e)
    BY <1>5, ZenonT(30) DEF Expand
  <2> QED
    BY <1>1, <2>1, <2>2, ZenonT(30) DEF SamplingStep, hostVars
<1>6. CASE AddExpanded
  <2>1. pc = "expanding" /\ UNCHANGED hostVars
    BY <1>6, ZenonT(30) DEF AddExpanded
  <2>2. (pc' = "adding" /\ UNCHANGED gatherErr) \/ \E e : ItemDone(e)
    BY <1>6, ZenonT(30) DEF AddExpanded
  <2> QED
    BY <1>1, <2>1, <2>2, ZenonT(30) DEF SamplingStep, hostVars
<1>7. CASE AddReported
  <2>1. pc = "adding" /\ UNCHANGED <<wg, delivered>>
    BY <1>7, ZenonT(30) DEF AddReported
  <2>2. (pc' = "expanding" /\ UNCHANGED gatherErr) \/ \E e : ItemDone(e)
    BY <1>7, ZenonT(30) DEF AddReported
  <2> QED
    BY <1>1, <2>1, <2>2, Zenon DEF SamplingStep
<1>8. CASE ExpandDone
  BY <1>1, <1>8, SMTT(30) DEF ExpandDone, SamplingStep, hostVars
<1>9. CASE ParseDone \/ WarmDone
  BY <1>9, ZenonT(30) DEF ParseDone, WarmDone, SamplingStep, hostVars
<1>10. ASSUME NEW h \in Host, cleanQueries(h) PROVE SamplingStep
  BY <1>10, ZenonT(30) DEF cleanQueries, SamplingStep, GatherReturn, hostVars
<1>11. ASSUME NEW h \in Host, WarmCollect(h) PROVE SamplingStep
  BY <1>11, ZenonT(30) DEF WarmCollect, SamplingStep, GatherReturn, hostVars
<1>12. ASSUME NEW h \in Host, CollectHost(h) PROVE SamplingStep
  BY <1>12, ZenonT(60) DEF CollectHost, SamplingStep, GatherReturn, hostVars
<1>13. CASE Expire \/ (Heal /\ UNCHANGED <<gatherVars, hostVars, queryVars>>) \/ UNCHANGED vars
  BY <1>13, ZenonT(30) DEF Expire, vars, gatherVars, hostVars
<1> QED
  BY <1>2, <1>3, <1>4, <1>5, <1>6, <1>7, <1>8, <1>9, <1>10, <1>11, <1>12, <1>13, ZenonT(30)
     DEF Next, GatherStep

(* Before the first Gather no host owes anything.                           *)
LEMMA OwedInit == Init => InvOwed
BY ZenonT(30) DEF Init, InvOwed

(* The step of a goroutine leaves what other hosts owe alone.               *)
LEMMA OwedNext ==
    Inv /\ InvRequested /\ InvOwed /\ [Next]_vars => InvOwed'
<1> SUFFICES ASSUME Inv, InvRequested, InvOwed, [Next]_vars PROVE InvOwed'
  OBVIOUS
<1>1. ASSUME NEW h \in Host, HostStep(h) PROVE InvOwed'
  <2>1. HostTypeOK /\ gatherComputerCounters(h) /\ UNCHANGED <<pc, todo>>
    BY <1>1, Zenon DEF HostStep, Inv, CollectorTypeOK, gatherVars
  <2>2. pc = "spawn" /\ h \in wg
    BY <2>1, HostStepOwn, Zenon DEF Inv, InvControl
  <2>3. (wg' = wg /\ UNCHANGED delivered) \/ wg' = wg \ {h}
    BY <2>1, HostOutcome, Zenon
  <2>4. \A g \in Host \ {h} : delivered'[g] = delivered[g]
    BY <2>1, HostStepOwn, Zenon
  <2>5. wg \subseteq Host /\ todo \subseteq Host
    BY DEF Inv, CollectorTypeOK, HostTypeOK
  <2> QED
    BY <2>1, <2>2, <2>3, <2>4, <2>5, ZenonT(30) DEF InvOwed
<1>2. ASSUME NEW h \in Host, Spawn(h) PROVE InvOwed'
  <2>1. /\ pc = "spawn" /\ h \in todo /\ todo' = todo \ {h} /\ wg' = wg \cup {h}
        /\ delivered' = [delivered EXCEPT ![h] = {}]
    BY <1>2, Zenon DEF Spawn, StartHost
  <2>2. \A g \in Host : delivered'[g] = IF g = h THEN {} ELSE delivered[g]
    BY <2>1, SMTT(30) DEF Inv, CollectorTypeOK, HostTypeOK
  <2>3. wg \subseteq Host /\ todo \subseteq Host
    BY DEF Inv, CollectorTypeOK, HostTypeOK
  <2> QED
    BY <2>1, <2>2, <2>3, ZenonT(30) DEF InvOwed
<1>3. CASE CollectDone
  <2>1. pc = "collect" /\ UNCHANGED <<wg, delivered>> /\ todo' = hosts
    BY <1>3, Zenon DEF CollectDone, hostVars
  <2>2. wg = {} /\ hosts \subseteq Host /\ \A h \in Host : delivered[h] = {}
    BY <2>1, Zenon DEF Inv, CollectorTypeOK, InvControl, InvDelivered
  <2> QED
    BY <2>1, <2>2, ZenonT(30) DEF InvOwed
<1>4. CASE Gather \/ SamplingStep \/ Wait
  BY <1>4 DEF Gather, SamplingStep, Wait, GatherReturn, InvOwed
<1>5. CASE UNCHANGED <<pc, todo, wg, delivered, gatherErr>>
  BY <1>5, Zenon DEF InvOwed
<1> QED
  BY <1>1, <1>2, <1>3, <1>4, <1>5, StepPhases, ZenonT(30)

(* Every step of the collector is a step of the contract or changes nothing *)
(* the caller sees.                                                         *)
LEMMA ContractStep ==
    Inv /\ Inv' /\ InvRequested /\ InvOwed /\ [Next]_vars
        => [Contract!ContractNext]_(Contract!contractVars)
<1> SUFFICES ASSUME Inv, Inv', InvRequested, InvOwed, [Next]_vars
             PROVE  Contract!ContractNext \/ UNCHANGED Contract!contractVars
  OBVIOUS
<1>1. CASE Gather
  <2>1. /\ pc = "idle" /\ pc' \in {"clean", "collect"} /\ gatherErr' = Nil
        /\ delivered' = [h \in Host |-> {}]
    BY <1>1, ZenonT(30) DEF Gather
  <2>2. Contract!Begin
    BY <2>1, ZenonT(30) DEF Contract!Begin
  <2> QED
    BY <2>2, ZenonT(30) DEF Contract!ContractNext
<1>2. CASE SamplingStep
  <2>1. CASE pc' = "idle"
    <3>1. gatherErr' \in Error
      BY ZenonT(30) DEF Inv, CollectorTypeOK
    <3>2. Contract!GiveUp
      BY <1>2, <2>1, <3>1, ZenonT(30) DEF SamplingStep, Contract!GiveUp
    <3> QED
      BY <3>2, SMTT(30) DEF Contract!ContractNext
  <2>2. CASE pc' # "idle"
    BY <1>2, <2>2, ZenonT(30) DEF SamplingStep, Contract!contractVars
  <2> QED
    BY <2>1, <2>2, ZenonT(30)
<1>3. CASE CollectDone
  <2>1. /\ pc = "collect" /\ pc' = "spawn" /\ todo' = hosts
        /\ UNCHANGED <<wg, delivered, gatherErr>>
    BY <1>3, ZenonT(60) DEF CollectDone, hostVars
  <2>2. todo' \cup wg' \subseteq Host
    BY ZenonT(30) DEF Inv, CollectorTypeOK, HostTypeOK
  <2>3. Contract!Sampled
    BY <2>1, <2>2, ZenonT(30) DEF Contract!Sampled
  <2> QED
    BY <2>3 DEF Contract!ContractNext
<1>4. CASE Wait
  <2>1. Contract!Return
    BY <1>4, ZenonT(30) DEF Wait, GatherReturn, hostVars, Contract!Return
  <2> QED
    BY <2>1, ZenonT(60) DEF Contract!ContractNext
<1>5. ASSUME NEW h \in Host, Spawn(h) PROVE UNCHANGED Contract!contractVars
  <2>1. /\ pc = "spawn" /\ UNCHANGED <<pc, gatherErr>> /\ h \in todo
        /\ todo' \cup wg' = todo \cup wg
        /\ delivered' = [delivered EXCEPT ![h] = {}]
    BY <1>5, Zenon DEF Spawn, StartHost
  <2>2. UNCHANGED delivered
    BY <2>1, Zenon DEF InvOwed, Inv, CollectorTypeOK, HostTypeOK
  <2> QED
    BY <2>1, <2>2, ZenonT(30) DEF Contract!contractVars
<1>6. ASSUME NEW h \in Host, HostStep(h)
      PROVE  Contract!HandOver(h) \/ UNCHANGED Contract!contractVars
  <2>1. HostTypeOK /\ gatherComputerCounters(h) /\ UNCHANGED <<pc, todo, gatherErr>>
    BY <1>6, ZenonT(60) DEF HostStep, Inv, CollectorTypeOK, gatherVars
  <2>2. pc = "spawn" /\ h \in wg /\ h \notin todo /\ delivered[h] = {}
    BY <2>1, HostStepOwn, SMTT(30) DEF Inv, InvControl, InvOwed
  <2>3. CASE UNCHANGED <<wg, delivered>>
    BY <2>1, <2>3, ZenonT(30) DEF Contract!contractVars
  <2>4. CASE /\ wg' = wg \ {h}
             /\ UNCHANGED delivered
                \/ delivered' = [delivered EXCEPT ![h] = collectedFields[h]]
    <3>1. delivered' = [delivered EXCEPT ![h] = delivered'[h]]
      BY <2>1, <2>4, Zenon DEF HostTypeOK
    <3>2. delivered'[h] \subseteq Requested[h]
      BY <2>1, <2>2, <2>4, Zenon DEF HostTypeOK, InvRequested, Sought
    <3>3. todo' \cup wg' = (todo \cup wg) \ {h}
      BY <2>1, <2>2, <2>4, ZenonT(60)
    <3>4. Contract!HandOver(h)
      BY <2>1, <2>2, <3>1, <3>2, <3>3, ZenonT(30) DEF Contract!HandOver
    <3> QED
      BY <3>4
  <2> QED
    BY <2>1, <2>3, <2>4, HostOutcome, Zenon
<1>7. CASE UNCHANGED <<pc, todo, wg, delivered, gatherErr>>
  BY <1>7, ZenonT(30) DEF Contract!contractVars
<1> QED
  BY <1>1, <1>2, <1>3, <1>4, <1>5, <1>6, <1>7, StepPhases, ZenonT(30) DEF Contract!ContractNext

(* Gather implements GatherContract, whichever calls of pdh.dll fail and in *)
(* whatever order the goroutines run: an error comes with nothing           *)
(* delivered, Gather returns only after the last goroutine, and each host   *)
(* delivers at most once and only what was requested.                       *)
THEOREM CollectorImplementsContract == Spec => ContractKept
<1>1. Init => Contract!ContractInit
  BY ZenonT(30) DEF Init, HostInit, Contract!ContractInit
<1> QED
  BY <1>1, InvInit, InvNext, RequestedInit, RequestedNext, OwedInit, OwedNext, ContractStep, PTL
     DEF Spec, ContractKept, Contract!ContractSpec
-----------------------------------------------------------------------------
(* Nothing read is lost.                                                    *)

(* A place in collectedFields belongs to one value.                         *)
LEMMA OwnPlace ==
    ASSUME FieldsApart, NEW h \in Host, NEW e \in OwnName(h), NEW f \in OwnName(h),
           SamePlace(e, f)
    PROVE  e = f
<1>1. ASSUME NEW x \in OwnName(h)
      PROVE  /\ x \in Entry
             /\ \E c \in Counter : /\ x.field = fieldName[<<c, x.value.raw>>]
                                  /\ x.value.counter = CounterOf[c]
             /\ UseWildcardsExpansion => x.value.instance # NoInstance
             /\ x.instance = IF UseWildcardsExpansion THEN ParsedInstance(x.value.instance)
                             ELSE x.value.instance
  <2>1. PICK k \in DOMAIN Config : Requests(Config[k], x)
    BY <1>1, Zenon DEF OwnName, Sought, Requested
  <2>2. PICK p \in Found(Config[k]) :
          /\ x.field = fieldName[<<NameFor(Config[k], p), x.value.raw>>]
          /\ x.value.counter = CounterOf[NameFor(Config[k], p)]
          /\ x.value.instance = p[2]
    BY <2>1, Zenon DEF Requests
  <2>3. NameFor(Config[k], p) \in Counter /\ (UseWildcardsExpansion => p[2] # NoInstance)
    BY FoundType, Zenon
  <2> QED
    BY <1>1, <2>2, <2>3, Zenon DEF OwnName, Sought, Requested
<1>2. PICK c \in Counter : e.field = fieldName[<<c, e.value.raw>>] /\ e.value.counter = CounterOf[c]
  BY <1>1, Zenon
<1>3. PICK d \in Counter : f.field = fieldName[<<d, f.value.raw>>] /\ f.value.counter = CounterOf[d]
  BY <1>1, Zenon
<1>4. e \in Entry /\ f \in Entry
  BY <1>1, Zenon
<1>5. e.value \in Value /\ f.value \in Value /\ e.value.raw \in BOOLEAN /\ f.value.raw \in BOOLEAN
  BY <1>4, SMTT(30) DEF Entry, Value
<1>6. c = d /\ e.value.raw = f.value.raw
  <2>1. <<c, e.value.raw>> \in Counter \X BOOLEAN /\ <<d, f.value.raw>> \in Counter \X BOOLEAN
    BY <1>5, SMTT(30)
  <2>2. <<c, e.value.raw>> = <<d, f.value.raw>>
    BY <1>2, <1>3, <2>1, Zenon DEF FieldsApart, SamePlace
  <2> QED
    BY <2>2, SMTT(30)
<1>7. e.value.instance = f.value.instance
  BY <1>1, ZenonT(60) DEF SamePlace, ParsedInstance
<1>8. e.value = f.value
  <2>1. e.value.counter = f.value.counter
    BY <1>2, <1>3, <1>6, Zenon
  <2> QED
    BY <1>5, <1>6, <1>7, <2>1, SMTT(30) DEF Value
<1> QED
  BY <1>4, <1>8, SMTT(30) DEF Entry, SamePlace

(* addCounterMeasurement then only adds, whatever the order of the answer.  *)
LEMMA MeasurementsAdd ==
    ASSUME FieldsApart, NEW h \in Host, NEW fields \in SUBSET OwnName(h),
           NEW new \in SUBSET OwnName(h), NEW last \in LastWritten(new)
    PROVE  addCounterMeasurement(fields, last) = fields \cup new
<1>1. last \subseteq new
      /\ \A e \in new : \E f \in last : \A g \in last : SamePlace(e, g) <=> g = f
  BY Zenon DEF LastWritten
<1>2. ASSUME NEW e \in new PROVE e \in last
  <2>1. PICK f \in last : SamePlace(e, f)
    BY <1>1, <1>2, Zenon
  <2>2. e \in OwnName(h) /\ f \in OwnName(h)
    BY <1>1, <1>2, <2>1, Zenon
  <2>3. e = f
    BY <2>1, <2>2, OwnPlace, Zenon
  <2> QED
    BY <2>1, <2>3, Zenon
<1>3. last = new
  BY <1>1, <1>2, Zenon
<1>4. ASSUME NEW e \in fields, NEW f \in last, SamePlace(e, f) PROVE e = f
  <2>1. e \in OwnName(h) /\ f \in OwnName(h)
    BY <1>1, <1>4, Zenon
  <2> QED
    BY <1>4, <2>1, OwnPlace, Zenon
<1> QED
  BY <1>3, <1>4, Zenon DEF addCounterMeasurement

(* With expansion every value is under the name of its instance.            *)
LEMMA ExpandedOwnName ==
    ASSUME UseWildcardsExpansion, NEW h \in Host PROVE Sought(h) = OwnName(h)
<1>1. ASSUME NEW e \in Sought(h) PROVE e.instance = ParsedInstance(e.value.instance)
  <2>1. PICK k \in DOMAIN Config : Requests(Config[k], e)
    BY <1>1, Zenon DEF Sought, Requested
  <2> QED
    BY <2>1, Zenon DEF Requests
<1> QED
  BY <1>1, Zenon DEF OwnName

(* A goroutine that reads single values.                                    *)
LEMMA AnsweredStep ==
    ASSUME UseWildcardsExpansion, HostTypeOK, HostTypeOK', InvRequested,
           \A g \in wg : delivered[g] = {}, InvAnswered,
           NEW h \in Host, gatherComputerCounters(h)
    PROVE  InvAnswered'
<1> DEFINE Others == \A g \in Host \ {h} :
                       /\ answered'[g] = answered[g] /\ collectedFields'[g] = collectedFields[g]
                       /\ failed'[g] = failed[g] /\ result'[g] = result[g]
                       /\ delivered'[g] = delivered[g] /\ (g \in wg' <=> g \in wg)
           Runs == /\ h \in wg' /\ ~failed'[h]
                   /\ FieldsApart => collectedFields'[h] = answered'[h]
           Ended == /\ h \notin wg'
                    /\ FieldsApart /\ result'[h] = Nil => delivered'[h] = answered'[h]
                    /\ failed'[h] => result'[h] # Nil /\ delivered'[h] = {}
<1>1. /\ h \in wg /\ ~failed[h] /\ delivered[h] = {}
      /\ FieldsApart => collectedFields[h] = answered[h]
  BY HostStepOwn, Zenon DEF InvAnswered
<1>2. ASSUME ReadValue(h) PROVE Others /\ (Runs \/ Ended)
  <2> DEFINE m == counters[h][pos[h]]
             x == NewEntry(m, m.instance, m.handle.path[2])
  <2>1. PICK e : AfterRead(h, e, {x}) /\ Record(h, e, {x})
    BY <1>2, ZenonT(30) DEF ReadValue
  <2>2. x \in OwnName(h) /\ collectedFields[h] \in SUBSET Sought(h)
    BY <1>2, ValueRequested, ZenonT(30) DEF ReadValue, Reading, InvRequested, CountersAsked
  <2> HIDE DEF x
  <2>3. UNCHANGED delivered
    BY <2>1, ZenonT(30) DEF Record
  <2>4. answered' = [answered EXCEPT ![h] = IF e = Nil THEN @ \cup {x} ELSE @]
    BY <2>1, ZenonT(30) DEF Record
  <2>5. failed' = [failed EXCEPT ![h] = e # Nil /\ ~isKnownCounterDataError(e)]
    BY <1>1, <2>1, ZenonT(30) DEF Record
  <2>6. /\ \A g \in Host \ {h} : failed'[g] = failed[g]
        /\ failed'[h] <=> e # Nil /\ ~isKnownCounterDataError(e)
    BY <2>5, ZenonT(30) DEF HostTypeOK
  <2> HIDE DEF Others, Runs, Ended
  <2>7. ASSUME e = Nil PROVE Others /\ Runs
    <3>1. PICK last \in LastWritten({x}) :
            NextCounter(h, Nil, addCounterMeasurement(collectedFields[h], last))
      BY <2>1, <2>7, Zenon DEF AfterRead, AddEntries
    <3>2. ASSUME FieldsApart
          PROVE  addCounterMeasurement(collectedFields[h], last) = collectedFields[h] \cup {x}
      <4> DEFINE fields == collectedFields[h]
      <4>1. fields \in SUBSET OwnName(h) /\ {x} \in SUBSET OwnName(h)
        BY <2>2, ExpandedOwnName, ZenonT(60)
      <4> HIDE DEF fields
      <4> SUFFICES addCounterMeasurement(fields, last) = fields \cup {x}
        BY SMTT(30) DEF fields
      <4> QED
        BY <3>1, <3>2, <4>1, MeasurementsAdd, Zenon
    <3>3. PICK c : /\ collectedFields' = [collectedFields EXCEPT ![h] = c]
                   /\ FieldsApart => c = collectedFields[h] \cup {x}
                   /\ UNCHANGED <<wg, result>>
      BY <3>1, <3>2, ZenonT(30) DEF NextCounter
    <3> QED
      <4>1. Others
        BY <2>3, <2>4, <2>6, <3>3, Zenon DEF HostTypeOK, Others
      <4>2. answered'[h] = answered[h] \cup {x} /\ collectedFields'[h] = c
        BY <2>4, <2>7, <3>3, Zenon DEF HostTypeOK
      <4>3. Runs
        BY <1>1, <2>6, <2>7, <3>3, <4>2, Zenon DEF Runs
      <4> QED
        BY <4>1, <4>3
  <2>8. ASSUME e # Nil, isKnownCounterDataError(e) PROVE Others /\ Runs
    <3>1. /\ collectedFields' = [collectedFields EXCEPT ![h] = collectedFields[h]]
          /\ UNCHANGED <<wg, result>>
      BY <2>1, <2>8, ZenonT(60) DEF AfterRead, NextCounter
    <3> QED
      BY <1>1, <2>3, <2>4, <2>6, <2>8, <3>1, Zenon DEF HostTypeOK, Others, Runs
  <2>9. ASSUME e # Nil, ~isKnownCounterDataError(e) PROVE Others /\ Ended
    <3>1. EndHost(h, e)
      BY <2>1, <2>9, ZenonT(30) DEF AfterRead
    <3> QED
      <4>1. Others
        BY <2>3, <2>4, <2>6, <3>1, Zenon DEF EndHost, HostTypeOK, Others
      <4>2. h \notin wg' /\ result'[h] = e
        BY <3>1, Zenon DEF EndHost, HostTypeOK
      <4>3. Ended
        BY <1>1, <2>3, <2>9, <4>2, Zenon DEF Ended
      <4> QED
        BY <4>1, <4>3
  <2> QED
    BY <2>7, <2>8, <2>9
<1>3. ASSUME Deliver(h) PROVE Others /\ Ended
  BY <1>1, <1>3, SMTT(30) DEF Deliver, EndHost, HostTypeOK
<1>4. ~ReadArray(h)
  BY Zenon DEF ReadArray
<1> QED
  <2>1. Others /\ (Runs \/ Ended)
    BY <1>2, <1>3, <1>4, Zenon DEF gatherComputerCounters
  <2>2. wg' \subseteq Host
    BY Zenon DEF HostTypeOK
  <2> QED
    BY <2>1, <2>2, ZenonT(60) DEF InvAnswered, NoValueDropped, UnknownErrorReported

(* Every step.                                                              *)
LEMMA AnsweredNext ==
    ASSUME UseWildcardsExpansion
    PROVE  Inv /\ Inv' /\ InvRequested /\ InvOwed /\ InvAnswered /\ [Next]_vars => InvAnswered'
<1> SUFFICES ASSUME Inv, Inv', InvRequested, InvOwed, InvAnswered, [Next]_vars
             PROVE  InvAnswered'
  BY Zenon
<1>1. CASE Quiet
  BY <1>1, Zenon DEF Quiet, InvAnswered, NoValueDropped, UnknownErrorReported
<1>2. CASE Gather
  <2>1. wg = {}
    BY <1>2, ZenonT(30) DEF Gather, Inv, InvControl
  <2> QED
    BY <1>2, <2>1, ZenonT(60) DEF Gather, InvAnswered, NoValueDropped, UnknownErrorReported
<1>3. ASSUME NEW h \in Host, Spawn(h) PROVE InvAnswered'
  <2>1. StartHost(h)
    BY <1>3 DEF Spawn
  <2>2. /\ wg' = wg \cup {h}
        /\ collectedFields'[h] = {} /\ answered'[h] = {} /\ ~failed'[h]
    BY <2>1, ZenonT(60) DEF StartHost, Inv, CollectorTypeOK, HostTypeOK
  <2>3. \A g \in Host \ {h} :
          /\ answered'[g] = answered[g] /\ collectedFields'[g] = collectedFields[g]
          /\ failed'[g] = failed[g] /\ result'[g] = result[g] /\ delivered'[g] = delivered[g]
    BY <2>1, ZenonT(60) DEF StartHost, Inv, CollectorTypeOK, HostTypeOK
  <2>4. wg \subseteq Host
    BY Zenon DEF Inv, CollectorTypeOK, HostTypeOK
  <2> QED
    BY <2>2, <2>3, <2>4, ZenonT(60) DEF InvAnswered, NoValueDropped, UnknownErrorReported
<1>4. ASSUME NEW h \in Host, HostStep(h) PROVE InvAnswered'
  <2>1. gatherComputerCounters(h)
    BY <1>4, Zenon DEF HostStep
  <2>2. HostTypeOK /\ HostTypeOK'
    BY ZenonT(60) DEF Inv, CollectorTypeOK
  <2>3. \A g \in wg : delivered[g] = {}
    BY DEF Inv, InvControl, InvOwed
  <2> QED
    BY <2>1, <2>2, <2>3, AnsweredStep, ZenonT(30)
<1> QED
  BY <1>1, <1>2, <1>3, <1>4, StepKinds, ZenonT(30)

(* Before the first Gather nothing was answered.                            *)
LEMMA AnsweredInit == Init => InvAnswered
BY ZenonT(30) DEF Init, HostInit, InvAnswered, NoValueDropped, UnknownErrorReported

(* With wildcard expansion, an unexpected error of a read ends the host     *)
(* with an error and with nothing delivered.                                *)
THEOREM ErrorsAreReported ==
    ASSUME UseWildcardsExpansion PROVE Spec => []UnknownErrorReported
<1>1. InvAnswered => UnknownErrorReported
  BY DEF InvAnswered
<1> QED
  BY <1>1, InvInit, InvNext, RequestedInit, RequestedNext, OwedInit, OwedNext,
     AnsweredInit, AnsweredNext, PTL DEF Spec

(* With wildcard expansion, and field names that tell the counters apart, a *)
(* host that ends without an error delivers every value it was answered.    *)
THEOREM ValuesAreKept ==
    ASSUME UseWildcardsExpansion, FieldsApart PROVE Spec => []NoValueDropped
<1>1. InvAnswered => NoValueDropped
  BY DEF InvAnswered
<1> QED
  BY <1>1, InvInit, InvNext, RequestedInit, RequestedNext, OwedInit, OwedNext,
     AnsweredInit, AnsweredNext, PTL DEF Spec
-----------------------------------------------------------------------------
(* Without expansion.                                                       *)

(* What an array gives is under the names of the instances.                 *)
LEMMA ArrayOwnNames ==
    ASSUME ~UseWildcardsExpansion, InstancesApart, NEW h \in Host,
           NEW m \in AskedMetric(h), NEW insts \in Answer[m.instance]
    PROVE  ArrayEntries(m, insts) \in SUBSET OwnName(h)
<1>1. ArrayEntries(m, insts) \subseteq Sought(h)
  BY ArrayRequested, Zenon
<1>2. m.instance \in Name
  BY SMTT(60) DEF AskedMetric, Metric
<1>3. ASSUME NEW x \in insts PROVE InstanceName(m, ReportedName[x]) = x
  <2>1. CASE <<ReportedName[x], m.instance>> \in PrefixPairs
    <3>1. insts \subseteq {m.instance}
      BY <2>1, NameAssumption, ZenonT(30)
    <3> QED
      BY <1>3, <2>1, <3>1, Zenon DEF InstanceName
  <2>2. CASE <<ReportedName[x], m.instance>> \notin PrefixPairs
    BY <1>2, <1>3, <2>2, ZenonT(60) DEF InstanceName, InstancesApart
  <2> QED
    BY <2>1, <2>2, ZenonT(30)
<1>4. ASSUME NEW x \in insts, NEW n
      PROVE  NewEntry(m, n, x).instance = n /\ NewEntry(m, n, x).value.instance = x
  BY DEF NewEntry
<1>5. ASSUME NEW e \in ArrayEntries(m, insts) PROVE e.instance = e.value.instance
  <2>1. PICK x \in insts : e = NewEntry(m, InstanceName(m, ReportedName[x]), x)
    BY <1>5, Zenon DEF ArrayEntries
  <2>2. e = NewEntry(m, x, x)
    BY <1>3, <2>1, Zenon
  <2> QED
    BY <1>4, <2>2, Zenon
<1> QED
  BY <1>1, <1>5, Zenon DEF OwnName

(* Indices of the counters of a host are natural numbers.                   *)
LEMMA IndexIsNat == \A s \in Seq(Metric) : \A k \in DOMAIN s : k \in Nat
  BY SMTT(30)

(* The next index comes after the current one.                              *)
LEMMA LaterIndex == \A n, k \in Nat : n >= n /\ (k >= n + 1 => n < k)
  OBVIOUS

(* One step of a goroutine that reads arrays.                               *)
LEMMA ArraysStep ==
    ASSUME ~UseWildcardsExpansion, FieldsApart, InstancesApart, HostTypeOK, HostTypeOK',
           CountersAsked, InvOrder, InvArrays, NEW h \in Host, gatherComputerCounters(h)
    PROVE  InvArrays'
<1> DEFINE Others == \A g \in Host \ {h} :
                       /\ answered'[g] = answered[g] /\ collectedFields'[g] = collectedFields[g]
                       /\ readErr'[g] = readErr[g] /\ pos'[g] = pos[g]
                       /\ result'[g] = result[g]
                       /\ delivered'[g] = delivered[g] /\ (g \in wg' <=> g \in wg)
           RawFrom(n) == \A k \in DOMAIN counters[h] : k >= n => counters[h][k].useRawValue
           Runs == /\ h \in wg' /\ collectedFields'[h] = answered'[h]
                   /\ answered'[h] \subseteq OwnName(h)
                   /\ readErr'[h] # Nil => RawFrom(pos'[h])
           Ended == h \notin wg' /\ (result'[h] = Nil => delivered'[h] = answered'[h])
<1>1. /\ h \in wg /\ collectedFields[h] = answered[h] /\ answered[h] \subseteq OwnName(h)
      /\ readErr[h] # Nil => RawFrom(pos[h])
  BY HostStepOwn, Zenon DEF InvArrays
<1>2. ASSUME ReadArray(h) PROVE Others /\ UNCHANGED counters /\ (Runs \/ Ended)
  <2> DEFINE m == counters[h][pos[h]]
             new(e, insts) == IF e = Nil THEN ArrayEntries(m, insts) ELSE {}
  <2>1. pos[h] \in DOMAIN counters[h] /\ m \in AskedMetric(h)
    BY <1>2, Zenon DEF ReadArray, Reading, CountersAsked
  <2>2. PICK e \in CounterArrayReturns, insts \in Answer[m.instance] :
          /\ AfterRead(h, IF m.useRawValue THEN e ELSE readErr[h], new(e, insts))
          /\ Record(h, e, new(e, insts))
    BY <1>2, Zenon DEF ReadArray
  <2>3. ~m.useRawValue => readErr[h] = Nil
    <3>1. pos[h] \in Nat
      BY Zenon DEF HostTypeOK
    <3>2. pos[h] >= pos[h]
      BY <3>1, LaterIndex, Zenon
    <3> QED
      BY <1>1, <2>1, <3>2, Zenon
  <2>4. m.useRawValue => RawFrom(pos[h] + 1)
    <3>1. ASSUME m.useRawValue, NEW k \in DOMAIN counters[h], k >= pos[h] + 1
          PROVE  counters[h][k].useRawValue
      <4>1. pos[h] \in Nat /\ k \in Nat
        BY IndexIsNat, Zenon DEF HostTypeOK
      <4>2. pos[h] < k
        BY <3>1, <4>1, LaterIndex, Zenon
      <4> QED
        BY <2>1, <3>1, <4>2, Zenon DEF InvOrder, Ordered
    <3> QED
      BY <3>1, ZenonT(30)
  <2>5. new(e, insts) \in SUBSET OwnName(h)
    BY <2>1, <2>2, ArrayOwnNames, Zenon
  <2>6. answered' = [answered EXCEPT ![h] = answered[h] \cup new(e, insts)]
    BY <2>2, Zenon DEF Record
  <2>7. UNCHANGED <<delivered, counters>>
    BY <2>2, Zenon DEF Record, AfterRead
  <2> HIDE DEF new, m, Others, Runs, Ended, RawFrom
  <2>8. ASSUME (IF m.useRawValue THEN e ELSE readErr[h]) = Nil PROVE Others /\ Runs
    <3>1. PICK last \in LastWritten(new(e, insts)) :
            NextCounter(h, Nil, addCounterMeasurement(collectedFields[h], last))
      BY <2>2, <2>8, Zenon DEF AfterRead, AddEntries
    <3>2. addCounterMeasurement(collectedFields[h], last) = answered[h] \cup new(e, insts)
      <4>1. collectedFields[h] \in SUBSET OwnName(h)
        BY <1>1, Zenon
      <4> QED
        BY <1>1, <2>5, <4>1, MeasurementsAdd, Zenon
    <3>3. /\ collectedFields' = [collectedFields EXCEPT ![h] = answered[h] \cup new(e, insts)]
          /\ pos' = [pos EXCEPT ![h] = pos[h] + 1]
          /\ readErr' = [readErr EXCEPT ![h] = Nil]
          /\ UNCHANGED <<wg, result>>
      BY <3>1, <3>2, Zenon DEF NextCounter
    <3> QED
      BY <1>1, <2>5, <2>6, <2>7, <3>3, Zenon DEF HostTypeOK, Others, Runs
  <2>9. ASSUME m.useRawValue, e # Nil PROVE Others /\ (Runs \/ Ended)
    <3>1. new(e, insts) = {}
      BY <2>9, Zenon DEF new
    <3>2. answered' = [answered EXCEPT ![h] = answered[h]]
      BY <2>6, <3>1, Zenon
    <3>3. CASE NextCounter(h, e, collectedFields[h])
      <4>1. /\ collectedFields' = [collectedFields EXCEPT ![h] = collectedFields[h]]
            /\ pos' = [pos EXCEPT ![h] = pos[h] + 1]
            /\ readErr' = [readErr EXCEPT ![h] = e]
            /\ UNCHANGED <<wg, result>>
        BY <3>3, Zenon DEF NextCounter
      <4> QED
        BY <1>1, <2>4, <2>7, <2>9, <3>2, <4>1, Zenon DEF HostTypeOK, Others, Runs
    <3>4. CASE EndHost(h, e)
      BY <2>7, <2>9, <3>2, <3>4, Zenon DEF EndHost, HostTypeOK, Others, Ended
    <3> QED
      BY <2>2, <2>9, <3>3, <3>4, Zenon DEF AfterRead
  <2> QED
    BY <2>3, <2>7, <2>8, <2>9, Zenon
<1>3. ASSUME Deliver(h) PROVE Others /\ UNCHANGED counters /\ Ended
  BY <1>1, <1>3, Zenon DEF Deliver, EndHost, HostTypeOK
<1>4. ~ReadValue(h)
  BY Zenon DEF ReadValue
<1> QED
  <2>1. Others /\ UNCHANGED counters /\ (Runs \/ Ended)
    BY <1>2, <1>3, <1>4, Zenon DEF gatherComputerCounters
  <2>2. wg' \subseteq Host
    BY Zenon DEF HostTypeOK
  <2> QED
    <3>1. ASSUME NEW g \in wg'
          PROVE  /\ collectedFields'[g] = answered'[g] /\ answered'[g] \subseteq OwnName(g)
                 /\ readErr'[g] # Nil =>
                      \A k \in DOMAIN counters'[g] :
                          k >= pos'[g] => counters'[g][k].useRawValue
      <4>1. CASE g = h
        BY <2>1, <3>1, <4>1, Zenon
      <4>2. CASE g # h
        BY <2>1, <2>2, <3>1, <4>2, Zenon DEF InvArrays
      <4> QED
        BY <4>1, <4>2
    <3>2. NoValueDropped'
      BY <2>1, <2>2, Zenon DEF InvArrays, NoValueDropped
    <3> QED
      BY <3>1, <3>2, Zenon DEF InvArrays

(* parseConfig passes the items in their order.                             *)
LEMMA OrderSteps ==
    ASSUME ~UseWildcardsExpansion, Inv, [Next]_vars
    PROVE  \/ CleanDone \/ AddItem
           \/ /\ UNCHANGED counters
              /\ pc' = "parse" => pc = "parse" /\ item' \in {item, item + 1}
<1> DEFINE Goal == /\ UNCHANGED counters
                   /\ pc' = "parse" => pc = "parse" /\ item' \in {item, item + 1}
<1>0. pc \notin {"expand", "expanding", "adding"}
  BY Zenon DEF Inv, InvControl
<1>1. CASE OpenHost
  BY <1>1, Zenon DEF OpenHost, ItemDone, GatherReturn, hostVars
<1>2. CASE Expand \/ AddExpanded \/ AddReported \/ ExpandDone
  BY <1>0, <1>2, Zenon DEF Expand, AddExpanded, AddReported, ExpandDone
<1>3. CASE ParseDone \/ WarmDone \/ CollectDone \/ Wait
  BY <1>3, Zenon DEF ParseDone, WarmDone, CollectDone, Wait, GatherReturn, hostVars
<1>4. CASE Gather \/ Expire
  BY <1>4, Zenon DEF Gather, Expire, hostVars
<1>5. ASSUME NEW h \in Host, cleanQueries(h) \/ WarmCollect(h) \/ CollectHost(h) PROVE Goal
  BY <1>5, Zenon DEF cleanQueries, WarmCollect, CollectHost, GatherReturn, hostVars
<1>6. ASSUME NEW h \in Host, Spawn(h) PROVE Goal
  BY <1>6, Zenon DEF Spawn, StartHost
<1>7. ASSUME NEW h \in Host, HostStep(h) PROVE Goal
  <2>1. gatherComputerCounters(h) /\ UNCHANGED <<pc, item>>
    BY <1>7, Zenon DEF HostStep, gatherVars
  <2>2. UNCHANGED counters
    BY <2>1, HostStepType, Zenon DEF Inv, CollectorTypeOK
  <2> QED
    BY <2>1, <2>2, Zenon
<1>8. CASE UNCHANGED <<gatherVars, hostVars>>
  BY <1>8, ZenonT(60) DEF gatherVars, hostVars
<1> QED
  BY <1>1, <1>2, <1>3, <1>4, <1>5, <1>6, <1>7, <1>8, Zenon DEF Next, GatherStep, vars

(* The counter of the next item comes after those of the items before it.   *)
LEMMA AppendOrdered ==
    ASSUME RawLast, NEW h, NEW s \in Seq(Metric), NEW n \in DOMAIN Config, NEW m,
           Ordered(h, s, {j \in DOMAIN Config : j < n}),
           Config[n].computer = h, Config[n].useRawValue = m.useRawValue
    PROVE  Ordered(h, Append(s, m), {j \in DOMAIN Config : j < n + 1})
<1> DEFINE t == Append(s, m)
           N == Len(s)
<1>1. /\ N \in Nat /\ DOMAIN s = 1..N /\ DOMAIN t = 1..(N + 1) /\ t[N + 1] = m
      /\ \A k \in 1..N : t[k] = s[k]
  BY SMTT(60)
<1> HIDE DEF t, N
<1>2. /\ \A k \in 1..(N + 1) : k = N + 1 \/ k \in 1..N
      /\ \A k, k2 \in 1..(N + 1) : k < k2 => k \in 1..N
  BY <1>1, SMTT(60)
<1>3. n < n + 1 /\ \A j \in DOMAIN Config : j < n => j < n + 1
  BY ConfigAssumption, SMTT(30)
<1>4. \A k \in 1..N : \E j \in DOMAIN Config :
        j < n /\ Config[j].computer = h /\ Config[j].useRawValue = s[k].useRawValue
  BY <1>1, Zenon DEF Ordered
<1>5. \A k \in 1..N : s[k].useRawValue => m.useRawValue
  BY <1>4, Zenon DEF RawLast
<1>6. ASSUME NEW k \in 1..(N + 1)
      PROVE  \E j \in {j \in DOMAIN Config : j < n + 1} :
               Config[j].computer = h /\ Config[j].useRawValue = t[k].useRawValue
  <2>1. CASE k = N + 1
    BY <1>1, <1>3, <2>1, Zenon
  <2>2. CASE k \in 1..N
    BY <1>1, <1>3, <1>4, <2>2, Zenon
  <2> QED
    BY <1>2, <2>1, <2>2, Zenon
<1>7. ASSUME NEW k \in 1..(N + 1), NEW k2 \in 1..(N + 1), k < k2, t[k].useRawValue
      PROVE  t[k2].useRawValue
  <2>1. k \in 1..N /\ s[k].useRawValue
    BY <1>1, <1>2, <1>7, Zenon
  <2>2. CASE k2 = N + 1
    BY <1>1, <1>5, <2>1, <2>2, Zenon
  <2>3. CASE k2 \in 1..N
    BY <1>1, <1>7, <2>1, <2>3, Zenon DEF Ordered
  <2> QED
    BY <1>2, <2>2, <2>3, Zenon
<1>8. Ordered(h, t, {j \in DOMAIN Config : j < n + 1})
  BY <1>1, <1>6, <1>7, Zenon DEF Ordered
<1> QED
  BY <1>8, SMTT(60) DEF t

(* So the raw counters of a host come last.                                 *)
LEMMA OrderNext ==
    ASSUME ~UseWildcardsExpansion, RawLast
    PROVE  Inv /\ InvOrder /\ [Next]_vars => InvOrder'
<1> SUFFICES ASSUME Inv, InvOrder, [Next]_vars PROVE InvOrder'
  BY Zenon
<1>0. item \in Nat /\ item # 0 /\ counters \in [Host -> Seq(Metric)]
  BY Zenon DEF Inv, InvControl, CollectorTypeOK, HostTypeOK
<1>j. \A j \in DOMAIN Config : j < item => j < item + 1
  BY <1>0, ConfigAssumption, SMTT(30)
<1>1. ASSUME NEW h \in Host, counters'[h] = counters[h],
             pc' = "parse" => pc = "parse" /\ item' \in {item, item + 1}
      PROVE  Ordered(h, counters[h], Passed)'
  <2>1. Passed \subseteq Passed'
    BY <1>1, <1>j, Zenon DEF Passed
  <2>2. Ordered(h, counters[h], Passed)
    BY Zenon DEF InvOrder
  <2>3. Ordered(h, counters[h], Passed')
    BY <2>1, <2>2, Zenon DEF Ordered
  <2> QED
    BY <1>1, <2>3, Zenon
<1>2. CASE CleanDone
  <2>1. \A h \in Host : DOMAIN counters'[h] = {}
    BY <1>2, SMTT(30) DEF CleanDone
  <2> QED
    BY <2>1, Zenon DEF InvOrder, Ordered
<1>3. CASE AddItem
  <2> DEFINE h == Config[item].computer
             i == Config[item]
             m == newCounter(ItemPath(i), i.counter, i.instance)
  <2>1. pc = "parse" /\ item \in DOMAIN Config /\ h \in Host
    BY <1>0, <1>3, ItemInConfig, Zenon DEF AddItem
  <2>2. PICK e \in Error :
          \/ e # Nil /\ ItemDone(e) /\ UNCHANGED counters
          \/ AppendCounter(ItemPath(i), i.counter, i.instance) /\ ItemDone(Nil)
    BY <1>3, Zenon DEF AddItem
  <2>3. pc' = "parse" => item' \in {item, item + 1}
    BY <2>2, Zenon DEF ItemDone, GatherReturn
  <2>4. CASE UNCHANGED counters
    BY <1>1, <2>1, <2>3, <2>4, Zenon DEF InvOrder
  <2>5. CASE counters' = [counters EXCEPT ![h] = Append(counters[h], m)]
             /\ pc' = "parse" /\ item' = item + 1
    <3>1. m.useRawValue = Config[item].useRawValue
      BY DEF newCounter
    <3> HIDE DEF m
    <3>2. /\ counters'[h] = Append(counters[h], m) /\ counters[h] \in Seq(Metric)
          /\ \A g \in Host \ {h} : counters'[g] = counters[g]
      BY <1>0, <2>1, <2>5, Zenon
    <3>3. /\ Passed = {j \in DOMAIN Config : j < item}
          /\ Passed' = {j \in DOMAIN Config : j < item + 1}
      BY <2>1, <2>5, Zenon DEF Passed
    <3>4. Ordered(h, counters[h], {j \in DOMAIN Config : j < item})
      BY <2>1, <3>3, Zenon DEF InvOrder
    <3>5. Ordered(h, Append(counters[h], m), {j \in DOMAIN Config : j < item + 1})
      BY <2>1, <3>1, <3>2, <3>4, AppendOrdered, Zenon
    <3>6. Ordered(h, counters'[h], Passed')
      BY <3>2, <3>3, <3>5, Zenon
    <3>7. ASSUME NEW g \in Host \ {h} PROVE Ordered(g, counters'[g], Passed')
      BY <1>1, <2>1, <2>3, <3>2, <3>7, Zenon
    <3> QED
      BY <3>6, <3>7, ZenonT(60) DEF InvOrder
  <2> QED
    BY <2>2, <2>4, <2>5, Zenon DEF ItemDone, AppendCounter
<1>4. CASE UNCHANGED counters /\ (pc' = "parse" => pc = "parse" /\ item' \in {item, item + 1})
  BY <1>1, <1>4, Zenon DEF InvOrder
<1> QED
  BY <1>2, <1>3, <1>4, OrderSteps, Zenon

(* Every step.                                                              *)
LEMMA ArraysNext ==
    ASSUME ~UseWildcardsExpansion, FieldsApart, InstancesApart
    PROVE  Inv /\ Inv' /\ InvRequested /\ InvOrder /\ InvArrays /\ [Next]_vars => InvArrays'
<1> SUFFICES ASSUME Inv, Inv', InvRequested, InvOrder, InvArrays, [Next]_vars
             PROVE  InvArrays'
  BY Zenon
<1>0. wg \subseteq Host /\ (pc # "spawn" => wg = {})
  BY Zenon DEF Inv, InvControl, CollectorTypeOK, HostTypeOK
<1>1. CASE Quiet
  <2>1. UNCHANGED counters \/ wg = {}
    BY <1>0, <1>1, Zenon DEF Quiet, CleanDone, AddItem, AddReported
  <2> QED
    BY <1>1, <2>1, Zenon DEF Quiet, InvArrays, NoValueDropped
<1>2. CASE Gather
  <2>1. wg' = {} /\ \A h \in Host : delivered'[h] = answered'[h]
    BY <1>0, <1>2, Zenon DEF Gather
  <2> QED
    BY <2>1, Zenon DEF InvArrays, NoValueDropped
<1>3. ASSUME NEW h \in Host, Spawn(h) PROVE InvArrays'
  <2>1. StartHost(h)
    BY <1>3, Zenon DEF Spawn
  <2>2. /\ wg' = wg \cup {h} /\ UNCHANGED counters
        /\ collectedFields'[h] = {} /\ answered'[h] = {} /\ readErr'[h] = Nil
    BY <2>1, ZenonT(60) DEF StartHost, Inv, CollectorTypeOK, HostTypeOK
  <2>3. \A g \in Host \ {h} :
          /\ answered'[g] = answered[g] /\ collectedFields'[g] = collectedFields[g]
          /\ readErr'[g] = readErr[g] /\ pos'[g] = pos[g]
          /\ result'[g] = result[g] /\ delivered'[g] = delivered[g]
    BY <2>1, ZenonT(60) DEF StartHost, Inv, CollectorTypeOK, HostTypeOK
  <2>4. ASSUME NEW g \in wg'
        PROVE  /\ collectedFields'[g] = answered'[g] /\ answered'[g] \subseteq OwnName(g)
               /\ readErr'[g] # Nil =>
                    \A k \in DOMAIN counters'[g] :
                        k >= pos'[g] => counters'[g][k].useRawValue
    <3>1. CASE g = h
      BY <2>2, <3>1, Zenon
    <3>2. CASE g # h
      BY <1>0, <2>2, <2>3, <2>4, <3>2, Zenon DEF InvArrays
    <3> QED
      BY <3>1, <3>2
  <2>5. NoValueDropped'
    BY <1>0, <2>2, <2>3, Zenon DEF InvArrays, NoValueDropped
  <2> QED
    BY <2>4, <2>5, Zenon DEF InvArrays
<1>4. ASSUME NEW h \in Host, HostStep(h) PROVE InvArrays'
  <2>1. gatherComputerCounters(h)
    BY <1>4, Zenon DEF HostStep
  <2>2. HostTypeOK /\ HostTypeOK' /\ CountersAsked
    BY Zenon DEF Inv, CollectorTypeOK, InvRequested
  <2> QED
    BY <2>1, <2>2, ArraysStep, Zenon
<1> QED
  BY <1>1, <1>2, <1>3, <1>4, StepKinds, Zenon

(* Before the first Gather there are no counters, and nothing was answered. *)
LEMMA ArraysInit == Init => InvOrder /\ InvArrays
<1> SUFFICES ASSUME Init PROVE InvOrder /\ InvArrays
  OBVIOUS
<1>1. \A h \in Host : counters[h] = <<>> /\ delivered[h] = answered[h]
  BY Zenon DEF Init, HostInit
<1>2. wg = {}
  BY Zenon DEF Init, HostInit
<1>3. DOMAIN <<>> = {}
  BY SMTT(30)
<1> QED
  BY <1>1, <1>2, <1>3, Zenon DEF InvOrder, Ordered, InvArrays, NoValueDropped

(* Without expansion the same holds where arrays give each instance a name  *)
(* of its own and no formatted counter follows a raw one on its host: the   *)
(* two conditions that the shadowed err (line 489) and the grouping by name *)
(* (line 596) ask for are enough.                                           *)
THEOREM ArrayValuesAreKept ==
    ASSUME ~UseWildcardsExpansion, FieldsApart, InstancesApart, RawLast
    PROVE  Spec => []NoValueDropped
<1>1. InvArrays => NoValueDropped
  BY SMTT(60) DEF InvArrays
<1> QED
  BY <1>1, InvInit, InvNext, RequestedInit, RequestedNext, ArraysInit, OrderNext, ArraysNext,
     PTL DEF Spec
=============================================================================
