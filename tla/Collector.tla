------------------------------ MODULE Collector ------------------------------
(***************************************************************************)
(* WinPerfCounters (win_perf_counters.go): Gather with cleanQueries,       *)
(* parseConfig and addItem, and the host goroutines it starts.             *)
(*                                                                         *)
(* Gather is one sequential process; each of its calls of pdh.dll is a     *)
(* step, so that every call can fail on its own.  `for ... range' over the *)
(* map hostCounters visits the hosts in any order: `todo' holds the hosts  *)
(* a loop has still to visit.                                              *)
(***************************************************************************)
EXTENDS HostGather

CONSTANTS
    HasObject,              \* len(m.Object) > 0
    Config,                 \* the (computer, counter, instance) loops of parseConfig
    RefreshEnabled,         \* CountersRefreshInterval > 0
    UsePerfCounterTime,     \* and IsVistaOrNewer
    LocalizeWildcardsExpansion,
    WildcardCounters,       \* the counters whose name has a wildcard
    Expansion,              \* [Path -> the lists of paths it may expand to]
    Localhost               \* the computer "localhost"

Item == [computer : Host, counter : Counter, instance : Name,
         useRawValue : BOOLEAN, includeTotal : BOOLEAN, failOnMissing : BOOLEAN]

(* pdh.dll expands the wildcards of instances and of counters.  The path of *)
(* an object without instances has EmptyInstance.                           *)
ExpandedPath == (Counter \ WildcardCounters) \X (Name \ {NoInstance})

ASSUME ConfigAssumption ==
    /\ HasObject \in BOOLEAN /\ RefreshEnabled \in BOOLEAN
    /\ UsePerfCounterTime \in BOOLEAN
    /\ Config \in Seq(Item)
    /\ LocalizeWildcardsExpansion \in BOOLEAN
    /\ Expansion \in [Path -> SUBSET Seq(ExpandedPath)]

VARIABLES
    pc,             \* where Gather is; "idle" between two calls
    hosts,          \* the keys of m.hostCounters
    todo,           \* the hosts the current loop has still to visit
    item,           \* parseConfig: index into Config
    pending,        \* addItem: expanded paths still to be added
    lastRefreshed,  \* "zero", "fresh", or "expired": older than the interval
    gatherErr,      \* what the last Gather returned
    stamped,        \* hosts sampled and given a timestamp by this Gather
    cachedHostname, \* "" until os.Hostname was called
    tag             \* hostCountersInfo.tag, the last one the host was given

tagVars == <<cachedHostname, tag>>
gatherVars ==
    <<pc, hosts, todo, item, pending, lastRefreshed, gatherErr, stamped, tagVars>>
vars == <<gatherVars, hostVars, queryVars, faulty>>

(* What os.Hostname returns: the computer may be renamed. *)
osHostnames == {"hostname", "new hostname"}

TagTypeOK ==
    /\ cachedHostname \in {"", "localhost"} \cup osHostnames
    /\ tag \in [Host -> Host \cup {"", "localhost"} \cup osHostnames]

CollectorTypeOK ==
    /\ QueryTypeOK
    /\ HostTypeOK
    /\ pc \in {"idle", "clean", "parse", "expand", "expanding", "adding", "warm",
               "collect", "spawn"}
    /\ hosts \in SUBSET Host
    /\ todo \in SUBSET Host
    /\ item \in Nat
    /\ pending \in Seq(ExpandedPath)
    /\ lastRefreshed \in {"zero", "fresh", "expired"}
    /\ gatherErr \in Error
    /\ stamped \in SUBSET Host
    /\ TagTypeOK

Init ==
    /\ QueryInit
    /\ HostInit
    /\ pc = "idle"
    /\ hosts = {}
    /\ todo = {}
    /\ item = 1
    /\ pending = <<>>
    /\ lastRefreshed = "zero"
    /\ gatherErr = Nil
    /\ stamped = {}
    /\ cachedHostname = ""
    /\ tag = [h \in Host |-> ""]
-----------------------------------------------------------------------------
(* Gather returns e. *)
GatherReturn(e) == pc' = "idle" /\ gatherErr' = e

(* Mutant: the counters are parsed once and never again.                    *)
NeedsRefresh_Once == lastRefreshed = "zero"

(* The condition under which Gather refreshes the counters.                 *)
NeedsRefresh == lastRefreshed = "zero" \/ (RefreshEnabled /\ lastRefreshed = "expired")

(* The caller calls Gather.  The observations of the last call are cleared. *)
Gather ==
    /\ pc = "idle"
    /\ pc' = IF NeedsRefresh THEN "clean" ELSE "collect"
    /\ todo' = hosts
    /\ gatherErr' = Nil
    /\ stamped' = {}
    /\ delivered' = [h \in Host |-> {}]
    /\ answered' = [h \in Host |-> {}]
    /\ failed' = [h \in Host |-> FALSE]
    /\ result' = [h \in Host |-> Nil]
    /\ UNCHANGED <<tagVars, hosts, item, pending, lastRefreshed, counters, wg,
                   pos, readErr, collectedFields, queryVars, faulty>>

(* Mutant: cleanQueries goes on after a Close that failed.                  *)
cleanQueries_IgnoreError(h) ==
    /\ pc = "clean"
    /\ h \in todo
    /\ \E e \in Error : Close(h, e)
    /\ todo' = todo \ {h}
    /\ UNCHANGED <<tagVars, pc, gatherErr, hosts, item, pending, lastRefreshed,
                   stamped, hostVars, faulty>>

(* cleanQueries, the Close of one host.                                     *)
cleanQueries(h) ==
    /\ pc = "clean"
    /\ h \in todo
    /\ \E e \in Error :
         /\ Close(h, e)
         /\ IF e = Nil THEN todo' = todo \ {h} /\ UNCHANGED <<pc, gatherErr>>
                       ELSE GatherReturn(e) /\ UNCHANGED todo
    /\ UNCHANGED <<tagVars, hosts, item, pending, lastRefreshed, stamped,
                   hostVars, faulty>>

(* cleanQueries drops the map, and parseConfig begins.                      *)
CleanDone ==
    /\ pc = "clean"
    /\ todo = {}
    /\ hosts' = {}
    /\ counters' = [h \in Host |-> <<>>]
    /\ item' = 1
    /\ IF HasObject THEN pc' = "parse" /\ UNCHANGED gatherErr
                    ELSE GatherReturn(errNoObjects)
    /\ UNCHANGED <<tagVars, todo, pending, lastRefreshed, stamped, wg, pos,
                   readErr, collectedFields, result, delivered, answered, failed,
                   queryVars, faulty>>
-----------------------------------------------------------------------------
(* addItem returned e to parseConfig.                                       *)
ItemDone(e) ==
    /\ pending' = <<>>
    /\ IF e # Nil /\ Config[item].failOnMissing
       THEN GatherReturn(e) /\ UNCHANGED item
       ELSE item' = item + 1 /\ pc' = "parse" /\ UNCHANGED gatherErr

(* Mutant: the host name is looked up every time.                           *)
hostname_NotCached ==
    osHostnames \cup (IF Failures("os.Hostname") = {} THEN {} ELSE {"localhost"})

(* hostname: the names it may return.                                       *)
hostname ==
    IF cachedHostname # "" THEN {cachedHostname}
    ELSE osHostnames \cup (IF Failures("os.Hostname") = {} THEN {} ELSE {"localhost"})

(* addItem, lines 278-294: the first item of a computer creates and opens   *)
(* its query.  The map has the host, with its tag, before Open is called.   *)
OpenHost ==
    /\ pc = "parse"
    /\ item <= Len(Config)
    /\ LET h == Config[item].computer IN
         /\ h \notin hosts
         /\ hosts' = hosts \cup {h}
         /\ IF h = Localhost
            THEN cachedHostname' \in hostname /\ tag' = [tag EXCEPT ![h] = cachedHostname']
            ELSE tag' = [tag EXCEPT ![h] = h] /\ UNCHANGED cachedHostname
         /\ \E e \in Error :
              /\ newPerformanceQuery(h, e)
              /\ IF e = Nil THEN UNCHANGED <<pc, item, pending, gatherErr>>
                            ELSE ItemDone(e)
    /\ UNCHANGED <<todo, lastRefreshed, stamped, hostVars, faulty>>

(* newCounter for the current item, with the handle of the path p, which    *)
(* the counter and the instance name need not be those of.                  *)
newCounter(p, counterName, instance) ==
    LET i == Config[item] IN
    [handle |-> [query |-> queryHandle[i.computer], path |-> p],
     counter |-> counterName, instance |-> instance, useRawValue |-> i.useRawValue,
     includeTotal |-> i.includeTotal]

AppendCounter(p, counterName, instance) ==
    counters' = [counters EXCEPT ![Config[item].computer] =
                   Append(@, newCounter(p, counterName, instance))]

(* The path parseConfig formats for an item.                                *)
ItemPath(i) == <<i.counter, i.instance>>

(* Mutant: the error of AddCounterToQuery is not looked at.                 *)
AddItem_Unchecked ==
    /\ pc = "parse"
    /\ item <= Len(Config)
    /\ LET i == Config[item] IN
         /\ i.computer \in hosts
         /\ \E e \in Error : AddCounterToQuery(i.computer, ItemPath(i), e)
         /\ AppendCounter(ItemPath(i), i.counter, i.instance)
    /\ ItemDone(Nil)
    /\ UNCHANGED <<tagVars, hosts, todo, lastRefreshed, stamped, wg, pos, readErr,
                   collectedFields, result, delivered, answered, failed, faulty>>

(* addItem, lines 296-306 and, without expansion, 392-408.                  *)
AddItem ==
    /\ pc = "parse"
    /\ item <= Len(Config)
    /\ LET i == Config[item] IN
         /\ i.computer \in hosts
         /\ \E e \in Error :
              /\ AddCounterToQuery(i.computer, ItemPath(i), e)
              /\ \/ e # Nil /\ ItemDone(e) /\ UNCHANGED counters
                 \/ /\ e = Nil /\ UseWildcardsExpansion
                    /\ pc' = "expand"
                    /\ UNCHANGED <<item, pending, gatherErr, counters>>
                 \/ /\ e = Nil /\ ~UseWildcardsExpansion
                    /\ AppendCounter(ItemPath(i), i.counter, i.instance)
                    /\ ItemDone(Nil)
    /\ UNCHANGED <<tagVars, hosts, todo, lastRefreshed, stamped, wg, pos, readErr,
                   collectedFields, result, delivered, answered, failed, faulty>>

(* addItem, lines 308-322: GetCounterPath, ExpandWildCardPath, and the      *)
(* parse of the item's own path.                                            *)
Expand ==
    /\ pc = "expand"
    /\ \/ \E call \in {"PdhGetCounterInfo", "PdhExpandWildCardPath",
                       "extractCounterInfoFromCounterPath"} :
            \E e \in Failures(call) : ItemDone(e)
       \/ /\ pending' \in Expansion[ItemPath(Config[item])]
          /\ pc' = "expanding"
          /\ UNCHANGED <<item, gatherErr>>
    /\ UNCHANGED <<tagVars, hosts, todo, lastRefreshed, stamped, hostVars,
                   queryVars, faulty>>

(* addItem, lines 324-333, for one expanded path: it is added to the query  *)
(* and taken apart.                                                         *)
AddExpanded ==
    /\ pc = "expanding"
    /\ pending # <<>>
    /\ \E e \in Error :
         /\ AddCounterToQuery(Config[item].computer, Head(pending), e)
         /\ \/ e # Nil /\ ItemDone(e)
            \/ /\ e = Nil
               /\ \E f \in Failures("extractCounterInfoFromCounterPath") : ItemDone(f)
            \/ e = Nil /\ pc' = "adding" /\ UNCHANGED <<item, pending, gatherErr>>
    /\ UNCHANGED <<tagVars, hosts, todo, lastRefreshed, stamped, hostVars,
                   faulty>>

(* extractCounterInfoFromCounterPath gives a path without instance an empty *)
(* one, and lines 343-348 turn it back.                                     *)
ParsedInstance(n) == IF n = EmptyInstance THEN NoInstance ELSE n
newInstance(n) == IF n = NoInstance THEN EmptyInstance ELSE n

(* Lines 335-353 and 365-368: the path whose handle is kept.  Unless names  *)
(* are localised it has the names of the configuration.                     *)
ReportedPath(i, p) ==
    IF LocalizeWildcardsExpansion THEN p
    ELSE <<i.counter, newInstance(ParsedInstance(p[2]))>>

(* Mutants: the name of the configuration is used although names are        *)
(* localised, and the expanded one although they are not.                   *)
ReportedCounter_Original(i, p) == i.counter
ReportedCounter_Expanded(i, p) == p[1]

(* Lines 359 and 375: the counter name it is reported under.                *)
ReportedCounter(i, p) == IF LocalizeWildcardsExpansion THEN p[1] ELSE i.counter

(* Mutant: the total is kept. *)
SkipsTotal_Never(i, instance) == FALSE

(* Line 382. *)
SkipsTotal(i, instance) == instance = "_Total" /\ i.instance = "*" /\ ~i.includeTotal

(* addItem, lines 335-390: the path is added and its handle kept, except    *)
(* for the total of "*".                                                    *)
AddReported ==
    /\ pc = "adding"
    /\ LET i == Config[item]
           p == Head(pending)
           instance == ParsedInstance(p[2])
       IN  \E e \in Error :
             /\ AddCounterToQuery(i.computer, ReportedPath(i, p), e)
             /\ \/ e # Nil /\ ItemDone(e) /\ UNCHANGED counters
                \/ /\ e = Nil
                   /\ IF SkipsTotal(i, instance) THEN UNCHANGED counters
                      ELSE AppendCounter(ReportedPath(i, p), ReportedCounter(i, p), instance)
                   /\ pending' = Tail(pending)
                   /\ pc' = "expanding"
                   /\ UNCHANGED <<item, gatherErr>>
    /\ UNCHANGED <<tagVars, hosts, todo, lastRefreshed, stamped, wg, pos, readErr,
                   collectedFields, result, delivered, answered, failed, faulty>>

ExpandDone ==
    /\ pc = "expanding"
    /\ pending = <<>>
    /\ ItemDone(Nil)
    /\ UNCHANGED <<tagVars, hosts, todo, lastRefreshed, stamped, hostVars,
                   queryVars, faulty>>

(* Mutant: the first sample is not taken. *)
ParseDone_NoWarm ==
    /\ pc = "parse"
    /\ item > Len(Config)
    /\ pc' = "collect"
    /\ todo' = hosts
    /\ lastRefreshed' = "fresh"
    /\ UNCHANGED <<tagVars, hosts, item, pending, gatherErr, stamped, hostVars,
                   queryVars, faulty>>

(* parseConfig returns and the warm-up loop begins.                         *)
ParseDone ==
    /\ pc = "parse"
    /\ item > Len(Config)
    /\ pc' = "warm"
    /\ todo' = hosts
    /\ UNCHANGED <<tagVars, hosts, item, pending, lastRefreshed, gatherErr,
                   stamped, hostVars, queryVars, faulty>>
-----------------------------------------------------------------------------
(* Gather, lines 211-216: the first of two samples, for one host.           *)
WarmCollect(h) ==
    /\ pc = "warm"
    /\ h \in todo
    /\ \E e \in Error :
         /\ CollectData(h, e)
         /\ IF e = Nil THEN todo' = todo \ {h} /\ UNCHANGED <<pc, gatherErr>>
                       ELSE GatherReturn(checkError(e)) /\ UNCHANGED todo
    /\ UNCHANGED <<tagVars, hosts, item, pending, lastRefreshed, stamped,
                   hostVars, faulty>>

WarmDone ==
    /\ pc = "warm"
    /\ todo = {}
    /\ lastRefreshed' = "fresh"
    /\ pc' = "collect"
    /\ todo' = hosts
    /\ UNCHANGED <<tagVars, hosts, item, pending, gatherErr, stamped, hostVars,
                   queryVars, faulty>>

(* Mutant: a host whose collection fails is passed over.                    *)
CollectHost_PassOver(h) ==
    /\ pc = "collect"
    /\ h \in todo
    /\ todo' = todo \ {h}
    /\ \E e \in Error :
         /\ IF UsePerfCounterTime THEN CollectDataWithTime(h, e) ELSE CollectData(h, e)
         /\ stamped' = IF e = Nil THEN stamped \cup {h} ELSE stamped
    /\ UNCHANGED <<tagVars, pc, gatherErr, hosts, item, pending, lastRefreshed,
                   hostVars, faulty>>

(* Gather, lines 223-237: the sample and the timestamp of one host.         *)
CollectHost(h) ==
    /\ pc = "collect"
    /\ h \in todo
    /\ \E e \in Error :
         /\ IF UsePerfCounterTime THEN CollectDataWithTime(h, e) ELSE CollectData(h, e)
         /\ IF e = Nil
            THEN /\ todo' = todo \ {h}
                 /\ stamped' = stamped \cup {h}
                 /\ UNCHANGED <<pc, gatherErr>>
            ELSE GatherReturn(e) /\ UNCHANGED <<todo, stamped>>
    /\ UNCHANGED <<tagVars, hosts, item, pending, lastRefreshed, hostVars,
                   faulty>>

CollectDone ==
    /\ pc = "collect"
    /\ todo = {}
    /\ pc' = "spawn"
    /\ todo' = hosts
    /\ UNCHANGED <<tagVars, hosts, item, pending, lastRefreshed, gatherErr,
                   stamped, hostVars, queryVars, faulty>>

(* Gather, lines 241-253: a goroutine per host.                             *)
Spawn(h) ==
    /\ pc = "spawn"
    /\ h \in todo
    /\ todo' = todo \ {h}
    /\ StartHost(h)
    /\ UNCHANGED <<tagVars, pc, hosts, item, pending, lastRefreshed, gatherErr,
                   stamped, queryVars, faulty>>

(* Mutant: Gather does not wait for the goroutines.                         *)
Wait_Not ==
    /\ pc = "spawn"
    /\ todo = {}
    /\ GatherReturn(Nil)
    /\ UNCHANGED <<tagVars, hosts, todo, item, pending, lastRefreshed, stamped,
                   hostVars, queryVars, faulty>>

(* wg.Wait; Gather returns nil whatever the goroutines returned.            *)
Wait ==
    /\ pc = "spawn"
    /\ todo = {}
    /\ wg = {}
    /\ GatherReturn(Nil)
    /\ UNCHANGED <<tagVars, hosts, todo, item, pending, lastRefreshed, stamped,
                   hostVars, queryVars, faulty>>
-----------------------------------------------------------------------------
(* A host goroutine takes a step.                                           *)
HostStep(h) ==
    gatherComputerCounters(h) /\ UNCHANGED <<gatherVars, queryVars, faulty>>

(* CountersRefreshInterval passes.                                          *)
Expire ==
    /\ lastRefreshed = "fresh"
    /\ lastRefreshed' = "expired"
    /\ UNCHANGED <<tagVars, pc, hosts, todo, item, pending, gatherErr, stamped,
                   hostVars, queryVars, faulty>>

(* The steps of Gather once it is called.                                   *)
GatherStep ==
    \/ CleanDone \/ OpenHost \/ AddItem \/ Expand \/ AddExpanded \/ AddReported
    \/ ExpandDone
    \/ ParseDone \/ WarmDone \/ CollectDone \/ Wait
    \/ \E h \in Host : cleanQueries(h) \/ WarmCollect(h) \/ CollectHost(h) \/ Spawn(h)

Next ==
    \/ Gather
    \/ GatherStep
    \/ \E h \in Host : HostStep(h)
    \/ Expire
    \/ Heal /\ UNCHANGED <<gatherVars, hostVars, queryVars>>

Spec == Init /\ [][Next]_vars

(* cmd/main.go calls Gather on every tick, goroutines are scheduled, and    *)
(* time passes.  Nothing makes pdh.dll recover.                             *)
FairSpec ==
    /\ Spec
    /\ WF_vars(Gather)
    /\ WF_vars(GatherStep)
    /\ \A h \in Host : WF_vars(HostStep(h))
    /\ WF_vars(Expire)
-----------------------------------------------------------------------------
(* The queries pdh.dll holds open are the handles of hosts in hostCounters, *)
(* one each: no path through Gather, whichever call fails, loses a query    *)
(* that cleanQueries could not close any more.                              *)
NoQueryLeaked ==
    /\ QueryOwnership
    /\ \A h \in Host : queryHandle[h] # NoHandle => h \in hosts

(* While a host goroutine runs, all its counter handles are of the query    *)
(* its host now has open: no refresh closes a query that is being read, and *)
(* no handle of an earlier refresh survives in hostCounters.                *)
LiveHandles ==
    \A h \in wg : \A i \in DOMAIN counters[h] :
        LET c == counters[h][i].handle IN c.query = queryHandle[h] /\ IsLive(c)

(* Some counters need two data samples before computing a value (line 212): *)
(* every counter a goroutine reads has two, even if collections failed in   *)
(* this Gather or in earlier ones.                                          *)
TwoSamples ==
    \A h \in wg : \A i \in DOMAIN counters[h] :
        LET c == counters[h][i].handle IN samples[c.query][c.path] = 2

(* Values go to the callback only for hosts whose query this very Gather    *)
(* sampled and stamped, and only when it sampled all of them: a Gather that *)
(* returns an error has delivered nothing.                                  *)
DeliveredFresh ==
    \A h \in Host : h \in wg \/ delivered[h] # {} =>
        hosts \subseteq stamped /\ h \in hosts /\ gatherErr = Nil

(* WinPerfCounters.Init, lines 166-191: the configurations it does not      *)
(* refuse.                                                                  *)
InitAccepts ==
    UseWildcardsExpansion /\ ~LocalizeWildcardsExpansion =>
        \A k \in DOMAIN Config : Config[k].counter \notin WildcardCounters

(* What pdh.dll may have for the item i, as sets of <<counter, instance>>.  *)
Findings(i) ==
    IF UseWildcardsExpansion
    THEN {{list[k] : k \in DOMAIN list} : list \in Expansion[ItemPath(i)]}
    ELSE {{i.counter} \X insts : insts \in Answer[i.instance]}
Found(i) == UNION Findings(i)

(* The name p is to be reported under: the local name of the counter pdh.dll *)
(* found if the expansion is to be localised, or else the configured one.   *)
NameFor(i, p) ==
    IF UseWildcardsExpansion /\ LocalizeWildcardsExpansion THEN p[1] ELSE i.counter

(* The item i asks for the entry e: the value of something pdh.dll has for  *)
(* it, of the counter its field is named for, and under the instance it is  *)
(* of; an array may call an instance by another name.                       *)
Requests(i, e) ==
    /\ e.value.raw = i.useRawValue
    /\ \E p \in Found(i) :
         /\ e.field = fieldName[<<NameFor(i, p), i.useRawValue>>]
         /\ e.value.counter = CounterOf[NameFor(i, p)]
         /\ UseWildcardsExpansion /\ InitAccepts => NameFor(i, p) \notin WildcardCounters
         /\ e.value.instance = p[2]
         /\ e.instance \in IF UseWildcardsExpansion THEN {ParsedInstance(p[2])}
                           ELSE {p[2], ReportedName[p[2]]}

(* The entries the configuration asks of each host. *)
Requested ==
    [h \in Host |->
       {e \in Entry : \E k \in DOMAIN Config :
                        Config[k].computer = h /\ Requests(Config[k], e)}]

(* Only what the configuration asks for is delivered, under its own labels: *)
(* no value of another counter or instance than the labels say, though the  *)
(* handle and the labels of a counter are passed to newCounter separately,  *)
(* no local name unless names are to be localised, and no wildcard (Init;   *)
(* the comment in addItem on English names; README.md,                      *)
(* LocalizeWildcardsExpansion).                                             *)
RequestedOnly == \A h \in Host : delivered[h] \subseteq Requested[h]

(* README.md, line 201: results that contain "_Total" are left out unless   *)
(* they are asked for, by IncludeTotal or by their name.                    *)
TotalsLeftOut ==
    \A h \in Host : \A e \in delivered[h] : e.instance \in TotalNames =>
        \E k \in DOMAIN Config :
            /\ Config[k].computer = h /\ Requests(Config[k], e)
            /\ Config[k].includeTotal \/ Config[k].instance \in {e.instance, EmptyInstance}

(* GatherContract, seen from the caller.  The hosts that owe an answer are  *)
(* those whose goroutine has not started or not ended.                      *)
Contract ==
    INSTANCE GatherContract
    WITH phase <- IF pc = "idle" THEN "idle" ELSE IF pc = "spawn" THEN "reading"
                  ELSE "sampling",
         owed <- IF pc = "spawn" THEN todo \cup wg ELSE {},
         err <- gatherErr

(* Gather keeps the contract: it returns an error only with nothing         *)
(* delivered, lets every goroutine end before it returns, and every host    *)
(* delivers at most once and only what was requested.                       *)
ContractKept == Contract!ContractSpec

(* The source tag a host was given never changes, whatever os.Hostname      *)
(* returns at a later refresh: the series of a host stay the same.          *)
SourceTagStable == [][\A h \in Host : tag[h] # "" => tag'[h] = tag[h]]_vars

(* Gather always returns: no goroutine is waited for that never ends.       *)
GatherReturns == pc # "idle" ~> pc = "idle"

(* The last Gather delivered, for every configured item, the values of all  *)
(* instances pdh.dll has for it, but for totals.                            *)
AllServed ==
    /\ pc = "idle"
    /\ \A k \in DOMAIN Config :
         LET i == Config[k] IN
         \E ps \in Findings(i) : \A p \in ps : p[2] \notin TotalNames =>
            \E e \in delivered[i.computer] :
               Requests(i, e) /\ e.value.instance = p[2]

(* Whatever failed before, once pdh.dll has recovered the refreshes get     *)
(* every instance of every configured counter going again.                  *)
Recovers == ~faulty ~> AllServed

(* A host none of whose counters is missing is served again and again,      *)
(* whatever other hosts miss.                                               *)
HealthyHostsServed ==
    \A h \in {Config[i].computer : i \in DOMAIN Config} :
        (\A p \in Path : <<h, p>> \notin Missing) => []<>(delivered[h] # {})
=============================================================================
