-------------------------- MODULE CollectorProofs ---------------------------
(***************************************************************************)
(* Proofs about the collector, for any hosts, counters, configuration and  *)
(* faults of pdh.dll: its inductive invariant, the steps of Gather and of  *)
(* parseConfig that preserve it, and the theorems that follow from it.     *)
(***************************************************************************)
EXTENDS Collector, PerformanceQueryProofs

(* The errors calls return are errors.                                      *)
LEMMA FailuresAreErrors ==
    ASSUME NEW call \in FallibleCall PROVE Failures(call) \subseteq Error
BY PdhAssumption DEF Failures, Error, GoError

(* So are the errors the Go code makes itself.                              *)
LEMMA ErrorsAreErrors ==
    /\ Nil \in Error /\ errNoObjects \in Error
    /\ \A e \in Error : checkError(e) \in Error
BY ZenonT(30) DEF Error, GoError, checkError

(* The entries made of a read are entries.                                  *)
LEMMA EntryType ==
    ASSUME NEW metric \in Metric, NEW n \in Name, NEW x \in Name
    PROVE  NewEntry(metric, n, x) \in Entry
<1>1. metric.handle.path[1] \in Counter /\ metric.counter \in Counter
  BY DEF Metric, CounterHandle, Path
<1>2. /\ fieldName[<<metric.counter, metric.useRawValue>>] \in FieldName
      /\ CounterOf[metric.handle.path[1]] \in Counter
  BY <1>1, NameAssumption DEF Metric
<1> QED
  BY <1>1, <1>2 DEF NewEntry, Metric, Entry, Value

(* So are those made of an array.                                           *)
LEMMA ArrayEntriesType ==
    ASSUME NEW metric \in Metric, NEW insts \in SUBSET Name
    PROVE  ArrayEntries(metric, insts) \subseteq Entry
<1>1. \A x \in insts : InstanceName(metric, ReportedName[x]) \in Name
  BY NameAssumption DEF InstanceName, Metric
<1> QED
  BY <1>1, EntryType DEF ArrayEntries

(* collectedFields gains nothing but the new entries.                       *)
LEMMA MeasurementSubset ==
    ASSUME NEW fields, NEW new, NEW last \in LastWritten(new)
    PROVE  addCounterMeasurement(fields, last) \subseteq fields \cup new
BY DEF addCounterMeasurement, LastWritten
-----------------------------------------------------------------------------
(* Type correctness, step by step.                                          *)

(* A step of a host goroutine.                                              *)
LEMMA HostStepType ==
    ASSUME HostTypeOK, NEW h \in Host, gatherComputerCounters(h)
    PROVE  HostTypeOK' /\ UNCHANGED counters /\ wg' \subseteq wg
<1> USE ErrorsAreErrors
<1>1. ASSUME NEW e \in Error, NEW f \in SUBSET Entry, NEW e2 \in Error,
             NEW g \in SUBSET Entry, AfterRead(h, e, f), Record(h, e2, g)
      PROVE  HostTypeOK' /\ UNCHANGED counters /\ wg' \subseteq wg
  <2>a. failed' \in [Host -> BOOLEAN]
    BY <1>1, Zenon DEF Record, HostTypeOK
  <2>b. answered' \in [Host -> SUBSET Entry] /\ UNCHANGED delivered
    BY <1>1, ZenonT(30) DEF Record, HostTypeOK
  <2>c. UNCHANGED counters
    BY <1>1, ZenonT(30) DEF AfterRead
  <2>1. ASSUME NEW x \in SUBSET Entry, NextCounter(h, e, x)
        PROVE  HostTypeOK' /\ wg' \subseteq wg
    BY <2>a, <2>b, <2>c, <2>1, SMTT(30) DEF NextCounter, HostTypeOK
  <2>2. CASE EndHost(h, e)
    BY <2>a, <2>b, <2>c, <2>2, ZenonT(30) DEF EndHost, HostTypeOK
  <2>3. collectedFields[h] \in SUBSET Entry
    BY ZenonT(30) DEF HostTypeOK
  <2>4. CASE e = Nil /\ AddEntries(h, f)
    <3>1. PICK last \in LastWritten(f) :
            NextCounter(h, Nil, addCounterMeasurement(collectedFields[h], last))
      BY <2>4, ZenonT(30) DEF AddEntries
    <3>2. addCounterMeasurement(collectedFields[h], last) \in SUBSET Entry
      BY <2>3, MeasurementSubset, ZenonT(30)
    <3> QED
      BY <2>c, <2>1, <2>4, <3>1, <3>2, ZenonT(30)
  <2> QED
    BY <1>1, <2>c, <2>1, <2>2, <2>3, <2>4, ZenonT(30) DEF AfterRead
<1>2. ASSUME Reading(h) PROVE counters[h][pos[h]] \in Metric
  BY <1>2, SMTT(30) DEF Reading, HostTypeOK
<1>3. CASE ReadValue(h)
  <2> DEFINE metric == counters[h][pos[h]]
             new == {NewEntry(metric, metric.instance, metric.handle.path[2])}
  <2>1. PICK e \in IF metric.useRawValue THEN GetRawCounterValue(h)
                                        ELSE GetFormattedCounterValueDouble(h) :
            AfterRead(h, e, new) /\ Record(h, e, new)
    BY <1>3, ZenonT(30) DEF ReadValue
  <2>2. new \in SUBSET Entry
    <3>1. metric \in Metric
      BY <1>2, <1>3, Zenon DEF ReadValue
    <3>2. metric.instance \in Name /\ metric.handle.path[2] \in Name
      BY <3>1 DEF Metric, CounterHandle, Path
    <3> QED
      BY <3>1, <3>2, EntryType, Zenon
  <2>3. e \in Error
    <3>1. Failures("PdhGetCounterValue") \subseteq Error
      BY FailuresAreErrors, ZenonT(30) DEF FallibleCall
    <3>2. errUninitializedQuery \in Error
      BY DEF Error, GoError
    <3> QED
      BY <2>1, <3>1, <3>2, ZenonT(30)
         DEF GetRawCounterValue, GetFormattedCounterValueDouble, ValueReturns
  <2> HIDE DEF new
  <2> QED
    BY <1>1, <2>1, <2>2, <2>3
<1>4. CASE ReadArray(h)
  <2> DEFINE metric == counters[h][pos[h]]
             new(e, insts) == IF e = Nil THEN ArrayEntries(metric, insts) ELSE {}
  <2>1. PICK e \in CounterArrayReturns, insts \in Answer[metric.instance] :
            /\ AfterRead(h, IF metric.useRawValue THEN e ELSE readErr[h], new(e, insts))
            /\ Record(h, e, new(e, insts))
    BY <1>4, Zenon DEF ReadArray
  <2>2. metric \in Metric
    BY <1>2, <1>4, Zenon DEF ReadArray
  <2>3. insts \in SUBSET Name
    BY <2>2, NameAssumption, ZenonT(30) DEF Metric
  <2>4. new(e, insts) \in SUBSET Entry
    BY <2>2, <2>3, ArrayEntriesType, SMTT(30)
  <2>5. e \in Error /\ (IF metric.useRawValue THEN e ELSE readErr[h]) \in Error
    BY FailuresAreErrors, ZenonT(30) DEF CounterArrayReturns, FallibleCall, HostTypeOK
  <2> HIDE DEF new
  <2> QED
    BY <1>1, <2>1, <2>4, <2>5, Zenon
<1>5. CASE Deliver(h)
  BY <1>5, ZenonT(30) DEF Deliver, EndHost, HostTypeOK
<1> QED
  BY <1>3, <1>4, <1>5, ZenonT(30) DEF gatherComputerCounters

(* It is a step of a goroutine that runs, and delivers nothing for others.  *)
LEMMA HostStepOwn ==
    ASSUME HostTypeOK, NEW h \in Host, gatherComputerCounters(h)
    PROVE  h \in wg /\ \A g \in Host \ {h} : delivered'[g] = delivered[g]
<1>1. CASE ReadValue(h)
  <2>1. h \in wg
    BY <1>1, ZenonT(60) DEF ReadValue, Reading
  <2>2. UNCHANGED delivered
    BY <1>1, ZenonT(30) DEF ReadValue, Record
  <2> QED
    BY <2>1, <2>2, Zenon
<1>2. CASE ReadArray(h)
  <2>1. h \in wg
    BY <1>2, Zenon DEF ReadArray, Reading
  <2>2. UNCHANGED delivered
    BY <1>2, ZenonT(30) DEF ReadArray, Record
  <2> QED
    BY <2>1, <2>2, Zenon
<1>3. CASE Deliver(h)
  <2>1. h \in wg /\ delivered' = [delivered EXCEPT ![h] = collectedFields[h]]
    BY <1>3, ZenonT(30) DEF Deliver
  <2> QED
    BY <2>1, ZenonT(30) DEF HostTypeOK
<1> QED
  BY <1>1, <1>2, <1>3, ZenonT(30) DEF gatherComputerCounters

(* What addItem leaves to parseConfig.                                      *)
LEMMA ItemDoneType ==
    ASSUME CollectorTypeOK, NEW e \in Error, ItemDone(e)
    PROVE  /\ pending' \in Seq(ExpandedPath) /\ item' \in Nat /\ gatherErr' \in Error
           /\ pc' \in {"idle", "parse"}
BY SMTT(30) DEF ItemDone, GatherReturn, CollectorTypeOK

(* A counter is appended with a handle of its own query.                    *)
LEMMA AppendType ==
    ASSUME CollectorTypeOK, item \in DOMAIN Config, NEW p \in Path,
           NEW c \in Counter, NEW n \in Name,
           queryHandle[Config[item].computer] # NoHandle, AppendCounter(p, c, n)
    PROVE  /\ newCounter(p, c, n) \in Metric
           /\ counters' \in [Host -> Seq(Metric)]
<1>1. Config[item] \in Item
  BY ConfigAssumption, SMTT(30)
<1>2. queryHandle[Config[item].computer] \in Handle
  BY <1>1, ZenonT(30) DEF Item, CollectorTypeOK, QueryTypeOK
<1>4. newCounter(p, c, n) \in Metric
  BY <1>1, <1>2, Zenon DEF newCounter, Metric, CounterHandle, Item
<1>5. counters' \in [Host -> Seq(Metric)]
  BY <1>1, <1>4 DEF AppendCounter, CollectorTypeOK, HostTypeOK, Item
<1> QED
  BY <1>4, <1>5, ZenonT(30)

(* An item that is worked on is an item of the configuration.               *)
LEMMA ItemInConfig ==
    ASSUME item \in Nat, item # 0, item <= Len(Config)
    PROVE  /\ item \in DOMAIN Config /\ Config[item] \in Item
           /\ Config[item].computer \in Host /\ Config[item].instance \in Name
           /\ \A n \in Name : <<Config[item].counter, n>> \in Path
           /\ ItemPath(Config[item]) \in Path
           /\ \A p \in Path : /\ ReportedPath(Config[item], p) \in Path
                             /\ ReportedCounter(Config[item], p) \in Counter
                             /\ ParsedInstance(p[2]) \in Name
<1>1. item \in DOMAIN Config /\ Config[item] \in Item
  BY ConfigAssumption, SMTT(30)
<1>2. /\ Config[item].counter \in Counter /\ Config[item].instance \in Name
      /\ Config[item].computer \in Host
  BY <1>1, ZenonT(30) DEF Item
<1>3. NoInstance \in Name /\ EmptyInstance \in Name
  BY NameAssumption
<1>4. \A n \in Name : ParsedInstance(n) \in Name /\ newInstance(n) \in Name
  BY <1>3, ZenonT(30) DEF ParsedInstance, newInstance
<1>5. \A p \in Path : p[1] \in Counter /\ p[2] \in Name
  BY ZenonT(30) DEF Path
<1>6. \A n \in Name : <<Config[item].counter, n>> \in Path
  BY <1>2, ZenonT(30) DEF Path
<1> QED
  BY <1>1, <1>2, <1>4, <1>5, <1>6, Zenon DEF ItemPath, ReportedPath, ReportedCounter

(* A successful AddCounterToQuery had an open query.                        *)
LEMMA AddNeedsQuery ==
    ASSUME NEW q, NEW path, AddCounterToQuery(q, path, Nil)
    PROVE  queryHandle[q] # NoHandle
BY ZenonT(30) DEF AddCounterToQuery, errUninitializedQuery, Nil
-----------------------------------------------------------------------------
(* The inductive invariant.                                                 *)

(* Where Gather is, and what follows for the refresh, the loop and the      *)
(* goroutines.                                                              *)
InvControl ==
    /\ pc \in {"clean", "parse", "expand", "expanding", "adding", "warm"} => NeedsRefresh
    /\ pc \in {"clean", "warm", "collect", "spawn"} => todo \subseteq hosts
    /\ item # 0
    /\ pc \in {"expand", "expanding", "adding"} =>
         /\ item <= Len(Config) /\ Config[item].computer \in hosts
         /\ UseWildcardsExpansion
    /\ pc = "adding" => pending # <<>>
    /\ pc # "spawn" => wg = {}
    /\ wg \subseteq hosts

(* Who owns the PDH queries, also while cleanQueries closes them.           *)
InvQueries ==
    /\ NoQueryLeaked
    /\ pc = "clean" => \A h \in hosts \ todo : queryHandle[h] = NoHandle

(* The counters of h are of its open query and have at least k samples.     *)
Sampled(h, k) ==
    \A i \in DOMAIN counters[h] :
        LET c == counters[h][i].handle
        IN  c.query = queryHandle[h] /\ IsLive(c) /\ samples[c.query][c.path] >= k

(* The counters may be stale only where the next thing that can happen to   *)
(* them is cleanQueries.                                                    *)
Stale == pc = "clean" \/ (pc = "idle" /\ NeedsRefresh)

InvCounters ==
    /\ \A h \in Host \ hosts : counters[h] = <<>>
    /\ ~Stale => \A h \in hosts : Sampled(h, 0)
    /\ pc = "warm" => \A h \in hosts \ todo : Sampled(h, 1)
    /\ pc \in {"idle", "collect"} /\ ~Stale => \A h \in hosts : Sampled(h, 1)
    /\ pc = "collect" => \A h \in hosts \ todo : Sampled(h, 2)
    /\ pc = "spawn" => \A h \in hosts : Sampled(h, 2)

(* What has been handed to the callback, and after what.                    *)
InvDelivered ==
    /\ pc = "collect" => hosts \ todo \subseteq stamped
    /\ pc = "spawn" => hosts \subseteq stamped
    /\ pc \notin {"spawn", "idle"} => \A h \in Host : delivered[h] = {}
    /\ pc # "idle" => gatherErr = Nil
    /\ DeliveredFresh

Inv == CollectorTypeOK /\ InvControl /\ InvQueries /\ InvCounters /\ InvDelivered
-----------------------------------------------------------------------------
(* What the operations on queries do to the counters of a host.             *)

(* Counters with k samples keep them where nothing changes.                 *)
LEMMA SampledKept ==
    ASSUME UNCHANGED <<counters, queryVars>>, NEW h, NEW k
    PROVE  Sampled(h, k)' <=> Sampled(h, k)
BY DEF Sampled, IsLive, queryVars

(* The handle of a counter in hostCounters is a query and a path.           *)
LEMMA HandleType ==
    ASSUME CollectorTypeOK, NEW h \in Host, NEW i \in DOMAIN counters[h]
    PROVE  /\ counters[h][i].handle \in CounterHandle
           /\ counters[h][i].handle.query \in Handle
           /\ counters[h][i].handle.path \in Path
           /\ samples[counters[h][i].handle.query][counters[h][i].handle.path] \in 0..2
<1>1. counters[h] \in Seq(Metric)
  BY ZenonT(30) DEF CollectorTypeOK, HostTypeOK
<1>2. counters[h][i] \in Metric
  BY <1>1, SMTT(30)
<1>3. counters[h][i].handle \in CounterHandle
  BY <1>2, ZenonT(30) DEF Metric
<1>4. counters[h][i].handle.query \in Handle /\ counters[h][i].handle.path \in Path
  BY <1>3, ZenonT(30) DEF CounterHandle
<1>5. samples \in [Handle -> [Path -> 0..2]]
  BY DEF CollectorTypeOK, QueryTypeOK
<1>6. samples[counters[h][i].handle.query][counters[h][i].handle.path] \in 0..2
  BY <1>4, <1>5, Zenon
<1> QED
  BY <1>3, <1>4, <1>6, Zenon

(* Counts of samples, 0 to 2, compare as they should.                       *)
LEMMA SampleCounts ==
    /\ \A n \in 0..2 : n >= 0 /\ (n >= 2 => n = 2)
    /\ \A n \in 0..2, k \in 0..2 : n >= k => \A j \in 0..k : n >= j
OBVIOUS

(* More samples are enough.                                                 *)
LEMMA SampledLess ==
    ASSUME CollectorTypeOK, NEW h \in Host, NEW k \in 0..2, Sampled(h, k), NEW j \in 0..k
    PROVE  Sampled(h, j)
<1> SUFFICES ASSUME NEW i \in DOMAIN counters[h]
             PROVE  samples[counters[h][i].handle.query][counters[h][i].handle.path] >= j
  BY Zenon DEF Sampled
<1>2. samples[counters[h][i].handle.query][counters[h][i].handle.path] \in 0..2
  BY HandleType, Zenon
<1>3. samples[counters[h][i].handle.query][counters[h][i].handle.path] >= k
  BY ZenonT(60) DEF Sampled
<1> QED
  BY <1>2, <1>3, SampleCounts, Zenon

(* A collection takes no sample away, and one that succeeds adds one.       *)
LEMMA CollectSamples ==
    ASSUME CollectorTypeOK, NEW q \in Host, NEW e \in Error,
           CollectDataWithTime(q, e), UNCHANGED counters
    PROVE  /\ \A h \in Host, k \in 0..2 : Sampled(h, k) => Sampled(h, k)'
           /\ e = Nil /\ Sampled(q, 0) => Sampled(q, 1)'
           /\ e = Nil /\ Sampled(q, 1) => Sampled(q, 2)'
           /\ UNCHANGED <<queryHandle, pdhQueries>>
<1>1. CASE UNCHANGED queryVars /\ e # Nil
  BY <1>1, SampledKept, ZenonT(30) DEF queryVars
<1>2. CASE queryHandle[q] # NoHandle /\ TakeSample(queryHandle[q])
  <2> DEFINE hq == queryHandle[q]
  <2>1. hq \in Handle
    BY <1>2, ZenonT(60) DEF CollectorTypeOK, QueryTypeOK
  <2>2. \A h \in Host : \A i \in DOMAIN counters[h] :
          /\ counters[h][i].handle.query \in Handle
          /\ counters[h][i].handle.path \in Path
    BY HandleType
  <2>3. \A g \in Handle, p \in Path :
          /\ samples[g][p] \in 0..2
          /\ samples'[g][p] = IF g = hq
                              THEN IF samples[g][p] < 2 THEN samples[g][p] + 1 ELSE 2
                              ELSE samples[g][p]
    BY <1>2, <2>1, Zenon DEF TakeSample, CollectorTypeOK, QueryTypeOK
  <2>4. \A g \in Handle, p \in Path : \A k \in 0..2 :
          samples[g][p] >= k => samples'[g][p] >= k
    BY <2>3, SMTT(30)
  <2>5. \A g \in Handle, p \in Path :
          g = hq => /\ samples[g][p] >= 0 => samples'[g][p] >= 1
                    /\ samples[g][p] >= 1 => samples'[g][p] >= 2
    BY <2>1, <2>3, SMTT(30)
  <2>6. UNCHANGED <<queryHandle, pdhQueries, pdhCounters, counters>>
    BY <1>2, SMTT(30) DEF TakeSample
  <2> HIDE DEF hq
  <2>7. \A h \in Host, k \in 0..2 : Sampled(h, k) => Sampled(h, k)'
    BY <2>2, <2>4, <2>6, ZenonT(30) DEF Sampled, IsLive
  <2>8. Sampled(q, 0) => Sampled(q, 1)'
    BY <2>2, <2>5, <2>6, ZenonT(30) DEF Sampled, IsLive, hq
  <2>9. Sampled(q, 1) => Sampled(q, 2)'
    BY <2>2, <2>5, <2>6, ZenonT(30) DEF Sampled, IsLive, hq
  <2> QED
    BY <2>6, <2>7, <2>8, <2>9, Zenon
<1>3. Nil \notin Failures("PdhCollectQueryData") /\ pdhNoData # Nil /\ errUninitializedQuery # Nil
  BY PdhAssumption, ZenonT(30) DEF Failures, FallibleCall, Nil, pdhNoData,
     errUninitializedQuery, GoError, errBufferLimitReached, errCannotParse
<1> QED
  BY <1>1, <1>2, <1>3, ZenonT(30) DEF CollectDataWithTime, CollectData

(* Adding a path to the query of q leaves the counters of all hosts live,   *)
(* though perhaps without samples; on success the new path is live too.     *)
LEMMA AddSamples ==
    ASSUME CollectorTypeOK, NEW q \in Host, NEW path \in Path, NEW e \in Error,
           AddCounterToQuery(q, path, e)
    PROVE  /\ \A c \in CounterHandle : IsLive(c) => IsLive(c)'
           /\ UNCHANGED <<queryHandle, pdhQueries>>
           /\ e = Nil =>
                queryHandle[q] \in Handle /\ path \in pdhCounters'[queryHandle[q]]
<1>1. CASE UNCHANGED queryVars /\ e # Nil
  BY <1>1, ZenonT(30) DEF queryVars, IsLive
<1>2. CASE /\ queryHandle[q] # NoHandle
           /\ pdhCounters' = [pdhCounters EXCEPT ![queryHandle[q]] = @ \cup {path}]
           /\ UNCHANGED <<queryHandle, pdhQueries>>
  BY <1>2 DEF CollectorTypeOK, QueryTypeOK, CounterHandle, IsLive
<1>3. Nil \notin Failures("PdhAddCounter") /\ pdhCstatusNoCounter # Nil
      /\ errUninitializedQuery # Nil
  BY PdhAssumption, ZenonT(30) DEF Failures, FallibleCall, Nil, pdhCstatusNoCounter, GoError,
     errUninitializedQuery, errBufferLimitReached, errCannotParse
<1> QED
  BY <1>1, <1>2, <1>3, Zenon DEF AddCounterToQuery

(* Opening the query of q leaves the counters of the others live.           *)
LEMMA OpenSamples ==
    ASSUME CollectorTypeOK, InvQueries, NEW q \in Host, queryHandle[q] = NoHandle,
           NEW e \in Error, newPerformanceQuery(q, e)
    PROVE  /\ \A c \in CounterHandle : IsLive(c) => IsLive(c)'
           /\ \A h \in Host \ {q} : queryHandle'[h] = queryHandle[h]
<1>1. /\ pdhQueries \subseteq pdhQueries'
      /\ \A g \in pdhQueries : pdhCounters'[g] = pdhCounters[g]
  BY DEF newPerformanceQuery, pdhOpenQuery, Hold, CollectorTypeOK, QueryTypeOK
<1>2. \A h \in Host \ {q} : queryHandle'[h] = queryHandle[h]
  BY ZenonT(30) DEF newPerformanceQuery, pdhOpenQuery, CollectorTypeOK, QueryTypeOK
<1> QED
  BY <1>1, <1>2 DEF IsLive

(* Live handles of the right query are all that k = 0 asks for.             *)
LEMMA SampledZero ==
    ASSUME CollectorTypeOK, NEW h \in Host
    PROVE  Sampled(h, 0) <=>
             \A i \in DOMAIN counters[h] :
                 /\ counters[h][i].handle.query = queryHandle[h]
                 /\ IsLive(counters[h][i].handle)
<1>1. \A i \in DOMAIN counters[h] :
        samples[counters[h][i].handle.query][counters[h][i].handle.path] >= 0
  <2> SUFFICES ASSUME NEW i \in DOMAIN counters[h]
               PROVE  samples[counters[h][i].handle.query][counters[h][i].handle.path] >= 0
    BY Zenon
  <2>1. samples[counters[h][i].handle.query][counters[h][i].handle.path] \in 0..2
    BY HandleType, Zenon
  <2> QED
    BY <2>1, SampleCounts, Zenon
<1> QED
  BY <1>1, ZenonT(30) DEF Sampled

(* The same for the state after a step.                                     *)
LEMMA LiveIsSampled ==
    ASSUME QueryTypeOK', HostTypeOK', NEW h \in Host,
           (\A i \in DOMAIN counters[h] :
                 /\ counters[h][i].handle.query = queryHandle[h]
                 /\ IsLive(counters[h][i].handle))'
    PROVE  Sampled(h, 0)'
<1>1. counters'[h] \in Seq(Metric)
  BY ZenonT(60) DEF HostTypeOK
<1>2. \A i \in DOMAIN counters'[h] : counters'[h][i] \in Metric
  BY <1>1, SMTT(30)
<1>3. \A i \in DOMAIN counters'[h] : counters'[h][i].handle \in CounterHandle
  BY <1>2, ZenonT(30) DEF Metric
<1>4. \A c \in CounterHandle : samples'[c.query][c.path] \in 0..2
  BY Zenon DEF QueryTypeOK, CounterHandle
<1>5. \A i \in DOMAIN counters'[h] :
        samples'[counters'[h][i].handle.query][counters'[h][i].handle.path] \in 0..2
  BY <1>3, <1>4, Zenon
<1> QED
  BY <1>5, SampleCounts, Zenon DEF Sampled
-----------------------------------------------------------------------------
(* What a step that leaves a part of the state alone leaves of the          *)
(* invariant.                                                               *)

(* A step that calls nothing of a query.                                    *)
LEMMA QueryFrame ==
    ASSUME QueryTypeOK, NoQueryLeaked, UNCHANGED <<queryVars, hosts, faulty>>
    PROVE  QueryTypeOK' /\ NoQueryLeaked'
BY SMTT(30) DEF QueryTypeOK, NoQueryLeaked, QueryOwnership, queryVars

(* A step that leaves the goroutines of the hosts alone.                    *)
LEMMA HostFrame ==
    ASSUME HostTypeOK, UNCHANGED hostVars PROVE HostTypeOK'
BY DEF HostTypeOK, hostVars

(* A step that gives no host a tag.                                         *)
LEMMA TagFrame ==
    ASSUME TagTypeOK, UNCHANGED tagVars PROVE TagTypeOK'
BY ZenonT(30) DEF TagTypeOK, tagVars
-----------------------------------------------------------------------------
(* Gather's own steps preserve the invariant: the refresh decision,         *)
(* cleanQueries, both collections and the goroutines of the hosts.          *)

(* The steps of Gather that call nothing: they move pc and todo on.         *)
LEMMA GatherInv == ASSUME Inv, Gather PROVE Inv'
<1> USE DEF Inv, Gather
<1>1. CollectorTypeOK'
  <2>1. QueryTypeOK'
    BY QueryFrame, ZenonT(60) DEF CollectorTypeOK, InvQueries
  <2>2. HostTypeOK'
    BY ErrorsAreErrors, SMTT(30) DEF CollectorTypeOK, HostTypeOK
  <2> QED
    BY <2>1, <2>2, TagFrame, ErrorsAreErrors, ZenonT(30) DEF CollectorTypeOK
<1>2. InvControl'
  BY DEF InvControl, NeedsRefresh
<1>3. InvQueries'
  BY QueryFrame, ZenonT(60) DEF InvQueries, CollectorTypeOK
<1>4. InvCounters'
  <2>1. \A h \in hosts, k \in 0..2 : Sampled(h, k)' <=> Sampled(h, k)
    BY SampledKept, ZenonT(60)
  <2> QED
    BY <2>1, SMTT(30) DEF InvCounters, Stale, NeedsRefresh
<1>5. InvDelivered'
  BY SMTT(30) DEF InvDelivered, InvControl, DeliveredFresh
<1> QED
  BY <1>1, <1>2, <1>3, <1>4, <1>5, ZenonT(60)

(* The end of ParseConfig: every host is still to be collected once.        *)
LEMMA ParseDoneInv == ASSUME Inv, ParseDone PROVE Inv'
<1> USE DEF Inv, ParseDone
<1>1. CollectorTypeOK'
  BY QueryFrame, HostFrame, TagFrame, ZenonT(30) DEF CollectorTypeOK, InvQueries
<1>2. InvControl'
  BY Zenon DEF InvControl, NeedsRefresh, hostVars
<1>3. InvQueries'
  BY QueryFrame, ZenonT(60) DEF InvQueries, CollectorTypeOK
<1>4. InvCounters'
  <2>1. \A h \in hosts, k \in 0..2 : Sampled(h, k)' <=> Sampled(h, k)
    BY SampledKept, SMTT(30) DEF hostVars
  <2> QED
    BY <2>1, SMTT(30) DEF InvCounters, Stale, hostVars
<1>5. InvDelivered'
  BY ZenonT(30) DEF InvDelivered, DeliveredFresh, hostVars
<1> QED
  BY <1>1, <1>2, <1>3, <1>4, <1>5, SMTT(30)

(* The end of the first collection, and the second of sleep after it.       *)
LEMMA WarmDoneInv == ASSUME Inv, WarmDone PROVE Inv'
<1> USE DEF Inv, WarmDone
<1>1. CollectorTypeOK'
  BY QueryFrame, HostFrame, TagFrame, SMTT(30) DEF CollectorTypeOK, InvQueries
<1>2. InvControl'
  BY DEF InvControl, hostVars
<1>3. InvQueries'
  BY QueryFrame, ZenonT(60) DEF InvQueries, CollectorTypeOK
<1>4. InvCounters'
  <2>1. \A h \in hosts, k \in 0..2 : Sampled(h, k)' <=> Sampled(h, k)
    BY SampledKept, Zenon DEF hostVars
  <2> QED
    BY <2>1 DEF InvCounters, Stale, hostVars
<1>5. InvDelivered'
  BY ZenonT(30) DEF InvDelivered, DeliveredFresh, hostVars
<1> QED
  BY <1>1, <1>2, <1>3, <1>4, <1>5, SMTT(30)

(* The end of the second collection: every counter has two samples.         *)
LEMMA CollectDoneInv == ASSUME Inv, CollectDone PROVE Inv'
<1> USE DEF Inv, CollectDone
<1>1. CollectorTypeOK'
  BY QueryFrame, HostFrame, TagFrame, SMTT(30) DEF CollectorTypeOK, InvQueries
<1>2. InvControl'
  BY ZenonT(30) DEF InvControl, hostVars
<1>3. InvQueries'
  BY QueryFrame, ZenonT(60) DEF InvQueries, CollectorTypeOK
<1>4. InvCounters'
  <2>1. \A h \in hosts, k \in 0..2 : Sampled(h, k)' <=> Sampled(h, k)
    BY SampledKept, Zenon DEF hostVars
  <2> QED
    BY <2>1 DEF InvCounters, Stale, hostVars
<1>5. InvDelivered'
  BY ZenonT(30) DEF InvDelivered, DeliveredFresh, hostVars
<1> QED
  BY <1>1, <1>2, <1>3, <1>4, <1>5, SMTT(30)

(* Gather starts a goroutine, or waits for the last and returns.            *)
LEMMA SpawnInv == ASSUME Inv, NEW h \in Host, Spawn(h) PROVE Inv'
<1> USE DEF Inv, Spawn
<1>1. CollectorTypeOK'
  <2>1. QueryTypeOK'
    BY QueryFrame, Zenon DEF CollectorTypeOK, InvQueries
  <2>2. HostTypeOK'
    BY ErrorsAreErrors, Zenon DEF CollectorTypeOK, HostTypeOK, StartHost
  <2> QED
    BY <2>1, <2>2, TagFrame, ZenonT(30) DEF CollectorTypeOK
<1>2. InvControl'
  BY DEF InvControl, StartHost
<1>3. InvQueries'
  BY QueryFrame, ZenonT(60) DEF InvQueries, CollectorTypeOK
<1>4. InvCounters'
  <2>1. \A g \in hosts, k \in 0..2 : Sampled(g, k)' <=> Sampled(g, k)
    BY SampledKept DEF StartHost
  <2>2. 0 \in 0..2 /\ 1 \in 0..2 /\ 2 \in 0..2
    OBVIOUS
  <2>3. pc = "spawn" /\ pc' = "spawn" /\ UNCHANGED <<hosts, counters>>
    BY Zenon DEF StartHost
  <2>4. ~Stale /\ ~Stale' /\ pc' \notin {"warm", "idle", "collect"}
    BY <2>3, Zenon DEF Stale
  <2> QED
    BY <2>1, <2>2, <2>3, <2>4, Zenon DEF InvCounters
<1>5. InvDelivered'
  <2>1. DeliveredFresh'
    BY DEF InvDelivered, InvControl, DeliveredFresh, StartHost, CollectorTypeOK, HostTypeOK
  <2> QED
    BY <2>1, ZenonT(60) DEF InvDelivered
<1> QED
  BY <1>1, <1>2, <1>3, <1>4, <1>5, ZenonT(30)

(* wg.Wait returns, and Gather with it: no goroutine is left.               *)
LEMMA WaitInv == ASSUME Inv, Wait PROVE Inv'
<1> USE DEF Inv, Wait, GatherReturn
<1>1. CollectorTypeOK'
  BY QueryFrame, HostFrame, TagFrame, ErrorsAreErrors, ZenonT(60) DEF CollectorTypeOK, InvQueries
<1>2. InvControl'
  BY DEF InvControl, hostVars
<1>3. InvQueries'
  BY QueryFrame, ZenonT(60) DEF InvQueries, CollectorTypeOK
<1>4. InvCounters'
  <2>1. \A h \in hosts, k \in 0..2 : Sampled(h, k)' <=> Sampled(h, k)
    BY SampledKept, Zenon DEF hostVars
  <2>2. \A h \in hosts : Sampled(h, 2) => Sampled(h, 1)
    BY SampledLess, SMTT(60) DEF CollectorTypeOK
  <2> QED
    BY <2>1, <2>2, SMTT(30) DEF InvCounters, Stale, hostVars
<1>5. InvDelivered'
  BY ZenonT(30) DEF InvDelivered, DeliveredFresh, hostVars
<1> QED
  BY <1>1, <1>2, <1>3, <1>4, <1>5, Zenon

(* A host goroutine touches nothing but its own variables.                  *)
LEMMA HostStepInv == ASSUME Inv, NEW h \in Host, HostStep(h) PROVE Inv'
<1> USE DEF Inv
<1>0. gatherComputerCounters(h) /\ UNCHANGED <<gatherVars, queryVars, faulty>>
  BY ZenonT(60) DEF HostStep
<1>1. h \in wg /\ pc = "spawn" /\ \A g \in Host \ {h} : delivered'[g] = delivered[g]
  BY <1>0, HostStepOwn, ZenonT(30) DEF CollectorTypeOK, InvControl
<1>2. HostTypeOK' /\ UNCHANGED counters /\ wg' \subseteq wg
  BY <1>0, HostStepType, ZenonT(30) DEF CollectorTypeOK
<1>3. UNCHANGED <<gatherVars, queryVars, faulty>>
  BY <1>0, ZenonT(30)
<1>4. CollectorTypeOK'
  BY <1>2, <1>3, QueryFrame, TagFrame, ZenonT(60) DEF CollectorTypeOK, InvQueries, gatherVars
<1>5. InvControl'
  BY <1>1, <1>2, <1>3, ZenonT(30) DEF InvControl, gatherVars
<1>6. InvQueries'
  BY <1>3, QueryFrame, ZenonT(60) DEF InvQueries, CollectorTypeOK, queryVars, gatherVars
<1>7. InvCounters'
  <2>0. UNCHANGED <<counters, queryVars>>
    BY <1>2, <1>3, Zenon
  <2>1. \A g \in hosts, k \in 0..2 : Sampled(g, k)' <=> Sampled(g, k)
    BY <2>0, SampledKept, Zenon
  <2> QED
    BY <1>1, <1>2, <1>3, <2>1, SMTT(30) DEF InvCounters, Stale, gatherVars
<1>8. InvDelivered'
  BY <1>1, <1>2, <1>3, Zenon DEF InvDelivered, InvControl, DeliveredFresh, gatherVars
<1> QED
  BY <1>4, <1>5, <1>6, <1>7, <1>8, SMTT(30)

(* Time passes: a refresh becomes due, which only weakens what is claimed.  *)
LEMMA ExpireInv == ASSUME Inv, Expire PROVE Inv'
<1> USE DEF Inv, Expire
<1>1. CollectorTypeOK'
  BY QueryFrame, HostFrame, TagFrame, ZenonT(60) DEF CollectorTypeOK, InvQueries
<1>2. InvControl'
  BY DEF InvControl, NeedsRefresh, hostVars
<1>3. InvQueries'
  BY QueryFrame, ZenonT(60) DEF InvQueries, CollectorTypeOK, queryVars
<1>4. InvCounters'
  <2>1. \A h \in hosts, k \in 0..2 : Sampled(h, k)' <=> Sampled(h, k)
    BY SampledKept, ZenonT(60) DEF hostVars
  <2> QED
    BY <2>1, SMTT(30) DEF InvCounters, Stale, NeedsRefresh, hostVars
<1>5. InvDelivered'
  BY DEF InvDelivered, DeliveredFresh, hostVars
<1> QED
  BY <1>1, <1>2, <1>3, <1>4, <1>5, Zenon

(* pdh.dll recovers, or nothing happens.                                    *)
LEMMA IdleInv ==
    ASSUME Inv, UNCHANGED <<gatherVars, hostVars, queryVars>>, faulty' \in BOOLEAN
    PROVE  Inv'
<1> USE DEF Inv
<1>1. CollectorTypeOK'
  BY HostFrame, TagFrame, Zenon DEF CollectorTypeOK, QueryTypeOK, gatherVars, queryVars
<1>2. InvControl'
  BY DEF InvControl, NeedsRefresh, hostVars, gatherVars
<1>3. InvQueries'
  BY ZenonT(60) DEF InvQueries, NoQueryLeaked, QueryOwnership, gatherVars, queryVars
<1>4. InvCounters'
  <2>1. \A h \in hosts, k \in 0..2 : Sampled(h, k)' <=> Sampled(h, k)
    BY SampledKept, ZenonT(60) DEF hostVars
  <2> QED
    BY <2>1 DEF InvCounters, Stale, NeedsRefresh, hostVars, gatherVars
<1>5. InvDelivered'
  BY DEF InvDelivered, DeliveredFresh, hostVars, gatherVars
<1> QED
  BY <1>1, <1>2, <1>3, <1>4, <1>5, Zenon

(* The warm-up sample of one host.                                          *)
LEMMA WarmCollectInv == ASSUME Inv, NEW h \in Host, WarmCollect(h) PROVE Inv'
<1> USE DEF Inv
<1>1. PICK e \in Error :
        /\ CollectData(h, e)
        /\ IF e = Nil THEN todo' = todo \ {h} /\ UNCHANGED <<pc, gatherErr>>
                      ELSE GatherReturn(checkError(e)) /\ UNCHANGED todo
  BY DEF WarmCollect
<1>2. /\ pc = "warm" /\ h \in todo
      /\ UNCHANGED <<tagVars, hosts, item, pending, lastRefreshed, stamped, hostVars, faulty>>
  BY Zenon DEF WarmCollect
<1>3. CollectDataWithTime(h, e)
  BY <1>1, Zenon DEF CollectDataWithTime
<1>4. QueryTypeOK' /\ QueryOwnership'
  BY <1>2, <1>3, CollectPreserves, ZenonT(60) DEF CollectorTypeOK, InvQueries, NoQueryLeaked
<1>5. CollectorTypeOK'
  BY <1>1, <1>2, <1>4, HostFrame, TagFrame, ErrorsAreErrors, ZenonT(30) DEF CollectorTypeOK, GatherReturn
<1>6. /\ \A g \in Host, k \in 0..2 : Sampled(g, k) => Sampled(g, k)'
      /\ e = Nil /\ Sampled(h, 0) => Sampled(h, 1)'
      /\ e = Nil /\ Sampled(h, 1) => Sampled(h, 2)'
      /\ UNCHANGED <<queryHandle, pdhQueries>>
  BY <1>2, <1>3, CollectSamples, Zenon DEF hostVars
<1>7. InvControl'
  BY <1>1, <1>2, ZenonT(60) DEF InvControl, NeedsRefresh, hostVars, GatherReturn
<1>8. InvQueries'
  BY <1>1, <1>2, <1>4, <1>6, ZenonT(30) DEF InvQueries, NoQueryLeaked, GatherReturn
<1>9. InvCounters'
  <2>s. /\ ~Stale /\ hosts \subseteq Host
        /\ \A g \in Host : Sampled(g, 0) => Sampled(g, 0)'
    <3>1. ~Stale /\ hosts \subseteq Host
      BY <1>2, Zenon DEF Stale, CollectorTypeOK
    <3>2. 0 \in 0..2
      BY ONLY SMT
    <3> QED
      BY <1>6, <3>1, <3>2, Zenon
  <2>1. \A g \in hosts : Sampled(g, 0) /\ Sampled(g, 0)'
    BY <2>s, Zenon DEF InvCounters
  <2>h. h \in hosts
    BY <1>2, Zenon DEF InvControl
  <2>2. e = Nil => Sampled(h, 1)'
    BY <1>6, <2>1, <2>h, Zenon
  <2>a. \A g \in hosts \ todo : g \in Host /\ Sampled(g, 1)
    BY <1>2, Zenon DEF InvCounters, CollectorTypeOK
  <2>3. \A g \in hosts \ todo : Sampled(g, 1)'
    <3>1. 1 \in 0..2
      OBVIOUS
    <3> QED
      BY <1>6, <2>a, <3>1, Zenon
  <2>4. CASE e = Nil
    BY <1>1, <1>2, <2>1, <2>2, <2>3, <2>4, Zenon DEF InvCounters, Stale, hostVars
  <2>5. CASE e # Nil
    <3>1. pc' = "idle" /\ UNCHANGED <<hosts, counters, lastRefreshed>>
      BY <1>1, <1>2, <2>5, Zenon DEF GatherReturn, hostVars
    <3>2. Stale'
      BY <1>2, <3>1, ZenonT(60) DEF InvControl, Stale, NeedsRefresh
    <3> QED
      BY <3>1, <3>2, Zenon DEF InvCounters
  <2> QED
    BY <2>4, <2>5, Zenon
<1>10. InvDelivered'
  BY <1>1, <1>2, ZenonT(60) DEF InvDelivered, InvControl, DeliveredFresh, hostVars, GatherReturn
<1> QED
  BY <1>5, <1>7, <1>8, <1>9, <1>10, Zenon

(* The sample and the timestamp of one host.                                *)
LEMMA CollectHostInv == ASSUME Inv, NEW h \in Host, CollectHost(h) PROVE Inv'
<1> USE DEF Inv
<1>1. PICK e \in Error :
        /\ CollectDataWithTime(h, e)
        /\ IF e = Nil
           THEN /\ todo' = todo \ {h}
                /\ stamped' = stamped \cup {h}
                /\ UNCHANGED <<pc, gatherErr>>
           ELSE GatherReturn(e) /\ UNCHANGED <<todo, stamped>>
  BY Zenon DEF CollectHost, CollectDataWithTime
<1>2. /\ pc = "collect" /\ h \in todo
      /\ UNCHANGED <<tagVars, hosts, item, pending, lastRefreshed, hostVars, faulty>>
  BY Zenon DEF CollectHost
<1>4. QueryTypeOK' /\ QueryOwnership'
  BY <1>1, <1>2, CollectPreserves, ZenonT(60) DEF CollectorTypeOK, InvQueries, NoQueryLeaked
<1>5. CollectorTypeOK'
  BY <1>1, <1>2, <1>4, HostFrame, TagFrame, ZenonT(30) DEF CollectorTypeOK, GatherReturn
<1>6. /\ \A g \in Host, k \in 0..2 : Sampled(g, k) => Sampled(g, k)'
      /\ e = Nil /\ Sampled(h, 0) => Sampled(h, 1)'
      /\ e = Nil /\ Sampled(h, 1) => Sampled(h, 2)'
      /\ UNCHANGED <<queryHandle, pdhQueries>>
  BY <1>1, <1>2, CollectSamples, Zenon DEF hostVars
<1>7. InvControl'
  BY <1>1, <1>2, ZenonT(60) DEF InvControl, NeedsRefresh, hostVars, GatherReturn
<1>8. InvQueries'
  BY <1>1, <1>2, <1>4, <1>6, SMTT(30) DEF InvQueries, NoQueryLeaked, GatherReturn
<1>9. InvCounters'
  <2>s. /\ ~Stale /\ hosts \subseteq Host
        /\ \A g \in Host : (Sampled(g, 0) => Sampled(g, 0)') /\ (Sampled(g, 1) => Sampled(g, 1)')
    <3>1. ~Stale /\ hosts \subseteq Host
      BY <1>2, Zenon DEF Stale, CollectorTypeOK
    <3>2. 0 \in 0..2 /\ 1 \in 0..2
      BY ONLY SMT
    <3> QED
      BY <1>6, <3>1, <3>2, Zenon
  <2>1. \A g \in hosts : Sampled(g, 1) /\ Sampled(g, 1)' /\ Sampled(g, 0)'
    BY <1>2, <2>s, Zenon DEF InvCounters
  <2>2. e = Nil => Sampled(h, 2)'
    BY <1>2, <1>6, <2>1, Zenon DEF InvControl
  <2>a. \A g \in hosts \ todo : g \in Host /\ Sampled(g, 2)
    BY <1>2, Zenon DEF InvCounters, CollectorTypeOK
  <2>3. \A g \in hosts \ todo : Sampled(g, 2)'
    <3>1. 2 \in 0..2
      BY SMTT(30)
    <3> QED
      BY <1>6, <2>a, <3>1, Zenon
  <2>4. CASE e = Nil
    BY <1>1, <1>2, <2>1, <2>2, <2>3, <2>4, Zenon DEF InvCounters, Stale, hostVars
  <2>5. CASE e # Nil
    BY <1>1, <1>2, <2>1, <2>5, Zenon DEF InvCounters, Stale, hostVars, GatherReturn
  <2> QED
    BY <2>4, <2>5, Zenon
<1>10. InvDelivered'
  BY <1>1, <1>2, ZenonT(30)
     DEF InvDelivered, InvControl, DeliveredFresh, hostVars, GatherReturn
<1> QED
  BY <1>5, <1>7, <1>8, <1>9, <1>10, Zenon

(* Close of one host: a failed one ends Gather with a refresh still due.    *)
LEMMA CleanInv == ASSUME Inv, NEW h \in Host, cleanQueries(h) PROVE Inv'
<1> USE DEF Inv
<1>1. PICK e \in Error :
        /\ Close(h, e)
        /\ IF e = Nil THEN todo' = todo \ {h} /\ UNCHANGED <<pc, gatherErr>>
                      ELSE GatherReturn(e) /\ UNCHANGED todo
  BY Zenon DEF cleanQueries
<1>2. /\ pc = "clean" /\ h \in todo
      /\ UNCHANGED <<tagVars, hosts, item, pending, lastRefreshed, stamped, hostVars, faulty>>
  BY Zenon DEF cleanQueries
<1>3. QueryTypeOK' /\ QueryOwnership'
  BY <1>1, <1>2, ClosePreserves, Zenon DEF CollectorTypeOK, InvQueries, NoQueryLeaked
<1>4. CollectorTypeOK'
  BY <1>1, <1>2, <1>3, HostFrame, TagFrame, ZenonT(30) DEF CollectorTypeOK, GatherReturn
<1>5. InvControl'
  BY <1>1, <1>2, ZenonT(60) DEF InvControl, NeedsRefresh, hostVars, GatherReturn
<1>6. /\ \A g \in Host \ {h} : queryHandle'[g] = queryHandle[g]
      /\ queryHandle'[h] \in {queryHandle[h], NoHandle}
      /\ e = Nil => queryHandle'[h] = NoHandle
  <2>1. Nil \notin Failures("PdhCloseQuery") /\ errUninitializedQuery # Nil
    BY PdhAssumption, ZenonT(30) DEF Failures, FallibleCall, Nil, GoError,
       errUninitializedQuery, errBufferLimitReached, errCannotParse
  <2> QED
    BY <1>1, <2>1, ZenonT(30) DEF Close, queryVars, CollectorTypeOK, QueryTypeOK
<1>7. InvQueries'
  BY <1>1, <1>2, <1>3, <1>6, Zenon
     DEF InvQueries, NoQueryLeaked, GatherReturn, CollectorTypeOK
<1>8. InvCounters'
  BY <1>1, <1>2, ZenonT(30)
     DEF InvCounters, InvControl, Stale, NeedsRefresh, hostVars, GatherReturn
<1>9. InvDelivered'
  BY <1>1, <1>2, Zenon DEF InvDelivered, InvControl, DeliveredFresh, hostVars, GatherReturn
<1> QED
  BY <1>4, <1>5, <1>7, <1>8, <1>9, Zenon

(* Dropping the map: all queries of it are closed by now.                   *)
LEMMA CleanDoneInv == ASSUME Inv, CleanDone PROVE Inv'
<1> USE DEF Inv, CleanDone, GatherReturn
<1>1. \A h \in Host : queryHandle[h] = NoHandle
  BY Zenon DEF InvQueries, NoQueryLeaked
<1>2. QueryTypeOK' /\ QueryOwnership'
  BY Zenon DEF CollectorTypeOK, InvQueries, NoQueryLeaked, QueryTypeOK, QueryOwnership, queryVars
<1>3. CollectorTypeOK'
  <2>1. HostTypeOK'
    BY SMTT(60) DEF CollectorTypeOK, HostTypeOK
  <2> QED
    BY <1>2, <2>1, TagFrame, ErrorsAreErrors, ZenonT(60) DEF CollectorTypeOK
<1>4. InvControl'
  BY SMTT(60) DEF InvControl, NeedsRefresh
<1>5. InvQueries'
  BY <1>1, <1>2, SMTT(30) DEF InvQueries, NoQueryLeaked, queryVars
<1>6. InvCounters'
  BY Zenon DEF InvCounters
<1>7. InvDelivered'
  BY Zenon DEF InvDelivered, InvControl, DeliveredFresh
<1> QED
  BY <1>3, <1>4, <1>5, <1>6, <1>7, ZenonT(30)
-----------------------------------------------------------------------------
(* ParseConfig preserves the invariant: queries opened for new hosts, and   *)
(* counters added to them with and without wildcard expansion.              *)

(* The part of the invariant that does not look at queries or counters,     *)
(* after a step of addItem that ends the item with the error e.             *)
LEMMA ItemDoneControl ==
    ASSUME Inv, pc \in {"parse", "expand", "expanding", "adding"}, NEW e \in Error, ItemDone(e),
           hosts \subseteq hosts',
           UNCHANGED <<todo, lastRefreshed, stamped, wg, delivered>>
    PROVE  /\ InvControl' /\ InvDelivered'
           /\ pc' = "parse" \/ (pc' = "idle" /\ Stale')
<1> USE DEF Inv
<1>1. NeedsRefresh /\ NeedsRefresh' /\ wg = {}
  BY ZenonT(60) DEF InvControl, NeedsRefresh
<1>2. pc' \in {"idle", "parse"} /\ item' # 0 /\ (pc' # "idle" => gatherErr' = gatherErr)
  BY DEF ItemDone, GatherReturn, InvControl, CollectorTypeOK
<1>3. InvControl'
  BY <1>1, <1>2, ZenonT(60) DEF InvControl
<1>4. InvDelivered'
  BY <1>1, <1>2, ZenonT(30) DEF InvDelivered, DeliveredFresh, CollectorTypeOK
<1> QED
  BY <1>1, <1>2, <1>3, <1>4, Zenon DEF Stale

(* A host seen for the first time gets a query of its own and no counter.   *)
LEMMA OpenHostInv == ASSUME Inv, OpenHost PROVE Inv'
<1> USE DEF Inv
<1>0. PICK h \in Host : h = Config[item].computer
  BY ItemInConfig, Zenon DEF OpenHost, CollectorTypeOK, InvControl
<1>1. PICK e \in Error :
        /\ newPerformanceQuery(h, e)
        /\ IF e = Nil THEN UNCHANGED <<pc, item, pending, gatherErr>> ELSE ItemDone(e)
  BY <1>0, ZenonT(60) DEF OpenHost
<1>2. /\ pc = "parse" /\ item <= Len(Config) /\ h \notin hosts /\ hosts' = hosts \cup {h}
      /\ UNCHANGED <<todo, lastRefreshed, stamped, hostVars, faulty>>
  BY <1>0, ZenonT(30) DEF OpenHost
<1>3. h \in Host
  BY ZenonT(60)
<1>4. queryHandle[h] = NoHandle /\ pdhQueries = pdhQueries \ {queryHandle[h]}
  BY <1>2, <1>3, HandleAssumption, SMTT(60)
     DEF InvQueries, NoQueryLeaked, CollectorTypeOK, QueryTypeOK
<1>5. QueryTypeOK' /\ QueryOwnership'
  BY <1>1, <1>2, <1>3, <1>4, OpenPreserves, ZenonT(30)
     DEF newPerformanceQuery, CollectorTypeOK, InvQueries, NoQueryLeaked
<1>t. TagTypeOK'
  <2>1. /\ cachedHostname' \in {"", "localhost"} \cup osHostnames
        /\ \/ tag' = [tag EXCEPT ![h] = cachedHostname']
           \/ tag' = [tag EXCEPT ![h] = h]
    BY <1>0, ZenonT(60) DEF OpenHost, hostname, CollectorTypeOK, TagTypeOK
  <2> QED
    BY <1>3, <2>1, ZenonT(60) DEF CollectorTypeOK, TagTypeOK
<1>6. CollectorTypeOK'
  <2>1. CASE e = Nil
    BY <1>1, <1>2, <1>3, <1>5, <1>t, <2>1, HostFrame, Zenon DEF CollectorTypeOK
  <2>2. CASE e # Nil
    <3>1. /\ pending' \in Seq(ExpandedPath) /\ item' \in Nat /\ gatherErr' \in Error
          /\ pc' \in {"idle", "parse"}
      BY <1>1, <2>2, ItemDoneType, SMTT(30)
    <3> QED
      BY <1>2, <1>3, <1>5, <1>t, <3>1, HostFrame, Zenon DEF CollectorTypeOK
  <2> QED
    BY <2>1, <2>2, Zenon
<1>7. InvControl' /\ InvDelivered' /\ (pc' = "parse" \/ (pc' = "idle" /\ Stale'))
  <2>1. CASE e = Nil
    BY <1>1, <1>2, <2>1, Zenon DEF InvControl, InvDelivered, DeliveredFresh, NeedsRefresh, hostVars
  <2>2. CASE e # Nil
    BY <1>1, <1>2, <2>2, ItemDoneControl, Zenon DEF hostVars
  <2> QED
    BY <2>1, <2>2, Zenon
<1>8. /\ \A c \in CounterHandle : IsLive(c) => IsLive(c)'
      /\ \A g \in Host \ {h} : queryHandle'[g] = queryHandle[g]
  BY <1>1, <1>3, <1>4, OpenSamples, Zenon
<1>9. InvQueries'
  BY <1>2, <1>5, <1>7, <1>8, Zenon DEF InvQueries, NoQueryLeaked
<1>10. \A g \in hosts' : Sampled(g, 0)'
  <2>1. ASSUME NEW g \in hosts PROVE Sampled(g, 0)'
    <3>1. g \in Host \ {h} /\ Sampled(g, 0)
      <4>1. pc = "parse" /\ h \notin hosts /\ hosts \in SUBSET Host
        BY <1>2, Zenon DEF CollectorTypeOK
      <4>2. ~Stale
        BY <4>1, Zenon DEF Stale
      <4> QED
        BY <4>1, <4>2, Zenon DEF InvCounters
    <3>2. \A i \in DOMAIN counters[g] : counters[g][i].handle \in CounterHandle
      BY <3>1, HandleType, ZenonT(60)
    <3>3. (\A i \in DOMAIN counters[g] :
             counters[g][i].handle.query = queryHandle[g] /\ IsLive(counters[g][i].handle))'
      <4>1. counters' = counters /\ queryHandle'[g] = queryHandle[g]
        BY <1>2, <1>8, <3>1, Zenon DEF hostVars
      <4>2. \A i \in DOMAIN counters[g] :
              counters[g][i].handle.query = queryHandle[g] /\ IsLive(counters[g][i].handle)
        BY <3>1, SampledZero, Zenon
      <4> QED
        BY <1>8, <3>2, <4>1, <4>2, Zenon DEF IsLive
    <3> QED
      BY <1>6, <3>1, <3>3, LiveIsSampled, ZenonT(60) DEF CollectorTypeOK
  <2>2. Sampled(h, 0)'
    <3>1. counters'[h] = <<>>
      BY <1>2, Zenon DEF InvCounters, hostVars
    <3>2. DOMAIN counters'[h] = {}
      BY <3>1, SMTT(30)
    <3> QED
      BY <3>2, Zenon DEF Sampled
  <2> QED
    BY <1>2, <2>1, <2>2, Zenon
<1>11. InvCounters'
  BY <1>2, <1>7, <1>10, ZenonT(60) DEF InvCounters, hostVars
<1> QED
  BY <1>6, <1>7, <1>9, <1>11, Zenon

(* One call of AddCounterToQuery in addItem, with the append that may       *)
(* follow it.                                                               *)
LEMMA AddInv ==
    ASSUME Inv, ~Stale, item <= Len(Config), Config[item].computer \in hosts,
           NEW path \in Path, NEW e \in Error,
           AddCounterToQuery(Config[item].computer, path, e),
           \/ UNCHANGED counters
           \/ e = Nil /\ \E c \in Counter, n \in Name : AppendCounter(path, c, n),
           UNCHANGED <<hosts, wg, pos, readErr, collectedFields, result, delivered,
                       answered, failed, faulty>>
    PROVE  /\ QueryTypeOK' /\ HostTypeOK' /\ NoQueryLeaked'
           /\ \A g \in hosts' : Sampled(g, 0)'
           /\ \A g \in Host \ hosts' : counters'[g] = <<>>
<1> USE DEF Inv
<1>1. PICK h \in Host : h = Config[item].computer /\ AddCounterToQuery(h, path, e)
  BY ItemInConfig, Zenon DEF CollectorTypeOK, InvControl
<1>2. QueryTypeOK' /\ QueryOwnership'
  BY <1>1, AddPreserves, Zenon DEF CollectorTypeOK, InvQueries, NoQueryLeaked
<1>3. /\ \A c \in CounterHandle : IsLive(c) => IsLive(c)'
      /\ UNCHANGED <<queryHandle, pdhQueries>>
      /\ e = Nil => queryHandle[h] \in Handle /\ path \in pdhCounters'[queryHandle[h]]
  BY <1>1, AddSamples, Zenon
<1>4. NoQueryLeaked'
  BY <1>2, <1>3, Zenon DEF InvQueries, NoQueryLeaked
<1>5. ASSUME NEW g \in hosts
      PROVE  \A i \in DOMAIN counters[g] :
               /\ counters[g][i].handle \in CounterHandle
               /\ counters[g][i].handle.query = queryHandle'[g]
               /\ counters[g][i].handle.query \in pdhQueries'
               /\ counters[g][i].handle.path \in pdhCounters'[counters[g][i].handle.query]
  <2>1. g \in Host /\ Sampled(g, 0)
    BY Zenon DEF InvCounters, CollectorTypeOK
  <2>2. \A i \in DOMAIN counters[g] : counters[g][i].handle \in CounterHandle
    BY <2>1, HandleType, Zenon
  <2> QED
    BY <1>3, <2>1, <2>2, ZenonT(30) DEF Sampled, IsLive
<1>6. CASE UNCHANGED counters
  <2>1. HostTypeOK'
    BY <1>6, Zenon DEF CollectorTypeOK, HostTypeOK
  <2>2. \A g \in hosts : Sampled(g, 0)'
    <3> SUFFICES ASSUME NEW g \in hosts PROVE Sampled(g, 0)'
      OBVIOUS
    <3>1. (\A i \in DOMAIN counters[g] : /\ counters[g][i].handle.query = queryHandle[g]
                                        /\ IsLive(counters[g][i].handle))'
      BY <1>5, <1>6, ZenonT(30) DEF IsLive
    <3>2. g \in Host
      BY ZenonT(30) DEF CollectorTypeOK
    <3> QED
      BY <1>2, <2>1, <3>1, <3>2, LiveIsSampled, Zenon
  <2> QED
    BY <1>2, <1>4, <1>6, <2>1, <2>2, Zenon DEF InvCounters
<1>7. ASSUME e = Nil, NEW c \in Counter, NEW n \in Name, AppendCounter(path, c, n)
      PROVE  /\ QueryTypeOK' /\ HostTypeOK' /\ NoQueryLeaked'
             /\ \A g \in hosts' : Sampled(g, 0)'
             /\ \A g \in Host \ hosts' : counters'[g] = <<>>
  <2>1. queryHandle[h] \in Handle /\ queryHandle[h] \in pdhQueries
    BY <1>3, <1>7, HandleAssumption, ZenonT(60) DEF InvQueries, NoQueryLeaked, QueryOwnership
  <2>2. newCounter(path, c, n) \in Metric /\ counters' \in [Host -> Seq(Metric)]
    <3>1. item \in DOMAIN Config
      BY ItemInConfig DEF CollectorTypeOK, InvControl
    <3>2. queryHandle[Config[item].computer] # NoHandle
      BY <1>1, <2>1, HandleAssumption, Zenon
    <3> QED
      BY <1>7, <3>1, <3>2, AppendType, ZenonT(60)
  <2>3. HostTypeOK'
    BY <2>2, Zenon DEF CollectorTypeOK, HostTypeOK
  <2>4. PICK m : m = newCounter(path, c, n)
    BY Zenon
  <2>5. m.handle.query = queryHandle[h] /\ m.handle.path = path
    BY <1>1, <2>4, Zenon DEF newCounter
  <2>6. counters' = [counters EXCEPT ![h] = Append(@, m)]
    BY <1>1, <1>7, <2>4, Zenon DEF AppendCounter
  <2>7. /\ \A g \in Host \ {h} : counters'[g] = counters[g]
        /\ counters'[h] = Append(counters[h], m) /\ counters[h] \in Seq(Metric)
    BY <2>6, ZenonT(60) DEF CollectorTypeOK, HostTypeOK
  <2>8. ASSUME NEW g \in hosts PROVE Sampled(g, 0)'
    <3>1. CASE g # h
      <4>1. g \in Host /\ counters'[g] = counters[g]
        BY <2>7, <3>1, Zenon DEF CollectorTypeOK
      <4>2. (\A i \in DOMAIN counters[g] : /\ counters[g][i].handle.query = queryHandle[g]
                                          /\ IsLive(counters[g][i].handle))'
        BY <1>5, <4>1, ZenonT(30) DEF IsLive
      <4> QED
        BY <1>2, <2>3, <4>1, <4>2, LiveIsSampled, Zenon
    <3>2. CASE g = h
      <4>1. ASSUME NEW i \in DOMAIN counters'[h]
            PROVE  \/ i \in DOMAIN counters[h] /\ counters'[h][i] = counters[h][i]
                   \/ counters'[h][i] = m
        BY <2>2, <2>4, <2>7, SMTT(30)
      <4>2. \A i \in DOMAIN counters'[h] :
              /\ counters'[h][i].handle.query = queryHandle'[h]
              /\ counters'[h][i].handle.query \in pdhQueries'
              /\ counters'[h][i].handle.path \in pdhCounters'[counters'[h][i].handle.query]
        BY <1>3, <1>5, <1>7, <2>1, <2>5, <3>2, <4>1, ZenonT(30)
      <4> QED
        BY <1>2, <2>3, <3>2, <4>2, LiveIsSampled, ZenonT(30) DEF IsLive
    <3> QED
      BY <3>1, <3>2, SMTT(30)
  <2>9. \A g \in Host \ hosts : counters'[g] = <<>>
    BY <1>1, <2>7, ZenonT(30) DEF InvCounters
  <2> QED
    BY <1>2, <1>4, <2>3, <2>8, <2>9, ZenonT(30)
<1> QED
  BY <1>6, <1>7, ZenonT(30)

(* The counter path of an item, added as it stands.                         *)
LEMMA AddItemInv == ASSUME Inv, AddItem PROVE Inv'
<1> USE DEF Inv
<1> DEFINE i == Config[item]
<1>1. PICK e \in Error :
        /\ AddCounterToQuery(i.computer, ItemPath(i), e)
        /\ \/ e # Nil /\ ItemDone(e) /\ UNCHANGED counters
           \/ /\ e = Nil /\ UseWildcardsExpansion
              /\ pc' = "expand"
              /\ UNCHANGED <<item, pending, gatherErr, counters>>
           \/ /\ e = Nil /\ ~UseWildcardsExpansion
              /\ AppendCounter(ItemPath(i), i.counter, i.instance)
              /\ ItemDone(Nil)
  BY Zenon DEF AddItem
<1>2. /\ pc = "parse" /\ item <= Len(Config) /\ i.computer \in hosts
      /\ UNCHANGED <<tagVars, hosts, todo, lastRefreshed, stamped, wg, pos, readErr,
                     collectedFields, result, delivered, answered, failed, faulty>>
  BY Zenon DEF AddItem
<1>3. ItemPath(i) \in Path /\ i.counter \in Counter /\ i.instance \in Name
  <2>1. ItemPath(i) \in Path /\ i \in Item
    BY <1>2, ItemInConfig, Zenon DEF CollectorTypeOK, InvControl
  <2> QED
    BY <2>1, SMTT(30) DEF Item
<1>4. /\ QueryTypeOK' /\ HostTypeOK' /\ NoQueryLeaked'
      /\ \A g \in hosts' : Sampled(g, 0)'
      /\ \A g \in Host \ hosts' : counters'[g] = <<>>
  BY <1>1, <1>2, <1>3, AddInv, Zenon DEF Stale
<1>5. CASE ItemDone(e)
  <2>1. /\ pending' \in Seq(ExpandedPath) /\ item' \in Nat /\ gatherErr' \in Error
        /\ pc' \in {"idle", "parse"}
    BY <1>5, ItemDoneType, Zenon
  <2>2. CollectorTypeOK'
    BY <1>2, <1>4, <2>1, TagFrame, Zenon DEF CollectorTypeOK
  <2>3. InvControl' /\ InvDelivered' /\ (pc' = "parse" \/ (pc' = "idle" /\ Stale'))
    BY <1>2, <1>5, ItemDoneControl, Zenon
  <2> QED
    BY <1>4, <2>2, <2>3, Zenon DEF InvQueries, InvCounters
<1>6. CASE UseWildcardsExpansion /\ pc' = "expand" /\ UNCHANGED <<item, pending, gatherErr, counters>>
  <2>1. CollectorTypeOK'
    BY <1>2, <1>4, <1>6, TagFrame, Zenon DEF CollectorTypeOK
  <2>2. InvControl' /\ InvDelivered'
    BY <1>2, <1>6, Zenon DEF InvControl, InvDelivered, DeliveredFresh, NeedsRefresh
  <2> QED
    BY <1>4, <1>6, <2>1, <2>2, Zenon DEF InvQueries, InvCounters
<1> QED
  BY <1>1, <1>5, <1>6, Zenon

(* The steps of addItem that only look at names.                            *)
LEMMA ExpandInv == ASSUME Inv, Expand \/ ExpandDone PROVE Inv'
<1> USE DEF Inv
<1>1. /\ pc \in {"expand", "expanding"}
      /\ UNCHANGED <<tagVars, hosts, todo, lastRefreshed, stamped, hostVars, queryVars, faulty>>
  BY Zenon DEF Expand, ExpandDone
<1>2. QueryTypeOK' /\ HostTypeOK' /\ NoQueryLeaked'
  BY <1>1, QueryFrame, HostFrame, Zenon DEF CollectorTypeOK, InvQueries
<1>3. /\ \A g \in hosts' : Sampled(g, 0)'
      /\ \A g \in Host \ hosts' : counters'[g] = <<>>
  <2>1. \A g \in hosts : Sampled(g, 0)' <=> Sampled(g, 0)
    BY <1>1, SampledKept, Zenon DEF hostVars
  <2> QED
    BY <1>1, <2>1, Zenon DEF InvCounters, Stale, hostVars
<1>4. ASSUME NEW e \in Error, ItemDone(e) PROVE Inv'
  <2>1. /\ pending' \in Seq(ExpandedPath) /\ item' \in Nat /\ gatherErr' \in Error
        /\ pc' \in {"idle", "parse"}
    BY <1>4, ItemDoneType, ZenonT(60)
  <2>2. CollectorTypeOK'
    BY <1>1, <1>2, <2>1, TagFrame, ZenonT(30) DEF CollectorTypeOK
  <2>3. InvControl' /\ InvDelivered' /\ (pc' = "parse" \/ (pc' = "idle" /\ Stale'))
    BY <1>1, <1>4, ItemDoneControl, Zenon DEF hostVars
  <2> QED
    BY <1>2, <1>3, <2>2, <2>3, Zenon DEF InvQueries, InvCounters
<1>5. CASE /\ pending' \in Expansion[ItemPath(Config[item])]
           /\ pc' = "expanding"
           /\ UNCHANGED <<item, gatherErr>>
  <2>1. ItemPath(Config[item]) \in Path
    BY <1>1, ItemInConfig, Zenon DEF InvControl, CollectorTypeOK
  <2>2. pending' \in Seq(ExpandedPath)
    BY <1>5, <2>1, ConfigAssumption, ZenonT(30)
  <2>3. CollectorTypeOK'
    BY <1>1, <1>2, <1>5, <2>2, TagFrame, Zenon DEF CollectorTypeOK
  <2>4. InvControl' /\ InvDelivered'
    BY <1>1, <1>5, Zenon DEF InvControl, InvDelivered, DeliveredFresh, NeedsRefresh, hostVars
  <2> QED
    BY <1>2, <1>3, <1>5, <2>3, <2>4, Zenon DEF InvQueries, InvCounters
<1>6. \A call \in {"PdhGetCounterInfo", "PdhExpandWildCardPath",
                   "extractCounterInfoFromCounterPath"} : Failures(call) \subseteq Error
  BY FailuresAreErrors, Zenon DEF FallibleCall
<1> QED
  BY <1>4, <1>5, <1>6, ErrorsAreErrors, Zenon DEF Expand, ExpandDone

(* One of the paths an item was expanded to.                                *)
LEMMA AddExpandedInv == ASSUME Inv, AddExpanded PROVE Inv'
<1> USE DEF Inv
<1>1. pending \in Seq(ExpandedPath) /\ pending # <<>>
  BY Zenon DEF AddExpanded, CollectorTypeOK
<1>2. /\ pc = "expanding"
      /\ UNCHANGED <<tagVars, hosts, todo, lastRefreshed, stamped, hostVars, faulty>>
  BY Zenon DEF AddExpanded
<1>3. ~Stale /\ item <= Len(Config) /\ Config[item].computer \in hosts
  BY <1>2, SMTT(30) DEF Stale, InvControl
<1>4. Head(pending) \in Path
  <2>1. Head(pending) \in ExpandedPath
    BY <1>1, SMTT(60)
  <2> QED
    BY <2>1, ZenonT(30) DEF ExpandedPath, Path
<1>5. PICK e \in Error :
        /\ AddCounterToQuery(Config[item].computer, Head(pending), e)
        /\ \/ \E f \in Error : ItemDone(f)
           \/ pc' = "adding" /\ UNCHANGED <<item, pending, gatherErr>>
  <2>1. Failures("extractCounterInfoFromCounterPath") \subseteq Error
    BY FailuresAreErrors, Zenon DEF FallibleCall
  <2> QED
    BY <2>1 DEF AddExpanded
<1>6. /\ QueryTypeOK' /\ HostTypeOK' /\ NoQueryLeaked'
      /\ \A g \in hosts' : Sampled(g, 0)'
      /\ \A g \in Host \ hosts' : counters'[g] = <<>>
  BY <1>2, <1>3, <1>4, <1>5, AddInv, Zenon DEF hostVars
<1>7. ASSUME NEW f \in Error, ItemDone(f) PROVE Inv'
  <2>1. /\ pending' \in Seq(ExpandedPath) /\ item' \in Nat /\ gatherErr' \in Error
        /\ pc' \in {"idle", "parse"}
    BY <1>7, ItemDoneType, ZenonT(60)
  <2>2. CollectorTypeOK'
    BY <1>2, <1>6, <2>1, TagFrame, ZenonT(30) DEF CollectorTypeOK
  <2>3. InvControl' /\ InvDelivered' /\ (pc' = "parse" \/ (pc' = "idle" /\ Stale'))
    BY <1>2, <1>7, ItemDoneControl, Zenon DEF hostVars
  <2> QED
    BY <1>6, <2>2, <2>3, Zenon DEF InvQueries, InvCounters
<1>8. CASE pc' = "adding" /\ UNCHANGED <<item, pending, gatherErr>>
  <2>1. CollectorTypeOK'
    BY <1>2, <1>6, <1>8, TagFrame, ZenonT(60) DEF CollectorTypeOK
  <2>2. InvControl' /\ InvDelivered'
    BY <1>1, <1>2, <1>8, SMTT(30)
       DEF InvControl, InvDelivered, DeliveredFresh, NeedsRefresh, hostVars
  <2> QED
    BY <1>6, <1>8, <2>1, <2>2, Zenon DEF InvQueries, InvCounters
<1> QED
  BY <1>5, <1>7, <1>8, Zenon

(* The path that is reported for it, and its counter.                       *)
LEMMA AddReportedInv == ASSUME Inv, AddReported PROVE Inv'
<1> USE DEF Inv
<1> DEFINE i == Config[item]
           p == ReportedPath(i, Head(pending))
           c == ReportedCounter(i, Head(pending))
           n == ParsedInstance(Head(pending)[2])
<1>1. /\ pc = "adding"
      /\ UNCHANGED <<tagVars, hosts, todo, lastRefreshed, stamped, wg, pos, readErr,
                     collectedFields, result, delivered, answered, failed, faulty>>
  BY Zenon DEF AddReported
<1>8. TagTypeOK'
  BY <1>1, TagFrame, Zenon DEF CollectorTypeOK
<1>2. /\ ~Stale /\ item <= Len(Config) /\ i.computer \in hosts
      /\ pending \in Seq(ExpandedPath) /\ pending # <<>>
  BY <1>1, Zenon DEF Stale, InvControl, CollectorTypeOK
<1>3. p \in Path /\ c \in Counter /\ n \in Name
  <2>1. Head(pending) \in ExpandedPath
    BY <1>2, SMTT(30)
  <2>2. Head(pending) \in Path
    BY <2>1 DEF ExpandedPath, Path
  <2> QED
    BY <1>2, <2>2, ItemInConfig, Zenon DEF CollectorTypeOK, InvControl
<1>4. PICK e \in Error :
        /\ AddCounterToQuery(i.computer, p, e)
        /\ \/ ItemDone(e) /\ UNCHANGED counters
           \/ /\ e = Nil
              /\ UNCHANGED counters \/ AppendCounter(p, c, n)
              /\ pending' = Tail(pending)
              /\ pc' = "expanding"
              /\ UNCHANGED <<item, gatherErr>>
  BY Zenon DEF AddReported
<1> HIDE DEF p, c, n
<1>5. /\ QueryTypeOK' /\ HostTypeOK' /\ NoQueryLeaked'
      /\ \A g \in hosts' : Sampled(g, 0)'
      /\ \A g \in Host \ hosts' : counters'[g] = <<>>
  BY <1>1, <1>2, <1>3, <1>4, AddInv, Zenon
<1>6. CASE ItemDone(e)
  <2>1. /\ pending' \in Seq(ExpandedPath) /\ item' \in Nat /\ gatherErr' \in Error
        /\ pc' \in {"idle", "parse"}
    BY <1>6, ItemDoneType, SMTT(30)
  <2>2. CollectorTypeOK'
    BY <1>1, <1>5, <1>8, <2>1, ZenonT(30) DEF CollectorTypeOK
  <2>3. InvControl' /\ InvDelivered' /\ (pc' = "parse" \/ (pc' = "idle" /\ Stale'))
    BY <1>1, <1>6, ItemDoneControl, SMTT(30)
  <2> QED
    BY <1>5, <2>2, <2>3, Zenon DEF InvQueries, InvCounters
<1>7. CASE pending' = Tail(pending) /\ pc' = "expanding" /\ UNCHANGED <<item, gatherErr>>
  <2>1. Tail(pending) \in Seq(ExpandedPath)
    BY <1>2, SMTT(30)
  <2>2. CollectorTypeOK'
    BY <1>1, <1>5, <1>7, <1>8, <2>1, ZenonT(30) DEF CollectorTypeOK
  <2>3. InvControl'
    BY <1>1, <1>2, <1>7, ZenonT(60) DEF InvControl, NeedsRefresh
  <2>4. InvDelivered'
    BY <1>1, <1>7, ZenonT(30) DEF InvDelivered, DeliveredFresh
  <2> QED
    BY <1>5, <1>7, <2>2, <2>3, <2>4, ZenonT(30) DEF InvQueries, InvCounters
<1> QED
  BY <1>4, <1>6, <1>7, Zenon
-----------------------------------------------------------------------------
(* The theorems.                                                            *)

(* A collector that has gathered nothing satisfies the invariant.           *)
LEMMA InvInit == Init => Inv
<1> SUFFICES ASSUME Init PROVE Inv
  OBVIOUS
<1>1. QueryTypeOK /\ QueryOwnership
  BY QueryInvInit, ZenonT(30) DEF Init
<1>2. HostTypeOK
  <2>1. <<>> \in Seq(Metric)
    OBVIOUS
  <2> QED
    BY <2>1, ErrorsAreErrors, ZenonT(30) DEF Init, HostInit, HostTypeOK
<1>3. CollectorTypeOK
  <2>1. <<>> \in Seq(ExpandedPath)
    OBVIOUS
  <2>2. TagTypeOK
    BY ZenonT(30) DEF Init, TagTypeOK
  <2> QED
    BY <1>1, <1>2, <2>1, <2>2, ErrorsAreErrors, ZenonT(30) DEF Init, CollectorTypeOK
<1>4. InvControl
  <2>1. pc = "idle" /\ item = 1 /\ hosts = {} /\ wg = {}
    BY ZenonT(30) DEF Init, HostInit
  <2> QED
    BY <2>1, SMTT(30) DEF InvControl
<1>5. InvQueries
  BY <1>1, ZenonT(30) DEF Init, QueryInit, InvQueries, NoQueryLeaked
<1>6. InvCounters /\ InvDelivered
  BY ZenonT(30) DEF Init, HostInit, InvCounters, InvDelivered, DeliveredFresh, Stale, NeedsRefresh
<1> QED
  BY <1>3, <1>4, <1>5, <1>6, ZenonT(30) DEF Inv

(* Every step preserves it.                                                 *)
LEMMA InvNext == Inv /\ [Next]_vars => Inv'
<1> SUFFICES ASSUME Inv, [Next]_vars PROVE Inv'
  BY Zenon
<1>1. CASE Gather \/ CleanDone \/ OpenHost \/ AddItem
  BY <1>1, GatherInv, CleanDoneInv, OpenHostInv, AddItemInv, ZenonT(30)
<1>2. CASE Expand \/ AddExpanded \/ AddReported \/ ExpandDone \/ ParseDone
  BY <1>2, ExpandInv, AddExpandedInv, AddReportedInv, ParseDoneInv, ZenonT(30)
<1>3. CASE WarmDone \/ CollectDone \/ Wait \/ Expire
  BY <1>3, WarmDoneInv, CollectDoneInv, WaitInv, ExpireInv, ZenonT(30)
<1>4. ASSUME NEW h \in Host, cleanQueries(h) \/ WarmCollect(h) \/ CollectHost(h)
      PROVE  Inv'
  BY <1>4, CleanInv, WarmCollectInv, CollectHostInv, Zenon
<1>5. ASSUME NEW h \in Host, Spawn(h) \/ HostStep(h) PROVE Inv'
  BY <1>5, SpawnInv, HostStepInv, ZenonT(30)
<1>6. CASE Heal /\ UNCHANGED <<gatherVars, hostVars, queryVars>>
  BY <1>6, IdleInv, ZenonT(30) DEF Heal
<1>7. CASE UNCHANGED vars
  BY <1>7, IdleInv, Zenon DEF vars, Inv, CollectorTypeOK, QueryTypeOK
<1> QED
  BY <1>1, <1>2, <1>3, <1>4, <1>5, <1>6, <1>7, ZenonT(30) DEF Next, GatherStep

(* The state of WinPerfCounters keeps its types: in particular every        *)
(* counter of hostCounters has a real query handle.                         *)
THEOREM CollectorTypeCorrect == Spec => []CollectorTypeOK
<1>1. Inv => CollectorTypeOK
  BY DEF Inv
<1> QED
  BY <1>1, InvInit, InvNext, PTL DEF Spec

(* Whichever calls of pdh.dll fail, no PDH query is lost: Gather keeps in   *)
(* hostCounters every query it has open.                                    *)
THEOREM NoLeak == Spec => []NoQueryLeaked
<1>1. Inv => NoQueryLeaked
  BY DEF Inv, InvQueries
<1> QED
  BY <1>1, InvInit, InvNext, PTL DEF Spec

(* What the invariant says of a goroutine's reads.                          *)
LEMMA InvReads == Inv => LiveHandles /\ TwoSamples
<1> SUFFICES ASSUME Inv, NEW h \in wg, NEW i \in DOMAIN counters[h]
             PROVE  LET c == counters[h][i].handle
                    IN  c.query = queryHandle[h] /\ IsLive(c) /\ samples[c.query][c.path] = 2
  BY Zenon DEF LiveHandles, TwoSamples
<1>1. h \in Host /\ pc = "spawn" /\ h \in hosts
  BY ZenonT(60) DEF Inv, InvControl, CollectorTypeOK
<1>2. Sampled(h, 2)
  BY <1>1, SMTT(30) DEF Inv, InvCounters
<1>3. samples[counters[h][i].handle.query][counters[h][i].handle.path] \in 0..2
  BY <1>1, HandleType, Zenon DEF Inv
<1>4. /\ counters[h][i].handle.query = queryHandle[h] /\ IsLive(counters[h][i].handle)
      /\ samples[counters[h][i].handle.query][counters[h][i].handle.path] >= 2
  BY <1>2, Zenon DEF Sampled
<1>5. samples[counters[h][i].handle.query][counters[h][i].handle.path] = 2
  BY <1>3, <1>4, SampleCounts, Zenon
<1> QED
  BY <1>4, <1>5, Zenon

(* A goroutine of Gather reads only counters of the query its host has      *)
(* open, whichever calls of pdh.dll failed since the last refresh.          *)
THEOREM HandlesAreLive == Spec => []LiveHandles
  BY InvReads, InvInit, InvNext, PTL DEF Spec

(* Each of the counters it reads has the two samples its value needs.       *)
THEOREM ReadsAreSound == Spec => []TwoSamples
  BY InvReads, InvInit, InvNext, PTL DEF Spec

(* The callback is given values only of hosts that this Gather sampled and  *)
(* stamped, and none at all by a Gather that returns an error.              *)
THEOREM DeliveriesAreFresh == Spec => []DeliveredFresh
<1>1. Inv => DeliveredFresh
  BY DEF Inv, InvDelivered
<1> QED
  BY <1>1, InvInit, InvNext, PTL DEF Spec
-----------------------------------------------------------------------------
(* The source tag.                                                          *)

(* The source tags that were given out are those hostname still returns.    *)
InvTag ==
    \A h \in Host :
        tag[h] # "" => tag[h] = IF h = Localhost THEN cachedHostname ELSE h

(* Every step keeps the tags, and only OpenHost gives new ones.             *)
LEMMA TagNext ==
    TagTypeOK /\ InvTag /\ [Next]_vars =>
        InvTag' /\ \A h \in Host : tag[h] # "" => tag'[h] = tag[h]
<1> SUFFICES ASSUME TagTypeOK, InvTag, [Next]_vars
             PROVE  InvTag' /\ \A h \in Host : tag[h] # "" => tag'[h] = tag[h]
  BY ZenonT(30)
<1>1. CASE UNCHANGED tagVars
  BY <1>1, ZenonT(30) DEF tagVars, InvTag
<1>2. CASE OpenHost
  <2>1. PICK h : /\ h = Config[item].computer
                 /\ IF h = Localhost
                    THEN cachedHostname' \in hostname /\ tag' = [tag EXCEPT ![h] = cachedHostname']
                    ELSE tag' = [tag EXCEPT ![h] = h] /\ UNCHANGED cachedHostname
    BY <1>2, ZenonT(30) DEF OpenHost
  <2>2. \A g \in Host : tag'[g] = IF g # h THEN tag[g]
                                  ELSE IF h = Localhost THEN cachedHostname' ELSE h
    BY <2>1, ZenonT(30) DEF TagTypeOK
  <2>3. cachedHostname # "" => cachedHostname' = cachedHostname
    BY <2>1, ZenonT(30) DEF hostname
  <2>4. \A g \in Host : tag[g] # "" => tag'[g] = tag[g]
    BY <2>1, <2>2, <2>3, ZenonT(30) DEF InvTag
  <2> QED
    BY <2>1, <2>2, <2>3, <2>4, ZenonT(30) DEF InvTag
<1>3. CASE Gather \/ CleanDone \/ AddItem \/ Expand \/ AddExpanded \/ AddReported \/ ExpandDone
  BY <1>1, <1>3, ZenonT(30) DEF Gather, CleanDone, AddItem, Expand, AddExpanded, AddReported, ExpandDone
<1>4. CASE ParseDone \/ WarmDone \/ CollectDone \/ Wait \/ Expire
  BY <1>1, <1>4, ZenonT(30) DEF ParseDone, WarmDone, CollectDone, Wait, Expire
<1>5. ASSUME NEW h \in Host,
             cleanQueries(h) \/ WarmCollect(h) \/ CollectHost(h) \/ Spawn(h) \/ HostStep(h)
      PROVE  UNCHANGED tagVars
  BY <1>5, Zenon DEF cleanQueries, WarmCollect, CollectHost, Spawn, HostStep, gatherVars
<1>6. CASE (Heal /\ UNCHANGED <<gatherVars, hostVars, queryVars>>) \/ UNCHANGED vars
  BY <1>1, <1>6, ZenonT(30) DEF vars, gatherVars
<1> QED
  BY <1>1, <1>2, <1>3, <1>4, <1>5, <1>6, ZenonT(30) DEF Next, GatherStep

(* The series of a host keep their source: the tag hostname gave it at the  *)
(* first refresh is the tag it has for ever.                                *)
THEOREM TagsAreStable == Spec => SourceTagStable
<1>1. Init => InvTag
  BY ZenonT(30) DEF Init, InvTag
<1>2. Inv => TagTypeOK
  BY DEF Inv, CollectorTypeOK
<1> QED
  BY <1>1, <1>2, InvInit, InvNext, TagNext, PTL DEF Spec, SourceTagStable
=============================================================================
