----------------------------- MODULE HostGather -----------------------------
(***************************************************************************)
(* gatherComputerCounters (win_perf_counters.go), run by one goroutine per *)
(* host: read every counter of the host, group the values into fields and  *)
(* hand the fields to the collect callback.  A step reads one counter.     *)
(***************************************************************************)
EXTENDS Sequences, PerformanceQuery

CONSTANTS
    UseWildcardsExpansion,
    EmptyInstance,  \* emptyInstance, "------"
    TotalNames,     \* the names that contain "_Total"
    PrefixPairs,    \* pairs <<n, i>>: i contains "#" and has the prefix n; a path
                    \* with such an i names one instance
    Answer,         \* [Name -> the sets of instances an array read returns]
    ReportedName,   \* the name an array gives an instance, without its "#1"
    FieldName,      \* names of fields
    fieldName,      \* [Counter \X BOOLEAN -> FieldName]: the sanitised name of
                    \* a counter, with "_Raw" for a raw value
    CounterOf       \* [Counter -> Counter]: the counter a name stands for; an
                    \* English and a local name may stand for the same one

(* The instance of a counter of an object without instances: "" in Go.      *)
NoInstance == "no instance"

ASSUME NameAssumption ==
    /\ UseWildcardsExpansion \in BOOLEAN
    /\ {NoInstance, "*", "_Total", EmptyInstance} \cup TotalNames \subseteq Name
    /\ NoInstance \notin TotalNames \cup {EmptyInstance}
    /\ PrefixPairs \subseteq Name \X Name
    /\ Answer \in [Name -> SUBSET SUBSET Name]
    /\ \A pair \in PrefixPairs : \A insts \in Answer[pair[2]] : insts \subseteq {pair[2]}
    /\ ReportedName \in [Name -> Name]
    /\ fieldName \in [Counter \X BOOLEAN -> FieldName]
    /\ CounterOf \in [Counter -> Counter]

VARIABLES
    counters,           \* hostCountersInfo.counters of each host
    wg,                 \* the goroutines that have not called wg.Done
    pos,                \* the next counter of a goroutine
    readErr,            \* the variable err of gatherComputerCounters
    collectedFields,    \* its variable collectedFields
    result,             \* what it returned
    delivered,          \* what m.collect was given in this Gather
    answered,           \* history: the values read that are to be reported
    failed              \* history: a read failed with an unexpected error

hostVars ==
    <<counters, wg, pos, readErr, collectedFields, result, delivered, answered, failed>>

(* The struct counter.  Measurement, object and counter name are one value. *)
Metric == [handle : CounterHandle, counter : Counter, instance : Name,
           useRawValue : BOOLEAN, includeTotal : BOOLEAN]

(* A value of pdh.dll is known by what it is the value of.  An entry of     *)
(* collectedFields is a value under a field name and an instance name.      *)
Value == [counter : Counter, raw : BOOLEAN, instance : Name]
Entry == [field : FieldName, instance : Name, value : Value]

HostTypeOK ==
    /\ counters \in [Host -> Seq(Metric)]
    /\ wg \in SUBSET Host
    /\ pos \in [Host -> Nat]
    /\ readErr \in [Host -> Error]
    /\ collectedFields \in [Host -> SUBSET Entry]
    /\ result \in [Host -> Error]
    /\ delivered \in [Host -> SUBSET Entry]
    /\ answered \in [Host -> SUBSET Entry]
    /\ failed \in [Host -> BOOLEAN]

HostInit ==
    /\ counters = [h \in Host |-> <<>>]
    /\ wg = {}
    /\ pos = [h \in Host |-> 1]
    /\ readErr = [h \in Host |-> Nil]
    /\ collectedFields = [h \in Host |-> {}]
    /\ result = [h \in Host |-> Nil]
    /\ delivered = [h \in Host |-> {}]
    /\ answered = [h \in Host |-> {}]
    /\ failed = [h \in Host |-> FALSE]
-----------------------------------------------------------------------------
(* Mutant: "*" includes the totals.                                         *)
shouldIncludeMetric_Totals(metric, n) ==
    \/ metric.includeTotal
    \/ metric.instance = "*"
    \/ metric.instance = n
    \/ metric.instance = EmptyInstance

shouldIncludeMetric(metric, n) ==
    \/ metric.includeTotal
    \/ metric.instance = "*" /\ n \notin TotalNames
    \/ metric.instance = n
    \/ metric.instance = EmptyInstance

(* The value of the instance x that the handle of metric reads, with its    *)
(* field name, under the instance name n.                                   *)
NewEntry(metric, n, x) ==
    [field |-> fieldName[<<metric.counter, metric.useRawValue>>], instance |-> n,
     value |-> [counter |-> CounterOf[metric.handle.path[1]],
                raw |-> metric.useRawValue, instance |-> x]]

(* Mutant: every value of the array gets the name of the item.              *)
InstanceName_Always(metric, n) == metric.instance

(* "w3wp#1" is answered with a prefix of it, and gets its own name back.    *)
InstanceName(metric, n) ==
    IF <<n, metric.instance>> \in PrefixPairs THEN metric.instance ELSE n

(* The entries of an array with the instances `insts'.                      *)
ArrayEntries(metric, insts) ==
    {e \in {NewEntry(metric, InstanceName(metric, ReportedName[x]), x) : x \in insts} :
        shouldIncludeMetric(metric, e.instance)}

SamePlace(e, f) == e.field = f.field /\ e.instance = f.instance

(* Of several new entries for one place the last one stays; pdh.dll may     *)
(* answer in any order.                                                     *)
LastWritten(new) ==
    {last \in SUBSET new :
        \A e \in new : \E f \in last : \A g \in last : SamePlace(e, g) <=> g = f}

(* Mutant: a value is stored only when the group of its instance is new.    *)
addCounterMeasurement_Keep(fields, last) ==
    fields \cup {e \in last : \A f \in fields : f.instance # e.instance}

(* addCounterMeasurement for the entries `last'.                            *)
addCounterMeasurement(fields, last) ==
    {e \in fields : \A f \in last : ~SamePlace(e, f)} \cup last

(* `go func(h)' and the declarations at the top of gatherComputerCounters.  *)
StartHost(h) ==
    /\ wg' = wg \cup {h}
    /\ pos' = [pos EXCEPT ![h] = 1]
    /\ readErr' = [readErr EXCEPT ![h] = Nil]
    /\ collectedFields' = [collectedFields EXCEPT ![h] = {}]
    /\ result' = [result EXCEPT ![h] = Nil]
    /\ delivered' = [delivered EXCEPT ![h] = {}]
    /\ answered' = [answered EXCEPT ![h] = {}]
    /\ failed' = [failed EXCEPT ![h] = FALSE]
    /\ UNCHANGED counters

Reading(h) == h \in wg /\ pos[h] \in DOMAIN counters[h]

(* gatherComputerCounters returns e: its locals go, the goroutine is done.  *)
EndHost(h, e) ==
    /\ result' = [result EXCEPT ![h] = e]
    /\ wg' = wg \ {h}
    /\ pos' = [pos EXCEPT ![h] = 1]
    /\ readErr' = [readErr EXCEPT ![h] = Nil]
    /\ collectedFields' = [collectedFields EXCEPT ![h] = {}]

(* The loop goes on to the next counter with err = e and the fields f.      *)
NextCounter(h, e, f) ==
    /\ pos' = [pos EXCEPT ![h] = @ + 1]
    /\ readErr' = [readErr EXCEPT ![h] = e]
    /\ collectedFields' = [collectedFields EXCEPT ![h] = f]
    /\ UNCHANGED <<wg, result>>

(* The entries are added and the loop goes on.                              *)
AddEntries(h, new) ==
    \E last \in LastWritten(new) :
        NextCounter(h, Nil, addCounterMeasurement(collectedFields[h], last))

(* Mutant: every error skips the metric.                                    *)
AfterRead_SkipAll(h, e, new) ==
    /\ \/ e = Nil /\ AddEntries(h, new)
       \/ e # Nil /\ NextCounter(h, e, collectedFields[h])
    /\ UNCHANGED counters

(* Mutant: a known data error ends the goroutine.                           *)
AfterRead_Return(h, e, new) ==
    /\ \/ e = Nil /\ AddEntries(h, new)
       \/ e # Nil /\ isKnownCounterDataError(e) /\ EndHost(h, Nil)
       \/ e # Nil /\ ~isKnownCounterDataError(e) /\ EndHost(h, e)
    /\ UNCHANGED counters

(* Mutant: the goroutine returns on an error without calling wg.Done.       *)
AfterRead_NoDone(h, e, new) ==
    /\ \/ e = Nil /\ AddEntries(h, new)
       \/ e # Nil /\ pos' = [pos EXCEPT ![h] = 0]
          /\ UNCHANGED <<wg, result, readErr, collectedFields>>
    /\ UNCHANGED counters

(* The three ways on from a read that left err = e.                         *)
AfterRead(h, e, new) ==
    /\ \/ e = Nil /\ AddEntries(h, new)
       \/ /\ e # Nil /\ isKnownCounterDataError(e)
          /\ NextCounter(h, e, collectedFields[h])
       \/ e # Nil /\ ~isKnownCounterDataError(e) /\ EndHost(h, e)
    /\ UNCHANGED counters

(* What was really read, for the properties.                                *)
Record(h, e, new) ==
    /\ answered' = [answered EXCEPT ![h] = IF e = Nil THEN @ \cup new ELSE @]
    /\ failed' = [failed EXCEPT ![h] =
                    @ \/ (e # Nil /\ ~isKnownCounterDataError(e))]
    /\ UNCHANGED delivered

(* Lines 468-482: one value per counter.                                    *)
ReadValue(h) ==
    /\ UseWildcardsExpansion
    /\ Reading(h)
    /\ LET metric == counters[h][pos[h]]
           new == {NewEntry(metric, metric.instance, metric.handle.path[2])}
       IN  \E e \in IF metric.useRawValue THEN GetRawCounterValue(h)
                                           ELSE GetFormattedCounterValueDouble(h) :
             AfterRead(h, e, new) /\ Record(h, e, new)

(* Lines 484-515: an array of values per counter.  The formatted read       *)
(* declares an err of its own, so the test below it sees the err of an      *)
(* earlier counter.                                                         *)
ReadArray(h) ==
    /\ ~UseWildcardsExpansion
    /\ Reading(h)
    /\ LET metric == counters[h][pos[h]]
       IN  \E e \in CounterArrayReturns, insts \in Answer[metric.instance] :
             LET new == IF e = Nil THEN ArrayEntries(metric, insts) ELSE {}
             IN  /\ AfterRead(h, IF metric.useRawValue THEN e ELSE readErr[h], new)
                 /\ Record(h, e, new)

(* Lines 518-532: all fields go to m.collect.                               *)
Deliver(h) ==
    /\ h \in wg
    /\ pos[h] > Len(counters[h])
    /\ delivered' = [delivered EXCEPT ![h] = collectedFields[h]]
    /\ EndHost(h, Nil)
    /\ UNCHANGED <<counters, answered, failed>>

gatherComputerCounters(h) == ReadValue(h) \/ ReadArray(h) \/ Deliver(h)
-----------------------------------------------------------------------------
(* A host that ends without an error has delivered exactly the values       *)
(* pdh.dll answered and the filter accepts: a counter that is skipped for a *)
(* known data error takes no value of another counter with it, and no value *)
(* is overwritten by one that belongs to something else.                    *)
NoValueDropped ==
    \A h \in Host \ wg : result[h] = Nil => delivered[h] = answered[h]

(* An error that is not a known data error ends the host with an error and  *)
(* with nothing delivered, as the comment in gatherComputerCounters says    *)
(* that only invalid data is ignored.                                       *)
UnknownErrorReported ==
    \A h \in Host \ wg : failed[h] => result[h] # Nil /\ delivered[h] = {}
=============================================================================
