-------------------------- MODULE PerformanceQuery --------------------------
(***************************************************************************)
(* performanceQueryImpl (performance_query.go): the query objects, and the *)
(* state pdh.dll keeps for them.  newPerformanceQuery creates an object    *)
(* for a computer, so an object is named by its computer, a Host.          *)
(*                                                                         *)
(* An operation is an action Op(q, ..., err) on the object q that returns  *)
(* the error err; modules that call it conjoin it with their own updates.  *)
(***************************************************************************)
EXTENDS Naturals, Pdh

CONSTANTS
    Host,       \* the computers, each naming its query object
    Handle,     \* the query handles PdhOpenQuery may return
    NoHandle,   \* the zero pdhQueryHandle
    Counter,    \* counters of performance objects
    Name,       \* instance names, as configured or as found by pdh.dll
    Missing     \* <<host, path>>: counters the host does not have

ASSUME HandleAssumption == NoHandle \notin Handle
ASSUME MissingAssumption == Missing \subseteq Host \X (Counter \X Name)

VARIABLES
    queryHandle,    \* performanceQueryImpl.queryHandle of each object
    pdhQueries,     \* pdh.dll: the handles of the open queries
    pdhCounters,    \* pdh.dll: the counter paths added to each query
    samples         \* pdh.dll: the samples each counter has, 2 for more

queryVars == <<queryHandle, pdhQueries, pdhCounters, samples>>

(* \Object(instance)\counter; pdhCounterHandle is a query and a path of it: *)
(* two handles for one path of one query read the same values.              *)
Path == Counter \X Name
CounterHandle == [query : Handle, path : Path]

(* The counter handles PdhCloseQuery has not released. *)
IsLive(hCounter) ==
    /\ hCounter.query \in pdhQueries
    /\ hCounter.path \in pdhCounters[hCounter.query]

QueryTypeOK ==
    /\ faulty \in BOOLEAN
    /\ queryHandle \in [Host -> Handle \cup {NoHandle}]
    /\ pdhQueries \in SUBSET Handle
    /\ pdhCounters \in [Handle -> SUBSET Path]
    /\ samples \in [Handle -> [Path -> 0..2]]

QueryInit ==
    /\ faulty = TRUE
    /\ queryHandle = [q \in Host |-> NoHandle]
    /\ pdhQueries = {}
    /\ pdhCounters = [h \in Handle |-> {}]
    /\ samples = [h \in Handle |-> [p \in Path |-> 0]]
-----------------------------------------------------------------------------
(* pdh.dll keeps the queries `kept' with their counters and adds the empty   *)
(* queries `opened'; the others are closed and their counters released.      *)
Hold(kept, opened) ==
    /\ pdhQueries' = kept \cup opened
    /\ pdhCounters' = [h \in Handle |->
                         IF h \in kept THEN pdhCounters[h] ELSE {}]
    /\ samples' = [h \in Handle |->
                     IF h \in kept THEN samples[h] ELSE [p \in Path |-> 0]]

(* PdhOpenQuery for the object q while pdh.dll holds the queries `held'; a   *)
(* handle that was closed may be given out again.                            *)
pdhOpenQuery(q, held, err) ==
    \/ /\ err \in Failures("PdhOpenQuery")
       /\ queryHandle' = [queryHandle EXCEPT ![q] = NoHandle]
       /\ Hold(held, {})
    \/ /\ err = Nil
       /\ \E h \in Handle \ held :
            /\ queryHandle' = [queryHandle EXCEPT ![q] = h]
            /\ Hold(held, {h})

(* newPerformanceQuery, a new object with no handle, and its first Open.    *)
newPerformanceQuery(q, err) == pdhOpenQuery(q, pdhQueries, err)

(* Mutant: Open does not close the query the object already has. *)
Open_NoClose(q, err) == pdhOpenQuery(q, pdhQueries, err)

(* Open: an open object is closed first. *)
Open(q, err) ==
    \/ /\ queryHandle[q] # NoHandle
       /\ err \in Failures("PdhCloseQuery")
       /\ UNCHANGED queryVars
    \/ pdhOpenQuery(q, pdhQueries \ {queryHandle[q]}, err)

(* Mutant: the handle is zeroed before PdhCloseQuery has returned. *)
Close_ZeroFirst(q, err) ==
    \/ /\ queryHandle[q] = NoHandle
       /\ err = errUninitializedQuery
       /\ UNCHANGED queryVars
    \/ /\ queryHandle[q] # NoHandle
       /\ err \in Failures("PdhCloseQuery") \cup {Nil}
       /\ queryHandle' = [queryHandle EXCEPT ![q] = NoHandle]
       /\ Hold(IF err = Nil THEN pdhQueries \ {queryHandle[q]} ELSE pdhQueries, {})

(* Close: closing releases the counters; a failed close keeps the handle.   *)
Close(q, err) ==
    \/ /\ queryHandle[q] = NoHandle
       /\ err = errUninitializedQuery
       /\ UNCHANGED queryVars
    \/ /\ queryHandle[q] # NoHandle
       /\ err \in Failures("PdhCloseQuery")
       /\ UNCHANGED queryVars
    \/ /\ queryHandle[q] # NoHandle
       /\ err = Nil
       /\ queryHandle' = [queryHandle EXCEPT ![q] = NoHandle]
       /\ Hold(pdhQueries \ {queryHandle[q]}, {})

(* AddCounterToQuery and AddEnglishCounterToQuery.                          *)
AddCounterToQuery(q, path, err) ==
    \/ /\ queryHandle[q] = NoHandle
       /\ err = errUninitializedQuery
       /\ UNCHANGED queryVars
    \/ /\ queryHandle[q] # NoHandle
       /\ \/ err \in Failures("PdhAddCounter")
          \/ err = pdhCstatusNoCounter /\ <<q, path>> \in Missing
       /\ UNCHANGED queryVars
    \/ /\ queryHandle[q] # NoHandle
       /\ err = Nil
       /\ <<q, path>> \notin Missing
       /\ pdhCounters' = [pdhCounters EXCEPT ![queryHandle[q]] = @ \cup {path}]
       /\ samples' = [samples EXCEPT ![queryHandle[q]][path] = 0]
       /\ UNCHANGED <<queryHandle, pdhQueries>>

(* A collection gives every counter of the query h one more sample.         *)
TakeSample(h) ==
    /\ samples' = [samples EXCEPT ![h] =
                     [p \in Path |-> IF @[p] < 2 THEN @[p] + 1 ELSE 2]]
    /\ UNCHANGED <<queryHandle, pdhQueries, pdhCounters>>

(* CollectData: a query without counters has no data.                       *)
CollectData(q, err) ==
    \/ /\ queryHandle[q] = NoHandle
       /\ err = errUninitializedQuery
       /\ UNCHANGED queryVars
    \/ /\ queryHandle[q] # NoHandle
       /\ \/ err \in Failures("PdhCollectQueryData")
          \/ err = pdhNoData /\ pdhCounters[queryHandle[q]] = {}
       /\ UNCHANGED queryVars
    \/ /\ queryHandle[q] # NoHandle
       /\ err = Nil
       /\ pdhCounters[queryHandle[q]] # {}
       /\ TakeSample(queryHandle[q])

(* CollectDataWithTime: the conversion of the time may fail after the       *)
(* sample was taken.                                                        *)
CollectDataWithTime(q, err) ==
    \/ CollectData(q, err)
    \/ /\ queryHandle[q] # NoHandle
       /\ err \in Failures("LocalFileTimeToFileTime")
       /\ pdhCounters[queryHandle[q]] # {}
       /\ TakeSample(queryHandle[q])

(* The errors a read of one value may return; only the raw read looks at    *)
(* queryHandle.                                                             *)
ValueReturns == (Failures("PdhGetCounterValue") \ {errBufferLimitReached}) \cup {Nil}

GetFormattedCounterValueDouble(q) == ValueReturns

GetRawCounterValue(q) ==
    IF queryHandle[q] = NoHandle THEN {errUninitializedQuery} ELSE ValueReturns

(* The errors GetRawCounterArray and GetFormattedCounterArrayDouble return. *)
CounterArrayReturns == Failures("PdhGetCounterValue") \cup {Nil}
-----------------------------------------------------------------------------
(* A client of the public interface, in any order of calls.                 *)
QueryNext ==
    \/ Heal /\ UNCHANGED queryVars
    \/ /\ UNCHANGED faulty
       /\ \E q \in Host, err \in Error :
            \/ Open(q, err)
            \/ Close(q, err)
            \/ \E path \in Path : AddCounterToQuery(q, path, err)
            \/ CollectData(q, err)
            \/ CollectDataWithTime(q, err)

QuerySpec == QueryInit /\ [][QueryNext]_<<queryVars, faulty>>
-----------------------------------------------------------------------------
(* Every query pdh.dll holds open is the handle of exactly one object, and  *)
(* every handle an object holds is an open query: whatever Open and Close   *)
(* return, no PDH query is leaked, shared or used after it was closed.      *)
QueryOwnership ==
    /\ \A q \in Host : queryHandle[q] \in pdhQueries \cup {NoHandle}
    /\ \A h \in pdhQueries : \E q \in Host : queryHandle[q] = h
    /\ \A q, r \in Host :
         queryHandle[q] = queryHandle[r] /\ queryHandle[q] # NoHandle => q = r
=============================================================================
