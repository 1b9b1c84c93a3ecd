----------------------- MODULE PerformanceQueryProofs -----------------------
(***************************************************************************)
(* What every operation of a query object preserves, and the ownership of  *)
(* PDH queries for any number of objects, handles and counters.            *)
(***************************************************************************)
EXTENDS PerformanceQuery, TLAPS

(* Opening the object q while pdh.dll keeps `held' is sound if q owns none  *)
(* of the queries that stay open and the other objects own them all.        *)
LEMMA OpenPreserves ==
    ASSUME QueryTypeOK, QueryOwnership, NEW q \in Host, NEW err,
           pdhOpenQuery(q, pdhQueries \ {queryHandle[q]}, err), UNCHANGED faulty
    PROVE  QueryTypeOK' /\ QueryOwnership'
<1> USE HandleAssumption
<1>1. CASE /\ queryHandle' = [queryHandle EXCEPT ![q] = NoHandle]
           /\ Hold(pdhQueries \ {queryHandle[q]}, {})
  BY <1>1 DEF Hold, QueryTypeOK, QueryOwnership
<1>2. CASE \E h \in Handle \ (pdhQueries \ {queryHandle[q]}) :
             /\ queryHandle' = [queryHandle EXCEPT ![q] = h]
             /\ Hold(pdhQueries \ {queryHandle[q]}, {h})
  <2>1. PICK h \in Handle \ (pdhQueries \ {queryHandle[q]}) :
             /\ queryHandle' = [queryHandle EXCEPT ![q] = h]
             /\ Hold(pdhQueries \ {queryHandle[q]}, {h})
    BY <1>2, ZenonT(30)
  <2>2. QueryTypeOK'
    BY <2>1 DEF Hold, QueryTypeOK
  <2>3. QueryOwnership'
    BY <2>1 DEF Hold, QueryTypeOK, QueryOwnership
  <2> QED
    BY <2>2, <2>3
<1> QED
  BY <1>1, <1>2, ZenonT(30) DEF pdhOpenQuery

(* Close, whether it succeeds, fails or finds no handle.                    *)
LEMMA ClosePreserves ==
    ASSUME QueryTypeOK, QueryOwnership, NEW q \in Host, NEW err,
           Close(q, err), UNCHANGED faulty
    PROVE  QueryTypeOK' /\ QueryOwnership'
<1> USE HandleAssumption
<1>1. CASE UNCHANGED queryVars
  BY <1>1 DEF queryVars, QueryTypeOK, QueryOwnership
<1>2. CASE /\ queryHandle' = [queryHandle EXCEPT ![q] = NoHandle]
           /\ Hold(pdhQueries \ {queryHandle[q]}, {})
  BY <1>2 DEF Hold, QueryTypeOK, QueryOwnership
<1> QED
  BY <1>1, <1>2 DEF Close

(* Adding a counter touches no handle.                                      *)
LEMMA AddPreserves ==
    ASSUME QueryTypeOK, QueryOwnership, NEW q \in Host, NEW path \in Path, NEW err,
           AddCounterToQuery(q, path, err), UNCHANGED faulty
    PROVE  QueryTypeOK' /\ QueryOwnership'
<1>1. CASE UNCHANGED queryVars
  BY <1>1 DEF queryVars, QueryTypeOK, QueryOwnership
<1>2. CASE /\ queryHandle[q] # NoHandle
           /\ pdhCounters' = [pdhCounters EXCEPT ![queryHandle[q]] = @ \cup {path}]
           /\ samples' = [samples EXCEPT ![queryHandle[q]][path] = 0]
           /\ UNCHANGED <<queryHandle, pdhQueries>>
  BY <1>2 DEF QueryTypeOK, QueryOwnership
<1> QED
  BY <1>1, <1>2 DEF AddCounterToQuery

(* So does taking a sample.                                                 *)
LEMMA SamplePreserves ==
    ASSUME QueryTypeOK, QueryOwnership, NEW h \in Handle, TakeSample(h), UNCHANGED faulty
    PROVE  QueryTypeOK' /\ QueryOwnership'
BY DEF TakeSample, QueryTypeOK, QueryOwnership

(* PdhCollectQueryData leaves queries and counters where they are.          *)
LEMMA CollectPreserves ==
    ASSUME QueryTypeOK, QueryOwnership, NEW q \in Host, NEW err,
           CollectDataWithTime(q, err), UNCHANGED faulty
    PROVE  QueryTypeOK' /\ QueryOwnership'
<1>1. CASE UNCHANGED queryVars
  BY <1>1 DEF queryVars, QueryTypeOK, QueryOwnership
<1>2. CASE queryHandle[q] # NoHandle /\ TakeSample(queryHandle[q])
  BY <1>2, SamplePreserves DEF QueryTypeOK
<1> QED
  BY <1>1, <1>2 DEF CollectDataWithTime, CollectData

(* Before the first Open no query exists, and none is owned.                *)
LEMMA QueryInvInit == QueryInit => QueryTypeOK /\ QueryOwnership
BY HandleAssumption DEF QueryInit, QueryTypeOK, QueryOwnership

(* No operation of performance_query.go breaks ownership.                   *)
LEMMA QueryInvNext ==
    QueryTypeOK /\ QueryOwnership /\ [QueryNext]_<<queryVars, faulty>>
        => QueryTypeOK' /\ QueryOwnership'
<1> SUFFICES ASSUME QueryTypeOK, QueryOwnership, [QueryNext]_<<queryVars, faulty>>
             PROVE  QueryTypeOK' /\ QueryOwnership'
  OBVIOUS
<1>1. CASE Heal /\ UNCHANGED queryVars
  BY <1>1, ZenonT(30) DEF Heal, queryVars, QueryTypeOK, QueryOwnership
<1>2. CASE UNCHANGED <<queryVars, faulty>>
  BY <1>2 DEF queryVars, QueryTypeOK, QueryOwnership
<1>3. ASSUME NEW q \in Host, NEW err \in Error, UNCHANGED faulty, Open(q, err)
      PROVE  QueryTypeOK' /\ QueryOwnership'
  <2>1. CASE UNCHANGED queryVars
    BY <2>1, <1>3 DEF queryVars, QueryTypeOK, QueryOwnership
  <2>2. CASE pdhOpenQuery(q, pdhQueries \ {queryHandle[q]}, err)
    BY <2>2, <1>3, OpenPreserves
  <2> QED
    BY <1>3, <2>1, <2>2 DEF Open
<1>4. ASSUME NEW q \in Host, NEW err \in Error, UNCHANGED faulty,
             Close(q, err) \/ (\E path \in Path : AddCounterToQuery(q, path, err))
      PROVE  QueryTypeOK' /\ QueryOwnership'
  BY <1>4, ClosePreserves, AddPreserves
<1>5. ASSUME NEW q \in Host, NEW err \in Error, UNCHANGED faulty,
             CollectData(q, err) \/ CollectDataWithTime(q, err)
      PROVE  QueryTypeOK' /\ QueryOwnership'
  BY <1>5, CollectPreserves DEF CollectDataWithTime
<1> QED
  BY <1>1, <1>2, <1>3, <1>4, <1>5 DEF QueryNext

(* Whatever sequence of Open, Close, AddCounterToQuery and collections the  *)
(* objects of performance_query.go see, and whichever of them fail, every   *)
(* open PDH query is the handle of exactly one object.                      *)
THEOREM QueriesOwned == QuerySpec => [](QueryTypeOK /\ QueryOwnership)
BY QueryInvInit, QueryInvNext, PTL DEF QuerySpec
=============================================================================
