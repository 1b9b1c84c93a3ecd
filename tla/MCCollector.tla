----------------------------- MODULE MCCollector -----------------------------
(***************************************************************************)
(* Two computers, a few counters and up to three items; the .cfg files     *)
(* choose the configuration and the calls that fail.                       *)
(***************************************************************************)
EXTENDS Collector

CONSTANTS h1, h2

BadCounter == "PDH_CSTATUS_BAD_COUNTERNAME"
MCPdhCode == {pdhNoData, pdhCstatusNoCounter, "PDH_INVALID_DATA", BadCounter}

(* The English names, a wildcard, and the name reads has on a German system. *)
reads == "Reads/sec"
writes == "Writes/sec"
lesen == "Lesen/Sec"
EnglishCounters == {reads, writes}
WithWildcard == {reads, writes, "*"}
WithLocal == {reads, writes, lesen}

(* "/sec" and "/Sec" become "_persec"; a raw value gets "_Raw".             *)
MCFieldName == {"Reads_persec", "Reads_persec_Raw", "Writes_persec",
                "Writes_persec_Raw", "Lesen_persec", "Lesen_persec_Raw", "*", "*_Raw"}
MCfieldName ==
    [x \in Counter \X BOOLEAN |->
       CASE x[1] = reads -> IF x[2] THEN "Reads_persec_Raw" ELSE "Reads_persec"
         [] x[1] = writes -> IF x[2] THEN "Writes_persec_Raw" ELSE "Writes_persec"
         [] x[1] = lesen -> IF x[2] THEN "Lesen_persec_Raw" ELSE "Lesen_persec"
         [] x[1] = "*" -> IF x[2] THEN "*_Raw" ELSE "*"]

(* "Lesen/Sec" is the counter "Reads/sec".                                  *)
MCCounterOf == [c \in Counter |-> IF c = lesen THEN reads ELSE c]

(* "a#1" is a second instance named "a", and arrays call it "a".  Processor *)
(* groups have totals of their own, such as "0,_Total".                     *)
MCName == {NoInstance, "*", "_Total", "0,_Total", "------", "a", "a#1"}
MCTotalNames == {"_Total", "0,_Total"}
MCPrefixPairs == {<<"a", "a#1">>, <<"a#1", "a#1">>}
MCReportedName == [n \in MCName |-> IF n = "a#1" THEN "a" ELSE n]

Item3(h, c, n, raw, fail) ==
    [computer |-> h, counter |-> c, instance |-> n, useRawValue |-> raw,
     includeTotal |-> FALSE, failOnMissing |-> fail]

(* Two items of h1, and two of h2 of which the first must not be missing.   *)
TwoHosts ==
    <<Item3(h1, reads, "*", FALSE, FALSE), Item3(h1, writes, "a#1", TRUE, FALSE),
      Item3(h2, reads, "a", FALSE, TRUE), Item3(h2, writes, "a", FALSE, FALSE)>>
(* Three of these. *)
ThreeItems == SubSeq(TwoHosts, 1, 3)
(* A wildcard for the first counter, and no instance for the third.         *)
WildHosts ==
    <<Item3(h1, "*", "*", FALSE, FALSE), Item3(h1, writes, "a", TRUE, FALSE),
      Item3(h2, reads, "------", FALSE, TRUE)>>
(* One item per host. *)
OneEach == <<Item3(h1, reads, "a", FALSE, FALSE), Item3(h2, reads, "a", FALSE, FALSE)>>
(* A raw counter, then a formatted one. *)
RawFirst == <<Item3(h1, reads, "a", TRUE, FALSE), Item3(h1, writes, "a", FALSE, FALSE)>>
(* All instances of one counter. *)
Star == <<Item3(h1, reads, "*", FALSE, FALSE)>>

MCAnswer ==
    [n \in MCName |-> IF n = "*" THEN {{"a", "_Total", "0,_Total"}} ELSE {{n}}]
TwoProcesses ==
    [n \in MCName |-> IF n = "*" THEN {{"a", "a#1", "_Total"}} ELSE {{n}}]

Expanded(p, c) ==
    CASE p[2] = "*" -> {<<<<c, "a">>, <<c, "_Total">>>>}
      [] p[2] = NoInstance -> {<<>>}
      [] OTHER -> {<<<<c, p[2]>>>>}
MCExpansion == [p \in Path |-> Expanded(p, IF p[1] = "*" THEN reads ELSE p[1])]
GroupExpansion ==
    [p \in Path |-> {<<<<p[1], "a">>, <<p[1], "0,_Total">>, <<p[1], "_Total">>>>}]
LocalExpansion == [p \in Path |-> Expanded(p, IF p[1] = reads THEN lesen ELSE p[1])]

FaultIn(calls) ==
    [c \in FallibleCall |->
       IF c \notin calls THEN {}
       ELSE IF c = "PdhGetCounterValue" THEN {"PDH_INVALID_DATA", BadCounter}
       ELSE IF c = "extractCounterInfoFromCounterPath" THEN {errCannotParse}
       ELSE {BadCounter}]

AllFaults == FaultIn(FallibleCall)
NoFaults == FaultIn({})
OpenFaults == FaultIn({"PdhOpenQuery"})
ReadFaults == FaultIn({"PdhGetCounterValue"})
QueryKeptFaults == FaultIn(FallibleCall \ {"PdhOpenQuery", "PdhCloseQuery", "os.Hostname"})

MissingOnH2 == {h2} \X Path
OneMissing == {<<h2, <<writes, "a">>>>}
=============================================================================
