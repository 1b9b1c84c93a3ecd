------------------------- MODULE MCPerformanceQuery -------------------------
(***************************************************************************)
(* performance_query.go: two query objects with three handles and two      *)
(* counters, the buffer loop of a call, and the decoding of an answer.     *)
(* The three share no state; a behaviour is one of them.                   *)
(***************************************************************************)
EXTENDS PerformanceQuery, BufferGrowth, MCDecode

VARIABLE part   \* "objects", "buffers" or "decoding"

MCPdhCode ==
    {"PDH_NO_DATA", "PDH_CSTATUS_NO_COUNTER", "PDH_INVALID_HANDLE"}
MCFault == [c \in FallibleCall |-> {"PDH_INVALID_HANDLE"}]

(* No call is made: the loop is not entered.                                *)
NoCall ==
    /\ MaxBufferSize = Min(ConfiguredSizes) /\ maxBufferSize = 0 /\ required = 0
    /\ buflen = 0 /\ pc = "done" /\ asked = 0

Init ==
    /\ QueryInit /\ DecodeInit
    /\ \/ part = "buffers" /\ BufferInit
       \/ part \in {"objects", "decoding"} /\ NoCall

Next ==
    /\ UNCHANGED part
    /\ \/ /\ part = "objects" /\ QueryNext
          /\ UNCHANGED <<bufferVars, decodeVars>>
       \/ /\ part = "buffers" /\ BufferNext
          /\ UNCHANGED <<queryVars, faulty, decodeVars>>
       \/ /\ part = "decoding" /\ DecodeNext
          /\ UNCHANGED <<queryVars, faulty, bufferVars>>

(* Nothing in the loop waits: a call that is in it goes on.                 *)
Spec ==
    /\ Init
    /\ [][Next]_<<part, queryVars, faulty, bufferVars, decodeVars>>
    /\ WF_bufferVars(part = "buffers" /\ Loop)
=============================================================================
