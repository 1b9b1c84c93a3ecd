-------------------------------- MODULE Pdh --------------------------------
(***************************************************************************)
(* What every other module knows of pdh.dll and of Go errors: the error    *)
(* values, which calls may fail with which code, and the two predicates    *)
(* utils.go defines on errors.                                             *)
(*                                                                         *)
(* pdh.dll itself is external.  A call of it either succeeds or returns a  *)
(* code of Fault[call]; it does so only while `faulty' is TRUE, so that a  *)
(* run can ask what the program does once the library has recovered.       *)
(***************************************************************************)
CONSTANTS
    PdhCode,        \* the PDH_* codes the run distinguishes
    IgnoredErrors,  \* WinPerfCounters.IgnoredErrors
    Fault           \* [FallibleCall -> the errors that call may return]

VARIABLE faulty     \* pdh.dll calls may fail

Nil == "nil"
errUninitializedQuery == "uninitialized query"
errBufferLimitReached == "buffer limit reached"
errNoObjects == "no performance objects configured"
errCannotParse == "cannot parse"
pdhNoData == "PDH_NO_DATA"
pdhCstatusNoCounter == "PDH_CSTATUS_NO_COUNTER"

GoError ==
    {errUninitializedQuery, errBufferLimitReached, errNoObjects, errCannotParse}

Error == PdhCode \cup GoError \cup {Nil}

(* The calls of pdh.dll and of the system, and the parse of a path.         *)
FallibleCall ==
    {"PdhOpenQuery", "PdhCloseQuery", "PdhAddCounter", "PdhGetCounterInfo",
     "PdhExpandWildCardPath", "PdhCollectQueryData", "LocalFileTimeToFileTime",
     "PdhGetCounterValue", "extractCounterInfoFromCounterPath", "os.Hostname"}

ASSUME PdhAssumption ==
    /\ {pdhNoData, pdhCstatusNoCounter} \subseteq PdhCode
    /\ PdhCode \cap (GoError \cup {Nil}) = {}
    /\ IgnoredErrors \subseteq PdhCode
    /\ Fault \in [FallibleCall ->
                    SUBSET (PdhCode \cup {errBufferLimitReached, errCannotParse})]

(* The errors `call' may return now. *)
Failures(call) == IF faulty THEN Fault[call] ELSE {}

(* The library recovers: from here on no call fails for a reason of its own. *)
Heal == faulty /\ faulty' = FALSE

(* checkError: an error of a code in IgnoredErrors becomes nil.              *)
checkError(err) == IF err \in IgnoredErrors THEN Nil ELSE err

(* isKnownCounterDataError: the codes that skip one metric and no more.      *)
isKnownCounterDataError(err) ==
    err \in {"PDH_INVALID_DATA", "PDH_CALC_NEGATIVE_DENOMINATOR",
             "PDH_CALC_NEGATIVE_VALUE", "PDH_CSTATUS_INVALID_DATA",
             "PDH_CSTATUS_NO_INSTANCE", pdhNoData}
=============================================================================
