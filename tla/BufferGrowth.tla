---------------------------- MODULE BufferGrowth ----------------------------
(***************************************************************************)
(* The loop GetCounterPath, ExpandWildCardPath and the four array readers  *)
(* of performance_query.go share: call pdh.dll with a buffer, and while it *)
(* answers PDH_MORE_DATA try again with twice the larger of the buffer and *)
(* the size it asked for, up to maxBufferSize.  Sizes are uint32: they     *)
(* wrap at UintModulus.  A step is one attempt; between two attempts the   *)
(* size of the answer may change.                                          *)
(*                                                                         *)
(* WinPerfCounters.Init refuses some values of MaxBufferSize, but the      *)
(* program goes on with a size that was refused (cmd/main.go, line 31),    *)
(* cut to 32 bits.                                                         *)
(***************************************************************************)
EXTENDS Naturals

CONSTANTS
    InitialBufferSize,  \* initialBufferSize, 1024
    UintModulus,        \* 2^32
    ConfiguredSizes,    \* the values of MaxBufferSize configurations have
    MaxRequired         \* the largest answer pdh.dll ever has

ASSUME SizeAssumption ==
    /\ InitialBufferSize \in 1..(UintModulus - 1)
    /\ UintModulus \in Nat
    /\ ConfiguredSizes \subseteq Nat
    /\ MaxRequired \in 0..(UintModulus - 1)

VARIABLES
    MaxBufferSize,  \* WinPerfCounters.MaxBufferSize, 64 bits
    maxBufferSize,  \* performanceQueryImpl.maxBufferSize
    required,       \* the size of the answer pdh.dll has now
    buflen,         \* the loop variable
    pc,             \* "loop", or how the call ended
    asked           \* history: `required' when pdh.dll was last called

bufferVars == <<MaxBufferSize, maxBufferSize, required, buflen, pc, asked>>

(* Mutant: the upper bound is not checked.                                  *)
AcceptedBufferSize_NoMax(n) == n >= InitialBufferSize

(* WinPerfCounters.Init: the sizes it does not refuse.                      *)
AcceptedBufferSize(n) == n >= InitialBufferSize /\ n <= UintModulus - 1

(* Mutant: the size keeps its 64 bits.                                      *)
uint32_NoCut(n) == n

(* uint32(n) *)
uint32(n) == IF n < UintModulus THEN n ELSE n % UintModulus

(* The query object is made with uint32(MaxBufferSize), accepted or not.    *)
BufferInit ==
    /\ MaxBufferSize \in ConfiguredSizes
    /\ maxBufferSize = uint32(MaxBufferSize)
    /\ required \in 0..MaxRequired
    /\ buflen = InitialBufferSize
    /\ pc = "loop"
    /\ asked = 0

(* uint32 multiplication by two, of n < UintModulus: 2n % UintModulus.      *)
Double(n) == IF 2 * n < UintModulus THEN 2 * n ELSE 2 * n - UintModulus

(* Mutant: the size asked for is taken without doubling it.                 *)
Grow_NoDouble(size) == IF size > buflen THEN size ELSE buflen

(* Mutant: the size asked for replaces the buffer's even when it is smaller. *)
Grow_Hint(size) == Double(size)

(* `if size > buflen { buflen = size }', and `buflen *= 2'.                 *)
Grow(size) == Double(IF size > buflen THEN size ELSE buflen)

(* One turn of the loop.  `size' is what pdh.dll leaves in the size         *)
(* argument with PDH_MORE_DATA: at most what it needs.                      *)
Attempt ==
    /\ pc = "loop"
    /\ buflen <= maxBufferSize
    /\ buflen # 0
    /\ asked' = required
    /\ \/ required <= buflen /\ pc' = "done" /\ UNCHANGED buflen
       \/ pc' = "error" /\ UNCHANGED buflen
       \/ /\ required > buflen
          /\ \E size \in 0..required : buflen' = Grow(size)
          /\ UNCHANGED pc
    /\ UNCHANGED <<MaxBufferSize, maxBufferSize, required>>

(* A turn with a buffer of no bytes: &buf[0] panics before the call.        *)
NoFirstByte ==
    /\ pc = "loop"
    /\ buflen <= maxBufferSize
    /\ buflen = 0
    /\ pc' = "panic"
    /\ UNCHANGED <<MaxBufferSize, maxBufferSize, required, buflen, asked>>

(* The loop's condition fails: errBufferLimitReached.                       *)
LimitReached ==
    /\ pc = "loop"
    /\ buflen > maxBufferSize
    /\ pc' = "limit"
    /\ UNCHANGED <<MaxBufferSize, maxBufferSize, required, buflen, asked>>

(* Instances come and go.                                                   *)
Drift ==
    /\ required' \in 0..MaxRequired
    /\ UNCHANGED <<MaxBufferSize, maxBufferSize, buflen, pc, asked>>

(* The next call.                                                           *)
Call ==
    /\ pc \in {"done", "error", "limit"}
    /\ pc' = "loop"
    /\ buflen' = InitialBufferSize
    /\ asked' = 0
    /\ UNCHANGED <<MaxBufferSize, maxBufferSize, required>>

Loop == Attempt \/ NoFirstByte \/ LimitReached
BufferNext == Loop \/ Drift \/ Call

BufferSpec == BufferInit /\ [][BufferNext]_bufferVars
-----------------------------------------------------------------------------
BufferTypeOK ==
    /\ MaxBufferSize \in ConfiguredSizes
    /\ maxBufferSize \in 0..(UintModulus - 1)
    /\ required \in 0..MaxRequired
    /\ buflen \in 0..(UintModulus - 1)
    /\ pc \in {"loop", "done", "error", "limit", "panic"}
    /\ asked \in 0..MaxRequired

(* With a MaxBufferSize that Init accepts, "buffer limit reached" means     *)
(* that the answer would not fit in half of it, however the answer's size   *)
(* moved between attempts: neither the cut to 32 bits nor a wrapped product *)
(* makes the limit smaller than what was configured.                        *)
LimitMeansLarge ==
    pc = "limit" /\ AcceptedBufferSize(MaxBufferSize) => 2 * asked > MaxBufferSize

HugeAnswer == 2 * asked >= UintModulus
ReturnedOrHuge == pc \in {"done", "error", "limit"} \/ HugeAnswer

(* The loop reaches a buffer of no bytes only if pdh.dll had an answer of   *)
(* 2^31 or more: below that no hint and no change of the answer makes       *)
(* `buflen *= 2' wrap to 0, whatever limit is configured, refused or not.   *)
PanicMeansHuge == pc = "panic" => HugeAnswer

(* Every call returns, even if the answer keeps growing, unless pdh.dll has *)
(* an answer of 2^31 or more for it.                                        *)
CallReturns == pc = "loop" ~> ReturnedOrHuge

(* Init refuses a size with "maximum buffer size should be smaller than     *)
(* 4294967295": a smaller one bounds the buffer, and a larger answer is     *)
(* answered with errBufferLimitReached.                                     *)
AcceptedSizeBounds == AcceptedBufferSize(MaxBufferSize) => pc # "panic"
=============================================================================
