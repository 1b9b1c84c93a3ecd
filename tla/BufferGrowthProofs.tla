------------------------- MODULE BufferGrowthProofs -------------------------
(***************************************************************************)
(* Proofs about the buffer loop, for every initial size, modulus, limit    *)
(* and sequence of answers of pdh.dll.                                     *)
(***************************************************************************)
EXTENDS BufferGrowth, TLAPS

(* In a call, the buffer is the first one or at most twice the last answer, *)
(* and it is empty only if twice the answer is no uint32.                   *)
Inv ==
    /\ BufferTypeOK
    /\ maxBufferSize = uint32(MaxBufferSize)
    /\ pc \in {"loop", "limit"} => buflen = InitialBufferSize \/ buflen <= 2 * asked
    /\ pc = "limit" => buflen > maxBufferSize
    /\ pc = "panic" => buflen = 0
    /\ buflen = 0 => 2 * asked >= UintModulus

(* Doubling a uint32 gives a uint32, at most twice as large.                *)
LEMMA DoubleBound ==
    ASSUME NEW n \in 0..(UintModulus - 1)
    PROVE  Double(n) \in 0..(UintModulus - 1) /\ Double(n) <= 2 * n
BY SizeAssumption DEF Double

(* A size that fits in 32 bits is kept, and any other becomes one that does. *)
LEMMA Uint32Bound ==
    ASSUME NEW n \in Nat
    PROVE  uint32(n) \in 0..(UintModulus - 1) /\ (n < UintModulus => uint32(n) = n)
BY SizeAssumption DEF uint32

(* A size pdh.dll asks for that is no larger than its answer makes a buffer *)
(* of at most twice the answer, if the old buffer was too small.            *)
LEMMA GrowBound ==
    ASSUME BufferTypeOK, required > buflen, NEW size \in 0..required
    PROVE  /\ Grow(size) \in 0..(UintModulus - 1)
           /\ Grow(size) <= 2 * required
           /\ buflen # 0 /\ 2 * required < UintModulus => Grow(size) # 0
<1> DEFINE n == IF size > buflen THEN size ELSE buflen
<1>1. n \in 0..(UintModulus - 1) /\ n <= required
  BY SizeAssumption DEF BufferTypeOK
<1>2. Double(n) \in 0..(UintModulus - 1) /\ Double(n) <= 2 * n
  BY <1>1, DoubleBound
<1>3. ASSUME buflen # 0, 2 * required < UintModulus PROVE Double(n) # 0
  BY <1>1, <1>3, SizeAssumption DEF Double, BufferTypeOK
<1> QED
  BY <1>1, <1>2, <1>3, SizeAssumption DEF Grow, BufferTypeOK

(* The first call starts with buflen := initialBufferSize.                  *)
LEMMA InvInit == BufferInit => Inv
<1> SUFFICES ASSUME BufferInit PROVE Inv
  OBVIOUS
<1>1. MaxBufferSize \in Nat
  BY SizeAssumption DEF BufferInit
<1>2. maxBufferSize \in 0..(UintModulus - 1)
  BY <1>1, Uint32Bound DEF BufferInit
<1> QED
  BY <1>2, SizeAssumption DEF BufferInit, Inv, BufferTypeOK

(* Every step of a call, and every change of the data, preserves Inv.       *)
LEMMA InvNext == Inv /\ [BufferNext]_bufferVars => Inv'
<1> SUFFICES ASSUME Inv, [BufferNext]_bufferVars PROVE Inv'
  OBVIOUS
<1> USE SizeAssumption DEF Inv, BufferTypeOK
<1>1. CASE Attempt
  <2>1. CASE UNCHANGED buflen
    BY <1>1, <2>1 DEF Attempt
  <2>2. CASE \E size \in 0..required :
               buflen' = Grow(size) /\ required > buflen /\ UNCHANGED pc
    <3>1. PICK size \in 0..required : buflen' = Grow(size) /\ required > buflen /\ UNCHANGED pc
      BY <2>2
    <3>2. /\ buflen' \in 0..(UintModulus - 1) /\ buflen' <= 2 * required
          /\ buflen' = 0 => 2 * required >= UintModulus
      BY <1>1, <3>1, GrowBound DEF Attempt
    <3> QED
      BY <1>1, <3>1, <3>2 DEF Attempt
  <2> QED
    BY <1>1, <2>1, <2>2 DEF Attempt
<1>2. CASE LimitReached
  BY <1>2 DEF LimitReached
<1>3. CASE NoFirstByte
  BY <1>3 DEF NoFirstByte
<1>4. CASE Drift
  BY <1>4 DEF Drift
<1>5. CASE Call
  BY <1>5 DEF Call
<1>6. CASE UNCHANGED bufferVars
  BY <1>6 DEF bufferVars
<1> QED
  BY <1>1, <1>2, <1>3, <1>4, <1>5, <1>6 DEF BufferNext, Loop

(* The sizes the loop of performance_query.go computes stay uint32 values.  *)
THEOREM BufferTypeCorrect == BufferSpec => []BufferTypeOK
<1>1. Inv => BufferTypeOK
  BY DEF Inv
<1> QED
  BY <1>1, InvInit, InvNext, PTL DEF BufferSpec

(* With a size Init accepts, errBufferLimitReached is returned only for an  *)
(* answer that does not fit in half of it, whatever hints pdh.dll gave.     *)
THEOREM LimitOnlyForLarge == BufferSpec => []LimitMeansLarge
<1>1. Inv => LimitMeansLarge
  <2> SUFFICES ASSUME Inv, pc = "limit", AcceptedBufferSize(MaxBufferSize)
               PROVE  2 * asked > MaxBufferSize
    BY DEF LimitMeansLarge
  <2>1. MaxBufferSize \in Nat
    BY SizeAssumption DEF Inv, BufferTypeOK
  <2>2. maxBufferSize = MaxBufferSize /\ MaxBufferSize >= InitialBufferSize
    BY <2>1, Uint32Bound, SizeAssumption DEF Inv, AcceptedBufferSize
  <2> QED
    BY <2>1, <2>2, SizeAssumption DEF Inv, BufferTypeOK
<1> QED
  BY <1>1, InvInit, InvNext, PTL DEF BufferSpec

(* A call ends with the panic of &buf[0] only after an answer of 2^31 or    *)
(* more, for every limit, accepted by Init or not, and every hint.          *)
THEOREM PanicOnlyForHuge == BufferSpec => []PanicMeansHuge
<1>1. Inv => PanicMeansHuge
  BY DEF Inv, PanicMeansHuge, HugeAnswer
<1> QED
  BY <1>1, InvInit, InvNext, PTL DEF BufferSpec
=============================================================================
