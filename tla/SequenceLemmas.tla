--------------------------- MODULE SequenceLemmas ---------------------------
(***************************************************************************)
(* Facts about sequences that the proofs about the decoders share: the     *)
(* least element of a set of naturals, in the place of induction, and the  *)
(* places of the pieces in Joined.                                         *)
(***************************************************************************)
EXTENDS JoinedSequences, SequenceTheorems, WellFoundedInduction, TLAPS

(* A set of naturals that is not empty has a least element: the form in     *)
(* which induction is used.                                                 *)
LEMMA LeastNatural ==
    ASSUME NEW S \in SUBSET Nat, S # {}
    PROVE  \E n \in S : \A m \in S : n <= m
<1> DEFINE Less == {p \in Nat \X Nat : p[1] < p[2]}
<1>1. IsWellFoundedOn(Less, Nat)
  BY NatLessThanWellFounded, Zenon DEF OpToRel
<1>2. \A x, y \in Nat : y < x => <<y, x>> \in Less
  OBVIOUS
<1> HIDE DEF Less
<1>3. PICK n \in S : \A m \in S : <<m, n>> \notin Less
  BY <1>1, WFMin, Zenon
<1>4. \A m \in S : ~(m < n)
  BY <1>2, <1>3, Zenon
<1> QED
  BY <1>4

(* A function on 1..n is a sequence.                                        *)
LEMMA FunctionIsSeq ==
    ASSUME NEW T, NEW n \in Nat, NEW f \in [1..n -> T]
    PROVE  f \in Seq(T) /\ Len(f) = n /\ DOMAIN f = 1..n
  OBVIOUS

(* The recursive function in Joined satisfies its equation, and yields      *)
(* sequences.                                                               *)
LEMMA JoinedPrefixes ==
    ASSUME NEW S, NEW seqs \in Seq(Seq(S))
    PROVE  \E fl \in [0..Len(seqs) -> Seq(S)] :
             /\ fl[0] = <<>>
             /\ \A k \in 1..Len(seqs) : fl[k] = fl[k - 1] \o seqs[k]
             /\ Joined(seqs) = fl[Len(seqs)]
<1> DEFINE N == Len(seqs)
           Cat(k, x) == x \o seqs[k]
           Solves(g, n) == g = [k \in 0..n |-> IF k = 0 THEN <<>> ELSE Cat(k, g[k - 1])]
           Bad == {n \in 0..N : ~ \E g : Solves(g, n)}
<1>1. N \in Nat /\ \A k \in 1..N : seqs[k] \in Seq(S)
  OBVIOUS
<1>2. \A k \in 1..N : \A x \in Seq(S) : Cat(k, x) \in Seq(S)
  BY <1>1, ConcatProperties
<1>3. /\ Bad \in SUBSET Nat
      /\ \A n \in Bad : n \in 0..N /\ ~ \E g : Solves(g, n)
      /\ \A n \in 0..N : n \notin Bad => \E g : Solves(g, n)
  <2>1. \A n \in 0..N : n \in Nat
    BY <1>1
  <2> HIDE DEF N, Cat, Solves
  <2> QED
    BY <2>1
<1> HIDE DEF N, Cat, Bad
<1>4. Bad = {}
  <2> SUFFICES ASSUME Bad # {} PROVE FALSE
    OBVIOUS
  <2>1. PICK n \in Bad : \A m \in Bad : n <= m
    BY <1>3, LeastNatural
  <2>2. n \in 0..N /\ n # 0
    <3>1. Solves([k \in 0..0 |-> <<>>], 0)
      OBVIOUS
    <3> QED
      BY <1>3, <3>1, Zenon
  <2>3. n - 1 \in 0..N /\ n - 1 \notin Bad
    BY <1>1, <2>1, <2>2
  <2>4. PICK g : Solves(g, n - 1)
    BY <1>3, <2>3
  <2> DEFINE h == [k \in 0..n |-> IF k = n THEN Cat(n, g[n - 1]) ELSE g[k]]
  <2>5. Solves(h, n)
    <3>1. \A k \in 0..n : h[k] = IF k = 0 THEN <<>> ELSE Cat(k, h[k - 1])
      BY <1>1, <2>2, <2>4
    <3> QED
      BY <3>1
  <2> QED
    BY <1>3, <2>5, Zenon
<1> DEFINE fl == CHOOSE f : Solves(f, N)
<1>5. Solves(fl, N)
  <2> HIDE DEF Solves
  <2>1. N \in 0..N /\ N \notin Bad
    BY <1>1, <1>4
  <2>2. \E g : Solves(g, N)
    BY <1>3, <2>1, Zenon
  <2> QED
    BY <2>2
<1>6. Joined(seqs) = fl[N]
  BY Zenon DEF Joined, N, Cat
<1> HIDE DEF fl
<1>7. \A k \in 0..N : fl[k] = IF k = 0 THEN <<>> ELSE Cat(k, fl[k - 1])
  BY <1>5, Zenon
<1>8. DOMAIN fl = 0..N /\ fl = [k \in 0..N |-> fl[k]]
  BY <1>5
<1> HIDE DEF Solves
<1> DEFINE Wrong == {k \in 0..N : fl[k] \notin Seq(S)}
<1>9. Wrong = {}
  <2>1. /\ Wrong \in SUBSET Nat
        /\ \A k \in Wrong : k \in 0..N /\ fl[k] \notin Seq(S)
        /\ \A k \in 0..N : k \notin Wrong => fl[k] \in Seq(S)
    BY <1>1
  <2> HIDE DEF Wrong
  <2> SUFFICES ASSUME Wrong # {} PROVE FALSE
    OBVIOUS
  <2>2. PICK k \in Wrong : \A m \in Wrong : k <= m
    BY <2>1, LeastNatural
  <2>3. k \in 0..N /\ k # 0
    <3>1. 0 \in 0..N /\ <<>> \in Seq(S)
      BY <1>1
    <3>2. fl[0] \in Seq(S)
      BY <1>7, <3>1, Zenon
    <3> QED
      BY <2>1, <3>2, Zenon
  <2>4. k - 1 \in 0..N /\ k - 1 \notin Wrong /\ k \in 1..N
    BY <1>1, <2>2, <2>3
  <2>5. fl[k - 1] \in Seq(S)
    BY <2>1, <2>4
  <2> QED
    BY <1>2, <1>7, <2>1, <2>3, <2>4, <2>5
<1>10. \A k \in 0..N : fl[k] \in Seq(S)
  BY <1>9
<1>11. fl \in [0..N -> Seq(S)]
  BY <1>8, <1>10
<1>12. fl[0] = <<>> /\ \A k \in 1..N : fl[k] = Cat(k, fl[k - 1])
  BY <1>1, <1>7
<1> QED
  BY <1>6, <1>11, <1>12, Zenon DEF N, Cat

(* What a concatenation has where.                                          *)
LEMMA ConcatPlaces ==
    ASSUME NEW S, NEW s \in Seq(S), NEW t \in Seq(S)
    PROVE  /\ s \o t \in Seq(S) /\ Len(s \o t) = Len(s) + Len(t)
           /\ \A j \in 1..Len(s) : (s \o t)[j] = s[j]
           /\ \A j \in 1..Len(t) : (s \o t)[Len(s) + j] = t[j]
<1>1. Len(s) \in Nat /\ Len(t) \in Nat
  OBVIOUS
<1>2. /\ s \o t \in Seq(S) /\ Len(s \o t) = Len(s) + Len(t)
      /\ \A j \in 1..(Len(s) + Len(t)) :
           (s \o t)[j] = IF j <= Len(s) THEN s[j] ELSE t[j - Len(s)]
  BY ConcatProperties, Zenon
<1>3. \A j \in 1..Len(s) : (s \o t)[j] = s[j]
  BY <1>1, <1>2
<1>4. ASSUME NEW j \in 1..Len(t) PROVE (s \o t)[Len(s) + j] = t[j]
  <2>1. Len(s) + j \in 1..(Len(s) + Len(t)) /\ ~(Len(s) + j <= Len(s)) /\ Len(s) + j - Len(s) = j
    BY <1>1
  <2> QED
    BY <1>2, <2>1
<1> QED
  BY <1>2, <1>3, <1>4

(* What a subsequence has where.                                            *)
LEMMA SubSeqPlaces ==
    ASSUME NEW T, NEW s \in Seq(T), NEW a \in 1..(Len(s) + 1), NEW e \in (a - 1)..Len(s)
    PROVE  /\ SubSeq(s, a, e) \in Seq(T) /\ Len(SubSeq(s, a, e)) = e - a + 1
           /\ \A j \in 1..(e - a + 1) : SubSeq(s, a, e)[j] = s[a + j - 1]
<1>1. Len(s) \in Nat /\ \A j \in a..e : s[j] \in T
  OBVIOUS
<1>2. /\ SubSeq(s, a, e) \in Seq(T)
      /\ Len(SubSeq(s, a, e)) = IF a <= e THEN e - a + 1 ELSE 0
      /\ \A j \in 1..(e - a + 1) : SubSeq(s, a, e)[j] = s[a + j - 1]
  <2>1. a \in Int /\ e \in Int
    BY <1>1
  <2> QED
    BY <1>1, <2>1, SubSeqProperties
<1> QED
  BY <1>1, <1>2

(* What is left of a sequence after its first o elements.                   *)
LEMMA RestPlaces ==
    ASSUME NEW T, NEW s \in Seq(T), NEW o \in 0..Len(s)
    PROVE  /\ SubSeq(s, o + 1, Len(s)) \in Seq(T) /\ Len(SubSeq(s, o + 1, Len(s))) = Len(s) - o
           /\ \A j \in 1..(Len(s) - o) : SubSeq(s, o + 1, Len(s))[j] = s[o + j]
<1> DEFINE L == Len(s)
           a == o + 1
           r == SubSeq(s, a, L)
<1>1. L \in Nat /\ o \in Nat /\ a \in 1..(Len(s) + 1) /\ L \in (a - 1)..Len(s) /\ a = o + 1
  OBVIOUS
<1> HIDE DEF L, a
<1>2. /\ r \in Seq(T) /\ Len(r) = L - a + 1
      /\ \A j \in 1..(L - a + 1) : r[j] = s[a + j - 1]
  BY <1>1, SubSeqPlaces
<1>3. L - a + 1 = L - o /\ \A j \in 1..(L - o) : a + j - 1 = o + j
  BY <1>1
<1> HIDE DEF r
<1>4. /\ r \in Seq(T) /\ Len(r) = L - o
      /\ \A j \in 1..(L - o) : r[j] = s[o + j]
  BY <1>2, <1>3
<1> QED
  BY <1>4, Zenon DEF r, L, a

(* A piece stays where it is when others are added after it.                *)
PrefixesOf(N, off, len, fl, seqs) ==
    /\ N \in Nat /\ off \in [0..N -> Nat] /\ len \in [1..N -> Nat]
    /\ \A k \in 1..N : off[k] = off[k - 1] + len[k]
    /\ \A k \in 1..N : \A j \in 1..off[k - 1] : fl[k][j] = fl[k - 1][j]
    /\ \A k \in 1..N : \A j \in 1..len[k] : fl[k][off[k - 1] + j] = seqs[k][j]

InPlace(N, off, len, fl, seqs) ==
    \A k \in 1..N : \A j \in 1..len[k] :
      off[k - 1] + j \in 1..off[N] /\ fl[N][off[k - 1] + j] = seqs[k][j]

(* What is put behind a piece does not move it.                             *)
LEMMA PiecesStay ==
    ASSUME NEW N, NEW off, NEW len, NEW fl, NEW seqs, PrefixesOf(N, off, len, fl, seqs)
    PROVE  InPlace(N, off, len, fl, seqs)
<1> USE DEF PrefixesOf
<1> SUFFICES ASSUME NEW k \in 1..N, NEW j \in 1..len[k]
             PROVE  off[k - 1] + j \in 1..off[N] /\ fl[N][off[k - 1] + j] = seqs[k][j]
  BY DEF InPlace
<1> DEFINE at == off[k - 1] + j
           Here(n) == at \in 1..off[n] /\ fl[n][at] = seqs[k][j]
           Bad == {n \in k..N : ~Here(n)}
<1>1. Here(k)
  <2>1. off[k - 1] \in Nat /\ off[k] = off[k - 1] + len[k] /\ len[k] \in Nat
    OBVIOUS
  <2>2. at \in 1..off[k]
    BY <2>1
  <2> QED
    BY <2>2
<1>2. at \in Nat
  OBVIOUS
<1> HIDE DEF at
<1>3. ASSUME NEW n \in (k + 1)..N, Here(n - 1) PROVE Here(n)
  <2>1. n \in 1..N /\ n - 1 \in 0..N
    OBVIOUS
  <2>2. off[n] = off[n - 1] + len[n] /\ off[n - 1] \in Nat /\ len[n] \in Nat
    BY <2>1
  <2>3. at \in 1..off[n - 1] /\ fl[n - 1][at] = seqs[k][j]
    BY <1>3
  <2>4. at \in 1..off[n]
    BY ONLY <2>2, <2>3, <1>2
  <2>5. fl[n][at] = fl[n - 1][at]
    BY <2>1, <2>3, Zenon
  <2> QED
    BY <2>3, <2>4, <2>5
<1> HIDE DEF Here
<1>4. /\ Bad \in SUBSET Nat
      /\ \A n \in Bad : n \in k..N /\ ~Here(n)
      /\ \A n \in k..N : n \notin Bad => Here(n)
  <2>1. k..N \in SUBSET Nat
    BY ONLY N \in Nat, k \in 1..N
  <2> QED
    BY <2>1, Zenon
<1> HIDE DEF Bad
<1>5. Bad = {}
  <2> SUFFICES ASSUME Bad # {} PROVE FALSE
    OBVIOUS
  <2>1. PICK n \in Bad : \A n2 \in Bad : n <= n2
    BY <1>4, LeastNatural, Zenon
  <2>2. n \in k..N /\ n # k
    BY <1>1, <1>4, Zenon
  <2>3. n - 1 \in k..N /\ n - 1 \notin Bad /\ n \in (k + 1)..N
    BY <2>1, <2>2
  <2> QED
    BY <1>3, <1>4, <2>3
<1>6. Here(N)
  BY <1>4, <1>5
<1> QED
  BY <1>6 DEF Here, at

(* Where the pieces of Joined begin, and that they are there.           *)
PieceOffsets(seqs, off) ==
    /\ off \in [0..Len(seqs) -> Nat]
    /\ off[0] = 0
    /\ \A k \in 1..Len(seqs) : off[k] = off[k - 1] + Len(seqs[k])
    /\ Len(Joined(seqs)) = off[Len(seqs)]
    /\ \A k \in 1..Len(seqs) : \A j \in 1..Len(seqs[k]) :
         /\ off[k - 1] + j \in 1..off[Len(seqs)]
         /\ Joined(seqs)[off[k - 1] + j] = seqs[k][j]

(* Joined puts the pieces one after the other.                              *)
LEMMA JoinedPieces ==
    ASSUME NEW S, NEW seqs \in Seq(Seq(S))
    PROVE  Joined(seqs) \in Seq(S) /\ \E off : PieceOffsets(seqs, off)
<1> DEFINE N == Len(seqs)
<1>1. N \in Nat /\ \A k \in 1..N : seqs[k] \in Seq(S) /\ Len(seqs[k]) \in Nat
  OBVIOUS
<1>2. PICK fl \in [0..N -> Seq(S)] :
        /\ fl[0] = <<>>
        /\ \A k \in 1..N : fl[k] = fl[k - 1] \o seqs[k]
        /\ Joined(seqs) = fl[N]
  BY JoinedPrefixes, Zenon
<1> DEFINE off == [k \in 0..N |-> Len(fl[k])]
           len == [k \in 1..N |-> Len(seqs[k])]
<1>3. \A k \in 0..N : fl[k] \in Seq(S) /\ off[k] = Len(fl[k]) /\ Len(fl[k]) \in Nat
  <2>1. \A k \in 0..N : fl[k] \in Seq(S)
    BY <1>2
  <2>2. \A x \in Seq(S) : Len(x) \in Nat
    OBVIOUS
  <2> HIDE DEF N
  <2> QED
    BY <2>1, <2>2
<1>4. off \in [0..N -> Nat] /\ off[0] = 0
  BY <1>1, <1>2, <1>3
<1>5. len \in [1..N -> Nat] /\ \A k \in 1..N : len[k] = Len(seqs[k])
  BY <1>1
<1> HIDE DEF off, len, N
<1>6. ASSUME NEW k \in 1..N
      PROVE  /\ off[k] = off[k - 1] + Len(seqs[k])
             /\ \A j \in 1..off[k - 1] : fl[k][j] = fl[k - 1][j]
             /\ \A j \in 1..Len(seqs[k]) : fl[k][off[k - 1] + j] = seqs[k][j]
  <2>1. k - 1 \in 0..N /\ k \in 0..N
    BY <1>1
  <2>2. /\ fl[k - 1] \in Seq(S) /\ fl[k] = fl[k - 1] \o seqs[k] /\ seqs[k] \in Seq(S)
        /\ off[k] = Len(fl[k]) /\ off[k - 1] = Len(fl[k - 1])
    BY <1>1, <1>2, <1>3, <2>1, Zenon
  <2> DEFINE a == fl[k - 1]
             b == seqs[k]
  <2>3. a \in Seq(S) /\ b \in Seq(S)
    BY <2>2
  <2>4. /\ fl[k] = a \o b /\ off[k] = Len(a \o b) /\ off[k - 1] = Len(a)
        /\ a = fl[k - 1] /\ b = seqs[k]
    BY <2>2
  <2> HIDE DEF a, b
  <2>5. /\ Len(a \o b) = Len(a) + Len(b)
        /\ \A j \in 1..Len(a) : (a \o b)[j] = a[j]
        /\ \A j \in 1..Len(b) : (a \o b)[Len(a) + j] = b[j]
    BY ONLY <2>3, ConcatPlaces
  <2> QED
    BY ONLY <2>4, <2>5, Zenon
<1>7. \A k \in 1..N : \A j \in 1..Len(seqs[k]) :
        off[k - 1] + j \in 1..off[N] /\ fl[N][off[k - 1] + j] = seqs[k][j]
  <2>1. PrefixesOf(N, off, len, fl, seqs)
    BY <1>1, <1>4, <1>5, <1>6, Zenon DEF PrefixesOf
  <2>2. InPlace(N, off, len, fl, seqs)
    BY <2>1, PiecesStay, Zenon
  <2> QED
    BY <1>5, <2>2 DEF InPlace
<1>8. Joined(seqs) \in Seq(S) /\ Len(Joined(seqs)) = off[N]
  BY <1>1, <1>2, <1>3
<1>9. PieceOffsets(seqs, off)
  <2>1. \A k \in 1..N : off[k] = off[k - 1] + Len(seqs[k])
    BY <1>6
  <2>2. \A k \in 1..N : \A j \in 1..Len(seqs[k]) :
          off[k - 1] + j \in 1..off[N] /\ Joined(seqs)[off[k - 1] + j] = seqs[k][j]
    BY <1>2, <1>7
  <2> QED
    BY <1>4, <1>8, <2>1, <2>2, Zenon DEF PieceOffsets, N
<1> QED
  BY <1>8, <1>9

(* No pieces give the empty sequence.                                       *)
LEMMA JoinedOfNone == Joined(<<>>) = <<>>
<1>1. <<>> \in Seq(Seq({})) /\ Len(<<>>) = 0
  OBVIOUS
<1>2. PICK fl \in [0..Len(<<>>) -> Seq({})] :
        fl[0] = <<>> /\ Joined(<<>>) = fl[Len(<<>>)]
  BY <1>1, JoinedPrefixes, Zenon
<1> QED
  BY <1>1, <1>2, Zenon

(* Pieces of at most one element, but for a first one of up to three, begin *)
(* at most two places later than they are counted.                          *)
LEMMA OffsetsAtMost ==
    ASSUME NEW N \in Nat, NEW off \in [0..N -> Nat], off[0] = 0,
           \A k \in 1..N : off[k] <= off[k - 1] + 1 \/ (k = 1 /\ off[k] <= 3)
    PROVE  \A k \in 0..N : off[k] <= k + 2
<1> DEFINE Bad == {k \in 0..N : ~(off[k] <= k + 2)}
<1>1. /\ Bad \in SUBSET Nat /\ \A k \in Bad : k \in 0..N /\ ~(off[k] <= k + 2)
      /\ \A k \in 0..N : k \notin Bad => off[k] <= k + 2
  OBVIOUS
<1> HIDE DEF Bad
<1> SUFFICES ASSUME Bad # {} PROVE FALSE
  BY <1>1
<1>2. PICK k \in Bad : \A m \in Bad : k <= m
  BY <1>1, LeastNatural, Zenon
<1>3. k \in 1..N
  BY <1>1
<1>4. /\ k - 1 \in 0..N /\ off[k - 1] <= k - 1 + 2
      /\ off[k] <= off[k - 1] + 1 \/ (k = 1 /\ off[k] <= 3)
  BY <1>1, <1>2, <1>3
<1>5. off[k] \in Nat /\ off[k - 1] \in Nat /\ ~(off[k] <= k + 2)
  BY <1>1, <1>3, <1>4
<1> QED
  BY <1>3, <1>4, <1>5

(* Pieces of length one begin at every place.                               *)
LEMMA OffsetsExact ==
    ASSUME NEW N \in Nat, NEW off \in [0..N -> Nat], off[0] = 0,
           \A k \in 1..N : off[k] = off[k - 1] + 1
    PROVE  \A k \in 0..N : off[k] = k
<1> DEFINE Bad == {k \in 0..N : off[k] # k}
<1>1. /\ Bad \in SUBSET Nat /\ \A k \in Bad : k \in 0..N /\ off[k] # k
      /\ \A k \in 0..N : k \notin Bad => off[k] = k
  OBVIOUS
<1> HIDE DEF Bad
<1> SUFFICES ASSUME Bad # {} PROVE FALSE
  BY <1>1
<1>2. PICK k \in Bad : \A m \in Bad : k <= m
  BY <1>1, LeastNatural
<1>3. k \in 1..N
  BY <1>1
<1>4. k - 1 \in 0..N /\ off[k - 1] = k - 1 /\ off[k] = off[k - 1] + 1
  BY <1>1, <1>2, <1>3
<1> QED
  BY <1>1, <1>3, <1>4

(* They give at most two elements more than there are pieces.               *)
LEMMA JoinedAtMost ==
    ASSUME NEW S, NEW seqs \in Seq(Seq(S)),
           \A k \in 1..Len(seqs) : Len(seqs[k]) <= 1 \/ (k = 1 /\ Len(seqs[k]) <= 3)
    PROVE  Joined(seqs) \in Seq(S) /\ Len(Joined(seqs)) <= Len(seqs) + 2
<1> DEFINE N == Len(seqs)
<1>1. PICK off : PieceOffsets(seqs, off)
  BY JoinedPieces
<1>2. /\ N \in Nat /\ off \in [0..N -> Nat] /\ off[0] = 0 /\ Len(Joined(seqs)) = off[N]
      /\ \A k \in 1..N : off[k] = off[k - 1] + Len(seqs[k])
  BY <1>1 DEF PieceOffsets
<1>3. \A k \in 1..N : /\ Len(seqs[k]) \in Nat
                      /\ Len(seqs[k]) <= 1 \/ (k = 1 /\ Len(seqs[k]) <= 3)
  OBVIOUS
<1> HIDE DEF N
<1>4. \A k \in 1..N : off[k] <= off[k - 1] + 1 \/ (k = 1 /\ off[k] <= 3)
  <2> TAKE k \in 1..N
  <2>1. k - 1 \in 0..N /\ off[k - 1] \in Nat
    BY <1>2
  <2>2. /\ off[k] = off[k - 1] + Len(seqs[k]) /\ Len(seqs[k]) \in Nat
        /\ Len(seqs[k]) <= 1 \/ (k = 1 /\ Len(seqs[k]) <= 3)
    BY <1>2, <1>3
  <2>3. k = 1 => off[k - 1] = 0
    BY <1>2
  <2> QED
    BY ONLY <2>1, <2>2, <2>3
<1>5. off[N] <= N + 2
  <2>1. \A k \in 0..N : off[k] <= k + 2
    BY ONLY <1>2, <1>4, OffsetsAtMost, Zenon
  <2> QED
    BY <1>2, <2>1
<1> QED
  BY <1>2, <1>5, JoinedPieces DEF N

(* Pieces of length one give the sequence of what is in them.               *)
LEMMA JoinedSingles ==
    ASSUME NEW S, NEW s \in Seq(S), NEW seqs,
           seqs = [k \in DOMAIN s |-> <<s[k]>>]
    PROVE  Joined(seqs) = s
<1> DEFINE N == Len(s)
<1>0. N \in Nat /\ DOMAIN s = 1..N /\ \A k \in 1..N : s[k] \in S
  OBVIOUS
<1>1. /\ seqs \in Seq(Seq(S)) /\ Len(seqs) = N /\ N \in Nat
      /\ \A k \in 1..N : Len(seqs[k]) = 1 /\ seqs[k][1] = s[k]
  <2> HIDE DEF N
  <2>1. \A k \in 1..N : <<s[k]>> \in Seq(S) /\ Len(<<s[k]>>) = 1 /\ <<s[k]>>[1] = s[k]
    BY <1>0
  <2>2. seqs \in [1..N -> Seq(S)] /\ \A k \in 1..N : seqs[k] = <<s[k]>>
    BY <1>0, <2>1
  <2> QED
    BY <1>0, <2>1, <2>2, FunctionIsSeq
<1>2. PICK off : PieceOffsets(seqs, off)
  BY <1>1, JoinedPieces, Zenon
<1>3. /\ off \in [0..N -> Nat] /\ off[0] = 0 /\ Len(Joined(seqs)) = off[N]
      /\ \A k \in 1..N : off[k] = off[k - 1] + 1
      /\ \A k \in 1..N : \A j \in 1..Len(seqs[k]) :
           Joined(seqs)[off[k - 1] + j] = seqs[k][j]
  <2> HIDE DEF N
  <2>1. /\ off \in [0..N -> Nat] /\ off[0] = 0 /\ Len(Joined(seqs)) = off[N]
        /\ \A k \in 1..N : off[k] = off[k - 1] + Len(seqs[k])
        /\ \A k \in 1..N : \A j \in 1..Len(seqs[k]) :
             Joined(seqs)[off[k - 1] + j] = seqs[k][j]
    BY ONLY <1>1, <1>2, Zenon DEF PieceOffsets
  <2> QED
    BY ONLY <1>1, <2>1, Zenon
<1> HIDE DEF N
<1>4. \A k \in 0..N : off[k] = k
  BY ONLY <1>1, <1>3, OffsetsExact, Zenon
<1>5. \A k \in 1..N : Joined(seqs)[k] = s[k]
  <2> TAKE k \in 1..N
  <2>1. off[k - 1] = k - 1 /\ off[k - 1] + 1 = k
    BY <1>1, <1>4
  <2>2. Joined(seqs)[off[k - 1] + 1] = seqs[k][1]
    <3>1. 1 \in 1..Len(seqs[k])
      BY <1>1
    <3> QED
      BY <1>3, <3>1, Zenon
  <2> QED
    BY <1>1, <2>1, <2>2
<1>6. Joined(seqs) \in Seq(S) /\ Len(Joined(seqs)) = Len(s)
  <2>1. Joined(seqs) \in Seq(S)
    BY <1>1, JoinedPieces, Zenon
  <2>2. off[N] = N
    BY <1>1, <1>4
  <2> QED
    BY <1>3, <2>1, <2>2 DEF N
<1> QED
  BY <1>5, <1>6, SeqEqual, Zenon DEF N
=============================================================================
