----------------------------- MODULE PathProofs -----------------------------
(***************************************************************************)
(* Proofs about the way of the paths of an expansion: how far the walk     *)
(* over the buffer goes, and that what pdh.dll found arrives in addItem,   *)
(* for lists of any length and names of any length.                        *)
(***************************************************************************)
EXTENDS ExpandedPaths, SequenceLemmas, CounterPathProofs

(* The units of a buffer.                                                   *)
Unit == Symbol \cup {NUL, Low}

(* syscall.UTF16ToString makes at most two runes more than there are units, *)
(* from an unpaired surrogate at the beginning.                             *)
LEMMA CharactersAtMost ==
    ASSUME NEW T, NEW units \in Seq(T)
    PROVE  /\ Characters(units) \in Seq(T \cup {Lone})
           /\ Len(Characters(units)) <= Len(units) + 2
<1> DEFINE N == Len(units)
           seqs == [k \in DOMAIN units |->
                      IF units[k] # Low THEN <<units[k]>>
                      ELSE IF k = 1 THEN <<Lone, Lone, Lone>> ELSE <<>>]
           R == T \cup {Lone}
<1>1. N \in Nat /\ DOMAIN units = 1..N /\ \A k \in 1..N : units[k] \in T
  OBVIOUS
<1>2. \A x \in R : <<x>> \in Seq(R) /\ Len(<<x>>) <= 1
  OBVIOUS
<1>3. /\ <<>> \in Seq(R) /\ Len(<<>>) <= 1
      /\ <<Lone, Lone, Lone>> \in Seq(R) /\ Len(<<Lone, Lone, Lone>>) <= 3
  OBVIOUS
<1>4. \A k \in 1..N : seqs[k] \in Seq(R)
  <2> HIDE DEF N
  <2> QED
    BY <1>1, <1>2, <1>3, Zenon
<1>a. \A k \in 1..N : Len(seqs[k]) <= 1 \/ (k = 1 /\ Len(seqs[k]) <= 3)
  <2> HIDE DEF N
  <2> QED
    BY <1>1, <1>2, <1>3, Zenon
<1>5. seqs \in [1..N -> Seq(R)]
  <2>1. seqs = [k \in 1..N |-> seqs[k]]
    BY <1>1, ZenonT(30)
  <2> HIDE DEF seqs, N
  <2> QED
    BY <1>4, <2>1, ZenonT(30)
<1> HIDE DEF N, seqs, R
<1>6. seqs \in Seq(Seq(R)) /\ Len(seqs) = N
  BY <1>1, <1>5, FunctionIsSeq, ZenonT(30)
<1>7. Joined(seqs) \in Seq(R) /\ Len(Joined(seqs)) <= N + 2
  BY <1>a, <1>6, JoinedAtMost, ZenonT(30)
<1> QED
  BY <1>7, Zenon DEF Characters, seqs, N, R

(* Without a unit that is the second of a pair, the units are the string.   *)
LEMMA CharactersAreUnits ==
    ASSUME NEW T, NEW units \in Seq(T), \A k \in 1..Len(units) : units[k] # Low
    PROVE  Characters(units) = units
<1> DEFINE seqs == [k \in DOMAIN units |->
                      IF units[k] # Low THEN <<units[k]>>
                      ELSE IF k = 1 THEN <<Lone, Lone, Lone>> ELSE <<>>]
<1>1. DOMAIN units = 1..Len(units)
  OBVIOUS
<1>2. seqs = [k \in DOMAIN units |-> <<units[k]>>]
  BY <1>1, Zenon
<1> HIDE DEF seqs
<1>3. Joined(seqs) = units
  BY <1>2, JoinedSingles, ZenonT(30)
<1> QED
  BY <1>3, ZenonT(30) DEF Characters, seqs

(* The first NUL ends the string.                                           *)
LEMMA FirstNul ==
    ASSUME NEW T, NEW units \in Seq(T), NEW z \in 1..Len(units), units[z] = NUL,
           \A k \in 1..(z - 1) : units[k] # NUL
    PROVE  utf16PtrToString(units) = Characters(SubSeq(units, 1, z - 1))
<1> DEFINE I == {k \in DOMAIN units : units[k] = NUL}
<1>1. Len(units) \in Nat /\ z \in I /\ I \in SUBSET Int /\ \A k \in I : z <= k
  OBVIOUS
<1> HIDE DEF I
<1>2. Min(I) = z
  <2>1. \A x \in I : (\A y \in I : x <= y) => x = z
    BY <1>1, SMTT(30)
  <2> QED
    BY <1>1, <2>1, Zenon DEF Min
<1> QED
  BY <1>2, Zenon DEF utf16PtrToString, I

(* A string without units has no characters.                                *)
LEMMA NoCharacters == Characters(<<>>) = <<>>
<1>1. <<>> \in Seq(Unit) /\ \A k \in 1..Len(<<>>) : <<>>[k] # Low
  BY SMTT(30)
<1> QED
  BY ONLY <1>1, CharactersAreUnits, Zenon

(* A list that takes the first E units of a buffer: it ends with an empty   *)
(* string after the NUL of the last one, and zeros follow.                  *)
EndsList(b, E) ==
    /\ b \in Seq(Unit) /\ E \in 1..Len(b)
    /\ \A k \in E..Len(b) : b[k] = NUL
    /\ E = 1 \/ b[E - 1] = NUL

(* From a place in such a buffer the next start is at most two units behind *)
(* the list, and in the list if the string has no second unit of a pair.    *)
LEMMA WalkStays ==
    ASSUME NEW b, NEW E, EndsList(b, E), NEW start \in 0..(Len(b) - 1), NEW line,
           line = utf16PtrToString(SubSeq(b, start + 1, Len(b))), line # <<>>
    PROVE  /\ start + Len(line) + 1 \in 0..(E + 1)
           /\ (\A k \in 1..Len(b) : b[k] # Low) => start + Len(line) + 1 \in 0..(E - 1)
<1> DEFINE L == Len(b)
           rest == SubSeq(b, start + 1, Len(b))
           I == {k \in 1..Len(rest) : rest[k] = NUL}
<1>1. /\ L \in Nat /\ E \in Nat /\ 1 <= E /\ E <= L
      /\ \A k \in E..L : b[k] = NUL
      /\ E = 1 \/ b[E - 1] = NUL
  BY DEF EndsList
<1>2. /\ rest \in Seq(Unit) /\ Len(rest) = L - start
      /\ \A j \in 1..(L - start) : rest[j] = b[start + j]
  <2>1. b \in Seq(Unit) /\ start \in 0..L
    BY <1>1, SMTT(30) DEF EndsList
  <2> QED
    BY ONLY <2>1, RestPlaces, ZenonT(30)
<1>a. start \in Nat /\ start <= L - 1
  BY <1>1, SMTT(30)
<1> HIDE DEF rest, L
<1>3. L - start \in 1..Len(rest) /\ rest[L - start] = NUL
  <2>1. L - start \in 1..(L - start) /\ start + (L - start) = L /\ L \in E..L
    BY <1>1, <1>a, SMTT(30)
  <2> QED
    BY <1>1, <1>2, <2>1, ZenonT(30)
<1>4. I \in SUBSET Nat /\ I # {} /\ \A k \in 1..Len(rest) : k \in I <=> rest[k] = NUL
  BY <1>3, <1>2, SMTT(30)
<1>5. \A k \in I : k \in 1..Len(rest) /\ rest[k] = NUL
  BY ZenonT(30)
<1> HIDE DEF I
<1>6. PICK z \in I : \A k \in I : z <= k
  BY <1>4, LeastNatural, ZenonT(30)
<1>7. /\ z \in 1..Len(rest) /\ rest[z] = NUL
      /\ \A k \in 1..(z - 1) : rest[k] # NUL
  <2>1. z \in 1..Len(rest) /\ rest[z] = NUL
    BY <1>5, ZenonT(30)
  <2>2. ASSUME NEW k \in 1..(z - 1), rest[k] = NUL PROVE FALSE
    <3>1. k \in 1..Len(rest) /\ k < z
      BY <2>1, <1>1, <1>2, SMTT(30)
    <3>2. k \in I
      BY <1>4, <2>2, <3>1, ZenonT(30)
    <3> QED
      BY <1>6, <2>1, <3>1, <3>2, SMTT(30)
  <2> QED
    BY <2>1, <2>2, ZenonT(30)
<1> DEFINE units == SubSeq(rest, 1, z - 1)
<1>8. line = Characters(units)
  BY <1>2, <1>7, FirstNul, Zenon DEF rest, L
<1>9. /\ units \in Seq(Unit) /\ Len(units) = z - 1
      /\ \A j \in 1..(z - 1) : units[j] = rest[j]
  <2>1. 1 \in 1..(Len(rest) + 1) /\ z - 1 \in (1 - 1)..Len(rest)
    BY <1>1, <1>2, <1>7, SMTT(30)
  <2>2. /\ units \in Seq(Unit)
        /\ Len(units) = z - 1 - 1 + 1
        /\ \A j \in 1..(z - 1 - 1 + 1) : units[j] = rest[1 + j - 1]
    BY ONLY <1>2, <2>1, SubSeqPlaces, SMTT(30)
  <2>3. z - 1 - 1 + 1 = z - 1 /\ \A j \in 1..(z - 1) : 1 + j - 1 = j
    BY <1>7, SMTT(30)
  <2> HIDE DEF units
  <2> QED
    BY <2>2, <2>3, ZenonT(30)
<1> HIDE DEF units
<1>10. /\ Len(line) \in Nat /\ Len(line) <= z - 1 + 2
       /\ (\A k \in 1..L : b[k] # Low) => Len(line) = z - 1
  <2>1. line \in Seq(Unit \cup {Lone}) /\ Len(line) <= z - 1 + 2
    BY <1>8, <1>9, CharactersAtMost, Zenon
  <2>2. ASSUME \A k \in 1..L : b[k] # Low PROVE Len(line) = z - 1
    <3>1. ASSUME NEW j \in 1..(z - 1) PROVE units[j] # Low
      <4>1. j \in 1..(L - start) /\ start + j \in 1..L
        BY <1>1, <1>2, <1>7, <1>a, SMTT(30)
      <4> QED
        BY <1>2, <1>9, <2>2, <4>1, Zenon
    <3>2. Characters(units) = units
      BY <1>9, <3>1, CharactersAreUnits, Zenon
    <3> QED
      BY <1>8, <1>9, <3>2, Zenon
  <2> QED
    BY <2>1, <2>2, SMTT(30)
<1>11. z # 1
  <2> SUFFICES ASSUME z = 1 PROVE FALSE
    BY ZenonT(30)
  <2>1. units = <<>>
    BY <1>9, SMTT(30)
  <2> QED
    BY <1>8, <2>1, NoCharacters, Zenon
<1>12. start + z <= E - 1
  <2>1. rest[1] # NUL /\ rest[1] = b[start + 1] /\ start + 1 \in 1..L
    BY <1>1, <1>2, <1>7, <1>11, <1>a, SMTT(30)
  <2>2. start + 1 < E - 1 /\ b[E - 1] = NUL
    <3>1. start + 1 \notin E..L
      BY <1>1, <2>1, Zenon
    <3>2. start + 1 < E
      BY <1>1, <1>a, <2>1, <3>1, SMTT(30)
    <3>3. E # 1 /\ b[E - 1] = NUL
      BY <1>1, <1>a, <3>2, SMTT(30)
    <3>4. start + 1 # E - 1
      BY <2>1, <3>3, Zenon
    <3> QED
      BY <1>1, <1>a, <3>2, <3>3, <3>4, SMTT(30)
  <2>3. E - 1 - start \in 1..(L - start) /\ start + (E - 1 - start) = E - 1
    BY <1>1, <1>a, <2>2, SMTT(30)
  <2>4. rest[E - 1 - start] = NUL /\ E - 1 - start \in 1..Len(rest)
    BY <1>2, <2>2, <2>3, ZenonT(30)
  <2>5. E - 1 - start \in I
    BY <1>4, <2>4, ZenonT(30)
  <2>6. z <= E - 1 - start
    BY <1>6, <2>5, ZenonT(30)
  <2> QED
    BY <1>1, <1>7, <1>a, <2>6, SMTT(30)
<1>13. /\ start + Len(line) + 1 \in 0..(E + 1)
       /\ (\A k \in 1..L : b[k] # Low) => start + Len(line) + 1 \in 0..(E - 1)
  <2>1. z \in Nat
    BY <1>7, SMTT(30)
  <2>2. start + Len(line) + 1 \in 0..(E + 1)
    BY <1>1, <1>a, <1>10, <1>12, <2>1, SMTT(30)
  <2>3. ASSUME \A k \in 1..L : b[k] # Low PROVE start + Len(line) + 1 \in 0..(E - 1)
    <3>1. Len(line) = z - 1
      BY <1>10, <2>3, Zenon
    <3> QED
      BY ONLY <1>1, <1>a, <1>12, <2>1, <3>1, SMTT(30)
  <2> QED
    BY <2>2, <2>3, ZenonT(30)
<1> QED
  BY <1>13, ZenonT(30) DEF L

(* The units of a string are units of a buffer.                             *)
LEMMA UnitsAreUnits ==
    ASSUME NEW s \in Seq(Symbol)
    PROVE  Units(s) \in Seq(Unit)
<1> DEFINE seqs == [k \in DOMAIN s |-> IF s[k] \in TwoUnits THEN <<s[k], Low>> ELSE <<s[k]>>]
<1>1. Len(s) \in Nat /\ DOMAIN s = 1..Len(s) /\ \A k \in 1..Len(s) : s[k] \in Unit
  BY DEF Unit
<1>2. \A x \in Unit : <<x>> \in Seq(Unit) /\ <<x, Low>> \in Seq(Unit)
  BY DEF Unit
<1>3. seqs \in [1..Len(s) -> Seq(Unit)]
  BY <1>1, <1>2, ZenonT(30)
<1> HIDE DEF seqs
<1>4. seqs \in Seq(Seq(Unit))
  BY <1>1, <1>3, FunctionIsSeq, ZenonT(30)
<1>5. Joined(seqs) \in Seq(Unit)
  BY <1>4, JoinedPieces, ZenonT(30)
<1> QED
  BY <1>5, ZenonT(30) DEF Units, seqs

Pieces(list) == [k \in DOMAIN list |-> Append(Units(list[k]), NUL)]

(* Every string of a list ends in a NUL.                                    *)
LEMMA PiecesOfList ==
    ASSUME NEW list \in Seq(Seq(Symbol))
    PROVE  /\ Pieces(list) \in Seq(Seq(Unit)) /\ Len(Pieces(list)) = Len(list)
           /\ \A k \in 1..Len(list) :
                /\ Pieces(list)[k] = Append(Units(list[k]), NUL)
                /\ Len(Pieces(list)[k]) = Len(Units(list[k])) + 1
                /\ Pieces(list)[k][Len(Units(list[k])) + 1] = NUL
                /\ Units(list[k]) \in Seq(Unit)
                /\ \A j \in 1..Len(Units(list[k])) : Pieces(list)[k][j] = Units(list[k])[j]
<1> DEFINE N == Len(list)
<1>1. N \in Nat /\ DOMAIN list = 1..N /\ \A k \in 1..N : Units(list[k]) \in Seq(Unit)
  BY UnitsAreUnits
<1> HIDE DEF N
<1>2. \A u \in Seq(Unit) :
        /\ Append(u, NUL) \in Seq(Unit) /\ Len(Append(u, NUL)) = Len(u) + 1
        /\ Append(u, NUL)[Len(u) + 1] = NUL
        /\ \A j \in 1..Len(u) : Append(u, NUL)[j] = u[j]
  <2>1. NUL \in Unit
    BY DEF Unit
  <2> QED
    BY <2>1, AppendProperties
<1>3. /\ \A k \in 1..N : Pieces(list)[k] = Append(Units(list[k]), NUL)
      /\ Pieces(list) \in [1..N -> Seq(Unit)]
  BY <1>1, <1>2 DEF Pieces
<1>4. Pieces(list) \in Seq(Seq(Unit)) /\ Len(Pieces(list)) = N
  BY <1>1, <1>3, FunctionIsSeq, ZenonT(30)
<1> QED
  BY <1>1, <1>2, <1>3, <1>4, Zenon DEF N

OffsetsOf(list) == CHOOSE off : PieceOffsets(Pieces(list), off)

(* Where the strings of a list are in the buffer.                           *)
Listed(list, b, off) ==
    /\ off \in [0..Len(list) -> Nat] /\ off[0] = 0 /\ Len(list) \in Nat
    /\ b \in Seq(Unit) /\ off[Len(list)] + 1 \in 1..Len(b) /\ b[off[Len(list)] + 1] = NUL
    /\ \A k \in 1..Len(list) :
         /\ off[k] = off[k - 1] + Len(Pieces(list)[k]) /\ off[k] < Len(b)
         /\ \A j \in 1..Len(Pieces(list)[k]) :
              /\ off[k - 1] + j \in 1..Len(b)
              /\ b[off[k - 1] + j] = Pieces(list)[k][j]

(* Encode puts the strings one after the other.                             *)
LEMMA EncodePlaces ==
    ASSUME NEW list \in Seq(Seq(Symbol))
    PROVE  /\ Listed(list, Encode(list), OffsetsOf(list))
           /\ Len(Encode(list)) = OffsetsOf(list)[Len(list)] + 1
<1> DEFINE off == OffsetsOf(list)
           b == Encode(list)
<1> DEFINE F == Joined(Pieces(list))
           N == Len(list)
           r == F \o <<NUL>>
           P(k) == Len(Pieces(list)[k])
<1>1. PieceOffsets(Pieces(list), off)
  <2>1. \E o : PieceOffsets(Pieces(list), o)
    BY PiecesOfList, JoinedPieces, ZenonT(30)
  <2> QED
    BY <2>1, Zenon DEF OffsetsOf
<1> HIDE DEF off
<1>2. F \in Seq(Unit) /\ <<NUL>> \in Seq(Unit)
  <2>1. F \in Seq(Unit)
    BY PiecesOfList, JoinedPieces, ZenonT(30)
  <2> QED
    BY <2>1, SMTT(30) DEF Unit
<1>3. /\ N \in Nat /\ \A k \in 1..N : P(k) \in Nat /\ P(k) >= 1
  <2>1. /\ N \in Nat
        /\ \A k \in 1..N : P(k) = Len(Units(list[k])) + 1 /\ Units(list[k]) \in Seq(Unit)
    BY PiecesOfList, LenProperties, Zenon
  <2>2. \A k \in 1..N : Len(Units(list[k])) \in Nat
    BY <2>1, LenProperties, Zenon
  <2> HIDE DEF N, P
  <2> QED
    BY ONLY <2>1, <2>2, SMTT(30)
<1>4. /\ off \in [0..N -> Nat] /\ off[0] = 0 /\ Len(F) = off[N]
      /\ \A k \in 1..N : off[k] = off[k - 1] + P(k)
      /\ \A k \in 1..N : \A j \in 1..P(k) :
           off[k - 1] + j \in 1..off[N] /\ F[off[k - 1] + j] = Pieces(list)[k][j]
  <2>1. Len(Pieces(list)) = N
    BY PiecesOfList, ZenonT(30)
  <2> QED
    BY <1>1, <2>1, Zenon DEF PieceOffsets
<1> HIDE DEF F, N, P
<1>5. /\ r \in Seq(Unit) /\ Len(r) = off[N] + 1 /\ off[N] \in Nat
      /\ \A j \in 1..off[N] : r[j] = F[j]
      /\ r[off[N] + 1] = NUL
  <2>1. /\ r \in Seq(Unit) /\ Len(r) = Len(F) + Len(<<NUL>>)
        /\ \A j \in 1..Len(F) : r[j] = F[j]
        /\ \A j \in 1..Len(<<NUL>>) : r[Len(F) + j] = <<NUL>>[j]
    BY ONLY <1>2, ConcatPlaces, SMTT(30)
  <2>2. Len(<<NUL>>) = 1 /\ 1 \in 1..1 /\ <<NUL>>[1] = NUL /\ off[N] \in Nat
    BY <1>3, <1>4, SMTT(30)
  <2> HIDE DEF r
  <2> QED
    BY <1>4, <2>1, <2>2, ZenonT(30)
<1>6. b = r
  BY SMTT(30) DEF Encode, F, Pieces
<1> HIDE DEF r, b
<1>7. ASSUME NEW k \in 1..N PROVE off[k] < off[N] + 1
  <2>1. P(k) \in 1..P(k) /\ off[k] = off[k - 1] + P(k)
    <3>1. P(k) \in Nat /\ P(k) >= 1 /\ off[k] = off[k - 1] + P(k)
      BY <1>3, <1>4, <1>7, Zenon
    <3> QED
      BY ONLY <3>1, SMTT(30)
  <2>2. off[k - 1] + P(k) \in 1..off[N]
    BY ONLY <1>4, <1>7, <2>1, Zenon
  <2> QED
    BY <1>5, <2>1, <2>2, SMTT(30)
<1>8. ASSUME NEW k \in 1..N, NEW j \in 1..P(k)
      PROVE  off[k - 1] + j \in 1..(off[N] + 1) /\ r[off[k - 1] + j] = Pieces(list)[k][j]
  <2> DEFINE at == off[k - 1] + j
  <2>1. at \in 1..off[N] /\ F[at] = Pieces(list)[k][j]
    BY <1>4, <1>8, Zenon
  <2> HIDE DEF at
  <2>2. at \in 1..(off[N] + 1) /\ r[at] = Pieces(list)[k][j]
    BY <1>5, <2>1, SMTT(30)
  <2> QED
    BY <2>2, Zenon DEF at
<1>9. /\ Len(b) = off[N] + 1 /\ off[N] + 1 \in 1..Len(b)
      /\ b[off[N] + 1] = NUL /\ b \in Seq(Unit)
  <2>1. off[N] + 1 \in 1..(off[N] + 1)
    BY <1>5, SMTT(30)
  <2> QED
    BY <1>5, <1>6, <2>1, Zenon
<1>10. \A k \in 1..N :
         /\ off[k] = off[k - 1] + P(k) /\ off[k] < Len(b)
         /\ \A j \in 1..P(k) :
              off[k - 1] + j \in 1..Len(b) /\ b[off[k - 1] + j] = Pieces(list)[k][j]
  BY <1>4, <1>6, <1>7, <1>8, <1>9, Zenon
<1> QED
  BY <1>3, <1>4, <1>9, <1>10, Zenon DEF Listed, N, P, b, off

(* A buffer that begins with c and is zero after it.                        *)
Padded(c, b) ==
    /\ b \in Seq(Unit) /\ Len(c) <= Len(b)
    /\ \A j \in 1..Len(c) : b[j] = c[j]
    /\ \A j \in (Len(c) + 1)..Len(b) : b[j] = NUL

(* What make leaves in the rest of the buffer is such an end.               *)
LEMMA ZerosPad ==
    ASSUME NEW c \in Seq(Unit), NEW n \in Nat
    PROVE  Padded(c, c \o Zeros(n))
<1> DEFINE z == Zeros(n)
           b == c \o z
<1>1. z \in Seq(Unit) /\ Len(z) = n /\ \A j \in 1..n : z[j] = NUL
  <2>1. NUL \in Unit
    BY ZenonT(30) DEF Unit
  <2> QED
    BY <2>1, FunctionIsSeq, SMTT(30) DEF Zeros
<1> HIDE DEF z
<1>2. /\ b \in Seq(Unit) /\ Len(b) = Len(c) + Len(z)
      /\ \A j \in 1..Len(c) : b[j] = c[j]
      /\ \A j \in 1..Len(z) : b[Len(c) + j] = z[j]
  <2>1. c \in Seq(Unit) /\ z \in Seq(Unit)
    BY <1>1, ZenonT(30)
  <2> QED
    BY ONLY <2>1, ConcatPlaces, SMTT(30)
<1> HIDE DEF b
<1>3. Len(c) \in Nat
  OBVIOUS
<1>4. ASSUME NEW j \in (Len(c) + 1)..Len(b) PROVE b[j] = NUL
  <2>1. j - Len(c) \in 1..n /\ Len(c) + (j - Len(c)) = j
    BY <1>1, <1>2, <1>3, SMTT(30)
  <2> QED
    BY <1>1, <1>2, <2>1, Zenon
<1>5. Len(c) <= Len(b)
  BY <1>1, <1>2, <1>3, SMTT(30)
<1> QED
  BY <1>2, <1>4, <1>5, Zenon DEF Padded, b, z

(* A buffer with zeros after the list.                                      *)
LEMMA BufferPlaces ==
    ASSUME NEW list \in Seq(Seq(Symbol)), NEW b, Padded(Encode(list), b),
           NEW E, E = Len(Encode(list))
    PROVE  /\ Listed(list, b, OffsetsOf(list)) /\ EndsList(b, E)
           /\ E = OffsetsOf(list)[Len(list)] + 1
<1> DEFINE c == Encode(list)
           N == Len(list)
           off == OffsetsOf(list)
           u == Len(Units(list[N]))
           P(k) == Len(Pieces(list)[k])
<1>1. /\ off \in [0..N -> Nat] /\ off[0] = 0 /\ N \in Nat
      /\ c \in Seq(Unit) /\ E = off[N] + 1 /\ c[E] = NUL
      /\ \A k \in 1..N :
           /\ off[k] = off[k - 1] + P(k) /\ off[k] < E
           /\ \A j \in 1..P(k) :
                off[k - 1] + j \in 1..E /\ c[off[k - 1] + j] = Pieces(list)[k][j]
  BY EncodePlaces, Zenon DEF Listed
<1>2. N \in 1..N => /\ P(N) = u + 1 /\ Pieces(list)[N][u + 1] = NUL
                    /\ u \in Nat
  BY PiecesOfList, SMTT(30)
<1>3. /\ b \in Seq(Unit) /\ E <= Len(b)
      /\ \A j \in 1..E : b[j] = c[j]
      /\ \A j \in (E + 1)..Len(b) : b[j] = NUL
  BY Zenon DEF Padded
<1> HIDE DEF c, N, off, u, P
<1>4. E \in Nat /\ off[N] \in Nat /\ Len(b) \in Nat
  BY <1>1, <1>3, SMTT(30)
<1>6. E \in 1..Len(b) /\ E \in 1..E /\ \A j \in 1..E : j \in 1..Len(b)
  BY <1>1, <1>3, <1>4, SMTT(30)
<1>7. \A k \in E..Len(b) : b[k] = NUL
  <2> SUFFICES ASSUME NEW k \in E..Len(b) PROVE b[k] = NUL
    BY ZenonT(30)
  <2>1. CASE k = E
    BY <1>1, <1>3, <1>6, <2>1, Zenon
  <2>2. CASE k # E
    <3>1. k \in (E + 1)..Len(b)
      BY <1>4, <2>2, SMTT(30)
    <3> QED
      BY <1>3, <3>1, Zenon
  <2> QED
    BY <2>1, <2>2, ZenonT(30)
<1>8. E = 1 \/ b[E - 1] = NUL
  <2> SUFFICES ASSUME E # 1 PROVE b[E - 1] = NUL
    BY ZenonT(30)
  <2>1. N \in 1..N
    BY <1>1, SMTT(30)
  <2>2. u + 1 \in 1..P(N) /\ off[N] = off[N - 1] + (u + 1)
    <3>1. off[N] = off[N - 1] + P(N)
      BY <1>1, <2>1, Zenon
    <3>2. P(N) = u + 1 /\ u \in Nat
      BY <1>2, <2>1, Zenon
    <3>3. u + 1 \in 1..(u + 1)
      BY ONLY <3>2, SMTT(30)
    <3> QED
      BY ONLY <3>1, <3>2, <3>3, Zenon
  <2>3. c[off[N - 1] + (u + 1)] = Pieces(list)[N][u + 1]
    BY ONLY <1>1, <2>1, <2>2, Zenon
  <2>4. c[off[N]] = NUL /\ off[N] = E - 1 /\ off[N] \in 1..E
    <3>1. off[N - 1] + (u + 1) \in 1..E
      BY ONLY <1>1, <2>1, <2>2, Zenon
    <3>2. off[N] \in 1..E /\ c[off[N]] = NUL
      BY ONLY <1>2, <2>1, <2>2, <2>3, <3>1, Zenon
    <3>3. E = off[N] + 1 /\ off[N] \in Nat
      BY ONLY <1>1, <1>4, Zenon
    <3>4. off[N] = E - 1
      BY ONLY <3>3, SMTT(30)
    <3> QED
      BY ONLY <3>2, <3>4, Zenon
  <2> QED
    BY <1>3, <2>4, Zenon
<1>9. EndsList(b, E)
  BY <1>3, <1>6, <1>7, <1>8, Zenon DEF EndsList
<1>10. ASSUME NEW k \in 1..N
       PROVE  /\ off[k] = off[k - 1] + P(k) /\ off[k] < Len(b)
              /\ \A j \in 1..P(k) :
                   off[k - 1] + j \in 1..Len(b) /\ b[off[k - 1] + j] = Pieces(list)[k][j]
  <2>1. /\ off[k] = off[k - 1] + P(k) /\ off[k] < E /\ off[k] \in Nat
        /\ \A j \in 1..P(k) :
             off[k - 1] + j \in 1..E /\ c[off[k - 1] + j] = Pieces(list)[k][j]
    <3>1. k \in 0..N
      BY <1>1, SMTT(30)
    <3> QED
      BY <1>1, <1>10, <3>1, Zenon
  <2>2. off[k] < Len(b)
    BY ONLY <1>3, <1>4, <2>1, SMTT(30)
  <2>3. \A j \in 1..P(k) :
          off[k - 1] + j \in 1..Len(b) /\ b[off[k - 1] + j] = Pieces(list)[k][j]
    BY <1>3, <1>6, <2>1, Zenon
  <2> QED
    BY <2>1, <2>2, <2>3, ZenonT(30)
<1>11. off[N] + 1 \in 1..Len(b) /\ b[off[N] + 1] = NUL
  BY <1>1, <1>3, <1>6, Zenon
<1>12. Listed(list, b, off)
  BY <1>1, <1>3, <1>10, <1>11, Zenon DEF Listed, N, P
<1> QED
  BY <1>1, <1>9, <1>12, Zenon DEF off, N

-----------------------------------------------------------------------------
(* The paths that are written.                                              *)

(* The path of a counter is a string.                                       *)
LEMMA PathsAreSymbols ==
    ASSUME NEW c \in Counters
    PROVE  Readable(c) /\ PathOf(c) \in Seq(Symbol)
  BY CountersAssumption, PathMarked, ZenonT(30) DEF Marked

(* The paths of several counters are a list of strings.                     *)
LEMMA PathListType ==
    ASSUME NEW counters \in Seq(Counters)
    PROVE  /\ PathList(counters) \in Seq(Seq(Symbol))
           /\ Len(PathList(counters)) = Len(counters)
           /\ \A k \in 1..Len(counters) : PathList(counters)[k] = PathOf(counters[k])
<1> DEFINE N == Len(counters)
<1>1. N \in Nat /\ DOMAIN counters = 1..N /\ \A k \in 1..N : PathOf(counters[k]) \in Seq(Symbol)
  BY PathsAreSymbols, SMTT(30)
<1> HIDE DEF N
<1>2. /\ PathList(counters) \in [1..N -> Seq(Symbol)]
      /\ \A k \in 1..N : PathList(counters)[k] = PathOf(counters[k])
  BY <1>1, ZenonT(30) DEF PathList
<1> QED
  BY <1>1, <1>2, FunctionIsSeq, ZenonT(30) DEF N

(* The buffer holds the list pdh.dll wrote and zeros; the walk is at most   *)
(* two units behind the list, in the list if no character has two units,    *)
(* and holds the string that is there.                                      *)
Filled(f, b) == Padded(Encode(PathList(f)), b)
ListEnd == Len(Encode(PathList(found)))
BufferInv ==
    /\ found \in Seq(Counters) /\ Filled(found, buf)
    /\ nextLineStart \in 0..(ListEnd + 1)
    /\ OneUnit => nextLineStart \in 0..(ListEnd - 1)
    /\ stringLine = StringFrom(nextLineStart)

(* Of such a buffer the list is the beginning.                              *)
LEMMA FilledEnds ==
    ASSUME NEW f \in Seq(Counters), NEW b, Filled(f, b)
    PROVE  /\ EndsList(b, Len(Encode(PathList(f))))
           /\ Listed(PathList(f), b, OffsetsOf(PathList(f)))
           /\ Len(Encode(PathList(f))) = OffsetsOf(PathList(f))[Len(f)] + 1
<1>1. PathList(f) \in Seq(Seq(Symbol)) /\ Len(PathList(f)) = Len(f)
  BY PathListType, ZenonT(30)
<1> QED
  BY <1>1, BufferPlaces, Zenon DEF Filled

(* The list and zeros fill a buffer like that.                              *)
LEMMA ListFills ==
    ASSUME NEW f \in Seq(Counters), NEW n \in Nat
    PROVE  Filled(f, Encode(PathList(f)) \o Zeros(n))
<1>1. Encode(PathList(f)) \in Seq(Unit)
  BY PathListType, EncodePlaces, Zenon DEF Listed
<1> QED
  BY <1>1, ZerosPad, Zenon DEF Filled

(* The empty list is a single NUL.                                          *)
LEMMA EmptyList ==
    /\ <<>> \in Seq(Counters) /\ PathList(<<>>) = <<>>
    /\ Encode(<<>>) = <<NUL>> /\ utf16PtrToString(<<NUL>>) = <<>>
<1>1. <<>> \in Seq(Counters) /\ PathList(<<>>) = <<>>
  BY SMTT(30) DEF PathList
<1>2. Encode(<<>>) = <<NUL>>
  <2>1. [k \in DOMAIN <<>> |-> Append(Units(<<>>[k]), NUL)] = <<>>
    BY SMTT(30)
  <2>2. Joined(<<>>) = <<>>
    BY JoinedOfNone, ZenonT(30)
  <2>3. <<>> \o <<NUL>> = <<NUL>>
    BY SMTT(30)
  <2> QED
    BY <2>1, <2>2, <2>3, Zenon DEF Encode
<1>3. utf16PtrToString(<<NUL>>) = Characters(SubSeq(<<NUL>>, 1, 1 - 1))
  <2> DEFINE u == <<NUL>>
  <2>1. /\ u \in Seq(Unit) /\ 1 \in 1..Len(u) /\ u[1] = NUL
        /\ \A k \in 1..(1 - 1) : u[k] # NUL
    BY SMTT(30) DEF Unit
  <2> HIDE DEF u
  <2>2. utf16PtrToString(u) = Characters(SubSeq(u, 1, 1 - 1))
    BY ONLY <2>1, FirstNul, ZenonT(30)
  <2> QED
    BY <2>2, ZenonT(30) DEF u
<1>4. SubSeq(<<NUL>>, 1, 1 - 1) = <<>>
  BY SMTT(30)
<1> QED
  BY <1>1, <1>2, <1>3, <1>4, NoCharacters, Zenon

(* utf16ToStringArray starts at the beginning of the list.                  *)
LEMMA StartListInv ==
    ASSUME NEW f \in Seq(Counters), NEW b, Filled(f, b), StartList(b), found' = f
    PROVE  BufferInv'
<1> DEFINE E == Len(Encode(PathList(f)))
<1>1. EndsList(b, E)
  BY FilledEnds, Zenon
<1>2. b \in Seq(Unit) /\ Len(b) \in Nat /\ E \in Nat /\ E >= 1 /\ E <= Len(b)
  BY <1>1, SMTT(30) DEF EndsList
<1>3. /\ buf' = b /\ nextLineStart' = 0 /\ stringLine' = utf16PtrToString(b)
  BY ZenonT(30) DEF StartList
<1>4. SubSeq(b, 1, Len(b)) = b
  BY <1>2, SubSeqFull, ZenonT(30)
<1> HIDE DEF E
<1>5. /\ 0 \in 0..(E + 1) /\ 0 \in 0..(E - 1) /\ 0 < Len(b)
      /\ SubSeq(b, 0 + 1, Len(b)) = b
  BY <1>2, <1>4, SMTT(30)
<1>6. StringFrom(nextLineStart)' = utf16PtrToString(b)
  BY <1>3, <1>5, Zenon DEF StringFrom
<1>7. ListEnd' = E
  BY ZenonT(30) DEF ListEnd, E
<1> QED
  BY <1>3, <1>5, <1>6, <1>7, Zenon DEF BufferInv

(* A list of no counters fills a buffer of one unit.                        *)
LEMMA EmptyFilled == <<>> \in Seq(Counters) /\ Filled(<<>>, <<NUL>>)
<1>1. Zeros(0) = <<>>
  BY SMTT(30) DEF Zeros
<1>2. <<NUL>> \o <<>> = <<NUL>> /\ 0 \in Nat
  BY SMTT(30)
<1>3. Encode(PathList(<<>>)) \o Zeros(0) = <<NUL>>
  BY <1>1, <1>2, EmptyList, Zenon
<1>4. Filled(<<>>, Encode(PathList(<<>>)) \o Zeros(0))
  BY <1>2, EmptyList, ListFills, Zenon
<1> QED
  BY <1>3, <1>4, EmptyList, Zenon

(* Before the first expansion the buffer is the empty list.                 *)
LEMMA ListInitInv == ExpandInit => BufferInv
<1> SUFFICES ASSUME ExpandInit PROVE BufferInv
  BY ZenonT(30)
<1>1. buf = <<NUL>> /\ nextLineStart = 0 /\ stringLine = <<>> /\ found = <<>>
  BY ZenonT(30) DEF ExpandInit, ListInit
<1> DEFINE u == <<NUL>>
<1>2. u \in Seq({NUL}) /\ Len(u) = 1
  BY SMTT(30)
<1>3. ListEnd = 1
  BY <1>1, <1>2, EmptyList, Zenon DEF ListEnd
<1> HIDE DEF u
<1>4. SubSeq(u, 1, Len(u)) = u
  BY <1>2, SubSeqFull, ZenonT(30)
<1>5. SubSeq(u, 0 + 1, Len(u)) = u /\ 0 < Len(u) /\ 0 \in 0..(1 + 1) /\ 0 \in 0..(1 - 1)
  BY <1>2, <1>4, SMTT(30)
<1>6. buf = u /\ utf16PtrToString(u) = <<>>
  BY <1>1, EmptyList, ZenonT(30) DEF u
<1>7. StringFrom(0) = <<>>
  BY <1>5, <1>6, Zenon DEF StringFrom
<1> QED
  BY <1>1, <1>3, <1>5, <1>7, EmptyFilled, Zenon DEF BufferInv

(* One turn of the loop.                                                    *)
LEMMA DecodeInv ==
    ASSUME BufferInv, Decode
    PROVE  BufferInv'
<1> DEFINE next == nextLineStart + Len(stringLine) + 1
<1>1. /\ buf' = buf /\ found' = found /\ stringLine # <<>> /\ nextLineStart' = next
      /\ stringLine' = StringFrom(nextLineStart')
  BY DEF Decode, NextString
<1>2. /\ EndsList(buf, ListEnd) /\ nextLineStart \in 0..(ListEnd + 1)
      /\ stringLine = StringFrom(nextLineStart)
  BY FilledEnds, Zenon DEF BufferInv, ListEnd
<1>3. Len(buf) \in Nat /\ DOMAIN buf = 1..Len(buf) /\ ListEnd \in Nat
  BY <1>2, SMTT(30) DEF EndsList
<1>4. nextLineStart < Len(buf)
  BY <1>1, <1>2, Zenon DEF StringFrom
<1>5. stringLine = utf16PtrToString(SubSeq(buf, nextLineStart + 1, Len(buf)))
  BY <1>2, <1>4, Zenon DEF StringFrom
<1>6. nextLineStart \in 0..(Len(buf) - 1)
  BY <1>2, <1>3, <1>4, SMTT(30)
<1>7. /\ next \in 0..(ListEnd + 1)
      /\ (\A k \in 1..Len(buf) : buf[k] # Low) => next \in 0..(ListEnd - 1)
  BY <1>1, <1>2, <1>5, <1>6, WalkStays, ZenonT(30)
<1> HIDE DEF next
<1>8. ListEnd' = ListEnd /\ OneUnit' = OneUnit /\ Filled(found, buf)' = Filled(found, buf)
  BY <1>1, Zenon DEF ListEnd, OneUnit, Filled
<1>9. StringFrom(nextLineStart)' = StringFrom(nextLineStart')
  BY <1>1, Zenon DEF StringFrom
<1> QED
  BY <1>1, <1>3, <1>7, <1>8, <1>9, Zenon DEF BufferInv, OneUnit

(* Every step of an expansion.                                              *)
LEMMA BufferStep ==
    ASSUME BufferInv, [ExpandNext]_expandVars
    PROVE  BufferInv'
<1>1. CASE ExpandWildCardPath
  <2>1. found' \in Seq(Counters)
    BY <1>1, SMTT(30) DEF ExpandWildCardPath
  <2>2. PICK spare \in 0..MaxSpare : StartList(Encode(PathList(found')) \o Zeros(spare))
    BY <1>1, ZenonT(30) DEF ExpandWildCardPath
  <2>3. spare \in Nat
    BY CountersAssumption, SMTT(30)
  <2>4. Filled(found', Encode(PathList(found')) \o Zeros(spare))
    BY <2>1, <2>3, ListFills, Zenon
  <2> QED
    BY <2>1, <2>2, <2>4, StartListInv, Zenon
<1>2. CASE Decode
  BY <1>2, DecodeInv, ZenonT(30)
<1>3. CASE ExpandReturn \/ Restart
  <2>1. found' = <<>> /\ StartList(<<NUL>>)
    BY <1>3, ZenonT(30) DEF ExpandReturn, Restart
  <2> QED
    BY <2>1, EmptyFilled, StartListInv, Zenon
<1>4. CASE UNCHANGED <<found, listVars>>
  BY <1>4, Zenon DEF BufferInv, listVars, ListEnd, OneUnit, Filled, StringFrom
<1> QED
  BY <1>1, <1>2, <1>3, <1>4, ZenonT(30)
     DEF ExpandNext, expandVars, listVars, Extract, ScanPath, ExtractDone

(* utf16ToStringArray does not index past the buffer of an expansion if the *)
(* buffer has two units more than the list, or the names no two-unit        *)
(* character, for lists of any length.                                      *)
THEOREM WalkStaysInBuffer == ExpandSpec => []InBuffer
<1>1. BufferInv => InBuffer
  <2> SUFFICES ASSUME BufferInv, Spare >= 2 \/ OneUnit PROVE ~Panicked
    BY DEF InBuffer
  <2>1. /\ EndsList(buf, ListEnd) /\ nextLineStart \in 0..(ListEnd + 1)
        /\ OneUnit => nextLineStart \in 0..(ListEnd - 1)
    BY FilledEnds, Zenon DEF BufferInv, ListEnd
  <2>2. Len(buf) \in Nat /\ ListEnd \in Nat /\ ListEnd <= Len(buf)
    BY <2>1, SMTT(30) DEF EndsList
  <2>3. Spare = Len(buf) - ListEnd
    BY DEF Spare, ListEnd
  <2> QED
    BY <2>1, <2>2, <2>3, SMTT(30) DEF Panicked
<1>2. BufferInv /\ [ExpandNext]_expandVars => BufferInv'
  BY BufferStep, ZenonT(30)
<1> QED
  BY ListInitInv, <1>1, <1>2, PTL DEF ExpandSpec
-----------------------------------------------------------------------------
(* Without two-unit characters, the strings are the paths.                  *)

(* A string whose units have no second unit of a pair is its units.         *)
LEMMA UnitsOfOneUnit ==
    ASSUME NEW s \in Seq(Symbol), \A k \in 1..Len(Units(s)) : Units(s)[k] # Low
    PROVE  Units(s) = s
<1> DEFINE N == Len(s)
           seqs == [k \in DOMAIN s |-> IF s[k] \in TwoUnits THEN <<s[k], Low>> ELSE <<s[k]>>]
<1>1. N \in Nat /\ DOMAIN s = 1..N /\ \A k \in 1..N : s[k] \in Unit
  BY SMTT(30) DEF Unit
<1>2. \A x \in Unit : /\ <<x>> \in Seq(Unit) /\ <<x, Low>> \in Seq(Unit)
                      /\ Len(<<x, Low>>) = 2 /\ <<x, Low>>[2] = Low
  BY SMTT(30) DEF Unit
<1>3. seqs \in [1..N -> Seq(Unit)]
  BY <1>1, <1>2, ZenonT(30)
<1>4. \A k \in 1..N : s[k] \in TwoUnits => Len(seqs[k]) = 2 /\ seqs[k][2] = Low
  BY <1>1, <1>2, ZenonT(30)
<1>5. Units(s) = Joined(seqs)
  BY ZenonT(30) DEF Units
<1>6. (\A k \in 1..N : s[k] \notin TwoUnits) => seqs = [k \in DOMAIN s |-> <<s[k]>>]
  BY <1>1, Zenon
<1> HIDE DEF seqs, N
<1>7. seqs \in Seq(Seq(Unit)) /\ Len(seqs) = N
  BY <1>1, <1>3, FunctionIsSeq, ZenonT(30)
<1>8. PICK off : PieceOffsets(seqs, off)
  BY <1>7, JoinedPieces, ZenonT(30)
<1>9. ASSUME NEW k \in 1..N PROVE s[k] \notin TwoUnits
  <2> SUFFICES ASSUME s[k] \in TwoUnits PROVE FALSE
    BY SMTT(30)
  <2>1. 2 \in 1..Len(seqs[k]) /\ seqs[k][2] = Low
    BY <1>4, <1>9, SMTT(30)
  <2>2. /\ off[k - 1] + 2 \in 1..off[N] /\ Len(Joined(seqs)) = off[N]
        /\ Joined(seqs)[off[k - 1] + 2] = seqs[k][2]
    BY <1>7, <1>8, <1>9, <2>1, Zenon DEF PieceOffsets
  <2> QED
    BY <1>5, <2>1, <2>2, ZenonT(30)
<1>10. Joined(seqs) = s
  BY <1>6, <1>9, JoinedSingles, ZenonT(30)
<1> QED
  BY <1>5, <1>10, ZenonT(30)

(* If no unit is the second of a pair, the string at the m-th offset is the *)
(* next one of the list, and after the last one an empty string.            *)
LEMMA StringAt ==
    ASSUME NEW list \in Seq(Seq(Symbol)), NEW b, NEW off, Listed(list, b, off),
           \A k \in 1..Len(b) : b[k] # Low,
           NEW m \in 0..Len(list)
    PROVE  /\ m < Len(list) => off[m + 1] = off[m] + Len(list[m + 1]) + 1
           /\ utf16PtrToString(SubSeq(b, off[m] + 1, Len(b)))
                = IF m < Len(list) THEN list[m + 1] ELSE <<>>
<1> DEFINE N == Len(list)
           L == Len(b)
           o == off[m]
           rest == SubSeq(b, o + 1, L)
<1>1. /\ off \in [0..N -> Nat] /\ N \in Nat /\ off[0] = 0
      /\ b \in Seq(Unit) /\ off[N] + 1 \in 1..L /\ b[off[N] + 1] = NUL
      /\ \A k \in 1..N :
           /\ off[k] = off[k - 1] + Len(Pieces(list)[k]) /\ off[k] < L
           /\ \A j \in 1..Len(Pieces(list)[k]) :
                off[k - 1] + j \in 1..L /\ b[off[k - 1] + j] = Pieces(list)[k][j]
  BY Zenon DEF Listed
<1>2. m \in 0..N /\ m \in Nat
  BY <1>1, SMTT(30)
<1> HIDE DEF N
<1>3. o \in Nat /\ L \in Nat /\ o < L
  <2>1. o \in Nat /\ off[N] \in Nat
    BY <1>1, <1>2, SMTT(30)
  <2>2. CASE m = 0
    BY <1>1, <2>1, <2>2, SMTT(30)
  <2>3. CASE m # 0
    <3>1. m \in 1..N
      BY <1>1, <1>2, <2>3, SMTT(30)
    <3> QED
      BY <1>1, <2>1, <3>1, SMTT(30)
  <2> QED
    BY <2>2, <2>3, ZenonT(30)
<1> HIDE DEF o, L
<1>4. /\ rest \in Seq(Unit) /\ Len(rest) = L - o
      /\ \A j \in 1..(L - o) : rest[j] = b[o + j]
  <2>1. b \in Seq(Unit) /\ o \in 0..Len(b)
    BY <1>1, <1>3, SMTT(30) DEF L
  <2> QED
    BY <2>1, RestPlaces, Zenon DEF L
<1> HIDE DEF rest
<1>5. CASE m < N
  <2> DEFINE s == list[m + 1]
             n == Len(s)
             k == m + 1
  <2>1. k \in 1..N /\ k - 1 = m /\ s \in Seq(Symbol) /\ n \in Nat
    BY <1>1, <1>2, <1>5, SMTT(30) DEF N
  <2>2. /\ Len(Pieces(list)[k]) = Len(Units(s)) + 1
        /\ Pieces(list)[k][Len(Units(s)) + 1] = NUL /\ Units(s) \in Seq(Unit)
        /\ \A j \in 1..Len(Units(s)) : Pieces(list)[k][j] = Units(s)[j]
    BY <2>1, PiecesOfList, Zenon DEF N
  <2> HIDE DEF k
  <2>3. /\ off[k] = o + Len(Pieces(list)[k])
        /\ \A j \in 1..Len(Pieces(list)[k]) : o + j \in 1..L /\ b[o + j] = Pieces(list)[k][j]
    BY <1>1, <2>1, Zenon DEF o
  <2> HIDE DEF s, n
  <2>4. Units(s) = s
    <3> SUFFICES ASSUME NEW j \in 1..Len(Units(s)) PROVE Units(s)[j] # Low
      BY <2>1, UnitsOfOneUnit, SMTT(30)
    <3>1. j \in 1..Len(Pieces(list)[k])
      BY <2>2, SMTT(30)
    <3> QED
      BY <2>2, <2>3, <3>1, Zenon DEF L
  <2>5. n = Len(Units(s))
    BY <2>4, ZenonT(30) DEF n
  <2>6. /\ off[k] = o + (n + 1) /\ o + (n + 1) \in 1..L /\ b[o + (n + 1)] = NUL
        /\ \A j \in 1..n : b[o + j] = s[j]
    <3>1. n + 1 \in 1..(n + 1) /\ \A j \in 1..n : j \in 1..(n + 1)
      BY <2>1, SMTT(30)
    <3>2. Len(Pieces(list)[k]) = n + 1
      BY <2>2, <2>5, Zenon
    <3> QED
      BY <2>2, <2>3, <2>4, <2>5, <3>1, <3>2, Zenon
  <2>7. /\ n + 1 \in 1..(L - o) /\ \A j \in 1..n : j \in 1..(L - o)
    BY ONLY <1>3, <2>1, <2>6, SMTT(30)
  <2>8. /\ rest[n + 1] = NUL /\ \A j \in 1..n : rest[j] = s[j]
    BY <1>4, <2>6, <2>7, Zenon
  <2>9. \A j \in 1..n : s[j] # NUL /\ s[j] # Low
    BY <2>1, CountersAssumption, SMTT(30) DEF n
  <2>10. utf16PtrToString(rest) = Characters(SubSeq(rest, 1, n))
    <3> DEFINE z == n + 1
    <3>0. z - 1 = n
      BY <2>1, SMTT(30)
    <3>1. /\ z \in 1..Len(rest) /\ rest[z] = NUL /\ \A j \in 1..(z - 1) : rest[j] # NUL
      BY <1>4, <2>7, <2>8, <2>9, <3>0, Zenon
    <3> HIDE DEF z
    <3>2. utf16PtrToString(rest) = Characters(SubSeq(rest, 1, z - 1))
      BY ONLY <1>4, <3>1, FirstNul, Zenon
    <3> QED
      BY <3>0, <3>2, Zenon
  <2>11. SubSeq(rest, 1, n) = s
    <3> DEFINE t == SubSeq(rest, 1, n)
    <3>1. 1 \in 1..(Len(rest) + 1) /\ n \in (1 - 1)..Len(rest) /\ n - 1 + 1 = n
      BY <1>3, <1>4, <2>1, <2>7, SMTT(30)
    <3>2. /\ t \in Seq(Unit) /\ Len(t) = n - 1 + 1
          /\ \A j \in 1..(n - 1 + 1) : t[j] = rest[1 + j - 1]
      BY ONLY <1>4, <3>1, SubSeqPlaces, SMTT(30)
    <3> HIDE DEF t
    <3>3. Len(t) = n /\ \A j \in 1..n : t[j] = s[j]
      <4>1. \A j \in 1..n : 1 + j - 1 = j
        BY <2>1, SMTT(30)
      <4> QED
        BY <2>8, <3>1, <3>2, <4>1, SMTT(30)
    <3>4. s \in Seq(Unit) /\ Len(s) = n
      BY <2>1, SMTT(30) DEF Unit, n
    <3>5. t = s
      BY <3>2, <3>3, <3>4, SeqEqual, ZenonT(30)
    <3> QED
      BY <3>5, ZenonT(30) DEF t
  <2>12. Characters(s) = s
    BY <2>1, <2>9, CharactersAreUnits DEF n
  <2>13. utf16PtrToString(rest) = s /\ off[k] = o + n + 1
    <3>1. o + (n + 1) = o + n + 1
      BY <1>3, <2>1, SMTT(30)
    <3> QED
      BY <2>6, <2>10, <2>11, <2>12, <3>1, Zenon
  <2> QED
    BY <1>5, <2>13, Zenon DEF rest, s, n, k, N, o, L
<1>6. CASE ~(m < N)
  <2>1. m = N
    BY <1>1, <1>2, <1>6, SMTT(30)
  <2>2. o = off[N]
    BY <2>1, ZenonT(30) DEF o
  <2>3. rest[1] = NUL /\ 1 \in 1..Len(rest) /\ \A j \in 1..(1 - 1) : rest[j] # NUL
    <3>1. 1 \in 1..(L - o)
      BY <1>3, SMTT(30)
    <3>2. rest[1] = b[o + 1] /\ b[o + 1] = NUL
      BY <1>1, <1>4, <2>2, <3>1, Zenon
    <3> QED
      BY <1>4, <3>1, <3>2, SMTT(30)
  <2>4. utf16PtrToString(rest) = Characters(SubSeq(rest, 1, 1 - 1))
    BY ONLY <1>4, <2>3, FirstNul, ZenonT(30)
  <2>5. SubSeq(rest, 1, 1 - 1) = <<>>
    BY <1>4, SMTT(30)
  <2> QED
    BY <1>6, <2>4, <2>5, NoCharacters, Zenon DEF rest, N, o, L
<1> QED
  BY <1>5, <1>6, ZenonT(30)
-----------------------------------------------------------------------------
(* The way of the paths: the strings are the paths of the first counters    *)
(* found, the parts are those of the first strings, and a scan is one of    *)
(* the path that is next.                                                   *)
Parts == {PartsOf(c) : c \in Counters}
Arrived(f, s, start, p) ==
    /\ s \in Seq(Seq(Symbol)) /\ Len(s) <= Len(f)
    /\ \A k \in 1..Len(s) : s[k] = PathOf(f[k])
    /\ start = OffsetsOf(PathList(f))[Len(s)]
    /\ p \in Seq(Parts) /\ Len(p) <= Len(s)
    /\ \A k \in 1..Len(p) : p[k] = PartsOf(f[k])

ArriveInv ==
    /\ Arrived(found, strings, nextLineStart, parts)
    /\ path # <<>> =>
         /\ Len(strings) = Len(found) /\ Len(parts) < Len(found)
         /\ \A c \in Counters : c = found[Len(parts) + 1] => path = PathOf(c) /\ Scanned(c)

(* Nothing is left to scan between two calls.                              *)
Idle == path = <<>> => i = -1

ExpandInv == BufferInv /\ Idle /\ (OneUnit => ArriveInv)

(* At the beginning of the walk nothing has arrived.                        *)
LEMMA ArrivedFresh ==
    ASSUME NEW f \in Seq(Counters)
    PROVE  Arrived(f, <<>>, 0, <<>>)
<1>1. OffsetsOf(PathList(f))[0] = 0
  BY PathListType, EncodePlaces, Zenon DEF Listed
<1>2. /\ <<>> \in Seq(Seq(Symbol)) /\ <<>> \in Seq(Parts) /\ Len(<<>>) = 0
      /\ Len(f) \in Nat
  BY SMTT(30)
<1>3. Len(<<>>) <= Len(f) /\ Len(<<>>) <= Len(<<>>) /\ 1..Len(<<>>) = {}
  BY <1>2, SMTT(30)
<1> QED
  BY <1>1, <1>2, <1>3, Zenon DEF Arrived

(* No path is the empty string, which would end the list.                   *)
LEMMA PathsAreNotEmpty ==
    ASSUME NEW c \in Counters
    PROVE  PathOf(c) # <<>>
<1>1. Len(PathOf(c)) > 0
  BY PathsAreSymbols, PathMarked, SMTT(30) DEF Marked
<1> QED
  BY <1>1, SMTT(30)

(* The string the walk holds is the path that comes next.                   *)
LEMMA NextPath ==
    ASSUME BufferInv, OneUnit, Arrived(found, strings, nextLineStart, parts)
    PROVE  /\ Len(strings) \in 0..Len(found) /\ Len(found) \in Nat
           /\ stringLine = IF Len(strings) < Len(found)
                           THEN PathOf(found[Len(strings) + 1]) ELSE <<>>
           /\ Len(strings) < Len(found) =>
                /\ found[Len(strings) + 1] \in Counters
                /\ OffsetsOf(PathList(found))[Len(strings) + 1]
                     = nextLineStart + Len(stringLine) + 1
<1> DEFINE list == PathList(found)
           off == OffsetsOf(list)
           N == Len(found)
           m == Len(strings)
<1>0. EndsList(buf, ListEnd) /\ nextLineStart \in 0..(ListEnd - 1)
  BY FilledEnds, Zenon DEF BufferInv, ListEnd
<1>a. nextLineStart < Len(buf)
  BY <1>0, SMTT(30) DEF EndsList
<1>1. /\ found \in Seq(Counters) /\ Listed(list, buf, off)
      /\ stringLine = utf16PtrToString(SubSeq(buf, nextLineStart + 1, Len(buf)))
      /\ nextLineStart = off[m] /\ m <= N /\ strings \in Seq(Seq(Symbol))
  BY <1>a, FilledEnds, Zenon DEF BufferInv, Arrived, StringFrom
<1>2. /\ list \in Seq(Seq(Symbol)) /\ Len(list) = N
      /\ \A k \in 1..N : list[k] = PathOf(found[k])
  BY <1>1, PathListType, ZenonT(30)
<1>3. N \in Nat /\ m \in 0..N /\ \A k \in 1..N : found[k] \in Counters
  BY <1>1, SMTT(30)
<1>4. \A k \in 1..Len(buf) : buf[k] # Low
  <2>1. buf \in Seq(Unit)
    BY <1>0, ZenonT(30) DEF EndsList
  <2> QED
    BY <2>1, SMTT(30) DEF OneUnit
<1> HIDE DEF list, off, N, m
<1>5. /\ m < N => off[m + 1] = off[m] + Len(list[m + 1]) + 1
      /\ stringLine = IF m < N THEN list[m + 1] ELSE <<>>
  <2>1. m \in 0..Len(list)
    BY <1>2, <1>3, SMTT(30)
  <2>2. /\ m < Len(list) => off[m + 1] = off[m] + Len(list[m + 1]) + 1
        /\ utf16PtrToString(SubSeq(buf, off[m] + 1, Len(buf)))
             = IF m < Len(list) THEN list[m + 1] ELSE <<>>
    <3>1. list \in Seq(Seq(Symbol))
      BY <1>2, ZenonT(30)
    <3>2. Listed(list, buf, off)
      BY <1>1, ZenonT(30)
    <3>4. m \in 0..Len(list)
      BY <2>1, ZenonT(30)
    <3> QED
      BY ONLY <3>1, <3>2, <3>4, <1>4, StringAt, ZenonT(30)
  <2> QED
    BY <1>1, <1>2, <2>2, Zenon
<1>6. m < N => m + 1 \in 1..N
  BY <1>3, SMTT(30)
<1>7. m < N => list[m + 1] = PathOf(found[m + 1]) /\ found[m + 1] \in Counters
  BY <1>2, <1>3, <1>6, Zenon
<1> QED
  BY <1>1, <1>3, <1>5, <1>7, Zenon DEF list, off, N, m

(* Before the first expansion nothing is on its way.                        *)
LEMMA ExpandInvInit == ExpandInit => ExpandInv
<1> SUFFICES ASSUME ExpandInit PROVE ExpandInv
  BY ZenonT(30)
<1>1. /\ nextLineStart = 0 /\ strings = <<>> /\ found = <<>> /\ parts = <<>>
      /\ path = <<>> /\ i = -1
  BY ZenonT(30) DEF ExpandInit, ListInit, PathInit
<1>2. Arrived(<<>>, <<>>, 0, <<>>)
  BY ArrivedFresh, EmptyList, Zenon
<1> QED
  BY <1>1, <1>2, ListInitInv, Zenon DEF ExpandInv, ArriveInv, Idle

(* Append keeps what there was and adds one at the end.                     *)
LEMMA AppendPlaces ==
    ASSUME NEW T, NEW s \in Seq(T), NEW x \in T
    PROVE  /\ Append(s, x) \in Seq(T) /\ Len(Append(s, x)) = Len(s) + 1
           /\ \A k \in 1..Len(s) : Append(s, x)[k] = s[k]
           /\ Append(s, x)[Len(s) + 1] = x
  BY AppendProperties, SMTT(30)

(* The next string is the path of the next counter.                         *)
LEMMA DecodeArrives ==
    ASSUME BufferInv, OneUnit, ArriveInv, Decode
    PROVE  ArriveInv'
<1> DEFINE N == Len(found)
           m == Len(strings)
           t == Append(strings, stringLine)
<1>1. /\ found' = found /\ parts' = parts /\ path' = path
      /\ strings' = t /\ stringLine # <<>> /\ nextLineStart' = nextLineStart + Len(stringLine) + 1
  BY ZenonT(30) DEF Decode, NextString, pathVars
<1>2. /\ strings \in Seq(Seq(Symbol)) /\ m <= N /\ parts \in Seq(Parts) /\ Len(parts) <= m
      /\ \A k \in 1..m : strings[k] = PathOf(found[k])
      /\ \A k \in 1..Len(parts) : parts[k] = PartsOf(found[k])
      /\ path # <<>> => m = N
  BY Zenon DEF ArriveInv, Arrived
<1>3. /\ m \in 0..N /\ N \in Nat /\ m < N
      /\ stringLine = PathOf(found[m + 1]) /\ found[m + 1] \in Counters
      /\ OffsetsOf(PathList(found))[m + 1] = nextLineStart + Len(stringLine) + 1
  <2>1. Arrived(found, strings, nextLineStart, parts)
    BY ZenonT(30) DEF ArriveInv
  <2>2. /\ m \in 0..N /\ N \in Nat
        /\ stringLine = IF m < N THEN PathOf(found[m + 1]) ELSE <<>>
        /\ m < N => /\ found[m + 1] \in Counters
                    /\ OffsetsOf(PathList(found))[m + 1] = nextLineStart + Len(stringLine) + 1
    BY <2>1, NextPath, Zenon
  <2> QED
    BY <1>1, <2>2, Zenon
<1>4. stringLine \in Seq(Symbol)
  BY <1>3, PathsAreSymbols, Zenon
<1>5. /\ t \in Seq(Seq(Symbol)) /\ Len(t) = m + 1
      /\ \A k \in 1..m : t[k] = strings[k]
      /\ t[m + 1] = stringLine
  BY <1>2, <1>4, AppendPlaces, Zenon
<1>6. path = <<>>
  <2>1. m # N
    BY <1>3
  <2> QED
    BY <1>2, <2>1, Zenon
<1> HIDE DEF N, m, t
<1>7. \A k \in 1..(m + 1) : t[k] = PathOf(found[k])
  <2> SUFFICES ASSUME NEW k \in 1..(m + 1) PROVE t[k] = PathOf(found[k])
    BY ZenonT(30)
  <2>1. CASE k = m + 1
    BY <1>3, <1>5, <2>1, Zenon
  <2>2. CASE k # m + 1
    <3>1. k \in 1..m
      BY <1>3, <2>2, SMTT(30)
    <3> QED
      BY <1>2, <1>5, <3>1, Zenon
  <2> QED
    BY <2>1, <2>2, ZenonT(30)
<1>8. m + 1 <= N /\ Len(parts) <= m + 1
  <2>1. Len(parts) \in Nat
    BY <1>2, SMTT(30)
  <2> QED
    BY <1>2, <1>3, <2>1, SMTT(30)
<1>9. Arrived(found, t, nextLineStart', parts)
  BY <1>1, <1>2, <1>3, <1>5, <1>7, <1>8, Zenon DEF Arrived, N
<1> QED
  BY <1>1, <1>6, <1>9, Zenon DEF ArriveInv

(* Once the walk has ended every path is a string.                          *)
LEMMA AllDecoded ==
    ASSUME BufferInv, OneUnit, Arrived(found, strings, nextLineStart, parts), stringLine = <<>>
    PROVE  Len(strings) = Len(found)
<1>1. /\ Len(strings) \in 0..Len(found) /\ Len(found) \in Nat
      /\ Len(strings) < Len(found) =>
           stringLine = PathOf(found[Len(strings) + 1]) /\ found[Len(strings) + 1] \in Counters
  BY NextPath, Zenon
<1>2. ~(Len(strings) < Len(found))
  BY <1>1, PathsAreNotEmpty, Zenon
<1> QED
  BY <1>1, <1>2, SMTT(30)

(* The scan begins with the path that is next.                              *)
LEMMA ExtractArrives ==
    ASSUME BufferInv, OneUnit, ArriveInv, Extract
    PROVE  ArriveInv'
<1>1. /\ found' = found /\ parts' = parts /\ strings' = strings
      /\ nextLineStart' = nextLineStart /\ stringLine = <<>>
      /\ Len(parts) < Len(strings) /\ StartParse(strings[Len(parts) + 1])
  BY SMTT(30) DEF Extract, listVars
<1>2. /\ Arrived(found, strings, nextLineStart, parts)
      /\ parts \in Seq(Parts) /\ found \in Seq(Counters)
      /\ \A k \in 1..Len(strings) : strings[k] = PathOf(found[k])
  BY ZenonT(30) DEF ArriveInv, Arrived, BufferInv
<1>3. Len(strings) = Len(found)
  BY <1>1, <1>2, AllDecoded, Zenon
<1>4. Len(parts) + 1 \in 1..Len(strings) /\ Len(parts) < Len(found)
  BY <1>1, <1>2, <1>3, SMTT(30)
<1>5. found[Len(parts) + 1] \in Counters
  BY <1>2, <1>3, <1>4, SMTT(30)
<1>6. PICK c \in Counters : c = found[Len(parts) + 1]
  BY <1>5, ZenonT(30)
<1>7. StartParse(PathOf(c))
  BY <1>1, <1>2, <1>4, <1>6, Zenon
<1>8. Scanned(c)' /\ path' = PathOf(c)
  BY <1>7, PathsAreSymbols, ScanStarts, ZenonT(30) DEF StartParse
<1>9. path' # <<>>
  BY <1>8, PathsAreNotEmpty, Zenon
<1>10. \A e \in Counters : e = found'[Len(parts') + 1] => path' = PathOf(e) /\ Scanned(e)'
  BY <1>1, <1>6, <1>8, Zenon
<1>11. Arrived(found, strings, nextLineStart, parts)'
  BY <1>1, <1>2, Zenon DEF Arrived
<1> QED
  BY <1>1, <1>3, <1>4, <1>9, <1>10, <1>11, Zenon DEF ArriveInv

(* It goes on with it.                                                      *)
LEMMA ScanArrives ==
    ASSUME BufferInv, Idle, ArriveInv, ScanPath
    PROVE  ArriveInv'
<1>1. /\ found' = found /\ parts' = parts /\ strings' = strings
      /\ nextLineStart' = nextLineStart /\ path' = path
      /\ Scan /\ i >= 0
  BY SMTT(30) DEF ScanPath, Scan, listVars
<1>2. /\ path # <<>> /\ Arrived(found, strings, nextLineStart, parts)
      /\ Len(strings) = Len(found) /\ Len(parts) < Len(found)
      /\ \A c \in Counters : c = found[Len(parts) + 1] => path = PathOf(c) /\ Scanned(c)
  <2>1. i # -1
    BY <1>1, SMTT(30)
  <2> QED
    BY <2>1, Zenon DEF ArriveInv, Idle
<1>3. \A c \in Counters : c = found'[Len(parts') + 1] => path' = PathOf(c) /\ Scanned(c)'
  <2> SUFFICES ASSUME NEW c \in Counters, c = found[Len(parts) + 1]
               PROVE  path = PathOf(c) /\ Scanned(c)'
    BY <1>1, SMTT(30)
  <2>1. path = PathOf(c) /\ Scanned(c)
    BY <1>2, Zenon
  <2> QED
    BY <1>1, <2>1, PathsAreSymbols, ScanMoves, Zenon
<1>4. Arrived(found, strings, nextLineStart, parts)'
  BY <1>1, <1>2, Zenon DEF Arrived
<1> QED
  BY <1>1, <1>2, <1>3, <1>4, Zenon DEF ArriveInv

(* It ends with the parts of that counter.                                  *)
LEMMA ExtractDoneArrives ==
    ASSUME BufferInv, ArriveInv, ExtractDone
    PROVE  ArriveInv'
<1> DEFINE n == Len(parts)
           x == IF CannotParse THEN cannotParse ELSE Extracted
           q == Append(parts, x)
<1>1. /\ found' = found /\ parts' = q /\ strings' = strings
      /\ nextLineStart' = nextLineStart /\ path' = <<>>
      /\ i = -1 /\ path # <<>>
  BY SMTT(30) DEF ExtractDone, Parsed, StartParse, listVars
<1>2. /\ parts \in Seq(Parts) /\ found \in Seq(Counters) /\ strings \in Seq(Seq(Symbol))
      /\ \A k \in 1..n : parts[k] = PartsOf(found[k])
      /\ Len(strings) = Len(found) /\ n < Len(found)
      /\ \A c \in Counters : c = found[n + 1] => path = PathOf(c) /\ Scanned(c)
  BY <1>1, SMTT(30) DEF ArriveInv, Arrived, BufferInv
<1>3. n \in Nat /\ found[n + 1] \in Counters /\ n + 1 <= Len(strings)
  BY <1>2, SMTT(30)
<1>4. PICK c \in Counters : c = found[n + 1]
  BY <1>3, SMTT(30)
<1>5. x = PartsOf(c) /\ x \in Parts
  <2>1. path = PathOf(c) /\ Scanned(c) /\ Readable(c)
    BY <1>2, <1>4, PathsAreSymbols, Zenon
  <2>2. ~CannotParse /\ Extracted = PartsOf(c)
    BY <1>1, <2>1, ScanEnds, Zenon
  <2> QED
    BY <2>2, SMTT(30) DEF Parts
<1> HIDE DEF x
<1>6. /\ q \in Seq(Parts) /\ Len(q) = n + 1 /\ q[n + 1] = x
      /\ \A k \in 1..n : q[k] = parts[k]
  <2>1. x \in Parts
    BY <1>5, SMTT(30)
  <2>2. parts \in Seq(Parts)
    BY <1>2, SMTT(30)
  <2> QED
    BY ONLY <2>1, <2>2, AppendPlaces, SMTT(30)
<1> HIDE DEF n, q
<1>7. \A k \in 1..(n + 1) : q[k] = PartsOf(found[k])
  <2> SUFFICES ASSUME NEW k \in 1..(n + 1) PROVE q[k] = PartsOf(found[k])
    BY ZenonT(30)
  <2>1. CASE k = n + 1
    BY <1>4, <1>5, <1>6, <2>1, Zenon
  <2>2. CASE k # n + 1
    <3>1. k \in 1..n
      BY <1>3, <2>2, SMTT(30)
    <3> QED
      BY <1>2, <1>6, <3>1, Zenon
  <2> QED
    BY <2>1, <2>2, ZenonT(30)
<1>8. Arrived(found, strings, nextLineStart, q)
  <2>1. Arrived(found, strings, nextLineStart, parts)
    BY Zenon DEF ArriveInv
  <2> QED
    BY <1>3, <1>6, <1>7, <2>1, Zenon DEF Arrived
<1> QED
  BY <1>1, <1>8, Zenon DEF ArriveInv

(* Between two calls the parser has nothing left to look at.                *)
LEMMA IdleStep ==
    ASSUME Idle, [ExpandNext]_expandVars
    PROVE  Idle'
<1>1. CASE UNCHANGED pathVars
  BY <1>1, SMTT(30) DEF Idle, pathVars
<1>2. CASE Scan
  BY <1>2, SMTT(30) DEF Idle, Scan
<1>3. ASSUME NEW p, StartParse(p)
      PROVE  Idle'
  BY <1>3, SMTT(30) DEF Idle, StartParse
<1> QED
  BY <1>1, <1>2, <1>3, ZenonT(30)
     DEF ExpandNext, ExpandWildCardPath, Decode, Extract, ScanPath, ExtractDone,
         ExpandReturn, Restart, expandVars

(* Every step of an expansion.                                              *)
LEMMA ExpandInvStep ==
    ASSUME ExpandInv, [ExpandNext]_expandVars
    PROVE  ExpandInv'
<1>1. BufferInv /\ Idle /\ BufferInv' /\ Idle'
  BY BufferStep, IdleStep, SMTT(30) DEF ExpandInv
<1> SUFFICES ASSUME OneUnit' PROVE ArriveInv'
  BY <1>1, SMTT(30) DEF ExpandInv
<1>2. CASE ExpandWildCardPath
  <2>1. /\ found = <<>> /\ path = <<>> /\ path' = path /\ parts' = parts
        /\ nextLineStart' = 0 /\ strings' = <<>>
    BY <1>2, ZenonT(30) DEF ExpandWildCardPath, StartList, pathVars
  <2>2. OneUnit
    <3>1. Padded(<<NUL>>, buf)
      BY <1>1, <2>1, EmptyList, Zenon DEF BufferInv, Filled
    <3>2. \A k \in DOMAIN buf : buf[k] = NUL
      BY ONLY <3>1, SMTT(30) DEF Padded
    <3>3. NUL # Low
      BY SMTT(30) DEF NUL, Low
    <3> QED
      BY <3>2, <3>3, Zenon DEF OneUnit
  <2>3. /\ parts \in Seq(Parts) /\ Len(parts) <= Len(strings) /\ Len(strings) <= Len(found)
        /\ strings \in Seq(Seq(Symbol))
    BY <2>2, ZenonT(30) DEF ExpandInv, ArriveInv, Arrived
  <2>4. parts = <<>>
    BY <2>1, <2>3, SMTT(30)
  <2>5. Arrived(found', <<>>, 0, <<>>)
    <3>1. found' \in Seq(Counters)
      BY <1>1, SMTT(30) DEF BufferInv
    <3> QED
      BY <3>1, ArrivedFresh, Zenon
  <2> QED
    BY <2>1, <2>4, <2>5, Zenon DEF ArriveInv
<1>3. CASE ExpandReturn \/ Restart
  <2>1. /\ path' = <<>> /\ parts' = <<>> /\ found' = <<>>
        /\ nextLineStart' = 0 /\ strings' = <<>>
    BY <1>3, ZenonT(30) DEF ExpandReturn, Restart, Expanded, StartList, StartParse, pathVars
  <2>2. Arrived(<<>>, <<>>, 0, <<>>)
    BY ArrivedFresh, EmptyList, Zenon
  <2> QED
    BY <2>1, <2>2, Zenon DEF ArriveInv
<1>4. CASE UNCHANGED buf /\ (Decode \/ Extract \/ ScanPath \/ ExtractDone)
  <2>1. OneUnit /\ ArriveInv
    BY <1>4, SMTT(30) DEF OneUnit, ExpandInv
  <2> QED
    BY <1>1, <1>4, <2>1, DecodeArrives, ExtractArrives, ScanArrives, ExtractDoneArrives, Zenon
<1>5. CASE UNCHANGED expandVars
  <2>1. OneUnit /\ ArriveInv
    BY <1>5, ZenonT(30) DEF OneUnit, ExpandInv, expandVars, listVars
  <2> QED
    BY <1>5, <2>1, Zenon
       DEF ArriveInv, Arrived, Scanned, Seen, expandVars, listVars, pathVars
<1> QED
  BY <1>2, <1>3, <1>4, <1>5, SMTT(30)
     DEF ExpandNext, Decode, NextString, Extract, ScanPath, ExtractDone, listVars

(* The counters an expansion finds arrive in addItem in their order and     *)
(* with the parts they have, for lists of any length and names of any       *)
(* length, as long as no name has a character of two units.                 *)
THEOREM OneUnitPathsAreRead == ExpandSpec => []OneUnitPathsArrive
<1>1. ExpandInv => OneUnitPathsArrive
  <2> SUFFICES ASSUME ExpandInv, OneUnit, Expanded
               PROVE  parts = [k \in DOMAIN found |-> PartsOf(found[k])]
    BY ZenonT(60) DEF OneUnitPathsArrive, PathsArrive, OneUnit
  <2>1. /\ BufferInv /\ ArriveInv /\ Arrived(found, strings, nextLineStart, parts)
        /\ found \in Seq(Counters) /\ parts \in Seq(Parts)
        /\ \A k \in 1..Len(parts) : parts[k] = PartsOf(found[k])
    BY ZenonT(30) DEF ExpandInv, ArriveInv, Arrived, BufferInv
  <2>2. Len(strings) = Len(found) /\ Len(parts) = Len(strings)
    BY <2>1, AllDecoded, Zenon DEF Expanded
  <2>3. /\ parts = [k \in 1..Len(parts) |-> parts[k]]
        /\ DOMAIN found = 1..Len(parts)
    BY <2>1, <2>2, SMTT(30)
  <2> QED
    BY <2>1, <2>3, ZenonT(30)
<1> QED
  BY <1>1, ExpandInvInit, ExpandInvStep, PTL DEF ExpandSpec
=============================================================================
