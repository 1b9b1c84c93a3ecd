-------------------------- MODULE CounterPathProofs --------------------------
(***************************************************************************)
(* Proofs about the scan of extractCounterInfoFromCounterPath, for every   *)
(* set of characters and every path; and that it takes a path of           *)
(* formatPath apart into the names the path was made of.                   *)
(***************************************************************************)
EXTENDS CounterPath, SequenceTheorems, TLAPS

(* The order of the borders found so far.                                   *)
BordersOrdered ==
    /\ \A b \in Border : border[b] # -1 => border[b] > i
    /\ border["leftComputer"] # -1 =>
         border["leftObject"] # -1 /\ border["leftComputer"] < border["leftObject"]
    /\ border["leftObject"] # -1 =>
         border["leftCounter"] # -1 /\ border["leftObject"] < border["leftCounter"]
    /\ border["rightInstance"] # -1 =>
         border["leftCounter"] # -1 /\ border["rightInstance"] < border["leftCounter"]
    /\ border["rightObject"] = border["leftInstance"]
    /\ border["leftInstance"] # -1 =>
         /\ border["rightInstance"] # -1
         /\ border["leftInstance"] < border["rightInstance"]
         /\ border["leftObject"] # -1 => border["leftObject"] < border["leftInstance"]

(* Between the counter and an open bracket, the first bracket that closes   *)
(* was taken as the end of the instance.                                    *)
BracketSeen ==
    border["leftCounter"] # -1 /\ bracketLevel > 0 => border["rightInstance"] # -1

PathInv == PathTypeOK /\ BordersOrdered /\ BracketSeen

(* A call of extractCounterInfoFromCounterPath starts with no border set.   *)
LEMMA StartInv ==
    ASSUME NEW p \in Seq(Symbol), StartParse(p)
    PROVE  PathInv'
<1>1. Len(p) \in Nat
  OBVIOUS
<1>2. \A b \in Border : border'[b] = -1
  BY DEF StartParse
<1>3. PathTypeOK'
  BY <1>1, SMTT(30) DEF StartParse, PathTypeOK
<1> QED
  BY <1>2, <1>3 DEF StartParse, PathInv, BordersOrdered, BracketSeen, Border

(* One turn of the loop keeps the borders in order.                         *)
LEMMA ScanInv ==
    ASSUME PathInv, Scan
    PROVE  PathInv'
<1> USE DEF PathInv
<1>0. /\ path' = path /\ i' = i - 1 /\ i >= 0
      /\ Len(path) \in Nat /\ i \in 0..(Len(path) - 1) /\ bracketLevel \in Int
      /\ border \in [Border -> -1..(Len(path) - 1)]
  BY DEF Scan, PathTypeOK
<1>1. ASSUME border' = border, bracketLevel' \in Int,
             bracketLevel' > 0 /\ border["leftCounter"] # -1 => border["rightInstance"] # -1
      PROVE  PathInv'
  <2>1. PathTypeOK'
    BY <1>0, <1>1 DEF PathTypeOK
  <2>2. BordersOrdered'
    BY <1>0, <1>1 DEF BordersOrdered, Border
  <2> QED
    BY <1>1, <2>1, <2>2 DEF BracketSeen
<1>2. CASE ScanBackslash
  <2>1. CASE border' = border
    BY <1>1, <1>2, <1>0, <2>1 DEF ScanBackslash, BracketSeen
  <2>2. CASE border' # border
    <3>1. /\ bracketLevel = 0 /\ bracketLevel' = 0 /\ NextLeft \in Border
          /\ border[NextLeft] = -1 /\ border' = [border EXCEPT ![NextLeft] = i]
      BY <1>2, <2>2 DEF ScanBackslash, Unset, NextLeft, Border
    <3>2. PathTypeOK'
      BY <1>0, <3>1 DEF PathTypeOK
    <3>3. BracketSeen'
      BY <3>1 DEF BracketSeen
    <3>4. BordersOrdered'
      <4>1. CASE NextLeft = "leftCounter"
        BY <1>0, <3>1, <4>1 DEF BordersOrdered, Border
      <4>2. CASE NextLeft = "leftObject"
        <5>1. border["leftCounter"] # -1
          BY <4>2 DEF NextLeft, Unset
        <5> QED
          BY <1>0, <3>1, <4>2, <5>1 DEF BordersOrdered, Border
      <4>3. CASE NextLeft = "leftComputer"
        <5>1. border["leftObject"] # -1
          BY <4>3 DEF NextLeft, Unset
        <5> QED
          BY <1>0, <3>1, <4>3, <5>1 DEF BordersOrdered, Border
      <4> QED
        BY <4>1, <4>2, <4>3 DEF NextLeft
    <3> QED
      BY <3>2, <3>3, <3>4
  <2> QED
    BY <2>1, <2>2
<1>3. CASE ScanOpen
  <2>1. bracketLevel' = bracketLevel - 1
    BY <1>3 DEF ScanOpen
  <2>2. CASE border' = border
    BY <1>1, <1>0, <2>1, <2>2 DEF BracketSeen
  <2>3. CASE border' # border
    <3>1. /\ border["leftInstance"] = -1 /\ border["leftObject"] = -1
          /\ border["leftCounter"] # -1 /\ bracketLevel' = 0
          /\ border' = [border EXCEPT !["leftInstance"] = i, !["rightObject"] = i]
      BY <1>3, <2>3, Zenon DEF ScanOpen, Unset
    <3>2. border["rightInstance"] # -1
      BY <1>0, <2>1, <3>1 DEF BracketSeen
    <3>3. PathTypeOK'
      BY <1>0, <3>1 DEF PathTypeOK, Border
    <3>4. BordersOrdered'
      BY <1>0, <3>1, <3>2 DEF BordersOrdered, Border
    <3> QED
      BY <3>1, <3>3, <3>4 DEF BracketSeen
  <2> QED
    BY <2>2, <2>3
<1>4. CASE ScanClose
  <2>1. bracketLevel' = bracketLevel + 1
    BY <1>4 DEF ScanClose
  <2>2. CASE border' = border
    <3>1. bracketLevel' > 0 /\ border["leftCounter"] # -1 => border["rightInstance"] # -1
      <4>1. SUFFICES ASSUME bracketLevel' > 0, border["leftCounter"] # -1,
                            border["rightInstance"] = -1
                     PROVE  FALSE
        OBVIOUS
      <4>2. bracketLevel = 0
        BY <1>0, <2>1, <4>1 DEF BracketSeen
      <4>3. border' = [border EXCEPT !["rightInstance"] = i]
        BY <1>4, <4>1, <4>2 DEF ScanClose, Unset
      <4> QED
        BY <1>0, <2>2, <4>1, <4>3 DEF Border
    <3> QED
      BY <1>1, <1>0, <2>1, <2>2, <3>1
  <2>3. CASE border' # border
    <3>1. /\ border["rightInstance"] = -1 /\ border["leftCounter"] # -1
          /\ border' = [border EXCEPT !["rightInstance"] = i]
      BY <1>4, <2>3 DEF ScanClose, Unset
    <3>2. PathTypeOK'
      BY <1>0, <2>1, <3>1 DEF PathTypeOK, Border
    <3>3. BordersOrdered'
      BY <1>0, <3>1 DEF BordersOrdered, Border
    <3> QED
      BY <1>0, <3>1, <3>2, <3>3 DEF BracketSeen, Border
  <2> QED
    BY <2>2, <2>3
<1>5. CASE ScanOther
  BY <1>0, <1>1, <1>5 DEF ScanOther, BracketSeen
<1> QED
  BY <1>2, <1>3, <1>4, <1>5 DEF Scan

(* The invariant holds for every sequence of calls of the parser.           *)
LEMMA PathInvariant == PathSpec => []PathInv
<1>1. PathInit => PathInv
  <2> SUFFICES ASSUME PathInit PROVE PathInv
    OBVIOUS
  <2>1. path = <<>> /\ i = -1 /\ bracketLevel = 0 /\ \A b \in Border : border[b] = -1
    BY DEF PathInit
  <2>2. PathTypeOK
    BY DEF PathInit, PathTypeOK
  <2> QED
    BY <2>1, <2>2 DEF PathInv, BordersOrdered, BracketSeen, Border
<1>2. PathInv /\ [PathNext]_pathVars => PathInv'
  <2> SUFFICES ASSUME PathInv, [PathNext]_pathVars PROVE PathInv'
    OBVIOUS
  <2>1. ASSUME NEW p \in Input, StartParse(p) PROVE PathInv'
    BY <2>1, StartInv, SymbolAssumption
  <2>2. ASSUME StartParse(<<>>) PROVE PathInv'
    <3>1. <<>> \in Seq(Symbol)
      OBVIOUS
    <3> QED
      BY <2>2, <3>1, StartInv, Zenon
  <2>3. CASE UNCHANGED pathVars
    BY <2>3 DEF pathVars, PathInv, PathTypeOK, BordersOrdered, BracketSeen
  <2> QED
    BY <2>1, <2>2, <2>3, ScanInv DEF PathNext
<1> QED
  BY <1>1, <1>2, PTL DEF PathSpec

(* The indices extractCounterInfoFromCounterPath computes are indices of    *)
(* the path.                                                                *)
THEOREM PathTypeCorrect == PathSpec => []PathTypeOK
<1>1. PathInv => PathTypeOK
  BY DEF PathInv
<1> QED
  BY <1>1, PathInvariant, PTL

(* For every path, a parse that succeeds slices forwards and without        *)
(* overlap (lines 62, 66, 70 and 71 of utils.go).                           *)
THEOREM PartsAreInOrder == PathSpec => []PartsInOrder
<1>1. PathInv => PartsInOrder
  <2> SUFFICES ASSUME PathInv, Parsed, ~CannotParse
               PROVE  /\ border["leftComputer"] < border["leftObject"]
                      /\ border["leftObject"] < objectEnd
                      /\ objectEnd <= border["leftCounter"]
                      /\ ~Unset("leftInstance") =>
                           /\ objectEnd = border["leftInstance"]
                           /\ border["leftInstance"] < border["rightInstance"]
                           /\ border["rightInstance"] < border["leftCounter"]
    BY DEF PartsInOrder
  <2>1. /\ border \in [Border -> -1..(Len(path) - 1)] /\ Len(path) \in Nat
        /\ border["leftObject"] # -1
    BY DEF PathInv, PathTypeOK, CannotParse, Unset
  <2>2. /\ \A b \in Border : border[b] \in Int /\ border[b] >= -1
        /\ border["leftCounter"] # -1
    BY <2>1 DEF PathInv, BordersOrdered
  <2> QED
    BY <2>1, <2>2 DEF PathInv, BordersOrdered, Border, Unset, objectEnd
<1> QED
  BY <1>1, PathInvariant, PTL
-----------------------------------------------------------------------------
(* The sequence x is part of p, after the first at symbols of p.            *)
Puts(p, x, at) ==
    /\ x \in Seq(Symbol) /\ at \in Nat /\ at + Len(x) <= Len(p)
    /\ \A j \in 1..Len(x) : p[at + j] = x[j]

(* Of two sequences put together, each is in its place.                     *)
LEMMA PutNext ==
    ASSUME NEW s \in Seq(Symbol), NEW t \in Seq(Symbol), NEW p, p = s \o t
    PROVE  /\ p \in Seq(Symbol) /\ Len(p) = Len(s) + Len(t)
           /\ Puts(p, s, 0) /\ Puts(p, t, Len(s))
<1>1. Len(s) \in Nat /\ Len(t) \in Nat
  OBVIOUS
<1>2. /\ p \in Seq(Symbol) /\ Len(p) = Len(s) + Len(t)
      /\ \A j \in 1..Len(s) : p[j] = s[j]
      /\ \A j \in 1..Len(t) : p[Len(s) + j] = t[j]
  <2>1. /\ p \in Seq(Symbol) /\ Len(p) = Len(s) + Len(t)
        /\ \A j \in 1..(Len(s) + Len(t)) :
             p[j] = IF j <= Len(s) THEN s[j] ELSE t[j - Len(s)]
    BY ConcatProperties, Zenon
  <2>2. ASSUME NEW j \in 1..Len(t) PROVE p[Len(s) + j] = t[j]
    <3>1. /\ Len(s) + j \in 1..(Len(s) + Len(t)) /\ ~(Len(s) + j <= Len(s))
          /\ Len(s) + j - Len(s) = j
      BY <1>1
    <3> QED
      BY <2>1, <3>1
  <2> QED
    BY <1>1, <2>1, <2>2
<1>3. \A j \in 1..Len(s) : p[0 + j] = s[j]
  BY <1>1, <1>2
<1> QED
  BY <1>1, <1>2, <1>3 DEF Puts

(* A part of a part is a part.                                              *)
LEMMA PutWithin ==
    ASSUME NEW p, Len(p) \in Nat, NEW s, NEW at, NEW x, NEW in, Puts(p, s, at), Puts(s, x, in)
    PROVE  Puts(p, x, at + in)
<1>1. /\ Len(s) \in Nat /\ Len(x) \in Nat /\ at \in Nat /\ in \in Nat
      /\ at + Len(s) <= Len(p) /\ in + Len(x) <= Len(s)
  BY DEF Puts
<1>2. \A j \in 1..Len(x) : p[at + in + j] = x[j]
  <2> SUFFICES ASSUME NEW j \in 1..Len(x) PROVE p[at + in + j] = x[j]
    OBVIOUS
  <2>1. in + j \in 1..Len(s) /\ at + in + j = at + (in + j)
    BY <1>1
  <2> QED
    BY <2>1, Zenon DEF Puts
<1> QED
  BY <1>1, <1>2 DEF Puts

(* The place of a single symbol.                                            *)
LEMMA PutOne ==
    ASSUME NEW p, NEW x, NEW at, Puts(p, <<x>>, at)
    PROVE  p[at + 1] = x
<1>1. Len(<<x>>) = 1 /\ <<x>>[1] = x /\ 1 \in 1..1
  OBVIOUS
<1> QED
  BY <1>1 DEF Puts

(* One symbol and two symbols as sequences.                                 *)
LEMMA PutTwo ==
    ASSUME NEW x \in Symbol, NEW y \in Symbol
    PROVE  /\ <<x>> \in Seq(Symbol) /\ Len(<<x>>) = 1
           /\ <<x, y>> \in Seq(Symbol) /\ Len(<<x, y>>) = 2
           /\ Puts(<<x, y>>, <<x>>, 0) /\ Puts(<<x, y>>, <<y>>, 1)
<1>1. /\ <<x>> \in Seq(Symbol) /\ <<y>> \in Seq(Symbol) /\ <<x, y>> \in Seq(Symbol)
      /\ Len(<<x>>) = 1 /\ Len(<<y>>) = 1 /\ Len(<<x, y>>) = 2
      /\ <<x>>[1] = x /\ <<y>>[1] = y /\ <<x, y>>[1] = x /\ <<x, y>>[2] = y
  OBVIOUS
<1> DEFINE u == <<x>>
           v == <<y>>
           w == <<x, y>>
<1>2. /\ u \in Seq(Symbol) /\ v \in Seq(Symbol) /\ w \in Seq(Symbol)
      /\ Len(u) = 1 /\ Len(v) = 1 /\ Len(w) = 2
      /\ u[1] = x /\ v[1] = y /\ w[1] = x /\ w[2] = y
  BY <1>1
<1> HIDE DEF u, v, w
<1>3. Puts(w, u, 0) /\ Puts(w, v, 1)
  <2>1. \A j \in 1..1 : j = 1 /\ 0 + j = 1 /\ 1 + j = 2
    OBVIOUS
  <2> QED
    BY <1>2, <2>1 DEF Puts
<1> QED
  BY <1>1, <1>3 DEF u, v, w

(* Where formatPath puts the parts of a counter, in Go's indices.           *)
Remote(c) == c.computer \notin {<<>>, localhost}
HasInstance(c) == c.instance # emptyInstance
ObjectStart(c) == IF Remote(c) THEN Len(c.computer) + 2 ELSE 0
ObjectEnd(c) == ObjectStart(c) + Len(c.object) + 1
InstanceEnd(c) == ObjectEnd(c) + Len(c.instance) + 1
CounterStart(c) == IF HasInstance(c) THEN InstanceEnd(c) + 1 ELSE ObjectEnd(c)

(* p is the path of c from the object on, after the first at symbols.       *)
PlacesFrom(p, c, at) ==
    LET o == at + Len(c.object) + 1
        e == o + Len(c.instance) + 1
        z == IF HasInstance(c) THEN e + 1 ELSE o
    IN  /\ p \in Seq(Symbol) /\ Len(p) = z + 1 + Len(c.counter)
        /\ Puts(p, <<"\\">>, at) /\ Puts(p, c.object, at + 1)
        /\ HasInstance(c) => /\ Puts(p, <<"(">>, o) /\ Puts(p, c.instance, o + 1)
                             /\ Puts(p, <<")">>, e)
        /\ Puts(p, <<"\\">>, z) /\ Puts(p, c.counter, z + 1)

Places(p, c) ==
    /\ PlacesFrom(p, c, ObjectStart(c))
    /\ Remote(c) => /\ Puts(p, <<"\\">>, 0) /\ Puts(p, <<"\\">>, 1)
                    /\ Puts(p, c.computer, 2)

(* The part of a path that follows the computer.                            *)
Local(c) ==
    IF c.instance = emptyInstance
    THEN <<"\\">> \o c.object \o <<"\\">> \o c.counter
    ELSE <<"\\">> \o c.object \o <<"(">> \o c.instance \o <<")", "\\">> \o c.counter

(* A path is the local path, after the computer if there is one.            *)
LEMMA PathIsLocal ==
    ASSUME NEW c
    PROVE  PathOf(c) = IF Remote(c) THEN <<"\\", "\\">> \o c.computer \o Local(c) ELSE Local(c)
  BY Zenon DEF PathOf, formatPath, Local, Remote

(* The names of a readable counter are strings.                             *)
LEMMA NamesAreSymbols ==
    ASSUME NEW c, Readable(c)
    PROVE  /\ c.computer \in Seq(Symbol) /\ c.object \in Seq(Symbol)
           /\ c.instance \in Seq(Symbol) /\ c.counter \in Seq(Symbol)
  BY DEF Readable

(* Of three sequences put together, each is in its place.                   *)
LEMMA ThreeParts ==
    ASSUME NEW s \in Seq(Symbol), NEW t \in Seq(Symbol), NEW u \in Seq(Symbol),
           NEW p, p = s \o t \o u
    PROVE  /\ p \in Seq(Symbol) /\ Len(p) = Len(s) + Len(t) + Len(u)
           /\ Puts(p, s, 0) /\ Puts(p, t, Len(s)) /\ Puts(p, u, Len(s) + Len(t))
<1> DEFINE st == s \o t
<1>1. Len(s) \in Nat /\ Len(t) \in Nat /\ Len(u) \in Nat
  OBVIOUS
<1>2. /\ st \in Seq(Symbol) /\ Len(st) = Len(s) + Len(t)
      /\ Puts(st, s, 0) /\ Puts(st, t, Len(s))
  BY ONLY PutNext, s \in Seq(Symbol), t \in Seq(Symbol), Zenon
<1>3. p = st \o u
  OBVIOUS
<1> HIDE DEF st
<1>4. /\ p \in Seq(Symbol) /\ Len(p) = Len(st) + Len(u)
      /\ Puts(p, st, 0) /\ Puts(p, u, Len(st))
  BY <1>2, <1>3, PutNext, Zenon
<1>5. Len(p) \in Nat /\ 0 + 0 = 0 /\ 0 + Len(s) = Len(s)
  BY ONLY <1>1, <1>2, <1>4
<1>6. Puts(p, s, 0 + 0) /\ Puts(p, t, 0 + Len(s))
  BY ONLY <1>2, <1>4, <1>5, PutWithin, Zenon
<1> QED
  BY <1>2, <1>4, <1>5, <1>6, Zenon

(* A part of the first part has the same place in the whole.                *)
LEMMA PutsAt ==
    ASSUME NEW p, Len(p) \in Nat, NEW s, Puts(p, s, 0), NEW x, NEW at, Puts(s, x, at)
    PROVE  Puts(p, x, at)
<1>1. Puts(p, x, 0 + at)
  BY PutWithin, Zenon
<1>2. 0 + at = at
  BY DEF Puts
<1> QED
  BY <1>1, <1>2, Zenon

(* Where formatPath puts object, instance and counter.                      *)
LEMMA LocalPlaces ==
    ASSUME NEW c, Readable(c)
    PROVE  PlacesFrom(Local(c), c, 0)
<1> DEFINE m == Len(c.object)
           n == Len(c.instance)
           q == Len(c.counter)
           o == 0 + m + 1
           e == o + n + 1
           z == IF HasInstance(c) THEN e + 1 ELSE o
           l == Local(c)
           bs == <<"\\">>
           op == <<"(">>
           cl == <<")">>
           cb == <<")", "\\">>
<1>1. /\ m \in Nat /\ n \in Nat /\ q \in Nat
      /\ c.object \in Seq(Symbol) /\ c.instance \in Seq(Symbol) /\ c.counter \in Seq(Symbol)
  BY NamesAreSymbols
<1>2. /\ bs \in Seq(Symbol) /\ op \in Seq(Symbol) /\ cb \in Seq(Symbol)
      /\ Len(bs) = 1 /\ Len(op) = 1 /\ Len(cb) = 2
      /\ Puts(cb, cl, 0) /\ Puts(cb, bs, 1)
  BY SymbolAssumption, PutTwo
<1>3. l = IF HasInstance(c) THEN bs \o c.object \o op \o c.instance \o cb \o c.counter
          ELSE bs \o c.object \o bs \o c.counter
  BY Zenon DEF Local, HasInstance
<1>4. SUFFICES /\ l \in Seq(Symbol) /\ Len(l) = z + 1 + q
               /\ Puts(l, bs, 0) /\ Puts(l, c.object, 0 + 1)
               /\ HasInstance(c) =>
                    Puts(l, op, o) /\ Puts(l, c.instance, o + 1) /\ Puts(l, cl, e)
               /\ Puts(l, bs, z) /\ Puts(l, c.counter, z + 1)
  BY Zenon DEF PlacesFrom
<1> HIDE DEF bs, op, cl, cb, l
<1>5. CASE HasInstance(c)
  <2> DEFINE a == bs \o c.object \o op
             b == a \o c.instance \o cb
  <2>1. /\ a \in Seq(Symbol) /\ Len(a) = Len(bs) + Len(c.object) + Len(op)
        /\ Puts(a, bs, 0) /\ Puts(a, c.object, Len(bs))
        /\ Puts(a, op, Len(bs) + Len(c.object))
    BY ONLY <1>1, <1>2, ThreeParts, Zenon
  <2> HIDE DEF a
  <2>2. /\ b \in Seq(Symbol) /\ Len(b) = Len(a) + Len(c.instance) + Len(cb)
        /\ Puts(b, a, 0) /\ Puts(b, c.instance, Len(a))
        /\ Puts(b, cb, Len(a) + Len(c.instance))
    BY ONLY <1>1, <1>2, <2>1, ThreeParts, Zenon
  <2>3. l = b \o c.counter
    BY <1>3, <1>5, Zenon DEF a
  <2> HIDE DEF b
  <2>4. /\ l \in Seq(Symbol) /\ Len(l) = Len(b) + Len(c.counter)
        /\ Puts(l, b, 0) /\ Puts(l, c.counter, Len(b))
    BY ONLY <1>1, <2>2, <2>3, PutNext, Zenon
  <2> HIDE DEF m, n, q
  <2>5. /\ Len(a) = o + 1 /\ Len(b) = z + 1 /\ Len(l) = z + 1 + q /\ Len(l) \in Nat
        /\ Len(bs) = 0 + 1 /\ Len(bs) + m = o /\ Len(a) + n = e /\ e + 0 = e /\ z = e + 1
        /\ Len(b) \in Nat
    <3>1. Len(a) = Len(bs) + m + Len(op) /\ Len(b) = Len(a) + n + Len(cb) /\ Len(l) = Len(b) + q
      BY <2>1, <2>2, <2>4, Zenon DEF m, n, q
    <3>2. Len(bs) = 1 /\ Len(op) = 1 /\ Len(cb) = 2 /\ m \in Nat /\ n \in Nat /\ q \in Nat
      BY <1>1, <1>2, Zenon
    <3> QED
      BY ONLY <1>5, <3>1, <3>2
  <2> HIDE DEF o, e, z
  <2>6. /\ Puts(l, a, 0) /\ Puts(l, c.instance, o + 1) /\ Puts(l, cb, e)
    BY <2>2, <2>4, <2>5, PutsAt, Zenon DEF n
  <2>7. /\ Puts(l, bs, 0) /\ Puts(l, c.object, 0 + 1) /\ Puts(l, op, o)
    BY <2>1, <2>5, <2>6, PutsAt, Zenon DEF m
  <2>8. Puts(l, cl, e + 0) /\ Puts(l, bs, e + 1)
    BY ONLY <1>2, <2>5, <2>6, PutWithin, Zenon
  <2> QED
    BY <2>4, <2>5, <2>6, <2>7, <2>8, Zenon
<1>6. CASE ~HasInstance(c)
  <2> DEFINE a == bs \o c.object \o bs
  <2>1. /\ a \in Seq(Symbol) /\ Len(a) = Len(bs) + Len(c.object) + Len(bs)
        /\ Puts(a, bs, 0) /\ Puts(a, c.object, Len(bs))
        /\ Puts(a, bs, Len(bs) + Len(c.object))
    BY ONLY <1>1, <1>2, ThreeParts, Zenon
  <2>2. l = a \o c.counter
    BY <1>3, <1>6, Zenon
  <2> HIDE DEF a
  <2>3. /\ l \in Seq(Symbol) /\ Len(l) = Len(a) + Len(c.counter)
        /\ Puts(l, a, 0) /\ Puts(l, c.counter, Len(a))
    BY ONLY <1>1, <2>1, <2>2, PutNext, Zenon
  <2> HIDE DEF m, n, q
  <2>4. /\ Len(a) = z + 1 /\ Len(l) = z + 1 + q /\ Len(l) \in Nat
        /\ Len(bs) = 0 + 1 /\ Len(bs) + m = z
    <3>1. Len(a) = Len(bs) + m + Len(bs) /\ Len(l) = Len(a) + q
      BY <2>1, <2>3, Zenon DEF m, q
    <3>2. Len(bs) = 1 /\ m \in Nat /\ q \in Nat
      BY <1>1, <1>2, Zenon
    <3> QED
      BY ONLY <1>6, <3>1, <3>2
  <2> HIDE DEF o, e, z
  <2>5. Puts(l, bs, 0) /\ Puts(l, c.object, 0 + 1) /\ Puts(l, bs, z)
    BY <2>1, <2>3, <2>4, PutsAt, Zenon DEF m
  <2> QED
    BY <1>6, <2>3, <2>4, <2>5, Zenon
<1> QED
  BY <1>5, <1>6, Zenon

(* The computer in front moves them all by its length.                      *)
LEMMA PlacesShift ==
    ASSUME NEW c, Readable(c), NEW l, PlacesFrom(l, c, 0), NEW p \in Seq(Symbol), NEW at,
           Puts(p, l, at), Len(p) = at + Len(l)
    PROVE  PlacesFrom(p, c, at)
<1> DEFINE m == Len(c.object)
           n == Len(c.instance)
           q == Len(c.counter)
           O(a) == a + m + 1
           E(a) == O(a) + n + 1
           Z(a) == IF HasInstance(c) THEN E(a) + 1 ELSE O(a)
           Holds(s, a) ==
             /\ s \in Seq(Symbol) /\ Len(s) = Z(a) + 1 + q
             /\ Puts(s, <<"\\">>, a) /\ Puts(s, c.object, a + 1)
             /\ HasInstance(c) =>
                  Puts(s, <<"(">>, O(a)) /\ Puts(s, c.instance, O(a) + 1) /\ Puts(s, <<")">>, E(a))
             /\ Puts(s, <<"\\">>, Z(a)) /\ Puts(s, c.counter, Z(a) + 1)
<1>1. Holds(l, 0)
  BY Zenon DEF PlacesFrom
<1>2. SUFFICES Holds(p, at)
  BY Zenon DEF PlacesFrom
<1>3. m \in Nat /\ n \in Nat /\ q \in Nat /\ at \in Nat /\ Len(p) \in Nat
  BY NamesAreSymbols DEF Puts
<1> HIDE DEF m, n, q
<1>4. /\ at + 0 = at /\ at + (0 + 1) = at + 1 /\ at + O(0) = O(at)
      /\ at + (O(0) + 1) = O(at) + 1 /\ at + E(0) = E(at)
  BY ONLY <1>3
<1>5. at + Z(0) = Z(at) /\ at + (Z(0) + 1) = Z(at) + 1 /\ at + (Z(0) + 1 + q) = Z(at) + 1 + q
  <2>1. CASE HasInstance(c)
    BY ONLY <1>3, <2>1
  <2>2. CASE ~HasInstance(c)
    BY ONLY <1>3, <2>2
  <2> QED
    BY <2>1, <2>2
<1> HIDE DEF O, E, Z
<1>6. \A x, in : Puts(l, x, in) => Puts(p, x, at + in)
  BY ONLY <1>3, Puts(p, l, at), PutWithin, Zenon
<1> QED
  BY <1>1, <1>4, <1>5, <1>6, Zenon

(* Where formatPath puts the names of a counter.                            *)
LEMMA PathPlaces ==
    ASSUME NEW c, Readable(c)
    PROVE  Places(PathOf(c), c)
<1> DEFINE p == PathOf(c)
           l == Local(c)
           bb == <<"\\", "\\">>
           h == Len(c.computer)
<1>1. PlacesFrom(l, c, 0) /\ l \in Seq(Symbol) /\ Len(l) \in Nat
  <2>1. PlacesFrom(l, c, 0) /\ l \in Seq(Symbol)
    BY LocalPlaces, Zenon DEF PlacesFrom
  <2> QED
    BY <2>1
<1>2. /\ bb \in Seq(Symbol) /\ Len(bb) = 2
      /\ Puts(bb, <<"\\">>, 0) /\ Puts(bb, <<"\\">>, 1)
  BY SymbolAssumption, PutTwo
<1>3. p = IF Remote(c) THEN bb \o c.computer \o l ELSE l
  BY PathIsLocal, Zenon
<1>4. h \in Nat /\ c.computer \in Seq(Symbol)
  BY NamesAreSymbols
<1> HIDE DEF l, bb, p
<1>5. CASE Remote(c)
  <2>1. /\ p \in Seq(Symbol) /\ Len(p) = Len(bb) + Len(c.computer) + Len(l)
        /\ Puts(p, bb, 0) /\ Puts(p, c.computer, Len(bb))
        /\ Puts(p, l, Len(bb) + Len(c.computer))
    <3> DEFINE r == bb \o c.computer \o l
    <3>1. p = r
      BY <1>3, <1>5, Zenon
    <3>2. bb \in Seq(Symbol) /\ c.computer \in Seq(Symbol) /\ l \in Seq(Symbol)
      BY <1>1, <1>2, <1>4
    <3>3. /\ r \in Seq(Symbol) /\ Len(r) = Len(bb) + Len(c.computer) + Len(l)
          /\ Puts(r, bb, 0) /\ Puts(r, c.computer, Len(bb))
          /\ Puts(r, l, Len(bb) + Len(c.computer))
      BY ONLY <3>2, ThreeParts, Zenon
    <3> QED
      BY ONLY <3>1, <3>3, Zenon
  <2> HIDE DEF h
  <2>2. ObjectStart(c) = Len(bb) + h /\ Len(p) = ObjectStart(c) + Len(l) /\ Len(p) \in Nat
    <3>1. Len(p) = Len(bb) + h + Len(l)
      BY <2>1, Zenon DEF h
    <3>2. ObjectStart(c) = h + 2
      BY <1>5, Zenon DEF ObjectStart, h
    <3> QED
      BY ONLY <1>1, <1>2, <1>4, <3>1, <3>2
  <2>3. Puts(p, l, ObjectStart(c))
    BY <2>1, <2>2, Zenon DEF h
  <2>4. PlacesFrom(p, c, ObjectStart(c))
    BY <1>1, <2>1, <2>2, <2>3, PlacesShift, Zenon
  <2>5. Puts(p, <<"\\">>, 0) /\ Puts(p, <<"\\">>, 1)
    BY <1>2, <2>1, <2>2, PutsAt, Zenon
  <2> QED
    BY <1>2, <2>1, <2>4, <2>5, Zenon DEF Places, p
<1>6. CASE ~Remote(c)
  BY <1>1, <1>3, <1>6, Zenon DEF Places, ObjectStart, p
<1> QED
  BY <1>5, <1>6

(* With d[k] the brackets the scan has open after the first k symbols of    *)
(* the path of c: where it meets a backslash outside brackets, and where    *)
(* the brackets of the instance are.                                        *)
Brackets(p, c, d) ==
    /\ d \in [0..Len(p) -> Nat] /\ d[Len(p)] = 0
    /\ d[CounterStart(c) + 1] = 0 /\ d[ObjectStart(c) + 1] = 0
    /\ Remote(c) => d[2] = 0
    /\ HasInstance(c) =>
         /\ d[ObjectEnd(c)] = 0 /\ d[InstanceEnd(c) + 1] = 0
         /\ \A k \in (ObjectEnd(c) + 1)..InstanceEnd(c) : d[k] >= 1
    /\ \A k \in 1..Len(p) :
         /\ d[k - 1] = d[k] + Weight(p[k])
         /\ p[k] = "\\" /\ d[k] = 0 =>
              \/ k = CounterStart(c) + 1 \/ k = ObjectStart(c) + 1
              \/ Remote(c) /\ k <= 2
         /\ ~HasInstance(c) /\ k <= CounterStart(c) => p[k] \notin {"(", ")"}

(* The brackets of the names give those of the path.                        *)
LEMMA PathBrackets ==
    ASSUME NEW c, Readable(c), NEW p, Places(p, c)
    PROVE  \E d : Brackets(p, c, d)
<1> DEFINE h == Len(c.computer)
           m == Len(c.object)
           n == Len(c.instance)
           q == Len(c.counter)
           L == Len(p)
           A == ObjectStart(c)
           O == ObjectEnd(c)
           E == InstanceEnd(c)
           Z == CounterStart(c)
           host == c.computer
           obj == c.object
           ins == c.instance
           ctr == c.counter
           R == Remote(c)
           I == HasInstance(c)
<1>1. /\ host \in Seq(Symbol) /\ obj \in Seq(Symbol) /\ ins \in Seq(Symbol) /\ ctr \in Seq(Symbol)
      /\ Plain(host) /\ Enclosed(obj) /\ Balanced(ins) /\ Enclosed(ctr)
      /\ ~I => Plain(obj)
  BY NamesAreSymbols DEF Readable, HasInstance
<1>2. h \in Nat /\ m \in Nat /\ n \in Nat /\ q \in Nat
  BY <1>1
<1>3. /\ A = (IF R THEN h + 2 ELSE 0) /\ O = A + m + 1 /\ E = O + n + 1
      /\ Z = (IF I THEN E + 1 ELSE O)
  BY Zenon DEF ObjectStart, ObjectEnd, InstanceEnd, CounterStart
<1>4. /\ Puts(p, <<"\\">>, A) /\ Puts(p, obj, A + 1) /\ Puts(p, <<"\\">>, Z) /\ Puts(p, ctr, Z + 1)
      /\ I => Puts(p, <<"(">>, O) /\ Puts(p, ins, O + 1) /\ Puts(p, <<")">>, E)
      /\ R => Puts(p, <<"\\">>, 0) /\ Puts(p, <<"\\">>, 1) /\ Puts(p, host, 2)
      /\ L = Z + 1 + q
  BY Zenon DEF Places, PlacesFrom, ObjectEnd, InstanceEnd, CounterStart
<1>5. /\ p[A + 1] = "\\" /\ p[Z + 1] = "\\"
      /\ I => p[O + 1] = "(" /\ p[E + 1] = ")"
      /\ R => p[0 + 1] = "\\" /\ p[1 + 1] = "\\"
  BY <1>4, PutOne, Zenon
<1>6. /\ \A j \in 1..m : p[A + 1 + j] = obj[j]
      /\ \A j \in 1..q : p[Z + 1 + j] = ctr[j]
      /\ I => \A j \in 1..n : p[O + 1 + j] = ins[j]
      /\ R => \A j \in 1..h : p[2 + j] = host[j]
  BY <1>4, Zenon DEF Puts
<1>7. /\ \A j \in 1..h : host[j] \notin {"\\", "(", ")"}
      /\ ~I => \A j \in 1..m : obj[j] \notin {"\\", "(", ")"}
  BY <1>1 DEF Plain
<1>8. PICK dO \in [0..m -> 0..m] :
        Depth(obj, dO) /\ \A j \in 1..m : obj[j] = "\\" => dO[j] > 0
  BY <1>1, Zenon DEF Enclosed
<1>9. PICK dI \in [0..n -> 0..n] : Depth(ins, dI)
  BY <1>1, Zenon DEF Balanced
<1>10. PICK dC \in [0..q -> 0..q] :
        Depth(ctr, dC) /\ \A j \in 1..q : ctr[j] = "\\" => dC[j] > 0
  BY <1>1, Zenon DEF Enclosed
<1>11. /\ dO[m] = 0 /\ dO[0] = 0 /\ dI[n] = 0 /\ dI[0] = 0 /\ dC[q] = 0 /\ dC[0] = 0
       /\ \A j \in 1..m : dO[j - 1] = dO[j] + Weight(obj[j])
       /\ \A j \in 1..n : dI[j - 1] = dI[j] + Weight(ins[j])
       /\ \A j \in 1..q : dC[j - 1] = dC[j] + Weight(ctr[j])
  BY <1>8, <1>9, <1>10, Zenon DEF Depth
<1> HIDE DEF h, m, n, q, L, A, O, E, Z, host, obj, ins, ctr, R, I
<1> DEFINE Open(k) == IF k <= A THEN 0
                      ELSE IF k <= O THEN dO[k - A - 1]
                      ELSE IF k > Z THEN dC[k - Z - 1]
                      ELSE IF k <= E THEN 1 + dI[k - O - 1] ELSE 0
           d == [k \in 0..L |-> Open(k)]
<1>12. /\ A \in Nat /\ O \in Nat /\ E \in Nat /\ Z \in Nat /\ L \in Nat
       /\ A < O /\ O <= Z /\ O < E /\ Z < L
       /\ O = A + m + 1 /\ E = O + n + 1 /\ L = Z + 1 + q
       /\ I => E < Z /\ Z = E + 1
       /\ ~I => Z = O
       /\ R => A = h + 2
       /\ ~R => A = 0
  <2>1. L = Z + 1 + q
    BY <1>4
  <2>2. A \in Nat /\ (R => A = h + 2) /\ (~R => A = 0)
    BY ONLY <1>2, <1>3
  <2>3. O \in Nat /\ E \in Nat /\ A < O /\ O < E /\ O = A + m + 1 /\ E = O + n + 1
    BY ONLY <1>2, <1>3, <2>2
  <2>4. CASE I
    BY ONLY <1>2, <1>3, <2>1, <2>2, <2>3, <2>4
  <2>5. CASE ~I
    BY ONLY <1>2, <1>3, <2>1, <2>2, <2>3, <2>5
  <2> QED
    BY <2>4, <2>5
<1>13. d \in [0..L -> Nat]
  <2>1. ASSUME NEW k \in 0..L, ~(k <= A), k <= O PROVE dO[k - A - 1] \in Nat
    <3>1. k - A - 1 \in 0..m
      BY ONLY <1>2, <1>12, <2>1
    <3> QED
      BY <1>8, <3>1
  <2>2. ASSUME NEW k \in 0..L, k > Z PROVE dC[k - Z - 1] \in Nat
    <3>1. k - Z - 1 \in 0..q
      BY ONLY <1>2, <1>12, <2>2
    <3> QED
      BY <1>10, <3>1
  <2>3. ASSUME NEW k \in 0..L, ~(k <= O), k <= E PROVE 1 + dI[k - O - 1] \in Nat
    <3>1. k - O - 1 \in 0..n
      BY ONLY <1>2, <1>12, <2>3
    <3>2. dI[k - O - 1] \in Nat
      BY <1>9, <3>1
    <3> QED
      BY <3>2
  <2> QED
    BY <2>1, <2>2, <2>3
<1>a. \A k \in 0..L : d[k] = Open(k)
  BY Zenon
<1> HIDE DEF d
<1>14. /\ \A k \in 0..A : d[k] = 0
       /\ I => d[E + 1] = 0
  <2>1. \A k \in 0..A : k \in 0..L /\ k <= A
    BY ONLY <1>12
  <2>2. I => /\ E + 1 \in 0..L /\ ~(E + 1 <= A) /\ ~(E + 1 <= O) /\ ~(E + 1 > Z)
             /\ ~(E + 1 <= E)
    BY ONLY <1>12
  <2> QED
    BY ONLY <1>a, <2>1, <2>2, Zenon
<1>15. \A j \in 0..m : d[A + 1 + j] = dO[j]
  <2> SUFFICES ASSUME NEW j \in 0..m PROVE d[A + 1 + j] = dO[j]
    OBVIOUS
  <2> DEFINE k == A + 1 + j
  <2>1. k \in 0..L /\ ~(k <= A) /\ k <= O /\ k - A - 1 = j
    BY ONLY <1>2, <1>12, j \in 0..m
  <2> HIDE DEF k
  <2>2. d[k] = dO[k - A - 1]
    BY ONLY <1>a, <2>1, Zenon
  <2>3. d[k] = dO[j]
    BY ONLY <2>1, <2>2, Zenon
  <2> QED
    BY ONLY <2>3, Zenon DEF k
<1>16. \A j \in 0..q : d[Z + 1 + j] = dC[j]
  <2> SUFFICES ASSUME NEW j \in 0..q PROVE d[Z + 1 + j] = dC[j]
    OBVIOUS
  <2> DEFINE k == Z + 1 + j
  <2>1. k \in 0..L /\ ~(k <= A) /\ ~(k <= O) /\ k > Z /\ k - Z - 1 = j
    BY ONLY <1>2, <1>12, j \in 0..q
  <2> HIDE DEF k
  <2>2. d[k] = dC[k - Z - 1]
    BY ONLY <1>a, <2>1, Zenon
  <2>3. d[k] = dC[j]
    BY ONLY <2>1, <2>2, Zenon
  <2> QED
    BY ONLY <2>3, Zenon DEF k
<1>17. I => \A j \in 0..n : d[O + 1 + j] = 1 + dI[j]
  <2> SUFFICES ASSUME I, NEW j \in 0..n PROVE d[O + 1 + j] = 1 + dI[j]
    OBVIOUS
  <2> DEFINE k == O + 1 + j
  <2>1. k \in 0..L /\ ~(k <= A) /\ ~(k <= O) /\ ~(k > Z) /\ k <= E /\ k - O - 1 = j
    BY ONLY I, <1>2, <1>12, j \in 0..n
  <2> HIDE DEF k
  <2>2. d[k] = 1 + dI[k - O - 1]
    BY ONLY <1>a, <2>1, Zenon
  <2>3. d[k] = 1 + dI[j]
    BY ONLY <2>1, <2>2, Zenon
  <2> QED
    BY ONLY <2>3, Zenon DEF k
<1> DEFINE Good(k) ==
      /\ d[k - 1] = d[k] + Weight(p[k])
      /\ p[k] = "\\" /\ d[k] = 0 => k = Z + 1 \/ k = A + 1 \/ (R /\ k <= 2)
      /\ ~I /\ k <= Z => p[k] \notin {"(", ")"}
<1>18. ASSUME NEW k \in 1..L, k <= A PROVE Good(k)
  <2>1. R /\ d[k - 1] = 0 /\ d[k] = 0
    BY ONLY <1>12, <1>14, <1>18
  <2>2. CASE k = 1
    BY ONLY <1>5, <2>1, <2>2, <1>12 DEF Weight
  <2>3. CASE k = 2
    BY ONLY <1>5, <2>1, <2>3, <1>12 DEF Weight
  <2>4. CASE k \in 3..A
    <3>1. k - 2 \in 1..h /\ 2 + (k - 2) = k
      BY ONLY <1>2, <1>12, <2>1, <2>4
    <3>2. p[k] \notin {"\\", "(", ")"}
      BY ONLY <1>6, <1>7, <2>1, <3>1
    <3> QED
      BY ONLY <2>1, <3>2 DEF Weight
  <2> QED
    BY <1>12, <1>18, <2>2, <2>3, <2>4
<1>19. Good(A + 1)
  <2> DEFINE k == A + 1
  <2>1. k - 1 \in 0..A /\ 0 \in 0..m /\ k = A + 1 + 0 /\ k = A + 1
    BY ONLY <1>2, <1>12
  <2> HIDE DEF k
  <2>2. d[k - 1] = 0 /\ d[k] = 0 /\ p[k] = "\\"
    <3>1. d[k - 1] = 0
      BY ONLY <1>14, <2>1, Zenon
    <3>2. d[A + 1 + 0] = dO[0]
      BY ONLY <1>15, <2>1, Zenon
    <3>3. d[A + 1 + 0] = 0
      BY ONLY <1>11, <3>2, Zenon
    <3>4. d[k] = 0
      BY ONLY <2>1, <3>3, Zenon
    <3>5. p[k] = "\\"
      BY ONLY <1>5, <2>1, Zenon
    <3> QED
      BY <3>1, <3>4, <3>5
  <2>3. p[k] \notin {"(", ")"} /\ 0 = 0 + Weight(p[k])
    BY ONLY <2>2 DEF Weight
  <2>4. Good(k)
    BY ONLY <2>1, <2>2, <2>3, Zenon
  <2> QED
    BY ONLY <2>4, Zenon DEF k
<1>20. ASSUME NEW j \in 1..m PROVE Good(A + 1 + j)
  <2> DEFINE k == A + 1 + j
  <2>1. /\ j \in 0..m /\ j - 1 \in 0..m /\ A + 1 + (j - 1) = k - 1
        /\ k > A
    BY ONLY <1>2, <1>12, <1>20
  <2>2. d[k] = dO[j] /\ d[A + 1 + (j - 1)] = dO[j - 1] /\ p[k] = obj[j]
    BY ONLY <1>6, <1>15, <1>20, <2>1
  <2> HIDE DEF k
  <2>3. d[k - 1] = dO[j - 1]
    BY ONLY <2>1, <2>2, Zenon
  <2>4. dO[j] \in Nat /\ (obj[j] = "\\" => dO[j] > 0) /\ dO[j - 1] = dO[j] + Weight(obj[j])
    BY ONLY <1>8, <1>11, <1>20, <2>1
  <2>5. dO[j] > 0 => dO[j] # 0
    BY <2>4
  <2>6. d[k - 1] = d[k] + Weight(p[k]) /\ ~(p[k] = "\\" /\ d[k] = 0)
    BY ONLY <2>2, <2>3, <2>4, <2>5, Zenon
  <2>7. ~I => p[k] \notin {"(", ")"}
    BY ONLY <1>7, <1>20, <2>2
  <2>8. Good(k)
    BY ONLY <2>6, <2>7, Zenon
  <2> QED
    BY ONLY <2>8, Zenon DEF k
<1>21. ASSUME I PROVE Good(O + 1)
  <2>1. O = A + 1 + m /\ m \in 0..m /\ 0 \in 0..n /\ O + 1 + 0 = O + 1 /\ O + 1 - 1 = O
    BY ONLY <1>2, <1>12
  <2>2. d[O] = 0 /\ d[O + 1] = 1 + 0
    BY ONLY <1>11, <1>15, <1>17, <1>21, <2>1
  <2> QED
    BY ONLY <1>5, <1>21, <2>1, <2>2 DEF Weight
<1>22. ASSUME I, NEW j \in 1..n PROVE Good(O + 1 + j)
  <2> DEFINE k == O + 1 + j
  <2>1. /\ j \in 0..n /\ j - 1 \in 0..n /\ O + 1 + (j - 1) = k - 1
        /\ k > O
    BY ONLY <1>2, <1>12, <1>22
  <2>2. d[k] = 1 + dI[j] /\ d[O + 1 + (j - 1)] = 1 + dI[j - 1] /\ p[k] = ins[j]
    BY ONLY <1>6, <1>17, <1>22, <2>1
  <2> HIDE DEF k
  <2>3. d[k - 1] = 1 + dI[j - 1]
    BY ONLY <2>1, <2>2, Zenon
  <2>4. dI[j] \in Nat /\ dI[j - 1] = dI[j] + Weight(ins[j]) /\ Weight(ins[j]) \in Int
    BY ONLY <1>9, <1>11, <1>22, <2>1 DEF Weight
  <2>5. d[k] # 0 /\ d[k - 1] = d[k] + Weight(p[k])
    BY ONLY <2>2, <2>3, <2>4
  <2>6. Good(k)
    BY ONLY <1>22, <2>5, Zenon
  <2> QED
    BY ONLY <2>6, Zenon DEF k
<1>23. ASSUME I PROVE Good(E + 1)
  <2>1. E = O + 1 + n /\ n \in 0..n /\ E + 1 - 1 = E
    BY ONLY <1>2, <1>12
  <2>2. d[E] = 1 + 0 /\ d[E + 1] = 0
    BY ONLY <1>11, <1>14, <1>17, <1>23, <2>1
  <2> QED
    BY ONLY <1>5, <1>23, <2>1, <2>2 DEF Weight
<1>24. Good(Z + 1) /\ d[Z + 1] = 0
  <2>1. 0 \in 0..q /\ Z + 1 + 0 = Z + 1 /\ Z + 1 - 1 = Z
    BY ONLY <1>2, <1>12
  <2>2. d[Z + 1] = 0
    BY ONLY <1>11, <1>16, <2>1
  <2>3. d[Z] = 0
    <3>1. CASE I
      BY ONLY <1>12, <1>14, <3>1
    <3>2. CASE ~I
      <4>1. Z = A + 1 + m /\ m \in 0..m
        BY ONLY <1>2, <1>12, <3>2
      <4> QED
        BY ONLY <1>11, <1>15, <4>1
    <3> QED
      BY <3>1, <3>2
  <2> QED
    BY ONLY <1>5, <1>12, <2>1, <2>2, <2>3 DEF Weight
<1>25. ASSUME NEW j \in 1..q PROVE Good(Z + 1 + j)
  <2> DEFINE k == Z + 1 + j
  <2>1. /\ j \in 0..q /\ j - 1 \in 0..q /\ Z + 1 + (j - 1) = k - 1
        /\ k > Z
    BY ONLY <1>2, <1>12, <1>25
  <2>2. d[k] = dC[j] /\ d[Z + 1 + (j - 1)] = dC[j - 1] /\ p[k] = ctr[j]
    BY ONLY <1>6, <1>16, <1>25, <2>1
  <2> HIDE DEF k
  <2>3. d[k - 1] = dC[j - 1]
    BY ONLY <2>1, <2>2, Zenon
  <2>4. dC[j] \in Nat /\ (ctr[j] = "\\" => dC[j] > 0) /\ dC[j - 1] = dC[j] + Weight(ctr[j])
    BY ONLY <1>10, <1>11, <1>25, <2>1
  <2>5. dC[j] > 0 => dC[j] # 0
    BY <2>4
  <2>6. d[k - 1] = d[k] + Weight(p[k]) /\ ~(p[k] = "\\" /\ d[k] = 0)
    BY ONLY <2>2, <2>3, <2>4, <2>5, Zenon
  <2>7. ~(k <= Z)
    BY ONLY <1>12, <1>25, <2>1 DEF k
  <2>8. Good(k)
    BY ONLY <2>6, <2>7, Zenon
  <2> QED
    BY ONLY <2>8, Zenon DEF k
<1>26. ASSUME NEW k \in 1..L PROVE Good(k)
  <2> HIDE DEF Good
  <2>1. CASE k <= A + 1
    BY <1>12, <1>18, <1>19, <2>1
  <2>2. CASE k > A + 1 /\ k <= O
    <3>1. k - A - 1 \in 1..m /\ A + 1 + (k - A - 1) = k
      BY ONLY <1>2, <1>12, <1>26, <2>2
    <3>2. Good(A + 1 + (k - A - 1))
      BY ONLY <1>20, <3>1, Zenon
    <3> QED
      BY <3>1, <3>2, Zenon
  <2>3. CASE k > Z + 1
    <3>1. k - Z - 1 \in 1..q /\ Z + 1 + (k - Z - 1) = k
      BY ONLY <1>2, <1>12, <1>26, <2>3
    <3>2. Good(Z + 1 + (k - Z - 1))
      BY ONLY <1>25, <3>1, Zenon
    <3> QED
      BY <3>1, <3>2, Zenon
  <2>4. CASE k > O /\ k <= Z + 1
    <3>1. CASE k = Z + 1 \/ ~I
      <4>1. k = Z + 1
        BY ONLY <1>12, <1>26, <2>4, <3>1
      <4> QED
        BY <1>24, <4>1, Zenon
    <3>2. CASE I /\ k <= Z
      <4>1. CASE k = O + 1 \/ k = E + 1
        BY <1>21, <1>23, <3>2, <4>1, Zenon
      <4>2. CASE k # O + 1 /\ k # E + 1
        <5>1. k - O - 1 \in 1..n /\ O + 1 + (k - O - 1) = k
          BY ONLY <1>2, <1>12, <1>26, <2>4, <3>2, <4>2
        <5>2. Good(O + 1 + (k - O - 1))
          BY ONLY <1>22, <3>2, <5>1, Zenon
        <5> QED
          BY <5>1, <5>2, Zenon
      <4> QED
        BY <4>1, <4>2, Zenon
    <3> QED
      BY ONLY <1>12, <1>26, <2>4, <3>1, <3>2
  <2> QED
    BY ONLY <1>12, <1>26, <2>1, <2>2, <2>3, <2>4
<1>27. d[L] = 0 /\ d[A + 1] = 0 /\ (R => d[2] = 0) /\ (I => d[O] = 0)
  <2>1. /\ L = Z + 1 + q /\ q \in 0..q /\ A + 1 = A + 1 + 0 /\ 0 \in 0..m
        /\ O = A + 1 + m /\ m \in 0..m /\ (R => 2 \in 0..A)
    BY ONLY <1>2, <1>12
  <2> QED
    BY ONLY <1>11, <1>14, <1>15, <1>16, <2>1
<1>28. I => \A k \in (O + 1)..E : d[k] >= 1
  <2> SUFFICES ASSUME I, NEW k \in (O + 1)..E PROVE d[k] >= 1
    OBVIOUS
  <2>1. k - O - 1 \in 0..n /\ O + 1 + (k - O - 1) = k
    BY ONLY <1>2, <1>12, k \in (O + 1)..E
  <2>2. d[k] = 1 + dI[k - O - 1] /\ dI[k - O - 1] \in Nat
    BY ONLY I, <1>9, <1>17, <2>1
  <2> QED
    BY <2>2
<1> QED
  <2>1. /\ d \in [0..L -> Nat] /\ d[L] = 0 /\ d[Z + 1] = 0 /\ d[A + 1] = 0
        /\ R => d[2] = 0
        /\ I => d[O] = 0 /\ d[E + 1] = 0 /\ \A k \in (O + 1)..E : d[k] >= 1
        /\ \A k \in 1..L : Good(k)
    BY <1>13, <1>14, <1>24, <1>26, <1>27, <1>28, Zenon
  <2>2. Brackets(p, c, d)
    BY <2>1, Zenon DEF Brackets, L, Z, A, O, E, R, I
  <2> QED
    BY <2>2, Zenon

(* The brackets of the path of c.                                           *)
DepthOf(c) == CHOOSE d : Brackets(PathOf(c), c, d)

(* The symbols that stand where the borders are, and the order of those.    *)
Marked(p, c) ==
    /\ p \in Seq(Symbol) /\ Len(p) \in Nat /\ CounterStart(c) < Len(p)
    /\ ObjectStart(c) \in Nat /\ ObjectEnd(c) \in Nat /\ InstanceEnd(c) \in Nat
    /\ CounterStart(c) \in Nat /\ ObjectStart(c) < ObjectEnd(c)
    /\ ObjectEnd(c) < InstanceEnd(c) /\ ObjectEnd(c) <= CounterStart(c)
    /\ p[ObjectStart(c) + 1] = "\\" /\ p[CounterStart(c) + 1] = "\\"
    /\ HasInstance(c) => /\ CounterStart(c) = InstanceEnd(c) + 1
                         /\ p[ObjectEnd(c) + 1] = "(" /\ p[InstanceEnd(c) + 1] = ")"
    /\ Remote(c) => ObjectStart(c) >= 3 /\ p[2] = "\\"

(* What the scan will meet in the path of a readable counter.               *)
LEMMA PathMarked ==
    ASSUME NEW c, Readable(c)
    PROVE  Marked(PathOf(c), c) /\ Brackets(PathOf(c), c, DepthOf(c))
<1> DEFINE h == Len(c.computer)
           m == Len(c.object)
           n == Len(c.instance)
           q == Len(c.counter)
           p == PathOf(c)
           L == Len(p)
           A == ObjectStart(c)
           O == ObjectEnd(c)
           E == InstanceEnd(c)
           Z == CounterStart(c)
           R == Remote(c)
           I == HasInstance(c)
<1>1. h \in Nat /\ m \in Nat /\ n \in Nat /\ q \in Nat
  BY NamesAreSymbols
<1>2. R => h >= 1
  <2> SUFFICES ASSUME R PROVE h # 0
    BY <1>1
  <2>1. c.computer # <<>> /\ c.computer \in Seq(Symbol)
    BY NamesAreSymbols DEF Remote
  <2> QED
    BY <2>1, EmptySeq, Zenon
<1>3. /\ A = (IF R THEN h + 2 ELSE 0) /\ O = A + m + 1 /\ E = O + n + 1
      /\ Z = (IF I THEN E + 1 ELSE O)
  BY Zenon DEF ObjectStart, ObjectEnd, InstanceEnd, CounterStart
<1>4. Places(p, c)
  BY PathPlaces
<1>5. /\ p \in Seq(Symbol) /\ L = Z + 1 + q
      /\ Puts(p, <<"\\">>, A) /\ Puts(p, <<"\\">>, Z)
      /\ I => Puts(p, <<"(">>, O) /\ Puts(p, <<")">>, E)
      /\ R => Puts(p, <<"\\">>, 1)
  BY <1>4, Zenon DEF Places, PlacesFrom, ObjectEnd, InstanceEnd, CounterStart
<1>6. /\ p[A + 1] = "\\" /\ p[Z + 1] = "\\"
      /\ I => p[O + 1] = "(" /\ p[E + 1] = ")"
      /\ R => p[1 + 1] = "\\"
  BY <1>5, PutOne, Zenon
<1>7. Brackets(p, c, DepthOf(c))
  BY <1>4, PathBrackets, Zenon DEF DepthOf
<1> HIDE DEF h, m, n, q, p, L, A, O, E, Z, R, I
<1>8. /\ A \in Nat /\ O \in Nat /\ E \in Nat /\ A < O /\ O < E
      /\ R => A >= 3
  BY ONLY <1>1, <1>2, <1>3
<1>9. /\ Z \in Nat /\ L \in Nat /\ Z < L /\ O <= Z
      /\ I => Z = E + 1
  <2>1. L = Z + 1 + q
    BY <1>5
  <2> QED
    BY ONLY <1>1, <1>3, <1>8, <2>1
<1>10. 1 + 1 = 2 /\ (R => p[2] = "\\")
  BY <1>6
<1> QED
  BY <1>5, <1>6, <1>7, <1>8, <1>9, <1>10, Zenon DEF Marked, p, L, A, O, E, Z, R, I

(* The borders found when the scan of the path of c has come to the index i. *)
Seen(at) == IF i < at THEN at ELSE -1
Scanned(c) ==
    /\ i \in -1..(Len(path) - 1)
    /\ bracketLevel = DepthOf(c)[i + 1]
    /\ border \in [Border -> Int]
    /\ border["leftCounter"] = Seen(CounterStart(c))
    /\ border["leftObject"] = Seen(ObjectStart(c))
    /\ border["leftComputer"] = IF Remote(c) THEN Seen(1) ELSE -1
    /\ border["rightInstance"] = IF HasInstance(c) THEN Seen(InstanceEnd(c)) ELSE -1
    /\ border["leftInstance"] = IF HasInstance(c) THEN Seen(ObjectEnd(c)) ELSE -1
    /\ border["rightObject"] = border["leftInstance"]

(* Before the first turn no border was passed.                              *)
LEMMA ScanStarts ==
    ASSUME NEW c, Readable(c), StartParse(PathOf(c))
    PROVE  Scanned(c)'
<1> DEFINE p == PathOf(c)
           d == DepthOf(c)
<1>1. Marked(p, c) /\ d[Len(p)] = 0
  BY PathMarked DEF Brackets
<1>2. /\ path' = p /\ i' = Len(p) - 1 /\ bracketLevel' = 0
      /\ border' = [b \in Border |-> -1]
  BY DEF StartParse
<1> HIDE DEF p, d
<1>3. /\ border' \in [Border -> Int] /\ \A b \in Border : border'[b] = -1
  BY <1>2
<1>4. Len(p) \in Nat /\ Len(p) >= 1
  BY <1>1 DEF Marked
<1>5. i' \in -1..(Len(path') - 1) /\ bracketLevel' = d[i' + 1]
  <2>1. i' + 1 = Len(p)
    BY ONLY <1>2, <1>4
  <2> QED
    BY ONLY <1>1, <1>2, <1>4, <2>1
<1>6. /\ ~(i' < CounterStart(c)) /\ ~(i' < ObjectStart(c)) /\ (Remote(c) => ~(i' < 1))
      /\ HasInstance(c) => ~(i' < InstanceEnd(c)) /\ ~(i' < ObjectEnd(c))
  BY <1>1, <1>2 DEF Marked
<1> QED
  BY <1>3, <1>5, <1>6, Zenon DEF Scanned, Seen, Border, d

(* A turn of the loop sets the border it passes, and no other.              *)
LEMMA ScanMoves ==
    ASSUME NEW c, Readable(c), path = PathOf(c), Scanned(c), Scan
    PROVE  Scanned(c)'
<1> DEFINE p == PathOf(c)
           L == Len(p)
           A == ObjectStart(c)
           O == ObjectEnd(c)
           E == InstanceEnd(c)
           Z == CounterStart(c)
           R == Remote(c)
           I == HasInstance(c)
           d == DepthOf(c)
           lC == border["leftCounter"]
           lO == border["leftObject"]
           lH == border["leftComputer"]
           rI == border["rightInstance"]
           lI == border["leftInstance"]
           x == p[i + 1]
<1>1. /\ L \in Nat /\ Z < L /\ A \in Nat /\ O \in Nat /\ E \in Nat /\ Z \in Nat
      /\ A < O /\ O < E /\ O <= Z /\ p[A + 1] = "\\" /\ p[Z + 1] = "\\"
      /\ I => Z = E + 1 /\ p[O + 1] = "(" /\ p[E + 1] = ")"
      /\ R => A >= 3 /\ p[2] = "\\"
  BY PathMarked DEF Marked
<1>2. /\ d \in [0..L -> Nat] /\ d[Z + 1] = 0 /\ d[A + 1] = 0
      /\ R => d[2] = 0
      /\ I => d[O] = 0 /\ d[E + 1] = 0 /\ \A k \in (O + 1)..E : d[k] >= 1
      /\ \A k \in 1..L :
           /\ d[k - 1] = d[k] + Weight(p[k])
           /\ p[k] = "\\" /\ d[k] = 0 => k = Z + 1 \/ k = A + 1 \/ (R /\ k <= 2)
           /\ ~I /\ k <= Z => p[k] \notin {"(", ")"}
  BY PathMarked, Zenon DEF Brackets
<1>3. /\ i \in 0..(L - 1) /\ i' = i - 1 /\ path' = p /\ bracketLevel = d[i + 1]
      /\ border \in [Border -> Int]
      /\ lC = (IF i < Z THEN Z ELSE -1) /\ lO = (IF i < A THEN A ELSE -1)
      /\ lH = (IF R /\ i < 1 THEN 1 ELSE -1)
      /\ rI = (IF I /\ i < E THEN E ELSE -1) /\ lI = (IF I /\ i < O THEN O ELSE -1)
      /\ border["rightObject"] = lI
  BY DEF Scan, Scanned, Seen
<1>4. /\ x = "\\" => bracketLevel' = bracketLevel
      /\ x = "\\" => border' = IF bracketLevel = 0 /\ border[NextLeft] = -1
                               THEN [border EXCEPT ![NextLeft] = i] ELSE border
      /\ x = "(" => bracketLevel' = bracketLevel - 1
      /\ x = "(" => border' = IF lI = -1 /\ bracketLevel' = 0 /\ lO = -1 /\ lC # -1
                              THEN [border EXCEPT !["leftInstance"] = i, !["rightObject"] = i]
                              ELSE border
      /\ x = ")" => bracketLevel' = bracketLevel + 1
      /\ x = ")" => border' = IF rI = -1 /\ bracketLevel = 0 /\ lC # -1
                              THEN [border EXCEPT !["rightInstance"] = i] ELSE border
      /\ x \notin {"\\", "(", ")"} => border' = border /\ bracketLevel' = bracketLevel
  BY Zenon DEF Scan, ScanBackslash, ScanOpen, ScanClose, ScanOther, Unset
<1>5. NextLeft = IF lC = -1 THEN "leftCounter" ELSE IF lO = -1 THEN "leftObject"
                 ELSE "leftComputer"
  BY Zenon DEF NextLeft, Unset
<1> HIDE DEF p, L, A, O, E, Z, R, I, d
<1>6. /\ i + 1 \in 1..L /\ i + 1 - 1 = i /\ i \in Int
      /\ d[i + 1] \in Nat /\ d[i] = d[i + 1] + Weight(x)
      /\ x = "\\" /\ d[i + 1] = 0 => i = Z \/ i = A \/ (R /\ i <= 1)
      /\ ~I /\ i < Z => x \notin {"(", ")"}
  <2>1. i + 1 \in 1..L /\ i + 1 \in 0..L /\ i + 1 - 1 = i /\ i \in Int
    BY ONLY <1>1, <1>3
  <2>2. /\ d[i + 1 - 1] = d[i + 1] + Weight(p[i + 1])
        /\ x = "\\" /\ d[i + 1] = 0 => i + 1 = Z + 1 \/ i + 1 = A + 1 \/ (R /\ i + 1 <= 2)
        /\ ~I /\ i + 1 <= Z => x \notin {"(", ")"}
    BY ONLY <1>2, <2>1
  <2>3. /\ i + 1 = Z + 1 => i = Z
        /\ i + 1 = A + 1 => i = A
        /\ i + 1 <= 2 => i <= 1
        /\ i < Z => i + 1 <= Z
    BY ONLY <1>1, <2>1
  <2>4. d[i + 1] \in Nat /\ d[i] = d[i + 1] + Weight(x)
    BY ONLY <1>2, <2>1, <2>2
  <2> QED
    BY ONLY <2>1, <2>2, <2>3, <2>4, Zenon
<1>7. /\ i = Z => x = "\\" /\ d[i + 1] = 0
      /\ i = A => x = "\\" /\ d[i + 1] = 0
      /\ R /\ i = 1 => x = "\\" /\ d[i + 1] = 0
      /\ I /\ i = O => x = "(" /\ d[i] = 0
      /\ I /\ i = E => x = ")" /\ d[i + 1] = 0
      /\ I /\ i > O /\ i <= E => d[i] >= 1
  <2>1. 1 + 1 = 2 /\ (i > O /\ i <= E => i \in (O + 1)..E)
    BY ONLY <1>1, <1>6
  <2> QED
    BY ONLY <1>1, <1>2, <2>1, Zenon
<1> HIDE DEF x
<1>8. bracketLevel' = d[i]
  <2>1. bracketLevel = d[i + 1]
    BY <1>3
  <2>2. CASE x = "\\"
    BY ONLY <1>4, <1>6, <2>1, <2>2 DEF Weight
  <2>3. CASE x = "("
    BY ONLY <1>4, <1>6, <2>1, <2>3 DEF Weight
  <2>4. CASE x = ")"
    BY ONLY <1>4, <1>6, <2>1, <2>4 DEF Weight
  <2>5. CASE x \notin {"\\", "(", ")"}
    BY ONLY <1>4, <1>6, <2>1, <2>5 DEF Weight
  <2> QED
    BY <2>2, <2>3, <2>4, <2>5
<1> DEFINE Moved(b, at, here) == border'[b] = IF here /\ i = at THEN i ELSE border[b]
<1>9. /\ border' \in [Border -> Int]
      /\ Moved("leftCounter", Z, TRUE) /\ Moved("leftObject", A, TRUE)
      /\ Moved("leftComputer", 1, R) /\ Moved("rightInstance", E, I)
      /\ Moved("leftInstance", O, I) /\ Moved("rightObject", O, I)
  <2>1. CASE x = "\\"
    <3>1. ~(I /\ i = O) /\ ~(I /\ i = E)
      BY <1>7, <2>1
    <3>2. CASE i = Z
      <4>1. lC = -1 /\ i # A /\ ~(R /\ i = 1)
        BY ONLY <1>1, <1>3, <3>2
      <4>2. border' = [border EXCEPT !["leftCounter"] = i]
        BY ONLY <1>3, <1>4, <1>5, <1>7, <2>1, <3>2, <4>1
      <4> QED
        BY ONLY <1>3, <3>1, <3>2, <4>1, <4>2, <1>6 DEF Border
    <3>3. CASE i = A
      <4>1. lC # -1 /\ lO = -1 /\ i # Z /\ ~(R /\ i = 1)
        BY ONLY <1>1, <1>3, <3>3
      <4>2. border' = [border EXCEPT !["leftObject"] = i]
        BY ONLY <1>3, <1>4, <1>5, <1>7, <2>1, <3>3, <4>1
      <4> QED
        BY ONLY <1>3, <3>1, <3>3, <4>1, <4>2, <1>6 DEF Border
    <3>4. CASE i # Z /\ i # A /\ R /\ i = 1
      <4>1. lC # -1 /\ lO # -1 /\ lH = -1
        BY ONLY <1>1, <1>3, <3>4
      <4>2. border' = [border EXCEPT !["leftComputer"] = i]
        BY ONLY <1>3, <1>4, <1>5, <1>7, <2>1, <3>4, <4>1
      <4> QED
        BY ONLY <1>3, <3>1, <3>4, <4>1, <4>2, <1>6 DEF Border
    <3>5. CASE i # Z /\ i # A /\ ~(R /\ i = 1)
      <4>1. border' = border
        <5>1. CASE d[i + 1] = 0
          <6>1. R /\ i = 0
            BY ONLY <1>3, <1>6, <2>1, <3>5, <5>1
          <6>2. lC # -1 /\ lO # -1 /\ lH # -1
            BY ONLY <1>1, <1>3, <6>1
          <6> QED
            BY ONLY <1>3, <1>4, <1>5, <2>1, <6>2
        <5>2. CASE d[i + 1] # 0
          BY ONLY <1>3, <1>4, <2>1, <5>2
        <5> QED
          BY <5>1, <5>2
      <4> QED
        BY ONLY <1>3, <3>1, <3>5, <4>1
    <3> QED
      BY <3>2, <3>3, <3>4, <3>5
  <2>2. CASE x = "("
    <3>1. i # Z /\ i # A /\ ~(R /\ i = 1) /\ ~(I /\ i = E)
      BY <1>7, <2>2
    <3>2. CASE I /\ i = O
      <4>1. lI = -1 /\ lO = -1 /\ lC # -1
        BY ONLY <1>1, <1>3, <3>2
      <4>2. border' = [border EXCEPT !["leftInstance"] = i, !["rightObject"] = i]
        BY ONLY <1>4, <1>7, <1>8, <2>2, <3>2, <4>1
      <4> QED
        BY ONLY <1>3, <3>1, <3>2, <4>2, <1>6 DEF Border
    <3>3. CASE ~(I /\ i = O)
      <4>1. border' = border
        <5>1. CASE I /\ i < O
          <6>1. lI # -1
            BY ONLY <1>1, <1>3, <5>1
          <6> QED
            BY ONLY <1>4, <2>2, <6>1
        <5>2. CASE I /\ i > O /\ i <= E
          <6>1. bracketLevel' # 0
            BY ONLY <1>1, <1>6, <1>7, <1>8, <5>2
          <6> QED
            BY ONLY <1>4, <2>2, <6>1
        <5>3. CASE (I /\ i > E) \/ ~I
          <6>1. ~(i < Z)
            BY ONLY <1>1, <1>3, <1>6, <2>2, <5>3
          <6>2. lC = -1
            BY ONLY <1>3, <6>1
          <6> QED
            BY ONLY <1>4, <2>2, <6>2
        <5> QED
          BY ONLY <1>1, <1>3, <3>3, <5>1, <5>2, <5>3
      <4> QED
        BY ONLY <1>3, <3>1, <3>3, <4>1
    <3> QED
      BY <3>2, <3>3
  <2>3. CASE x = ")"
    <3>1. i # Z /\ i # A /\ ~(R /\ i = 1) /\ ~(I /\ i = O)
      BY <1>7, <2>3
    <3>2. CASE I /\ i = E
      <4>1. rI = -1 /\ lC # -1
        BY ONLY <1>1, <1>3, <3>2
      <4>2. border' = [border EXCEPT !["rightInstance"] = i]
        BY ONLY <1>3, <1>4, <1>7, <2>3, <3>2, <4>1
      <4> QED
        BY ONLY <1>3, <3>1, <3>2, <4>2, <1>6 DEF Border
    <3>3. CASE ~(I /\ i = E)
      <4>1. border' = border
        <5>1. CASE I /\ i < E
          <6>1. rI # -1
            BY ONLY <1>1, <1>3, <5>1
          <6> QED
            BY ONLY <1>4, <2>3, <6>1
        <5>2. CASE (I /\ i > E) \/ ~I
          <6>1. ~(i < Z)
            BY ONLY <1>1, <1>3, <1>6, <2>3, <5>2
          <6>2. lC = -1
            BY ONLY <1>3, <6>1
          <6> QED
            BY ONLY <1>4, <2>3, <6>2
        <5> QED
          BY ONLY <1>1, <1>3, <3>3, <5>1, <5>2
      <4> QED
        BY ONLY <1>3, <3>1, <3>3, <4>1
    <3> QED
      BY <3>2, <3>3
  <2>4. CASE x \notin {"\\", "(", ")"}
    <3>1. /\ i # Z /\ i # A /\ ~(R /\ i = 1) /\ ~(I /\ i = O) /\ ~(I /\ i = E)
          /\ border' = border
      BY <1>4, <1>7, <2>4
    <3> QED
      BY ONLY <1>3, <3>1
  <2> QED
    BY <2>1, <2>2, <2>3, <2>4
<1>10. /\ i' \in -1..(L - 1) /\ bracketLevel' = d[i' + 1] /\ border' \in [Border -> Int]
       /\ border'["leftCounter"] = (IF i' < Z THEN Z ELSE -1)
       /\ border'["leftObject"] = (IF i' < A THEN A ELSE -1)
       /\ border'["leftComputer"] = (IF R THEN IF i' < 1 THEN 1 ELSE -1 ELSE -1)
       /\ border'["rightInstance"] = (IF I THEN IF i' < E THEN E ELSE -1 ELSE -1)
       /\ border'["leftInstance"] = (IF I THEN IF i' < O THEN O ELSE -1 ELSE -1)
       /\ border'["rightObject"] = border'["leftInstance"]
  <2>1. i' \in -1..(L - 1) /\ i' + 1 = i /\ \A n \in Nat : i' < n <=> (i < n \/ i = n)
    BY ONLY <1>1, <1>3, <1>6
  <2> QED
    BY ONLY <1>1, <1>3, <1>8, <1>9, <2>1
<1> QED
  BY <1>3, <1>10, Zenon DEF Scanned, Seen, p, L, A, O, E, Z, R, I, d

(* Slicing at the borders of a part gives the part.                         *)
LEMMA SlicePut ==
    ASSUME NEW p \in Seq(Symbol), NEW x, NEW at, Puts(p, x, at)
    PROVE  SubSeq(p, at + 1, at + Len(x)) = x
<1> DEFINE n == Len(x)
           a == at + 1
           e == at + Len(x)
           y == SubSeq(p, a, e)
<1>1. /\ x \in Seq(Symbol) /\ n \in Nat /\ at \in Nat /\ at + n <= Len(p) /\ Len(p) \in Nat
      /\ \A j \in 1..n : p[at + j] = x[j]
  BY DEF Puts
<1>2. /\ a \in Int /\ e \in Int /\ \A j \in a..e : j \in 1..Len(p) /\ p[j] \in Symbol
  <2>1. a \in Int /\ e \in Int /\ \A j \in a..e : j \in 1..Len(p)
    BY <1>1
  <2> QED
    BY <2>1
<1>3. /\ y \in Seq(Symbol)
      /\ Len(y) = IF a <= e THEN e - a + 1 ELSE 0
      /\ \A j \in 1..(e - a + 1) : y[j] = p[a + j - 1]
  BY <1>2, SubSeqProperties
<1> HIDE DEF n, a, e, y
<1>4. Len(y) = n /\ e - a + 1 = n /\ \A j \in 1..n : a + j - 1 = at + j
  <2>1. a = at + 1 /\ e = at + n
    BY DEF n, a, e
  <2> QED
    BY ONLY <1>1, <1>3, <2>1
<1>5. \A j \in 1..n : y[j] = x[j]
  BY <1>1, <1>3, <1>4, Zenon
<1>6. y = x
  BY <1>1, <1>3, <1>4, <1>5, SeqEqual DEF n
<1> QED
  BY <1>6, Zenon DEF y, a, e

(* After the last turn the slices are the names of the counter.             *)
LEMMA ScanEnds ==
    ASSUME NEW c, Readable(c), path = PathOf(c), Scanned(c), i = -1
    PROVE  ~CannotParse /\ Extracted = PartsOf(c)
<1> DEFINE h == Len(c.computer)
           m == Len(c.object)
           n == Len(c.instance)
           q == Len(c.counter)
           p == PathOf(c)
           A == ObjectStart(c)
           O == ObjectEnd(c)
           E == InstanceEnd(c)
           Z == CounterStart(c)
           R == Remote(c)
           I == HasInstance(c)
<1>1. h \in Nat /\ m \in Nat /\ n \in Nat /\ q \in Nat
  BY NamesAreSymbols
<1>2. /\ A \in Nat /\ O \in Nat /\ E \in Nat /\ Z \in Nat
      /\ R => A >= 3
      /\ R => A = h + 2
      /\ O = A + m + 1 /\ E = O + n + 1
      /\ ~I => Z = O
  BY PathMarked, Zenon DEF Marked, ObjectStart, ObjectEnd, InstanceEnd, CounterStart
<1>3. /\ p \in Seq(Symbol) /\ Len(p) = Z + 1 + q
      /\ Puts(p, c.object, A + 1) /\ Puts(p, c.counter, Z + 1)
      /\ I => Puts(p, c.instance, O + 1)
      /\ R => Puts(p, c.computer, 2)
  BY PathPlaces, Zenon DEF Places, PlacesFrom, ObjectEnd, InstanceEnd, CounterStart
<1>4. /\ border["leftCounter"] = (IF -1 < Z THEN Z ELSE -1)
      /\ border["leftObject"] = (IF -1 < A THEN A ELSE -1)
      /\ border["leftComputer"] = (IF R THEN IF -1 < 1 THEN 1 ELSE -1 ELSE -1)
      /\ border["rightInstance"] = (IF I THEN IF -1 < E THEN E ELSE -1 ELSE -1)
      /\ border["leftInstance"] = (IF I THEN IF -1 < O THEN O ELSE -1 ELSE -1)
      /\ border["rightObject"] = border["leftInstance"]
  BY Zenon DEF Scanned, Seen
<1>5. /\ SubSeq(p, A + 1 + 1, A + 1 + Len(c.object)) = c.object
      /\ SubSeq(p, Z + 1 + 1, Z + 1 + Len(c.counter)) = c.counter
      /\ I => SubSeq(p, O + 1 + 1, O + 1 + Len(c.instance)) = c.instance
      /\ R => SubSeq(p, 2 + 1, 2 + Len(c.computer)) = c.computer
  BY ONLY <1>3, SlicePut, Zenon
<1>8. /\ (IF c.computer = localhost THEN <<>> ELSE c.computer) = (IF R THEN c.computer ELSE <<>>)
      /\ (IF c.instance = emptyInstance THEN <<>> ELSE c.instance)
           = (IF I THEN c.instance ELSE <<>>)
  BY DEF Remote, HasInstance
<1> HIDE DEF h, m, n, q, p, A, O, E, Z, R, I
<1>9. /\ border["leftCounter"] = Z /\ border["leftObject"] = A
      /\ border["leftComputer"] = (IF R THEN 1 ELSE -1)
      /\ border["rightInstance"] = (IF I THEN E ELSE -1)
      /\ border["leftInstance"] = (IF I THEN O ELSE -1)
      /\ border["rightObject"] = (IF I THEN O ELSE -1)
      /\ A # -1 /\ O # -1 /\ E # -1 /\ Z # -1 /\ 1 # -1
      /\ R => 1 # A - 1
  BY ONLY <1>2, <1>4
<1>10. objectEnd = O
  BY ONLY <1>2, <1>9 DEF objectEnd, Unset
<1>11. ~CannotParse
  BY ONLY <1>9, <1>10, Zenon DEF CannotParse, Unset
<1>6. /\ A + 1 + 1 = A + 2 /\ Z + 1 + 1 = Z + 2 /\ O + 1 + 1 = O + 2 /\ 2 + 1 = 1 + 2
      /\ A + 1 + m = O /\ Z + 1 + q = Len(p) /\ O + 1 + n = E
      /\ R => 2 + h = A
  <2>1. Len(p) = Z + 1 + q
    BY <1>3, Zenon DEF q
  <2> QED
    BY ONLY <1>1, <1>2, <2>1
<1>7. /\ SubSeq(p, A + 1 + 1, A + 1 + m) = c.object
      /\ SubSeq(p, Z + 1 + 1, Z + 1 + q) = c.counter
      /\ I => SubSeq(p, O + 1 + 1, O + 1 + n) = c.instance
      /\ R => SubSeq(p, 2 + 1, 2 + h) = c.computer
  BY <1>5, Zenon DEF m, n, q, h
<1>12. /\ Slice(A, O) = c.object /\ Slice(Z, Len(path)) = c.counter
       /\ I => Slice(O, E) = c.instance
       /\ R => Slice(1, A) = c.computer
  BY <1>6, <1>7, Zenon DEF Slice, p
<1>13. /\ (IF Unset("leftComputer") THEN <<>>
           ELSE Slice(border["leftComputer"], border["leftObject"]))
            = (IF R THEN c.computer ELSE <<>>)
       /\ Slice(border["leftObject"], objectEnd) = c.object
       /\ (IF Unset("leftInstance") THEN <<>>
           ELSE Slice(border["leftInstance"], border["rightInstance"]))
            = (IF I THEN c.instance ELSE <<>>)
       /\ Slice(border["leftCounter"], Len(path)) = c.counter
  BY ONLY <1>9, <1>10, <1>12, Zenon DEF Unset
<1>14. Extracted = PartsOf(c)
  BY <1>8, <1>13, Zenon DEF Extracted, PartsOf
<1> QED
  BY <1>11, <1>14

(* The parser returns the names the path of c was made of.                  *)
ReadBack(c) == Parsed /\ path = PathOf(c) => ~CannotParse /\ Extracted = PartsOf(c)

(* formatPath and extractCounterInfoFromCounterPath are inverse: from the   *)
(* path of a counter the parser returns, without an error, the names the    *)
(* path was made of, however long they are and whatever brackets and        *)
(* backslashes they have, as long as they are Readable.                     *)
THEOREM PathsAreReadBack ==
    ASSUME NEW CONSTANT c, Readable(c)
    PROVE  PathSpec => []ReadBack(c)
<1> DEFINE SInv == path = PathOf(c) => Scanned(c)
<1>0. PathOf(c) # <<>>
  <2>1. Len(PathOf(c)) > 0
    BY PathMarked DEF Marked
  <2> QED
    BY <2>1
<1>1. PathInit => SInv
  BY <1>0 DEF PathInit
<1>2. SInv /\ [PathNext]_pathVars => SInv'
  <2> SUFFICES ASSUME SInv, [PathNext]_pathVars, path' = PathOf(c) PROVE Scanned(c)'
    OBVIOUS
  <2>1. ASSUME NEW r, StartParse(r) PROVE Scanned(c)'
    <3>1. r = PathOf(c)
      BY <2>1 DEF StartParse
    <3> QED
      BY <2>1, <3>1, ScanStarts
  <2>2. CASE Scan
    <3>1. path = PathOf(c)
      BY <2>2 DEF Scan
    <3> QED
      BY <2>2, <3>1, ScanMoves
  <2>3. CASE UNCHANGED pathVars
    BY <2>3 DEF pathVars, Scanned, Seen
  <2> QED
    BY <2>1, <2>2, <2>3 DEF PathNext
<1>3. SInv => ReadBack(c)
  BY ScanEnds DEF ReadBack, Parsed
<1> QED
  BY <1>1, <1>2, <1>3, PTL DEF PathSpec
=============================================================================
