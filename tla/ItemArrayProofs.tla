--------------------------- MODULE ItemArrayProofs ---------------------------
(***************************************************************************)
(* The items of an array are decoded as pdh.dll wrote them, for arrays of  *)
(* any length, wherever the Go structures have the layout of the C ones.   *)
(***************************************************************************)
EXTENDS ItemArray, SequenceTheorems, WellFoundedInduction, TLAPS

(* The recursive definition of the ends of the fields is an equation.       *)
LEMMA EndsEquation ==
    ASSUME NEW fields, Len(fields) \in Nat
    PROVE  Ends(fields) =
             [k \in 0..Len(fields) |->
                IF k = 0 THEN 0
                ELSE AlignUp(Ends(fields)[k - 1], fields[k].align) + fields[k].size]
<1> DEFINE Next(k, end) == AlignUp(end, fields[k].align) + fields[k].size
           Solves(g, n) == g = [k \in 0..n |-> IF k = 0 THEN 0 ELSE Next(k, g[k - 1])]
           Bad == {n \in 0..Len(fields) : ~ \E g : Solves(g, n)}
<1>a. /\ Bad \in SUBSET Nat
      /\ \A n \in Bad : n \in 0..Len(fields) /\ ~ \E g : Solves(g, n)
      /\ \A n \in 0..Len(fields) : n \notin Bad => \E g : Solves(g, n)
  OBVIOUS
<1> HIDE DEF Next, Bad
<1>1. Bad = {}
  <2> SUFFICES ASSUME Bad # {} PROVE FALSE
    OBVIOUS
  <2> DEFINE Less == {p \in Nat \X Nat : p[1] < p[2]}
  <2>b. IsWellFoundedOn(Less, Nat) /\ \A x, y \in Nat : y < x => <<y, x>> \in Less
    <3>1. IsWellFoundedOn(Less, Nat)
      BY NatLessThanWellFounded, Zenon DEF OpToRel
    <3>2. \A x, y \in Nat : y < x => <<y, x>> \in Less
      OBVIOUS
    <3> QED
      BY <3>1, <3>2
  <2> HIDE DEF Less
  <2>1. PICK n \in Bad : \A m \in Bad : <<m, n>> \notin Less
    BY <1>a, <2>b, WFMin, Zenon
  <2>2. n # 0
    <3>1. Solves([k \in 0..0 |-> 0], 0)
      OBVIOUS
    <3> QED
      BY <1>a, <3>1, Zenon
  <2>3. n - 1 \in 0..Len(fields) /\ n - 1 \notin Bad
    <3>1. n \in Nat /\ n - 1 \in Nat /\ n - 1 < n /\ n - 1 \in 0..Len(fields)
      BY <1>a, <2>2
    <3>2. <<n - 1, n>> \in Less
      BY <2>b, <3>1, Zenon
    <3> QED
      BY <2>1, <3>1, <3>2, Zenon
  <2>4. PICK g : Solves(g, n - 1)
    BY <1>a, <2>3
  <2> DEFINE h == [k \in 0..n |-> IF k = n THEN Next(n, g[n - 1]) ELSE g[k]]
  <2>5. Solves(h, n)
    <3>1. \A k \in 0..n : h[k] = IF k = 0 THEN 0 ELSE Next(k, h[k - 1])
      BY <1>a, <2>2, <2>4
    <3> QED
      BY <3>1
  <2> QED
    BY <1>a, <2>5, Zenon
<1>2. \E g : Solves(g, Len(fields))
  BY <1>a, <1>1
<1> QED
  BY <1>2, Zenon DEF Ends, Next

(* The same, field by field.                                                *)
LEMMA EndsStep ==
    ASSUME NEW fields, Len(fields) \in Nat
    PROVE  /\ Ends(fields)[0] = 0
           /\ \A k \in 1..Len(fields) :
                Ends(fields)[k] =
                  AlignUp(Ends(fields)[k - 1], fields[k].align) + fields[k].size
BY EndsEquation
-----------------------------------------------------------------------------
(* The layouts, field by field.                                             *)

(* The largest alignment of two or three.                                   *)
LEMMA MaxOf ==
    ASSUME NEW S \in SUBSET Int, NEW m \in S, \A x \in S : m >= x
    PROVE  Max(S) = m
<1>1. \A x \in S : (\A y \in S : x >= y) => x = m
  <2> SUFFICES ASSUME NEW x \in S, \A y \in S : x >= y PROVE x = m
    OBVIOUS
  <2>1. x >= m /\ m >= x /\ x \in Int /\ m \in Int
    OBVIOUS
  <2> QED
    BY <2>1
<1> QED
  BY <1>1, Zenon DEF Max

(* A structure of two fields.                                               *)
LEMMA TwoFields ==
    ASSUME NEW n1, NEW n2, n1 # n2,
           NEW s1 \in Nat, NEW s2 \in Nat, NEW a1 \in Nat, NEW a2 \in Nat, a1 <= a2,
           NEW fields, fields = <<Field(n1, s1, a1), Field(n2, s2, a2)>>
    PROVE  /\ OffsetOf(fields, n1) = AlignUp(0, a1)
           /\ OffsetOf(fields, n2) = AlignUp(AlignUp(0, a1) + s1, a2)
           /\ AlignOf(fields) = a2
           /\ SizeOf(fields) = AlignUp(AlignUp(AlignUp(0, a1) + s1, a2) + s2, a2)
<1>1. /\ Len(fields) = 2 /\ DOMAIN fields = 1..2
      /\ fields[1] = [name |-> n1, size |-> s1, align |-> a1]
      /\ fields[2] = [name |-> n2, size |-> s2, align |-> a2]
  BY DEF Field
<1>2. IndexOf(fields, n1) = 1 /\ IndexOf(fields, n2) = 2
  BY <1>1 DEF IndexOf
<1>3. {fields[k].align : k \in DOMAIN fields} = {a1, a2}
  BY <1>1
<1>4. AlignOf(fields) = a2
  BY <1>3, MaxOf DEF AlignOf
<1>5. /\ Ends(fields)[0] = 0
      /\ Ends(fields)[1] = AlignUp(0, a1) + s1
      /\ Ends(fields)[2] = AlignUp(AlignUp(0, a1) + s1, a2) + s2
  <2>1. Len(fields) = 2 /\ Len(fields) \in Nat
    BY <1>1
  <2>2. /\ Ends(fields)[0] = 0
        /\ \A k \in 1..2 : Ends(fields)[k] =
             AlignUp(Ends(fields)[k - 1], fields[k].align) + fields[k].size
    BY ONLY <2>1, EndsStep
  <2>3. Ends(fields)[1] = AlignUp(0, a1) + s1
    BY <1>1, <2>2, 1 \in 1..2, 1 - 1 = 0
  <2> QED
    BY <1>1, <2>2, <2>3, 2 \in 1..2, 2 - 1 = 1
<1>6. /\ OffsetOf(fields, n1) = AlignUp(0, a1)
      /\ OffsetOf(fields, n2) = AlignUp(AlignUp(0, a1) + s1, a2)
      /\ SizeOf(fields) = AlignUp(AlignUp(AlignUp(0, a1) + s1, a2) + s2, a2)
  BY <1>1, <1>2, <1>4, <1>5 DEF OffsetOf, SizeOf
<1> QED
  BY <1>4, <1>6

(* The multiples that occur.                                                *)
LEMMA Multiples ==
    /\ AlignUp(0, 4) = 0 /\ AlignUp(0, 8) = 0 /\ AlignUp(4, 1) = 4 /\ AlignUp(4, 4) = 4
    /\ AlignUp(4, 8) = 8 /\ AlignUp(8, 4) = 8 /\ AlignUp(8, 8) = 8 /\ AlignUp(12, 8) = 16
    /\ AlignUp(16, 4) = 16 /\ AlignUp(16, 8) = 16 /\ AlignUp(24, 4) = 24
    /\ AlignUp(24, 8) = 24 /\ AlignUp(32, 4) = 32 /\ AlignUp(36, 8) = 40
    /\ AlignUp(48, 8) = 48
  BY DEF AlignUp

(* A structure of 386 with padding before its last field.                   *)
LEMMA PaddedFields ==
    ASSUME NEW n1, NEW n3, n1 # n3, n1 # "padding", n3 # "padding", NEW s3 \in {8, 16}
    PROVE  LET fields == <<Field(n1, 4, 4), Padding, Field(n3, s3, 4)>>
           IN  /\ OffsetOf(fields, n1) = 0
               /\ OffsetOf(fields, n3) = 8
               /\ AlignOf(fields) = 4
               /\ SizeOf(fields) = 8 + s3
<1> DEFINE fields == <<Field(n1, 4, 4), Padding, Field(n3, s3, 4)>>
<1>1. /\ Len(fields) = 3 /\ DOMAIN fields = 1..3
      /\ fields[1] = [name |-> n1, size |-> 4, align |-> 4]
      /\ fields[2] = [name |-> "padding", size |-> 4, align |-> 1]
      /\ fields[3] = [name |-> n3, size |-> s3, align |-> 4]
  BY DEF Field, Padding
<1> HIDE DEF fields
<1>2. IndexOf(fields, n1) = 1 /\ IndexOf(fields, n3) = 3
  BY <1>1 DEF IndexOf
<1>3. {fields[k].align : k \in DOMAIN fields} = {1, 4}
  BY <1>1
<1>4. AlignOf(fields) = 4
  BY <1>3, MaxOf DEF AlignOf
<1>5. /\ Ends(fields)[0] = 0
      /\ Ends(fields)[1] = AlignUp(Ends(fields)[0], 4) + 4
      /\ Ends(fields)[2] = AlignUp(Ends(fields)[1], 1) + 4
      /\ Ends(fields)[3] = AlignUp(Ends(fields)[2], 4) + s3
  <2>0. Len(fields) = 3 /\ Len(fields) \in Nat
    BY <1>1
  <2>1. /\ Ends(fields)[0] = 0
        /\ \A k \in 1..3 : Ends(fields)[k] =
             AlignUp(Ends(fields)[k - 1], fields[k].align) + fields[k].size
    BY <2>0, EndsStep, Zenon
  <2>2. Ends(fields)[1] = AlignUp(Ends(fields)[0], 4) + 4
    BY <1>1, <2>1, 1 \in 1..3, 1 - 1 = 0
  <2>3. Ends(fields)[2] = AlignUp(Ends(fields)[1], 1) + 4
    BY <1>1, <2>1, 2 \in 1..3, 2 - 1 = 1
  <2>4. Ends(fields)[3] = AlignUp(Ends(fields)[2], 4) + s3
    BY <1>1, <2>1, 3 \in 1..3, 3 - 1 = 2
  <2> QED
    BY <2>1, <2>2, <2>3, <2>4
<1>6. Ends(fields)[1] = 4 /\ Ends(fields)[2] = 8 /\ Ends(fields)[3] = 8 + s3
  BY <1>5, Multiples
<1>7. /\ OffsetOf(fields, n1) = 0 /\ OffsetOf(fields, n3) = 8
      /\ SizeOf(fields) = 8 + s3
  BY <1>1, <1>2, <1>4, <1>5, <1>6, Multiples DEF OffsetOf, SizeOf
<1> QED
  BY <1>4, <1>7 DEF fields

(* The formatted value of pdh.dll.                                          *)
LEMMA CFmtLayout ==
    ASSUME NEW kind \in {"Large", "Double"}
    PROVE  /\ OffsetOf(CValue(kind), "CStatus") = 0
           /\ OffsetOf(CValue(kind), "value") = 8
           /\ SizeOf(CValue(kind)) = 16
           /\ AlignOf(CValue(kind)) = 8
<1>1. CValue(kind) = <<Field("CStatus", 4, 4), Field("value", 8, 8)>>
  BY DEF CValue, Uint32, CWide
<1>2. /\ AlignUp(0, 4) = 0 /\ AlignUp(0 + 4, 8) = 8 /\ AlignUp(8 + 8, 8) = 16
  BY DEF AlignUp
<1> QED
  BY <1>1, <1>2, TwoFields

(* A raw value of pdh.dll.                                                  *)
LEMMA CRawLayout ==
    /\ OffsetOf(CValue("Raw"), "CStatus") = 0
    /\ OffsetOf(CValue("Raw"), "value") = 16
    /\ SizeOf(CValue("Raw")) = 40
    /\ AlignOf(CValue("Raw")) = 8
<1> DEFINE fields == CValue("Raw")
<1>1. /\ Len(fields) = 5 /\ DOMAIN fields = 1..5
      /\ fields[1] = [name |-> "CStatus", size |-> 4, align |-> 4]
      /\ fields[2] = [name |-> "TimeStamp", size |-> 8, align |-> 4]
      /\ fields[3] = [name |-> "value", size |-> 8, align |-> 8]
      /\ fields[4] = [name |-> "SecondValue", size |-> 8, align |-> 8]
      /\ fields[5] = [name |-> "MultiCount", size |-> 4, align |-> 4]
  BY DEF CValue, Uint32, fileTime, CWide, Field
<1> HIDE DEF fields
<1>2. IndexOf(fields, "CStatus") = 1 /\ IndexOf(fields, "value") = 3
  BY <1>1 DEF IndexOf
<1>3. {fields[k].align : k \in DOMAIN fields} = {4, 8}
  BY <1>1
<1>4. AlignOf(fields) = 8
  BY <1>3, MaxOf DEF AlignOf
<1>5. /\ Ends(fields)[0] = 0
      /\ Ends(fields)[1] = AlignUp(Ends(fields)[0], 4) + 4
      /\ Ends(fields)[2] = AlignUp(Ends(fields)[1], 4) + 8
      /\ Ends(fields)[3] = AlignUp(Ends(fields)[2], 8) + 8
      /\ Ends(fields)[4] = AlignUp(Ends(fields)[3], 8) + 8
      /\ Ends(fields)[5] = AlignUp(Ends(fields)[4], 4) + 4
  <2>0. Len(fields) = 5 /\ Len(fields) \in Nat
    BY <1>1
  <2>1. /\ Ends(fields)[0] = 0
        /\ \A k \in 1..5 : Ends(fields)[k] =
             AlignUp(Ends(fields)[k - 1], fields[k].align) + fields[k].size
    BY <2>0, EndsStep, Zenon
  <2>2. Ends(fields)[1] = AlignUp(Ends(fields)[0], 4) + 4
    BY <1>1, <2>1, 1 \in 1..5, 1 - 1 = 0
  <2>3. Ends(fields)[2] = AlignUp(Ends(fields)[1], 4) + 8
    BY <1>1, <2>1, 2 \in 1..5, 2 - 1 = 1
  <2>4. Ends(fields)[3] = AlignUp(Ends(fields)[2], 8) + 8
    BY <1>1, <2>1, 3 \in 1..5, 3 - 1 = 2
  <2>5. Ends(fields)[4] = AlignUp(Ends(fields)[3], 8) + 8
    BY <1>1, <2>1, 4 \in 1..5, 4 - 1 = 3
  <2>6. Ends(fields)[5] = AlignUp(Ends(fields)[4], 4) + 4
    BY <1>1, <2>1, 5 \in 1..5, 5 - 1 = 4
  <2> QED
    BY <2>1, <2>2, <2>3, <2>4, <2>5, <2>6
<1>6. /\ Ends(fields)[1] = 4 /\ Ends(fields)[2] = 12 /\ Ends(fields)[3] = 24
      /\ Ends(fields)[4] = 32 /\ Ends(fields)[5] = 36
  BY <1>5, Multiples
<1>7. /\ OffsetOf(fields, "CStatus") = 0 /\ OffsetOf(fields, "value") = 16
      /\ SizeOf(fields) = 40
  BY <1>1, <1>2, <1>4, <1>5, <1>6, Multiples DEF OffsetOf, SizeOf
<1> QED
  BY <1>4, <1>7 DEF fields

(* An item of pdh.dll: the name's pointer, then the value.                  *)
LEMMA CItemLayout ==
    ASSUME NEW arch \in Arch, NEW kind \in {"Large", "Double", "Raw"}
    PROVE  /\ OffsetOf(CItem(arch, kind), "SzName") = 0
           /\ OffsetOf(CItem(arch, kind), "Value") = 8
           /\ SizeOf(CItem(arch, kind)) = IF kind = "Raw" THEN 48 ELSE 24
<1> DEFINE p == PointerSize(arch)
           v == SizeOf(CValue(kind))
<1>1. p \in {4, 8}
  BY DEF PointerSize
<1>2. AlignOf(CValue(kind)) = 8 /\ v = IF kind = "Raw" THEN 40 ELSE 16
  BY CFmtLayout, CRawLayout
<1> HIDE DEF p, v
<1>3. CItem(arch, kind) = <<Field("SzName", p, p), Field("Value", v, 8)>>
  BY <1>2 DEF CItem, Pointer, Nested, p, v
<1>4. /\ AlignUp(0, p) = 0 /\ AlignUp(0 + p, 8) = 8
      /\ AlignUp(8 + v, 8) = IF kind = "Raw" THEN 48 ELSE 24
  BY <1>1, <1>2, Multiples
<1>5. p \in Nat /\ v \in Nat /\ p <= 8 /\ 8 \in Nat /\ "SzName" # "Value"
  BY <1>1, <1>2
<1>6. /\ OffsetOf(CItem(arch, kind), "SzName") = AlignUp(0, p)
      /\ OffsetOf(CItem(arch, kind), "Value") = AlignUp(AlignUp(0, p) + p, 8)
      /\ SizeOf(CItem(arch, kind)) = AlignUp(AlignUp(AlignUp(0, p) + p, 8) + v, 8)
  BY <1>3, <1>5, TwoFields
<1> QED
  BY <1>3, <1>4, <1>6

(* Short concatenations.                                                    *)
LEMMA Concatenations ==
    ASSUME NEW a, NEW b, NEW c
    PROVE  /\ <<a, b>> \o <<>> = <<a, b>>
           /\ <<a>> \o <<>> \o <<b>> = <<a, b>>
           /\ <<a>> \o <<c>> \o <<b>> = <<a, c, b>>
<1> DEFINE S == {a, b, c}
<1>0. /\ <<a>> \in Seq(S) /\ <<b>> \in Seq(S) /\ <<c>> \in Seq(S)
      /\ <<a, b>> \in Seq(S) /\ <<a, c>> \in Seq(S) /\ <<a, c, b>> \in Seq(S)
  OBVIOUS
<1>1. <<a, b>> \o <<>> = <<a, b>> /\ <<a>> \o <<>> = <<a>>
  BY <1>0, ConcatEmptySeq
<1>3. <<a>> \o <<b>> = <<a, b>>
  <2> DEFINE t == <<a>> \o <<b>>
  <2>1. t \in Seq(S) /\ Len(t) = 2 /\ t[1] = a /\ t[2] = b
    BY <1>0, ConcatProperties
  <2> HIDE DEF t
  <2>2. t = <<a, b>>
    BY <1>0, <2>1, SeqEqual
  <2> QED
    BY <2>2 DEF t
<1>4. <<a>> \o <<c>> = <<a, c>>
  <2> DEFINE t == <<a>> \o <<c>>
  <2>1. t \in Seq(S) /\ Len(t) = 2 /\ t[1] = a /\ t[2] = c
    BY <1>0, ConcatProperties
  <2> HIDE DEF t
  <2>2. t = <<a, c>>
    BY <1>0, <2>1, SeqEqual
  <2> QED
    BY <2>2 DEF t
<1>5. <<a, c>> \o <<b>> = <<a, c, b>>
  <2> DEFINE t == <<a, c>> \o <<b>>
  <2>1. t \in Seq(S) /\ Len(t) = 3 /\ t[1] = a /\ t[2] = c /\ t[3] = b
    BY <1>0, ConcatProperties
  <2> HIDE DEF t
  <2>2. t = <<a, c, b>>
    BY <1>0, <2>1, SeqEqual
  <2> QED
    BY <2>2 DEF t
<1> QED
  BY <1>1, <1>3, <1>4, <1>5, Zenon

(* The Go structures of the 64-bit architectures are those of pdh.dll.      *)
LEMMA SameStructures ==
    ASSUME NEW arch \in {"amd64", "arm64"}, NEW kind \in {"Large", "Double", "Raw"}
    PROVE  GoValue(arch, kind) = CValue(kind) /\ GoItem(arch, kind) = CItem(arch, kind)
<1>1. GoValue(arch, kind) = CValue(kind)
  <2>1. CASE kind = "Large"
    BY <2>1, Concatenations, Zenon DEF GoValue, CValue, FmtLarge, Wide, CWide
  <2>2. CASE kind = "Double"
    BY <2>2, Concatenations, Zenon DEF GoValue, CValue, FmtDouble, Wide, CWide
  <2>3. CASE kind = "Raw"
    BY <2>3 DEF GoValue, CValue, RawCounter, Wide, CWide
  <2> QED
    BY <2>1, <2>2, <2>3
<1>2. GoItem(arch, kind) = CItem(arch, kind)
  BY <1>1, Concatenations, Zenon DEF GoItem, CItem
<1> QED
  BY <1>1, <1>2

(* Those of the double values of 386 differ, but not in where things are.   *)
LEMMA Double386Layout ==
    /\ OffsetOf(GoValue("386", "Double"), "CStatus") = 0
    /\ OffsetOf(GoValue("386", "Double"), "value") = 8
    /\ OffsetOf(GoItem("386", "Double"), "SzName") = 0
    /\ OffsetOf(GoItem("386", "Double"), "Value") = 8
    /\ SizeOf(GoItem("386", "Double")) = 24
<1>1. GoValue("386", "Double") = <<Field("CStatus", 4, 4), Padding, Field("value", 8, 4)>>
  BY Concatenations, Zenon DEF GoValue, FmtDouble, Uint32, Wide
<1>2. /\ OffsetOf(GoValue("386", "Double"), "CStatus") = 0
      /\ OffsetOf(GoValue("386", "Double"), "value") = 8
      /\ AlignOf(GoValue("386", "Double")) = 4
      /\ SizeOf(GoValue("386", "Double")) = 16
  <2> DEFINE fields == <<Field("CStatus", 4, 4), Padding, Field("value", 8, 4)>>
  <2>1. /\ OffsetOf(fields, "CStatus") = 0 /\ OffsetOf(fields, "value") = 8
        /\ AlignOf(fields) = 4 /\ SizeOf(fields) = 8 + 8
    <3>1. "CStatus" # "value" /\ "CStatus" # "padding" /\ "value" # "padding" /\ 8 \in {8, 16}
      OBVIOUS
    <3> QED
      BY ONLY <3>1, PaddedFields, Zenon
  <2> QED
    BY <1>1, <2>1
<1>3. GoItem("386", "Double") = <<Field("SzName", 4, 4), Padding, Field("Value", 16, 4)>>
  <2>1. Nested("Value", GoValue("386", "Double")) = Field("Value", 16, 4)
    BY <1>2 DEF Nested
  <2>2. Pointer("386", "SzName") = Field("SzName", 4, 4)
    BY DEF Pointer, PointerSize
  <2> QED
    BY <2>1, <2>2, Concatenations, Zenon DEF GoItem
<1>4. /\ OffsetOf(GoItem("386", "Double"), "SzName") = 0
      /\ OffsetOf(GoItem("386", "Double"), "Value") = 8
      /\ SizeOf(GoItem("386", "Double")) = 24
  <2> DEFINE fields == <<Field("SzName", 4, 4), Padding, Field("Value", 16, 4)>>
  <2>1. /\ OffsetOf(fields, "SzName") = 0 /\ OffsetOf(fields, "Value") = 8
        /\ SizeOf(fields) = 8 + 16
    <3>1. "SzName" # "Value" /\ "SzName" # "padding" /\ "Value" # "padding" /\ 16 \in {8, 16}
      OBVIOUS
    <3> QED
      BY ONLY <3>1, PaddedFields, Zenon
  <2> QED
    BY <1>3, <2>1
<1> QED
  BY <1>2, <1>4

(* The members of an item are read where pdh.dll wrote them.                *)
StrideOf(kind) == IF kind = "Raw" THEN 48 ELSE 24
MemberOf(kind, name) ==
    IF name = "SzName" THEN 0
    ELSE 8 + IF name = "CStatus" THEN 0 ELSE IF kind = "Raw" THEN 16 ELSE 8

(* Go and pdh.dll agree on where an item has its members.                   *)
LEMMA Places ==
    ASSUME NEW arch, NEW kind, <<arch, kind>> \in SoundReaders,
           NEW name \in {"SzName", "CStatus", "value"}, NEW k \in Int
    PROVE  /\ Place(GoItem(arch, kind), GoValue(arch, kind), k, name) =
                k * StrideOf(kind) + MemberOf(kind, name)
           /\ Place(CItem(arch, kind), CValue(kind), k, name) =
                k * StrideOf(kind) + MemberOf(kind, name)
<1>1. /\ arch \in Arch /\ kind \in {"Large", "Double", "Raw"}
      /\ (arch \in {"amd64", "arm64"} \/ (arch = "386" /\ kind = "Double"))
  BY DEF SoundReaders, Arch
<1> DEFINE size == StrideOf(kind)
           off == MemberOf(kind, name)
<1> USE DEF StrideOf, MemberOf
<1>3. /\ SizeOf(CItem(arch, kind)) = size
      /\ IF name = "SzName" THEN OffsetOf(CItem(arch, kind), "SzName") = off
         ELSE OffsetOf(CItem(arch, kind), "Value") + OffsetOf(CValue(kind), name) = off
  BY <1>1, CItemLayout, CFmtLayout, CRawLayout
<1>4. /\ SizeOf(GoItem(arch, kind)) = size
      /\ IF name = "SzName" THEN OffsetOf(GoItem(arch, kind), "SzName") = off
         ELSE OffsetOf(GoItem(arch, kind), "Value") + OffsetOf(GoValue(arch, kind), name) = off
  <2>1. CASE arch \in {"amd64", "arm64"}
    BY <1>1, <1>3, <2>1, SameStructures
  <2>2. CASE arch = "386" /\ kind = "Double"
    BY <2>2, Double386Layout
  <2> QED
    BY <1>1, <2>1, <2>2
<1> HIDE DEF size, off
<1> QED
  BY <1>3, <1>4 DEF Place, size, off
-----------------------------------------------------------------------------
(* The loop.                                                                *)

(* Of an array of any length, the code reads item k where it reads item k.  *)
LEMMA SeenIsRead ==
    ASSUME reader \in SoundReaders, Len(statuses) \in Nat,
           NEW k \in 0..(Len(statuses) - 1), NEW name \in {"SzName", "CStatus", "value"}
    PROVE  Seen(k, name) = k
<1> DEFINE arch == reader[1]
           kind == reader[2]
           at == Place(GoItem(arch, kind), GoValue(arch, kind), k, name)
           k2s == {j \in 0..(Len(statuses) - 1) :
                     Place(CItem(arch, kind), CValue(kind), j, name) = at}
<1>1. <<arch, kind>> \in SoundReaders
  <2>1. reader = <<reader[1], reader[2]>>
    BY DEF SoundReaders
  <2> QED
    BY <2>1
<1> HIDE DEF arch, kind
<1> DEFINE size == StrideOf(kind)
           off == MemberOf(kind, name)
<1>2. \A j \in Int :
        /\ Place(GoItem(arch, kind), GoValue(arch, kind), j, name) = j * size + off
        /\ Place(CItem(arch, kind), CValue(kind), j, name) = j * size + off
  BY <1>1, Places, Zenon
<1>3. \A j \in Int : j * size + off = k * size + off <=> j = k
  <2>1. off \in Int /\ size \in {24, 48}
    BY DEF StrideOf, MemberOf
  <2> HIDE DEF size, off
  <2>2. CASE size = 24
    BY <2>1, <2>2
  <2>3. CASE size = 48
    BY <2>1, <2>3
  <2> QED
    BY <2>1, <2>2, <2>3
<1> HIDE DEF size, off
<1>4. k2s = {k}
  <2>1. at = k * size + off
    BY <1>2
  <2>2. \A j \in 0..(Len(statuses) - 1) :
          Place(CItem(arch, kind), CValue(kind), j, name) = at <=> j = k
    <3> TAKE j \in 0..(Len(statuses) - 1)
    <3>1. Place(CItem(arch, kind), CValue(kind), j, name) = j * size + off
      BY <1>2
    <3> HIDE DEF at
    <3>2. j \in Int
      OBVIOUS
    <3> QED
      BY <1>3, <2>1, <3>1, <3>2, Zenon
  <2> QED
    BY <2>2
<1>5. Seen(k, name) = IF k2s = {} THEN -1 ELSE CHOOSE j \in k2s : TRUE
  BY DEF Seen, arch, kind
<1> HIDE DEF k2s
<1> QED
  BY <1>4, <1>5

(* The values follow the items: the inductive invariant.                    *)
DecodeInv ==
    /\ statuses \in Seq(Status)
    /\ read \in 0..Len(statuses)
    /\ values \in Seq(Nat \X Nat)
    /\ reader \in Reader \/ statuses = <<>>
    /\ ItemsDecoded

(* Between two calls nothing is read.                                       *)
LEMMA DecodeInit == ItemsInit => DecodeInv
  BY DEF ItemsInit, DecodeInv, ItemsDecoded

(* One item more: it is kept, last, when its status is good.                *)
LEMMA ReadItemDecodes ==
    ASSUME Reader \subseteq SoundReaders, DecodeInv, ReadItem
    PROVE  DecodeInv'
<1>1. /\ Len(statuses) \in Nat /\ read \in 0..(Len(statuses) - 1)
      /\ reader \in SoundReaders
      /\ reader' = reader /\ statuses' = statuses /\ read' = read + 1
  BY DEF DecodeInv, ReadItem
<1>2. /\ Seen(read, "CStatus") = read /\ Seen(read, "SzName") = read
      /\ Seen(read, "value") = read
  BY <1>1, SeenIsRead
<1>3. values' = IF statuses[read + 1] \in good THEN Append(values, <<read, read>>)
                ELSE values
  <2>1. Keeps(read) = {statuses[read + 1] \in good}
    BY <1>1, <1>2 DEF Keeps
  <2>2. PICK keep \in Keeps(read) :
          values' = IF keep THEN Append(values, <<read, read>>) ELSE values
    BY <1>2 DEF ReadItem
  <2>3. keep = (statuses[read + 1] \in good)
    BY <2>1
  <2> QED
    BY <2>2, <2>3, Zenon
<1> DEFINE Kept(n) == {<<k, k>> : k \in {k \in 0..(n - 1) : statuses[k + 1] \in good}}
<1>4. /\ values \in Seq(Nat \X Nat)
      /\ {values[j] : j \in DOMAIN values} = Kept(read)
      /\ \A j1, j2 \in DOMAIN values : j1 < j2 => values[j1][1] < values[j2][1]
  BY Zenon DEF DecodeInv, ItemsDecoded
<1>5. /\ values' \in Seq(Nat \X Nat)
      /\ {values'[j] : j \in DOMAIN values'} = Kept(read + 1)
      /\ \A j1, j2 \in DOMAIN values' : j1 < j2 => values'[j1][1] < values'[j2][1]
  <2>1. CASE statuses[read + 1] \in good
    <3>1. Kept(read + 1) = Kept(read) \cup {<<read, read>>}
      BY <1>1, <2>1
    <3>2. /\ values' \in Seq(Nat \X Nat) /\ Len(values') = Len(values) + 1
          /\ DOMAIN values' = 1..(Len(values) + 1) /\ DOMAIN values = 1..Len(values)
          /\ \A j \in 1..Len(values) : values'[j] = values[j]
          /\ values'[Len(values) + 1] = <<read, read>> /\ Len(values) \in Nat
      <4>1. values' = Append(values, <<read, read>>) /\ <<read, read>> \in Nat \X Nat
        BY <1>1, <1>3, <2>1
      <4> QED
        BY <1>4, <4>1, AppendProperties, LenProperties
    <3>3. {values'[j] : j \in DOMAIN values'} = Kept(read + 1)
      <4>1. {values'[j] : j \in DOMAIN values'} =
              {values[j] : j \in DOMAIN values} \cup {<<read, read>>}
        <5>1. \A j \in DOMAIN values' :
                j \in DOMAIN values \/ j = Len(values) + 1
          BY ONLY <3>2
        <5>2. \A j \in DOMAIN values : j \in DOMAIN values' /\ values'[j] = values[j]
          BY ONLY <3>2
        <5>3. Len(values) + 1 \in DOMAIN values' /\ values'[Len(values) + 1] = <<read, read>>
          BY ONLY <3>2
        <5> QED
          BY ONLY <5>1, <5>2, <5>3
      <4> HIDE DEF Kept
      <4> QED
        BY <1>4, <3>1, <4>1, Zenon
    <3>4. \A j \in DOMAIN values : values[j][1] < read
      <4>1. \A j \in DOMAIN values : values[j] \in Kept(read)
        BY <1>4, Zenon
      <4> QED
        BY <1>1, <4>1
    <3>5. ASSUME NEW j1 \in DOMAIN values', NEW j2 \in DOMAIN values', j1 < j2
          PROVE  values'[j1][1] < values'[j2][1]
      <4>1. j1 \in DOMAIN values /\ values'[j1] = values[j1]
        BY ONLY <3>2, <3>5
      <4>2. CASE j2 \in DOMAIN values
        <5>1. values'[j2] = values[j2]
          BY <3>2, <4>2
        <5> QED
          BY <1>4, <3>5, <4>1, <4>2, <5>1
      <4>3. CASE j2 = Len(values) + 1
        <5>1. values'[j2][1] = read
          BY <3>2, <4>3
        <5> QED
          BY <3>4, <4>1, <5>1
      <4> QED
        BY ONLY <3>2, <3>5, <4>2, <4>3
    <3> QED
      BY <3>2, <3>3, <3>5, Zenon
  <2>2. CASE statuses[read + 1] \notin good
    <3>1. Kept(read + 1) = Kept(read)
      BY <1>1, <2>2
    <3> HIDE DEF Kept
    <3> QED
      BY <1>3, <1>4, <2>2, <3>1
  <2> QED
    BY <2>1, <2>2, Zenon
<1>6. ItemsDecoded'
  BY <1>1, <1>5 DEF ItemsDecoded, good
<1> QED
  BY <1>1, <1>5, <1>6 DEF DecodeInv

(* Every step of an array reader.                                           *)
LEMMA DecodeStep ==
    ASSUME Reader \subseteq SoundReaders, DecodeInv, [ItemsNext]_itemVars
    PROVE  DecodeInv'
<1>1. CASE Ask
  <2>1. /\ statuses' \in Seq(Status) /\ reader' \in Reader
        /\ read' = read /\ values' = values
    BY <1>1 DEF Ask
  <2>2. statuses = <<>> /\ read = 0
    <3>1. \A r \in Reader : DOMAIN r = 1..2
      BY ReaderAssumption
    <3>2. reader = <<>> /\ DOMAIN reader = {}
      BY <1>1 DEF Ask
    <3>3. reader \notin Reader
      BY <3>1, <3>2
    <3> QED
      BY <3>3 DEF DecodeInv
  <2>3. values = <<>>
    <3>1. values \in Seq(Nat \X Nat) /\ {values[j] : j \in DOMAIN values} = {}
      BY <2>2 DEF DecodeInv, ItemsDecoded
    <3>2. DOMAIN values = {}
      BY <3>1, Zenon
    <3> QED
      BY <3>1, <3>2
  <2> QED
    BY <2>1, <2>2, <2>3 DEF DecodeInv, ItemsDecoded
<1>2. CASE ReadItem
  BY <1>2, ReadItemDecodes
<1>3. CASE ReturnItems
  BY <1>3 DEF ReturnItems, DecodeInv, ItemsDecoded
<1>4. CASE UNCHANGED itemVars
  BY <1>4, Zenon DEF itemVars, DecodeInv, ItemsDecoded, good
<1> QED
  BY <1>1, <1>2, <1>3, <1>4 DEF ItemsNext

(* For the readers of which the Go structure puts the members where pdh.dll *)
(* does, every item of every array, whatever its length and the statuses in *)
(* it, is decoded as the item it is.                                        *)
THEOREM ArraysAreDecoded ==
    ASSUME Reader \subseteq SoundReaders
    PROVE  ItemsSpec => []ItemsDecoded
<1>1. DecodeInv => ItemsDecoded
  BY DEF DecodeInv
<1>2. DecodeInv /\ [ItemsNext]_itemVars => DecodeInv'
  BY DecodeStep
<1> QED
  BY DecodeInit, <1>1, <1>2, PTL DEF ItemsSpec
=============================================================================
