------------------------------ MODULE ItemArray ------------------------------
(***************************************************************************)
(* The decoding of an array of counter values (performance_query.go, the   *)
(* four array readers): pdh.dll lays the items out as its C structures,    *)
(* the code reads them through the Go structures of pdh_386.go,            *)
(* pdh_amd64.go and pdh_arm64.go, and keeps the items with a good status.  *)
(*                                                                         *)
(* A structure is a sequence of fields with their size and alignment.  Go  *)
(* aligns an 8-byte field to 4 bytes on 386 and to 8 elsewhere; pdh.dll    *)
(* aligns it to 8 everywhere, and gives the long, large and double values  *)
(* one place, of which the Go types are specialisations.                   *)
(***************************************************************************)
EXTENDS Integers, Sequences, FiniteSetsExt

CONSTANTS
    Reader,     \* pairs <<GOARCH, kind of value>> that are read
    MaxItems    \* bound on the items of one answer

Arch == {"386", "amd64", "arm64"}
Kind == {"Long", "Large", "Double", "Raw"}
Status == {"PDH_CSTATUS_VALID_DATA", "PDH_CSTATUS_NEW_DATA", "PDH_CSTATUS_INVALID_DATA"}

ASSUME ReaderAssumption == Reader \subseteq Arch \X Kind /\ MaxItems \in Nat

VARIABLES
    reader,     \* the architecture and the kind of this call, <<>> for none
    statuses,   \* the status pdh.dll wrote into each item
    read,       \* the items looked at so far
    values      \* the values kept: <<item of the name, item of the value>>

itemVars == <<reader, statuses, read, values>>

Field(name, size, align) == [name |-> name, size |-> size, align |-> align]
Uint32(name) == Field(name, 4, 4)
Padding == Field("padding", 4, 1)
PointerSize(arch) == IF arch = "386" THEN 4 ELSE 8
Pointer(arch, name) == Field(name, PointerSize(arch), PointerSize(arch))
Wide(arch, name) == Field(name, 8, IF arch = "386" THEN 4 ELSE 8)
CWide(name) == Field(name, 8, 8)
fileTime(name) == Field(name, 8, 4)

(* The Go compiler and the C compiler agree on the rest: a field comes at   *)
(* the next multiple of its alignment, and a structure has the alignment of *)
(* its strictest field and a multiple of it as its size.                    *)
AlignUp(n, align) == ((n + align - 1) \div align) * align
Ends(fields) ==
    LET end[k \in 0..Len(fields)] ==
          IF k = 0 THEN 0 ELSE AlignUp(end[k - 1], fields[k].align) + fields[k].size
    IN  end
IndexOf(fields, name) == CHOOSE k \in DOMAIN fields : fields[k].name = name
OffsetOf(fields, name) ==
    LET k == IndexOf(fields, name) IN AlignUp(Ends(fields)[k - 1], fields[k].align)
AlignOf(fields) == Max({fields[k].align : k \in DOMAIN fields})
SizeOf(fields) == AlignUp(Ends(fields)[Len(fields)], AlignOf(fields))
Nested(name, fields) == Field(name, SizeOf(fields), AlignOf(fields))
-----------------------------------------------------------------------------
(* pdhFmtCounterValueLong, ...Large, ...Double and pdhRawCounter.           *)
FmtLong(arch) ==
    <<Uint32("CStatus"), Uint32("value")>>
        \o (IF arch = "386" THEN <<Padding>> ELSE <<>>)
FmtLarge(arch) ==
    <<Uint32("CStatus"), Wide(arch, "value")>>
        \o (IF arch = "386" THEN <<Padding>> ELSE <<>>)

(* Mutant: the padding comes after the value, as in pdhFmtCounterValueLarge. *)
FmtDouble_PadLast(arch) == FmtLarge(arch)

FmtDouble(arch) ==
    <<Uint32("CStatus")>> \o (IF arch = "386" THEN <<Padding>> ELSE <<>>)
        \o <<Wide(arch, "value")>>
RawCounter(arch) ==
    <<Uint32("CStatus"), fileTime("TimeStamp"), Wide(arch, "value"),
      Wide(arch, "SecondValue"), Uint32("MultiCount")>>

GoValue(arch, kind) ==
    CASE kind = "Long" -> FmtLong(arch)
      [] kind = "Large" -> FmtLarge(arch)
      [] kind = "Double" -> FmtDouble(arch)
      [] kind = "Raw" -> RawCounter(arch)

(* pdhFmtCounterValueItem... and pdhRawCounterItem.                         *)
GoItem(arch, kind) ==
    <<Pointer(arch, "SzName")>>
        \o (IF arch = "386" /\ kind = "Double" THEN <<Padding>> ELSE <<>>)
        \o <<Nested("Value", GoValue(arch, kind))>>

(* The structures of pdh.dll: one union for the formatted kinds.            *)
CValue(kind) ==
    IF kind = "Raw"
    THEN <<Uint32("CStatus"), fileTime("TimeStamp"), CWide("value"),
           CWide("SecondValue"), Uint32("MultiCount")>>
    ELSE <<Uint32("CStatus"), CWide("value")>>
CItem(arch, kind) == <<Pointer(arch, "SzName"), Nested("Value", CValue(kind))>>

(* Where item k (from 0) of an array has its name, its status or its value. *)
Place(item, value, k, name) ==
    k * SizeOf(item)
        + IF name = "SzName" THEN OffsetOf(item, "SzName")
          ELSE OffsetOf(item, "Value") + OffsetOf(value, name)

(* The item whose member Go finds at the place it reads for item k, or -1   *)
(* for bytes that are something else.                                       *)
Seen(k, name) ==
    LET at == Place(GoItem(reader[1], reader[2]), GoValue(reader[1], reader[2]), k, name)
        k2s == {j \in 0..(Len(statuses) - 1) :
                  Place(CItem(reader[1], reader[2]), CValue(reader[2]), j, name) = at}
    IN  IF k2s = {} THEN -1 ELSE CHOOSE j \in k2s : TRUE
-----------------------------------------------------------------------------
ItemsInit == reader = <<>> /\ statuses = <<>> /\ read = 0 /\ values = <<>>

(* The caller asks for an array, and pdh.dll answers with items.            *)
Ask ==
    /\ reader = <<>>
    /\ reader' \in Reader
    /\ statuses' \in UNION {[1..n -> Status] : n \in 0..MaxItems}
    /\ UNCHANGED <<read, values>>

good == {"PDH_CSTATUS_VALID_DATA", "PDH_CSTATUS_NEW_DATA"}

(* The test of CStatus; bytes that are no status may look like any.         *)
Keeps(k) ==
    IF Seen(k, "CStatus") = -1 THEN BOOLEAN
    ELSE {statuses[Seen(k, "CStatus") + 1] \in good}

(* One turn of `for _, item := range items'.                                *)
ReadItem ==
    /\ read < Len(statuses)
    /\ read' = read + 1
    /\ \E keep \in Keeps(read) :
         values' = IF keep
                   THEN Append(values, <<Seen(read, "SzName"), Seen(read, "value")>>)
                   ELSE values
    /\ UNCHANGED <<reader, statuses>>

(* The values are returned.                                                 *)
ReturnItems ==
    /\ reader # <<>>
    /\ read = Len(statuses)
    /\ reader' = <<>> /\ statuses' = <<>> /\ read' = 0 /\ values' = <<>>

ItemsNext == Ask \/ ReadItem \/ ReturnItems

ItemsSpec == ItemsInit /\ [][ItemsNext]_itemVars
-----------------------------------------------------------------------------
(* What the collector reads, on every architecture, but for raw values on   *)
(* 386; and the large values on the 64-bit ones.                            *)
SoundReaders ==
    (Arch \X {"Double"}) \cup ({"amd64", "arm64"} \X {"Raw", "Large"})

(* At every turn of the loop, the items with a good status among those      *)
(* looked at have given one value each, in the order of the answer, and     *)
(* name and value are those of that item: the members are read where        *)
(* pdh.dll wrote them, in every item of the array.                          *)
ItemsDecoded ==
    /\ {values[j] : j \in DOMAIN values} =
           {<<k, k>> : k \in {k \in 0..(read - 1) : statuses[k + 1] \in good}}
    /\ \A j1, j2 \in DOMAIN values : j1 < j2 => values[j1][1] < values[j2][1]
=============================================================================
