---------------------------- MODULE ExpandedPaths ----------------------------
(***************************************************************************)
(* The paths of an expansion, from end to end: pdh.dll formats a path for  *)
(* every counter it found and writes the list of them into the buffer,     *)
(* ExpandWildCardPath turns the buffer into strings, and addItem takes     *)
(* each string apart (win_perf_counters.go, lines 308-333).                *)
(***************************************************************************)
EXTENDS Utf16List, CounterPath

CONSTANTS
    Counters,   \* the counters an expansion may find
    MaxFound,   \* bound on the counters one expansion finds
    MaxSpare    \* bound on the units of the buffer the list leaves unused

ASSUME CountersAssumption ==
    /\ MaxFound \in Nat
    /\ MaxSpare \in Nat
    /\ {NUL, Low} \cap Symbol = {}
    /\ \A c \in Counters : Readable(c)

VARIABLES
    found,      \* the counters this expansion found
    parts       \* what addItem extracted from the strings, in their order

expandVars == <<found, parts, listVars, pathVars>>

cannotParse == [error |-> "cannot parse"]

ExpandInit == ListInit /\ PathInit /\ found = <<>> /\ parts = <<>>

PathList(counters) == [k \in DOMAIN counters |-> PathOf(counters[k])]

(* PdhExpandWildCardPath succeeds and writes the paths of what it found;    *)
(* the list may fill the buffer to the last unit.                           *)
ExpandWildCardPath ==
    /\ found = <<>> /\ path = <<>>
    /\ \E n \in 0..MaxFound : found' \in [1..n -> Counters]
    /\ \E spare \in 0..MaxSpare :
         StartList(Encode(PathList(found')) \o Zeros(spare))
    /\ UNCHANGED <<parts, pathVars>>

Decode == NextString /\ UNCHANGED <<found, parts, pathVars>>

(* addItem, line 330, for the next string.                                  *)
Extract ==
    /\ stringLine = <<>> /\ ~Panicked
    /\ path = <<>>
    /\ Len(parts) < Len(strings)
    /\ StartParse(strings[Len(parts) + 1])
    /\ UNCHANGED <<found, parts, listVars>>

ScanPath == Scan /\ UNCHANGED <<found, parts, listVars>>

ExtractDone ==
    /\ Parsed
    /\ Len(parts) < Len(strings)
    /\ parts' = Append(parts, IF CannotParse THEN cannotParse ELSE Extracted)
    /\ StartParse(<<>>)
    /\ UNCHANGED <<found, listVars>>

(* Every string was parsed.                                                 *)
Expanded ==
    /\ stringLine = <<>> /\ ~Panicked
    /\ Len(parts) = Len(strings) /\ path = <<>>

(* addItem returns.                                                         *)
ExpandReturn ==
    /\ Expanded
    /\ found' = <<>>
    /\ parts' = <<>>
    /\ StartList(<<NUL>>)
    /\ UNCHANGED pathVars

(* A panic ends the program; it is started again.                           *)
Restart ==
    /\ Panicked
    /\ found' = <<>>
    /\ parts' = <<>>
    /\ StartList(<<NUL>>)
    /\ StartParse(<<>>)

ExpandNext ==
    \/ ExpandWildCardPath \/ Decode \/ Restart
    \/ Extract \/ ScanPath \/ ExtractDone \/ ExpandReturn

ExpandSpec == ExpandInit /\ [][ExpandNext]_expandVars
-----------------------------------------------------------------------------
(* &remainingBuf[0] exists as long as the buffer is two units longer than   *)
(* the list: the walk finds the empty string that ends the list before it   *)
(* leaves the buffer, whatever the list holds.  Without two-unit characters *)
(* it finds it even in a buffer the list fills.                             *)
Spare == Len(buf) - Len(Encode(PathList(found)))
OneUnit == \A k \in DOMAIN buf : buf[k] # Low
InBuffer == Spare >= 2 \/ OneUnit => ~Panicked

(* The comment on utf16ToStringArray: it "converts list of Windows API NULL *)
(* terminated strings  to go string array".  All counters pdh.dll found     *)
(* arrive in addItem, in their order and with the computer, object,         *)
(* instance and counter they have.                                          *)
PathsArrive ==
    Expanded => parts = [k \in DOMAIN found |-> PartsOf(found[k])]

(* The same for names without two-unit characters.                          *)
OneUnitPathsArrive == OneUnit => PathsArrive
=============================================================================
