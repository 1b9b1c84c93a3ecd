------------------------------ MODULE Utf16List ------------------------------
(***************************************************************************)
(* utf16PtrToString and utf16ToStringArray (performance_query.go): the     *)
(* list of strings in the buffer PdhExpandWildCardPath filled, each string *)
(* ended by a NUL and the list by an empty string.  What is left of the    *)
(* buffer after the list is zero, as make left it.                         *)
(*                                                                         *)
(* A character is one UTF-16 unit, except for those of TwoUnits, which are *)
(* a pair.                                                                 *)
(***************************************************************************)
EXTENDS JoinedSequences, FiniteSetsExt

CONSTANT TwoUnits   \* the characters that take two UTF-16 units

VARIABLES
    buf,            \* the buffer
    nextLineStart,  \* counts from 0, as in Go
    stringLine,     \* the string at nextLineStart
    strings         \* the strings found so far

listVars == <<buf, nextLineStart, stringLine, strings>>

(* The first unit of a pair is written as the character itself.             *)
NUL == "NUL"
Low == "second unit of a pair"
Lone == "a byte of an unpaired surrogate"

(* How pdh.dll writes a string, and a list of strings.                      *)
Units(s) ==
    Joined([k \in DOMAIN s |-> IF s[k] \in TwoUnits THEN <<s[k], Low>> ELSE <<s[k]>>])
Encode(list) ==
    Joined([k \in DOMAIN list |-> Append(Units(list[k]), NUL)]) \o <<NUL>>

Zeros(n) == [k \in 1..n |-> NUL]

(* syscall.UTF16ToString: the characters of the units before the first NUL. *)
(* A string that starts in the middle of a pair has an unpaired surrogate,  *)
(* which becomes the three bytes of WTF-8: no UTF-8, so each is a rune.     *)
Characters(units) ==
    Joined([k \in DOMAIN units |->
                  IF units[k] # Low THEN <<units[k]>>
                  ELSE IF k = 1 THEN <<Lone, Lone, Lone>> ELSE <<>>])
utf16PtrToString(units) ==
    Characters(SubSeq(units, 1, Min({k \in DOMAIN units : units[k] = NUL}) - 1))

ListInit == buf = <<NUL>> /\ nextLineStart = 0 /\ stringLine = <<>> /\ strings = <<>>

(* utf16ToStringArray is called with the buffer b.                          *)
StartList(b) ==
    /\ buf' = b
    /\ nextLineStart' = 0
    /\ stringLine' = utf16PtrToString(b)
    /\ strings' = <<>>

(* The string at the 0-based place n; past the buffer the slice expression  *)
(* buf[n:], or &remainingBuf[0] of an empty slice, panics.                  *)
StringFrom(n) ==
    IF n < Len(buf) THEN utf16PtrToString(SubSeq(buf, n + 1, Len(buf))) ELSE <<>>
Panicked == nextLineStart >= Len(buf)

(* Mutant: the NUL of the string is not counted.                            *)
NextString_NoNul ==
    /\ stringLine # <<>>
    /\ strings' = Append(strings, stringLine)
    /\ nextLineStart' = nextLineStart + Len(stringLine)
    /\ stringLine' = StringFrom(nextLineStart')
    /\ UNCHANGED buf

(* Mutant: the walk advances past the NUL twice.                            *)
NextString_TwoNuls ==
    /\ stringLine # <<>>
    /\ strings' = Append(strings, stringLine)
    /\ nextLineStart' = nextLineStart + Len(stringLine) + 2
    /\ stringLine' = StringFrom(nextLineStart')
    /\ UNCHANGED buf

(* One turn of the loop: the start advances by the number of runes.         *)
NextString ==
    /\ stringLine # <<>>
    /\ strings' = Append(strings, stringLine)
    /\ nextLineStart' = nextLineStart + Len(stringLine) + 1
    /\ stringLine' = StringFrom(nextLineStart')
    /\ UNCHANGED buf
=============================================================================
