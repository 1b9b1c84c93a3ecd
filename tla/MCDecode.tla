------------------------------ MODULE MCDecode ------------------------------
(***************************************************************************)
(* The decoding of what pdh.dll writes into a buffer, one call at a time:  *)
(* lists of expanded paths, arrays of values, and the parser alone on      *)
(* every short path.                                                       *)
(***************************************************************************)
EXTENDS ExpandedPaths, ItemArray

CONSTANT MaxPathLen     \* bound on the paths the parser alone is given

Supplementary == "U+10400"      \* a character of two UTF-16 units
MCSymbol ==
    {"\\", "(", ")", "h", "o", "i", "c", "------", "localhost", Supplementary, Lone}

MCInput == UNION {[1..n -> {"\\", "(", ")", "c"}] : n \in 0..MaxPathLen}

Computers == {localhost, <<"h">>}
Objects == {<<"o">>, <<"o", "(", "o", ")">>}
Instances ==
    {emptyInstance, <<"i">>, <<"i", "(", "i", ")">>, <<"\\", "i">>, <<Supplementary>>}
CounterNames == {<<"c">>, <<"c", "(", "\\", ")">>, <<"c", Supplementary>>}

(* The brackets of an object without instances would be read as an instance. *)
MCCounters ==
    {c \in [computer : Computers, object : Objects, instance : Instances,
            counter : CounterNames] :
        c.instance = emptyInstance \/ c.computer # localhost => c.object = <<"o">>}

(* The readers whose Go structures are not those of pdh.dll.                *)
OtherReaders == (Arch \X Kind) \ SoundReaders

decodeVars == <<expandVars, itemVars>>
DecodeInit == ExpandInit /\ ItemsInit

(* One call at a time. *)
DecodeNext ==
    \/ reader = <<>> /\ ExpandNext /\ UNCHANGED itemVars
    \/ /\ reader = <<>> /\ found = <<>>
       /\ PathNext
       /\ UNCHANGED <<found, parts, listVars, itemVars>>
    \/ /\ found = <<>> /\ path = <<>>
       /\ ItemsNext
       /\ UNCHANGED expandVars

DecodeSpec == DecodeInit /\ [][DecodeNext]_decodeVars
=============================================================================
