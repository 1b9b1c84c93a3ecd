----------------------------- MODULE CounterPath -----------------------------
(***************************************************************************)
(* Counter paths (utils.go): formatPath, and the scan from right to left   *)
(* with which extractCounterInfoFromCounterPath takes one apart.           *)
(*                                                                         *)
(* A path is a sequence of symbols of which only the backslash and the two *)
(* brackets matter.  Indices are Go's: the first symbol has index 0.  (Go  *)
(* counts bytes; in a path that starts with a backslash no comparison the  *)
(* code makes tells bytes and symbols apart.)                              *)
(***************************************************************************)
EXTENDS Integers, Sequences

CONSTANTS
    Symbol,     \* the characters of a path
    Input       \* the paths that are parsed

ASSUME SymbolAssumption ==
    /\ {"\\", "(", ")"} \subseteq Symbol
    /\ Input \subseteq Seq(Symbol)

VARIABLES
    path,           \* counterPath
    i,              \* the index the loop looks at next, -1 after the loop
    bracketLevel,
    border          \* the six ...BorderIndex variables, -1 while unset

pathVars == <<path, i, bracketLevel, border>>

Border == {"leftComputer", "leftObject", "rightObject", "leftCounter",
           "leftInstance", "rightInstance"}

PathTypeOK ==
    /\ path \in Seq(Symbol)
    /\ i \in -1..(Len(path) - 1)
    /\ bracketLevel \in Int
    /\ border \in [Border -> -1..(Len(path) - 1)]

PathInit == path = <<>> /\ i = -1 /\ bracketLevel = 0 /\ border = [b \in Border |-> -1]
-----------------------------------------------------------------------------
(* Words of the configuration, each a symbol of its own.                    *)
emptyInstance == <<"------">>
localhost == <<"localhost">>

formatPath(computer, objectName, instance, counter) ==
    LET local ==
          IF instance = emptyInstance
          THEN <<"\\">> \o objectName \o <<"\\">> \o counter
          ELSE <<"\\">> \o objectName \o <<"(">> \o instance \o <<")", "\\">> \o counter
    IN  IF computer \in {<<>>, localhost} THEN local
        ELSE <<"\\", "\\">> \o computer \o local

(* The path of a counter c.                                                 *)
PathOf(c) == formatPath(c.computer, c.object, c.instance, c.counter)

(* What ought to be read from it: without an instance the name is empty,    *)
(* and so is the computer for the local one.                                *)
PartsOf(c) ==
    [computer |-> IF c.computer = localhost THEN <<>> ELSE c.computer,
     object |-> c.object,
     instance |-> IF c.instance = emptyInstance THEN <<>> ELSE c.instance,
     counter |-> c.counter]

(* Names that a path can be taken apart into again.  Seen from the right,   *)
(* d[k] brackets are open after the first k symbols: all that open close,   *)
(* and in the names of objects and counters no backslash is outside them.   *)
Weight(x) == IF x = ")" THEN 1 ELSE IF x = "(" THEN -1 ELSE 0
Depth(s, d) ==
    /\ d[Len(s)] = 0 /\ d[0] = 0
    /\ \A k \in 1..Len(s) : d[k - 1] = d[k] + Weight(s[k])
Balanced(s) == \E d \in [0..Len(s) -> 0..Len(s)] : Depth(s, d)
Enclosed(s) ==
    \E d \in [0..Len(s) -> 0..Len(s)] :
       Depth(s, d) /\ \A k \in 1..Len(s) : s[k] = "\\" => d[k] > 0
Plain(s) == \A k \in 1..Len(s) : s[k] \notin {"\\", "(", ")"}

Readable(c) ==
    /\ {c.computer, c.object, c.instance, c.counter} \subseteq Seq(Symbol)
    /\ Plain(c.computer) /\ Enclosed(c.object) /\ Balanced(c.instance) /\ Enclosed(c.counter)
    /\ c.instance = emptyInstance => Plain(c.object)

(* Mutant: the scan starts one past the last symbol.                        *)
StartParse_AtLen(p) ==
    /\ path' = p
    /\ i' = Len(p)
    /\ bracketLevel' = 0
    /\ border' = [b \in Border |-> -1]

(* extractCounterInfoFromCounterPath is called with p; <<>> between calls.  *)
StartParse(p) ==
    /\ path' = p
    /\ i' = Len(p) - 1
    /\ bracketLevel' = 0
    /\ border' = [b \in Border |-> -1]

Unset(b) == border[b] = -1

(* The first border a backslash outside brackets still has to set.          *)
NextLeft ==
    IF Unset("leftCounter") THEN "leftCounter"
    ELSE IF Unset("leftObject") THEN "leftObject"
    ELSE "leftComputer"

ScanBackslash ==
    /\ path[i + 1] = "\\"
    /\ border' = IF bracketLevel = 0 /\ Unset(NextLeft)
                 THEN [border EXCEPT ![NextLeft] = i] ELSE border
    /\ UNCHANGED bracketLevel

(* Mutant: a bracket to the left of the object may open the instance.       *)
ScanOpen_AnyBracket ==
    /\ path[i + 1] = "("
    /\ bracketLevel' = bracketLevel - 1
    /\ border' = IF /\ Unset("leftInstance") /\ bracketLevel' = 0
                    /\ ~Unset("leftCounter")
                 THEN [border EXCEPT !.leftInstance = i, !.rightObject = i]
                 ELSE border

ScanOpen ==
    /\ path[i + 1] = "("
    /\ bracketLevel' = bracketLevel - 1
    /\ border' = IF /\ Unset("leftInstance") /\ bracketLevel' = 0
                    /\ Unset("leftObject") /\ ~Unset("leftCounter")
                 THEN [border EXCEPT !.leftInstance = i, !.rightObject = i]
                 ELSE border

ScanClose ==
    /\ path[i + 1] = ")"
    /\ border' = IF Unset("rightInstance") /\ bracketLevel = 0 /\ ~Unset("leftCounter")
                 THEN [border EXCEPT !.rightInstance = i] ELSE border
    /\ bracketLevel' = bracketLevel + 1

ScanOther ==
    /\ path[i + 1] \notin {"\\", "(", ")"}
    /\ UNCHANGED <<bracketLevel, border>>

(* One turn of the loop, lines 25-49.                                       *)
Scan ==
    /\ i >= 0
    /\ i' = i - 1
    /\ ScanBackslash \/ ScanOpen \/ ScanClose \/ ScanOther
    /\ UNCHANGED path

Parsed == i = -1 /\ path # <<>>

PathNext ==
    \/ path = <<>> /\ \E p \in Input : StartParse(p)
    \/ Scan
    \/ Parsed /\ StartParse(<<>>)

PathSpec == PathInit /\ [][PathNext]_pathVars
-----------------------------------------------------------------------------
(* Lines 50-52: without an instance the object ends where the counter begins. *)
objectEnd == IF Unset("rightObject") THEN border.leftCounter ELSE border.rightObject

(* Lines 53-69: the three errors.                                           *)
CannotParse ==
    \/ objectEnd = -1 \/ Unset("leftObject")
    \/ /\ ~Unset("leftComputer")
       /\ border.leftComputer # 1 \/ border.leftComputer = border.leftObject - 1
    \/ Unset("leftInstance") # Unset("rightInstance")

(* counterPath[left+1 : right] *)
Slice(left, right) == SubSeq(path, left + 2, right)

(* Lines 57-72: what is returned.                                           *)
Extracted ==
    [computer |-> IF Unset("leftComputer") THEN <<>>
                  ELSE Slice(border.leftComputer, border.leftObject),
     object   |-> Slice(border.leftObject, objectEnd),
     instance |-> IF Unset("leftInstance") THEN <<>>
                  ELSE Slice(border.leftInstance, border.rightInstance),
     counter  |-> Slice(border.leftCounter, Len(path))]
-----------------------------------------------------------------------------
(* Whatever the path, nested or unbalanced brackets included, a parse that  *)
(* returns no error cuts computer, object, instance and counter out of it   *)
(* from left to right and without overlap: no slice expression is taken     *)
(* backwards, which would panic.                                            *)
PartsInOrder ==
    Parsed /\ ~CannotParse =>
        /\ border.leftComputer < border.leftObject
        /\ border.leftObject < objectEnd
        /\ objectEnd <= border.leftCounter
        /\ ~Unset("leftInstance") =>
             /\ objectEnd = border.leftInstance
             /\ border.leftInstance < border.rightInstance
             /\ border.rightInstance < border.leftCounter
=============================================================================
