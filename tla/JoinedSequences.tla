-------------------------- MODULE JoinedSequences --------------------------
(***************************************************************************)
(* FlattenSeq of SequencesExt, on its own and as a function that counts    *)
(* from the empty prefix.  With SequencesExt in scope, and Bags that it    *)
(* brings, tlapm needs twenty times as long for every obligation.          *)
(***************************************************************************)
EXTENDS Integers, Sequences

Joined(seqs) ==
    LET join[k \in 0..Len(seqs)] ==
          IF k = 0 THEN <<>> ELSE join[k - 1] \o seqs[k]
    IN  join[Len(seqs)]
=============================================================================
