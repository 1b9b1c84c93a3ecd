--------------------------- MODULE GatherContract ---------------------------
(***************************************************************************)
(* What Gather promises its caller, without queries, counters or refreshes:*)
(* first it samples; if that fails it returns the error and the callback   *)
(* has been given nothing; if not, every host it owes an answer hands over *)
(* requested values once, or none, and only then Gather returns, with nil. *)
(***************************************************************************)
CONSTANTS
    Host,       \* the computers
    Requested,  \* [Host -> the entries the configuration asks for]
    Error,      \* what Gather may return
    Nil

VARIABLES
    phase,      \* "idle" between calls, then "sampling", then "reading"
    owed,       \* the hosts that have still to hand over their values
    delivered,  \* what the callback was given in this call
    err         \* what the last call returned

contractVars == <<phase, owed, delivered, err>>

ContractInit ==
    phase = "idle" /\ owed = {} /\ delivered = [h \in Host |-> {}] /\ err = Nil

(* Gather is called. *)
Begin ==
    /\ phase = "idle" /\ phase' = "sampling"
    /\ delivered' = [h \in Host |-> {}]
    /\ err' = Nil
    /\ UNCHANGED owed

(* A call of pdh.dll failed, or there is nothing to do: Gather returns.     *)
GiveUp ==
    /\ phase = "sampling" /\ phase' = "idle"
    /\ err' \in Error
    /\ UNCHANGED <<owed, delivered>>

(* All hosts are sampled.                                                   *)
Sampled ==
    /\ phase = "sampling" /\ phase' = "reading"
    /\ owed' \in SUBSET Host
    /\ UNCHANGED <<delivered, err>>

(* The goroutine of h ends.                                                 *)
HandOver(h) ==
    /\ phase = "reading" /\ h \in owed
    /\ owed' = owed \ {h}
    /\ delivered[h] = {}
    /\ delivered'[h] \subseteq Requested[h]
    /\ delivered' = [delivered EXCEPT ![h] = delivered'[h]]
    /\ UNCHANGED <<phase, err>>

Return ==
    /\ phase = "reading" /\ owed = {}
    /\ phase' = "idle"
    /\ err' = Nil
    /\ UNCHANGED <<owed, delivered>>

ContractNext ==
    Begin \/ GiveUp \/ Sampled \/ Return \/ \E h \in Host : HandOver(h)

ContractSpec == ContractInit /\ [][ContractNext]_contractVars
=============================================================================
