----------------------------- MODULE Checkpoint -----------------------------
(***************************************************************************)
(* What bootstrap_state.json promises for one cluster, without the files,   *)
(* the tunnels and the order of the phases: a phase is recorded only when   *)
(* it has been achieved, and a pipeline in progress neither undoes what has *)
(* been achieved nor forgets a record.  Records are lost only when the      *)
(* pipeline is killed while saving, or by the operator when nothing runs;   *)
(* the VMs may be replaced behind the ledger's back, again when nothing     *)
(* runs.                                                                    *)
(***************************************************************************)

CONSTANT Phase

VARIABLES
    running,    \* the pipeline is in progress
    achieved,   \* phases whose effect is on the cluster
    recorded    \* phases the ledger names

vars == <<running, achieved, recorded>>

Init ==
    /\ running = FALSE
    /\ achieved \in SUBSET Phase
    /\ recorded = {}

Begin == ~running /\ running' = TRUE /\ UNCHANGED <<achieved, recorded>>

\* The effect of one phase may be all that another one needed.
Achieve ==
    /\ running
    /\ achieved' \in SUBSET Phase
    /\ achieved \subseteq achieved'
    /\ UNCHANGED <<running, recorded>>

Record(phase) ==
    /\ running
    /\ phase \in achieved
    /\ recorded' = recorded \cup {phase}
    /\ UNCHANGED <<running, achieved>>

End == running /\ running' = FALSE /\ UNCHANGED <<achieved, recorded>>

Kill == running /\ running' = FALSE /\ recorded' = {} /\ UNCHANGED achieved

Wipe == ~running /\ recorded' = {} /\ UNCHANGED <<running, achieved>>

\* The VMs are rebuilt, or one is added: the ledger is not told.
Replace == ~running /\ achieved' \in SUBSET Phase /\ UNCHANGED <<running, recorded>>

Next ==
    \/ Begin \/ Achieve \/ End \/ Kill \/ Wipe \/ Replace
    \/ \E phase \in Phase : Record(phase)

Spec == Init /\ [][Next]_vars
=============================================================================
