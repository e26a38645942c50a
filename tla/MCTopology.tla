----------------------------- MODULE MCTopology -----------------------------
(* Module Topology for TLC: a control plane and a worker, whose VMIDs PVE   *)
(* may have picked the other way round.                                     *)
EXTENDS Topology, TLC

DeclaredInOrder == ("cp" :> 111) @@ ("w" :> 112)

(***************************************************************************)
(* What the comments say of the file, and the code does not do.             *)
(***************************************************************************)

\* "Materialise infra/clusters/<name>/output.json if missing or stale"
\* (bootstrap): once a node keeps its address, runs record that address.
AddressReconciled ==
    \A n \in Node : \A a \in Addr :
        <>[](Live(n) /\ vm[n].ip = a) => []<>(Written /\ file[n].ip = a)

=============================================================================
