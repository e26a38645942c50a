---------------------------- MODULE MCBootstrap ----------------------------
(***************************************************************************)
(* Bootstrap for TLC.  Invocations are named p1, p2; clusters apps, cicd.   *)
(***************************************************************************)
EXTENDS Bootstrap, TLC

CONSTANTS p1, p2, apps, cicd

\* One invocation at a time, of either cluster.
OneRun == [p \in {p1} |-> apps]
OneCicdRun == [p \in {p1} |-> cicd]

\* Two invocations of the same cluster.
SameCluster == [p \in {p1, p2} |-> apps]

\* Ports and addresses are interchangeable.
Symmetry == Permutations(Port) \cup Permutations(Addr)

\* The whole pipeline and the partial reruns the docs show.
AllPhases == {PHASES}
BuildPhases == {<<"install_k3s", "k3s", "gateway_crds", "helm">>}
OperatorRequests ==
    {PHASES, <<"install_k3s", "k3s">>, <<"helm", "gateway_smoke">>,
     <<"csi_smoke">>, <<"k3s", "unknown">>}

(***************************************************************************)
(* What the documentation says of reruns, and the code does not do.         *)
(***************************************************************************)

\* "the operator may safely rerun the bootstrap at any point" (SKILL.md:1199):
\* a rerun gets a cluster out of whatever state a killed run left.
RerunsRepairTheLedger == \A c \in Cluster : ~Readable(c) ~> Readable(c)

=============================================================================
