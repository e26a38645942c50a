-------------------------- MODULE BootstrapProofs --------------------------
(***************************************************************************)
(* Proofs about module Bootstrap for every number of clusters, runs, ports, *)
(* addresses and failures.                                                  *)
(*                                                                         *)
(*   TypeCorrect       the variables keep their types.  TypeOK alone is not *)
(*                     inductive: the ledger gains Cur(p), which is a phase *)
(*                     only while pos[p] is inside req[p], and a kubeconfig *)
(*                     gains fwd[p], which is a port only once the tunnel   *)
(*                     is open.  StageOK says when.                        *)
(*   TunnelsAreOwned   no ssh process is left without a run that will tear  *)
(*                     it down, unless it was killed or gave up opening it. *)
(*   KubectlUsesOwnTunnel  a run's kubectl goes through its own tunnel, if   *)
(*                     runs of one cluster do not overlap.                  *)
(***************************************************************************)
EXTENDS Bootstrap, FiniteSetTheorems, SequenceTheorems, TLAPS

USE ClusterAssumption, ProcAssumption, NullAssumption, BoundAssumption

\* Labels at which no requested phase is being worked on.
Outside == {"idle", "topology", "dispatch", "finally"}

\* What the label of a run says about the phase it is in and its tunnel.
InStage(p, label) ==
    /\ label \notin Outside => pos[p] <= Len(req[p])
    /\ label = "agents" => Cur(p) = "install_k3s"
    /\ label \in {"helm_soft", "helm_envoy", "helm_sc"} => Cur(p) = "helm"
    /\ label = "smoke_verdict" => Cur(p) = "gateway_smoke"
    /\ label = "csi_verdict" => Cur(p) = "csi_smoke"
    /\ label \in {"tunnel", "fetch"} => Cur(p) \in TunnelPhase
    /\ label = "fetch" => fwd[p] \in Port
    /\ label = "body" /\ Cur(p) \in TunnelPhase => fwd[p] \in Port

StageOK == \A p \in Proc : InStage(p, pc[p])

TypeInv == TypeOK /\ StageOK

\* Inside a phase, Cur(p) is one.
LEMMA CurType == ASSUME TypeInv, NEW p \in Proc, pc[p] \notin Outside
                 PROVE Cur(p) \in Phase /\ Own(p) \in Cluster
  BY DEF TypeInv, TypeOK, RunOK, StageOK, InStage, Cur, Own

\* A run moves to a label whose stage facts hold of it.
LEMMA GotoStage ==
    ASSUME TypeInv, NEW p \in Proc, NEW label \in Label, InStage(p, label),
           Goto(p, label), UNCHANGED <<req, pos, fwd>>
    PROVE  StageOK' /\ pc' \in [Proc -> Label]
  <1>1. pc' \in [Proc -> Label]
    BY DEF TypeInv, TypeOK, RunOK, Goto
  <1>2. SUFFICES ASSUME NEW q \in Proc PROVE InStage(q, pc[q])'
    BY <1>1 DEF StageOK
  <1>3. CASE q = p
    <2>1. pc'[q] = label
      BY <1>3 DEF TypeInv, TypeOK, RunOK, Goto
    <2> QED  BY <2>1, <1>3 DEF InStage, Cur
  <1>4. CASE q # p
    <2>1. pc'[q] = pc[q]
      BY <1>4 DEF TypeInv, TypeOK, RunOK, Goto
    <2>2. InStage(q, pc[q])
      BY DEF TypeInv, StageOK
    <2> QED  BY <2>1, <2>2 DEF InStage, Cur
  <1> QED  BY <1>3, <1>4

\* The ways a phase leaves its current label.
Move(p) ==
    \/ MarkDone(p)
    \/ Raise(p, AnyError) \/ Raise(p, Structured) \/ Raise(p, Traceback)
    \/ \E label \in Label : InStage(p, label) /\ Proceed(p, label)

\* Each of them keeps the types of the run.
LEMMA MoveType ==
    ASSUME TypeInv, NEW p \in Proc, pc[p] \notin Outside, Move(p),
           UNCHANGED <<req, pos, cpIp, fwd>>
    PROVE  RunOK' /\ StageOK'
  <1>0. Cur(p) \in Phase
    BY CurType
  <1>p. pos[p] <= Len(req[p])
    BY DEF TypeInv, StageOK, InStage
  <1>1. CASE MarkDone(p)
    <2>1. InStage(p, "save") /\ "save" \in Label
      BY <1>p DEF InStage, Outside, Label
    <2>2. StageOK' /\ pc' \in [Proc -> Label]
      BY <1>1, <2>1, GotoStage DEF MarkDone
    <2> QED  BY <1>0, <1>1, <2>2 DEF MarkDone, TypeInv, TypeOK, RunOK
  <1>2. CASE Raise(p, AnyError) \/ Raise(p, Structured) \/ Raise(p, Traceback)
    <2>1. InStage(p, "finally") /\ "finally" \in Label
      BY DEF InStage, Outside, Label
    <2>2. StageOK' /\ pc' \in [Proc -> Label]
      BY <1>2, <2>1, GotoStage DEF Raise
    <2> QED  BY <1>2, <2>2 DEF Raise, AnyError, Structured, Traceback, TypeInv, TypeOK, RunOK
  <1>3. ASSUME NEW label \in Label, InStage(p, label), Proceed(p, label)
        PROVE  RunOK' /\ StageOK'
    BY <1>3, GotoStage DEF Proceed, TypeInv, TypeOK, RunOK
  <1> QED  BY <1>1, <1>2, <1>3 DEF Move

\* A call spends at most what is left of the failure budget.
LEMMA CallType == ASSUME TypeInv, NEW b \in BOOLEAN, CallFails(b) \/ CallSucceeds(b)
                  PROVE faults' \in 0..MaxFaults
  BY DEF TypeInv, TypeOK, HistoryOK, CallFails, CallSucceeds

\* Installing known things leaves a set of known things.
LEMMA InstallType ==
    ASSUME TypeInv, NEW c \in Cluster, NEW things \in SUBSET Thing, NEW b,
           Install(c, things) \/ InstallPart(c, things, b)
    PROVE  have' \in [Cluster -> SUBSET Thing]
  BY DEF TypeInv, TypeOK, WorldOK, Install, InstallPart

\* The auxiliary charts are finitely many.
LEMMA SoftFinite == IsFiniteSet(SoftRelease)
  <1>1. IsFiniteSet({}) /\ SoftRelease = ((({} \cup {"ccm"}) \cup {"csi"}) \cup {"cloudflared"}) \cup {"cert-manager"}
    BY FS_EmptySet DEF SoftRelease
  <1> QED  BY <1>1, FS_AddElement

\* A phase runs inside the list of requested phases and moves its own run only.
LEMMA PhaseInside ==
    ASSUME TypeInv, NEW p \in Proc, PhaseStep(p) \/ FetchKubeconfig(p)
    PROVE  /\ pc[p] \notin Outside
           /\ Cur(p) \in Phase /\ Own(p) \in Cluster
           /\ UNCHANGED <<req, pos, cpIp, fwd>>
  <1>1. pc[p] \notin Outside
    BY DEF PhaseStep, At, Outside, RunCloudinit, RunInstallServer, RunInstallAgents, RunK3s,
           RunGatewayCrds, RunHelmCilium, RunHelmSoft, RunHelmEnvoy,
           RunHelmDefaultSc, RunGatewaySmokeApply, RunGatewaySmokeVerdict, RunKubeconfig,
           RunCsiSmokeApply, RunCsiSmokeVerdict, RunHostPorts, RunExternalname,
           FetchKubeconfig
  <1>2. UNCHANGED <<req, pos, cpIp, fwd>>
    BY DEF PhaseStep, BodyFrame, RunCloudinit, RunInstallServer, RunInstallAgents, RunK3s,
           RunGatewayCrds, RunHelmCilium, RunHelmSoft, RunHelmEnvoy,
           RunHelmDefaultSc, RunGatewaySmokeApply, RunGatewaySmokeVerdict, RunKubeconfig,
           RunCsiSmokeApply, RunCsiSmokeVerdict, RunHostPorts, RunExternalname,
           FetchKubeconfig
  <1> QED  BY <1>1, <1>2, CurType

\* It ends in one of three ways: recorded, raised, or at its next stage.
LEMMA PhaseMove ==
    ASSUME TypeInv, NEW p \in Proc, PhaseStep(p) \/ FetchKubeconfig(p)
    PROVE  Move(p)
  <1> USE PhaseInside
  <1>1. CASE RunCloudinit(p)
    BY <1>1 DEF RunCloudinit, Move, TunnelErrors, TypeInv, StageOK, InStage, Outside, Label, At, TunnelPhase
  <1>2. CASE RunInstallServer(p)
    BY <1>2 DEF RunInstallServer, Move, TunnelErrors, TypeInv, StageOK, InStage, Outside, Label, At, TunnelPhase
  <1>3. CASE RunInstallAgents(p)
    BY <1>3 DEF RunInstallAgents, Move, TunnelErrors, TypeInv, StageOK, InStage, Outside, Label, At, TunnelPhase
  <1>4. CASE RunK3s(p)
    BY <1>4 DEF RunK3s, Move, TunnelErrors, TypeInv, StageOK, InStage, Outside, Label, At, TunnelPhase
  <1>5. CASE RunGatewayCrds(p)
    BY <1>5 DEF RunGatewayCrds, Move, TunnelErrors, TypeInv, StageOK, InStage, Outside, Label, At, TunnelPhase
  <1>6. CASE RunHelmCilium(p)
    BY <1>6 DEF RunHelmCilium, Move, TunnelErrors, TypeInv, StageOK, InStage, Outside, Label, At, TunnelPhase
  <1>7. CASE RunHelmSoft(p)
    BY <1>7 DEF RunHelmSoft, Move, TunnelErrors, TypeInv, StageOK, InStage, Outside, Label, At, TunnelPhase
  <1>8. CASE RunHelmEnvoy(p)
    BY <1>8 DEF RunHelmEnvoy, Move, TunnelErrors, TypeInv, StageOK, InStage, Outside, Label, At, TunnelPhase
  <1>9. CASE RunHelmDefaultSc(p)
    BY <1>9 DEF RunHelmDefaultSc, Move, TunnelErrors, TypeInv, StageOK, InStage, Outside, Label, At, TunnelPhase
  <1>10. CASE RunGatewaySmokeApply(p)
    BY <1>10 DEF RunGatewaySmokeApply, Move, TunnelErrors, TypeInv, StageOK, InStage, Outside, Label, At, TunnelPhase
  <1>11. CASE RunGatewaySmokeVerdict(p)
    BY <1>11 DEF RunGatewaySmokeVerdict, Move, TunnelErrors, TypeInv, StageOK, InStage, Outside, Label, At, TunnelPhase
  <1>12. CASE RunKubeconfig(p)
    BY <1>12 DEF RunKubeconfig, Move, TunnelErrors, TypeInv, StageOK, InStage, Outside, Label, At, TunnelPhase
  <1>13. CASE RunCsiSmokeApply(p)
    BY <1>13 DEF RunCsiSmokeApply, Move, TunnelErrors, TypeInv, StageOK, InStage, Outside, Label, At, TunnelPhase
  <1>14. CASE RunCsiSmokeVerdict(p)
    BY <1>14 DEF RunCsiSmokeVerdict, Move, TunnelErrors, TypeInv, StageOK, InStage, Outside, Label, At, TunnelPhase
  <1>15. CASE RunHostPorts(p)
    BY <1>15 DEF RunHostPorts, Move, TunnelErrors, TypeInv, StageOK, InStage, Outside, Label, At, TunnelPhase
  <1>16. CASE RunExternalname(p)
    BY <1>16 DEF RunExternalname, Move, TunnelErrors, TypeInv, StageOK, InStage, Outside, Label, At, TunnelPhase
  <1>17. CASE FetchKubeconfig(p)
    BY <1>17 DEF FetchKubeconfig, Move, TunnelErrors, TypeInv, StageOK, InStage, Outside, Label, At, TunnelPhase
  <1> QED
    BY <1>1, <1>2, <1>3, <1>4, <1>5, <1>6, <1>7, <1>8, <1>9, <1>10, <1>11, <1>12, <1>13, <1>14, <1>15, <1>16, <1>17 DEF PhaseStep

\* The kubeconfig files it writes name ports.
LEMMA PhaseFiles ==
    ASSUME TypeInv, NEW p \in Proc, PhaseStep(p) \/ FetchKubeconfig(p)
    PROVE  FilesOK'
  <1> USE PhaseInside
  <1>1. CASE RunCloudinit(p)
    BY <1>1 DEF RunCloudinit, BodyFrame, TypeInv, TypeOK, FilesOK, RunOK, StageOK, InStage, TunnelPhase, At
  <1>2. CASE RunInstallServer(p)
    BY <1>2 DEF RunInstallServer, BodyFrame, TypeInv, TypeOK, FilesOK, RunOK, StageOK, InStage, TunnelPhase, At
  <1>3. CASE RunInstallAgents(p)
    BY <1>3 DEF RunInstallAgents, BodyFrame, TypeInv, TypeOK, FilesOK, RunOK, StageOK, InStage, TunnelPhase, At
  <1>4. CASE RunK3s(p)
    BY <1>4 DEF RunK3s, BodyFrame, TypeInv, TypeOK, FilesOK, RunOK, StageOK, InStage, TunnelPhase, At
  <1>5. CASE RunGatewayCrds(p)
    BY <1>5 DEF RunGatewayCrds, BodyFrame, TypeInv, TypeOK, FilesOK, RunOK, StageOK, InStage, TunnelPhase, At
  <1>6. CASE RunHelmCilium(p)
    BY <1>6 DEF RunHelmCilium, BodyFrame, TypeInv, TypeOK, FilesOK, RunOK, StageOK, InStage, TunnelPhase, At
  <1>7. CASE RunHelmSoft(p)
    BY <1>7 DEF RunHelmSoft, BodyFrame, TypeInv, TypeOK, FilesOK, RunOK, StageOK, InStage, TunnelPhase, At
  <1>8. CASE RunHelmEnvoy(p)
    BY <1>8 DEF RunHelmEnvoy, BodyFrame, TypeInv, TypeOK, FilesOK, RunOK, StageOK, InStage, TunnelPhase, At
  <1>9. CASE RunHelmDefaultSc(p)
    BY <1>9 DEF RunHelmDefaultSc, BodyFrame, TypeInv, TypeOK, FilesOK, RunOK, StageOK, InStage, TunnelPhase, At
  <1>10. CASE RunGatewaySmokeApply(p)
    BY <1>10 DEF RunGatewaySmokeApply, BodyFrame, TypeInv, TypeOK, FilesOK, RunOK, StageOK, InStage, TunnelPhase, At
  <1>11. CASE RunGatewaySmokeVerdict(p)
    BY <1>11 DEF RunGatewaySmokeVerdict, BodyFrame, TypeInv, TypeOK, FilesOK, RunOK, StageOK, InStage, TunnelPhase, At
  <1>12. CASE RunKubeconfig(p)
    <2>1. fwd[p] \in Port
      BY <1>12 DEF RunKubeconfig, At, TypeInv, StageOK, InStage, TunnelPhase
    <2> QED  BY <1>12, <2>1 DEF RunKubeconfig, BodyFrame, TypeInv, TypeOK, FilesOK
  <1>13. CASE RunCsiSmokeApply(p)
    BY <1>13 DEF RunCsiSmokeApply, BodyFrame, TypeInv, TypeOK, FilesOK, RunOK, StageOK, InStage, TunnelPhase, At
  <1>14. CASE RunCsiSmokeVerdict(p)
    BY <1>14 DEF RunCsiSmokeVerdict, BodyFrame, TypeInv, TypeOK, FilesOK, RunOK, StageOK, InStage, TunnelPhase, At
  <1>15. CASE RunHostPorts(p)
    BY <1>15 DEF RunHostPorts, BodyFrame, TypeInv, TypeOK, FilesOK, RunOK, StageOK, InStage, TunnelPhase, At
  <1>16. CASE RunExternalname(p)
    BY <1>16 DEF RunExternalname, BodyFrame, TypeInv, TypeOK, FilesOK, RunOK, StageOK, InStage, TunnelPhase, At
  <1>17. CASE FetchKubeconfig(p)
    BY <1>17 DEF FetchKubeconfig, BodyFrame, TypeInv, TypeOK, FilesOK, RunOK, StageOK, InStage, TunnelPhase, At
  <1> QED
    BY <1>1, <1>2, <1>3, <1>4, <1>5, <1>6, <1>7, <1>8, <1>9, <1>10, <1>11, <1>12, <1>13, <1>14, <1>15, <1>16, <1>17 DEF PhaseStep

\* What it installs is a thing the model knows.
LEMMA PhaseWorld ==
    ASSUME TypeInv, NEW p \in Proc, PhaseStep(p) \/ FetchKubeconfig(p)
    PROVE  WorldOK'
  <1> USE PhaseInside
  <1>1. CASE RunCloudinit(p)
    BY <1>1, InstallType DEF RunCloudinit, BodyFrame, TypeInv, TypeOK, WorldOK, Thing, SoftRelease, Cleanup
  <1>2. CASE RunInstallServer(p)
    BY <1>2, InstallType DEF RunInstallServer, BodyFrame, TypeInv, TypeOK, WorldOK, Thing, SoftRelease, Cleanup
  <1>3. CASE RunInstallAgents(p)
    BY <1>3, InstallType DEF RunInstallAgents, BodyFrame, TypeInv, TypeOK, WorldOK, Thing, SoftRelease, Cleanup
  <1>4. CASE RunK3s(p)
    BY <1>4, InstallType DEF RunK3s, BodyFrame, TypeInv, TypeOK, WorldOK, Thing, SoftRelease, Cleanup
  <1>5. CASE RunGatewayCrds(p)
    BY <1>5, InstallType DEF RunGatewayCrds, BodyFrame, TypeInv, TypeOK, WorldOK, Thing, SoftRelease, Cleanup
  <1>6. CASE RunHelmCilium(p)
    BY <1>6, InstallType DEF RunHelmCilium, BodyFrame, TypeInv, TypeOK, WorldOK, Thing, SoftRelease, Cleanup
  <1>7. CASE RunHelmSoft(p)
    BY <1>7, InstallType DEF RunHelmSoft, BodyFrame, TypeInv, TypeOK, WorldOK, Thing, SoftRelease, Cleanup
  <1>8. CASE RunHelmEnvoy(p)
    BY <1>8, InstallType DEF RunHelmEnvoy, BodyFrame, TypeInv, TypeOK, WorldOK, Thing, SoftRelease, Cleanup
  <1>9. CASE RunHelmDefaultSc(p)
    BY <1>9, InstallType DEF RunHelmDefaultSc, BodyFrame, TypeInv, TypeOK, WorldOK, Thing, SoftRelease, Cleanup
  <1>10. CASE RunGatewaySmokeApply(p)
    BY <1>10, InstallType DEF RunGatewaySmokeApply, BodyFrame, TypeInv, TypeOK, WorldOK, Thing, SoftRelease, Cleanup
  <1>11. CASE RunGatewaySmokeVerdict(p)
    BY <1>11 DEF RunGatewaySmokeVerdict, BodyFrame, TypeInv, TypeOK, WorldOK, Cleanup
  <1>12. CASE RunKubeconfig(p)
    BY <1>12, InstallType DEF RunKubeconfig, BodyFrame, TypeInv, TypeOK, WorldOK, Thing, SoftRelease, Cleanup
  <1>13. CASE RunCsiSmokeApply(p)
    BY <1>13, InstallType DEF RunCsiSmokeApply, BodyFrame, TypeInv, TypeOK, WorldOK, Thing, SoftRelease, Cleanup
  <1>14. CASE RunCsiSmokeVerdict(p)
    BY <1>14, InstallType DEF RunCsiSmokeVerdict, BodyFrame, TypeInv, TypeOK, WorldOK, Thing, SoftRelease, Cleanup
  <1>15. CASE RunHostPorts(p)
    BY <1>15, InstallType DEF RunHostPorts, BodyFrame, TypeInv, TypeOK, WorldOK, Thing, SoftRelease, Cleanup
  <1>16. CASE RunExternalname(p)
    BY <1>16, InstallType DEF RunExternalname, BodyFrame, TypeInv, TypeOK, WorldOK, Thing, SoftRelease, Cleanup
  <1>17. CASE FetchKubeconfig(p)
    BY <1>17 DEF FetchKubeconfig, BodyFrame, world, TypeInv, TypeOK, WorldOK
  <1> QED
    BY <1>1, <1>2, <1>3, <1>4, <1>5, <1>6, <1>7, <1>8, <1>9, <1>10, <1>11, <1>12, <1>13, <1>14, <1>15, <1>16, <1>17 DEF PhaseStep

\* It stays within the budget of failures.
LEMMA PhaseHistory ==
    ASSUME TypeInv, NEW p \in Proc, PhaseStep(p) \/ FetchKubeconfig(p)
    PROVE  HistoryOK'
  <1> USE PhaseInside
  <1>1. CASE RunCloudinit(p)
    BY <1>1, CallType DEF RunCloudinit, BodyFrame, TypeInv, TypeOK, HistoryOK, history, Apiserver, HomeServes, Serves, AddressRight, Cleanup
  <1>2. CASE RunInstallServer(p)
    BY <1>2, CallType DEF RunInstallServer, BodyFrame, TypeInv, TypeOK, HistoryOK, history, Apiserver, HomeServes, Serves, AddressRight, Cleanup
  <1>3. CASE RunInstallAgents(p)
    BY <1>3, CallType DEF RunInstallAgents, BodyFrame, TypeInv, TypeOK, HistoryOK, history, Apiserver, HomeServes, Serves, AddressRight, Cleanup
  <1>4. CASE RunK3s(p)
    BY <1>4, CallType DEF RunK3s, BodyFrame, TypeInv, TypeOK, HistoryOK, history, Apiserver, HomeServes, Serves, AddressRight, Cleanup
  <1>5. CASE RunGatewayCrds(p)
    BY <1>5, CallType DEF RunGatewayCrds, BodyFrame, TypeInv, TypeOK, HistoryOK, history, Apiserver, HomeServes, Serves, AddressRight, Cleanup
  <1>6. CASE RunHelmCilium(p)
    BY <1>6, CallType DEF RunHelmCilium, BodyFrame, TypeInv, TypeOK, HistoryOK, history, Apiserver, HomeServes, Serves, AddressRight, Cleanup
  <1>7. CASE RunHelmSoft(p)
    <2>1. ASSUME NEW failed \in SUBSET SoftRelease PROVE Cardinality(failed) \in Nat
      BY FS_CardinalityType, FS_Subset, SoftFinite
    <2>2. faults' \in 0..MaxFaults
      BY <1>7, <2>1 DEF RunHelmSoft, TypeInv, TypeOK, HistoryOK
    <2> QED  BY <1>7, <2>2 DEF RunHelmSoft, BodyFrame, TypeInv, TypeOK, HistoryOK, history
  <1>8. CASE RunHelmEnvoy(p)
    BY <1>8, CallType DEF RunHelmEnvoy, BodyFrame, TypeInv, TypeOK, HistoryOK, history, Apiserver, HomeServes, Serves, AddressRight, Cleanup
  <1>9. CASE RunHelmDefaultSc(p)
    BY <1>9, CallType DEF RunHelmDefaultSc, BodyFrame, TypeInv, TypeOK, HistoryOK, history, Apiserver, HomeServes, Serves, AddressRight, Cleanup
  <1>10. CASE RunGatewaySmokeApply(p)
    BY <1>10, CallType DEF RunGatewaySmokeApply, BodyFrame, TypeInv, TypeOK, HistoryOK, history, Apiserver, HomeServes, Serves, AddressRight, Cleanup
  <1>11. CASE RunGatewaySmokeVerdict(p)
    BY <1>11, CallType DEF RunGatewaySmokeVerdict, BodyFrame, TypeInv, TypeOK, HistoryOK, history, Apiserver, HomeServes, Serves, AddressRight, Cleanup
  <1>12. CASE RunKubeconfig(p)
    BY <1>12, CallType DEF RunKubeconfig, BodyFrame, TypeInv, TypeOK, HistoryOK, history, Apiserver, HomeServes, Serves, AddressRight, Cleanup
  <1>13. CASE RunCsiSmokeApply(p)
    BY <1>13, CallType DEF RunCsiSmokeApply, BodyFrame, TypeInv, TypeOK, HistoryOK, history, Apiserver, HomeServes, Serves, AddressRight, Cleanup
  <1>14. CASE RunCsiSmokeVerdict(p)
    BY <1>14, CallType DEF RunCsiSmokeVerdict, BodyFrame, TypeInv, TypeOK, HistoryOK, history, Apiserver, HomeServes, Serves, AddressRight, Cleanup
  <1>15. CASE RunHostPorts(p)
    BY <1>15, CallType DEF RunHostPorts, BodyFrame, TypeInv, TypeOK, HistoryOK, history, Apiserver, HomeServes, Serves, AddressRight, Cleanup
  <1>16. CASE RunExternalname(p)
    BY <1>16, CallType DEF RunExternalname, BodyFrame, TypeInv, TypeOK, HistoryOK, history, Apiserver, HomeServes, Serves, AddressRight, Cleanup
  <1>17. CASE FetchKubeconfig(p)
    BY <1>17, CallType DEF FetchKubeconfig, BodyFrame, TypeInv, TypeOK, HistoryOK, history, Apiserver, HomeServes, Serves, AddressRight, Cleanup
  <1> QED
    BY <1>1, <1>2, <1>3, <1>4, <1>5, <1>6, <1>7, <1>8, <1>9, <1>10, <1>11, <1>12, <1>13, <1>14, <1>15, <1>16, <1>17 DEF PhaseStep

\* Together: a phase keeps every type.
LEMMA PhaseType ==
    ASSUME TypeInv, NEW p \in Proc, PhaseStep(p) \/ FetchKubeconfig(p)
    PROVE  TypeInv'
  <1>1. RunOK' /\ StageOK'
    BY PhaseInside, PhaseMove, MoveType
  <1> QED  BY <1>1, PhaseFiles, PhaseWorld, PhaseHistory DEF TypeInv, TypeOK

\* A run that exits is back at its initial state.
LEMMA ExitStage ==
    ASSUME TypeInv, NEW p \in Proc, Exit(p)
    PROVE  /\ StageOK'
           /\ pc' \in [Proc -> Label] /\ req' \in [Proc -> Seq(Phase)]
           /\ pos' \in [Proc -> Nat \ {0}] /\ done' \in [Proc -> SUBSET Phase]
           /\ cpIp' \in [Proc -> Addr \cup {Blank}] /\ fwd' \in [Proc -> Port \cup {NoPort}]
  <1>1. /\ pc' \in [Proc -> Label] /\ req' \in [Proc -> Seq(Phase)]
        /\ pos' \in [Proc -> Nat \ {0}] /\ done' \in [Proc -> SUBSET Phase]
        /\ cpIp' \in [Proc -> Addr \cup {Blank}] /\ fwd' \in [Proc -> Port \cup {NoPort}]
    BY DEF TypeInv, TypeOK, RunOK, Exit, Label
  <1>2. ASSUME NEW q \in Proc PROVE InStage(q, pc[q])'
    <2>1. CASE q = p
      <3>1. pc'[q] = "idle"
        BY <2>1 DEF TypeInv, TypeOK, RunOK, Exit
      <3> QED  BY <3>1 DEF InStage, Outside
    <2>2. CASE q # p
      <3>1. pc'[q] = pc[q] /\ req'[q] = req[q] /\ pos'[q] = pos[q] /\ fwd'[q] = fwd[q]
        BY <2>2 DEF TypeInv, TypeOK, RunOK, Exit
      <3>2. InStage(q, pc[q])
        BY DEF TypeInv, StageOK
      <3> QED  BY <3>1, <3>2 DEF InStage, Cur
    <2> QED  BY <2>1, <2>2
  <1> QED  BY <1>1, <1>2 DEF StageOK

\* A run may move to a label outside the phases whatever it was doing.
LEMMA OutsideStage ==
    ASSUME TypeInv, NEW p \in Proc, NEW label \in Outside, Goto(p, label),
           UNCHANGED fwd,
           \A q \in Proc : q # p => req'[q] = req[q] /\ pos'[q] = pos[q]
    PROVE  StageOK' /\ pc' \in [Proc -> Label]
  <1>1. pc' \in [Proc -> Label]
    BY DEF TypeInv, TypeOK, RunOK, Goto, Outside, Label
  <1>2. ASSUME NEW q \in Proc PROVE InStage(q, pc[q])'
    <2>1. CASE q = p
      <3>1. pc'[q] = label
        BY <2>1 DEF TypeInv, TypeOK, RunOK, Goto
      <3> QED  BY <3>1 DEF InStage, Outside
    <2>2. CASE q # p
      <3>1. pc'[q] = pc[q]
        BY <2>2 DEF TypeInv, TypeOK, RunOK, Goto
      <3>2. InStage(q, pc[q])
        BY DEF TypeInv, StageOK
      <3> QED  BY <2>2, <3>1, <3>2 DEF InStage, Cur
    <2> QED  BY <2>1, <2>2
  <1> QED  BY <1>1, <1>2 DEF StageOK

\* A run that starts holds a sequence of phases and a parsed ledger.
LEMMA StartType == ASSUME TypeInv, NEW p \in Proc, NEW r \in Request, Start(p, r) PROVE TypeInv'
  <1>1. FilesOK' /\ WorldOK' /\ HistoryOK'
    BY DEF Start, TypeInv, TypeOK, FilesOK, WorldOK, HistoryOK, files, world, history
  <1>2. CASE Goto(p, "topology")
    <2>1. \A i \in 1..Len(r) : r[i] \in Phase
      BY <1>2 DEF Start, Goto, TypeInv, TypeOK, RunOK
    <2>2. r \in Seq(Phase)
      BY <2>1, RequestAssumption, SeqMonotonic
    <2>3. ledger[Own(p)] \in SUBSET Phase
      BY <1>2 DEF Start, Goto, TypeInv, TypeOK, FilesOK, RunOK, Own
    <2>4. /\ req' = [req EXCEPT ![p] = r] /\ pos' = [pos EXCEPT ![p] = 1]
          /\ done' = [done EXCEPT ![p] = ledger[Own(p)]]
          /\ outcome' = [outcome EXCEPT ![p] = "none"]
      BY <1>2 DEF Start, Goto, TypeInv, TypeOK, RunOK
    <2>5. StageOK' /\ pc' \in [Proc -> Label]
      BY <1>2, <2>4, OutsideStage DEF Start, TypeInv, TypeOK, RunOK, Outside
    <2>6. RunOK'
      <3>1. req' \in [Proc -> Seq(Phase)] /\ pos' \in [Proc -> Nat \ {0}]
        BY <2>2, <2>4 DEF TypeInv, TypeOK, RunOK
      <3>2. done' \in [Proc -> SUBSET Phase]
        BY <2>3, <2>4 DEF TypeInv, TypeOK, RunOK
      <3>3. outcome' \in [Proc -> {"none", "ok", "structured", "traceback", "crashed"}]
        BY <2>4 DEF TypeInv, TypeOK, RunOK
      <3> QED  BY <2>5, <3>1, <3>2, <3>3 DEF Start, TypeInv, TypeOK, RunOK
    <2> QED  BY <1>1, <2>5, <2>6 DEF TypeInv, TypeOK
  <1>3. CASE UNCHANGED <<pc, req, pos, done>>
    <2>1. RunOK'
      BY <1>3 DEF Start, TypeInv, TypeOK, RunOK
    <2>2. StageOK'
      BY <1>3 DEF Start, TypeInv, StageOK, InStage, Cur
    <2> QED  BY <1>1, <2>1, <2>2 DEF TypeInv, TypeOK
  <1> QED  BY <1>2, <1>3 DEF Start

\* Loading the topology leaves an address or a blank in memory.
LEMMA LoadTopologyType == ASSUME TypeInv, NEW p \in Proc, LoadTopology(p) PROVE TypeInv'
  <1>1. Own(p) \in Cluster
    BY DEF Own
  <1>2. topo' \in [Cluster -> Addr \cup {Missing, Blank}] /\ faults' \in 0..MaxFaults
    BY <1>1 DEF LoadTopology, Discover, CallFails, TypeInv, TypeOK, FilesOK, WorldOK, HistoryOK
  <1>3. FilesOK' /\ WorldOK' /\ HistoryOK'
    BY <1>2 DEF LoadTopology, TypeInv, TypeOK, FilesOK, WorldOK, HistoryOK, world, history
  <1>4. CASE topo'[Own(p)] # Missing
    <2>1. Goto(p, "dispatch") /\ cpIp' = [cpIp EXCEPT ![p] = topo'[Own(p)]]
          /\ UNCHANGED <<req, pos, done, fwd, outcome>>
      BY <1>4 DEF LoadTopology
    <2>2. StageOK' /\ pc' \in [Proc -> Label]
      BY <2>1, OutsideStage DEF Outside
    <2>3. RunOK'
      BY <1>1, <1>2, <1>4, <2>1, <2>2 DEF TypeInv, TypeOK, RunOK
    <2> QED  BY <1>3, <2>2, <2>3 DEF TypeInv, TypeOK
  <1>5. CASE topo'[Own(p)] = Missing
    <2>1. Exit(p) /\ outcome' = [outcome EXCEPT ![p] = "structured"]
      BY <1>5 DEF LoadTopology
    <2>2. RunOK' /\ StageOK'
      BY <2>1, ExitStage DEF TypeInv, TypeOK, RunOK
    <2> QED  BY <1>3, <2>2 DEF TypeInv, TypeOK
  <1> QED  BY <1>4, <1>5

\* The dispatcher enters a phase at the label its stage calls for.
LEMMA DispatchType ==
    ASSUME TypeInv, NEW p \in Proc, SkipPhase(p) \/ EnterPhase(p) \/ FinishLoop(p)
    PROVE  TypeInv'
  <1>1. FilesOK' /\ WorldOK' /\ HistoryOK'
    BY DEF SkipPhase, EnterPhase, FinishLoop, TypeInv, TypeOK, FilesOK, WorldOK, HistoryOK,
           files, world, history
  <1>2. CASE SkipPhase(p)
    <2>1. RunOK'
      BY <1>2 DEF SkipPhase, TypeInv, TypeOK, RunOK
    <2>2. Goto(p, "dispatch") /\ "dispatch" \in Outside
      BY <1>2 DEF SkipPhase, Goto, TypeInv, TypeOK, RunOK, Outside
    <2>3. StageOK'
      BY <1>2, <2>2, OutsideStage DEF SkipPhase, TypeInv, TypeOK, RunOK
    <2> QED  BY <1>1, <2>1, <2>3 DEF TypeInv, TypeOK
  <1>3. CASE EnterPhase(p)
    <2> DEFINE label == IF Cur(p) \notin TunnelPhase THEN "body"
                        ELSE IF fwd[p] = NoPort THEN "tunnel" ELSE "fetch"
    <2>1. label \in Label /\ InStage(p, label)
      BY <1>3 DEF EnterPhase, InStage, Label, TypeInv, TypeOK, RunOK
    <2>2. Goto(p, label) /\ UNCHANGED <<req, pos, fwd, done, cpIp, outcome>>
      BY <1>3 DEF EnterPhase
    <2>3. StageOK' /\ pc' \in [Proc -> Label]
      <3> HIDE DEF label
      <3> QED  BY <2>1, <2>2, GotoStage
    <2>4. RunOK'
      BY <2>2, <2>3 DEF TypeInv, TypeOK, RunOK
    <2> QED  BY <1>1, <2>3, <2>4 DEF TypeInv, TypeOK
  <1>4. CASE FinishLoop(p)
    <2>1. StageOK' /\ pc' \in [Proc -> Label]
      BY <1>4, OutsideStage DEF FinishLoop, Outside
    <2>2. RunOK'
      BY <1>4, <2>1 DEF FinishLoop, TypeInv, TypeOK, RunOK
    <2> QED  BY <1>1, <2>1, <2>2 DEF TypeInv, TypeOK
  <1> QED  BY <1>2, <1>3, <1>4

\* What reaches the ledger file is phases_done or unreadable.
LEMMA SaveType == ASSUME TypeInv, NEW p \in Proc, SaveTruncate(p) \/ SaveWrite(p) PROVE TypeInv'
  <1>1. Own(p) \in Cluster
    BY DEF Own
  <1>2. WorldOK' /\ HistoryOK'
    BY DEF SaveTruncate, SaveWrite, TypeInv, TypeOK, WorldOK, HistoryOK, world, history
  <1>3. FilesOK'
    <2>1. \A text \in Overwrite(ledger[Own(p)], done[p]) : text \in Unreadable \cup SUBSET Phase
      BY DEF Overwrite, Unreadable, TypeInv, TypeOK, RunOK
    <2>2. Empty \in Unreadable \cup SUBSET Phase
      BY DEF Unreadable
    <2>3. ledger' \in [Cluster -> Unreadable \cup SUBSET Phase]
      <3>1. \E text \in Unreadable \cup SUBSET Phase : ledger' = [ledger EXCEPT ![Own(p)] = text]
        BY <2>1, <2>2 DEF SaveTruncate, SaveWrite
      <3> QED  BY <1>1, <3>1 DEF TypeInv, TypeOK, FilesOK
    <2> QED  BY <2>3 DEF SaveTruncate, SaveWrite, TypeInv, TypeOK, FilesOK
  <1>4. CASE SaveTruncate(p)
    <2>1. InStage(p, "write") /\ "write" \in Label
      BY <1>4 DEF SaveTruncate, TypeInv, StageOK, InStage, Outside, Label
    <2>2. StageOK' /\ pc' \in [Proc -> Label]
      BY <1>4, <2>1, GotoStage DEF SaveTruncate
    <2>3. RunOK'
      BY <1>4, <2>2 DEF SaveTruncate, TypeInv, TypeOK, RunOK
    <2> QED  BY <1>2, <1>3, <2>2, <2>3 DEF TypeInv, TypeOK
  <1>5. CASE SaveWrite(p)
    <2>1. StageOK' /\ pc' \in [Proc -> Label]
      BY <1>5, OutsideStage DEF SaveWrite, Outside, TypeInv, TypeOK, RunOK
    <2>2. RunOK'
      <3>1. pos' \in [Proc -> Nat \ {0}]
        BY <1>5 DEF SaveWrite, TypeInv, TypeOK, RunOK
      <3> QED  BY <1>5, <2>1, <3>1 DEF SaveWrite, TypeInv, TypeOK, RunOK
    <2> QED  BY <1>2, <1>3, <2>1, <2>2 DEF TypeInv, TypeOK
  <1> QED  BY <1>4, <1>5

\* The `finally` block keeps the types.
LEMMA TearDownType == ASSUME TypeInv, NEW p \in Proc, TearDown(p) PROVE TypeInv'
  <1>1. FilesOK' /\ WorldOK' /\ HistoryOK'
    BY DEF TearDown, TypeInv, TypeOK, FilesOK, WorldOK, HistoryOK, files, world, history
  <1>2. RunOK' /\ StageOK'
    BY ExitStage DEF TearDown, TypeInv, TypeOK, RunOK
  <1> QED  BY <1>1, <1>2 DEF TypeInv, TypeOK

\* A killed run leaves its tunnel behind.
LEMMA CrashType == ASSUME TypeInv, NEW p \in Proc, Crash(p) PROVE TypeInv'
  <1>1. FilesOK' /\ HistoryOK'
    BY DEF Crash, TypeInv, TypeOK, FilesOK, HistoryOK, files
  <1>2. WorldOK'
    <2>1. ASSUME NEW t \in tunnels
          PROVE  [t EXCEPT !.by = Killed] \in [port : Port, to : Cluster, by : Proc \cup {Killed, GaveUp}]
      BY DEF TypeInv, TypeOK, WorldOK
    <2> QED  BY <2>1 DEF Crash, TypeInv, TypeOK, WorldOK, world
  <1>3. RunOK' /\ StageOK'
    BY ExitStage DEF Crash, TypeInv, TypeOK, RunOK
  <1> QED  BY <1>1, <1>2, <1>3 DEF TypeInv, TypeOK

\* A tunnel is opened on a port and held by this run.
LEMMA OpenTunnelType == ASSUME TypeInv, NEW p \in Proc, OpenTunnel(p) PROVE TypeInv'
  <1>1. FilesOK'
    BY DEF OpenTunnel, TypeInv, TypeOK, FilesOK, files
  <1>2. HistoryOK'
    BY CallType DEF OpenTunnel, AddressRight, TypeInv, TypeOK, HistoryOK, history
  <1>3. WorldOK'
    BY DEF OpenTunnel, Abandon, TypeInv, TypeOK, WorldOK, world, Own
  <1>4. ASSUME NEW q \in Port, fwd' = [fwd EXCEPT ![p] = q], Proceed(p, "fetch"),
               UNCHANGED <<req, pos, cpIp>>, pc[p] = "tunnel"
        PROVE  RunOK' /\ StageOK'
    <2>1. pos[p] <= Len(req[p]) /\ Cur(p) \in TunnelPhase
      BY <1>4 DEF TypeInv, StageOK, InStage, Outside
    <2>2. ASSUME NEW r \in Proc PROVE InStage(r, pc[r])'
      <3>1. CASE r = p
        <4>1. pc'[r] = "fetch" /\ fwd'[r] = q
          BY <1>4, <3>1 DEF Proceed, Goto, TypeInv, TypeOK, RunOK
        <4> QED  BY <1>4, <2>1, <3>1, <4>1 DEF InStage, Cur
      <3>2. CASE r # p
        <4>1. pc'[r] = pc[r] /\ fwd'[r] = fwd[r]
          BY <1>4, <3>2 DEF Proceed, Goto, TypeInv, TypeOK, RunOK
        <4>2. InStage(r, pc[r])
          BY DEF TypeInv, StageOK
        <4> QED  BY <1>4, <4>1, <4>2 DEF InStage, Cur
      <3> QED  BY <3>1, <3>2
    <2>3. RunOK'
      BY <1>4 DEF Proceed, Goto, TypeInv, TypeOK, RunOK, Label
    <2> QED  BY <2>2, <2>3 DEF StageOK
  <1>5. ASSUME Raise(p, Structured), UNCHANGED <<req, pos, cpIp, fwd>>, pc[p] = "tunnel"
        PROVE  RunOK' /\ StageOK'
    BY <1>5, MoveType DEF Move, Outside
  <1>6. RunOK' /\ StageOK'
    BY <1>4, <1>5 DEF OpenTunnel
  <1> QED  BY <1>1, <1>2, <1>3, <1>6 DEF TypeInv, TypeOK

\* What happens around the runs keeps the types.
LEMMA EnvironmentType ==
    ASSUME TypeInv, \/ TunnelDies
                    \/ \E c \in Cluster : \/ NamespaceGone(c) \/ ManifestLands(c)
                                          \/ CaptureBaseline(c) \/ Rebuild(c)
                                          \/ AddWorker(c) \/ WipeState(c)
    PROVE  TypeInv'
  <1>1. UNCHANGED run
    BY DEF TunnelDies, NamespaceGone, ManifestLands, CaptureBaseline, Rebuild, AddWorker, WipeState
  <1>2. RunOK' /\ StageOK'
    BY <1>1 DEF run, TypeInv, TypeOK, RunOK, StageOK, InStage, Cur
  <1>3. CASE TunnelDies
    <2>1. FilesOK' /\ WorldOK' /\ HistoryOK'
      BY <1>3 DEF TunnelDies, CallFails, files, world, history, TypeInv, TypeOK, FilesOK, WorldOK, HistoryOK
    <2> QED  BY <1>2, <2>1 DEF TypeInv, TypeOK
  <1>4. ASSUME NEW c \in Cluster, NamespaceGone(c) PROVE FilesOK' /\ WorldOK' /\ HistoryOK'
    BY <1>4 DEF NamespaceGone, files, world, history, TypeInv, TypeOK, FilesOK, WorldOK, HistoryOK
  <1>5. ASSUME NEW c \in Cluster, ManifestLands(c) PROVE FilesOK' /\ WorldOK' /\ HistoryOK'
    BY <1>5 DEF ManifestLands, files, world, history, TypeInv, TypeOK, FilesOK, WorldOK, HistoryOK
  <1>6. ASSUME NEW c \in Cluster, CaptureBaseline(c) PROVE FilesOK' /\ WorldOK' /\ HistoryOK'
    BY <1>6 DEF CaptureBaseline, files, world, history, TypeInv, TypeOK, FilesOK, WorldOK, HistoryOK
  <1>7. ASSUME NEW c \in Cluster, Rebuild(c) PROVE FilesOK' /\ WorldOK' /\ HistoryOK'
    BY <1>7 DEF Rebuild, files, world, history, TypeInv, TypeOK, FilesOK, WorldOK, HistoryOK
  <1>8. ASSUME NEW c \in Cluster, AddWorker(c) PROVE FilesOK' /\ WorldOK' /\ HistoryOK'
    BY <1>8 DEF AddWorker, files, world, history, TypeInv, TypeOK, FilesOK, WorldOK, HistoryOK
  <1>9. ASSUME NEW c \in Cluster, WipeState(c) PROVE FilesOK' /\ WorldOK' /\ HistoryOK'
    BY <1>9 DEF WipeState, files, world, history, TypeInv, TypeOK, FilesOK, WorldOK, HistoryOK
  <1> QED  BY <1>2, <1>3, <1>4, <1>5, <1>6, <1>7, <1>8, <1>9 DEF TypeInv, TypeOK

\* TypeInv is inductive.
LEMMA StepType == ASSUME TypeInv, [Next]_vars PROVE TypeInv'
  <1>1. ASSUME NEW p \in Proc, Step(p) PROVE TypeInv'
    BY <1>1, LoadTopologyType, DispatchType, SaveType, TearDownType, OpenTunnelType,
       PhaseType DEF Step
  <1>2. ASSUME NEW p \in Proc, NEW r \in Request, Start(p, r) PROVE TypeInv'
    BY <1>2, StartType
  <1>3. CASE Environment
    BY <1>3, CrashType, EnvironmentType DEF Environment
  <1>4. CASE UNCHANGED vars
    BY <1>4 DEF vars, files, world, run, history, TypeInv, TypeOK, FilesOK, WorldOK, RunOK,
                HistoryOK, StageOK, InStage, Cur
  <1> QED  BY <1>1, <1>2, <1>3, <1>4 DEF Next

\* It holds initially.
LEMMA InitType == Init => TypeInv
  BY ClusterAssumption DEF Init, TypeInv, TypeOK, FilesOK, WorldOK, RunOK, HistoryOK, Label,
     StageOK, InStage, Outside

\* So it is an invariant.
LEMMA TypeInvariant == Spec => []TypeInv
  BY InitType, StepType, PTL DEF Spec

\* Every variable of the pipeline keeps its type: in particular the ledger that
\* bootstrap() saves is always a set of known phases or an unreadable file.
THEOREM TypeCorrect == Spec => []TypeOK
  BY TypeInvariant, PTL DEF TypeInv

-----------------------------------------------------------------------------
\* Who holds which port: every tunnel of a run is the one it knows of, no two
\* ssh processes listen on one port, and a run without a tunnel holds none.
TunnelHeld ==
    \A t \in tunnels : t.by \in Proc =>
        t.port = fwd[t.by] /\ t.to = Own(t.by) /\ pc[t.by] # "idle"

TunnelInv ==
    /\ TunnelHeld
    /\ \A t, u \in tunnels : t.port = u.port => t = u
    /\ \A p \in Proc : pc[p] \in {"idle", "topology", "tunnel"} => fwd[p] = NoPort

\* Moving a run that keeps its tunnel keeps the ownership.
LEMMA TunnelFrame ==
    ASSUME TypeInv, TunnelInv, NEW p \in Proc, UNCHANGED <<tunnels, fwd>>,
           NEW label \in Label \ {"idle", "topology", "tunnel"}, Goto(p, label)
    PROVE  TunnelInv'
  <1>1. \A q \in Proc : pc'[q] = IF q = p THEN label ELSE pc[q]
    BY DEF Goto, TypeInv, TypeOK, RunOK
  <1>2. \A q \in Proc : pc'[q] \in {"idle", "topology", "tunnel"} => fwd'[q] = NoPort
    BY <1>1 DEF TunnelInv
  <1>3. TunnelHeld'
    BY <1>1 DEF TunnelInv, TunnelHeld, Own, TypeInv, TypeOK, WorldOK
  <1> QED  BY <1>2, <1>3 DEF TunnelInv

\* No phase touches the tunnels.
LEMMA PhaseTunnel == ASSUME TypeInv, TunnelInv, NEW p \in Proc, PhaseStep(p) \/ FetchKubeconfig(p)
                     PROVE  TunnelInv'
  <1>1. UNCHANGED <<tunnels, fwd>>
    BY DEF PhaseStep, FetchKubeconfig, RunCloudinit, RunInstallServer, RunInstallAgents, RunK3s,
           RunGatewayCrds, RunHelmCilium, RunHelmSoft, RunHelmEnvoy, RunHelmDefaultSc,
           RunGatewaySmokeApply, RunGatewaySmokeVerdict, RunKubeconfig, RunCsiSmokeApply,
           RunCsiSmokeVerdict, RunHostPorts, RunExternalname, BodyFrame
  <1>2. \E label \in Label \ {"idle", "topology", "tunnel"} : Goto(p, label)
    BY DEF PhaseStep, FetchKubeconfig, RunCloudinit, RunInstallServer, RunInstallAgents, RunK3s,
           RunGatewayCrds, RunHelmCilium, RunHelmSoft, RunHelmEnvoy, RunHelmDefaultSc,
           RunGatewaySmokeApply, RunGatewaySmokeVerdict, RunKubeconfig, RunCsiSmokeApply,
           RunCsiSmokeVerdict, RunHostPorts, RunExternalname, MarkDone, Proceed, Raise, Label
  <1> QED  BY <1>1, <1>2, TunnelFrame

\* A run may exit once none of the tunnels is its own.
LEMMA ExitTunnel ==
    ASSUME TypeInv, TunnelInv, NEW p \in Proc, Exit(p),
           \A t \in tunnels' : t.by # p /\ (t.by \notin Proc \/ t \in tunnels),
           \A t, u \in tunnels' : t.port = u.port => t = u,
           WorldOK'
    PROVE  TunnelInv'
  <1>1. \A q \in Proc : IF q = p THEN pc'[q] = "idle" /\ fwd'[q] = NoPort
                                 ELSE pc'[q] = pc[q] /\ fwd'[q] = fwd[q]
    BY DEF Exit, TypeInv, TypeOK, RunOK
  <1>2. \A q \in Proc : pc'[q] \in {"idle", "topology", "tunnel"} => fwd'[q] = NoPort
    BY <1>1 DEF TunnelInv
  <1>3. \A t \in tunnels' : t.by \in Proc => t.port = fwd'[t.by] /\ t.to = Own(t.by) /\ pc'[t.by] # "idle"
    BY <1>1 DEF TunnelInv, TunnelHeld, WorldOK
  <1> QED  BY <1>2, <1>3 DEF TunnelInv, TunnelHeld, Own

\* TunnelInv is inductive, given the types.
LEMMA StepTunnel == ASSUME TypeInv, TunnelInv, [Next]_vars PROVE TunnelInv'
  <1>0. TypeInv'
    BY StepType
  <1>1. ASSUME NEW p \in Proc, Step(p) PROVE TunnelInv'
    <2>1. CASE PhaseStep(p) \/ FetchKubeconfig(p)
      BY <2>1, PhaseTunnel
    <2>2. CASE SkipPhase(p) \/ FinishLoop(p) \/ SaveTruncate(p) \/ SaveWrite(p)
      <3>1. UNCHANGED <<tunnels, fwd>>
        BY <2>2 DEF SkipPhase, FinishLoop, SaveTruncate, SaveWrite
      <3>2. \E label \in Label \ {"idle", "topology", "tunnel"} : Goto(p, label)
        BY <2>2 DEF SkipPhase, FinishLoop, SaveTruncate, SaveWrite, Label, Goto, TypeInv, TypeOK, RunOK
      <3> QED  BY <3>1, <3>2, TunnelFrame
    <2>3. CASE EnterPhase(p)
      <3>1. UNCHANGED <<tunnels, fwd>>
        BY <2>3 DEF EnterPhase
      <3>2. /\ \A q \in Proc : q # p => pc'[q] = pc[q]
            /\ pc'[p] \in {"body", "tunnel", "fetch"} /\ (pc'[p] = "tunnel" => fwd[p] = NoPort)
        BY <2>3 DEF EnterPhase, Goto, TypeInv, TypeOK, RunOK
      <3>3. \A q \in Proc : pc'[q] \in {"idle", "topology", "tunnel"} => fwd'[q] = NoPort
        BY <3>1, <3>2 DEF TunnelInv
      <3>4. TunnelHeld'
        BY <3>1, <3>2 DEF TunnelInv, TunnelHeld, Own, TypeInv, TypeOK, WorldOK
      <3> QED  BY <3>1, <3>3, <3>4 DEF TunnelInv
    <2>4. CASE LoadTopology(p)
      <3>1. UNCHANGED tunnels /\ pc[p] = "topology"
        BY <2>4 DEF LoadTopology
      <3>2. \A t \in tunnels : t.by # p
        BY <3>1 DEF TunnelInv, TunnelHeld, TypeInv, TypeOK, WorldOK
      <3>3. CASE Exit(p)
        BY <1>0, <3>1, <3>2, <3>3, ExitTunnel DEF TunnelInv, TunnelHeld, TypeInv, TypeOK
      <3>4. CASE Goto(p, "dispatch") /\ UNCHANGED fwd
        BY <3>1, <3>4, TunnelFrame DEF Label
      <3> QED  BY <2>4, <3>3, <3>4 DEF LoadTopology
    <2>5. CASE TearDown(p)
      BY <1>0, <2>5, ExitTunnel DEF TearDown, TunnelInv, TunnelHeld, TypeInv, TypeOK
    <2>6. CASE OpenTunnel(p)
      <3>1. CASE Raise(p, Structured) /\ UNCHANGED <<tunnels, fwd>>
        BY <3>1, TunnelFrame DEF Raise, Label
      <3>2. ASSUME NEW q \in Port \ {t.port : t \in tunnels}, Proceed(p, "fetch"),
                   tunnels' = tunnels \cup {[port |-> q, to |-> Own(p), by |-> p]},
                   fwd' = [fwd EXCEPT ![p] = q]
            PROVE  TunnelInv'
        <4>1. \A r \in Proc : IF r = p THEN pc'[r] = "fetch" /\ fwd'[r] = q
                                       ELSE pc'[r] = pc[r] /\ fwd'[r] = fwd[r]
          BY <3>2 DEF Proceed, Goto, TypeInv, TypeOK, RunOK
        <4>2. \A t \in tunnels : t.by # p /\ t.port # q
          BY <2>6 DEF OpenTunnel, TunnelInv, TunnelHeld, TypeInv, TypeOK, WorldOK
        <4>3. \A r \in Proc : pc'[r] \in {"idle", "topology", "tunnel"} => fwd'[r] = NoPort
          BY <4>1 DEF TunnelInv
        <4>4. \A t \in tunnels' : t.by \in Proc => t.port = fwd'[t.by] /\ t.to = Own(t.by) /\ pc'[t.by] # "idle"
          BY <3>2, <4>1, <4>2 DEF TunnelInv, TunnelHeld, TypeInv, TypeOK, WorldOK
        <4>5. \A t, u \in tunnels' : t.port = u.port => t = u
          BY <3>2, <4>2 DEF TunnelInv, TunnelHeld
        <4> QED  BY <4>3, <4>4, <4>5 DEF TunnelInv, TunnelHeld, Own
      <3>3. CASE Raise(p, Structured) /\ Abandon(p) /\ UNCHANGED fwd
        <4>1. PICK q \in Port \ {t.port : t \in tunnels} :
                 tunnels' = tunnels \cup {[port |-> q, to |-> Own(p), by |-> GaveUp]}
          BY <3>3 DEF Abandon
        <4>2. pc' = [pc EXCEPT ![p] = "finally"]
          BY <3>3 DEF Raise, Goto
        <4>3. \A r \in Proc : pc'[r] \in {"idle", "topology", "tunnel"} => fwd'[r] = NoPort
          BY <3>3, <4>2 DEF TunnelInv, TypeInv, TypeOK, RunOK
        <4>4. \A t \in tunnels' : t.by \in Proc => t.port = fwd'[t.by] /\ t.to = Own(t.by) /\ pc'[t.by] # "idle"
          BY <3>3, <4>1, <4>2 DEF TunnelInv, TunnelHeld, TypeInv, TypeOK, WorldOK, RunOK
        <4>5. \A t, u \in tunnels' : t.port = u.port => t = u
          BY <4>1 DEF TunnelInv, TunnelHeld
        <4> QED  BY <4>3, <4>4, <4>5 DEF TunnelInv, TunnelHeld, Own
      <3> QED  BY <2>6, <3>1, <3>2, <3>3 DEF OpenTunnel
    <2> QED  BY <1>1, <2>1, <2>2, <2>3, <2>4, <2>5, <2>6 DEF Step
  <1>2. ASSUME NEW p \in Proc, NEW r \in Request, Start(p, r) PROVE TunnelInv'
    <2>1. UNCHANGED <<tunnels, fwd>> /\ fwd[p] = NoPort /\ (\A t \in tunnels : t.by # p)
      BY <1>2 DEF Start, TunnelInv, TunnelHeld, TypeInv, TypeOK, WorldOK
    <2>2. \A q \in Proc : q # p => pc'[q] = pc[q]
      BY <1>2 DEF Start, Goto, TypeInv, TypeOK, RunOK
    <2>3. TunnelHeld'
      BY <2>1, <2>2 DEF TunnelInv, TunnelHeld, Own, TypeInv, TypeOK, WorldOK
    <2> QED  BY <2>1, <2>2, <2>3 DEF TunnelInv
  <1>3. ASSUME NEW p \in Proc, Crash(p) PROVE TunnelInv'
    <2>1. \A t \in tunnels' : t.by # p /\ (t.by \notin Proc \/ t \in tunnels)
      BY <1>3 DEF Crash, TypeInv, TypeOK, WorldOK
    <2>2. \A t, u \in tunnels' : t.port = u.port => t = u
      BY <1>3 DEF Crash, TunnelInv, TunnelHeld, TypeInv, TypeOK, WorldOK
    <2> QED  BY <1>0, <1>3, <2>1, <2>2, ExitTunnel DEF Crash, TypeInv, TypeOK
  <1>4. CASE TunnelDies \/ (\E c \in Cluster : NamespaceGone(c) \/ ManifestLands(c)
                  \/ CaptureBaseline(c) \/ Rebuild(c) \/ AddWorker(c) \/ WipeState(c))
    <2>1. UNCHANGED run /\ tunnels' \subseteq tunnels
      BY <1>4 DEF TunnelDies, NamespaceGone, ManifestLands, CaptureBaseline, Rebuild, AddWorker, WipeState
    <2> QED  BY <2>1 DEF run, TunnelInv, TunnelHeld, Own
  <1>5. CASE UNCHANGED vars
    BY <1>5 DEF vars, world, run, TunnelInv, TunnelHeld, Own
  <1> QED  BY <1>1, <1>2, <1>3, <1>4, <1>5 DEF Next, Environment

\* The ssh processes left by `w`, one of Killed and GaveUp.
Left(w) == {t \in tunnels : t.by = w}

OrphanInv ==
    /\ IsFiniteSet(tunnels)
    /\ Cardinality(Left(Killed)) <= crashes
    /\ Cardinality(Left(GaveUp)) <= faults

\* Failed calls and kills are only ever added.
LEMMA BudgetsSpent == ASSUME TypeInv, [Next]_vars PROVE faults <= faults' /\ crashes <= crashes'
  <1>0. faults \in Nat /\ crashes \in Nat
    BY DEF TypeInv, TypeOK, HistoryOK
  <1>1. ASSUME NEW p \in Proc, PhaseStep(p) \/ FetchKubeconfig(p)
        PROVE  faults <= faults' /\ crashes' = crashes
    <2>1. CASE RunHelmSoft(p)
      <3>1. \A failed \in SUBSET SoftRelease : Cardinality(failed) \in Nat
        BY FS_CardinalityType, FS_Subset, SoftFinite
      <3> QED  BY <1>0, <2>1, <3>1 DEF RunHelmSoft, BodyFrame, history
    <2>2. CASE (PhaseStep(p) /\ ~RunHelmSoft(p)) \/ FetchKubeconfig(p)
      <3>1. faults' \in {faults, faults + 1}
        BY <2>2 DEF PhaseStep, FetchKubeconfig, RunCloudinit, RunInstallServer, RunInstallAgents, RunK3s,
               RunGatewayCrds, RunHelmCilium, RunHelmEnvoy, RunHelmDefaultSc,
               RunGatewaySmokeApply, RunGatewaySmokeVerdict, RunKubeconfig, RunCsiSmokeApply,
               RunCsiSmokeVerdict, RunHostPorts, RunExternalname, CallSucceeds, CallFails, Cleanup
      <3>2. UNCHANGED crashes
        BY <2>2 DEF PhaseStep, FetchKubeconfig, RunCloudinit, RunInstallServer, RunInstallAgents, RunK3s,
               RunGatewayCrds, RunHelmCilium, RunHelmEnvoy, RunHelmDefaultSc,
               RunGatewaySmokeApply, RunGatewaySmokeVerdict, RunKubeconfig, RunCsiSmokeApply,
               RunCsiSmokeVerdict, RunHostPorts, RunExternalname, BodyFrame, history
      <3> QED  BY <1>0, <3>1, <3>2
    <2> QED  BY <1>1, <2>1, <2>2
  <1>2. ASSUME NEW p \in Proc, Step(p) \/ (\E r \in Request : Start(p, r)), ~PhaseStep(p), ~FetchKubeconfig(p)
        PROVE  faults' \in {faults, faults + 1} /\ crashes' = crashes
    BY <1>2 DEF Step, Start, LoadTopology, Discover, SkipPhase, EnterPhase, FinishLoop, SaveTruncate,
                SaveWrite, TearDown, OpenTunnel, CallSucceeds, CallFails, history
  <1>3. CASE Environment \/ UNCHANGED vars
    <2>1. faults' \in {faults, faults + 1} /\ crashes' \in {crashes, crashes + 1}
      BY <1>3 DEF Environment, TunnelDies, Crash, NamespaceGone, ManifestLands, CaptureBaseline, Rebuild,
                  AddWorker, WipeState, CallFails, history, vars
    <2> QED  BY <1>0, <2>1
  <1> QED  BY <1>0, <1>1, <1>2, <1>3 DEF Next, Step

\* Nobody has left another ssh process.
LEMMA NoNewOrphan ==
    ASSUME NEW A, IsFiniteSet(A), NEW B, B \subseteq A,
           NEW n \in Nat, NEW m \in Nat, Cardinality(A) <= n, n <= m
    PROVE  Cardinality(B) <= m
  <1>1. Cardinality(A) \in Nat /\ Cardinality(B) \in Nat /\ Cardinality(B) <= Cardinality(A)
    BY FS_Subset, FS_CardinalityType
  <1> QED  BY <1>1

\* One more ssh process may have been left.
LEMMA OneMoreOrphan ==
    ASSUME NEW A, IsFiniteSet(A), NEW x, NEW B, B \subseteq A \cup {x},
           NEW n \in Nat, Cardinality(A) <= n
    PROVE  Cardinality(B) <= n + 1
  <1>1. Cardinality(A) \in Nat
    BY FS_CardinalityType
  <1>2. IsFiniteSet(A \cup {x}) /\ Cardinality(A \cup {x}) <= Cardinality(A) + 1
    BY <1>1, FS_AddElement
  <1>3. Cardinality(A \cup {x}) \in Nat
    BY <1>2, FS_CardinalityType
  <1>4. Cardinality(B) <= Cardinality(A \cup {x}) /\ Cardinality(B) \in Nat
    BY <1>2, FS_Subset, FS_CardinalityType
  <1> QED  BY <1>1, <1>2, <1>3, <1>4

\* What a step may do to the set of tunnels.
LEMMA StepTunnelSet ==
    ASSUME TypeInv, TunnelInv, [Next]_vars
    PROVE  \/ tunnels' \subseteq tunnels
           \/ \E p \in Proc : \/ OpenTunnel(p)
                             \/ Crash(p)
  <1>1. CASE \E p \in Proc : PhaseStep(p) \/ FetchKubeconfig(p)
    BY <1>1 DEF PhaseStep, FetchKubeconfig, RunCloudinit, RunInstallServer, RunInstallAgents, RunK3s,
           RunGatewayCrds, RunHelmCilium, RunHelmSoft, RunHelmEnvoy, RunHelmDefaultSc,
           RunGatewaySmokeApply, RunGatewaySmokeVerdict, RunKubeconfig, RunCsiSmokeApply,
           RunCsiSmokeVerdict, RunHostPorts, RunExternalname, BodyFrame
  <1>2. CASE \E p \in Proc : \/ LoadTopology(p) \/ SkipPhase(p) \/ EnterPhase(p) \/ FinishLoop(p)
                            \/ SaveTruncate(p) \/ SaveWrite(p) \/ TearDown(p)
                            \/ (\E r \in Request : Start(p, r))
    BY <1>2 DEF LoadTopology, SkipPhase, EnterPhase, FinishLoop, SaveTruncate, SaveWrite, TearDown, Start
  <1>3. CASE TunnelDies \/ (\E c \in Cluster : NamespaceGone(c) \/ ManifestLands(c)
                  \/ CaptureBaseline(c) \/ Rebuild(c) \/ AddWorker(c) \/ WipeState(c))
    BY <1>3 DEF TunnelDies, NamespaceGone, ManifestLands, CaptureBaseline, Rebuild, AddWorker, WipeState
  <1>4. CASE UNCHANGED vars
    BY <1>4 DEF vars
  <1> QED  BY <1>1, <1>2, <1>3, <1>4 DEF Next, Step, Environment

\* A kill turns at most one tunnel, a wait that gives up adds at most one.
LEMMA StepOrphans == ASSUME TypeInv, TunnelInv, OrphanInv, [Next]_vars PROVE OrphanInv'
  <1>0. /\ faults \in Nat /\ crashes \in Nat /\ faults' \in Nat /\ crashes' \in Nat
        /\ faults <= faults' /\ crashes <= crashes'
    BY StepType, BudgetsSpent DEF TypeInv, TypeOK, HistoryOK
  <1>4. /\ IsFiniteSet(Left(Killed)) /\ Cardinality(Left(Killed)) <= crashes
        /\ IsFiniteSet(Left(GaveUp)) /\ Cardinality(Left(GaveUp)) <= faults
    <2>1. Left(Killed) \subseteq tunnels /\ Left(GaveUp) \subseteq tunnels
      BY DEF Left
    <2> QED  BY <2>1, FS_Subset DEF OrphanInv
  <1>1. CASE tunnels' \subseteq tunnels
    <2>1. IsFiniteSet(tunnels')
      BY <1>1, FS_Subset DEF OrphanInv
    <2>2. Left(Killed)' \subseteq Left(Killed) /\ Left(GaveUp)' \subseteq Left(GaveUp)
      BY <1>1 DEF Left
    <2>3. Cardinality(Left(Killed)') <= crashes'
      BY <2>2, <1>0, <1>4, NoNewOrphan
    <2>4. Cardinality(Left(GaveUp)') <= faults'
      BY <2>2, <1>0, <1>4, NoNewOrphan
    <2> QED  BY <2>1, <2>3, <2>4 DEF OrphanInv, Left
  <1>2. ASSUME NEW p \in Proc, OpenTunnel(p), ~(tunnels' \subseteq tunnels) PROVE OrphanInv'
    <2>1. PICK x : tunnels' = tunnels \cup {x} /\ (x.by = p \/ (x.by = GaveUp /\ faults' = faults + 1))
      BY <1>2 DEF OpenTunnel, Abandon, CallFails, CallSucceeds, AddressRight
    <2>2. IsFiniteSet(tunnels')
      BY <2>1, FS_AddElement DEF OrphanInv
    <2>3. Left(Killed)' \subseteq Left(Killed)
      BY <2>1 DEF Left
    <2>4. Cardinality(Left(Killed)') <= crashes'
      BY <2>3, <1>0, <1>4, NoNewOrphan
    <2>5. CASE x.by = p
      <3>1. Left(GaveUp)' \subseteq Left(GaveUp)
        BY <2>1, <2>5 DEF Left
      <3>2. Cardinality(Left(GaveUp)') <= faults'
        BY <3>1, <1>0, <1>4, NoNewOrphan
      <3> QED  BY <2>2, <2>4, <3>2 DEF OrphanInv, Left
    <2>6. CASE faults' = faults + 1
      <3>1. Left(GaveUp)' \subseteq Left(GaveUp) \cup {x}
        BY <2>1 DEF Left
      <3>2. Cardinality(Left(GaveUp)') <= faults + 1
        BY <3>1, <1>0, <1>4, OneMoreOrphan
      <3> QED  BY <2>2, <2>4, <2>6, <3>2 DEF OrphanInv, Left
    <2> QED  BY <2>1, <2>5, <2>6
  <1>3. ASSUME NEW p \in Proc, Crash(p) PROVE OrphanInv'
    <2> DEFINE Turned(t) == IF t.by = p THEN [t EXCEPT !.by = Killed] ELSE t
    <2>1. tunnels' = {Turned(t) : t \in tunnels} /\ crashes' = crashes + 1 /\ UNCHANGED faults
      BY <1>3 DEF Crash
    <2>2. IsFiniteSet(tunnels')
      <3>1. \A t, u \in tunnels : t.by = p /\ u.by = p => t = u
        BY DEF TunnelInv, TunnelHeld
      <3>2. \E x : tunnels' \subseteq tunnels \cup {x}
        <4>1. CASE \E t \in tunnels : t.by = p
          <5>1. PICK t \in tunnels : t.by = p
            BY <4>1
          <5>2. tunnels' \subseteq tunnels \cup {Turned(t)}
            BY <2>1, <3>1, <5>1
          <5> QED  BY <5>2
        <4>2. CASE \A t \in tunnels : t.by # p
          BY <2>1, <4>2
        <4> QED  BY <4>1, <4>2
      <3> QED  BY <3>2, FS_AddElement, FS_Subset DEF OrphanInv
    <2>3. Left(GaveUp)' \subseteq Left(GaveUp)
      BY <2>1 DEF Left, TypeInv, TypeOK, WorldOK
    <2>4. Cardinality(Left(GaveUp)') <= faults'
      BY <2>3, <1>0, <1>4, NoNewOrphan
    <2>5. \E x : Left(Killed)' \subseteq Left(Killed) \cup {x}
      <3>1. \A t, u \in tunnels : t.by = p /\ u.by = p => t = u
        BY DEF TunnelInv, TunnelHeld
      <3>2. CASE \E t \in tunnels : t.by = p
        <4>1. PICK t \in tunnels : t.by = p
          BY <3>2
        <4>2. Left(Killed)' \subseteq Left(Killed) \cup {[t EXCEPT !.by = Killed]}
          BY <2>1, <3>1, <4>1 DEF Left
        <4> QED  BY <4>2
      <3>3. CASE \A t \in tunnels : t.by # p
        BY <2>1, <3>3 DEF Left
      <3> QED  BY <3>2, <3>3
    <2>6. Cardinality(Left(Killed)') <= crashes + 1
      BY <2>5, <1>0, <1>4, OneMoreOrphan
    <2> QED  BY <2>1, <2>2, <2>4, <2>6 DEF OrphanInv, Left
  <1> QED  BY <1>1, <1>2, <1>3, StepTunnelSet

\* Whatever phases are requested, skipped or fail, the ssh process opened by
\* _open_apiserver_tunnel belongs to a run in progress, which tears it down in
\* the `finally` of bootstrap(); apart from at most one for every killed run
\* and one for every wait for a tunnel that gave up.
THEOREM TunnelsAreOwned == Spec => []TunnelsOwned
  <1>1. Init => TunnelInv /\ OrphanInv
    <2>1. ASSUME Init PROVE TunnelInv
      BY <2>1 DEF Init, TunnelInv, TunnelHeld
    <2>2. ASSUME Init PROVE OrphanInv
      <3>1. IsFiniteSet(tunnels) /\ Left(Killed) = {} /\ Left(GaveUp) = {}
        BY <2>2, FS_EmptySet DEF Init, Left
      <3> QED  BY <2>2, <3>1, FS_EmptySet DEF Init, OrphanInv
    <2> QED  BY <2>1, <2>2
  <1>2. TypeInv /\ TunnelInv /\ OrphanInv /\ [Next]_vars => TunnelInv' /\ OrphanInv'
    BY StepTunnel, StepOrphans
  <1>3. TunnelInv /\ OrphanInv => TunnelsOwned
    BY DEF TunnelInv, TunnelHeld, OrphanInv, Left, TunnelsOwned
  <1> QED  BY <1>1, <1>2, <1>3, TypeInvariant, PTL DEF Spec

-----------------------------------------------------------------------------
\* Nobody runs the pipeline twice at once for one cluster.
OneRunPerCluster == \A p, q \in Proc : Own(p) = Own(q) => p = q

\* The labels at which a run calls kubectl or helm with the cluster's kubeconfig.
Calling == {"body", "helm_soft", "helm_envoy", "helm_sc", "smoke_verdict"}

\* KubeconfigFollowsTunnel, of one run.
Follows(p) ==
    pc[p] \in Calling /\ Cur(p) \in TunnelPhase
        => fwd[p] # NoPort /\ clusterKc[Own(p)] = fwd[p]

\* The variables of the other runs, and their clusters' kubeconfigs, are left alone.
OthersFollow(p) ==
    \A q \in Proc \ {p} :
        /\ pc'[q] = pc[q] /\ req'[q] = req[q] /\ pos'[q] = pos[q] /\ fwd'[q] = fwd[q]
        /\ clusterKc'[Own(q)] = clusterKc[Own(q)]

\* So the step of a run has only its own kubeconfig to answer for.
LEMMA FollowsOne ==
    ASSUME KubeconfigFollowsTunnel, NEW p \in Proc, OthersFollow(p), Follows(p)'
    PROVE  KubeconfigFollowsTunnel'
  <1>1. ASSUME NEW q \in Proc \ {p} PROVE Follows(q)'
    BY DEF KubeconfigFollowsTunnel, OthersFollow, Follows, Calling, Cur, Own
  <1> QED  BY <1>1 DEF KubeconfigFollowsTunnel, Follows, Calling

\* A phase writes a kubeconfig only for its own cluster, which no other run is at.
LEMMA PhaseFollows ==
    ASSUME OneRunPerCluster, TypeInv, KubeconfigFollowsTunnel, NEW p \in Proc,
           PhaseStep(p) \/ FetchKubeconfig(p)
    PROVE  KubeconfigFollowsTunnel'
  <1>1. UNCHANGED <<req, pos, fwd>>
    BY PhaseInside
  <1>2. \A q \in Proc \ {p} : pc'[q] = pc[q]
    <2>1. Move(p)
      BY PhaseMove
    <2>2. \E label : Goto(p, label)
      BY <2>1 DEF Move, MarkDone, Raise, Proceed
    <2> QED  BY <2>2 DEF Goto, TypeInv, TypeOK, RunOK
  <1>3. CASE RunKubeconfig(p)
    <2>1. \A q \in Proc \ {p} : clusterKc'[Own(q)] = clusterKc[Own(q)]
      BY <1>3 DEF RunKubeconfig, OneRunPerCluster, TypeInv, TypeOK, FilesOK, Own
    <2>2. pc'[p] \notin Calling
      BY <1>3 DEF RunKubeconfig, MarkDone, Raise, Goto, Calling, TypeInv, TypeOK, RunOK
    <2> QED  BY <1>1, <1>2, <2>1, <2>2, FollowsOne DEF OthersFollow, Follows
  <1>4. CASE FetchKubeconfig(p)
    <2>1. \A q \in Proc \ {p} : clusterKc'[Own(q)] = clusterKc[Own(q)]
      BY <1>4 DEF FetchKubeconfig, OneRunPerCluster, TypeInv, TypeOK, FilesOK, Own
    <2>2. CASE pc'[p] \in Calling
      <3>1. clusterKc'[Own(p)] = fwd[p]
        BY <1>4, <2>2 DEF FetchKubeconfig, Raise, Goto, Calling, TypeInv, TypeOK, FilesOK, RunOK, Own
      <3>2. fwd[p] # NoPort
        BY <1>4 DEF FetchKubeconfig, TypeInv, StageOK, InStage
      <3> QED  BY <1>1, <1>2, <2>1, <3>1, <3>2, FollowsOne DEF OthersFollow, Follows, Own
    <2>3. CASE pc'[p] \notin Calling
      BY <1>1, <1>2, <2>1, <2>3, FollowsOne DEF OthersFollow, Follows
    <2> QED  BY <2>2, <2>3
  <1>5. CASE PhaseStep(p) /\ ~RunKubeconfig(p)
    <2>1. clusterKc' = clusterKc
      BY <1>5 DEF PhaseStep, RunCloudinit, RunInstallServer, RunInstallAgents, RunK3s,
           RunGatewayCrds, RunHelmCilium, RunHelmSoft, RunHelmEnvoy, RunHelmDefaultSc,
           RunGatewaySmokeApply, RunGatewaySmokeVerdict, RunCsiSmokeApply,
           RunCsiSmokeVerdict, RunHostPorts, RunExternalname
    <2>2. pc'[p] \in Calling => pc[p] \in Calling
      BY <1>5 DEF PhaseStep, RunCloudinit, RunInstallServer, RunInstallAgents, RunK3s,
           RunGatewayCrds, RunHelmCilium, RunHelmSoft, RunHelmEnvoy, RunHelmDefaultSc,
           RunGatewaySmokeApply, RunGatewaySmokeVerdict, RunCsiSmokeApply,
           RunCsiSmokeVerdict, RunHostPorts, RunExternalname,
           At, MarkDone, Raise, Proceed, Goto, Calling, TypeInv, TypeOK, RunOK
    <2>3. Follows(p)'
      BY <1>1, <2>1, <2>2 DEF KubeconfigFollowsTunnel, Follows, Calling, Cur, Own
    <2> QED  BY <1>1, <1>2, <2>1, <2>3, FollowsOne DEF OthersFollow
  <1> QED  BY <1>3, <1>4, <1>5

\* The steps that write no kubeconfig bring no run to a call that needs one.
LEMMA DispatchFollows ==
    ASSUME TypeInv, KubeconfigFollowsTunnel, NEW p \in Proc,
           \/ LoadTopology(p) \/ SkipPhase(p) \/ EnterPhase(p) \/ FinishLoop(p)
           \/ SaveTruncate(p) \/ SaveWrite(p) \/ TearDown(p) \/ OpenTunnel(p)
           \/ Crash(p) \/ \E r \in Request : Start(p, r)
    PROVE  KubeconfigFollowsTunnel'
  <1>1. OthersFollow(p) /\ Follows(p)'
    <2>1. CASE LoadTopology(p)
      BY <2>1 DEF LoadTopology, Exit, Goto, OthersFollow, Follows, Calling, TypeInv, TypeOK, RunOK
    <2>2. CASE SkipPhase(p)
      BY <2>2 DEF SkipPhase, files, OthersFollow, Follows, Calling, TypeInv, TypeOK, RunOK
    <2>3. CASE EnterPhase(p)
      BY <2>3 DEF EnterPhase, Goto, files, OthersFollow, Follows, Calling, Cur, TypeInv, TypeOK, RunOK
    <2>4. CASE FinishLoop(p)
      BY <2>4 DEF FinishLoop, Goto, files, OthersFollow, Follows, Calling, TypeInv, TypeOK, RunOK
    <2>5. CASE SaveTruncate(p) \/ SaveWrite(p)
      BY <2>5 DEF SaveTruncate, SaveWrite, Goto, OthersFollow, Follows, Calling, TypeInv, TypeOK, RunOK
    <2>6. CASE TearDown(p) \/ Crash(p)
      BY <2>6 DEF TearDown, Crash, Exit, files, OthersFollow, Follows, Calling, TypeInv, TypeOK, RunOK
    <2>7. CASE OpenTunnel(p)
      BY <2>7 DEF OpenTunnel, Proceed, Raise, Goto, files, OthersFollow, Follows, Calling, TypeInv, TypeOK, RunOK
    <2>8. ASSUME NEW r \in Request, Start(p, r) PROVE OthersFollow(p) /\ Follows(p)'
      BY <2>8 DEF Start, Goto, files, OthersFollow, Follows, Calling, TypeInv, TypeOK, RunOK
    <2> QED  BY <2>1, <2>2, <2>3, <2>4, <2>5, <2>6, <2>7, <2>8
  <1> QED  BY <1>1, FollowsOne

\* The property is inductive, given the types, when runs of a cluster do not overlap.
LEMMA StepFollows ==
    ASSUME OneRunPerCluster, TypeInv, KubeconfigFollowsTunnel, [Next]_vars
    PROVE  KubeconfigFollowsTunnel'
  <1>1. ASSUME NEW p \in Proc, Step(p) \/ Crash(p) \/ \E r \in Request : Start(p, r)
        PROVE  KubeconfigFollowsTunnel'
    BY <1>1, PhaseFollows, DispatchFollows DEF Step
  <1>2. CASE TunnelDies \/ (\E c \in Cluster : NamespaceGone(c) \/ ManifestLands(c)
                  \/ CaptureBaseline(c) \/ Rebuild(c) \/ AddWorker(c) \/ WipeState(c))
    <2>1. UNCHANGED <<run, clusterKc>>
      BY <1>2 DEF TunnelDies, NamespaceGone, ManifestLands, CaptureBaseline, Rebuild, AddWorker,
                  WipeState, files
    <2> QED  BY <2>1 DEF run, KubeconfigFollowsTunnel, Cur, Own
  <1>3. CASE UNCHANGED vars
    BY <1>3 DEF vars, files, run, KubeconfigFollowsTunnel, Cur, Own
  <1> QED  BY <1>1, <1>2, <1>3 DEF Next, Environment

\* A phase whose body begins with _open_apiserver_tunnel runs kubectl and helm against
\* the tunnel this very run opened, whatever kubeconfig an earlier run left on disk,
\* provided runs of one cluster do not overlap.
THEOREM KubectlUsesOwnTunnel ==
    ASSUME OneRunPerCluster PROVE Spec => []KubeconfigFollowsTunnel
  <1>1. Init => KubeconfigFollowsTunnel
    BY DEF Init, KubeconfigFollowsTunnel
  <1>2. TypeInv /\ KubeconfigFollowsTunnel /\ [Next]_vars => KubeconfigFollowsTunnel'
    BY OneRunPerCluster, StepFollows
  <1> QED  BY <1>1, <1>2, TypeInvariant, PTL DEF Spec
=============================================================================
