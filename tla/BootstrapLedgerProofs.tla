----------------------- MODULE BootstrapLedgerProofs -----------------------
(***************************************************************************)
(* Proofs about the ledger of module Bootstrap.                             *)
(*                                                                         *)
(*   LedgerIsSound, ExternalnameIsSound, CsiSmokeIsSound                    *)
(*       a record is never more than the cluster has, for any number of     *)
(*       runs of a cluster at once.  None of the three is inductive: a run  *)
(*       saves done[p], which it read from the ledger when it started and   *)
(*       has added to since, so done[p] must be sound too; and a phase of   *)
(*       several stages adds its record at the last one, so the label must  *)
(*       say what the earlier stages have installed.  RunSound says both.   *)
(*       Installed things never go away while a run of the cluster is in    *)
(*       progress, which is why an old done[p] stays sound.                 *)
(*   OkRunsAreRecorded                                                      *)
(*       exit code 0 means that the phases asked for are on disk.           *)
(*   LedgerIsCheckpoint                                                     *)
(*       the ledger implements module Checkpoint.                           *)
(*       Both need runs of a cluster not to overlap: then the file is what  *)
(*       the run holds, except while it is being saved, which HeldInv says. *)
(***************************************************************************)
EXTENDS BootstrapProofs

USE ClusterAssumption, ProcAssumption, NullAssumption, BoundAssumption

\* With one cluster, ~/.kube/config can name no other.
OneCluster == \A c, d \in Cluster : c = d

\* All that a record of a phase promises of cluster c: its effect, and for the
\* phases whose record means that only on some clusters, what it means there.
Owed(c, phase) ==
    Effect(phase)
        \cup (IF phase = "externalname" /\ c \in Apps THEN {"cross-svcs"} ELSE {})
        \cup (IF phase = "csi_smoke" /\ OneCluster THEN {"csi", "default-sc"} ELSE {})

\* The ledger never claims more than the cluster has.
Promised ==
    \A c \in Cluster : ~stale[c] /\ Readable(c) =>
        \A phase \in ledger[c] : Owed(c, phase) \subseteq have[c]

\* What the earlier stages of the phase in progress have installed.
StageHas(p, label) ==
    /\ label = "agents" => "k3s" \in have[Own(p)]
    /\ label \in {"helm_soft", "helm_envoy", "helm_sc"} => "cilium" \in have[Own(p)]
    /\ label = "helm_sc" => "envoy-gateway" \in have[Own(p)]
    /\ label = "smoke_verdict" => {"gateway-crds", "envoy-gateway"} \subseteq have[Own(p)]
    /\ label = "csi_verdict" /\ OneCluster => "default-sc" \in have[Own(p)]

\* What a run holds in memory is as sound as the ledger.
RunSound(p) ==
    /\ ~stale[Own(p)] => \A phase \in done[p] : Owed(Own(p), phase) \subseteq have[Own(p)]
    /\ pc[p] = "idle" => done[p] = {}
    /\ StageHas(p, pc[p])

SoundInv == Promised /\ \A p \in Proc : RunSound(p)

HaveGrows == \A c \in Cluster : have[c] \subseteq have'[c]

\* Labels in the middle of a phase.
Inside == {"body", "agents", "helm_soft", "helm_envoy", "helm_sc",
           "smoke_verdict", "csi_verdict"}

\* What a step of a phase comes to: the phase is recorded and its promise kept, it
\* raises, it goes on, or it is the externalname phase waiting for its manifest.
SoundMove(p) ==
    \/ MarkDone(p) /\ Owed(Own(p), Cur(p)) \subseteq have'[Own(p)]
    \/ Raise(p, AnyError) \/ Raise(p, Structured) \/ Raise(p, Traceback)
    \/ \E label \in Inside : Proceed(p, label) /\ StageHas(p, label)'
    \/ Cur(p) = "externalname" /\ Own(p) \in Apps /\ Proceed(p, "save")

\* Such a step keeps the invariant.
LEMMA SoundMoveInv ==
    ASSUME TypeInv, SoundInv, NEW p \in Proc, SoundMove(p), HaveGrows,
           UNCHANGED <<ledger, stale, req, pos>>
    PROVE  SoundInv'
  <1>1. Promised'
    BY DEF SoundInv, Promised, Readable, HaveGrows
  <1>2. ASSUME NEW q \in Proc, q # p PROVE RunSound(q)'
    <2>1. pc'[q] = pc[q] /\ done'[q] = done[q] /\ RunSound(q)
      BY <1>2 DEF SoundMove, MarkDone, Raise, Proceed, Goto, SoundInv, TypeInv, TypeOK, RunOK
    <2>2. have[Own(q)] \subseteq have'[Own(q)]
      BY DEF HaveGrows, Own
    <2> QED  BY <2>1, <2>2 DEF RunSound, StageHas, Own
  <1>3. RunSound(p)'
    <2>1. RunSound(p) /\ have[Own(p)] \subseteq have'[Own(p)]
      BY DEF SoundInv, HaveGrows, Own
    <2>2. CASE MarkDone(p) /\ Owed(Own(p), Cur(p)) \subseteq have'[Own(p)]
      <3>1. pc'[p] = "save" /\ done'[p] = done[p] \cup {Cur(p)}
        BY <2>2 DEF MarkDone, Goto, TypeInv, TypeOK, RunOK
      <3> QED  BY <2>1, <2>2, <3>1 DEF RunSound, StageHas, Own
    <2>3. CASE Raise(p, AnyError) \/ Raise(p, Structured) \/ Raise(p, Traceback)
      <3>1. pc'[p] = "finally" /\ done'[p] = done[p]
        BY <2>3 DEF Raise, Goto, TypeInv, TypeOK, RunOK
      <3> QED  BY <2>1, <3>1 DEF RunSound, StageHas, Own
    <2>4. ASSUME NEW label \in Inside, Proceed(p, label), StageHas(p, label)'
          PROVE  RunSound(p)'
      <3>1. pc'[p] = label /\ done'[p] = done[p]
        BY <2>4 DEF Proceed, Goto, TypeInv, TypeOK, RunOK
      <3> QED  BY <2>1, <2>4, <3>1 DEF RunSound, StageHas, Own, Inside
    <2>5. CASE Proceed(p, "save")
      <3>1. pc'[p] = "save" /\ done'[p] = done[p]
        BY <2>5 DEF Proceed, Goto, TypeInv, TypeOK, RunOK
      <3> QED  BY <2>1, <3>1 DEF RunSound, StageHas, Own
    <2> QED  BY <2>2, <2>3, <2>4, <2>5 DEF SoundMove
  <1> QED  BY <1>1, <1>2, <1>3 DEF SoundInv

\* Installing takes nothing away ...
LEMMA InstallGrows ==
    ASSUME TypeInv, NEW c \in Cluster, NEW things, NEW b,
           Install(c, things) \/ InstallPart(c, things, b)
    PROVE  HaveGrows
  BY DEF TypeInv, TypeOK, WorldOK, Install, InstallPart, HaveGrows

\* ... and a call that succeeds has installed everything.
LEMMA InstallHas ==
    ASSUME TypeInv, NEW c \in Cluster, NEW things, Install(c, things)
    PROVE  have'[c] = have[c] \cup things
  BY DEF TypeInv, TypeOK, WorldOK, Install

\* No phase writes the ledger file.
LEMMA PhaseFrame ==
    ASSUME TypeInv, SoundInv, NEW p \in Proc, PhaseStep(p) \/ FetchKubeconfig(p)
    PROVE  UNCHANGED <<ledger, stale, req, pos>>
  <1>1. CASE RunCloudinit(p)
    BY <1>1 DEF RunCloudinit, BodyFrame, history
  <1>2. CASE RunInstallServer(p)
    BY <1>2 DEF RunInstallServer, BodyFrame, history
  <1>3. CASE RunInstallAgents(p)
    BY <1>3 DEF RunInstallAgents, BodyFrame, history
  <1>4. CASE RunK3s(p)
    BY <1>4 DEF RunK3s, BodyFrame, history
  <1>5. CASE RunGatewayCrds(p)
    BY <1>5 DEF RunGatewayCrds, BodyFrame, history
  <1>6. CASE RunHelmCilium(p)
    BY <1>6 DEF RunHelmCilium, BodyFrame, history
  <1>7. CASE RunHelmSoft(p)
    BY <1>7 DEF RunHelmSoft, BodyFrame, history
  <1>8. CASE RunHelmEnvoy(p)
    BY <1>8 DEF RunHelmEnvoy, BodyFrame, history
  <1>9. CASE RunHelmDefaultSc(p)
    BY <1>9 DEF RunHelmDefaultSc, BodyFrame, history
  <1>10. CASE RunGatewaySmokeApply(p)
    BY <1>10 DEF RunGatewaySmokeApply, BodyFrame, history
  <1>11. CASE RunGatewaySmokeVerdict(p)
    BY <1>11 DEF RunGatewaySmokeVerdict, BodyFrame, history
  <1>12. CASE RunKubeconfig(p)
    BY <1>12 DEF RunKubeconfig, BodyFrame, history
  <1>13. CASE RunCsiSmokeApply(p)
    BY <1>13 DEF RunCsiSmokeApply, BodyFrame, history
  <1>14. CASE RunCsiSmokeVerdict(p)
    BY <1>14 DEF RunCsiSmokeVerdict, BodyFrame, history
  <1>15. CASE RunHostPorts(p)
    BY <1>15 DEF RunHostPorts, BodyFrame, history
  <1>16. CASE RunExternalname(p)
    BY <1>16 DEF RunExternalname, BodyFrame, history
  <1>17. CASE FetchKubeconfig(p)
    BY <1>17 DEF FetchKubeconfig, BodyFrame, history
  <1> QED
    BY <1>1, <1>2, <1>3, <1>4, <1>5, <1>6, <1>7, <1>8, <1>9, <1>10, <1>11, <1>12, <1>13, <1>14, <1>15, <1>16, <1>17 DEF PhaseStep

\* No phase takes anything away from a cluster.
LEMMA PhaseGrows ==
    ASSUME TypeInv, SoundInv, NEW p \in Proc, PhaseStep(p) \/ FetchKubeconfig(p)
    PROVE  HaveGrows
  <1>1. CASE RunCloudinit(p)
    BY <1>1, InstallGrows DEF RunCloudinit, HaveGrows, Own, world
  <1>2. CASE RunInstallServer(p)
    BY <1>2, InstallGrows DEF RunInstallServer, HaveGrows, Own, world
  <1>3. CASE RunInstallAgents(p)
    BY <1>3, InstallGrows DEF RunInstallAgents, HaveGrows, Own, world
  <1>4. CASE RunK3s(p)
    BY <1>4, InstallGrows DEF RunK3s, HaveGrows, Own, world
  <1>5. CASE RunGatewayCrds(p)
    BY <1>5, InstallGrows DEF RunGatewayCrds, HaveGrows, Own, world
  <1>6. CASE RunHelmCilium(p)
    BY <1>6, InstallGrows DEF RunHelmCilium, HaveGrows, Own, world
  <1>7. CASE RunHelmSoft(p)
    BY <1>7, InstallGrows DEF RunHelmSoft, HaveGrows, Own, world
  <1>8. CASE RunHelmEnvoy(p)
    BY <1>8, InstallGrows DEF RunHelmEnvoy, HaveGrows, Own, world
  <1>9. CASE RunHelmDefaultSc(p)
    BY <1>9, InstallGrows DEF RunHelmDefaultSc, HaveGrows, Own, world
  <1>10. CASE RunGatewaySmokeApply(p)
    BY <1>10, InstallGrows DEF RunGatewaySmokeApply, HaveGrows, Own, world
  <1>11. CASE RunGatewaySmokeVerdict(p)
    BY <1>11, InstallGrows DEF RunGatewaySmokeVerdict, HaveGrows, Own, world
  <1>12. CASE RunKubeconfig(p)
    BY <1>12, InstallGrows DEF RunKubeconfig, HaveGrows, Own, world
  <1>13. CASE RunCsiSmokeApply(p)
    BY <1>13, InstallGrows DEF RunCsiSmokeApply, HaveGrows, Own, world
  <1>14. CASE RunCsiSmokeVerdict(p)
    BY <1>14, InstallGrows DEF RunCsiSmokeVerdict, HaveGrows, Own, world
  <1>15. CASE RunHostPorts(p)
    BY <1>15, InstallGrows DEF RunHostPorts, HaveGrows, Own, world
  <1>16. CASE RunExternalname(p)
    BY <1>16, InstallGrows DEF RunExternalname, HaveGrows, Own, world
  <1>17. CASE FetchKubeconfig(p)
    BY <1>17, InstallGrows DEF FetchKubeconfig, HaveGrows, Own, world
  <1> QED
    BY <1>1, <1>2, <1>3, <1>4, <1>5, <1>6, <1>7, <1>8, <1>9, <1>10, <1>11, <1>12, <1>13, <1>14, <1>15, <1>16, <1>17 DEF PhaseStep

\* Two phases owe more than their effect, and only sometimes.
LEMMA OwedIs ==
    /\ \A c, phase : phase \notin {"externalname", "csi_smoke"} => Owed(c, phase) = Effect(phase)
    /\ \A c : Owed(c, "externalname") = IF c \in Apps THEN {"cross-svcs"} ELSE {}
    /\ \A c : Owed(c, "csi_smoke") = IF OneCluster THEN {"csi", "default-sc"} ELSE {}
  BY DEF Owed, Effect

\* A phase that records itself has its effect on the cluster.
LEMMA PhaseMoves ==
    ASSUME TypeInv, SoundInv, NEW p \in Proc, PhaseStep(p) \/ FetchKubeconfig(p)
    PROVE  SoundMove(p)
  <1>1. CASE RunCloudinit(p)
    BY <1>1, InstallHas, OwedIs DEF RunCloudinit, SoundMove, TunnelErrors, TypeInv, StageOK, InStage, Outside, Inside, At, SoundInv, RunSound, StageHas, Effect, Own
  <1>2. CASE RunInstallServer(p)
    BY <1>2, InstallHas, OwedIs DEF RunInstallServer, SoundMove, TunnelErrors, TypeInv, StageOK, InStage, Outside, Inside, At, SoundInv, RunSound, StageHas, Effect, Own
  <1>3. CASE RunInstallAgents(p)
    BY <1>3, InstallHas, OwedIs DEF RunInstallAgents, SoundMove, TunnelErrors, TypeInv, StageOK, InStage, Outside, Inside, At, SoundInv, RunSound, StageHas, Effect, Own
  <1>4. CASE RunK3s(p)
    <2>1. CASE CallSucceeds(Apiserver(p)) /\ MarkDone(p)
      <3>1. "k3s" \in have'[Own(p)]
        BY <1>4, <2>1 DEF RunK3s, CallSucceeds, Apiserver, Serves
      <3>2. Owed(Own(p), Cur(p)) = {"k3s"}
        BY <1>4, OwedIs DEF RunK3s, At, Effect
      <3> QED  BY <2>1, <3>1, <3>2 DEF SoundMove
    <2>2. CASE Raise(p, Structured)
      BY <2>2 DEF SoundMove
    <2> QED  BY <1>4, <2>1, <2>2 DEF RunK3s
  <1>5. CASE RunGatewayCrds(p)
    BY <1>5, InstallHas, OwedIs DEF RunGatewayCrds, SoundMove, TunnelErrors, TypeInv, StageOK, InStage, Outside, Inside, At, SoundInv, RunSound, StageHas, Effect, Own
  <1>6. CASE RunHelmCilium(p)
    BY <1>6, InstallHas, OwedIs DEF RunHelmCilium, SoundMove, TunnelErrors, TypeInv, StageOK, InStage, Outside, Inside, At, SoundInv, RunSound, StageHas, Effect, Own
  <1>7. CASE RunHelmSoft(p)
    BY <1>7, InstallHas, OwedIs DEF RunHelmSoft, SoundMove, TunnelErrors, TypeInv, StageOK, InStage, Outside, Inside, At, SoundInv, RunSound, StageHas, Effect, Own
  <1>8. CASE RunHelmEnvoy(p)
    BY <1>8, InstallHas, OwedIs DEF RunHelmEnvoy, SoundMove, TunnelErrors, TypeInv, StageOK, InStage, Outside, Inside, At, SoundInv, RunSound, StageHas, Effect, Own
  <1>9. CASE RunHelmDefaultSc(p)
    <2>1. pc[p] = "helm_sc" /\ MarkDone(p)
      BY <1>9 DEF RunHelmDefaultSc
    <2>2. Cur(p) = "helm"
      BY <2>1 DEF TypeInv, StageOK, InStage
    <2>3. {"cilium", "envoy-gateway"} \subseteq have[Own(p)]
      BY <2>1 DEF SoundInv, RunSound, StageHas
    <2>4. have[Own(p)] \subseteq have'[Own(p)]
      BY <1>9, PhaseGrows DEF PhaseStep, HaveGrows, Own
    <2>5. Owed(Own(p), Cur(p)) = {"cilium", "envoy-gateway"}
      BY <2>2, OwedIs DEF Effect
    <2> QED  BY <2>1, <2>3, <2>4, <2>5 DEF SoundMove
  <1>10. CASE RunGatewaySmokeApply(p)
    <2>1. CASE Proceed(p, "smoke_verdict")
      <3>1. {"gateway-crds", "envoy-gateway"} \subseteq have[Own(p)] /\ have' = have
        BY <1>10, <2>1 DEF RunGatewaySmokeApply, CallSucceeds, Raise, Proceed, Goto, TypeInv, TypeOK, RunOK
      <3>2. StageHas(p, "smoke_verdict")' /\ "smoke_verdict" \in Inside
        BY <3>1 DEF StageHas, Own, Inside
      <3> QED  BY <2>1, <3>2 DEF SoundMove
    <2>2. CASE Raise(p, Structured)
      BY <2>2 DEF SoundMove
    <2> QED  BY <1>10, <2>1, <2>2 DEF RunGatewaySmokeApply
  <1>11. CASE RunGatewaySmokeVerdict(p)
    BY <1>11, InstallHas, OwedIs DEF RunGatewaySmokeVerdict, SoundMove, TunnelErrors, TypeInv, StageOK, InStage, Outside, Inside, At, SoundInv, RunSound, StageHas, Effect, Own
  <1>12. CASE RunKubeconfig(p)
    BY <1>12, InstallHas, OwedIs DEF RunKubeconfig, SoundMove, TunnelErrors, TypeInv, StageOK, InStage, Outside, Inside, At, SoundInv, RunSound, StageHas, Effect, Own
  <1>13. CASE RunCsiSmokeApply(p)
    <2>1. CASE Proceed(p, "csi_verdict")
      <3>1. HomeServes /\ "default-sc" \in have[homeKc.of] /\ have' = have
        BY <1>13, <2>1 DEF RunCsiSmokeApply, CallSucceeds, Raise, Proceed, Goto, TypeInv, TypeOK, RunOK
      <3>2. OneCluster => homeKc.of = Own(p)
        BY <3>1 DEF HomeServes, OneCluster, Own, TypeInv, TypeOK, FilesOK
      <3>3. StageHas(p, "csi_verdict")' /\ "csi_verdict" \in Inside
        BY <3>1, <3>2 DEF StageHas, Own, Inside
      <3> QED  BY <2>1, <3>3 DEF SoundMove
    <2>2. CASE Raise(p, Structured)
      BY <2>2 DEF SoundMove
    <2> QED  BY <1>13, <2>1, <2>2 DEF RunCsiSmokeApply
  <1>14. CASE RunCsiSmokeVerdict(p)
    <2>1. CASE HomeServes /\ "csi" \in have[homeKc.of] /\ MarkDone(p)
      <3>1. pc[p] = "csi_verdict" /\ Cur(p) = "csi_smoke" /\ have' = have
        BY <1>14 DEF RunCsiSmokeVerdict, TypeInv, StageOK, InStage
      <3>2. OneCluster => homeKc.of = Own(p)
        BY <2>1 DEF HomeServes, OneCluster, Own, TypeInv, TypeOK, FilesOK
      <3>3. OneCluster => {"csi", "default-sc"} \subseteq have'[Own(p)]
        BY <2>1, <3>1, <3>2 DEF SoundInv, RunSound, StageHas
      <3>4. Owed(Own(p), Cur(p)) \subseteq have'[Own(p)]
        BY <3>1, <3>3, OwedIs
      <3> QED  BY <2>1, <3>4 DEF SoundMove
    <2>2. CASE Raise(p, AnyError)
      BY <2>2 DEF SoundMove
    <2> QED  BY <1>14, <2>1, <2>2 DEF RunCsiSmokeVerdict
  <1>15. CASE RunHostPorts(p)
    BY <1>15, InstallHas, OwedIs DEF RunHostPorts, SoundMove, TunnelErrors, TypeInv, StageOK, InStage, Outside, Inside, At, SoundInv, RunSound, StageHas, Effect, Own
  <1>16. CASE RunExternalname(p)
    <2>1. Own(p) \in Cluster /\ Cur(p) = "externalname"
      BY <1>16 DEF RunExternalname, At, Own
    <2>2. CASE Own(p) \notin Apps /\ MarkDone(p)
      BY <2>1, <2>2, OwedIs DEF SoundMove
    <2>3. CASE Install(Own(p), {"cross-svcs"}) /\ MarkDone(p)
      <3>1. have'[Own(p)] = have[Own(p)] \cup {"cross-svcs"}
        BY <2>1, <2>3, InstallHas
      <3> QED  BY <2>1, <2>3, <3>1, OwedIs DEF SoundMove
    <2>4. CASE Own(p) \in Apps /\ Proceed(p, "save")
      BY <2>1, <2>4 DEF SoundMove
    <2>5. CASE Raise(p, Structured)
      BY <2>5 DEF SoundMove
    <2> QED  BY <1>16, <2>2, <2>3, <2>4, <2>5 DEF RunExternalname
  <1>17. CASE FetchKubeconfig(p)
    BY <1>17, InstallHas, OwedIs DEF FetchKubeconfig, SoundMove, TunnelErrors, TypeInv, StageOK, InStage, Outside, Inside, At, SoundInv, RunSound, StageHas, Effect, Own
  <1> QED
    BY <1>1, <1>2, <1>3, <1>4, <1>5, <1>6, <1>7, <1>8, <1>9, <1>10, <1>11, <1>12, <1>13, <1>14, <1>15, <1>16, <1>17 DEF PhaseStep

\* So phases keep the invariant.
LEMMA PhaseSound ==
    ASSUME TypeInv, SoundInv, NEW p \in Proc, PhaseStep(p) \/ FetchKubeconfig(p)
    PROVE  SoundInv'
  BY PhaseFrame, PhaseGrows, PhaseMoves, SoundMoveInv

\* Steps of the dispatcher that record nothing: every run's phases_done is what
\* it was, or empty in a run that is over.
Quietly(p) ==
    /\ UNCHANGED <<have, stale>>
    /\ \A q \in Proc \ {p} : pc'[q] = pc[q] /\ done'[q] = done[q]
    /\ done'[p] \in {done[p], {}}
    /\ pc'[p] = "idle" => done'[p] = {}
    /\ pc'[p] \notin {"agents", "helm_soft", "helm_envoy", "helm_sc", "smoke_verdict",
                   "csi_verdict"}

\* Such a step keeps what the runs hold sound.
LEMMA QuietlySound ==
    ASSUME SoundInv, NEW p \in Proc, Quietly(p)
    PROVE  \A q \in Proc : RunSound(q)'
  <1> SUFFICES ASSUME NEW q \in Proc PROVE RunSound(q)'
    OBVIOUS
  <1>1. RunSound(q)
    BY DEF SoundInv
  <1>2. CASE q = p
    BY <1>1, <1>2 DEF Quietly, RunSound, StageHas, Own
  <1>3. CASE q # p
    BY <1>1, <1>3 DEF Quietly, RunSound, StageHas, Own
  <1> QED  BY <1>2, <1>3

\* What two overlapping writes leave is the last text, or cannot be read.
LEMMA OverwriteIs ==
    ASSUME NEW old, NEW new, NEW text \in Overwrite(old, new)
    PROVE  text = new \/ text = Garbled
  BY DEF Overwrite

\* The dispatcher and the saves keep the invariant.
LEMMA DispatchSound ==
    ASSUME TypeInv, SoundInv, NEW p \in Proc,
           \/ LoadTopology(p) \/ SkipPhase(p) \/ EnterPhase(p) \/ FinishLoop(p)
           \/ SaveTruncate(p) \/ SaveWrite(p) \/ TearDown(p) \/ OpenTunnel(p)
    PROVE  SoundInv'
  <1>1. Quietly(p)
    <2>1. CASE LoadTopology(p)
      BY <2>1 DEF LoadTopology, Exit, Goto, Quietly, world, history, TypeInv, TypeOK, RunOK
    <2>2. CASE SkipPhase(p)
      BY <2>2 DEF SkipPhase, Quietly, world, history, TypeInv, TypeOK, RunOK
    <2>3. CASE EnterPhase(p)
      BY <2>3 DEF EnterPhase, Goto, Quietly, world, history, TypeInv, TypeOK, RunOK
    <2>4. CASE FinishLoop(p)
      BY <2>4 DEF FinishLoop, Goto, Quietly, world, history, TypeInv, TypeOK, RunOK
    <2>5. CASE SaveTruncate(p)
      BY <2>5 DEF SaveTruncate, Goto, Quietly, world, history, TypeInv, TypeOK, RunOK
    <2>6. CASE SaveWrite(p)
      BY <2>6 DEF SaveWrite, Goto, Quietly, world, history, TypeInv, TypeOK, RunOK
    <2>7. CASE TearDown(p)
      BY <2>7 DEF TearDown, Exit, Quietly, world, history, TypeInv, TypeOK, RunOK
    <2>8. CASE OpenTunnel(p)
      BY <2>8 DEF OpenTunnel, Proceed, Raise, Goto, Quietly, world, history, TypeInv, TypeOK, RunOK
    <2> QED  BY <2>1, <2>2, <2>3, <2>4, <2>5, <2>6, <2>7, <2>8
  <1>2. UNCHANGED <<have, stale>>
    BY <1>1 DEF Quietly
  <1>3. Promised'
    <2>1. CASE SaveTruncate(p)
      BY <1>2, <2>1 DEF SaveTruncate, SoundInv, Promised, Readable, Unreadable, TypeInv, TypeOK, FilesOK
    <2>2. CASE SaveWrite(p)
      <3>1. PICK text \in Overwrite(ledger[Own(p)], done[p]) :
               ledger' = [ledger EXCEPT ![Own(p)] = text]
        BY <2>2 DEF SaveWrite
      <3>2. text = done[p] \/ text = Garbled
        BY OverwriteIs
      <3>3. ~stale[Own(p)] => \A phase \in done[p] : Owed(Own(p), phase) \subseteq have[Own(p)]
        BY DEF SoundInv, RunSound
      <3>4. SUFFICES ASSUME NEW c \in Cluster, ~stale[c], ledger'[c] \notin Unreadable,
                            NEW phase \in ledger'[c]
                     PROVE  Owed(c, phase) \subseteq have[c]
        BY <1>2 DEF Promised, Readable
      <3>5. CASE c = Own(p)
        <4>1. ledger'[c] = text /\ text # Garbled
          BY <3>1, <3>4, <3>5 DEF TypeInv, TypeOK, FilesOK, Unreadable
        <4> QED  BY <3>2, <3>3, <3>4, <3>5, <4>1
      <3>6. CASE c # Own(p)
        <4>1. ledger'[c] = ledger[c]
          BY <3>1, <3>6 DEF TypeInv, TypeOK, FilesOK
        <4> QED  BY <3>4, <4>1 DEF SoundInv, Promised, Readable
      <3> QED  BY <3>5, <3>6
    <2>3. CASE UNCHANGED ledger
      BY <1>2, <2>3 DEF SoundInv, Promised, Readable
    <2> QED
      BY <2>1, <2>2, <2>3 DEF LoadTopology, SkipPhase, EnterPhase, FinishLoop, TearDown, OpenTunnel, files
  <1> QED  BY <1>1, <1>3, QuietlySound DEF SoundInv

\* A run starts from a sound ledger.
LEMMA StartSound ==
    ASSUME TypeInv, SoundInv, NEW p \in Proc, NEW r \in Request, Start(p, r)
    PROVE  SoundInv'
  <1>1. UNCHANGED <<ledger, have, stale>>
    BY DEF Start, files, world, history
  <1>2. Promised'
    BY <1>1 DEF SoundInv, Promised, Readable
  <1>3. CASE UNCHANGED <<pc, done>>
    BY <1>1, <1>2, <1>3 DEF SoundInv, RunSound, StageHas, Own
  <1>4. CASE /\ Readable(Own(p)) /\ Goto(p, "topology")
             /\ done' = [done EXCEPT ![p] = ledger[Own(p)]]
    <2>1. ASSUME NEW q \in Proc PROVE RunSound(q)'
      <3>1. CASE q = p
        <4>1. pc'[q] = "topology" /\ done'[q] = ledger[Own(p)]
          BY <1>4, <3>1 DEF Goto, TypeInv, TypeOK, RunOK
        <4>2. ~stale[Own(p)] => \A phase \in ledger[Own(p)] : Owed(Own(p), phase) \subseteq have[Own(p)]
          BY <1>4 DEF SoundInv, Promised, Own
        <4> QED  BY <1>1, <3>1, <4>1, <4>2 DEF RunSound, StageHas, Own
      <3>2. CASE q # p
        <4>1. pc'[q] = pc[q] /\ done'[q] = done[q] /\ RunSound(q)
          BY <1>4, <3>2 DEF Goto, TypeInv, TypeOK, RunOK, SoundInv
        <4> QED  BY <1>1, <4>1 DEF RunSound, StageHas, Own
      <3> QED  BY <3>1, <3>2
    <2> QED  BY <1>2, <2>1 DEF SoundInv
  <1> QED  BY <1>3, <1>4 DEF Start, Readable

\* A reset happens only between the runs of its cluster, whose phases_done are
\* empty; the ghost `stale` then excuses the ledger.
LEMMA ResetSound ==
    ASSUME TypeInv, SoundInv, NEW c \in Cluster,
           Rebuild(c) \/ AddWorker(c) \/ WipeState(c)
    PROVE  SoundInv'
  <1>1. Quiet(c) /\ UNCHANGED <<pc, done>>
    BY DEF Rebuild, AddWorker, WipeState, run
  <1>2. \A d \in Cluster \ {c} : ledger'[d] = ledger[d] /\ have'[d] = have[d] /\ stale'[d] = stale[d]
    BY DEF Rebuild, AddWorker, WipeState, files, world, TypeInv, TypeOK, FilesOK, WorldOK, HistoryOK
  <1>3. stale'[c] \/ ledger'[c] = {}
    BY DEF Rebuild, AddWorker, WipeState, files, TypeInv, TypeOK, FilesOK, HistoryOK
  <1>4. Promised'
    <2> SUFFICES ASSUME NEW d \in Cluster, ~stale'[d], ledger'[d] \notin Unreadable,
                        NEW phase \in ledger'[d]
                 PROVE  Owed(d, phase) \subseteq have'[d]
      BY DEF Promised, Readable
    <2>1. d # c
      BY <1>3
    <2> QED  BY <1>2, <2>1 DEF SoundInv, Promised, Readable
  <1>5. ASSUME NEW q \in Proc PROVE RunSound(q)'
    <2>1. RunSound(q)
      BY DEF SoundInv
    <2>2. CASE Own(q) = c
      <3>1. pc[q] = "idle" /\ done[q] = {}
        BY <1>1, <2>1, <2>2 DEF Quiet, RunSound
      <3> QED  BY <1>1, <3>1 DEF RunSound, StageHas
    <2>3. CASE Own(q) # c
      <3>1. have'[Own(q)] = have[Own(q)] /\ stale'[Own(q)] = stale[Own(q)]
        BY <1>2, <2>3 DEF Own
      <3> QED  BY <1>1, <2>1, <3>1 DEF RunSound, StageHas, Own
    <2> QED  BY <2>2, <2>3
  <1> QED  BY <1>4, <1>5 DEF SoundInv

\* What happens around the runs keeps the invariant.
LEMMA EnvironmentSound == ASSUME TypeInv, SoundInv, Environment PROVE SoundInv'
  <1>1. CASE TunnelDies
    BY <1>1 DEF TunnelDies, files, world, run, history, SoundInv, Promised, Readable, RunSound, StageHas, Own
  <1>2. ASSUME NEW p \in Proc, Crash(p) PROVE SoundInv'
    <2>1. Quietly(p)
      BY <1>2 DEF Crash, Exit, Quietly, world, TypeInv, TypeOK, RunOK
    <2>2. Promised'
      BY <1>2 DEF Crash, files, world, SoundInv, Promised, Readable
    <2> QED  BY <2>1, <2>2, QuietlySound DEF SoundInv
  <1>3. ASSUME NEW c \in Cluster, NamespaceGone(c) \/ ManifestLands(c) \/ CaptureBaseline(c)
        PROVE  SoundInv'
    BY <1>3 DEF NamespaceGone, ManifestLands, CaptureBaseline, files, world, run, history, SoundInv, Promised, Readable, RunSound, StageHas, Own
  <1>4. ASSUME NEW c \in Cluster, Rebuild(c) \/ AddWorker(c) \/ WipeState(c)
        PROVE  SoundInv'
    BY <1>4, ResetSound
  <1> QED  BY <1>1, <1>2, <1>3, <1>4 DEF Environment

\* SoundInv is inductive, given the types.
LEMMA StepSound == ASSUME TypeInv, SoundInv, [Next]_vars PROVE SoundInv'
  <1>1. ASSUME NEW p \in Proc, Step(p) PROVE SoundInv'
    BY <1>1, DispatchSound, PhaseSound DEF Step
  <1>2. ASSUME NEW p \in Proc, NEW r \in Request, Start(p, r) PROVE SoundInv'
    BY <1>2, StartSound
  <1>3. CASE Environment
    BY <1>3, EnvironmentSound
  <1>4. CASE UNCHANGED vars
    BY <1>4 DEF vars, files, world, run, history, SoundInv, Promised, Readable, RunSound, StageHas, Own
  <1> QED  BY <1>1, <1>2, <1>3, <1>4 DEF Next

\* It holds initially.
LEMMA InitSound == Init => SoundInv
  BY DEF Init, SoundInv, Promised, RunSound, StageHas, Own

\* So it is an invariant.
LEMMA SoundInvariant == Spec => [](TypeInv /\ SoundInv)
  <1>1. Init => TypeInv /\ SoundInv
    BY InitType, InitSound
  <1>2. TypeInv /\ SoundInv /\ [Next]_vars => (TypeInv /\ SoundInv)'
    BY StepType, StepSound
  <1> QED  BY <1>1, <1>2, PTL DEF Spec

\* A phase recorded in bootstrap_state.json has its effect on the cluster, in every
\* interleaving of any number of runs, with any failures, kills and overlapping
\* writes of the file, as long as the VMs are those the ledger was written for.
THEOREM LedgerIsSound == Spec => []LedgerSound
  <1>1. SoundInv => LedgerSound
    BY DEF SoundInv, Promised, LedgerSound, Owed
  <1> QED  BY <1>1, SoundInvariant, PTL

\* The early return of _run_externalname without a manifest leaves no record: one
\* in the ledger of an apps cluster means the Services were applied to it.
THEOREM ExternalnameIsSound == Spec => []ExternalnameSound
  <1>1. SoundInv => ExternalnameSound
    BY OwedIs DEF SoundInv, Promised, ExternalnameSound
  <1> QED  BY <1>1, SoundInvariant, PTL

\* An operator with a single cluster, whose ~/.kube/config therefore names no other,
\* finds csi_smoke recorded only for a cluster with the CSI driver and a default
\* StorageClass, although helm records itself without either.
THEOREM CsiSmokeIsSound == ASSUME OneCluster PROVE Spec => []CsiSmokeSound
  <1>1. SoundInv => CsiSmokeSound
    BY OneCluster, OwedIs DEF SoundInv, Promised, CsiSmokeSound
  <1> QED  BY <1>1, SoundInvariant, PTL

-----------------------------------------------------------------------------
(* One run of a cluster at a time: the file is what the run holds, except    *)
(* while the run is saving it.                                              *)

Held(p) ==
    /\ pc[p] \notin {"idle", "save", "write"} => ledger[Own(p)] = done[p]
    /\ pc[p] = "save" =>
          \/ ledger[Own(p)] = done[p]
          \/ /\ ledger[Own(p)] \in SUBSET Phase
             /\ done[p] = ledger[Own(p)] \cup {Cur(p)}
             /\ Effect(Cur(p)) \subseteq have[Own(p)]
    /\ pc[p] = "write" => ledger[Own(p)] = Empty

\* A requested phase the run need not come back to.
Settled(p, i) ==
    \/ req[p][i] \in done[p]
    \/ req[p][i] = "externalname" /\ Own(p) \in Apps

\* The run has settled all phases before its position.
Progress(p) ==
    /\ \A i \in 1..Len(req[p]) : i < pos[p] => Settled(p, i)
    /\ pc[p] \in {"save", "write"} => Settled(p, pos[p])
    /\ pc[p] = "finally" /\ outcome[p] = "ok" => pos[p] > Len(req[p])

HeldInv == \A p \in Proc : Held(p) /\ Progress(p)

\* What a step leaves alone of the runs other than p and of their clusters.
OthersHeld(p) ==
    \A q \in Proc \ {p} :
        /\ pc'[q] = pc[q] /\ req'[q] = req[q] /\ pos'[q] = pos[q]
        /\ done'[q] = done[q] /\ outcome'[q] = outcome[q]
        /\ ledger'[Own(q)] = ledger[Own(q)] /\ have[Own(q)] \subseteq have'[Own(q)]

\* So a step answers for its own run.
LEMMA HeldOne ==
    ASSUME HeldInv, NEW p \in Proc, OthersHeld(p), Held(p)', Progress(p)'
    PROVE  HeldInv'
  <1>1. ASSUME NEW q \in Proc \ {p} PROVE Held(q)' /\ Progress(q)'
    <2>1. Held(q) /\ Progress(q)
      BY DEF HeldInv
    <2>2. /\ pc'[q] = pc[q] /\ req'[q] = req[q] /\ pos'[q] = pos[q]
          /\ done'[q] = done[q] /\ outcome'[q] = outcome[q]
          /\ ledger'[Own(q)] = ledger[Own(q)] /\ have[Own(q)] \subseteq have'[Own(q)]
      BY DEF OthersHeld
    <2>3. Held(q)'
      BY <2>1, <2>2 DEF Held, Cur, Own
    <2>4. Progress(q)'
      BY <2>1, <2>2 DEF Progress, Settled, Own
    <2> QED  BY <2>3, <2>4
  <1> QED  BY <1>1 DEF HeldInv

\* A phase changes what its run holds only by settling its position.
LEMMA PhaseHeld ==
    ASSUME TypeInv, SoundInv, HeldInv, NEW p \in Proc, PhaseStep(p) \/ FetchKubeconfig(p)
    PROVE  HeldInv' /\ pc'[p] \notin {"idle", "write"}
  <1>1. UNCHANGED <<ledger, stale, req, pos>> /\ HaveGrows
    BY PhaseFrame, PhaseGrows
  <1>2. SoundMove(p)
    BY PhaseMoves
  <1>3. ledger[Own(p)] = done[p] /\ done[p] \in SUBSET Phase
    <2>1. pc[p] \notin {"idle", "save", "write"}
      BY DEF PhaseStep, At, RunCloudinit, RunInstallServer, RunInstallAgents, RunK3s,
           RunGatewayCrds, RunHelmCilium, RunHelmSoft, RunHelmEnvoy,
           RunHelmDefaultSc, RunGatewaySmokeApply, RunGatewaySmokeVerdict, RunKubeconfig,
           RunCsiSmokeApply, RunCsiSmokeVerdict, RunHostPorts, RunExternalname,
           FetchKubeconfig
    <2> QED  BY <2>1 DEF HeldInv, Held, TypeInv, TypeOK, RunOK
  <1>4. Progress(p)
    BY DEF HeldInv
  <1>5. ASSUME NEW label, Goto(p, label),
               \A q \in Proc \ {p} : done'[q] = done[q] /\ outcome'[q] = outcome[q]
        PROVE  OthersHeld(p)
    BY <1>1, <1>5 DEF OthersHeld, Goto, HaveGrows, Own, TypeInv, TypeOK, RunOK
  <1>6. CASE MarkDone(p) /\ Owed(Own(p), Cur(p)) \subseteq have'[Own(p)]
    <2>1. pc'[p] = "save" /\ done'[p] = done[p] \cup {Cur(p)}
      BY <1>6 DEF MarkDone, Goto, TypeInv, TypeOK, RunOK
    <2>2. Goto(p, "save") /\ \A q \in Proc \ {p} : done'[q] = done[q] /\ outcome'[q] = outcome[q]
      BY <1>6 DEF MarkDone, TypeInv, TypeOK, RunOK
    <2>3. Effect(Cur(p)) \subseteq have'[Own(p)]
      BY <1>6 DEF Owed
    <2>4. Held(p)'
      BY <1>1, <1>3, <2>1, <2>3 DEF Held, Cur, Own
    <2>5. Progress(p)'
      BY <1>1, <1>4, <2>1 DEF Progress, Settled, Cur, Own
    <2> QED  BY <1>5, <2>1, <2>2, <2>4, <2>5, HeldOne
  <1>7. CASE Raise(p, AnyError) \/ Raise(p, Structured) \/ Raise(p, Traceback)
    <2>1. pc'[p] = "finally" /\ done'[p] = done[p] /\ outcome'[p] # "ok"
      BY <1>7 DEF Raise, Goto, AnyError, Structured, Traceback, TypeInv, TypeOK, RunOK
    <2>2. Goto(p, "finally") /\ \A q \in Proc \ {p} : done'[q] = done[q] /\ outcome'[q] = outcome[q]
      BY <1>7 DEF Raise, TypeInv, TypeOK, RunOK
    <2>3. Held(p)'
      BY <1>1, <1>3, <2>1 DEF Held, Own
    <2>4. Progress(p)'
      BY <1>1, <1>4, <2>1 DEF Progress, Settled, Own
    <2> QED  BY <1>5, <2>1, <2>2, <2>3, <2>4, HeldOne
  <1>8. ASSUME NEW label \in Inside, Proceed(p, label)
        PROVE  HeldInv' /\ pc'[p] \notin {"idle", "write"}
    <2>1. pc'[p] \in Inside /\ done' = done /\ outcome' = outcome /\ Goto(p, label)
      BY <1>8 DEF Proceed, Goto, TypeInv, TypeOK, RunOK
    <2>2. Held(p)'
      BY <1>1, <1>3, <2>1 DEF Held, Own, Inside
    <2>3. Progress(p)'
      BY <1>1, <1>4, <2>1 DEF Progress, Settled, Own, Inside
    <2> QED  BY <1>5, <2>1, <2>2, <2>3, HeldOne DEF Inside
  <1>9. CASE Cur(p) = "externalname" /\ Own(p) \in Apps /\ Proceed(p, "save")
    <2>1. pc'[p] = "save" /\ done' = done /\ outcome' = outcome /\ Goto(p, "save")
      BY <1>9 DEF Proceed, Goto, TypeInv, TypeOK, RunOK
    <2>2. Held(p)'
      BY <1>1, <1>3, <2>1 DEF Held, Own
    <2>3. Progress(p)'
      BY <1>1, <1>4, <1>9, <2>1 DEF Progress, Settled, Cur, Own
    <2> QED  BY <1>5, <2>1, <2>2, <2>3, HeldOne
  <1> QED  BY <1>2, <1>6, <1>7, <1>8, <1>9 DEF SoundMove

\* The dispatcher moves on only over a settled phase, and a save that nobody else
\* touches leaves the file with what the run holds.
LEMMA DispatchHeld ==
    ASSUME OneRunPerCluster, TypeInv, HeldInv, NEW p \in Proc,
           \/ LoadTopology(p) \/ SkipPhase(p) \/ EnterPhase(p) \/ FinishLoop(p)
           \/ SaveTruncate(p) \/ SaveWrite(p) \/ TearDown(p) \/ OpenTunnel(p)
           \/ Crash(p) \/ \E r \in Request : Start(p, r)
    PROVE  HeldInv'
  <1>0. Held(p) /\ Progress(p)
    BY DEF HeldInv
  <1> SUFFICES OthersHeld(p) /\ Held(p)' /\ Progress(p)'
    BY HeldOne
  <1> USE DEF TypeInv, TypeOK, RunOK, OthersHeld
  <1>1. CASE LoadTopology(p)
    <2>1. UNCHANGED <<ledger, have>> /\ pc[p] = "topology"
      BY <1>1 DEF LoadTopology, world
    <2>2. CASE Goto(p, "dispatch") /\ UNCHANGED <<req, pos, done, outcome>>
      <3>1. pc'[p] = "dispatch" /\ \A q \in Proc \ {p} : pc'[q] = pc[q]
        BY <2>2 DEF Goto
      <3> QED  BY <1>0, <2>1, <2>2, <3>1 DEF Held, Progress, Settled, Own
    <2>3. CASE Exit(p) /\ outcome' = [outcome EXCEPT ![p] = "structured"]
      <3>1. pc'[p] = "idle" /\ req'[p] = <<>>
        BY <2>3 DEF Exit
      <3>2. OthersHeld(p)
        BY <2>1, <2>3 DEF Exit
      <3> QED  BY <3>1, <3>2 DEF Held, Progress
    <2> QED  BY <1>1, <2>2, <2>3 DEF LoadTopology
  <1>2. CASE SkipPhase(p)
    <2>1. /\ UNCHANGED <<ledger, have, pc, req, done, outcome>> /\ pc[p] = "dispatch"
          /\ pos' = [pos EXCEPT ![p] = @ + 1] /\ Cur(p) \in done[p]
      BY <1>2 DEF SkipPhase, files, world
    <2>2. pos'[p] = pos[p] + 1 /\ pos[p] \in Nat /\ \A q \in Proc \ {p} : pos'[q] = pos[q]
      BY <2>1
    <2>3. Settled(p, pos[p])
      BY <2>1 DEF Settled, Cur
    <2>4. \A i \in 1..Len(req[p]) : i < pos'[p] => Settled(p, i)
      BY <1>0, <2>2, <2>3 DEF Progress
    <2>5. Held(p)'
      BY <1>0, <2>1 DEF Held, Own
    <2>6. Progress(p)'
      BY <2>1, <2>4 DEF Progress, Settled, Own
    <2> QED  BY <2>1, <2>2, <2>5, <2>6
  <1>3. CASE EnterPhase(p)
    <2>1. UNCHANGED <<ledger, have, req, pos, done, outcome>> /\ pc[p] = "dispatch"
      BY <1>3 DEF EnterPhase, files, world
    <2>2. pc'[p] \in {"body", "tunnel", "fetch"} /\ \A q \in Proc \ {p} : pc'[q] = pc[q]
      BY <1>3 DEF EnterPhase, Goto
    <2> QED  BY <1>0, <2>1, <2>2 DEF Held, Progress, Settled, Own
  <1>4. CASE FinishLoop(p)
    <2>1. UNCHANGED <<ledger, have, req, pos, done>> /\ pc[p] = "dispatch" /\ pos[p] > Len(req[p])
      BY <1>4 DEF FinishLoop, files, world
    <2>2. pc'[p] = "finally" /\ \A q \in Proc \ {p} : pc'[q] = pc[q] /\ outcome'[q] = outcome[q]
      BY <1>4 DEF FinishLoop, Goto
    <2> QED  BY <1>0, <2>1, <2>2 DEF Held, Progress, Settled, Own
  <1>5. CASE SaveTruncate(p)
    <2>1. UNCHANGED <<have, req, pos, done, outcome>> /\ pc[p] = "save"
      BY <1>5 DEF SaveTruncate, world
    <2>2. pc'[p] = "write" /\ \A q \in Proc \ {p} : pc'[q] = pc[q]
      BY <1>5 DEF SaveTruncate, Goto
    <2>3. ledger'[Own(p)] = Empty
      BY <1>5 DEF SaveTruncate, FilesOK, Own
    <2>4. \A q \in Proc \ {p} : ledger'[Own(q)] = ledger[Own(q)]
      BY <1>5 DEF SaveTruncate, FilesOK, Own, OneRunPerCluster
    <2> QED  BY <1>0, <2>1, <2>2, <2>3, <2>4 DEF Held, Progress, Settled, Own
  <1>6. CASE SaveWrite(p)
    <2>1. UNCHANGED <<have, req, done, outcome>> /\ pc[p] = "write"
      BY <1>6 DEF SaveWrite, world
    <2>2. pc'[p] = "dispatch" /\ \A q \in Proc \ {p} : pc'[q] = pc[q]
      BY <1>6 DEF SaveWrite, Goto
    <2>3. pos'[p] = pos[p] + 1 /\ pos[p] \in Nat /\ \A q \in Proc \ {p} : pos'[q] = pos[q]
      BY <1>6 DEF SaveWrite
    <2>4. ledger' = [ledger EXCEPT ![Own(p)] = done[p]]
      BY <1>0, <1>6, <2>1 DEF SaveWrite, Overwrite, Held
    <2>5. ledger'[Own(p)] = done[p] /\ \A q \in Proc \ {p} : ledger'[Own(q)] = ledger[Own(q)]
      BY <2>4 DEF FilesOK, Own, OneRunPerCluster
    <2>6. \A i \in 1..Len(req[p]) : i < pos'[p] => Settled(p, i)
      BY <1>0, <2>1, <2>3 DEF Progress
    <2>7. Held(p)'
      BY <2>1, <2>2, <2>5 DEF Held, Own
    <2>8. Progress(p)'
      BY <2>1, <2>2, <2>6 DEF Progress, Settled, Own
    <2> QED  BY <2>1, <2>2, <2>3, <2>5, <2>7, <2>8
  <1>7. CASE TearDown(p) \/ Crash(p)
    <2>1. UNCHANGED <<ledger, have>> /\ Exit(p)
          /\ (\A q \in Proc \ {p} : outcome'[q] = outcome[q])
      BY <1>7 DEF TearDown, Crash, files, world
    <2>2. pc'[p] = "idle" /\ req'[p] = <<>>
      BY <2>1 DEF Exit
    <2>3. OthersHeld(p)
      BY <2>1 DEF Exit
    <2> QED  BY <2>2, <2>3 DEF Held, Progress
  <1>8. CASE OpenTunnel(p)
    <2>1. UNCHANGED <<ledger, have, req, pos, done>> /\ pc[p] = "tunnel"
      BY <1>8 DEF OpenTunnel, Proceed, Raise, files, world
    <2>2. /\ \/ pc'[p] = "fetch"
             \/ pc'[p] = "finally" /\ outcome'[p] # "ok"
          /\ \A q \in Proc \ {p} : pc'[q] = pc[q] /\ outcome'[q] = outcome[q]
      BY <1>8 DEF OpenTunnel, Proceed, Raise, Structured, Goto
    <2> QED  BY <1>0, <2>1, <2>2 DEF Held, Progress, Settled, Own
  <1>9. ASSUME NEW r \in Request, Start(p, r) PROVE OthersHeld(p) /\ Held(p)' /\ Progress(p)'
    <2>1. UNCHANGED <<ledger, have>> /\ pc[p] = "idle"
      BY <1>9 DEF Start, files, world
    <2>2. \A q \in Proc \ {p} : outcome'[q] = outcome[q]
      BY <1>9 DEF Start
    <2>3. CASE UNCHANGED <<pc, req, pos, done>>
      BY <1>0, <2>1, <2>2, <2>3 DEF Held, Progress, Settled, Own
    <2>4. CASE /\ Goto(p, "topology") /\ req' = [req EXCEPT ![p] = r]
               /\ pos' = [pos EXCEPT ![p] = 1] /\ done' = [done EXCEPT ![p] = ledger[Own(p)]]
      <3>1. pc'[p] = "topology" /\ pos'[p] = 1 /\ done'[p] = ledger[Own(p)]
        BY <2>4 DEF Goto
      <3>2. OthersHeld(p)
        BY <2>1, <2>2, <2>4 DEF Goto
      <3> QED  BY <2>1, <3>1, <3>2 DEF Held, Progress, Own
    <2> QED  BY <1>9, <2>3, <2>4 DEF Start
  <1> QED  BY <1>1, <1>2, <1>3, <1>4, <1>5, <1>6, <1>7, <1>8, <1>9

\* What happens around the runs touches a cluster's ledger and things only between
\* its runs.
LEMMA EnvironmentHeld ==
    ASSUME TypeInv, HeldInv,
           \/ TunnelDies
           \/ \E c \in Cluster : \/ NamespaceGone(c) \/ ManifestLands(c)
                                 \/ CaptureBaseline(c) \/ Rebuild(c)
                                 \/ AddWorker(c) \/ WipeState(c)
    PROVE  HeldInv'
  <1>1. UNCHANGED <<pc, req, pos, done, outcome>>
    BY DEF TunnelDies, NamespaceGone, ManifestLands, CaptureBaseline, Rebuild, AddWorker, WipeState, run
  <1>2. ASSUME NEW q \in Proc PROVE Held(q)' /\ Progress(q)'
    <2>1. Held(q) /\ Progress(q)
      BY DEF HeldInv
    <2>2. CASE pc[q] = "idle"
      BY <1>1, <2>1, <2>2 DEF Held, Progress, Settled, Own
    <2>3. CASE pc[q] # "idle"
      <3>1. ledger'[Own(q)] = ledger[Own(q)] /\ have'[Own(q)] = have[Own(q)]
        <4>1. CASE \E c \in Cluster : Rebuild(c) \/ AddWorker(c) \/ WipeState(c)
          <5>1. PICK c \in Cluster : Rebuild(c) \/ AddWorker(c) \/ WipeState(c)
            BY <4>1
          <5>2. Own(q) # c
            BY <2>3, <5>1 DEF Rebuild, AddWorker, WipeState, Quiet
          <5> QED  BY <5>1, <5>2 DEF Rebuild, AddWorker, WipeState, files, world, TypeInv, TypeOK, FilesOK, WorldOK, Own
        <4>2. CASE TunnelDies
          BY <4>2 DEF TunnelDies, files, world
        <4>3. CASE \E c \in Cluster : NamespaceGone(c) \/ ManifestLands(c) \/ CaptureBaseline(c)
          BY <4>3 DEF NamespaceGone, ManifestLands, CaptureBaseline, files, world
        <4> QED  BY <4>1, <4>2, <4>3
      <3> QED  BY <1>1, <2>1, <3>1 DEF Held, Progress, Settled, Cur, Own
    <2> QED  BY <2>2, <2>3
  <1> QED  BY <1>2 DEF HeldInv

\* HeldInv is inductive, given SoundInv, when runs of a cluster do not overlap.
LEMMA StepHeld ==
    ASSUME OneRunPerCluster, TypeInv, SoundInv, HeldInv, [Next]_vars PROVE HeldInv'
  <1>1. ASSUME NEW p \in Proc, Step(p) \/ Crash(p) \/ \E r \in Request : Start(p, r)
        PROVE  HeldInv'
    BY <1>1, DispatchHeld, PhaseHeld DEF Step
  <1>2. CASE UNCHANGED vars
    BY <1>2 DEF vars, files, world, run, HeldInv, Held, Progress, Settled, Cur, Own
  <1> QED  BY <1>1, <1>2, EnvironmentHeld DEF Next, Environment

\* So it is an invariant of such runs.
LEMMA HeldInvariant == ASSUME OneRunPerCluster PROVE Spec => []HeldInv
  <1>1. Init => HeldInv
    BY DEF Init, HeldInv, Held, Progress
  <1>2. TypeInv /\ SoundInv /\ HeldInv /\ [Next]_vars => HeldInv'
    BY OneRunPerCluster, StepHeld
  <1> QED  BY <1>1, <1>2, SoundInvariant, PTL DEF Spec

\* A run that ends with exit code 0 has every phase it was asked for in
\* bootstrap_state.json, the externalname phase that waits for its manifest aside,
\* as long as no other run of the cluster writes the file meanwhile.
THEOREM OkRunsAreRecorded == ASSUME OneRunPerCluster PROVE Spec => []OkRunIsRecorded
  <1>1. TypeInv /\ HeldInv => OkRunIsRecorded
    <2> SUFFICES ASSUME TypeInv, HeldInv, NEW p \in Proc, pc[p] = "finally", outcome[p] = "ok"
                 PROVE  /\ Readable(Own(p))
                        /\ \A i \in 1..Len(req[p]) :
                              \/ req[p][i] \in ledger[Own(p)]
                              \/ req[p][i] = "externalname" /\ Own(p) \in Apps
      BY DEF OkRunIsRecorded
    <2>1. ledger[Own(p)] = done[p] /\ pos[p] > Len(req[p]) /\ done[p] \in SUBSET Phase
      BY DEF HeldInv, Held, Progress, TypeInv, TypeOK, RunOK
    <2>2. Readable(Own(p))
      BY <2>1, LedgerAssumption DEF Readable
    <2>3. ASSUME NEW i \in 1..Len(req[p]) PROVE Settled(p, i)
      <3>1. i < pos[p]
        BY <2>1 DEF TypeInv, TypeOK, RunOK
      <3> QED  BY <3>1 DEF HeldInv, Progress
    <2> QED  BY <2>1, <2>2, <2>3 DEF Settled
  <1> QED  BY <1>1, HeldInvariant, TypeInvariant, PTL

-----------------------------------------------------------------------------
(* Refinement: the ledger implements module Checkpoint, step by step.       *)

\* What the refinement mapping is at the cluster of run p, when it is the only one.
Mapped(p) ==
    /\ Running(Own(p)) <=> pc[p] # "idle"
    /\ pc[p] = "write" => Recorded(Own(p)) = done[p]
    /\ pc[p] # "write" => Recorded(Own(p)) = IF Readable(Own(p)) THEN ledger[Own(p)] ELSE {}
    /\ pc[p] \notin {"idle", "write"} => Readable(Own(p))

LEMMA MapIs ==
    ASSUME OneRunPerCluster PROVE TypeInv /\ HeldInv => \A p \in Proc : Mapped(p)
  <1> SUFFICES ASSUME TypeInv, HeldInv, NEW p \in Proc PROVE Mapped(p)
    OBVIOUS
  <1>1. Runs(Own(p)) = {p}
    BY DEF Runs, OneRunPerCluster
  <1>2. Running(Own(p)) <=> pc[p] # "idle"
    BY <1>1 DEF Running
  <1>3. ASSUME pc[p] = "write" PROVE Recorded(Own(p)) = done[p]
    <2>1. ~Readable(Own(p))
      BY <1>3 DEF HeldInv, Held, Readable, Unreadable
    <2>2. {r \in Runs(Own(p)) : pc[r] = "write"} = {p}
      BY <1>1, <1>3
    <2> QED  BY <2>1, <2>2 DEF Recorded
  <1>4. ASSUME pc[p] # "write"
        PROVE  Recorded(Own(p)) = IF Readable(Own(p)) THEN ledger[Own(p)] ELSE {}
    <2>1. {r \in Runs(Own(p)) : pc[r] = "write"} = {}
      BY <1>1, <1>4
    <2> QED  BY <2>1 DEF Recorded
  <1>5. ASSUME pc[p] \notin {"idle", "write"} PROVE Readable(Own(p))
    <2>1. ledger[Own(p)] \in SUBSET Phase
      BY <1>5 DEF HeldInv, Held, TypeInv, TypeOK, RunOK
    <2> QED  BY <2>1, LedgerAssumption DEF Readable
  <1> QED  BY <1>2, <1>3, <1>4, <1>5 DEF Mapped

LEMMA MapIsNext ==
    ASSUME OneRunPerCluster PROVE TypeInv' /\ HeldInv' => (\A p \in Proc : Mapped(p))'
  <1>1. TypeInv /\ HeldInv => \A p \in Proc : Mapped(p)
    BY OneRunPerCluster, MapIs
  <1> QED  BY <1>1, PTL

\* What has been achieved follows what is installed.
LEMMA AchievedIs ==
    ASSUME NEW c \in Cluster
    PROVE  /\ Achieved(c) \in SUBSET Phase /\ Achieved(c)' \in SUBSET Phase
           /\ have'[c] = have[c] => Achieved(c)' = Achieved(c)
           /\ have[c] \subseteq have'[c] => Achieved(c) \subseteq Achieved(c)'
  BY DEF Achieved

LEMMA RunningIs == \A c \in Cluster : Running(c) \in BOOLEAN /\ Running(c)' \in BOOLEAN
  BY DEF Running

\* A cluster whose runs, ledger and things are left alone stutters.
LEMMA JournalStutters ==
    ASSUME NEW c \in Cluster, have'[c] = have[c], ledger'[c] = ledger[c],
           \A q \in Runs(c) : pc'[q] = pc[q] /\ done'[q] = done[q]
    PROVE  UNCHANGED (Journal(c)!vars)
  <1>1. Running(c)' = Running(c)
    BY DEF Running, Runs
  <1>2. Recorded(c)' = Recorded(c)
    <2>1. {r \in Runs(c) : pc'[r] = "write"} = {r \in Runs(c) : pc[r] = "write"}
      OBVIOUS
    <2>2. {done'[q] : q \in {r \in Runs(c) : pc'[r] = "write"}}
             = {done[q] : q \in {r \in Runs(c) : pc[r] = "write"}}
      BY <2>1
    <2> QED  BY <2>2 DEF Recorded, Readable, Runs
  <1> QED  BY <1>1, <1>2, AchievedIs DEF Journal!vars

\* A step of a run touches no other run and no other cluster.
Apart(p) ==
    /\ \A q \in Proc \ {p} : pc'[q] = pc[q] /\ done'[q] = done[q]
    /\ \A c \in Cluster \ {Own(p)} : ledger'[c] = ledger[c] /\ have'[c] = have[c]

LEMMA PhaseApart ==
    ASSUME TypeInv, SoundInv, NEW p \in Proc, PhaseStep(p) \/ FetchKubeconfig(p)
    PROVE  Apart(p)
  <1>1. UNCHANGED <<ledger, stale, req, pos>> /\ SoundMove(p)
    BY PhaseFrame, PhaseMoves
  <1>2. \A q \in Proc \ {p} : pc'[q] = pc[q] /\ done'[q] = done[q]
    BY <1>1 DEF SoundMove, MarkDone, Raise, Proceed, Goto, TypeInv, TypeOK, RunOK
  <1>3. have' = have \/ \E things : Install(Own(p), things)
    BY DEF PhaseStep, FetchKubeconfig, RunCloudinit, RunInstallServer, RunInstallAgents, RunK3s,
           RunGatewayCrds, RunHelmCilium, RunHelmSoft, RunHelmEnvoy, RunHelmDefaultSc,
           RunGatewaySmokeApply, RunGatewaySmokeVerdict, RunKubeconfig, RunCsiSmokeApply,
           RunCsiSmokeVerdict, RunHostPorts, RunExternalname, InstallPart, world
  <1>4. \A c \in Cluster \ {Own(p)} : have'[c] = have[c]
    BY <1>3 DEF Install, TypeInv, TypeOK, WorldOK
  <1> QED  BY <1>1, <1>2, <1>4 DEF Apart

LEMMA DispatchApart ==
    ASSUME TypeInv, NEW p \in Proc,
           \/ LoadTopology(p) \/ SkipPhase(p) \/ EnterPhase(p) \/ FinishLoop(p)
           \/ SaveTruncate(p) \/ SaveWrite(p) \/ TearDown(p) \/ OpenTunnel(p)
           \/ Crash(p) \/ \E r \in Request : Start(p, r)
    PROVE  Apart(p)
  <1>1. UNCHANGED have
    BY DEF LoadTopology, SkipPhase, EnterPhase, FinishLoop, SaveTruncate, SaveWrite, TearDown,
           OpenTunnel, Crash, Start, world
  <1>2. \A c \in Cluster \ {Own(p)} : ledger'[c] = ledger[c]
    BY DEF LoadTopology, SkipPhase, EnterPhase, FinishLoop, SaveTruncate, SaveWrite, TearDown,
           OpenTunnel, Crash, Start, files, TypeInv, TypeOK, FilesOK
  <1>3. \A q \in Proc \ {p} : pc'[q] = pc[q] /\ done'[q] = done[q]
    BY DEF LoadTopology, SkipPhase, EnterPhase, FinishLoop, SaveTruncate, SaveWrite, TearDown,
           OpenTunnel, Crash, Start, Exit, Proceed, Raise, Goto, TypeInv, TypeOK, RunOK
  <1> QED  BY <1>1, <1>2, <1>3 DEF Apart

\* At the run's own cluster, a phase achieves, ...
LEMMA PhaseJournal ==
    ASSUME TypeInv, SoundInv, HeldInv, NEW p \in Proc, PhaseStep(p) \/ FetchKubeconfig(p),
           Mapped(p), Mapped(p)'
    PROVE  Journal(Own(p))!Next
  <1>1. UNCHANGED <<ledger, stale, req, pos>> /\ HaveGrows
    BY PhaseFrame, PhaseGrows
  <1>2. pc[p] \notin {"idle", "write"}
    BY DEF PhaseStep, At, RunCloudinit, RunInstallServer, RunInstallAgents, RunK3s,
           RunGatewayCrds, RunHelmCilium, RunHelmSoft, RunHelmEnvoy,
           RunHelmDefaultSc, RunGatewaySmokeApply, RunGatewaySmokeVerdict, RunKubeconfig,
           RunCsiSmokeApply, RunCsiSmokeVerdict, RunHostPorts, RunExternalname,
           FetchKubeconfig
  <1>3. pc'[p] \notin {"idle", "write"}
    BY PhaseHeld
  <1>4. Running(Own(p)) /\ Running(Own(p))'
    BY <1>2, <1>3 DEF Mapped, Own
  <1>5. Recorded(Own(p))' = Recorded(Own(p))
    BY <1>1, <1>2, <1>3 DEF Mapped, Own, Readable
  <1>6. Achieved(Own(p))' \in SUBSET Phase /\ Achieved(Own(p)) \subseteq Achieved(Own(p))'
    BY <1>1, AchievedIs DEF HaveGrows, Own
  <1> QED  BY <1>4, <1>5, <1>6 DEF Journal!Next, Journal!Achieve

\* ... and the dispatcher begins, records one achieved phase, ends or is killed.
LEMMA DispatchJournal ==
    ASSUME TypeInv, HeldInv, NEW p \in Proc, Mapped(p), Mapped(p)',
           \/ LoadTopology(p) \/ SkipPhase(p) \/ EnterPhase(p) \/ FinishLoop(p)
           \/ SaveTruncate(p) \/ SaveWrite(p) \/ TearDown(p) \/ OpenTunnel(p)
           \/ Crash(p) \/ \E r \in Request : Start(p, r)
    PROVE  [Journal(Own(p))!Next]_(Journal(Own(p))!vars)
  <1> DEFINE c == Own(p)
  <1>0. c \in Cluster /\ Held(p)
    BY DEF Own, HeldInv
  <1>1. UNCHANGED have
    BY DEF LoadTopology, SkipPhase, EnterPhase, FinishLoop, SaveTruncate, SaveWrite, TearDown,
           OpenTunnel, Crash, Start, world
  <1>2. Achieved(c)' = Achieved(c) /\ Achieved(c) \in SUBSET Phase
    BY <1>0, <1>1, AchievedIs
  <1>3. ASSUME Running(c)' = Running(c), Recorded(c)' = Recorded(c)
        PROVE  [Journal(c)!Next]_(Journal(c)!vars)
    BY <1>2, <1>3 DEF Journal!vars
  <1>4. ASSUME pc[p] \notin {"idle", "write"}, pc'[p] = "idle", UNCHANGED ledger
        PROVE  [Journal(c)!Next]_(Journal(c)!vars)
    <2>1. Running(c) /\ ~Running(c)'
      BY <1>4 DEF Mapped, Own
    <2>2. Recorded(c)' = Recorded(c)
      BY <1>4 DEF Mapped, Own, Readable
    <2> QED  BY <1>2, <2>1, <2>2 DEF Journal!Next, Journal!End
  <1>5. ASSUME pc[p] \notin {"idle", "write"}, pc'[p] \notin {"idle", "write"}, UNCHANGED ledger
        PROVE  [Journal(c)!Next]_(Journal(c)!vars)
    <2>1. Running(c)' = Running(c)
      BY <1>0, <1>5, RunningIs DEF Mapped
    <2>2. Recorded(c)' = Recorded(c)
      BY <1>5 DEF Mapped, Own, Readable
    <2> QED  BY <1>3, <2>1, <2>2
  <1>6. CASE LoadTopology(p)
    <2>1. pc[p] = "topology" /\ pc'[p] \in {"dispatch", "idle"} /\ UNCHANGED ledger
      BY <1>6 DEF LoadTopology, Exit, Goto, TypeInv, TypeOK, RunOK
    <2> QED  BY <1>4, <1>5, <2>1
  <1>7. CASE SkipPhase(p) \/ EnterPhase(p) \/ FinishLoop(p) \/ OpenTunnel(p)
    <2>1. pc[p] \in {"dispatch", "tunnel"} /\ pc'[p] \notin {"idle", "write"} /\ UNCHANGED ledger
      BY <1>7 DEF SkipPhase, EnterPhase, FinishLoop, OpenTunnel, Proceed, Raise, Goto, files,
                  TypeInv, TypeOK, RunOK
    <2> QED  BY <1>5, <2>1
  <1>8. CASE TearDown(p)
    <2>1. pc[p] = "finally" /\ pc'[p] = "idle" /\ UNCHANGED ledger
      BY <1>8 DEF TearDown, Exit, files, TypeInv, TypeOK, RunOK
    <2> QED  BY <1>4, <2>1
  <1>9. CASE SaveTruncate(p)
    <2>1. pc[p] = "save" /\ pc'[p] = "write" /\ done' = done
      BY <1>9 DEF SaveTruncate, Goto, TypeInv, TypeOK, RunOK
    <2>2. Running(c) /\ Running(c)' /\ Recorded(c) = ledger[c] /\ Recorded(c)' = done[p]
      BY <2>1 DEF Mapped, Own
    <2>3. CASE ledger[c] = done[p]
      BY <1>3, <2>2, <2>3
    <2>4. CASE done[p] = ledger[c] \cup {Cur(p)} /\ Effect(Cur(p)) \subseteq have[c]
      <3>1. Cur(p) \in Phase
        BY <2>1, CurType DEF Outside
      <3>2. Cur(p) \in Achieved(c)
        BY <2>4, <3>1 DEF Achieved
      <3>3. Journal(c)!Record(Cur(p))
        BY <1>2, <2>2, <2>4, <3>2 DEF Journal!Record
      <3> QED  BY <3>1, <3>3 DEF Journal!Next
    <2> QED  BY <1>0, <2>1, <2>3, <2>4 DEF Held
  <1>10. CASE SaveWrite(p)
    <2>1. pc[p] = "write" /\ pc'[p] = "dispatch"
      BY <1>10 DEF SaveWrite, Goto, TypeInv, TypeOK, RunOK
    <2>2. ledger'[c] = done[p]
      BY <1>0, <1>10, <2>1 DEF SaveWrite, Overwrite, Held, TypeInv, TypeOK, FilesOK
    <2>3. Running(c)' = Running(c) /\ Recorded(c)' = Recorded(c)
      BY <2>1, <2>2 DEF Mapped, Own
    <2> QED  BY <1>3, <2>3
  <1>11. CASE Crash(p)
    <2>1. pc[p] # "idle" /\ pc'[p] = "idle" /\ UNCHANGED ledger
      BY <1>11 DEF Crash, Exit, files, TypeInv, TypeOK, RunOK
    <2>2. CASE pc[p] = "write"
      <3>1. ~Readable(c) /\ ~Readable(c)'
        BY <1>0, <2>1, <2>2 DEF Held, Readable, Unreadable
      <3>2. Running(c) /\ ~Running(c)' /\ Recorded(c)' = {}
        BY <2>1, <3>1 DEF Mapped, Own
      <3> QED  BY <1>2, <3>2 DEF Journal!Next, Journal!Kill
    <2> QED  BY <1>4, <2>1, <2>2
  <1>12. ASSUME NEW r \in Request, Start(p, r) PROVE [Journal(c)!Next]_(Journal(c)!vars)
    <2>1. pc[p] = "idle" /\ UNCHANGED ledger /\ pc'[p] \in {"idle", "topology"}
      BY <1>12 DEF Start, Goto, files, TypeInv, TypeOK, RunOK
    <2>2. Recorded(c)' = Recorded(c)
      BY <2>1 DEF Mapped, Own, Readable
    <2>3. CASE pc'[p] = "idle"
      <3>1. Running(c)' = Running(c)
        BY <1>0, <2>1, <2>3, RunningIs DEF Mapped
      <3> QED  BY <1>3, <2>2, <3>1
    <2>4. CASE pc'[p] = "topology"
      <3>1. ~Running(c) /\ Running(c)'
        BY <2>1, <2>4 DEF Mapped, Own
      <3> QED  BY <1>2, <2>2, <3>1 DEF Journal!Next, Journal!Begin
    <2> QED  BY <2>1, <2>3, <2>4
  <1> QED  BY <1>6, <1>7, <1>8, <1>9, <1>10, <1>11, <1>12

\* A reset of cluster c, between its runs, replaces its VMs or wipes its ledger.
LEMMA ResetJournal ==
    ASSUME TypeInv, NEW c \in Cluster, Rebuild(c) \/ AddWorker(c) \/ WipeState(c)
    PROVE  Journal(c)!Next
  <1>1. Quiet(c) /\ UNCHANGED <<pc, done>>
    BY DEF Rebuild, AddWorker, WipeState, run
  <1>2. ~Running(c) /\ ~Running(c)'
    BY <1>1 DEF Running, Runs, Quiet
  <1>3. \A q \in Runs(c) : pc[q] # "write" /\ pc'[q] # "write"
    BY <1>1 DEF Runs, Quiet
  <1>4. /\ Recorded(c) = IF Readable(c) THEN ledger[c] ELSE {}
        /\ Recorded(c)' = IF ledger'[c] \notin Unreadable THEN ledger'[c] ELSE {}
    <2>1. {r \in Runs(c) : pc[r] = "write"} = {} /\ {r \in Runs(c) : pc'[r] = "write"} = {}
      BY <1>3
    <2>2. UNION {done[q] : q \in {r \in Runs(c) : pc[r] = "write"}} = {}
      BY <2>1
    <2>3. UNION {done'[q] : q \in {r \in Runs(c) : pc'[r] = "write"}} = {}
      BY <2>1
    <2>4. Recorded(c) = IF Readable(c) THEN ledger[c] ELSE {}
      BY <2>2 DEF Recorded
    <2>5. Recorded(c)' = IF ledger'[c] \notin Unreadable THEN ledger'[c] ELSE {}
      BY <2>3 DEF Recorded, Readable, Runs
    <2> QED  BY <2>4, <2>5
  <1>5. CASE Rebuild(c) \/ AddWorker(c)
    <2>1. UNCHANGED ledger
      BY <1>5 DEF Rebuild, AddWorker, files
    <2>2. Recorded(c)' = Recorded(c)
      BY <1>4, <2>1 DEF Readable
    <2> QED  BY <1>2, <2>2, AchievedIs, RunningIs DEF Journal!Next, Journal!Replace
  <1>6. CASE WipeState(c)
    <2>1. ledger'[c] = {} /\ UNCHANGED have
      BY <1>6 DEF WipeState, world, TypeInv, TypeOK, FilesOK
    <2>2. Recorded(c)' = {}
      BY <1>4, <2>1
    <2> QED  BY <1>2, <2>1, <2>2, AchievedIs, RunningIs DEF Journal!Next, Journal!Wipe
  <1> QED  BY <1>5, <1>6

\* Every step maps to a step of the checkpoint, or to none, at every cluster.
LEMMA JournalStep ==
    ASSUME OneRunPerCluster, TypeInv, SoundInv, HeldInv, TypeInv', HeldInv', [Next]_vars,
           NEW c \in Cluster
    PROVE  [Journal(c)!Next]_(Journal(c)!vars)
  <1>1. ASSUME NEW p \in Proc, Step(p) \/ Crash(p) \/ \E r \in Request : Start(p, r)
        PROVE  [Journal(c)!Next]_(Journal(c)!vars)
    <2>1. Apart(p)
      BY <1>1, PhaseApart, DispatchApart DEF Step
    <2>2. CASE c = Own(p)
      <3>1. Mapped(p) /\ Mapped(p)'
        BY MapIs, MapIsNext
      <3>2. [Journal(Own(p))!Next]_(Journal(Own(p))!vars)
        BY <1>1, <3>1, PhaseJournal, DispatchJournal DEF Step
      <3> QED  BY <2>2, <3>2
    <2>3. CASE c # Own(p)
      BY <2>1, <2>3, JournalStutters DEF Apart, Runs
    <2> QED  BY <2>2, <2>3
  <1>2. ASSUME NEW d \in Cluster, Rebuild(d) \/ AddWorker(d) \/ WipeState(d)
        PROVE  [Journal(c)!Next]_(Journal(c)!vars)
    <2>1. CASE c = d
      BY <1>2, <2>1, ResetJournal
    <2>2. CASE c # d
      <3>1. ledger'[c] = ledger[c] /\ have'[c] = have[c] /\ UNCHANGED <<pc, done>>
        BY <1>2, <2>2 DEF Rebuild, AddWorker, WipeState, files, world, run, TypeInv, TypeOK, FilesOK, WorldOK
      <3> QED  BY <3>1, JournalStutters
    <2> QED  BY <2>1, <2>2
  <1>3. CASE \/ TunnelDies \/ UNCHANGED vars
             \/ \E d \in Cluster : NamespaceGone(d) \/ ManifestLands(d) \/ CaptureBaseline(d)
    <2>1. UNCHANGED <<ledger, have, pc, done>>
      BY <1>3 DEF TunnelDies, NamespaceGone, ManifestLands, CaptureBaseline, vars, files, world, run
    <2> QED  BY <2>1, JournalStutters
  <1> QED  BY <1>1, <1>2, <1>3 DEF Next, Environment

\* bootstrap_state.json is the checkpoint it is meant to be: seen from module
\* Checkpoint, a run in progress only ever adds one phase at a time to it, each with
\* its effect on the cluster, forgets nothing unless it is killed while saving, and
\* never undoes what has been achieved.
THEOREM LedgerIsCheckpoint == ASSUME OneRunPerCluster PROVE Spec => ImplementsCheckpoint
  <1>1. Init => \A c \in Cluster : Journal(c)!Init
    <2> SUFFICES ASSUME Init, NEW c \in Cluster PROVE Journal(c)!Init
      OBVIOUS
    <2>1. ~Running(c)
      BY DEF Init, Running, Runs
    <2>2. ledger[c] = {} /\ Readable(c)
      BY LedgerAssumption DEF Init, Readable
    <2>3. Recorded(c) = {}
      BY <2>2 DEF Recorded
    <2> QED  BY <2>1, <2>3, AchievedIs DEF Journal!Init
  <1>2. TypeInv /\ SoundInv /\ HeldInv /\ TypeInv' /\ HeldInv' /\ [Next]_vars
           => \A c \in Cluster : [Journal(c)!Next]_(Journal(c)!vars)
    BY OneRunPerCluster, JournalStep
  <1> QED  BY <1>1, <1>2, SoundInvariant, HeldInvariant, PTL DEF Spec, ImplementsCheckpoint
=============================================================================
