----------------------------- MODULE Bootstrap -----------------------------
(***************************************************************************)
(* tools/bootstrap_cluster.py: the checkpointed pipeline that turns freshly *)
(* cloned VMs into a k3s cluster.  A run loads bootstrap_state.json (the    *)
(* ledger), walks the requested phases, skips those already recorded and    *)
(* saves the ledger after every phase.  Several runs may be in progress at  *)
(* once, of the same cluster or of different ones: nothing locks them out.  *)
(*                                                                         *)
(* The cluster itself is the set have[c] of what has been installed on it.  *)
(* kubectl and helm reach it only through an ssh tunnel whose local port is *)
(* written into a kubeconfig file.                                         *)
(***************************************************************************)
EXTENDS Naturals, Sequences, FiniteSets

CONSTANTS
    Cluster,      \* clusters declared under infra/clusters/
    Apps,         \* those whose cluster_name is "apps"
    Proc,         \* invocations of bootstrap_cluster.py that may overlap
    ClusterOf,    \* the --cluster argument of each invocation
    Port,         \* local ports a tunnel may listen on
    Addr,         \* addresses SDN DHCP may lease to the control plane
    Request,      \* --phases arguments the operator may give
    Empty,        \* a ledger file truncated and not yet written
    Garbled,      \* a ledger file two overlapping writes left unparsable
    Missing,      \* no output.json
    Blank,        \* output.json with an empty control-plane ip
    NoPort,       \* no kubeconfig file, or no tunnel opened by this run
    NoConfig,     \* ~/.kube/config missing or empty
    NoContext,    \* ~/.kube/config with no entry of a cluster of ours
    Killed,       \* owner of a tunnel whose run was killed
    GaveUp,       \* owner of a tunnel whose run stopped waiting for it
    MaxFaults,    \* bound: calls that fail for reasons outside the model
    MaxCrashes,   \* bound: runs killed before their `finally`
    MaxResets     \* bound: VM resets and rm -f of the ledger, together

Phase == {"cloudinit", "install_k3s", "k3s", "gateway_crds", "helm",
          "gateway_smoke", "kubeconfig", "csi_smoke", "host_ports",
          "externalname"}

PHASES == <<"cloudinit", "install_k3s", "k3s", "gateway_crds", "helm",
            "gateway_smoke", "kubeconfig", "csi_smoke", "host_ports",
            "externalname">>

\* Phases whose body begins with _open_apiserver_tunnel.
TunnelPhase == {"k3s", "gateway_crds", "helm", "gateway_smoke", "kubeconfig"}

\* The auxiliary charts of remaining_releases: none is in hard_required.
SoftRelease == {"ccm", "csi", "cloudflared", "cert-manager"}

\* What a cluster may have: k3s servers and agents, CRDs, helm releases, the
\* default StorageClass annotation, the cross-cluster ExternalName Services.
Thing == {"k3s", "agents", "gateway-crds", "cilium", "envoy-gateway",
          "default-sc", "cross-svcs"} \cup SoftRelease

Unreadable == {Empty, Garbled}

ASSUME ClusterAssumption == Apps \subseteq Cluster
ASSUME ProcAssumption ==
    ClusterOf \in [Proc -> Cluster] /\ {Killed, GaveUp} \cap Proc = {} /\ Killed # GaveUp
ASSUME RequestAssumption == Request \subseteq Seq(Phase \cup {"unknown"})
ASSUME LedgerAssumption ==
    Empty # Garbled /\ \A S \in SUBSET Phase : S \notin Unreadable
ASSUME NullAssumption ==
    /\ {Missing, Blank} \cap Addr = {} /\ Missing # Blank
    /\ NoPort \notin Port
    /\ {NoConfig, NoContext} \cap [port : Port, of : Cluster] = {}
    /\ NoConfig # NoContext
ASSUME BoundAssumption ==
    MaxFaults \in Nat /\ MaxCrashes \in Nat /\ MaxResets \in Nat

VARIABLES
    \* files
    ledger,     \* infra/clusters/<c>/bootstrap_state.json
    topo,       \* control-plane ip in infra/clusters/<c>/output.json
    clusterKc,  \* port in infra/clusters/<c>/kubeconfig
    homeKc,     \* port and cluster of the only entry of ours in ~/.kube/config
    manifest,   \* infra/clusters/<c>/manifests/cicd-system exists
    baseline,   \* infra/clusters/<c>/host_ports_baseline.txt exists
    \* the clusters and the ssh processes
    have,       \* what is installed on each cluster
    smokeNs,    \* the smoke-test namespace
    vmAddr,     \* the control plane's live address
    tunnels,    \* ssh -L processes: local port, cluster, owning run
    \* one run per Proc
    pc, req, pos,
    done,       \* State.phases_done
    cpIp,       \* control-plane ip of the ClusterTopology in memory
    fwd,        \* State.forward.local_port
    outcome,    \* how the last run of this Proc ended
    \* history and budgets
    stale,      \* ghost: the ledger has survived a change of its VMs
    faults, crashes, resets

files == <<ledger, topo, clusterKc, homeKc, manifest, baseline>>
world == <<have, smokeNs, vmAddr>>
run == <<pc, req, pos, done, cpIp, fwd, outcome>>
history == <<stale, crashes, resets>>
vars == <<files, world, tunnels, run, history, faults>>

Label == {"idle", "topology", "dispatch", "tunnel", "fetch", "body", "agents",
          "helm_soft", "helm_envoy", "helm_sc", "smoke_verdict",
          "csi_verdict", "save", "write", "finally"}

FilesOK ==
    /\ ledger \in [Cluster -> Unreadable \cup SUBSET Phase]
    /\ topo \in [Cluster -> Addr \cup {Missing, Blank}]
    /\ clusterKc \in [Cluster -> Port \cup {NoPort}]
    /\ homeKc \in {NoConfig, NoContext} \cup [port : Port, of : Cluster]
    /\ manifest \in [Cluster -> BOOLEAN]
    /\ baseline \in [Cluster -> BOOLEAN]

WorldOK ==
    /\ have \in [Cluster -> SUBSET Thing]
    /\ smokeNs \in [Cluster -> {"absent", "active", "terminating"}]
    /\ vmAddr \in [Cluster -> Addr]
    /\ tunnels \subseteq [port : Port, to : Cluster, by : Proc \cup {Killed, GaveUp}]

RunOK ==
    /\ pc \in [Proc -> Label]
    /\ req \in [Proc -> Seq(Phase)]
    /\ pos \in [Proc -> Nat \ {0}]
    /\ done \in [Proc -> SUBSET Phase]
    /\ cpIp \in [Proc -> Addr \cup {Blank}]
    /\ fwd \in [Proc -> Port \cup {NoPort}]
    /\ outcome \in [Proc -> {"none", "ok", "structured", "traceback", "crashed"}]

HistoryOK ==
    /\ stale \in [Cluster -> BOOLEAN]
    /\ faults \in 0..MaxFaults
    /\ crashes \in 0..MaxCrashes
    /\ resets \in 0..MaxResets

TypeOK == FilesOK /\ WorldOK /\ RunOK /\ HistoryOK

Init ==
    /\ ledger = [c \in Cluster |-> {}]
    /\ topo = [c \in Cluster |-> Missing]
    /\ clusterKc = [c \in Cluster |-> NoPort]
    /\ homeKc \in {NoConfig, NoContext}
    /\ manifest = [c \in Cluster |-> FALSE]
    /\ baseline \in [Cluster -> BOOLEAN]
    /\ have = [c \in Cluster |-> {}]
    /\ smokeNs = [c \in Cluster |-> "absent"]
    /\ vmAddr \in [Cluster -> Addr]
    /\ tunnels = {}
    /\ pc = [p \in Proc |-> "idle"]
    /\ req = [p \in Proc |-> <<>>]
    /\ pos = [p \in Proc |-> 1]
    /\ done = [p \in Proc |-> {}]
    /\ cpIp = [p \in Proc |-> Blank]
    /\ fwd = [p \in Proc |-> NoPort]
    /\ outcome = [p \in Proc |-> "none"]
    /\ stale = [c \in Cluster |-> FALSE]
    /\ faults = 0
    /\ crashes = 0
    /\ resets = 0

-----------------------------------------------------------------------------
(* Helpers.                                                                *)

Own(p) == ClusterOf[p]

Cur(p) == req[p][pos[p]]

\* A kubeconfig naming port q and cluster c's credentials works: some tunnel
\* listens on q, ends at c, and c runs an apiserver.
Serves(q, c) ==
    /\ \E t \in tunnels : t.port = q /\ t.to = c
    /\ "k3s" \in have[c]

\* kubectl --kubeconfig infra/clusters/<c>/kubeconfig reaches the cluster.
Apiserver(p) == Serves(clusterKc[Own(p)], Own(p))

\* plain kubectl (~/.kube/config) reaches the cluster it names.
HomeServes ==
    homeKc \notin {NoConfig, NoContext} /\ Serves(homeKc.port, homeKc.of)

\* The address this run loaded is the one the control plane answers at.
AddressRight(p) == cpIp[p] = vmAddr[Own(p)]

\* An outside call: it fails when what it needs is absent, and may fail by
\* bad luck while the budget lasts.
CallFails(possible) ==
    \/ ~possible /\ UNCHANGED faults
    \/ possible /\ faults < MaxFaults /\ faults' = faults + 1

CallSucceeds(possible) == possible /\ UNCHANGED faults

Goto(p, label) == pc' = [pc EXCEPT ![p] = label]

At(p, label, phase) == pc[p] = label /\ Cur(p) = phase

\* The phase is added to phases_done and the dispatcher saves the ledger.
MarkDone(p) ==
    /\ done' = [done EXCEPT ![p] = @ \cup {Cur(p)}]
    /\ Goto(p, "save")
    /\ UNCHANGED outcome

Proceed(p, label) == Goto(p, label) /\ UNCHANGED <<done, outcome>>

\* An exception leaves the phase loop: BootstrapError, or any other class.
Raise(p, kinds) ==
    /\ \E k \in kinds : outcome' = [outcome EXCEPT ![p] = k]
    /\ Goto(p, "finally")
    /\ UNCHANGED done

Structured == {"structured"}
Traceback == {"traceback"}
AnyError == Structured \cup Traceback

Install(c, things) == have' = [have EXCEPT ![c] = @ \cup things]

\* A call that reports failure may have taken effect on the far side.
InstallPart(c, things, possible) ==
    \E part \in SUBSET things : Install(c, IF possible THEN part ELSE {})

\* Back to the state of an invocation that has exited.
Exit(p) ==
    /\ pc' = [pc EXCEPT ![p] = "idle"]
    /\ req' = [req EXCEPT ![p] = <<>>]
    /\ pos' = [pos EXCEPT ![p] = 1]
    /\ done' = [done EXCEPT ![p] = {}]
    /\ cpIp' = [cpIp EXCEPT ![p] = Blank]
    /\ fwd' = [fwd EXCEPT ![p] = NoPort]

\* Variables the body of a phase leaves alone, whatever the phase.
BodyFrame == UNCHANGED <<ledger, topo, manifest, baseline, vmAddr, tunnels,
                         req, pos, cpIp, fwd, history>>

-----------------------------------------------------------------------------
(* bootstrap(): load the ledger and the topology, dispatch the phases.      *)

\* Mutant: the run starts without reading phases_done back.
StartWithoutLoad(p, r) ==
    /\ pc[p] = "idle"
    /\ \/ /\ ledger[Own(p)] \in Unreadable
          /\ outcome' = [outcome EXCEPT ![p] = "traceback"]
          /\ UNCHANGED <<pc, req, pos, done>>
       \/ /\ ledger[Own(p)] \notin Unreadable
          /\ \E i \in 1..Len(r) : r[i] \notin Phase
          /\ outcome' = [outcome EXCEPT ![p] = "structured"]
          /\ UNCHANGED <<pc, req, pos, done>>
       \/ /\ ledger[Own(p)] \notin Unreadable
          /\ \A i \in 1..Len(r) : r[i] \in Phase
          /\ Goto(p, "topology")
          /\ req' = [req EXCEPT ![p] = r]
          /\ pos' = [pos EXCEPT ![p] = 1]
          /\ done' = [done EXCEPT ![p] = {}]
          /\ outcome' = [outcome EXCEPT ![p] = "none"]
    /\ UNCHANGED <<files, world, tunnels, cpIp, fwd, history, faults>>

\* Mutant: unknown phase names are not rejected.
StartUnchecked(p, r) ==
    /\ pc[p] = "idle"
    /\ ledger[Own(p)] \notin Unreadable
    /\ Goto(p, "topology")
    /\ req' = [req EXCEPT ![p] = r]
    /\ pos' = [pos EXCEPT ![p] = 1]
    /\ done' = [done EXCEPT ![p] = ledger[Own(p)]]
    /\ outcome' = [outcome EXCEPT ![p] = "none"]
    /\ UNCHANGED <<files, world, tunnels, cpIp, fwd, history, faults>>

\* State.load() parses the ledger before the phase names are checked; a file
\* that is not JSON escapes as JSONDecodeError.
Start(p, r) ==
    /\ pc[p] = "idle"
    /\ \/ /\ ledger[Own(p)] \in Unreadable
          /\ outcome' = [outcome EXCEPT ![p] = "traceback"]
          /\ UNCHANGED <<pc, req, pos, done>>
       \/ /\ ledger[Own(p)] \notin Unreadable
          /\ \E i \in 1..Len(r) : r[i] \notin Phase
          /\ outcome' = [outcome EXCEPT ![p] = "structured"]
          /\ UNCHANGED <<pc, req, pos, done>>
       \/ /\ ledger[Own(p)] \notin Unreadable
          /\ \A i \in 1..Len(r) : r[i] \in Phase
          /\ Goto(p, "topology")
          /\ req' = [req EXCEPT ![p] = r]
          /\ pos' = [pos EXCEPT ![p] = 1]
          /\ done' = [done EXCEPT ![p] = ledger[Own(p)]]
          /\ outcome' = [outcome EXCEPT ![p] = "none"]
    /\ UNCHANGED <<files, world, tunnels, cpIp, fwd, history, faults>>

\* write_output_json: an ip already in the file is carried over, otherwise the
\* guest agent is asked; it may not answer yet, which leaves the ip blank.
\* Without a PVE token nothing is asked, and its exceptions are only logged.
Discover(c) ==
    \/ topo[c] \in Addr /\ UNCHANGED <<topo, faults>>
    \/ /\ topo[c] \notin Addr
       /\ UNCHANGED faults
       /\ topo' = [topo EXCEPT ![c] = vmAddr[c]]
    \/ /\ topo[c] \notin Addr
       /\ CallFails(TRUE)
       /\ topo' \in {topo, [topo EXCEPT ![c] = Blank]}

LoadTopology(p) ==
    LET c == Own(p) IN
    /\ pc[p] = "topology"
    /\ Discover(c)
    /\ \/ /\ topo'[c] # Missing
          /\ Goto(p, "dispatch")
          /\ cpIp' = [cpIp EXCEPT ![p] = topo'[c]]
          /\ UNCHANGED <<req, pos, done, fwd, outcome>>
       \/ /\ topo'[c] = Missing
          /\ Exit(p)
          /\ outcome' = [outcome EXCEPT ![p] = "structured"]
    /\ UNCHANGED <<ledger, clusterKc, homeKc, manifest, baseline, world,
                   tunnels, history>>

SkipPhase(p) ==
    /\ pc[p] = "dispatch"
    /\ pos[p] <= Len(req[p])
    /\ Cur(p) \in done[p]
    /\ pos' = [pos EXCEPT ![p] = @ + 1]
    /\ UNCHANGED <<files, world, tunnels, pc, req, done, cpIp, fwd, outcome,
                   history, faults>>

\* A phase that needs the apiserver opens the tunnel first, or reuses the one
\* this run already holds, and always fetches the kubeconfig again.
EnterPhase(p) ==
    /\ pc[p] = "dispatch"
    /\ pos[p] <= Len(req[p])
    /\ Cur(p) \notin done[p]
    /\ Goto(p, IF Cur(p) \notin TunnelPhase THEN "body"
               ELSE IF fwd[p] = NoPort THEN "tunnel" ELSE "fetch")
    /\ UNCHANGED <<files, world, tunnels, req, pos, done, cpIp, fwd, outcome,
                   history, faults>>

FinishLoop(p) ==
    /\ pc[p] = "dispatch"
    /\ pos[p] > Len(req[p])
    /\ Goto(p, "finally")
    /\ outcome' = [outcome EXCEPT ![p] = "ok"]
    /\ UNCHANGED <<files, world, tunnels, req, pos, done, cpIp, fwd, history,
                   faults>>

\* write_text opens the file for writing, which truncates it, ...
SaveTruncate(p) ==
    /\ pc[p] = "save"
    /\ ledger' = [ledger EXCEPT ![Own(p)] = Empty]
    /\ Goto(p, "write")
    /\ UNCHANGED <<topo, clusterKc, homeKc, manifest, baseline, world, tunnels,
                   req, pos, done, cpIp, fwd, outcome, history, faults>>

\* ... and then writes its own text from offset 0.  When another run wrote in
\* between, a longer old text leaves its tail behind the new one.
Overwrite(old, new) ==
    IF old = Empty THEN {new}
    ELSE IF old = Garbled THEN {new, Garbled}
    ELSE IF old \subseteq new THEN {new}
    ELSE IF new \subseteq old THEN {Garbled}
    ELSE {new, Garbled}

\* Mutant: the ledger is saved before the phase is added to it.
SaveWriteEarly(p) ==
    /\ pc[p] = "write"
    /\ ledger' = [ledger EXCEPT ![Own(p)] = done[p] \ {Cur(p)}]
    /\ Goto(p, "dispatch")
    /\ pos' = [pos EXCEPT ![p] = @ + 1]
    /\ UNCHANGED <<topo, clusterKc, homeKc, manifest, baseline, world, tunnels,
                   req, done, cpIp, fwd, outcome, history, faults>>

SaveWrite(p) ==
    /\ pc[p] = "write"
    /\ \E text \in Overwrite(ledger[Own(p)], done[p]) :
          ledger' = [ledger EXCEPT ![Own(p)] = text]
    /\ Goto(p, "dispatch")
    /\ pos' = [pos EXCEPT ![p] = @ + 1]
    /\ UNCHANGED <<topo, clusterKc, homeKc, manifest, baseline, world, tunnels,
                   req, done, cpIp, fwd, outcome, history, faults>>

\* Mutant: the tunnel is torn down after a successful run only.
TearDownOnSuccess(p) ==
    /\ pc[p] = "finally"
    /\ tunnels' = {t \in tunnels : t.by = p => outcome[p] # "ok"}
    /\ Exit(p)
    /\ UNCHANGED <<files, world, outcome, history, faults>>

\* The `finally` of bootstrap(): terminate this run's ssh process and exit.
TearDown(p) ==
    /\ pc[p] = "finally"
    /\ tunnels' = {t \in tunnels : t.by # p}
    /\ Exit(p)
    /\ UNCHANGED <<files, world, outcome, history, faults>>

-----------------------------------------------------------------------------
(* _open_apiserver_tunnel.                                                 *)

\* The caller of the helper turns any exception into BootstrapError, except
\* _run_kubeconfig, which lets subprocess.TimeoutExpired through.
TunnelErrors(p) == IF Cur(p) = "kubeconfig" THEN AnyError ELSE Structured

\* A wait for the tunnel that gives up may leave its ssh running (module Tunnel
\* tells when): state.forward was not set yet.
Abandon(p) ==
    /\ AddressRight(p)
    /\ \E q \in Port \ {t.port : t \in tunnels} :
          tunnels' = tunnels \cup {[port |-> q, to |-> Own(p), by |-> GaveUp]}

\* port_forward in one step, on a port the kernel gave to no other process.
OpenTunnel(p) ==
    /\ pc[p] = "tunnel"
    /\ \/ /\ CallSucceeds(AddressRight(p))
          /\ \E q \in Port \ {t.port : t \in tunnels} :
                /\ tunnels' = tunnels \cup {[port |-> q, to |-> Own(p), by |-> p]}
                /\ fwd' = [fwd EXCEPT ![p] = q]
          /\ Proceed(p, "fetch")
       \/ /\ CallFails(AddressRight(p))
          /\ Raise(p, Structured)
          /\ UNCHANGED tunnels \/ Abandon(p)
          /\ UNCHANGED fwd
    /\ UNCHANGED <<files, world, req, pos, cpIp, history>>

\* Mutant: a kubeconfig already on disk is not fetched again.
FetchKubeconfigOnce(p) ==
    LET readable == AddressRight(p) /\ "k3s" \in have[Own(p)] IN
    /\ pc[p] = "fetch"
    /\ \/ /\ CallSucceeds(readable)
          /\ clusterKc' = [clusterKc EXCEPT ![Own(p)] = IF @ = NoPort THEN fwd[p] ELSE @]
          /\ Proceed(p, "body")
       \/ /\ CallFails(readable)
          /\ Raise(p, TunnelErrors(p))
          /\ UNCHANGED clusterKc
    /\ UNCHANGED <<homeKc, world>> /\ BodyFrame

\* Reads k3s.yaml over a fresh ssh connection (not through the tunnel) and
\* writes it with the server URL pointing at the forwarded port.
FetchKubeconfig(p) ==
    LET readable == AddressRight(p) /\ "k3s" \in have[Own(p)] IN
    /\ pc[p] = "fetch"
    /\ \/ /\ CallSucceeds(readable)
          /\ clusterKc' = [clusterKc EXCEPT ![Own(p)] = fwd[p]]
          /\ Proceed(p, "body")
       \/ /\ CallFails(readable)
          /\ Raise(p, TunnelErrors(p))
          /\ UNCHANGED clusterKc
    /\ UNCHANGED <<homeKc, world>> /\ BodyFrame

-----------------------------------------------------------------------------
(* The phases.                                                             *)

\* The health check is not wired up: the phase only records itself.
RunCloudinit(p) ==
    /\ At(p, "body", "cloudinit")
    /\ MarkDone(p)
    /\ UNCHANGED <<clusterKc, homeKc, have, smokeNs, faults>> /\ BodyFrame

\* Mutant: the phase is recorded as soon as the server is up.
RunInstallServerOnly(p) ==
    /\ At(p, "body", "install_k3s")
    /\ \/ /\ CallSucceeds(AddressRight(p))
          /\ Install(Own(p), {"k3s"})
          /\ MarkDone(p)
       \/ /\ CallFails(AddressRight(p))
          /\ InstallPart(Own(p), {"k3s"}, AddressRight(p))
          /\ Raise(p, AnyError)
    /\ UNCHANGED <<clusterKc, homeKc, smokeNs>> /\ BodyFrame

\* install_server on the control plane.  A probe or an installer that runs out
\* of time raises TimeoutExpired, which is not a K3sInstallerError.
RunInstallServer(p) ==
    /\ At(p, "body", "install_k3s")
    /\ \/ /\ CallSucceeds(AddressRight(p))
          /\ Install(Own(p), {"k3s"})
          /\ Proceed(p, "agents")
       \/ /\ CallFails(AddressRight(p))
          /\ InstallPart(Own(p), {"k3s"}, AddressRight(p))
          /\ Raise(p, AnyError)
    /\ UNCHANGED <<clusterKc, homeKc, smokeNs>> /\ BodyFrame

\* Mutant: a worker that fails does not stop the phase.
RunInstallAgentsAnyway(p) ==
    /\ pc[p] = "agents"
    /\ \/ CallSucceeds(AddressRight(p)) /\ Install(Own(p), {"agents"})
       \/ CallFails(AddressRight(p))
             /\ InstallPart(Own(p), {"agents"}, AddressRight(p))
    /\ MarkDone(p)
    /\ UNCHANGED <<clusterKc, homeKc, smokeNs>> /\ BodyFrame

\* read_node_token, then install_agent on every worker.
RunInstallAgents(p) ==
    /\ pc[p] = "agents"
    /\ \/ /\ CallSucceeds(AddressRight(p))
          /\ Install(Own(p), {"agents"})
          /\ MarkDone(p)
       \/ /\ CallFails(AddressRight(p))
          /\ InstallPart(Own(p), {"agents"}, AddressRight(p))
          /\ Raise(p, AnyError)
    /\ UNCHANGED <<clusterKc, homeKc, smokeNs>> /\ BodyFrame

\* GET /healthz through the tunnel.
RunK3s(p) ==
    /\ At(p, "body", "k3s")
    /\ \/ CallSucceeds(Apiserver(p)) /\ MarkDone(p)
       \/ CallFails(Apiserver(p)) /\ Raise(p, Structured)
    /\ UNCHANGED <<clusterKc, homeKc, have, smokeNs>> /\ BodyFrame

RunGatewayCrds(p) ==
    /\ At(p, "body", "gateway_crds")
    /\ \/ /\ CallSucceeds(Apiserver(p))
          /\ Install(Own(p), {"gateway-crds"})
          /\ MarkDone(p)
       \/ /\ CallFails(Apiserver(p))
          /\ InstallPart(Own(p), {"gateway-crds"}, Apiserver(p))
          /\ Raise(p, Structured)
    /\ UNCHANGED <<clusterKc, homeKc, smokeNs>> /\ BodyFrame

\* The helm binary, the secrets and cilium are hard requirements, and none of
\* their exceptions is turned into a BootstrapError.
RunHelmCilium(p) ==
    /\ At(p, "body", "helm")
    /\ \/ /\ CallSucceeds(Apiserver(p))
          /\ Install(Own(p), {"cilium"})
          /\ Proceed(p, "helm_soft")
       \/ /\ CallFails(Apiserver(p))
          /\ InstallPart(Own(p), {"cilium"}, Apiserver(p))
          /\ Raise(p, Traceback)
    /\ UNCHANGED <<clusterKc, homeKc, smokeNs>> /\ BodyFrame

\* install_releases_with_logging(hard_required = {}): a failure is a warning.
RunHelmSoft(p) ==
    /\ pc[p] = "helm_soft"
    /\ \E failed \in SUBSET SoftRelease :
          /\ IF Apiserver(p)
             THEN /\ faults + Cardinality(failed) <= MaxFaults
                  /\ faults' = faults + Cardinality(failed)
             ELSE failed = SoftRelease /\ UNCHANGED faults
          /\ Install(Own(p), SoftRelease \ failed)
    /\ Proceed(p, "helm_envoy")
    /\ UNCHANGED <<clusterKc, homeKc, smokeNs>> /\ BodyFrame

\* envoy-gateway and wait_for_ready (its controller needs the CRDs), then the
\* Traefik manifest.  wait_for_ready's kubectl may raise TimeoutExpired.
RunHelmEnvoy(p) ==
    LET possible == Apiserver(p) /\ "gateway-crds" \in have[Own(p)] IN
    /\ pc[p] = "helm_envoy"
    /\ \/ /\ CallSucceeds(possible)
          /\ Install(Own(p), {"envoy-gateway"})
          /\ Proceed(p, "helm_sc")
       \/ /\ CallFails(possible)
          /\ InstallPart(Own(p), {"envoy-gateway"}, Apiserver(p))
          /\ Raise(p, AnyError)
    /\ UNCHANGED <<clusterKc, homeKc, smokeNs>> /\ BodyFrame

\* _ensure_csi_default_sc is best effort: either way the phase is recorded.
RunHelmDefaultSc(p) ==
    LET possible == Apiserver(p) /\ "csi" \in have[Own(p)] IN
    /\ pc[p] = "helm_sc"
    /\ \/ CallSucceeds(possible) /\ Install(Own(p), {"default-sc"})
       \/ CallFails(possible) /\ InstallPart(Own(p), {"default-sc"}, possible)
    /\ MarkDone(p)
    /\ UNCHANGED <<clusterKc, homeKc, smokeNs>> /\ BodyFrame


\* GatewayClass=envoy must be Accepted; then the smoke manifest is applied.
\* Nothing can be created in a namespace that is being deleted.
RunGatewaySmokeApply(p) ==
    LET c == Own(p)
        accepted == Apiserver(p) /\ {"envoy-gateway", "gateway-crds"} \subseteq have[c]
        possible == accepted /\ smokeNs[c] # "terminating"
    IN
    /\ At(p, "body", "gateway_smoke")
    /\ \/ /\ CallSucceeds(possible)
          /\ smokeNs' = [smokeNs EXCEPT ![c] = "active"]
          /\ Proceed(p, "smoke_verdict")
       \/ /\ CallFails(possible)
          /\ \/ UNCHANGED smokeNs
             \/ possible /\ smokeNs' = [smokeNs EXCEPT ![c] = "active"]
          /\ Raise(p, Structured)
    /\ UNCHANGED <<clusterKc, homeKc, have>> /\ BodyFrame

\* `kubectl delete ns --wait=false`, whose failure is only logged.
Cleanup(c) ==
    \/ smokeNs' = [smokeNs EXCEPT ![c] = "terminating"] /\ UNCHANGED faults
    \/ CallFails(TRUE) /\ UNCHANGED smokeNs

\* Gateway Programmed, Service found, echo body matched, then the cleanup.
RunGatewaySmokeVerdict(p) ==
    LET possible == Apiserver(p) /\ smokeNs[Own(p)] = "active" IN
    /\ pc[p] = "smoke_verdict"
    /\ \/ possible /\ Cleanup(Own(p)) /\ MarkDone(p)
       \/ CallFails(possible) /\ UNCHANGED smokeNs /\ Raise(p, Structured)
    /\ UNCHANGED <<clusterKc, homeKc, have>> /\ BodyFrame

\* merge_kubeconfig_for_pveproxy pulls the file once more.  Without a
\* ~/.kube/config it becomes that file.  Otherwise the merge is the output of
\* `kubectl config view --kubeconfig <new>:<existing>`; that flag names one
\* file, and there is none of that name: kubectl prints a document without
\* entries, or fails (module HomeConfig has the calls).
RunKubeconfig(p) ==
    LET c == Own(p)
        readable == AddressRight(p) /\ "k3s" \in have[c]
    IN
    /\ At(p, "body", "kubeconfig")
    /\ \/ /\ CallSucceeds(readable)
          /\ clusterKc' = [clusterKc EXCEPT ![c] = fwd[p]]
          /\ \/ /\ homeKc = NoConfig
                /\ homeKc' = [port |-> fwd[p], of |-> c]
                /\ MarkDone(p)
             \/ homeKc # NoConfig /\ homeKc' = NoContext /\ MarkDone(p)
             \/ homeKc # NoConfig /\ UNCHANGED homeKc /\ Raise(p, Structured)
       \/ /\ CallFails(readable)
          /\ Raise(p, AnyError)
          /\ UNCHANGED <<clusterKc, homeKc>>
    /\ UNCHANGED <<have, smokeNs>> /\ BodyFrame

\* Mutant: the default StorageClass is not checked first.
RunCsiSmokeApplyUnchecked(p) ==
    LET possible == HomeServes /\ smokeNs[homeKc.of] # "terminating" IN
    /\ At(p, "body", "csi_smoke")
    /\ \/ /\ CallSucceeds(possible)
          /\ smokeNs' = [smokeNs EXCEPT ![homeKc.of] = "active"]
          /\ Proceed(p, "csi_verdict")
       \/ CallFails(possible) /\ UNCHANGED smokeNs /\ Raise(p, Structured)
    /\ UNCHANGED <<clusterKc, homeKc, have>> /\ BodyFrame

\* csi_smoke runs kubectl with ~/.kube/config, whichever cluster that is.
RunCsiSmokeApply(p) ==
    LET c == homeKc.of
        possible == HomeServes /\ "default-sc" \in have[c] /\ smokeNs[c] # "terminating"
    IN
    /\ At(p, "body", "csi_smoke")
    /\ \/ /\ CallSucceeds(possible)
          /\ smokeNs' = [smokeNs EXCEPT ![c] = "active"]
          /\ Proceed(p, "csi_verdict")
       \/ /\ CallFails(possible)
          /\ \/ UNCHANGED smokeNs
             \/ possible /\ smokeNs' = [smokeNs EXCEPT ![c] = "active"]
          /\ Raise(p, Structured)
    /\ UNCHANGED <<clusterKc, homeKc, have>> /\ BodyFrame

\* PVC Bound, writer Succeeded, re-apply, reader Succeeded, marker in its logs
\* (the logs call's CalledProcessError is not caught), then the cleanup.
RunCsiSmokeVerdict(p) ==
    LET possible == HomeServes /\ "csi" \in have[homeKc.of] /\ smokeNs[homeKc.of] = "active"
    IN
    /\ pc[p] = "csi_verdict"
    /\ \/ possible /\ Cleanup(homeKc.of) /\ MarkDone(p)
       \/ CallFails(possible) /\ UNCHANGED smokeNs /\ Raise(p, AnyError)
    /\ UNCHANGED <<clusterKc, homeKc, have>> /\ BodyFrame

\* A missing baseline raises HostPortsAddedError, not the FileNotFoundError the
\* phase converts; so does a new DNAT rule.  An ssh failure is structured.
RunHostPorts(p) ==
    /\ At(p, "body", "host_ports")
    /\ \/ ~baseline[Own(p)] /\ UNCHANGED faults /\ Raise(p, Traceback)
       \/ baseline[Own(p)] /\ UNCHANGED faults /\ MarkDone(p)
       \/ baseline[Own(p)] /\ CallFails(TRUE) /\ Raise(p, AnyError)
    /\ UNCHANGED <<clusterKc, homeKc, have, smokeNs>> /\ BodyFrame

\* Mutant: without a manifest the phase is recorded as done.
RunExternalnameEagerly(p) ==
    /\ At(p, "body", "externalname")
    /\ \/ /\ Own(p) \notin Apps \/ ~manifest[Own(p)]
          /\ MarkDone(p)
          /\ UNCHANGED <<have, faults>>
       \/ /\ Own(p) \in Apps /\ manifest[Own(p)]
          /\ CallFails(Apiserver(p))
          /\ Raise(p, Structured)
          /\ UNCHANGED have
    /\ UNCHANGED <<clusterKc, homeKc, smokeNs>> /\ BodyFrame

\* kubectl apply -k with the cluster's kubeconfig; no tunnel is opened.  With no
\* manifest yet the phase returns without recording itself.
RunExternalname(p) ==
    LET c == Own(p) IN
    /\ At(p, "body", "externalname")
    /\ \/ /\ c \notin Apps
          /\ MarkDone(p)
          /\ UNCHANGED <<have, faults>>
       \/ /\ c \in Apps /\ clusterKc[c] = NoPort
          /\ Raise(p, Structured)
          /\ UNCHANGED <<have, faults>>
       \/ /\ c \in Apps /\ clusterKc[c] # NoPort /\ ~manifest[c]
          /\ Proceed(p, "save")
          /\ UNCHANGED <<have, faults>>
       \/ /\ c \in Apps /\ clusterKc[c] # NoPort /\ manifest[c]
          /\ CallSucceeds(Apiserver(p))
          /\ Install(c, {"cross-svcs"})
          /\ MarkDone(p)
       \/ /\ c \in Apps /\ clusterKc[c] # NoPort /\ manifest[c]
          /\ CallFails(Apiserver(p))
          /\ InstallPart(c, {"cross-svcs"}, Apiserver(p))
          /\ Raise(p, Structured)
    /\ UNCHANGED <<clusterKc, homeKc, smokeNs>> /\ BodyFrame

-----------------------------------------------------------------------------
(* What happens around the runs.                                           *)

\* The run is killed: no `finally`.  Its ssh process is in a session of its own
\* and lives on.  A ledger truncated and not yet written stays empty.
Crash(p) ==
    /\ pc[p] # "idle"
    /\ crashes < MaxCrashes
    /\ crashes' = crashes + 1
    /\ tunnels' = {IF t.by = p THEN [t EXCEPT !.by = Killed] ELSE t : t \in tunnels}
    /\ Exit(p)
    /\ outcome' = [outcome EXCEPT ![p] = "crashed"]
    /\ UNCHANGED <<files, world, stale, resets, faults>>

\* An ssh process dies; nobody watches it.
TunnelDies ==
    /\ CallFails(TRUE)
    /\ \E t \in tunnels : tunnels' = tunnels \ {t}
    /\ UNCHANGED <<files, world, run, history>>

\* The namespace controller finishes deleting the smoke namespace.
NamespaceGone(c) ==
    /\ smokeNs[c] = "terminating"
    /\ smokeNs' = [smokeNs EXCEPT ![c] = "absent"]
    /\ UNCHANGED <<files, have, vmAddr, tunnels, run, history, faults>>

\* `tofu apply` renders manifests/cicd-system.
ManifestLands(c) ==
    /\ ~manifest[c]
    /\ manifest' = [manifest EXCEPT ![c] = TRUE]
    /\ UNCHANGED <<ledger, topo, clusterKc, homeKc, baseline, world, tunnels,
                   run, history, faults>>

\* capture_host_ports_baseline.sh.
CaptureBaseline(c) ==
    /\ ~baseline[c]
    /\ baseline' = [baseline EXCEPT ![c] = TRUE]
    /\ UNCHANGED <<ledger, topo, clusterKc, homeKc, manifest, world, tunnels,
                   run, history, faults>>

Quiet(c) == \A p \in Proc : Own(p) = c => pc[p] = "idle"

\* `tofu destroy` and `tofu apply`: new VMs, maybe a new address, old files.
Rebuild(c) ==
    /\ Quiet(c)
    /\ resets < MaxResets
    /\ resets' = resets + 1
    /\ have' = [have EXCEPT ![c] = {}]
    /\ smokeNs' = [smokeNs EXCEPT ![c] = "absent"]
    /\ \E a \in Addr : vmAddr' = [vmAddr EXCEPT ![c] = a]
    /\ tunnels' = {t \in tunnels : t.to # c}
    /\ stale' = [stale EXCEPT ![c] = ledger[c] # {}]
    /\ UNCHANGED <<files, run, crashes, faults>>

\* A worker is added to main.tf and applied: it has no k3s agent yet.
AddWorker(c) ==
    /\ Quiet(c)
    /\ "agents" \in have[c]
    /\ resets < MaxResets
    /\ resets' = resets + 1
    /\ have' = [have EXCEPT ![c] = @ \ {"agents"}]
    /\ stale' = [stale EXCEPT ![c] = @ \/ ledger[c] # {}]
    /\ UNCHANGED <<files, smokeNs, vmAddr, tunnels, run, crashes, faults>>

\* rm -f infra/clusters/<c>/bootstrap_state.json
WipeState(c) ==
    /\ Quiet(c)
    /\ ledger[c] # {}
    /\ resets < MaxResets
    /\ resets' = resets + 1
    /\ ledger' = [ledger EXCEPT ![c] = {}]
    /\ stale' = [stale EXCEPT ![c] = FALSE]
    /\ UNCHANGED <<topo, clusterKc, homeKc, manifest, baseline, world, tunnels,
                   run, crashes, faults>>

-----------------------------------------------------------------------------
PhaseStep(p) ==
    \/ RunCloudinit(p) \/ RunInstallServer(p) \/ RunInstallAgents(p)
    \/ RunK3s(p) \/ RunGatewayCrds(p)
    \/ RunHelmCilium(p) \/ RunHelmSoft(p) \/ RunHelmEnvoy(p) \/ RunHelmDefaultSc(p)
    \/ RunGatewaySmokeApply(p) \/ RunGatewaySmokeVerdict(p)
    \/ RunKubeconfig(p)
    \/ RunCsiSmokeApply(p) \/ RunCsiSmokeVerdict(p)
    \/ RunHostPorts(p) \/ RunExternalname(p)

Step(p) ==
    \/ LoadTopology(p) \/ SkipPhase(p) \/ EnterPhase(p) \/ FinishLoop(p)
    \/ SaveTruncate(p) \/ SaveWrite(p) \/ TearDown(p)
    \/ OpenTunnel(p) \/ FetchKubeconfig(p) \/ PhaseStep(p)

Environment ==
    \/ TunnelDies
    \/ \E p \in Proc : Crash(p)
    \/ \E c \in Cluster : \/ NamespaceGone(c) \/ ManifestLands(c)
                          \/ CaptureBaseline(c) \/ Rebuild(c)
                          \/ AddWorker(c) \/ WipeState(c)

Next ==
    \/ \E p \in Proc : Step(p)
    \/ \E p \in Proc, r \in Request : Start(p, r)
    \/ Environment

Spec == Init /\ [][Next]_vars
-----------------------------------------------------------------------------
(* What the pipeline must get right.                                       *)

Readable(c) == ledger[c] \notin Unreadable

\* What must be on cluster c for a phase's record to be true.
Effect(phase) ==
    CASE phase = "install_k3s"   -> {"k3s", "agents"}
      [] phase = "k3s"           -> {"k3s"}
      [] phase = "gateway_crds"  -> {"gateway-crds"}
      [] phase = "helm"          -> {"cilium", "envoy-gateway"}
      [] phase = "gateway_smoke" -> {"gateway-crds", "envoy-gateway"}
      [] OTHER                   -> {}

\* The ledger never claims more than the cluster has: whatever the order of the
\* phases, the failures in the middle of one, the kills and the overlapping
\* writes of two runs, a recorded phase's effect is there -- as long as the VMs
\* are the ones the ledger was written for.
LedgerSound ==
    \A c \in Cluster : ~stale[c] /\ Readable(c) =>
        \A phase \in ledger[c] : Effect(phase) \subseteq have[c]

\* externalname recorded on an apps cluster means the ExternalName Services were
\* applied to it: the early return without a manifest leaves no record.
ExternalnameSound ==
    \A c \in Apps : ~stale[c] /\ Readable(c) /\ "externalname" \in ledger[c]
        => "cross-svcs" \in have[c]

\* csi_smoke recorded for a cluster means that cluster has a default
\* StorageClass served by the CSI driver, although helm records itself without
\* either.  The phase talks to whatever ~/.kube/config names, so this holds of
\* an operator with one cluster only.
CsiSmokeSound ==
    \A c \in Cluster : ~stale[c] /\ Readable(c) /\ "csi_smoke" \in ledger[c]
        => {"csi", "default-sc"} \subseteq have[c]

\* A run that ends without an error has every requested phase on disk, save the
\* externalname phase of an apps cluster that has no manifest yet.
OkRunIsRecorded ==
    \A p \in Proc : pc[p] = "finally" /\ outcome[p] = "ok" =>
        /\ Readable(Own(p))
        /\ \A i \in 1..Len(req[p]) :
              \/ req[p][i] \in ledger[Own(p)]
              \/ req[p][i] = "externalname" /\ Own(p) \in Apps

\* Every ssh process is held by a run in progress, which will tear it down, at
\* the port and cluster of that run; except for one per killed run and one per
\* wait that gave up.  The latter are orphans the documentation denies (see
\* NoOrphanSsh in MCTunnel): here it is said that the pipeline leaves no others,
\* however a phase ends.
TunnelsOwned ==
    /\ \A t \in tunnels : t.by \in Proc =>
          t.port = fwd[t.by] /\ t.to = Own(t.by) /\ pc[t.by] # "idle"
    /\ Cardinality({t \in tunnels : t.by = Killed}) <= crashes
    /\ Cardinality({t \in tunnels : t.by = GaveUp}) <= faults

\* While a phase runs kubectl with the cluster's kubeconfig, that file names the
\* port of the tunnel this very run opened, not one of an earlier run.
KubeconfigFollowsTunnel ==
    \A p \in Proc : /\ pc[p] \in {"body", "helm_soft", "helm_envoy", "helm_sc",
                                  "smoke_verdict"}
                    /\ Cur(p) \in TunnelPhase
        => fwd[p] # NoPort /\ clusterKc[Own(p)] = fwd[p]

-----------------------------------------------------------------------------
(* Refinement: with one run of a cluster at a time, its ledger is a          *)
(* checkpoint in the sense of module Checkpoint.                            *)

Runs(c) == {p \in Proc : Own(p) = c}

Running(c) == \E p \in Runs(c) : pc[p] # "idle"

Achieved(c) == {phase \in Phase : Effect(phase) \subseteq have[c]}

\* A file caught between truncation and write counts as what its writer holds;
\* if the writer was killed there, the records are lost.
Recorded(c) ==
    IF Readable(c) THEN ledger[c]
    ELSE UNION {done[p] : p \in {r \in Runs(c) : pc[r] = "write"}}

Journal(c) == INSTANCE Checkpoint WITH
    running <- Running(c), achieved <- Achieved(c), recorded <- Recorded(c)

\* The ledger implements the checkpoint it is meant to be: while a run is in
\* progress a record is only ever added, one phase at a time, and only when the
\* phase's effect is on the cluster.
ImplementsCheckpoint ==
    /\ \A c \in Cluster : Journal(c)!Init
    /\ [][\A c \in Cluster : [Journal(c)!Next]_(Journal(c)!vars)]_vars

-----------------------------------------------------------------------------
(* Liveness.                                                               *)

\* Assumed: every call a phase makes returns, the namespace controller works,
\* and the operator keeps rerunning the whole pipeline.  Of the calls, most
\* carry a timeout; helm (helm_client.py:169, :516), `kubectl apply -k`
\* (line 1610) and the merger's kubectl (kubeconfig_merger.py:71) carry none,
\* and wait_ready may block (module Tunnel): of a run that hangs in one of
\* these, what follows says nothing until the operator kills it.
FairSpec ==
    /\ Spec
    /\ \A p \in Proc : WF_vars(Step(p)) /\ WF_vars(Start(p, PHASES))
    /\ \A c \in Cluster : WF_vars(NamespaceGone(c))

\* Rerunning after finitely many failed calls gets the cluster through the
\* phases that do not depend on a file or a context someone else provides; and
\* through kubeconfig too if the operator had no ~/.kube/config, so that there
\* is nothing to merge with.
CorePhases == {"cloudinit", "install_k3s", "k3s", "gateway_crds", "helm",
               "gateway_smoke"}
=============================================================================
