----------------------------- MODULE ApplyTofu ------------------------------
(***************************************************************************)
(* scripts/apply_tofu.py, which runs `tofu` for one root (the tokens or a   *)
(* cluster), and the PowerDNS tunnels of the operator host: the driver's on *)
(* port 8081, that of scripts/sync_dns_to_sdn.py on port 18081.             *)
(*                                                                         *)
(* Runs share the saved plan of their root and both ports.  Every tunnel is *)
(* an `ssh -f -M` that nobody waits for.  Whether -M creates a control      *)
(* socket depends on the ControlPath in the operator's ssh_config; if there *)
(* is one, it is the same for all of them.                                 *)
(***************************************************************************)
EXTENDS Naturals, FiniteSets

CONSTANTS
    Driver,    \* runs of apply_tofu.py
    Sync,      \* runs of sync_dns_to_sdn.py
    Cluster,   \* the cluster roots
    Tokens,    \* the tokens root
    Nobody,
    Faults     \* bound on failed calls, killed runs and dying tunnels

Root == Cluster \cup {Tokens}
Port == {"8081", "18081"}
Actor == Driver \cup Sync

ASSUME ActorAssumption == Driver \cap Sync = {} /\ Nobody \notin Actor \cup Port
ASSUME RootAssumption == Tokens \notin Cluster
ASSUME FaultAssumption == Faults \in Nat

VARIABLES
    pc,
    opt,      \* the arguments of each driver
    code,     \* the exit code of a run that is ending
    owns,     \* it has opened the tunnel it uses
    met,      \* history: the drivers of the same root it has run beside
    plan,     \* /tmp/apply_tofu_<root>.tfplan: who wrote it
    ready,    \* what is on disk: credentials and image-id.txt
    holder,   \* who started the ssh that listens on a port
    sock,     \* the port of the ssh behind the control socket
    mux,      \* ssh_config sets a ControlPath
    faults,
    killed,   \* history: runs killed while they held a tunnel
    gone      \* a driver's ssh has died, or a sync has closed it

tunnels == <<holder, sock, gone>>
vars == <<pc, opt, code, owns, met, plan, ready, tunnels, mux, faults, killed>>

Options == [root : Root, mode : {"--plan-only", "--auto-approve", "plain"}]
NoOptions == [root |-> Tokens, mode |-> "plain"]
Label == {"idle", "check", "init", "look", "dial", "plan", "apply", "output",
                    "close", "body"}

TypeOK ==
    /\ pc \in [Actor -> Label]
    /\ opt \in [Driver -> Options]
    /\ code \in [Actor -> 0..6]
    /\ owns \in [Actor -> BOOLEAN]
    /\ met \in [Driver -> SUBSET Driver]
    /\ plan \in [Cluster -> Driver \cup {Nobody}]
    /\ ready \subseteq {"credentials", "image"}
    /\ holder \in [Port -> Actor \cup {Nobody}]
    /\ sock \in Port \cup {Nobody}
    /\ mux \in BOOLEAN
    /\ faults \in 0..Faults
    /\ killed \subseteq Actor /\ gone \in BOOLEAN

Init ==
    /\ pc = [x \in Actor |-> "idle"]
    /\ opt = [d \in Driver |-> NoOptions]
    /\ code = [x \in Actor |-> 0]
    /\ owns = [x \in Actor |-> FALSE]
    /\ met = [d \in Driver |-> {}]
    /\ plan = [r \in Cluster |-> Nobody]
    /\ ready \in {{"image"}, {"credentials", "image"}}
    /\ holder = [q \in Port |-> Nobody]
    /\ sock = Nobody
    /\ mux \in BOOLEAN
    /\ faults = 0
    /\ killed = {} /\ gone = FALSE

Goto(x, label) == pc' = [pc EXCEPT ![x] = label]

\* The run returns n, through the `finally` of the tunnel if it is inside.
Leave(x, n) == Goto(x, "close") /\ code' = [code EXCEPT ![x] = n]

\* The process is gone, and its arguments with it.
End(x) ==
    /\ Goto(x, "idle")
    /\ code' = [code EXCEPT ![x] = 0]
    /\ owns' = [owns EXCEPT ![x] = FALSE]
    /\ opt' = [d \in Driver |-> IF d = x THEN NoOptions ELSE opt[d]]
    /\ met' = [d \in Driver |-> IF d = x THEN {} ELSE met[d]]

Fault == faults < Faults /\ faults' = faults + 1

Bound(q) == holder[q] # Nobody

\* `ssh -f -N -M -L`: the first one becomes the master of the socket.
Dial(x, q) ==
    /\ ~Bound(q)
    /\ holder' = [holder EXCEPT ![q] = x]
    /\ sock' = IF mux /\ sock = Nobody THEN q ELSE sock
    /\ owns' = [owns EXCEPT ![x] = TRUE]
    /\ killed' = killed \ {x}
    /\ UNCHANGED gone

\* The ssh that listens on a port ends.
Hangup(q) ==
    /\ holder' = [holder EXCEPT ![q] = Nobody]
    /\ sock' = IF sock = q THEN Nobody ELSE sock

Settings == <<opt, met, plan, ready, mux>>

-----------------------------------------------------------------------------
(* apply_tofu.py.                                                          *)

Begin(d) ==
    /\ pc[d] = "idle"
    /\ \E o \in Options :
          LET beside == {e \in Driver \ {d} : pc[e] # "idle" /\ opt[e].root = o.root}
          IN  /\ opt' = [opt EXCEPT ![d] = o]
              /\ met' = [e \in Driver |-> CASE e = d -> beside
                                            [] e \in beside -> met[e] \cup {d}
                                            [] OTHER -> met[e]]
    /\ Goto(d, "check")
    /\ UNCHANGED <<code, owns, plan, ready, mux, tunnels, faults, killed>>

CheckPrerequisites(d) ==
    /\ pc[d] = "check"
    /\ \/ /\ opt[d].root = Tokens \/ ready = {"credentials", "image"}
          /\ Goto(d, "init")
          /\ UNCHANGED code
       \/ /\ opt[d].root # Tokens /\ ready # {"credentials", "image"}
          /\ Leave(d, 2)
    /\ UNCHANGED <<owns, Settings, tunnels, faults, killed>>

TofuInit(d) ==
    /\ pc[d] = "init"
    /\ \/ /\ Goto(d, IF opt[d].root = Tokens THEN "plan" ELSE "look")
          /\ UNCHANGED <<code, faults>>
       \/ Fault /\ Leave(d, 3)
    /\ UNCHANGED <<owns, Settings, tunnels, killed>>

\* `ss -ltn`: a tunnel that is up is used, and left alone at the end.
LookForTunnel(d) ==
    /\ pc[d] = "look"
    /\ Goto(d, IF Bound("8081") THEN "plan" ELSE "dial")
    /\ UNCHANGED <<code, owns, Settings, tunnels, faults, killed>>

\* The driver goes on without a tunnel if ssh fails: no login, or another
\* driver has bound the port meanwhile.
OpenTunnel(d) ==
    /\ pc[d] = "dial"
    /\ Goto(d, "plan")
    /\ \/ Dial(d, "8081") /\ UNCHANGED faults
       \/ Bound("8081") /\ UNCHANGED <<owns, tunnels, killed, faults>>
       \/ Fault /\ UNCHANGED <<owns, tunnels, killed>>
    /\ UNCHANGED <<code, Settings>>

\* Mutants: one plan file for all clusters; a plan file for the tokens too; a
\* failure that does not leave through the tunnel.
PlanInOneFile(d) ==
    /\ pc[d] = "plan"
    /\ \/ /\ plan' = IF opt[d].root = Tokens THEN plan ELSE [r \in Cluster |-> d]
          /\ IF opt[d].mode = "--plan-only" THEN Leave(d, 0)
             ELSE Goto(d, "apply") /\ UNCHANGED code
          /\ UNCHANGED faults
       \/ Fault /\ Leave(d, 4) /\ UNCHANGED plan
    /\ UNCHANGED <<opt, met, ready, mux, owns, tunnels, killed>>
PlanInAnyFile(d) ==
    /\ pc[d] = "plan"
    /\ \/ /\ plan' = [r \in Cluster \cup {opt[d].root} |->
                         IF r = opt[d].root THEN d ELSE plan[r]]
          /\ IF opt[d].mode = "--plan-only" THEN Leave(d, 0)
             ELSE Goto(d, "apply") /\ UNCHANGED code
          /\ UNCHANGED faults
       \/ Fault /\ Leave(d, 4) /\ UNCHANGED plan
    /\ UNCHANGED <<opt, met, ready, mux, owns, tunnels, killed>>
PlanOrExit(d) ==
    /\ pc[d] = "plan"
    /\ \/ /\ plan' = IF opt[d].root = Tokens THEN plan
                                             ELSE [plan EXCEPT ![opt[d].root] = d]
          /\ IF opt[d].mode = "--plan-only" THEN End(d)
             ELSE Goto(d, "apply") /\ UNCHANGED <<code, owns, opt, met>>
          /\ UNCHANGED faults
       \/ Fault /\ End(d) /\ UNCHANGED plan
    /\ UNCHANGED <<ready, mux, tunnels, killed>>

\* `tofu plan -out`; for the tokens no plan is saved.
Plan(d) ==
    /\ pc[d] = "plan"
    /\ \/ /\ plan' = IF opt[d].root = Tokens THEN plan
                                             ELSE [plan EXCEPT ![opt[d].root] = d]
          /\ IF opt[d].mode = "--plan-only" THEN Leave(d, 0)
             ELSE Goto(d, "apply") /\ UNCHANGED code
          /\ UNCHANGED faults
       \/ Fault /\ Leave(d, 4) /\ UNCHANGED plan
    /\ UNCHANGED <<opt, met, ready, mux, owns, tunnels, killed>>

\* Without --auto-approve the plan file is applied; for the tokens its name is
\* None, which tofu cannot read.
Apply(d) ==
    /\ pc[d] = "apply"
    /\ \/ /\ opt[d].root = Tokens /\ opt[d].mode = "--auto-approve"
          /\ ready' \in {ready \cup {"credentials"}, ready}
          /\ Goto(d, "output")
          /\ UNCHANGED <<code, faults>>
       \/ /\ opt[d].root # Tokens
          /\ Leave(d, 0)
          /\ UNCHANGED <<ready, faults>>
       \/ /\ opt[d].root = Tokens /\ opt[d].mode = "plain"
          /\ Leave(d, 5)
          /\ UNCHANGED <<ready, faults>>
       \/ Fault /\ Leave(d, 5) /\ UNCHANGED ready
    /\ UNCHANGED <<opt, met, plan, mux, owns, tunnels, killed>>

\* infra/tokens/output.json must be there, from whichever apply.
CheckOutput(d) ==
    /\ pc[d] = "output"
    /\ Leave(d, IF "credentials" \in ready THEN 0 ELSE 6)
    /\ UNCHANGED <<owns, Settings, tunnels, faults, killed>>

\* Mutant: a driver that borrows the tunnel closes it too.
CloseAnyTunnel(d) ==
    /\ pc[d] = "close" /\ Hangup("8081") /\ End(d)
    /\ UNCHANGED <<plan, ready, mux, gone, faults, killed>>

\* `pkill -f "ssh.*-L 8081:10.0.0.3"`, by the driver that opened a tunnel:
\* whichever ssh has that command line by now.
CloseTunnel(d) ==
    /\ pc[d] = "close"
    /\ IF owns[d] THEN Hangup("8081") ELSE UNCHANGED <<holder, sock>>
    /\ End(d)
    /\ UNCHANGED <<plan, ready, mux, gone, faults, killed>>

-----------------------------------------------------------------------------
(* sync_dns_to_sdn.py, as far as its tunnel goes.                          *)

\* A port that is taken makes ssh fail: exit code 3.
SyncOpen(s) ==
    /\ pc[s] = "idle"
    /\ \/ Dial(s, "18081") /\ Goto(s, "body") /\ UNCHANGED <<code, faults>>
       \/ /\ Bound("18081")
          /\ Leave(s, 3)
          /\ UNCHANGED <<owns, tunnels, killed, faults>>
       \/ Fault /\ Leave(s, 3) /\ UNCHANGED <<owns, tunnels, killed>>
    /\ UNCHANGED Settings

\* The records are updated, or the run returns from inside the block.
SyncBody(s) ==
    /\ pc[s] = "body"
    /\ \/ Leave(s, 0) /\ UNCHANGED faults
       \/ Fault /\ \E n \in {4, 5} : Leave(s, n)
    /\ UNCHANGED <<owns, Settings, tunnels, killed>>

\* Mutant: the tunnel of a run that failed is not closed.
SyncCloseIfOk(s) ==
    /\ pc[s] = "close"
    /\ IF owns[s] /\ sock # Nobody /\ code[s] = 0
       THEN Hangup(sock) /\ gone' = (gone \/ sock = "8081")
       ELSE UNCHANGED tunnels
    /\ End(s)
    /\ UNCHANGED <<plan, ready, mux, faults, killed>>

\* `ssh -O exit` ends the master behind the control socket, which may be
\* another tunnel; without a ControlPath it ends nothing.
SyncClose(s) ==
    /\ pc[s] = "close"
    /\ IF owns[s] /\ sock # Nobody
       THEN Hangup(sock) /\ gone' = (gone \/ sock = "8081")
       ELSE UNCHANGED tunnels
    /\ End(s)
    /\ UNCHANGED <<plan, ready, mux, faults, killed>>

-----------------------------------------------------------------------------
(* What happens to runs and tunnels.                                       *)

\* A killed run leaves its tunnel.
Kill(x) ==
    /\ pc[x] # "idle" /\ Fault
    /\ End(x)
    /\ killed' = IF owns[x] THEN killed \cup {x} ELSE killed
    /\ UNCHANGED <<plan, ready, mux, tunnels>>

SshDies(q) ==
    /\ Bound(q) /\ Fault
    /\ Hangup(q)
    /\ gone' = (gone \/ q = "8081")
    /\ UNCHANGED <<pc, code, owns, Settings, killed>>

-----------------------------------------------------------------------------

DriverStep(d) ==
    \/ CheckPrerequisites(d) \/ TofuInit(d) \/ LookForTunnel(d)
    \/ OpenTunnel(d) \/ Plan(d) \/ Apply(d) \/ CheckOutput(d) \/ CloseTunnel(d)

SyncStep(s) == SyncBody(s) \/ SyncClose(s)

Next ==
    \/ \E d \in Driver : Begin(d) \/ DriverStep(d)
    \/ \E s \in Sync : SyncOpen(s) \/ SyncStep(s)
    \/ \E x \in Actor : Kill(x)
    \/ \E q \in Port : SshDies(q)

Spec == Init /\ [][Next]_vars

-----------------------------------------------------------------------------
(* Properties.                                                             *)

\* The driver that opened the PowerDNS tunnel has it until it closes it
\* itself, whatever other drivers borrow it or end; unless an ssh has died, or
\* a DNS sync closed it through a control socket they share.
OwnerHasTunnel ==
    \A d \in Driver : owns[d] => holder["8081"] = d \/ gone

\* A driver's tunnel without its driver was left by a killed one.
DriverTunnelsAccounted ==
    \A d \in Driver :
        holder["8081"] = d => owns[d] \/ d \in killed

\* A sync's tunnel that outlives its run was left by a killed one, or never
\* was the master that `ssh -O exit` speaks to.
SyncTunnelsAccounted ==
    \A s \in Sync :
        holder["18081"] = s =>
            owns[s] \/ s \in killed \/ sock # "18081"

\* The saved plan that a driver applies is its own, or that of a driver of the
\* same root which has run beside it: never what an earlier run left, nor the
\* plan of another cluster.
PlanIsCurrent ==
    \A d \in Driver :
        pc[d] = "apply" /\ opt[d].root \in Cluster /\ opt[d].mode = "plain" =>
            plan[opt[d].root] \in {d} \cup met[d]

=============================================================================
