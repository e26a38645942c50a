---------------------------- MODULE ApplyProofs -----------------------------
(***************************************************************************)
(* Module ApplyTofu for any drivers, syncs, clusters and faults: types, who *)
(* has a PowerDNS tunnel and who may leave one, and whose plan is applied.  *)
(***************************************************************************)
EXTENDS ApplyTofu, TLAPS

\* Drivers of one root know of each other.
Beside ==
    \A d, e \in Driver :
        d # e /\ pc[d] # "idle" /\ pc[e] # "idle" /\ opt[d].root = opt[e].root =>
            e \in met[d]

\* PlanIsCurrent in every mode, between any plan and its apply.
PlanOfRoot ==
    \A d \in Driver :
        pc[d] = "apply" /\ opt[d].root \in Cluster =>
            plan[opt[d].root] \in {d} \cup met[d]

TunnelsInv == OwnerHasTunnel /\ DriverTunnelsAccounted /\ SyncTunnelsAccounted
ApplyInv == TypeOK /\ Beside /\ PlanOfRoot /\ TunnelsInv

\* Every step is one of these.
Steps ==
    \/ \E d \in Driver :
          \/ Begin(d) \/ CheckPrerequisites(d) \/ TofuInit(d) \/ LookForTunnel(d)
          \/ OpenTunnel(d) \/ Plan(d) \/ Apply(d) \/ CheckOutput(d) \/ CloseTunnel(d)
    \/ \E s \in Sync : SyncOpen(s) \/ SyncBody(s) \/ SyncClose(s)
    \/ \E x \in Actor : Kill(x)
    \/ \E q \in Port : SshDies(q)

LEMMA NextSteps == Next => Steps
  BY DEF Next, Steps, DriverStep, SyncStep

-----------------------------------------------------------------------------

LEMMA InitInv == Init => ApplyInv
<1> SUFFICES ASSUME Init PROVE ApplyInv
  OBVIOUS
<1> USE ActorAssumption, RootAssumption, FaultAssumption DEF Init
<1>1. TypeOK
  <2>1. NoOptions \in Options
    BY DEF NoOptions, Options, Root
  <2>2. /\ pc \in [Actor -> Label] /\ opt \in [Driver -> Options]
        /\ code \in [Actor -> 0..6] /\ owns \in [Actor -> BOOLEAN]
        /\ met \in [Driver -> SUBSET Driver]
        /\ plan \in [Cluster -> Driver \cup {Nobody}]
    BY <2>1 DEF Label
  <2>3. /\ ready \subseteq {"credentials", "image"}
        /\ holder \in [Port -> Actor \cup {Nobody}]
        /\ sock \in Port \cup {Nobody} /\ faults \in 0..Faults
    OBVIOUS
  <2>4. mux \in BOOLEAN /\ killed \subseteq Actor /\ gone \in BOOLEAN
    OBVIOUS
  <2> QED BY <2>2, <2>3, <2>4 DEF TypeOK
<1>2. Beside /\ PlanOfRoot
  BY DEF Beside, PlanOfRoot, Actor
<1>3. TunnelsInv
  BY DEF TunnelsInv, OwnerHasTunnel, DriverTunnelsAccounted, SyncTunnelsAccounted,
         Actor, Port
<1> QED BY <1>1, <1>2, <1>3 DEF ApplyInv

\* What the shared parts of the actions leave of the types.
LEMMA EndType ==
  ASSUME TypeOK, NEW x \in Actor, End(x)
  PROVE  /\ pc' \in [Actor -> Label] /\ code' \in [Actor -> 0..6]
         /\ owns' \in [Actor -> BOOLEAN] /\ opt' \in [Driver -> Options]
         /\ met' \in [Driver -> SUBSET Driver]
  BY DEF TypeOK, End, Goto, Label, NoOptions, Options, Root

LEMMA LeaveType ==
  ASSUME TypeOK, NEW x \in Actor, NEW n \in 0..6, Leave(x, n)
  PROVE  pc' \in [Actor -> Label] /\ code' \in [Actor -> 0..6]
  BY DEF TypeOK, Leave, Goto, Label

LEMMA HangupType ==
  ASSUME TypeOK, NEW q \in Port, Hangup(q)
  PROVE  holder' \in [Port -> Actor \cup {Nobody}] /\ sock' \in Port \cup {Nobody}
  BY DEF TypeOK, Hangup

LEMMA DialType ==
  ASSUME TypeOK, NEW x \in Actor, NEW q \in Port, Dial(x, q)
  PROVE  /\ holder' \in [Port -> Actor \cup {Nobody}] /\ sock' \in Port \cup {Nobody}
         /\ owns' \in [Actor -> BOOLEAN] /\ killed' \subseteq Actor /\ gone' \in BOOLEAN
  BY DEF TypeOK, Dial

LEMMA FaultType ==
  ASSUME TypeOK, Fault \/ UNCHANGED faults
  PROVE  faults' \in 0..Faults
  BY FaultAssumption DEF TypeOK, Fault

\* Types are kept by every step.
LEMMA StepTypes ==
  ASSUME TypeOK, [Next]_vars
  PROVE  TypeOK'
<1> USE DEF Settings, tunnels
<1>1. CASE UNCHANGED vars
  BY <1>1 DEF vars, TypeOK
<1>2. ASSUME NEW d \in Driver, Begin(d) PROVE TypeOK'
  <2>1. PICK o \in Options : opt' = [opt EXCEPT ![d] = o]
    BY <1>2 DEF Begin
  <2>2. met' \in [Driver -> SUBSET Driver]
    <3>1. PICK o2 \in Options :
             LET beside == {e \in Driver \ {d} : pc[e] # "idle" /\ opt[e].root = o2.root}
             IN  met' = [e \in Driver |-> CASE e = d -> beside
                                            [] e \in beside -> met[e] \cup {d}
                                            [] OTHER -> met[e]]
      BY <1>2 DEF Begin
    <3> QED BY <3>1 DEF TypeOK
  <2> QED BY <1>2, <2>1, <2>2 DEF Begin, Goto, TypeOK, Label
<1>3. ASSUME NEW d \in Driver, CheckPrerequisites(d) PROVE TypeOK'
  BY <1>3 DEF CheckPrerequisites, Leave, Goto, TypeOK, Label, Actor
<1>4. ASSUME NEW d \in Driver, TofuInit(d) PROVE TypeOK'
  BY <1>4, FaultType DEF TofuInit, Leave, Goto, TypeOK, Label, Actor
<1>5. ASSUME NEW d \in Driver, LookForTunnel(d) PROVE TypeOK'
  BY <1>5 DEF LookForTunnel, Goto, TypeOK, Label, Actor
<1>6. ASSUME NEW d \in Driver, OpenTunnel(d) PROVE TypeOK'
  <2>1. d \in Actor /\ "8081" \in Port
    BY DEF Actor, Port
  <2>2. Dial(d, "8081") \/ UNCHANGED <<owns, tunnels, killed>>
    BY <1>6 DEF OpenTunnel
  <2>3. Fault \/ UNCHANGED faults
    BY <1>6 DEF OpenTunnel
  <2> QED BY <1>6, <2>1, <2>2, <2>3, DialType, FaultType
          DEF OpenTunnel, Goto, TypeOK, Label
<1>7. ASSUME NEW d \in Driver, Plan(d) PROVE TypeOK'
  BY <1>7, FaultType DEF Plan, Leave, Goto, TypeOK, Label, Actor
<1>8. ASSUME NEW d \in Driver, Apply(d) PROVE TypeOK'
  <2>1. pc' \in [Actor -> Label] /\ code' \in [Actor -> 0..6]
    BY <1>8 DEF Apply, Leave, Goto, TypeOK, Label, Actor
  <2>2. ready' \subseteq {"credentials", "image"}
    BY <1>8 DEF Apply, TypeOK
  <2>3. faults' \in 0..Faults
    BY <1>8, FaultType DEF Apply
  <2> QED BY <1>8, <2>1, <2>2, <2>3 DEF Apply, TypeOK
<1>9. ASSUME NEW d \in Driver, CheckOutput(d) PROVE TypeOK'
  BY <1>9 DEF CheckOutput, Leave, Goto, TypeOK, Label, Actor
<1>10. ASSUME NEW d \in Driver, CloseTunnel(d) PROVE TypeOK'
  <2>1. d \in Actor /\ "8081" \in Port
    BY DEF Actor, Port
  <2>2. Hangup("8081") \/ UNCHANGED <<holder, sock>>
    BY <1>10 DEF CloseTunnel
  <2> QED BY <1>10, <2>1, <2>2, EndType, HangupType DEF CloseTunnel, TypeOK
<1>11. ASSUME NEW s \in Sync, SyncOpen(s) PROVE TypeOK'
  <2>1. s \in Actor /\ "18081" \in Port
    BY DEF Actor, Port
  <2>2. Dial(s, "18081") \/ UNCHANGED <<owns, tunnels, killed>>
    BY <1>11 DEF SyncOpen
  <2>3. Fault \/ UNCHANGED faults
    BY <1>11 DEF SyncOpen
  <2>4. pc' \in [Actor -> Label] /\ code' \in [Actor -> 0..6]
    BY <1>11, <2>1 DEF SyncOpen, Leave, Goto, TypeOK, Label
  <2> QED BY <1>11, <2>1, <2>2, <2>3, <2>4, DialType, FaultType
          DEF SyncOpen, TypeOK
<1>12. ASSUME NEW s \in Sync, SyncBody(s) PROVE TypeOK'
  <2>1. Fault \/ UNCHANGED faults
    BY <1>12 DEF SyncBody
  <2>2. \E n \in 0..6 : Leave(s, n)
    BY <1>12 DEF SyncBody
  <2> QED BY <1>12, <2>1, <2>2, FaultType, LeaveType DEF SyncBody, TypeOK, Actor
<1>13. ASSUME NEW s \in Sync, SyncClose(s) PROVE TypeOK'
  <2>1. s \in Actor
    BY DEF Actor
  <2>2. \/ sock \in Port /\ Hangup(sock) /\ gone' = (gone \/ sock = "8081")
        \/ UNCHANGED tunnels
    BY <1>13 DEF SyncClose, TypeOK
  <2>3. /\ holder' \in [Port -> Actor \cup {Nobody}] /\ sock' \in Port \cup {Nobody}
        /\ gone' \in BOOLEAN
    BY <2>2, HangupType DEF TypeOK
  <2> QED BY <1>13, <2>1, <2>3, EndType DEF SyncClose, TypeOK
<1>14. ASSUME NEW x \in Actor, Kill(x) PROVE TypeOK'
  <2>1. killed' \subseteq Actor
    BY <1>14 DEF Kill, TypeOK
  <2> QED BY <1>14, <2>1, EndType, FaultType DEF Kill, TypeOK
<1>15. ASSUME NEW q \in Port, SshDies(q) PROVE TypeOK'
  BY <1>15, HangupType, FaultType DEF SshDies, TypeOK
<1> QED BY <1>1, <1>2, <1>3, <1>4, <1>5, <1>6, <1>7, <1>8, <1>9, <1>10, <1>11,
           <1>12, <1>13, <1>14, <1>15, NextSteps DEF Steps

-----------------------------------------------------------------------------

\* A driver enters the books of those it runs beside, and leaves its plan where
\* only they can find it.
LEMMA StepPlans ==
  ASSUME TypeOK, Beside, PlanOfRoot, [Next]_vars
  PROVE  Beside' /\ PlanOfRoot'
<1> USE DEF Settings
<1>1. CASE UNCHANGED vars
  BY <1>1 DEF vars, Beside, PlanOfRoot
<1>2. ASSUME NEW d \in Driver, Begin(d) PROVE Beside' /\ PlanOfRoot'
  <2>1. PICK o \in Options :
           LET beside == {e \in Driver \ {d} : pc[e] # "idle" /\ opt[e].root = o.root}
           IN  /\ opt' = [opt EXCEPT ![d] = o]
               /\ met' = [e \in Driver |-> CASE e = d -> beside
                                             [] e \in beside -> met[e] \cup {d}
                                             [] OTHER -> met[e]]
    BY <1>2 DEF Begin
  <2> DEFINE beside == {e \in Driver \ {d} : pc[e] # "idle" /\ opt[e].root = o.root}
  <2>2. /\ opt'[d] = o /\ pc'[d] = "check" /\ met'[d] = beside
        /\ \A e \in Driver \ {d} : opt'[e] = opt[e] /\ pc'[e] = pc[e]
        /\ \A e \in beside : met'[e] = met[e] \cup {d}
        /\ \A e \in Driver \ {d} : e \notin beside => met'[e] = met[e]
        /\ plan' = plan
    BY <1>2, <2>1 DEF Begin, Goto, TypeOK, Actor
  <2>3. Beside'
    BY <2>2 DEF Beside
  <2>4. PlanOfRoot'
    BY <2>2 DEF PlanOfRoot
  <2> QED BY <2>3, <2>4
<1>3. ASSUME NEW d \in Driver,
             \/ CheckPrerequisites(d) \/ TofuInit(d) \/ LookForTunnel(d)
             \/ OpenTunnel(d) \/ Apply(d) \/ CheckOutput(d)
      PROVE  Beside' /\ PlanOfRoot'
  <2>1. /\ pc[d] # "idle" /\ pc'[d] # "apply"
        /\ \A e \in Driver \ {d} : pc'[e] = pc[e]
        /\ UNCHANGED <<opt, met, plan>>
    BY <1>3 DEF CheckPrerequisites, TofuInit, LookForTunnel, OpenTunnel, Apply,
                CheckOutput, Leave, Goto, TypeOK, Actor
  <2> QED BY <2>1 DEF Beside, PlanOfRoot
<1>4. ASSUME NEW d \in Driver, Plan(d) PROVE Beside' /\ PlanOfRoot'
  <2>1. /\ pc[d] = "plan" /\ \A e \in Driver \ {d} : pc'[e] = pc[e]
        /\ UNCHANGED <<opt, met>>
    BY <1>4 DEF Plan, Leave, Goto, TypeOK, Actor
  <2>2. Beside'
    BY <2>1 DEF Beside
  <2>3. \/ UNCHANGED plan /\ (pc'[d] = "apply" => opt[d].root \notin Cluster)
        \/ plan' = [plan EXCEPT ![opt[d].root] = d] /\ opt[d].root \in Cluster
    BY <1>4, RootAssumption DEF Plan, Leave, Goto, TypeOK, Actor, Options, Root
  <2>4. CASE UNCHANGED plan /\ (pc'[d] = "apply" => opt[d].root \notin Cluster)
    BY <2>1, <2>2, <2>4 DEF PlanOfRoot
  <2>5. CASE plan' = [plan EXCEPT ![opt[d].root] = d] /\ opt[d].root \in Cluster
    <3>1. plan'[opt[d].root] = d
          /\ \A r \in Cluster \ {opt[d].root} : plan'[r] = plan[r]
      BY <2>5 DEF TypeOK
    <3>2. \A e \in Driver \ {d} :
             pc[e] = "apply" /\ opt[e].root = opt[d].root => d \in met[e]
      BY <2>1 DEF Beside
    <3> QED BY <2>1, <2>2, <3>1, <3>2 DEF PlanOfRoot
  <2> QED BY <2>3, <2>4, <2>5
<1>5. ASSUME NEW x \in Actor, End(x), UNCHANGED plan PROVE Beside' /\ PlanOfRoot'
  <2>1. \A e \in Driver \ {x} : pc'[e] = pc[e] /\ opt'[e] = opt[e] /\ met'[e] = met[e]
    BY <1>5 DEF End, Goto, TypeOK, Actor
  <2>2. pc'[x] = "idle"
    BY <1>5 DEF End, Goto, TypeOK
  <2> QED BY <1>5, <2>1, <2>2 DEF Beside, PlanOfRoot
<1>6. ASSUME NEW s \in Sync, SyncOpen(s) \/ SyncBody(s)
      PROVE  Beside' /\ PlanOfRoot'
  <2>1. \A e \in Driver : pc'[e] = pc[e]
    BY <1>6, ActorAssumption DEF SyncOpen, SyncBody, Leave, Goto, TypeOK, Actor
  <2>2. UNCHANGED <<opt, met, plan>>
    BY <1>6 DEF SyncOpen, SyncBody
  <2> QED BY <2>1, <2>2 DEF Beside, PlanOfRoot
<1>7. ASSUME NEW q \in Port, SshDies(q) PROVE Beside' /\ PlanOfRoot'
  BY <1>7 DEF SshDies, Beside, PlanOfRoot
<1>8. ASSUME NEW x \in Actor, CloseTunnel(x) \/ SyncClose(x) \/ Kill(x)
      PROVE  Beside' /\ PlanOfRoot'
  BY <1>5, <1>8 DEF CloseTunnel, SyncClose, Kill
<1> QED BY <1>1, <1>2, <1>3, <1>4, <1>6, <1>7, <1>8, NextSteps DEF Steps, Actor

-----------------------------------------------------------------------------

\* A tunnel begins with its owner and ends with it, or with an accident that is
\* on record.
LEMMA StepTunnels ==
  ASSUME TypeOK, TunnelsInv, [Next]_vars
  PROVE  TunnelsInv'
<1> USE ActorAssumption
    DEF TypeOK, TunnelsInv, OwnerHasTunnel, DriverTunnelsAccounted,
        SyncTunnelsAccounted, tunnels, Actor, Port
<1>1. CASE UNCHANGED <<owns, tunnels, killed>>
  BY <1>1
<1>2. ASSUME NEW d \in Driver, Dial(d, "8081") PROVE TunnelsInv'
  <2>1. /\ holder["8081"] = Nobody /\ holder'["8081"] = d
        /\ holder'["18081"] = holder["18081"]
        /\ sock' \in {sock, "8081"} /\ owns'[d]
        /\ \A x \in Actor \ {d} : owns'[x] = owns[x] /\ (x \in killed => x \in killed')
        /\ UNCHANGED gone
    BY <1>2 DEF Dial, Bound
  <2> QED BY <2>1
<1>3. ASSUME NEW s \in Sync, Dial(s, "18081") PROVE TunnelsInv'
  <2>1. /\ holder["18081"] = Nobody /\ holder'["18081"] = s
        /\ holder'["8081"] = holder["8081"] /\ owns'[s]
        /\ \A x \in Actor \ {s} : owns'[x] = owns[x] /\ (x \in killed => x \in killed')
        /\ UNCHANGED gone
    BY <1>3 DEF Dial, Bound
  <2> QED BY <2>1
<1>4. ASSUME NEW d \in Driver, CloseTunnel(d) PROVE TunnelsInv'
  <2>1. /\ ~owns'[d] /\ \A x \in Actor \ {d} : owns'[x] = owns[x]
        /\ UNCHANGED <<gone, killed>>
    BY <1>4 DEF CloseTunnel, End
  <2>2. CASE owns[d]
    <3>1. /\ holder'["8081"] = Nobody /\ holder'["18081"] = holder["18081"]
          /\ sock' \in {sock, Nobody}
      BY <1>4, <2>2 DEF CloseTunnel, Hangup
    <3> QED BY <2>1, <2>2, <3>1
  <2>3. CASE ~owns[d]
    <3>1. UNCHANGED <<holder, sock>>
      BY <1>4, <2>3 DEF CloseTunnel
    <3> QED BY <2>1, <2>3, <3>1
  <2> QED BY <2>2, <2>3
<1>5. ASSUME NEW s \in Sync, SyncClose(s) PROVE TunnelsInv'
  <2>1. /\ ~owns'[s] /\ \A x \in Actor \ {s} : owns'[x] = owns[x]
        /\ UNCHANGED killed
    BY <1>5 DEF SyncClose, End
  <2>2. CASE owns[s] /\ sock # Nobody
    <3>1. /\ sock' = Nobody /\ gone' = (gone \/ sock = "8081")
          /\ holder' = [holder EXCEPT ![sock] = Nobody]
      BY <1>5, <2>2 DEF SyncClose, Hangup
    <3> QED BY <2>1, <2>2, <3>1
  <2>3. CASE ~(owns[s] /\ sock # Nobody)
    <3>1. UNCHANGED tunnels
      BY <1>5, <2>3 DEF SyncClose
    <3> QED BY <2>1, <2>3, <3>1
  <2> QED BY <2>2, <2>3
<1>6. ASSUME NEW x \in Actor, Kill(x) PROVE TunnelsInv'
  <2>1. /\ ~owns'[x] /\ \A y \in Actor \ {x} : owns'[y] = owns[y]
        /\ killed \subseteq killed' /\ (owns[x] => x \in killed')
        /\ UNCHANGED tunnels
    BY <1>6 DEF Kill, End
  <2> QED BY <2>1
<1>7. ASSUME NEW q \in Port, SshDies(q) PROVE TunnelsInv'
  <2>1. /\ holder' = [holder EXCEPT ![q] = Nobody]
        /\ sock' \in {sock, Nobody} /\ gone' = (gone \/ q = "8081")
        /\ UNCHANGED <<owns, killed>>
    BY <1>7 DEF SshDies, Hangup
  <2> QED BY <2>1
<1>8. ASSUME NEW d \in Driver,
             \/ Begin(d) \/ CheckPrerequisites(d) \/ TofuInit(d) \/ LookForTunnel(d)
             \/ Plan(d) \/ Apply(d) \/ CheckOutput(d)
      PROVE  TunnelsInv'
  BY <1>1, <1>8 DEF Begin, CheckPrerequisites, TofuInit, LookForTunnel, Plan, Apply,
                    CheckOutput
<1>9. ASSUME NEW d \in Driver, OpenTunnel(d) PROVE TunnelsInv'
  BY <1>1, <1>2, <1>9 DEF OpenTunnel
<1>10. ASSUME NEW s \in Sync, SyncOpen(s) \/ SyncBody(s) PROVE TunnelsInv'
  BY <1>1, <1>3, <1>10 DEF SyncOpen, SyncBody
<1>11. CASE UNCHANGED vars
  BY <1>1, <1>11 DEF vars
<1> QED BY <1>4, <1>5, <1>6, <1>7, <1>8, <1>9, <1>10, <1>11, NextSteps DEF Steps

LEMMA StepInv == ApplyInv /\ [Next]_vars => ApplyInv'
  BY StepTypes, StepPlans, StepTunnels DEF ApplyInv

LEMMA Invariance == Spec => []ApplyInv
  BY InitInv, StepInv, PTL DEF Spec

-----------------------------------------------------------------------------

\* Types: in particular exit codes are those that apply_tofu.py documents, and
\* the master behind the control socket is one of the two tunnels.
THEOREM TypeCorrect == Spec => []TypeOK
<1>1. ApplyInv => TypeOK
  BY DEF ApplyInv
<1> QED BY <1>1, Invariance, PTL

\* A driver has the PowerDNS tunnel it opened until it closes it, whoever
\* borrows it meanwhile (_powerdns_tunnel).
THEOREM OwnersHaveTunnels == Spec => []OwnerHasTunnel
<1>1. ApplyInv => OwnerHasTunnel
  BY DEF ApplyInv, TunnelsInv
<1> QED BY <1>1, Invariance, PTL

\* A tunnel on port 8081 whose driver has ended was left by one that was killed:
\* every other way out of _powerdns_tunnel closes what it opened.
THEOREM DriverTunnelsAreAccounted == Spec => []DriverTunnelsAccounted
<1>1. ApplyInv => DriverTunnelsAccounted
  BY DEF ApplyInv, TunnelsInv
<1> QED BY <1>1, Invariance, PTL

\* A tunnel on port 18081 outlives its sync only by a kill, or because it never
\* became the master of the control socket that `ssh -O exit` speaks to.
THEOREM SyncTunnelsAreAccounted == Spec => []SyncTunnelsAccounted
<1>1. ApplyInv => SyncTunnelsAccounted
  BY DEF ApplyInv, TunnelsInv
<1> QED BY <1>1, Invariance, PTL

\* A driver applies its own plan, or one of a driver it has run beside
\* (_apply_cluster).
THEOREM PlansAreCurrent == Spec => []PlanIsCurrent
<1>1. ApplyInv => PlanIsCurrent
  BY DEF ApplyInv, PlanOfRoot, PlanIsCurrent
<1> QED BY <1>1, Invariance, PTL

=============================================================================
