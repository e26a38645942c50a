---------------------------- MODULE TunnelProofs ----------------------------
(***************************************************************************)
(* Module Tunnel for any number of calls and ports: types, what becomes of  *)
(* ssh processes, and what "ready" means.                                  *)
(***************************************************************************)
EXTENDS Tunnel, TLAPS

\* What the properties need beyond themselves: ssh is not started before the
\* port is chosen, and stderr is read only after the deadline.
Started ==
    \A c \in Call :
        /\ pc[c] = "start" => port[c] = AnyPort
        /\ pc[c] \in {"start", "picked"} => ssh[c] = "none"
        /\ pc[c] = "reading" => late[c]

TunnelInv == TypeOK /\ Started /\ LeaksAccounted /\ ReadyIsMine

-----------------------------------------------------------------------------

LEMMA InitInv == Init => TunnelInv
  BY DetachingAssumption, PortAssumption
  DEF Init, TunnelInv, TypeOK, Started, LeaksAccounted, ReadyIsMine,
      ToldReady, Private, Label, Process, Waiting, Ended, Alive

\* Types and start-up order are kept by every step.
LEMMA StepTypes ==
  ASSUME TypeOK, Started, [Next]_vars
  PROVE  TypeOK' /\ Started'
<1> USE DetachingAssumption, PortAssumption
     DEF TypeOK, Started, Label, Process, Waiting, Ended, Alive
<1>1. CASE UNCHANGED vars
  BY <1>1 DEF vars
<1>2. ASSUME NEW c \in Call, PortForward(c) PROVE TypeOK' /\ Started'
  <2>1. CASE PickPort(c)
    BY <2>1 DEF PickPort, Goto
  <2>2. CASE Spawn(c)
    BY <2>2 DEF Spawn, Goto
  <2>3. CASE ExitedPrematurely(c)
    BY <2>3 DEF ExitedPrematurely, Goto
  <2>4. CASE StillRunning(c)
    BY <2>4 DEF StillRunning, Goto
  <2>5. CASE Ready(c)
    BY <2>5 DEF Ready, Goto
  <2>6. CASE NotYet(c)
    BY <2>6 DEF NotYet, Goto
  <2>7. CASE TimedOut(c)
    BY <2>7 DEF TimedOut, Goto
  <2>8. CASE ReadStderr(c)
    BY <2>8 DEF ReadStderr, Goto
  <2> QED BY <1>2, <2>1, <2>2, <2>3, <2>4, <2>5, <2>6, <2>7, <2>8 DEF PortForward
<1>3. ASSUME NEW c \in Call, Caller(c) PROVE TypeOK' /\ Started'
  <2>1. CASE RunEnds(c)
    BY <2>1 DEF RunEnds, Goto
  <2>2. CASE Terminate(c)
    BY <2>2 DEF Terminate, Goto
  <2>3. CASE Detach(c)
    BY <2>3 DEF Detach, Goto
  <2>4. CASE FetchFails(c)
    BY <2>4 DEF FetchFails, Goto
  <2> QED BY <1>3, <2>1, <2>2, <2>3, <2>4 DEF Caller
<1>4. ASSUME NEW c \in Call, Ssh(c) PROVE TypeOK' /\ Started'
  BY <1>4 DEF Ssh, SshBinds, SshRefused, SshExits, SshWarns
<1>5. ASSUME NEW c \in Call, DeadlinePasses(c) PROVE TypeOK' /\ Started'
  BY <1>5 DEF DeadlinePasses
<1>6. ASSUME NEW c \in Call, Interrupt(c) PROVE TypeOK' /\ Started'
  BY <1>6 DEF Interrupt, Goto
<1>7. ASSUME NEW c \in Call, Kill(c) PROVE TypeOK' /\ Started'
  BY <1>7 DEF Kill, Goto
<1> QED BY <1>1, <1>2, <1>3, <1>4, <1>5, <1>6, <1>7 DEF Next

\* Nothing but the listed reasons makes a caller let go of a live ssh.
LEMMA StepLeaks ==
  ASSUME TypeOK, Started, LeaksAccounted, [Next]_vars
  PROVE  LeaksAccounted'
<1> USE DetachingAssumption, PortAssumption
     DEF TypeOK, Started, LeaksAccounted, Label, Process, Waiting, Ended, Alive
<1>1. CASE UNCHANGED vars
  BY <1>1 DEF vars
<1>2. ASSUME NEW c \in Call, PortForward(c) PROVE LeaksAccounted'
  <2>1. CASE PickPort(c)
    BY <2>1 DEF PickPort, Goto
  <2>2. CASE Spawn(c)
    BY <2>2 DEF Spawn, Goto
  <2>3. CASE ExitedPrematurely(c)
    BY <2>3 DEF ExitedPrematurely, Goto
  <2>4. CASE StillRunning(c)
    BY <2>4 DEF StillRunning, Goto
  <2>5. CASE Ready(c)
    BY <2>5 DEF Ready, Goto
  <2>6. CASE NotYet(c)
    BY <2>6 DEF NotYet, Goto
  <2>7. CASE TimedOut(c)
    BY <2>7 DEF TimedOut, Goto
  <2>8. CASE ReadStderr(c)
    BY <2>8 DEF ReadStderr, Goto
  <2> QED BY <1>2, <2>1, <2>2, <2>3, <2>4, <2>5, <2>6, <2>7, <2>8 DEF PortForward
<1>3. ASSUME NEW c \in Call, Caller(c) PROVE LeaksAccounted'
  <2>1. CASE RunEnds(c)
    BY <2>1 DEF RunEnds, Goto
  <2>2. CASE Terminate(c)
    BY <2>2 DEF Terminate, Goto
  <2>3. CASE Detach(c)
    BY <2>3 DEF Detach, Goto
  <2>4. CASE FetchFails(c)
    BY <2>4 DEF FetchFails, Goto
  <2> QED BY <1>3, <2>1, <2>2, <2>3, <2>4 DEF Caller
<1>4. ASSUME NEW c \in Call, Ssh(c) PROVE LeaksAccounted'
  <2>1. CASE SshBinds(c)
    BY <2>1 DEF SshBinds
  <2>2. CASE SshRefused(c)
    BY <2>2 DEF SshRefused
  <2>3. CASE SshExits(c)
    BY <2>3 DEF SshExits
  <2>4. CASE SshWarns(c)
    BY <2>4 DEF SshWarns
  <2> QED BY <1>4, <2>1, <2>2, <2>3, <2>4 DEF Ssh
<1>5. ASSUME NEW c \in Call, DeadlinePasses(c) PROVE LeaksAccounted'
  BY <1>5 DEF DeadlinePasses
<1>6. ASSUME NEW c \in Call, Interrupt(c) PROVE LeaksAccounted'
  BY <1>6 DEF Interrupt, Goto
<1>7. ASSUME NEW c \in Call, Kill(c) PROVE LeaksAccounted'
  BY <1>7 DEF Kill, Goto
<1> QED BY <1>1, <1>2, <1>3, <1>4, <1>5, <1>6, <1>7 DEF Next

\* A caller of a private port is told it is ready only when its own ssh has
\* bound it, since nobody else can be listening there.
LEMMA StepReady ==
  ASSUME TypeOK, Started, ReadyIsMine, [Next]_vars
  PROVE  ReadyIsMine'
<1> USE DetachingAssumption, PortAssumption
     DEF TypeOK, Started, ReadyIsMine, ToldReady, Private, Label, Process, Waiting, Ended
<1>1. CASE UNCHANGED vars
  BY <1>1 DEF vars
<1>2. ASSUME NEW c \in Call, PortForward(c) PROVE ReadyIsMine'
  <2>1. CASE PickPort(c)
    BY <2>1 DEF PickPort, Goto
  <2>2. CASE Spawn(c)
    BY <2>2 DEF Spawn, Goto
  <2>3. CASE ExitedPrematurely(c)
    BY <2>3 DEF ExitedPrematurely, Goto
  <2>4. CASE StillRunning(c)
    BY <2>4 DEF StillRunning, Goto
  <2>5. CASE Ready(c)
    BY <2>5 DEF Ready, Goto, Listening
  <2>6. CASE NotYet(c)
    BY <2>6 DEF NotYet, Goto
  <2>7. CASE TimedOut(c)
    BY <2>7 DEF TimedOut, Goto
  <2>8. CASE ReadStderr(c)
    BY <2>8 DEF ReadStderr, Goto
  <2> QED BY <1>2, <2>1, <2>2, <2>3, <2>4, <2>5, <2>6, <2>7, <2>8 DEF PortForward
<1>3. ASSUME NEW c \in Call, Caller(c) PROVE ReadyIsMine'
  <2>1. CASE RunEnds(c)
    BY <2>1 DEF RunEnds, Goto
  <2>2. CASE Terminate(c)
    BY <2>2 DEF Terminate, Goto
  <2>3. CASE Detach(c)
    BY <2>3 DEF Detach, Goto
  <2>4. CASE FetchFails(c)
    BY <2>4 DEF FetchFails, Goto
  <2> QED BY <1>3, <2>1, <2>2, <2>3, <2>4 DEF Caller
<1>4. ASSUME NEW c \in Call, Ssh(c) PROVE ReadyIsMine'
  <2>1. CASE SshBinds(c)
    BY <2>1 DEF SshBinds
  <2>2. CASE SshRefused(c)
    BY <2>2 DEF SshRefused
  <2>3. CASE SshExits(c)
    BY <2>3 DEF SshExits
  <2>4. CASE SshWarns(c)
    BY <2>4 DEF SshWarns
  <2> QED BY <1>4, <2>1, <2>2, <2>3, <2>4 DEF Ssh
<1>5. ASSUME NEW c \in Call, DeadlinePasses(c) PROVE ReadyIsMine'
  BY <1>5 DEF DeadlinePasses
<1>6. ASSUME NEW c \in Call, Interrupt(c) PROVE ReadyIsMine'
  BY <1>6 DEF Interrupt, Goto
<1>7. ASSUME NEW c \in Call, Kill(c) PROVE ReadyIsMine'
  BY <1>7 DEF Kill, Goto
<1> QED BY <1>1, <1>2, <1>3, <1>4, <1>5, <1>6, <1>7 DEF Next

-----------------------------------------------------------------------------

LEMMA Invariance == Spec => []TunnelInv
<1>1. TunnelInv /\ [Next]_vars => TunnelInv'
  BY StepTypes, StepLeaks, StepReady DEF TunnelInv
<1> QED BY InitInv, <1>1, PTL DEF Spec

\* The variables keep their types, and a port is chosen before it is used.
THEOREM TunnelTypes == Spec => []TypeOK
<1>1. TunnelInv => TypeOK
  BY DEF TunnelInv
<1> QED BY Invariance, <1>1, PTL

\* However calls, deaths of ssh, interrupts and kills interleave, an ssh that
\* still runs is held by its caller or was left for a reason the code has.
THEOREM LeaksAreAccounted == Spec => []LeaksAccounted
<1>1. TunnelInv => LeaksAccounted
  BY DEF TunnelInv
<1> QED BY Invariance, <1>1, PTL

\* With a port nobody else has chosen, connecting to it is a sound test that
\* one's own tunnel is up: what Bootstrap's one-step OpenTunnel relies on.
THEOREM ReadyMeansMine == Spec => []ReadyIsMine
<1>1. TunnelInv => ReadyIsMine
  BY DEF TunnelInv
<1> QED BY Invariance, <1>1, PTL

=============================================================================
