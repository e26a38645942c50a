------------------------------- MODULE Tunnel -------------------------------
(***************************************************************************)
(* tools/lib/pve_ssh.py: PveSshProxy.port_forward and ForwardedPort.  A     *)
(* call picks a local port, starts `ssh -N -L` in a session of its own and  *)
(* waits until something accepts a connection on that port.                 *)
(*                                                                         *)
(* Two kinds of caller: a bootstrap run terminates its tunnel in `finally`; *)
(* `kubeconfig_puller --port-forward` leaves it running on purpose.  Calls  *)
(* share nothing but the operator host's ports.                            *)
(*                                                                         *)
(* ssh is what the code relies on: it binds its port once it is connected,  *)
(* ExitOnForwardFailure makes it exit if the port is taken, and it may fail *)
(* to connect, or die, at any time.                                        *)
(***************************************************************************)
EXTENDS Naturals, FiniteSets

CONSTANTS
    Call,         \* calls of port_forward
    Detaching,    \* those made by kubeconfig_puller --port-forward
    Port,         \* local ports
    LocalPort,    \* the local_port argument of each call
    AnyPort       \* local_port is None or 0: pick a free one

ASSUME DetachingAssumption == Detaching \subseteq Call
ASSUME PortAssumption ==
    AnyPort \notin Port /\ LocalPort \in [Call -> Port \cup {AnyPort}]

VARIABLES
    pc,     \* where each call is
    port,   \* ForwardedPort.local_port
    ssh,    \* ForwardedPort.proc: the ssh process of the call
    late,   \* wait_ready's deadline has passed
    noisy   \* ssh has written the 1024 bytes of stderr that read() asks for

vars == <<pc, port, ssh, late, noisy>>

\* In port_forward: "picked" .. "reading".  With a tunnel: "using",
\* "finally".  Over: the others.
Waiting == {"poll", "connect", "reading"}
Ended == {"raised", "closed", "detached", "fetch_failed", "interrupted",
          "killed"}
Label == {"start", "picked", "using", "finally"} \cup Waiting \cup Ended

\* "refused": exited because another process had bound the port.
Process == {"none", "dialing", "bound", "refused", "exited"}

TypeOK ==
    /\ pc \in [Call -> Label]
    /\ port \in [Call -> Port \cup {AnyPort}]
    /\ ssh \in [Call -> Process]
    /\ late \in [Call -> BOOLEAN]
    /\ noisy \in [Call -> BOOLEAN]
    /\ \A c \in Call : pc[c] # "start" => port[c] \in Port

Init ==
    /\ pc = [c \in Call |-> "start"]
    /\ port = [c \in Call |-> AnyPort]
    /\ ssh = [c \in Call |-> "none"]
    /\ late = [c \in Call |-> FALSE]
    /\ noisy = [c \in Call |-> FALSE]

Alive(c) == ssh[c] \in {"dialing", "bound"}

Listening(q) == \E d \in Call : ssh[d] = "bound" /\ port[d] = q

Goto(c, label) == pc' = [pc EXCEPT ![c] = label]

-----------------------------------------------------------------------------
(* The call.                                                               *)

\* Mutant: local_port is passed on as it was given.
PickPortAsGiven(c) ==
    /\ pc[c] = "start"
    /\ port' = [port EXCEPT ![c] = LocalPort[c]]
    /\ Goto(c, "picked")
    /\ UNCHANGED <<ssh, late, noisy>>

\* local_port or _pick_free_port(): the probing socket is closed again, so
\* nothing holds the port until ssh binds it.
PickPort(c) ==
    /\ pc[c] = "start"
    /\ \E q \in Port :
          /\ IF LocalPort[c] = AnyPort THEN ~Listening(q) ELSE q = LocalPort[c]
          /\ port' = [port EXCEPT ![c] = q]
    /\ Goto(c, "picked")
    /\ UNCHANGED <<ssh, late, noisy>>

\* Popen.
Spawn(c) ==
    /\ pc[c] = "picked"
    /\ ssh' = [ssh EXCEPT ![c] = "dialing"]
    /\ Goto(c, "poll")
    /\ UNCHANGED <<port, late, noisy>>

\* proc.poll() says ssh is gone: RuntimeError with its stderr.
ExitedPrematurely(c) ==
    /\ pc[c] = "poll" /\ ~late[c] /\ ~Alive(c)
    /\ Goto(c, "raised")
    /\ UNCHANGED <<port, ssh, late, noisy>>

StillRunning(c) ==
    /\ pc[c] = "poll" /\ ~late[c] /\ Alive(c)
    /\ Goto(c, "connect")
    /\ UNCHANGED <<port, ssh, late, noisy>>

\* Mutant: a live ssh is taken for a tunnel.
ReadyWhenAlive(c) ==
    /\ pc[c] = "connect" /\ Alive(c)
    /\ Goto(c, "using")
    /\ UNCHANGED <<port, ssh, late, noisy>>

\* create_connection succeeds, whichever process listens on the port.
Ready(c) ==
    /\ pc[c] = "connect" /\ Listening(port[c])
    /\ Goto(c, "using")
    /\ UNCHANGED <<port, ssh, late, noisy>>

\* Mutant: every attempt gets a deadline of its own.
NotYetNewDeadline(c) ==
    /\ pc[c] = "connect" /\ ~Listening(port[c])
    /\ late' = [late EXCEPT ![c] = FALSE]
    /\ Goto(c, "poll")
    /\ UNCHANGED <<port, ssh, noisy>>

\* OSError: sleep 0.3s and look at the deadline again.
NotYet(c) ==
    /\ pc[c] = "connect" /\ ~Listening(port[c])
    /\ Goto(c, "poll")
    /\ UNCHANGED <<port, ssh, late, noisy>>

\* time.monotonic() >= deadline ends the loop.
TimedOut(c) ==
    /\ pc[c] = "poll" /\ late[c]
    /\ Goto(c, "reading")
    /\ UNCHANGED <<port, ssh, late, noisy>>

\* Mutant: the read returns what is buffered.
ReadStderrNonblocking(c) ==
    /\ pc[c] = "reading"
    /\ Goto(c, "raised")
    /\ UNCHANGED <<port, ssh, late, noisy>>

\* proc.stderr.read(1024): blocks for 1024 bytes or the end of the stream,
\* then RuntimeError.
ReadStderr(c) ==
    /\ pc[c] = "reading" /\ (~Alive(c) \/ noisy[c])
    /\ Goto(c, "raised")
    /\ UNCHANGED <<port, ssh, late, noisy>>

-----------------------------------------------------------------------------
(* What the callers do with the tunnel.                                    *)

\* The phases of a run are over, whatever way: its `finally` is reached.
RunEnds(c) ==
    /\ pc[c] = "using" /\ c \notin Detaching
    /\ Goto(c, "finally")
    /\ UNCHANGED <<port, ssh, late, noisy>>

\* terminate(): SIGTERM, and SIGKILL after two seconds, if ssh still runs.
Terminate(c) ==
    /\ pc[c] = "finally"
    /\ ssh' = [ssh EXCEPT ![c] = IF Alive(c) THEN "exited" ELSE @]
    /\ Goto(c, "closed")
    /\ UNCHANGED <<port, late, noisy>>

\* kubeconfig_puller fetches the kubeconfig, writes it with the port, and
\* drops its reference to the tunnel.
Detach(c) ==
    /\ pc[c] = "using" /\ c \in Detaching
    /\ Goto(c, "detached")
    /\ UNCHANGED <<port, ssh, late, noisy>>

\* The fetch raises; nothing terminates the tunnel.
FetchFails(c) ==
    /\ pc[c] = "using" /\ c \in Detaching
    /\ Goto(c, "fetch_failed")
    /\ UNCHANGED <<port, ssh, late, noisy>>

-----------------------------------------------------------------------------
(* ssh, the clock, the operator.                                           *)

SshBinds(c) ==
    /\ ssh[c] = "dialing" /\ ~Listening(port[c])
    /\ ssh' = [ssh EXCEPT ![c] = "bound"]
    /\ UNCHANGED <<pc, port, late, noisy>>

\* ExitOnForwardFailure=yes.
SshRefused(c) ==
    /\ ssh[c] = "dialing" /\ Listening(port[c])
    /\ ssh' = [ssh EXCEPT ![c] = "refused"]
    /\ UNCHANGED <<pc, port, late, noisy>>

\* The login fails, the connection is lost, or the operator kills it.
SshExits(c) ==
    /\ Alive(c)
    /\ ssh' = [ssh EXCEPT ![c] = "exited"]
    /\ UNCHANGED <<pc, port, late, noisy>>

SshWarns(c) ==
    /\ Alive(c) /\ ~noisy[c]
    /\ noisy' = [noisy EXCEPT ![c] = TRUE]
    /\ UNCHANGED <<pc, port, ssh, late>>

DeadlinePasses(c) ==
    /\ pc[c] \in Waiting /\ ~late[c]
    /\ late' = [late EXCEPT ![c] = TRUE]
    /\ UNCHANGED <<pc, port, ssh, noisy>>

\* Ctrl-C is a KeyboardInterrupt in the caller only: ssh has a session of its
\* own.  A run that has its tunnel still reaches `finally`; inside
\* port_forward nobody holds the process yet, and the puller has no handler.
Interrupt(c) ==
    /\ pc[c] \in Waiting \cup {"picked", "using"}
    /\ IF pc[c] = "using" /\ c \notin Detaching
       THEN Goto(c, "finally") ELSE Goto(c, "interrupted")
    /\ UNCHANGED <<port, ssh, late, noisy>>

\* SIGKILL: no `finally`.
Kill(c) ==
    /\ pc[c] \in Waiting \cup {"picked", "using", "finally"}
    /\ Goto(c, "killed")
    /\ UNCHANGED <<port, ssh, late, noisy>>

-----------------------------------------------------------------------------

PortForward(c) ==
    \/ PickPort(c) \/ Spawn(c)
    \/ ExitedPrematurely(c) \/ StillRunning(c) \/ Ready(c) \/ NotYet(c)
    \/ TimedOut(c) \/ ReadStderr(c)

Caller(c) == RunEnds(c) \/ Terminate(c) \/ Detach(c) \/ FetchFails(c)

Ssh(c) == SshBinds(c) \/ SshRefused(c) \/ SshExits(c) \/ SshWarns(c)

Next ==
    \E c \in Call :
        \/ PortForward(c)
        \/ Caller(c)
        \/ Ssh(c)
        \/ DeadlinePasses(c)
        \/ Interrupt(c)
        \/ Kill(c)

Spec == Init /\ [][Next]_vars

\* The caller's process is scheduled and its clock advances.  Nothing is
\* assumed of ssh: the code sets no ConnectTimeout, so it may dial, and once
\* connected it may stay, for ever.
FairSpec ==
    /\ Spec
    /\ \A c \in Call :
          /\ WF_vars(PortForward(c))
          /\ WF_vars(RunEnds(c)) /\ WF_vars(Terminate(c))
          /\ WF_vars(Detach(c) \/ FetchFails(c))
          /\ WF_vars(DeadlinePasses(c))

-----------------------------------------------------------------------------
(* Properties.                                                             *)

\* An ssh process that still runs is in the hands of the call that started
\* it, or was left for one of the reasons the code has: detached on purpose,
\* a puller whose fetch failed, a caller interrupted or killed, or a wait
\* that gave up while ssh's stderr was full.  The interrupted caller and the
\* wait that gave up are orphans the documentation denies (NoOrphanSsh, in
\* MCTunnel, is refuted); what holds is that there are no others: a call that
\* got its tunnel and ended by itself, in error or not, leaves none.
LeaksAccounted ==
    \A c \in Call : Alive(c) =>
        \/ pc[c] \in Waiting \cup {"using", "finally"}
        \/ pc[c] \in {"detached", "fetch_failed", "interrupted", "killed"}
        \/ pc[c] = "raised" /\ late[c] /\ noisy[c]

\* The caller was told that its tunnel is ready.
ToldReady(c) == pc[c] \in {"using", "finally", "detached", "fetch_failed"}

\* No other call has chosen the port of c.
Private(c) == \A d \in Call \ {c} : port[d] # port[c]

\* Readiness is tested by connecting to the port, not by asking ssh.  For a
\* port no other call has chosen, before or since, that is enough: a caller
\* that was told the tunnel is ready has an ssh that got its connection and
\* bound the port, though it may have died afterwards.
ReadyIsMine ==
    \A c \in Call : ToldReady(c) /\ Private(c) => ssh[c] \in {"bound", "exited"}

\* wait_ready comes to an end (it returns or raises) unless it is blocked for
\* ever on the stderr of an ssh that stays alive and quiet.
StuckOnlyOnStderr ==
    \A c \in Call :
        \/ (pc[c] \in Waiting) ~> (pc[c] \notin Waiting)
        \/ <>[](pc[c] = "reading" /\ Alive(c) /\ ~noisy[c])

=============================================================================
