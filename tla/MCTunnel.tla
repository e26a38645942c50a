------------------------------ MODULE MCTunnel ------------------------------
(* Module Tunnel for TLC: two overlapping calls.                            *)
EXTENDS Tunnel, TLC

CONSTANTS puller, run

\* The puller has --local-port p1; the run lets the kernel choose.
FixedAndFree == (puller :> "p1") @@ (run :> AnyPort)

\* What SKILL.md:1218-1219 says of an interrupted pipeline: "The script does
\* not leave orphan ssh processes on the operator host."  Of a call that got
\* its tunnel and reaches its `finally` this is so; but until port_forward has
\* returned, nobody holds the process of a wait that gives up (pve_ssh.py:364)
\* or is interrupted.  A kill leaves no process to do it and is not counted,
\* nor is the puller, which detaches its tunnel on purpose.
NoOrphanSsh ==
    \A c \in Call \ Detaching :
        pc[c] \in {"raised", "interrupted", "closed"} => ~Alive(c)

=============================================================================
