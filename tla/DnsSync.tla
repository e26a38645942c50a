------------------------------ MODULE DnsSync -------------------------------
(***************************************************************************)
(* scripts/sync_dns_to_sdn.py: for each VM it is given, in order, it asks   *)
(* the guest agent for an address, which is to be the one the SDN has       *)
(* leased, and replaces the A record of the name and a PTR record of the    *)
(* address in PowerDNS, through an ssh tunnel.  The first failure ends the  *)
(* run.                                                                     *)
(*                                                                         *)
(* The operator runs it after every apply, and again when it fails.  Only   *)
(* the port of the tunnel keeps two runs apart.                             *)
(***************************************************************************)
EXTENDS Naturals, SequencesExt

CONSTANTS
    Sync,      \* runs of the script
    Target,    \* the names on its command line, in their order
    Addr,      \* addresses the SDN leases, as sequences of octets
    Other,     \* addresses of a guest's other interfaces: a CNI, a bridge
    Zone,      \* --reverse-zone, as a sequence of labels
    None,
    Changes,   \* bound on new leases
    Faults     \* bound on failed calls, addresses of other interfaces that are
               \* reported, killed runs and dying tunnels

ASSUME SyncAssumption == None \notin Sync
ASSUME TargetAssumption ==
    Target \in Seq(STRING) /\ Target # <<>> /\ None \notin ToSet(Target)
ASSUME AddrAssumption ==
    /\ Addr \subseteq Seq(Nat) /\ Other \subseteq Seq(Nat)
    /\ Addr \cap Other = {} /\ None \notin Addr \cup Other
ASSUME ZoneAssumption == Zone \in Seq(STRING)
ASSUME BoundAssumption == Changes \in Nat /\ Faults \in Nat

Name == ToSet(Target)

\* What a guest agent may report.
Seen == Addr \cup Other

\* _reverse_name: whatever the zone is, all octets are put before it.  Its
\* docstring has 61.0.0.10.in-addr.arpa. for 10.0.0.61; with the default zone,
\* 10.in-addr.arpa., it returns 61.0.0.10.10.in-addr.arpa.
ReverseName(x) == Reverse(x) \o Zone
ReverseNames == {ReverseName(x) : x \in Seen}

\* A record that a PATCH replaces.
Put == [type : {"A"}, name : Name, value : Seen]
          \cup [type : {"PTR"}, name : ReverseNames, value : Name]

VARIABLES
    lease,    \* the address of each VM
    a, ptr,   \* the two zones of PowerDNS
    pc, code,
    at,       \* which target the run is at
    ip,       \* and the address it has read
    tunnel,   \* the run whose ssh listens on port 18081
    mux,      \* ssh_config sets a ControlPath
    late,     \* requests given up by their run and not done yet
    changes, faults,
    had,      \* history: the addresses each VM has had
    clean     \* runs that were told leased addresses and not interfered with

records == <<a, ptr>>
counters == <<changes, faults>>
vars == <<lease, records, pc, code, at, ip, tunnel, mux, late, counters, had, clean>>

TypeOK ==
    /\ lease \in [Name -> Addr]
    /\ a \in [Name -> Seen \cup {None}]
    /\ ptr \in [ReverseNames -> Name \cup {None}]
    /\ pc \in [Sync -> {"idle", "query", "A", "PTR", "close"}]
    /\ code \in [Sync -> 0..5]
    /\ at \in [Sync -> DOMAIN Target]
    /\ ip \in [Sync -> Seen \cup {None}]
    /\ tunnel \in Sync \cup {None}
    /\ mux \in BOOLEAN
    /\ late \subseteq Put
    /\ changes \in 0..Changes /\ faults \in 0..Faults
    /\ had \in [Name -> SUBSET Addr]
    /\ clean \subseteq Sync

Init ==
    /\ lease \in [Name -> Addr]
    /\ \A m, n \in Name : m # n => lease[m] # lease[n]
    /\ a = [n \in Name |-> None]
    /\ ptr = [x \in ReverseNames |-> None]
    /\ pc = [s \in Sync |-> "idle"]
    /\ code = [s \in Sync |-> 0]
    /\ at = [s \in Sync |-> 1]
    /\ ip = [s \in Sync |-> None]
    /\ tunnel = None
    /\ mux \in BOOLEAN
    /\ late = {}
    /\ changes = 0 /\ faults = 0
    /\ had = [n \in Name |-> {lease[n]}]
    /\ clean = {}

Goto(s, label) == pc' = [pc EXCEPT ![s] = label]

\* The run returns n, through the `finally` of the tunnel.
Leave(s, n) == Goto(s, "close") /\ code' = [code EXCEPT ![s] = n]

Fault == faults < Faults /\ faults' = faults + 1

Running == {s \in Sync : pc[s] # "idle"}

\* PowerDNS replaces the record of that name and type.
Replace(p) ==
    /\ a' = IF p.type = "A" THEN [a EXCEPT ![p.name] = p.value] ELSE a
    /\ ptr' = IF p.type = "PTR" THEN [ptr EXCEPT ![p.name] = p.value] ELSE ptr

-----------------------------------------------------------------------------
(* A run.                                                                  *)

\* The port is taken, or ssh cannot log in: exit code 3, nothing to close.
OpenTunnel(s) ==
    /\ pc[s] = "idle"
    /\ at' = [at EXCEPT ![s] = 1]
    /\ \/ /\ tunnel = None
          /\ tunnel' = s
          /\ Goto(s, "query")
          /\ clean' = IF Running = {} THEN {s} ELSE {}
          /\ UNCHANGED <<code, faults>>
       \/ /\ tunnel # None
          /\ code' = [code EXCEPT ![s] = 3]
          /\ UNCHANGED <<pc, tunnel, clean, faults>>
       \/ /\ Fault
          /\ code' = [code EXCEPT ![s] = 3]
          /\ UNCHANGED <<pc, tunnel, clean>>
    /\ UNCHANGED <<lease, records, ip, mux, late, changes, had>>

\* Mutant: a VM that cannot be asked is taken to have the address last read.
GetAddressOrLast(s) ==
    /\ pc[s] = "query"
    /\ Goto(s, "A")
    /\ \/ /\ ip' = [ip EXCEPT ![s] = lease[Target[at[s]]]]
          /\ UNCHANGED <<clean, faults>>
       \/ ip[s] # None /\ Fault /\ UNCHANGED <<ip, clean>>
    /\ UNCHANGED <<lease, records, code, at, tunnel, mux, late, changes, had>>

\* _get_ens18_ipv4: the first IPv4 address the agent lists for an interface not
\* named lo.  It is that of ens18, the lease, unless ens18 has none yet or is
\* listed later.  No answer in time is an exception nobody catches (1).
GetAddress(s) ==
    /\ pc[s] = "query"
    /\ \/ /\ ip' = [ip EXCEPT ![s] = lease[Target[at[s]]]]
          /\ Goto(s, "A")
          /\ UNCHANGED <<code, clean, faults>>
       \/ /\ Fault
          /\ \E x \in Other : ip' = [ip EXCEPT ![s] = x]
          /\ clean' = clean \ {s}
          /\ Goto(s, "A")
          /\ UNCHANGED code
       \/ Fault /\ (\E n \in {1, 4} : Leave(s, n)) /\ UNCHANGED <<ip, clean>>
    /\ UNCHANGED <<lease, records, at, tunnel, mux, late, changes, had>>

\* Mutant: a failed PATCH is logged, and the run goes on.
PatchAnyway(s, p, Continue) ==
    /\ \/ /\ tunnel # None
          /\ Replace(p) /\ Continue
          /\ UNCHANGED <<late, faults>>
       \/ /\ tunnel # None /\ Fault /\ Continue
          /\ UNCHANGED <<records, late>>
       \/ /\ tunnel = None /\ Continue
          /\ UNCHANGED <<records, late, faults>>
    /\ UNCHANGED <<lease, ip, tunnel, mux, changes, had, clean>>

\* A PATCH: done, and the run goes on; done, refused or still on its way, and
\* the run ends.
Patch(s, p, Continue) ==
    /\ \/ /\ tunnel # None
          /\ Replace(p) /\ Continue
          /\ UNCHANGED <<late, faults>>
       \/ /\ tunnel # None /\ Fault
          /\ \/ Replace(p) /\ UNCHANGED late
             \/ UNCHANGED <<records, late>>
             \/ late' = late \cup {p} /\ UNCHANGED records
          /\ \E n \in {1, 5} : Leave(s, n)
          /\ UNCHANGED at
       \/ /\ tunnel = None
          /\ Leave(s, 5)
          /\ UNCHANGED <<records, late, faults, at>>
    /\ UNCHANGED <<lease, ip, tunnel, mux, changes, had, clean>>

\* On to the next target.  Mutant: one too far.
ProceedPastEnd(s) ==
    IF at[s] <= Len(Target)
    THEN /\ Goto(s, "query")
         /\ at' = [at EXCEPT ![s] = @ + 1]
         /\ UNCHANGED code
    ELSE Leave(s, 0) /\ UNCHANGED at

Proceed(s) ==
    IF at[s] < Len(Target)
    THEN /\ Goto(s, "query")
         /\ at' = [at EXCEPT ![s] = @ + 1]
         /\ UNCHANGED code
    ELSE Leave(s, 0) /\ UNCHANGED at

\* Mutant: a name that has its address already is skipped.
PutAddressIfNew(s) ==
    /\ pc[s] = "A"
    /\ IF a[Target[at[s]]] = ip[s]
       THEN /\ Proceed(s)
            /\ UNCHANGED <<lease, records, ip, tunnel, mux, late, counters, had, clean>>
       ELSE Patch(s, [type |-> "A", name |-> Target[at[s]], value |-> ip[s]],
                  Goto(s, "PTR") /\ UNCHANGED <<code, at>>)

PutAddress(s) ==
    /\ pc[s] = "A"
    /\ Patch(s, [type |-> "A", name |-> Target[at[s]], value |-> ip[s]],
             Goto(s, "PTR") /\ UNCHANGED <<code, at>>)

PutReverse(s) ==
    /\ pc[s] = "PTR"
    /\ Patch(s, [type |-> "PTR", name |-> ReverseName(ip[s]), value |-> Target[at[s]]],
             Proceed(s))

\* `ssh -O exit` reaches the ssh behind the control socket, if there is one.
CloseTunnel(s) ==
    /\ pc[s] = "close"
    /\ Goto(s, "idle")
    /\ tunnel' = IF mux THEN None ELSE tunnel
    /\ clean' = clean \ {s}
    /\ ip' = [ip EXCEPT ![s] = None]
    /\ UNCHANGED <<lease, records, code, at, mux, late, counters, had>>

-----------------------------------------------------------------------------
(* What happens to runs, tunnels, requests and VMs.                        *)

Kill(s) ==
    /\ pc[s] # "idle" /\ Fault
    /\ Goto(s, "idle")
    /\ clean' = clean \ {s}
    /\ ip' = [ip EXCEPT ![s] = None]
    /\ UNCHANGED <<lease, records, code, at, tunnel, mux, late, changes, had>>

SshDies ==
    /\ tunnel # None /\ Fault
    /\ tunnel' = None
    /\ UNCHANGED <<lease, records, pc, code, at, ip, mux, late, changes, had, clean>>

\* The operator ends a tunnel that was left behind.
Release ==
    /\ tunnel \in Sync \ Running
    /\ tunnel' = None
    /\ UNCHANGED <<lease, records, pc, code, at, ip, mux, late, counters, had, clean>>

Land ==
    /\ \E p \in late : Replace(p) /\ late' = late \ {p}
    /\ clean' = {}
    /\ UNCHANGED <<lease, pc, code, at, ip, tunnel, mux, counters, had>>

\* A VM gets another address, one that no VM has.
Renew(n) ==
    /\ changes < Changes /\ changes' = changes + 1
    /\ \E x \in Addr \ {lease[m] : m \in Name} :
          /\ lease' = [lease EXCEPT ![n] = x]
          /\ had' = [had EXCEPT ![n] = @ \cup {x}]
    /\ clean' = {}
    /\ UNCHANGED <<records, pc, code, at, ip, tunnel, mux, late, faults>>

-----------------------------------------------------------------------------

Step(s) == GetAddress(s) \/ PutAddress(s) \/ PutReverse(s) \/ CloseTunnel(s)

Next ==
    \/ \E s \in Sync : OpenTunnel(s) \/ Step(s) \/ Kill(s)
    \/ SshDies \/ Release \/ Land
    \/ \E n \in Name : Renew(n)

Spec == Init /\ [][Next]_vars

\* A run goes on while it is not killed, and the script is run again.
FairSpec == Spec /\ \A s \in Sync : WF_vars(Step(s)) /\ WF_vars(OpenTunnel(s))

-----------------------------------------------------------------------------
(* Properties.                                                             *)

\* Every name has the address leased to its VM, and the reverse name that the
\* script makes of that address has the name.  That is not yet the PTR record a
\* resolver asks for: see ReverseName.
Synced ==
    \A n \in Name : a[n] = lease[n] /\ ptr[ReverseName(lease[n])] = n

\* Whatever fails, overlaps or lands late, no record ever joins a name and an
\* SDN address that was never leased to it, such as one leased to another VM.
\* (The addresses of other interfaces do get into the records: the docstring of
\* _get_ens18_ipv4 says "return the IPv4 of ens18", which it never looks for.)
NeverForeign ==
    \A n \in Name :
        /\ a[n] \in Addr => a[n] \in had[n]
        /\ \A x \in Addr : ptr[ReverseName(x)] = n => x \in had[n]

\* A run that ends with 0 leaves every record as Synced has it; unless it was
\* told the address of another interface, a lease has changed, a late request
\* has landed or another run has interfered.
OkMeansSynced ==
    \A s \in clean : pc[s] = "close" /\ code[s] = 0 => Synced

\* Nothing runs and the port is free.
Quiet == Running = {} /\ tunnel = None

\* If it gets quiet again and again, repeating the script gets the records as
\* Synced has them for good: also after half a run, after the address of
\* another interface was recorded, and with an old request or an old run still
\* to come.  (It may never get quiet: after an ssh has died two runs can go on
\* closing each other's tunnels.)
Converges == []<>Quiet => <>[]Synced

=============================================================================
