----------------------------- MODULE HomeConfig -----------------------------
(***************************************************************************)
(* _merge_into_default of tools/lib/kubeconfig_merger.py, call by call: it  *)
(* is to merge the kubeconfig of a cluster into the operator's              *)
(* ~/.kube/config, which other runs merge into and the operator edits as    *)
(* well.  Nothing locks the file, and writing it truncates it first.        *)
(*                                                                         *)
(* What a file holds is a set of things: the contexts of the operator, and  *)
(* the entries of a cluster.                                               *)
(***************************************************************************)
EXTENDS Naturals, FiniteSets

CONSTANTS
    Merger,      \* runs that merge
    ClusterOf,   \* the cluster of each
    Context,     \* contexts of the operator
    Missing, Garbled,
    NoEntries,   \* a document without contexts, which is not 0 bytes long
    Time,        \* bound on writes of the file: the modification times
    Faults       \* bound on runs being killed

Cluster == {ClusterOf[m] : m \in Merger}

Thing == Cluster \cup Context

\* The set {} is the file of 0 bytes.
File == (SUBSET Thing) \cup {Missing, Garbled, NoEntries}

ASSUME FileAssumption ==
    /\ Missing # Garbled /\ NoEntries \notin {Missing, Garbled}
    /\ \A f \in SUBSET Thing : f \notin {Missing, Garbled, NoEntries}
ASSUME BoundAssumption == Time \in Nat /\ Faults \in Nat

VARIABLES
    config, mtime,   \* ~/.kube/config
    backups,         \* config.bak.<mtime>
    pc, ts, merged,  \* a run: the time it has read, and what it will write
    faults,
    had,             \* history: contexts the operator has ever had there
    since,           \* what the file held when a run looked at it
    disturbed        \* two runs, or a run and an edit, have overlapped

file == <<config, mtime>>
history == <<had, since>>
vars == <<file, backups, pc, ts, merged, faults, history, disturbed>>

TypeOK ==
    /\ config \in File
    /\ mtime \in 0..Time
    /\ backups \in [0..Time -> File]
    /\ pc \in [Merger -> {"idle", "stamp", "backup", "view", "truncate", "write", "done"}]
    /\ ts \in [Merger -> 0..Time]
    /\ merged \in [Merger -> (SUBSET Thing) \cup {NoEntries}]
    /\ faults \in 0..Faults
    /\ had \subseteq Context
    /\ since \in [Merger -> File]
    /\ disturbed \in BOOLEAN

\* The contexts and entries that kubectl finds in a file.
Entries(f) == IF f \in {Missing, Garbled, NoEntries} THEN {} ELSE f

Init ==
    /\ config \in {Missing, NoEntries} \cup SUBSET Context
    /\ mtime = 0
    /\ backups = [t \in 0..Time |-> Missing]
    /\ pc = [m \in Merger |-> "idle"]
    /\ ts = [m \in Merger |-> 0]
    /\ merged = [m \in Merger |-> {}]
    /\ faults = 0
    /\ had = Entries(config)
    /\ since = [m \in Merger |-> Missing]
    /\ disturbed = FALSE

Goto(m, label) == pc' = [pc EXCEPT ![m] = label]

Fault == faults < Faults /\ faults' = faults + 1

Running == {m \in Merger : pc[m] \notin {"idle", "done"}}

\* Some process writes the file, at a time of its own.
Save(f) ==
    /\ mtime < Time /\ mtime' = mtime + 1
    /\ config' = f

-----------------------------------------------------------------------------
(* _merge_into_default.                                                    *)

\* A file of 0 bytes counts as missing: the cluster's kubeconfig is copied.
Look(m) ==
    /\ pc[m] \in {"idle", "done"}
    /\ since' = [since EXCEPT ![m] = config]
    /\ disturbed' = (disturbed \/ Running # {})
    /\ \/ /\ config \notin {Missing, {}}
          /\ Goto(m, "stamp")
          /\ UNCHANGED merged
       \/ /\ config \in {Missing, {}}
          /\ merged' = [merged EXCEPT ![m] = {ClusterOf[m]}]
          /\ Goto(m, "truncate")
    /\ UNCHANGED <<file, backups, ts, faults, had>>

\* Mutants: the backup is named after the file that replaces the old one; there
\* is one backup, config.bak.
StampNext(m) ==
    /\ pc[m] = "stamp"
    /\ ts' = [ts EXCEPT ![m] = mtime + 1]
    /\ Goto(m, "backup")
    /\ UNCHANGED <<file, backups, merged, faults, history, disturbed>>
StampOnce(m) ==
    /\ pc[m] = "stamp"
    /\ ts' = [ts EXCEPT ![m] = 0]
    /\ Goto(m, "backup")
    /\ UNCHANGED <<file, backups, merged, faults, history, disturbed>>

\* ts = st_mtime_ns names the backup.
Stamp(m) ==
    /\ pc[m] = "stamp"
    /\ ts' = [ts EXCEPT ![m] = mtime]
    /\ Goto(m, "backup")
    /\ UNCHANGED <<file, backups, merged, faults, history, disturbed>>

\* shutil.copy2: whatever is in the file by now, over a backup of that name.
Backup(m) ==
    /\ pc[m] = "backup"
    /\ backups' = [backups EXCEPT ![ts[m]] = config]
    /\ Goto(m, "view")
    /\ UNCHANGED <<file, ts, merged, faults, history, disturbed>>

\* kubectl config view --flatten --kubeconfig <new>:<existing>.  The flag names
\* one file, not a list as KUBECONFIG does, and there is no file of that name:
\* kubectl prints a document without entries, or, check=True, its failure ends
\* the run.  Neither file is read.
View(m) ==
    /\ pc[m] = "view"
    /\ \/ /\ merged' = [merged EXCEPT ![m] = NoEntries]
          /\ Goto(m, "truncate")
       \/ Goto(m, "idle") /\ UNCHANGED merged
    /\ UNCHANGED <<file, backups, ts, faults, history, disturbed>>

\* write_text (and copy2) open the file, which empties it, ...
Truncate(m) ==
    /\ pc[m] = "truncate"
    /\ Save({})
    /\ Goto(m, "write")
    /\ UNCHANGED <<backups, ts, merged, faults, history, disturbed>>

\* ... and write it: over what another process has written meanwhile.
Write(m) ==
    /\ pc[m] = "write"
    /\ \E f \in {merged[m]} \cup (IF config = {} THEN {} ELSE {Garbled}) : Save(f)
    /\ Goto(m, "done")
    /\ UNCHANGED <<backups, ts, merged, faults, history, disturbed>>

-----------------------------------------------------------------------------
(* What happens around it.                                                 *)

Kill(m) ==
    /\ m \in Running /\ Fault
    /\ Goto(m, "idle")
    /\ UNCHANGED <<file, backups, ts, merged, history, disturbed>>

\* The operator adds a context.
Edit(x) ==
    /\ config # Garbled
    /\ Save({x} \cup Entries(config))
    /\ had' = had \cup {x}
    /\ disturbed' = (disturbed \/ Running # {})
    /\ UNCHANGED <<backups, pc, ts, merged, faults, since>>

-----------------------------------------------------------------------------

Next ==
    \/ \E m \in Merger :
          \/ Look(m) \/ Stamp(m) \/ Backup(m) \/ View(m)
          \/ Truncate(m) \/ Write(m) \/ Kill(m)
    \/ \E x \in Context : Edit(x)

Spec == Init /\ [][Next]_vars

-----------------------------------------------------------------------------
(* Properties.                                                             *)

Holds(f, x) == x \in Entries(f)

\* A context that the operator has had in ~/.kube/config is there or in one of
\* the backups, however many merges have failed or were killed half-way;
\* unless two processes have changed the file at the same time.
NothingLost ==
    disturbed \/ \A x \in had :
        Holds(config, x) \/ \E t \in DOMAIN backups : Holds(backups[t], x)

\* "Microsecond timestamp so repeated merges don't clobber prior backups"
\* (kubeconfig_merger.py:66): a run that has begun to replace the file, and one
\* that is done, finds what the file held when it looked in the backup it
\* reports, whatever merges, failures and edits have followed.
BackupKept ==
    disturbed \/ \A m \in Merger :
        pc[m] \in {"truncate", "write", "done"} /\ since[m] \notin {Missing, {}}
            => backups[ts[m]] = since[m]

=============================================================================
