----------------------------- MODULE HomeProofs -----------------------------
(***************************************************************************)
(* Module HomeConfig for any runs, clusters, contexts, writes and faults:   *)
(* types, that no context of the operator is lost, and that a merge leaves  *)
(* the backups of the earlier ones alone.                                   *)
(***************************************************************************)
EXTENDS HomeConfig, TLAPS

\* Nobody else runs beside a run.
Alone == \A m, n \in Running : m = n

\* A backup is named after the file it was made of, which has not been written
\* since; the times to come have none.
BackupsOK ==
    /\ backups[mtime] \in {Missing, config}
    /\ \A t \in 0..Time : t > mtime => backups[t] = Missing

\* What the file held when m looked is still there ...
Unread(m) == config = since[m]

\* ... and once m has replaced it, it is in the backup, which no later merge
\* can reach: the file has another modification time.
Saved(m) ==
    \/ since[m] \in {Missing, {}}
    \/ ts[m] < mtime /\ backups[ts[m]] = since[m]

\* What each label says of an undisturbed run.
StageOK(m) ==
    /\ pc[m] \in {"stamp", "backup", "view"} => Unread(m)
    /\ pc[m] \in {"backup", "view"} => ts[m] = mtime
    /\ pc[m] = "view" => backups[mtime] = config
    /\ pc[m] = "truncate" =>
          /\ \A x \in Context : Holds(config, x) => Holds(backups[mtime], x)
          /\ since[m] \in {Missing, {}} \/ (ts[m] = mtime /\ backups[mtime] = since[m])
    /\ pc[m] = "write" => config = {}
    /\ pc[m] \in {"write", "done"} => Saved(m)

Kept(x) == Holds(config, x) \/ \E t \in 0..Time : Holds(backups[t], x)

Undisturbed ==
    /\ Alone /\ BackupsOK /\ config # Garbled
    /\ \A m \in Merger : StageOK(m)
    /\ \A x \in had : Kept(x)

HomeInv == TypeOK /\ (disturbed \/ Undisturbed)

-----------------------------------------------------------------------------

LEMMA InitInv == Init => HomeInv
<1> SUFFICES ASSUME Init PROVE HomeInv
  OBVIOUS
<1> USE BoundAssumption, FileAssumption DEF Init
<1>1. config \in File /\ had \subseteq Context
  BY DEF File, Thing, Entries
<1>2. TypeOK
  <2>1. 0 \in 0..Time /\ 0 \in 0..Faults /\ Missing \in File
    BY DEF File
  <2> QED BY <1>1, <2>1 DEF TypeOK
<1>3. Alone /\ \A m \in Merger : StageOK(m)
  BY DEF Alone, Running, StageOK
<1>4. BackupsOK
  BY DEF BackupsOK
<1>5. config # Garbled
  <2>1. SUBSET Context \subseteq SUBSET Thing
    BY DEF Thing
  <2> QED BY <2>1
<1>6. \A x \in had : Kept(x)
  BY <1>5 DEF Kept, Holds
<1> QED BY <1>2, <1>3, <1>4, <1>5, <1>6 DEF HomeInv, Undisturbed

\* A process that saves a file of the right kind keeps the types.
LEMMA SaveType ==
  ASSUME TypeOK, NEW f \in File, Save(f)
  PROVE  config' \in File /\ mtime' \in 0..Time
  BY BoundAssumption DEF TypeOK, Save

\* Types are kept by every step.
LEMMA StepTypes ==
  ASSUME TypeOK, [Next]_vars
  PROVE  TypeOK'
<1> USE BoundAssumption DEF history, file
<1>1. CASE UNCHANGED vars
  BY <1>1 DEF vars, TypeOK
<1>2. ASSUME NEW m \in Merger, Look(m) PROVE TypeOK'
  <2>1. ClusterOf[m] \in Thing
    BY DEF Thing, Cluster
  <2>2. disturbed' \in BOOLEAN
    BY <1>2 DEF Look, TypeOK
  <2>3. merged' \in [Merger -> (SUBSET Thing) \cup {NoEntries}]
    BY <1>2, <2>1 DEF Look, TypeOK
  <2> QED BY <1>2, <2>2, <2>3 DEF Look, Goto, TypeOK
<1>3. ASSUME NEW m \in Merger, Stamp(m) PROVE TypeOK'
  BY <1>3 DEF Stamp, Goto, TypeOK
<1>4. ASSUME NEW m \in Merger, Backup(m) PROVE TypeOK'
  BY <1>4 DEF Backup, Goto, TypeOK
<1>5. ASSUME NEW m \in Merger, View(m) PROVE TypeOK'
  BY <1>5 DEF View, Goto, TypeOK
<1>6. ASSUME NEW m \in Merger, Truncate(m) PROVE TypeOK'
  <2>1. {} \in File
    BY DEF File
  <2> QED BY <1>6, <2>1, SaveType DEF Truncate, Goto, TypeOK
<1>7. ASSUME NEW m \in Merger, Write(m) PROVE TypeOK'
  <2>1. \E f \in File : Save(f)
    BY <1>7 DEF Write, TypeOK, File
  <2> QED BY <1>7, <2>1, SaveType DEF Write, Goto, TypeOK
<1>8. ASSUME NEW m \in Merger, Kill(m) PROVE TypeOK'
  BY <1>8 DEF Kill, Fault, Goto, TypeOK
<1>9. ASSUME NEW x \in Context, Edit(x) PROVE TypeOK'
  <2>1. {x} \cup Entries(config) \in File
    BY <1>9 DEF TypeOK, File, Thing, Entries
  <2>2. disturbed' \in BOOLEAN /\ had' \subseteq Context
    BY <1>9 DEF Edit, TypeOK
  <2> QED BY <1>9, <2>1, <2>2, SaveType DEF Edit, TypeOK
<1> QED BY <1>1, <1>2, <1>3, <1>4, <1>5, <1>6, <1>7, <1>8, <1>9 DEF Next

\* The steps of a run that is alone touch no other.
LEMMA OthersIdle ==
  ASSUME TypeOK, Alone, NEW m \in Merger, m \in Running, NEW n \in Merger, n # m
  PROVE  pc[n] \in {"idle", "done"}
  BY DEF Alone, Running

\* What a run that is over has saved stays saved: nothing is written to a
\* backup of an earlier time.
LEMMA OthersSaved ==
  ASSUME TypeOK, NEW n \in Merger, pc[n] \in {"idle", "done"}, StageOK(n),
         pc'[n] = pc[n], UNCHANGED since, ts'[n] = ts[n], mtime' >= mtime, mtime' \in 0..Time,
         \A t \in 0..Time : t < mtime => backups'[t] = backups[t]
  PROVE  StageOK(n)'
  <1>1. pc[n] = "done" => Saved(n)'
    BY BoundAssumption DEF StageOK, Saved, TypeOK
  <1> QED BY <1>1 DEF StageOK

\* Only a step that has the file to itself leaves disturbed FALSE, and it
\* keeps the rest.
LEMMA StepUndisturbed ==
  ASSUME TypeOK, TypeOK', Undisturbed, [Next]_vars, ~disturbed'
  PROVE  Undisturbed'
<1> USE BoundAssumption, FileAssumption DEF history, file
<1>1. CASE UNCHANGED vars
  BY <1>1 DEF vars, Undisturbed, Alone, Running, BackupsOK, StageOK, Unread, Saved,
              Kept, Holds, Entries
<1>2. ASSUME NEW m \in Merger, Look(m) PROVE Undisturbed'
  <2>1. /\ Running = {} /\ pc'[m] \in {"stamp", "truncate"}
        /\ \A n \in Merger \ {m} : pc'[n] = pc[n] /\ pc[n] \in {"idle", "done"}
        /\ since'[m] = config /\ \A n \in Merger \ {m} : since'[n] = since[n]
        /\ UNCHANGED <<config, mtime, backups, ts, had>>
    BY <1>2 DEF Look, Goto, TypeOK, Running
  <2>2. pc'[m] = "truncate" => config \in {Missing, {}}
    BY <1>2 DEF Look, Goto, TypeOK
  <2>3. Alone'
    BY <2>1 DEF Alone, Running
  <2>4. StageOK(m)'
    BY <2>1, <2>2 DEF StageOK, Unread, Holds, Entries
  <2>5. \A n \in Merger \ {m} : StageOK(n)'
    BY <2>1 DEF Undisturbed, StageOK, Saved
  <2>6. BackupsOK' /\ config' # Garbled /\ \A x \in had' : Kept(x)'
    BY <2>1 DEF Undisturbed, BackupsOK, Kept, Holds, Entries
  <2> QED BY <2>3, <2>4, <2>5, <2>6 DEF Undisturbed
<1>3. ASSUME NEW m \in Merger, Stamp(m) PROVE Undisturbed'
  <2>1. /\ pc[m] = "stamp" /\ pc'[m] = "backup" /\ ts'[m] = mtime
        /\ \A n \in Merger \ {m} : pc'[n] = pc[n] /\ ts'[n] = ts[n]
        /\ UNCHANGED <<config, mtime, backups, merged, since, had>>
    BY <1>3 DEF Stamp, Goto, TypeOK
  <2>2. \A n \in Merger \ {m} : pc[n] \in {"idle", "done"}
    BY <2>1, OthersIdle DEF Undisturbed, Running
  <2>3. Alone'
    BY <2>1, <2>2 DEF Alone, Running
  <2>4. \A n \in Merger : StageOK(n)'
    <3>1. \A n \in Merger \ {m} : StageOK(n)'
      BY <2>1, <2>2, OthersSaved DEF Undisturbed, TypeOK
    <3>2. StageOK(m)'
      BY <2>1 DEF Undisturbed, StageOK, Unread
    <3> QED BY <3>1, <3>2
  <2> QED BY <2>1, <2>3, <2>4 DEF Undisturbed, BackupsOK, Kept, Holds, Entries
<1>4. ASSUME NEW m \in Merger, Backup(m) PROVE Undisturbed'
  <2>1. /\ pc[m] = "backup" /\ pc'[m] = "view"
        /\ \A n \in Merger \ {m} : pc'[n] = pc[n]
        /\ UNCHANGED <<config, mtime, ts, merged, since, had>>
    BY <1>4 DEF Backup, Goto, TypeOK
  <2>2. ts[m] = mtime /\ Unread(m)
    BY <2>1 DEF Undisturbed, StageOK
  <2>3. /\ backups'[mtime] = config
        /\ \A t \in 0..Time : t # mtime => backups'[t] = backups[t]
    BY <1>4, <2>2 DEF Backup, TypeOK
  <2>4. \A n \in Merger \ {m} : pc[n] \in {"idle", "done"}
    BY <2>1, OthersIdle DEF Undisturbed, Running
  <2>5. Alone' /\ \A n \in Merger : StageOK(n)'
    <3>1. \A n \in Merger \ {m} : StageOK(n)'
      BY <2>1, <2>3, <2>4, OthersSaved DEF Undisturbed, TypeOK
    <3>2. StageOK(m)'
      BY <2>1, <2>2, <2>3 DEF StageOK, Unread
    <3> QED BY <2>1, <2>4, <3>1, <3>2 DEF Alone, Running
  <2>6. BackupsOK'
    BY <2>1, <2>3 DEF Undisturbed, BackupsOK, TypeOK
  <2>7. \A x \in had' : Kept(x)'
    <3> SUFFICES ASSUME NEW x \in had PROVE Kept(x)'
      BY <2>1
    <3>1. CASE Holds(config, x)
      BY <2>1, <3>1 DEF Kept, Holds, Entries
    <3>2. ASSUME NEW t \in 0..Time, Holds(backups[t], x) PROVE Kept(x)'
      <4>1. CASE t = mtime
        BY <2>1, <3>2, <4>1 DEF Undisturbed, BackupsOK, Kept, Holds, Entries
      <4>2. CASE t # mtime
        BY <2>3, <3>2, <4>2 DEF Kept, Holds, Entries
      <4> QED BY <4>1, <4>2
    <3> QED BY <3>1, <3>2 DEF Undisturbed, Kept
  <2> QED BY <2>1, <2>5, <2>6, <2>7 DEF Undisturbed
<1>5. ASSUME NEW m \in Merger, View(m) PROVE Undisturbed'
  <2>1. /\ pc[m] = "view" /\ pc'[m] \in {"truncate", "idle"}
        /\ \A n \in Merger \ {m} : pc'[n] = pc[n]
        /\ UNCHANGED <<config, mtime, backups, ts, since, had>>
    BY <1>5 DEF View, Goto, TypeOK
  <2>2. Unread(m) /\ ts[m] = mtime /\ backups[mtime] = config
    BY <2>1 DEF Undisturbed, StageOK
  <2>3. \A n \in Merger \ {m} : pc[n] \in {"idle", "done"}
    BY <2>1, OthersIdle DEF Undisturbed, Running
  <2>4. \A n \in Merger \ {m} : StageOK(n)'
    BY <2>1, <2>3, OthersSaved DEF Undisturbed, TypeOK
  <2>5. StageOK(m)'
    BY <2>1, <2>2 DEF StageOK, Unread, Holds, Entries
  <2>6. Alone'
    BY <2>1, <2>3 DEF Alone, Running
  <2> QED BY <2>1, <2>4, <2>5, <2>6 DEF Undisturbed, BackupsOK, Kept, Holds, Entries
<1>6. ASSUME NEW m \in Merger, Truncate(m) PROVE Undisturbed'
  <2>1. /\ pc[m] = "truncate" /\ pc'[m] = "write" /\ mtime' = mtime + 1 /\ mtime < Time
        /\ \A n \in Merger \ {m} : pc'[n] = pc[n]
        /\ config' = {} /\ UNCHANGED <<backups, ts, merged, since, had>>
    BY <1>6 DEF Truncate, Save, Goto, TypeOK
  <2>2. /\ \A x \in Context : Holds(config, x) => Holds(backups[mtime], x)
        /\ since[m] \in {Missing, {}} \/ (ts[m] = mtime /\ backups[mtime] = since[m])
    BY <2>1 DEF Undisturbed, StageOK
  <2>3. \A n \in Merger \ {m} : pc[n] \in {"idle", "done"}
    BY <2>1, OthersIdle DEF Undisturbed, Running
  <2>4. mtime \in Nat
    BY DEF TypeOK
  <2>5. Alone' /\ \A n \in Merger : StageOK(n)'
    <3>1. \A n \in Merger \ {m} : StageOK(n)'
      BY <2>1, <2>3, <2>4, OthersSaved DEF Undisturbed, TypeOK
    <3>2. StageOK(m)'
      BY <2>1, <2>2, <2>4 DEF StageOK, Saved
    <3> QED BY <2>1, <2>3, <3>1, <3>2 DEF Alone, Running
  <2>6. BackupsOK'
    BY <2>1 DEF Undisturbed, BackupsOK, TypeOK
  <2>7. \A x \in had' : Kept(x)'
    BY <2>1, <2>2 DEF Undisturbed, Kept, Holds, Entries, TypeOK
  <2> QED BY <2>1, <2>5, <2>6, <2>7 DEF Undisturbed
<1>7. ASSUME NEW m \in Merger, Write(m) PROVE Undisturbed'
  <2>1. config = {} /\ Saved(m)
    BY <1>7 DEF Write, Undisturbed, StageOK
  <2>2. /\ pc[m] = "write" /\ pc'[m] = "done" /\ mtime' = mtime + 1 /\ mtime < Time
        /\ \A n \in Merger \ {m} : pc'[n] = pc[n]
        /\ config' = merged[m] /\ UNCHANGED <<backups, ts, merged, since, had>>
    BY <1>7, <2>1 DEF Write, Save, Goto, TypeOK
  <2>3. \A n \in Merger \ {m} : pc[n] \in {"idle", "done"}
    BY <2>2, OthersIdle DEF Undisturbed, Running
  <2>4. Alone' /\ \A n \in Merger : StageOK(n)'
    <3>1. mtime \in Nat /\ ts[m] \in Nat
      BY DEF TypeOK
    <3>2. \A n \in Merger \ {m} : StageOK(n)'
      BY <2>2, <2>3, <3>1, OthersSaved DEF Undisturbed, TypeOK
    <3>3. StageOK(m)'
      BY <2>1, <2>2, <3>1 DEF StageOK, Saved
    <3> QED BY <2>2, <2>3, <3>2, <3>3 DEF Alone, Running
  <2>5. BackupsOK' /\ config' # Garbled
    <3>1. mtime + 1 \in 0..Time
      BY <2>2 DEF TypeOK
    <3>2. backups[mtime + 1] = Missing
      BY <3>1 DEF Undisturbed, BackupsOK, TypeOK
    <3>3. BackupsOK'
      BY <2>2, <3>2 DEF Undisturbed, BackupsOK, TypeOK
    <3>4. config' \in (SUBSET Thing) \cup {NoEntries}
      BY <2>2 DEF TypeOK
    <3> QED BY <3>3, <3>4
  <2>6. \A x \in had' : Kept(x)'
    BY <2>1, <2>2 DEF Undisturbed, Kept, Holds, Entries
  <2> QED BY <2>4, <2>5, <2>6 DEF Undisturbed
<1>8. ASSUME NEW m \in Merger, Kill(m) PROVE Undisturbed'
  <2>1. /\ pc'[m] = "idle" /\ \A n \in Merger \ {m} : pc'[n] = pc[n]
        /\ UNCHANGED <<config, mtime, backups, ts, merged, since, had>>
    BY <1>8 DEF Kill, Goto, TypeOK
  <2>2. Alone' /\ \A n \in Merger : StageOK(n)'
    BY <2>1 DEF Undisturbed, Alone, Running, StageOK, Unread, Saved, Holds, Entries
  <2> QED BY <2>1, <2>2 DEF Undisturbed, BackupsOK, Kept, Holds, Entries
<1>9. ASSUME NEW x \in Context, Edit(x) PROVE Undisturbed'
  <2>1. /\ Running = {} /\ mtime' = mtime + 1 /\ mtime < Time
        /\ config' = {x} \cup Entries(config)
        /\ had' = had \cup {x} /\ UNCHANGED <<backups, pc, ts, since>>
    BY <1>9 DEF Edit, Save
  <2>2. (\A n \in Merger : pc[n] \in {"idle", "done"}) /\ mtime \in Nat
    BY <2>1 DEF Running, TypeOK
  <2>3. Alone' /\ \A n \in Merger : StageOK(n)'
    <3>1. \A n \in Merger : StageOK(n)'
      BY <2>1, <2>2, OthersSaved DEF Undisturbed, TypeOK
    <3> QED BY <2>1, <2>2, <3>1 DEF Alone, Running
  <2>4. config' \in SUBSET Thing
    BY <2>1 DEF TypeOK, File, Thing, Entries
  <2>5. BackupsOK' /\ config' # Garbled
    <3>1. mtime + 1 \in 0..Time
      BY <2>1 DEF TypeOK
    <3>2. backups[mtime + 1] = Missing
      BY <3>1 DEF Undisturbed, BackupsOK, TypeOK
    <3>3. BackupsOK'
      BY <2>1, <3>2 DEF Undisturbed, BackupsOK, TypeOK
    <3> QED BY <2>4, <3>3
  <2>6. \A y \in had' : Kept(y)'
    <3>1. \A y : Holds(config, y) => Holds(config', y)
      BY <2>1, <2>4 DEF Holds, Entries
    <3>2. Holds(config', x)
      BY <2>1, <2>4 DEF Holds, Entries
    <3> QED BY <2>1, <3>1, <3>2 DEF Undisturbed, Kept, Holds
  <2> QED BY <2>3, <2>5, <2>6 DEF Undisturbed
<1> QED BY <1>1, <1>2, <1>3, <1>4, <1>5, <1>6, <1>7, <1>8, <1>9 DEF Next

\* Once disturbed, always disturbed.
LEMMA StepDisturbed ==
  ASSUME [Next]_vars, disturbed
  PROVE  disturbed'
  BY DEF Next, vars, Look, Stamp, Backup, View, Truncate, Write, Kill, Edit

LEMMA StepInv == HomeInv /\ [Next]_vars => HomeInv'
<1> SUFFICES ASSUME HomeInv, [Next]_vars PROVE HomeInv'
  OBVIOUS
<1>1. TypeOK'
  BY StepTypes DEF HomeInv
<1>2. disturbed' \/ Undisturbed'
  BY <1>1, StepUndisturbed, StepDisturbed DEF HomeInv
<1> QED BY <1>1, <1>2 DEF HomeInv

LEMMA Invariance == Spec => []HomeInv
  BY InitInv, StepInv, PTL DEF Spec

-----------------------------------------------------------------------------

\* Types: in particular the file is missing, mixed or a set of known entries.
THEOREM TypeCorrect == Spec => []TypeOK
<1>1. HomeInv => TypeOK
  BY DEF HomeInv
<1> QED BY <1>1, Invariance, PTL

\* However many merges fail or are killed half-way, the operator's contexts are
\* in ~/.kube/config or in one of its backups (_merge_into_default).
THEOREM NothingIsLost == Spec => []NothingLost
<1>1. HomeInv => NothingLost
  BY DEF HomeInv, Undisturbed, Kept, NothingLost, TypeOK
<1> QED BY <1>1, Invariance, PTL

\* "repeated merges don't clobber prior backups": what a run found in
\* ~/.kube/config is in the backup it made, as long as it has not looked again.
THEOREM BackupsAreKept == Spec => []BackupKept
<1>1. HomeInv => BackupKept
  BY DEF HomeInv, Undisturbed, StageOK, Saved, BackupKept
<1> QED BY <1>1, Invariance, PTL

=============================================================================
