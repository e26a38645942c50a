--------------------------- MODULE TopologyProofs ---------------------------
(***************************************************************************)
(* Module Topology for any nodes, VMIDs, addresses, runs, changes and       *)
(* faults: types, and what output.json may say of a node.                  *)
(***************************************************************************)
EXTENDS Topology, TLAPS

\* The two ways in which a run comes by an address for n.
MayName(n, a) ==
    \/ <<n, a>> \in held
    \/ \E m \in Node, id \in Vmid :
          /\ <<m, a>> \in held /\ <<m, id>> \in owned
          /\ <<n, id>> \in owned \/ (id = Declared[n] /\ n \in absent)

\* The history covers the present.
History ==
    \A n \in Node :
        /\ vm[n].ip # Blank => <<n, vm[n].ip>> \in held /\ Live(n)
        /\ Live(n) => <<n, vm[n].id>> \in owned
        /\ ~Live(n) => n \in absent

\* What a run holds in memory was so at some time, and may be no longer.
Remembers(w) ==
    /\ \A n \in Node : prior[w][n] \in Addr => MayName(n, prior[w][n])
    /\ \A n \in Node : byName[w][n] # NoVm => <<n, byName[w][n]>> \in owned
    /\ pc[w] \in {"relisting", "asking", "writing"} =>
          \A n \in Node : byName[w][n] = NoVm => n \in absent
    /\ \A id \in Vmid : answer[w][id] \in Addr =>
          \E m \in Node : <<m, answer[w][id]>> \in held /\ <<m, id>> \in owned

Memory == \A w \in Writer : Remembers(w)

\* The history only grows.
Grows == held \subseteq held' /\ owned \subseteq owned' /\ absent \subseteq absent'

TopologyInv == TypeOK /\ History /\ Memory /\ OwnAddress /\ OwnVmid

-----------------------------------------------------------------------------

LEMMA InitInv == Init => TopologyInv
<1> SUFFICES ASSUME Init PROVE TopologyInv
  OBVIOUS
<1> USE DeclaredAssumption, NullAssumption, BoundAssumption
<1>1. /\ vm \in [Node -> [id : Vmid \cup {NoVm}, ip : Addr \cup {Blank}]]
      /\ \A n \in Node : vm[n].id = NoVm => vm[n].ip = Blank
  BY DEF Init, Vms
<1>2. /\ held = {<<n, vm[n].ip>> : n \in {m \in Node : vm[m].ip # Blank}}
      /\ owned = {<<n, vm[n].id>> : n \in {m \in Node : vm[m].id # NoVm}}
      /\ absent = {n \in Node : ~Live(n)}
  BY DEF Init, Holders, Owners
<1>3. held \subseteq Node \X Addr /\ owned \subseteq Node \X Vmid
  BY <1>1, <1>2
<1>4. TypeOK
  BY <1>1, <1>2, <1>3 DEF Init, TypeOK, Unset, Label, Seen
<1>5. History
  BY <1>1, <1>2 DEF History, Live
<1>6. Memory
  BY DEF Init, Memory, Remembers, Unset
<1>7. OwnAddress /\ OwnVmid
  BY DEF Init, OwnAddress, OwnVmid, Written
<1> QED BY <1>4, <1>5, <1>6, <1>7 DEF TopologyInv

\* A run writes, for each node, an entry.
LEMMA MergedType ==
  ASSUME TypeOK, NEW w \in Writer
  PROVE  Merged(w) \in Record
  BY DeclaredAssumption, NullAssumption DEF TypeOK, Merged, Record, Entry, Seen

\* Types are kept by every step.
LEMMA StepTypes ==
  ASSUME TypeOK, [Next]_vars
  PROVE  TypeOK'
<1> USE DeclaredAssumption, NullAssumption, BoundAssumption DEF TypeOK, Label
<1>1. CASE UNCHANGED vars
  BY <1>1 DEF vars, world, mine
<1>2. ASSUME NEW w \in Writer, WriterStep(w) PROVE TypeOK'
  <2>1. CASE ReadPrior(w)
    BY <2>1 DEF ReadPrior, Goto, Unset, Written, Record, Entry, Seen, world
  <2>2. CASE ListNames(w)
    BY <2>2 DEF ListNames, Goto, world
  <2>3. CASE ListVmids(w)
    BY <2>3 DEF ListVmids, Goto, LiveVmids, Live, world
  <2>4. CASE Ask(w)
    <3>1. PICK id \in todo[w] :
             /\ todo' = [todo EXCEPT ![w] = @ \ {id}]
             /\ \/ \E n \in Node : \E a \in {vm[n].ip} \cup Other :
                      answer' = [answer EXCEPT ![w][id] = a]
                \/ UNCHANGED answer
             /\ UNCHANGED faults \/ Fault
      BY <2>4 DEF Ask
    <3>2. answer' \in [Writer -> [Vmid -> Seen]]
      <4>1. CASE UNCHANGED answer
        BY <4>1
      <4>2. ASSUME NEW n \in Node, NEW a \in {vm[n].ip} \cup Other,
                   answer' = [answer EXCEPT ![w][id] = a]
            PROVE  answer' \in [Writer -> [Vmid -> Seen]]
        <5>1. a \in Seen /\ id \in Vmid
          BY DEF Seen
        <5>2. [answer[w] EXCEPT ![id] = a] \in [Vmid -> Seen]
          BY <5>1
        <5> QED BY <4>2, <5>2
      <4> QED BY <3>1, <4>1, <4>2
    <3>3. todo' \in [Writer -> SUBSET Vmid] /\ faults' \in 0..Faults
      BY <3>1 DEF Fault
    <3> QED BY <2>4, <3>2, <3>3 DEF Ask, world
  <2>5. CASE Truncate(w)
    BY <2>5 DEF Truncate, Goto, world
  <2>6. CASE Write(w)
    <3>1. file' \in Record
      BY <2>6, MergedType DEF Write
    <3> QED BY <2>6, <3>1 DEF Write, Forget, Goto, Unset, Seen, world
  <2> QED BY <1>2, <2>1, <2>2, <2>3, <2>4, <2>5, <2>6 DEF WriterStep
<1>3. ASSUME NEW w \in Writer, GiveUp(w) PROVE TypeOK'
  BY <1>3 DEF GiveUp, Forget, Goto, Fault, Unset, Seen, world
<1>4. ASSUME NEW w \in Writer, Kill(w) PROVE TypeOK'
  BY <1>4 DEF Kill, Forget, Goto, Fault, Unset, Seen, world
<1>5. ASSUME NEW n \in Node, Clone(n) PROVE TypeOK'
  BY <1>5 DEF Clone, Change, mine
<1>6. ASSUME NEW n \in Node, Destroy(n) PROVE TypeOK'
  BY <1>6 DEF Destroy, Change, mine
<1>7. ASSUME NEW n \in Node, Lease(n) PROVE TypeOK'
  <2>1. PICK a \in Addr : /\ vm' = [vm EXCEPT ![n].ip = a]
                         /\ held' = held \cup {<<n, a>>}
    BY <1>7 DEF Lease
  <2>2. vm[n] \in [id : Vmid \cup {NoVm}, ip : Addr \cup {Blank}]
    OBVIOUS
  <2>3. [vm[n] EXCEPT !.ip = a] = [id |-> vm[n].id, ip |-> a]
    BY <2>2
  <2>4. vm' = [vm EXCEPT ![n] = [id |-> vm[n].id, ip |-> a]]
    BY <2>1, <2>3
  <2>5. vm' \in [Node -> [id : Vmid \cup {NoVm}, ip : Addr \cup {Blank}]]
    BY <2>2, <2>4
  <2> QED BY <1>7, <2>1, <2>5 DEF Lease, Change, mine
<1> QED BY <1>1, <1>2, <1>3, <1>4, <1>5, <1>6, <1>7 DEF Next

\* What happens to the VMs enters the history, and nothing leaves it.
LEMMA StepHistory ==
  ASSUME TypeOK, History, [Next]_vars
  PROVE  History' /\ Grows
<1> USE DeclaredAssumption, NullAssumption DEF TypeOK, History, Live, Grows
<1>1. CASE UNCHANGED world
  BY <1>1 DEF world
<1>2. ASSUME NEW n \in Node, Clone(n) PROVE History' /\ Grows
  BY <1>2 DEF Clone, Change, mine
<1>3. ASSUME NEW n \in Node, Destroy(n) PROVE History' /\ Grows
  BY <1>3 DEF Destroy, Change, mine
<1>4. ASSUME NEW n \in Node, Lease(n) PROVE History' /\ Grows
  <2>1. PICK a \in Addr : /\ vm' = [vm EXCEPT ![n].ip = a]
                         /\ held' = held \cup {<<n, a>>}
    BY <1>4 DEF Lease
  <2>2. vm'[n].ip = a /\ vm'[n].id = vm[n].id
    BY <2>1
  <2>3. \A m \in Node \ {n} : vm'[m] = vm[m]
    BY <2>1
  <2>4. UNCHANGED <<owned, absent>> /\ Live(n)
    BY <1>4 DEF Lease
  <2>5. ASSUME NEW m \in Node
        PROVE  /\ vm'[m].ip # Blank => <<m, vm'[m].ip>> \in held' /\ vm'[m].id # NoVm
               /\ vm'[m].id # NoVm => <<m, vm'[m].id>> \in owned'
               /\ vm'[m].id = NoVm => m \in absent'
    <3>1. CASE m = n
      BY <2>1, <2>2, <2>4, <3>1
    <3>2. CASE m # n
      BY <2>1, <2>3, <2>4, <3>2
    <3> QED BY <3>1, <3>2
  <2> QED BY <2>1, <2>4, <2>5
<1>5. ASSUME NEW w \in Writer, WriterStep(w) \/ GiveUp(w) \/ Kill(w)
      PROVE  UNCHANGED world
  BY <1>5 DEF WriterStep, ReadPrior, ListNames, ListVmids, Ask, Truncate, Write,
              GiveUp, Kill
<1>6. UNCHANGED vars => UNCHANGED world
  BY DEF vars
<1> QED BY <1>1, <1>2, <1>3, <1>4, <1>5, <1>6 DEF Next

\* What OwnAddress says, in these terms.
LEMMA OwnAddressMeans ==
  OwnAddress <=> (Written => \A n \in Node :
                     file[n].ip \in Addr => MayName(n, file[n].ip))
  BY DEF OwnAddress, MayName

\* A run that does nothing forgets nothing.
LEMMA OthersRemember ==
  ASSUME Memory, Grows, NEW w \in Writer,
         pc'[w] = pc[w], prior'[w] = prior[w],
         byName'[w] = byName[w], answer'[w] = answer[w]
  PROVE  Remembers(w)'
<1>1. ASSUME NEW n \in Node, prior[w][n] \in Addr
      PROVE  MayName(n, prior[w][n])'
  <2>1. MayName(n, prior[w][n])
    BY <1>1 DEF Memory, Remembers
  <2> QED BY <2>1 DEF MayName, Grows
<1>2. \A id \in Vmid : answer[w][id] \in Addr =>
         \E m \in Node : <<m, answer[w][id]>> \in held' /\ <<m, id>> \in owned'
  BY DEF Memory, Remembers, Grows
<1> QED BY <1>1, <1>2 DEF Memory, Remembers, Grows, MayName

\* A run that reads the file, the VMs or nothing at all remembers what was so.
LEMMA StepMemory ==
  ASSUME TypeOK, History, Memory, OwnAddress, Grows, [Next]_vars
  PROVE  Memory'
<1> SUFFICES ASSUME NEW v \in Writer PROVE Remembers(v)'
  BY DEF Memory
<1> USE NullAssumption
<1>0. CASE UNCHANGED mine
  BY <1>0, OthersRemember DEF mine
<1>1. CASE UNCHANGED vars
  BY <1>0, <1>1 DEF vars
<1>2. ASSUME NEW n \in Node, Clone(n) \/ Destroy(n) \/ Lease(n)
      PROVE  Remembers(v)'
  BY <1>0, <1>2 DEF Clone, Destroy, Lease
<1>3. ASSUME NEW w \in Writer, GiveUp(w) \/ Kill(w) \/ Write(w)
      PROVE  Remembers(v)'
  <2>1. Forget(w)
    BY <1>3 DEF GiveUp, Kill, Write
  <2>2. CASE v # w
    BY <2>1, <2>2, OthersRemember DEF Forget, Goto, TypeOK
  <2>3. CASE v = w
    BY <2>1, <2>3 DEF Forget, Goto, Unset, Remembers, TypeOK
  <2> QED BY <2>2, <2>3
<1>4. ASSUME NEW w \in Writer,
             ReadPrior(w) \/ ListNames(w) \/ ListVmids(w) \/ Ask(w) \/ Truncate(w),
             v # w
      PROVE  Remembers(v)'
  BY <1>4, OthersRemember
  DEF ReadPrior, ListNames, ListVmids, Ask, Truncate, Goto, TypeOK
<1>5. CASE ReadPrior(v)
  <2>1. ASSUME NEW n \in Node, prior'[v][n] \in Addr
        PROVE  MayName(n, prior'[v][n])
    BY <1>5, <2>1, OwnAddressMeans DEF ReadPrior, Unset, TypeOK
  <2>2. pc'[v] = "listing" /\ UNCHANGED <<byName, answer, world>>
    BY <1>5 DEF ReadPrior, Goto, TypeOK
  <2> QED BY <2>1, <2>2 DEF Memory, Remembers, MayName, world
<1>6. CASE ListNames(v)
  <2>1. byName'[v] = [n \in Node |-> vm[n].id] /\ UNCHANGED <<prior, answer, world>>
    BY <1>6 DEF ListNames, TypeOK
  <2> QED BY <2>1 DEF Memory, Remembers, MayName, History, Live, world
<1>7. CASE ListVmids(v) \/ Truncate(v)
  <2>1. /\ pc[v] \in {"relisting", "asking"}
        /\ UNCHANGED <<prior, byName, answer, world>>
    BY <1>7 DEF ListVmids, Truncate
  <2> QED BY <2>1 DEF Memory, Remembers, MayName, world
<1>8. CASE Ask(v)
  <2>1. UNCHANGED <<world, pc, prior, byName>>
    BY <1>8 DEF Ask
  <2>2. CASE UNCHANGED answer
    BY <2>1, <2>2 DEF Memory, Remembers, MayName, world
  <2>3. CASE \E id \in Vmid, n \in Node : \E a \in {vm[n].ip} \cup Other :
                vm[n].id = id /\ answer' = [answer EXCEPT ![v][id] = a]
    <3>1. PICK id \in Vmid, n \in Node : \E a \in {vm[n].ip} \cup Other :
             vm[n].id = id /\ answer' = [answer EXCEPT ![v][id] = a]
      BY <2>3
    <3>4. PICK a \in {vm[n].ip} \cup Other :
             vm[n].id = id /\ answer' = [answer EXCEPT ![v][id] = a]
      BY <3>1
    <3>2. /\ answer'[v][id] = a
          /\ \A i \in Vmid \ {id} : answer'[v][i] = answer[v][i]
      BY <3>4 DEF TypeOK
    <3>3. a \in Addr => <<n, a>> \in held /\ <<n, id>> \in owned
      BY <3>4 DEF History, Live
    <3> QED BY <2>1, <3>2, <3>3 DEF Memory, Remembers, MayName, world
  <2>4. todo[v] \subseteq Vmid
    BY DEF TypeOK
  <2> QED BY <1>8, <2>2, <2>3, <2>4 DEF Ask
<1> QED BY <1>1, <1>2, <1>3, <1>4, <1>5, <1>6, <1>7, <1>8 DEF Next, WriterStep

\* What a run writes is its own, or could be taken for it.
LEMMA MergedIsOwn ==
  ASSUME TypeOK, Memory, NEW w \in Writer, pc[w] = "writing", NEW n \in Node
  PROVE  /\ Merged(w)[n].ip \in Addr => MayName(n, Merged(w)[n].ip)
         /\ Merged(w)[n].vmid # Declared[n] => <<n, Merged(w)[n].vmid>> \in owned
<1> USE DeclaredAssumption, NullAssumption DEF TypeOK
<1>1. CASE prior[w][n] # Blank
  BY <1>1 DEF Merged, Memory, Remembers
<1>2. CASE prior[w][n] = Blank /\ byName[w][n] # NoVm
  <2>1. Merged(w)[n] = [vmid |-> byName[w][n], ip |-> answer[w][byName[w][n]]]
    BY <1>2 DEF Merged
  <2>2. byName[w][n] \in Vmid /\ <<n, byName[w][n]>> \in owned
    BY <1>2 DEF Memory, Remembers
  <2>3. ASSUME NEW id \in Vmid, answer[w][id] \in Addr, <<n, id>> \in owned
        PROVE  MayName(n, answer[w][id])
    <3>1. PICK m \in Node : <<m, answer[w][id]>> \in held /\ <<m, id>> \in owned
      BY <2>3 DEF Memory, Remembers
    <3> QED BY <2>3, <3>1 DEF MayName
  <2> QED BY <2>1, <2>2, <2>3
<1>3. CASE prior[w][n] = Blank /\ byName[w][n] = NoVm
  <2>1. Merged(w)[n] = [vmid |-> Declared[n], ip |-> answer[w][Declared[n]]]
    BY <1>3 DEF Merged
  <2>2. Declared[n] \in Vmid /\ n \in absent
    BY <1>3 DEF Memory, Remembers
  <2>3. answer[w][Declared[n]] \in Addr => MayName(n, answer[w][Declared[n]])
    BY <2>2 DEF Memory, Remembers, MayName
  <2> QED BY <2>1, <2>3
<1> QED BY <1>1, <1>2, <1>3

\* Only Write makes an entry, and what was true of an entry stays true.
LEMMA StepFile ==
  ASSUME TypeOK, Memory, OwnAddress, OwnVmid, Grows, [Next]_vars
  PROVE  OwnAddress' /\ OwnVmid'
<1>1. CASE UNCHANGED file
  BY <1>1 DEF OwnAddress, OwnVmid, Written, Grows
<1>2. ASSUME NEW w \in Writer, Truncate(w) PROVE OwnAddress' /\ OwnVmid'
  BY <1>2 DEF Truncate, OwnAddress, OwnVmid, Written
<1>3. ASSUME NEW w \in Writer, Write(w) PROVE OwnAddress' /\ OwnVmid'
  <2>1. file' = Merged(w) /\ pc[w] = "writing" /\ UNCHANGED world
    BY <1>3 DEF Write
  <2>2. \A n \in Node :
           /\ file'[n].ip \in Addr => MayName(n, file'[n].ip)
           /\ file'[n].vmid # Declared[n] => <<n, file'[n].vmid>> \in owned
    BY <2>1, MergedIsOwn
  <2> QED BY <2>1, <2>2 DEF OwnAddress, OwnVmid, MayName, world
<1>4. \/ UNCHANGED file
      \/ \E w \in Writer : Truncate(w) \/ Write(w)
  BY DEF Next, vars, WriterStep, ReadPrior, ListNames, ListVmids, Ask, GiveUp, Kill,
         Clone, Destroy, Lease
<1> QED BY <1>1, <1>2, <1>3, <1>4

LEMMA StepInv == TopologyInv /\ [Next]_vars => TopologyInv'
  BY StepTypes, StepHistory, StepMemory, StepFile DEF TopologyInv

LEMMA Invariance == Spec => []TopologyInv
  BY InitInv, StepInv, PTL DEF Spec

-----------------------------------------------------------------------------

\* Types: in particular output.json is missing, torn, or has one entry for each
\* declared node (write_output_json).
THEOREM TypeCorrect == Spec => []TypeOK
<1>1. TopologyInv => TypeOK
  BY DEF TopologyInv
<1> QED BY <1>1, Invariance, PTL

\* No interleaving of runs with tofu, PVE and DHCP gives a node a leased
\* address which neither it nor a VM it could be taken for has ever had
\* (write_output_json, discover_via_pve_api).
THEOREM AddressesAreOwn == Spec => []OwnAddress
<1>1. TopologyInv => OwnAddress
  BY DEF TopologyInv
<1> QED BY <1>1, Invariance, PTL

\* A VMID in output.json is the declared one or has been the node's own.
THEOREM VmidsAreOwn == Spec => []OwnVmid
<1>1. TopologyInv => OwnVmid
  BY DEF TopologyInv
<1> QED BY <1>1, Invariance, PTL

=============================================================================
