------------------------------ MODULE Topology ------------------------------
(***************************************************************************)
(* tools/lib/cluster_topology_writer.py: write_output_json, which every     *)
(* bootstrap run calls first.  It lists the live VMs to find the VMID of    *)
(* each declared node, asks each VM's guest agent for its address, and      *)
(* rewrites infra/clusters/<c>/output.json.  An address that is already in  *)
(* the file is kept.                                                        *)
(*                                                                         *)
(* The world goes on meanwhile: tofu clones and destroys VMs, PVE picks     *)
(* their VMIDs, DHCP hands out addresses.                                  *)
(***************************************************************************)
EXTENDS Naturals, FiniteSets

CONSTANTS
    Node,      \* the names main.tf declares for the cluster
    Vmid,
    Addr,      \* addresses DHCP leases
    Other,     \* addresses of a node's other interfaces: bridges, CNI
    Declared,  \* vmid_start + index
    Writer,    \* bootstrap runs
    NoVm, Blank, Missing, Torn,
    Changes,   \* bound on what happens to the VMs
    Faults     \* bound on failed queries and killed runs

Seen == Addr \cup Other \cup {Blank}
Entry == [vmid : Vmid, ip : Seen]
Record == [Node -> Entry]

ASSUME DeclaredAssumption == Declared \in [Node -> Vmid]
ASSUME NullAssumption ==
    /\ NoVm \notin Vmid /\ Blank \notin Addr \cup Other
    /\ Addr \cap Other = {}
    /\ Missing # Torn /\ Missing \notin Record /\ Torn \notin Record
ASSUME BoundAssumption == Changes \in Nat /\ Faults \in Nat

VARIABLES
    vm,       \* the VM of each node: its VMID and its address
    file,     \* output.json
    pc,
    prior,    \* prior_ips
    byName,   \* name_to_vmid
    todo,     \* VMIDs discover_via_pve_api has still to ask
    answer,   \* what it found, by VMID
    changes, faults,
    held,     \* history: which node has had which address,
    owned,    \* which VMID,
    absent    \* and which has been without a VM

world == <<vm, changes, held, owned, absent>>
mine == <<pc, prior, byName, todo, answer>>
vars == <<world, file, mine, faults>>

Label == {"idle", "listing", "relisting", "asking", "writing"}

TypeOK ==
    /\ vm \in [Node -> [id : Vmid \cup {NoVm}, ip : Addr \cup {Blank}]]
    /\ file \in {Missing, Torn} \/ file \in Record
    /\ pc \in [Writer -> Label]
    /\ prior \in [Writer -> [Node -> Seen]]
    /\ byName \in [Writer -> [Node -> Vmid \cup {NoVm}]]
    /\ todo \in [Writer -> SUBSET Vmid]
    /\ answer \in [Writer -> [Vmid -> Seen]]
    /\ changes \in 0..Changes /\ faults \in 0..Faults
    /\ held \subseteq Node \X Addr /\ owned \subseteq Node \X Vmid
    /\ absent \subseteq Node

Written == file \notin {Missing, Torn}
Live(n) == vm[n].id # NoVm
Leased(n) == Live(n) /\ vm[n].ip # Blank
LiveVmids == {vm[n].id : n \in {m \in Node : Live(m)}}

Unset(S) == [x \in S |-> Blank]

\* VMIDs and addresses are unique; a node without a VM has no address.
Vms ==
    {v \in [Node -> [id : Vmid \cup {NoVm}, ip : Addr \cup {Blank}]] :
        /\ \A n \in Node : v[n].id = NoVm => v[n].ip = Blank
        /\ \A n, m \in Node : n # m =>
              /\ v[n].id = v[m].id => v[n].id = NoVm
              /\ v[n].ip = v[m].ip => v[n].ip = Blank}

Holders(v) == {<<n, v[n].ip>> : n \in {m \in Node : v[m].ip # Blank}}
Owners(v) == {<<n, v[n].id>> : n \in {m \in Node : v[m].id # NoVm}}

Init ==
    /\ vm \in Vms
    /\ file = Missing
    /\ pc = [w \in Writer |-> "idle"]
    /\ prior = [w \in Writer |-> Unset(Node)]
    /\ byName = [w \in Writer |-> [n \in Node |-> NoVm]]
    /\ todo = [w \in Writer |-> {}]
    /\ answer = [w \in Writer |-> Unset(Vmid)]
    /\ changes = 0 /\ faults = 0
    /\ held = Holders(vm) /\ owned = Owners(vm)
    /\ absent = {n \in Node : ~Live(n)}

Goto(w, label) == pc' = [pc EXCEPT ![w] = label]

Fault == faults < Faults /\ faults' = faults + 1

\* What a finished or abandoned run held in memory is gone.
Forget(w) ==
    /\ Goto(w, "idle")
    /\ prior' = [prior EXCEPT ![w] = Unset(Node)]
    /\ byName' = [byName EXCEPT ![w] = [n \in Node |-> NoVm]]
    /\ todo' = [todo EXCEPT ![w] = {}]
    /\ answer' = [answer EXCEPT ![w] = Unset(Vmid)]

-----------------------------------------------------------------------------
(* The writer.                                                             *)

\* Mutant: a file that exists is left as it is.
ReadPriorIfNew(w) ==
    /\ pc[w] = "idle" /\ ~Written
    /\ prior' = [prior EXCEPT ![w] = Unset(Node)]
    /\ Goto(w, "listing")
    /\ UNCHANGED <<world, file, byName, todo, answer, faults>>

\* The addresses of an existing file; one that does not parse counts as none.
ReadPrior(w) ==
    /\ pc[w] = "idle"
    /\ prior' = [prior EXCEPT ![w] =
           IF Written THEN [n \in Node |-> file[n].ip] ELSE Unset(Node)]
    /\ Goto(w, "listing")
    /\ UNCHANGED <<world, file, byName, todo, answer, faults>>

\* _pve_list_vms_with_names, once for the names ...
ListNames(w) ==
    /\ pc[w] = "listing"
    /\ byName' = [byName EXCEPT ![w] = [n \in Node |-> vm[n].id]]
    /\ Goto(w, "relisting")
    /\ UNCHANGED <<world, file, prior, todo, answer, faults>>

\* ... and once more, inside discover_via_pve_api, for the VMIDs to ask.
ListVmids(w) ==
    /\ pc[w] = "relisting"
    /\ todo' = [todo EXCEPT ![w] = LiveVmids]
    /\ Goto(w, "asking")
    /\ UNCHANGED <<world, file, prior, byName, answer, faults>>

\* Mutant: a VM that does not answer has no entry.
AskOrDrop(w) ==
    /\ pc[w] = "asking"
    /\ \E id \in todo[w] :
          /\ todo' = [todo EXCEPT ![w] = @ \ {id}]
          /\ \/ /\ \E n \in Node : vm[n].id = id
                      /\ answer' = [answer EXCEPT ![w][id] = vm[n].ip]
                /\ UNCHANGED faults
             \/ Fault /\ answer' = [answer EXCEPT ![w][id] = NoVm]
    /\ UNCHANGED <<world, file, pc, prior, byName>>

\* network-get-interfaces of one VM, by whoever has that VMID now.  The first
\* address that is not a loopback is taken, on whatever interface it is.
Ask(w) ==
    /\ pc[w] = "asking"
    /\ \E id \in todo[w] :
          /\ todo' = [todo EXCEPT ![w] = @ \ {id}]
          /\ \/ /\ \E n \in Node : \E a \in {vm[n].ip} \cup Other :
                      vm[n].id = id /\ answer' = [answer EXCEPT ![w][id] = a]
                /\ UNCHANGED faults
             \/ /\ id \notin LiveVmids
                /\ UNCHANGED <<answer, faults>>
             \/ Fault /\ UNCHANGED answer
    /\ UNCHANGED <<world, file, pc, prior, byName>>

\* The listing fails, or a read times out: bootstrap logs it and goes on with
\* the file as it is.
GiveUp(w) ==
    /\ pc[w] \in {"listing", "relisting", "asking"}
    /\ Fault
    /\ Forget(w)
    /\ UNCHANGED <<world, file>>

\* write_text opens the file for writing, which empties it, ...
Truncate(w) ==
    /\ pc[w] = "asking" /\ todo[w] = {}
    /\ file' = Torn
    /\ Goto(w, "writing")
    /\ UNCHANGED <<world, prior, byName, todo, answer, faults>>

\* Mutant: the VMID is the declared one.
MergedByDeclaration(w) ==
    [n \in Node |->
        [vmid |-> Declared[n],
         ip |-> IF prior[w][n] # Blank THEN prior[w][n]
                                       ELSE answer[w][Declared[n]]]]

\* Mutant: the first VM that answers is taken for the node.
MergedByAnswer(w) ==
    LET answered == {id \in Vmid : answer[w][id] # Blank}
        found == IF answered = {} THEN CHOOSE id \in Vmid : TRUE
                                  ELSE CHOOSE id \in answered : TRUE
    IN  [n \in Node |-> [vmid |-> found, ip |-> answer[w][found]]]

\* A known address is carried over, with the declared VMID.  Otherwise the
\* VMID is that of the node's name, or the declared one if no live VM has it.
Merged(w) ==
    LET Found(n) == IF byName[w][n] # NoVm THEN byName[w][n] ELSE Declared[n]
    IN  [n \in Node |->
            IF prior[w][n] # Blank
            THEN [vmid |-> Declared[n], ip |-> prior[w][n]]
            ELSE [vmid |-> Found(n), ip |-> answer[w][Found(n)]]]

\* ... and writes it.
Write(w) ==
    /\ pc[w] = "writing"
    /\ file' = Merged(w)
    /\ Forget(w)
    /\ UNCHANGED <<world, faults>>

\* A run killed between the two leaves an empty file.  Anywhere else a kill
\* leaves nothing behind.
Kill(w) ==
    /\ pc[w] # "idle"
    /\ Fault
    /\ Forget(w)
    /\ UNCHANGED <<world, file>>

-----------------------------------------------------------------------------
(* The VMs.                                                                *)

Change == changes < Changes /\ changes' = changes + 1

\* tofu apply clones a node's VM; PVE picks any free VMID.
Clone(n) ==
    /\ ~Live(n) /\ Change
    /\ \E id \in Vmid \ LiveVmids :
          /\ vm' = [vm EXCEPT ![n] = [id |-> id, ip |-> Blank]]
          /\ owned' = owned \cup {<<n, id>>}
    /\ UNCHANGED <<held, absent, file, mine, faults>>

Destroy(n) ==
    /\ Live(n) /\ Change
    /\ vm' = [vm EXCEPT ![n] = [id |-> NoVm, ip |-> Blank]]
    /\ absent' = absent \cup {n}
    /\ UNCHANGED <<held, owned, file, mine, faults>>

\* A first lease, or another one after the range was reset.
Lease(n) ==
    /\ Live(n) /\ Change
    /\ \E a \in Addr \ {vm[m].ip : m \in Node} :
          /\ vm' = [vm EXCEPT ![n].ip = a]
          /\ held' = held \cup {<<n, a>>}
    /\ UNCHANGED <<owned, absent, file, mine, faults>>

-----------------------------------------------------------------------------

WriterStep(w) ==
    \/ ReadPrior(w) \/ ListNames(w) \/ ListVmids(w) \/ Ask(w)
    \/ Truncate(w) \/ Write(w)

Next ==
    \/ \E w \in Writer : WriterStep(w) \/ GiveUp(w) \/ Kill(w)
    \/ \E n \in Node : Clone(n) \/ Destroy(n) \/ Lease(n)

Spec == Init /\ [][Next]_vars

\* A run goes on by itself, and the bootstrap is run again and again.
FairSpec == Spec /\ \A w \in Writer : WF_vars(WriterStep(w))

-----------------------------------------------------------------------------
(* Properties.                                                             *)

\* A leased address recorded for a node has been its own, or that of a VM
\* which the writer could take for it: one with a VMID that has also been this
\* node's, or with the VMID declared for a node that had no VM under its name.
\* What is recorded may also be an address of another interface (Other), which
\* discover_via_pve_api does not tell from a lease: of those nothing is said.
OwnAddress ==
    Written => \A n \in Node : file[n].ip \in Addr =>
        \/ <<n, file[n].ip>> \in held
        \/ \E m \in Node, id \in Vmid :
              /\ <<m, file[n].ip>> \in held /\ <<m, id>> \in owned
              /\ <<n, id>> \in owned \/ (id = Declared[n] /\ n \in absent)

\* A VMID recorded for a node is the declared one, or has been the node's.
OwnVmid ==
    Written => \A n \in Node :
        file[n].vmid # Declared[n] => <<n, file[n].vmid>> \in owned

\* A node whose VM has an address gets one in output.json, whatever runs were
\* killed and whatever the file was left like, if the bootstrap is run again.
\* (write_output_json; it need not be the node's present address, nor a leased
\* one.)
EventuallyAddressed ==
    \A n \in Node :
        <>[]Leased(n) => []<>(Written /\ file[n].ip # Blank)

=============================================================================
