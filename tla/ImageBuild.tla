----------------------------- MODULE ImageBuild -----------------------------
(***************************************************************************)
(* tools/build_image: BuildImage.run with tools/lib/pve_client.py.  A       *)
(* build stages a cloud image on the PVE host, bakes the guest agent into   *)
(* it, replaces VM 900, imports the image, boots the VM to see that its     *)
(* agent answers, turns it into a template and writes build/image-id.txt.   *)
(*                                                                         *)
(* Builds share the staged file, the VM and image-id.txt, and take no lock. *)
(* A call that times out is killed on the operator's side only: on the PVE  *)
(* host it may still take effect.                                          *)
(***************************************************************************)
EXTENDS Naturals

CONSTANTS
    Builder,
    Nobody,
    Faults    \* bound on failed or timed-out calls and killed builds

ASSUME NobodyAssumption == Nobody \notin Builder
ASSUME FaultAssumption == Faults \in Nat

VARIABLES
    pc,
    staged,   \* /var/lib/vz/template/iso/noble-server-cloudimg-amd64.img
    vm,       \* VM 900
    idFile,   \* build/image-id.txt
    faults,
    solo,     \* history: no other build was under way since this one began
    repaired  \* FALSE of the code as it is; it never changes

vars == <<pc, staged, vm, idFile, faults, solo, repaired>>

\* "baked": with the guest agent and an empty machine-id; "used": has booted.
Image == {"none", "partial", "plain", "baked", "used"}
Idle == {"idle", "failed", "ok"}
Label == Idle \cup
         {"download", "staging", "check", "bake", "find", "destroy", "create",
          "import", "seed", "start", "ping", "address", "shutdown", "wait",
          "force", "template", "write"}

\* by: who created it; touched: who has changed it; answered: its agent has
\* answered; leaving: a `qm destroy` that timed out is still at work on it.
Vm == [life : {"none", "stopped", "booting", "running", "template"},
       disk : Image, by : Builder \cup {Nobody}, touched : SUBSET Builder,
       answered : BOOLEAN, leaving : BOOLEAN]

NoVm == [life |-> "none", disk |-> "none", by |-> Nobody, touched |-> {},
         answered |-> FALSE, leaving |-> FALSE]

TypeOK ==
    /\ pc \in [Builder -> Label]
    /\ staged \in Image \ {"used"}
    /\ vm \in Vm
    /\ idFile \in {"missing", "empty", "900"}
    /\ faults \in 0..Faults
    /\ solo \in [Builder -> BOOLEAN]
    /\ repaired \in BOOLEAN

Init ==
    /\ pc = [b \in Builder |-> "idle"]
    /\ staged = "none"
    /\ vm = NoVm
    /\ idFile = "missing"
    /\ faults = 0
    /\ solo = [b \in Builder |-> FALSE]
    /\ repaired \in BOOLEAN

Exists == vm.life # "none"
Up == vm.life \in {"booting", "running"}
AgentUp == vm.life = "running" /\ vm.disk = "used"
Active(b) == pc[b] \notin Idle

Goto(b, label) == pc' = [pc EXCEPT ![b] = label]

\* run catches every Exception and returns 1; VM 900 stays as it is.
Fail(b) == Goto(b, "failed")

\* The end of ssh_run_stdin, after a command that has succeeded: stdout_text is
\* assigned only after a command that has failed, so that the code as it is
\* raises UnboundLocalError.  Repaired, it shows what the rest of a build does.
AfterStdin(next) == IF repaired THEN next ELSE "failed"

Fault == faults < Faults /\ faults' = faults + 1

Touch(b, new) == vm' = [new EXCEPT !.touched = @ \cup {b}]

\* A `qm` command: if it can be done it is, and the build goes on; if not,
\* PveError; a command that is reported as failed may have been done.
Qm(b, can, new, next) ==
    \/ can /\ Touch(b, new) /\ Goto(b, next) /\ UNCHANGED faults
    \/ ~can /\ Fail(b) /\ UNCHANGED <<vm, faults>>
    \/ Fault /\ Fail(b) /\ (UNCHANGED vm \/ (can /\ Touch(b, new)))

-----------------------------------------------------------------------------
(* The steps of run.                                                       *)

Begin(b) ==
    /\ ~Active(b)
    /\ Goto(b, "download")
    /\ solo' = [c \in Builder |-> c = b /\ \A d \in Builder \ {b} : ~Active(d)]
    /\ UNCHANGED <<staged, vm, idFile, faults, repaired>>

\* The download is checked and atomic; `cat >` on the PVE host is not.
Download(b) ==
    /\ pc[b] = "download"
    /\ \/ Goto(b, "staging") /\ staged' = "partial" /\ UNCHANGED faults
       \/ Fault /\ Fail(b) /\ UNCHANGED staged
    /\ UNCHANGED <<vm, idFile, solo, repaired>>

\* Mutant: a failure to stage the image is ignored.
StageAnyway(b) ==
    /\ pc[b] = "staging"
    /\ Goto(b, "check")
    /\ \/ staged' = "plain" /\ UNCHANGED faults
       \/ Fault /\ staged' \in {staged, "plain"}
    /\ UNCHANGED <<vm, idFile, solo, repaired>>

Stage(b) ==
    /\ pc[b] = "staging"
    /\ \/ staged' = "plain" /\ Goto(b, AfterStdin("check")) /\ UNCHANGED faults
       \/ Fault /\ Fail(b) /\ staged' \in {staged, "plain"}
    /\ UNCHANGED <<vm, idFile, solo, repaired>>

\* sha256sum of the staged file.
Check(b) ==
    /\ pc[b] = "check"
    /\ \/ staged = "plain" /\ Goto(b, "bake") /\ UNCHANGED faults
       \/ staged # "plain" /\ Fail(b) /\ UNCHANGED faults
       \/ Fault /\ Fail(b)
    /\ UNCHANGED <<staged, vm, idFile, solo, repaired>>

\* Mutant: a failure of virt-customize is ignored.
VirtCustomizeAnyway(b) ==
    /\ pc[b] = "bake"
    /\ Goto(b, "find")
    /\ \/ staged' = "baked" /\ UNCHANGED faults
       \/ Fault /\ staged' = "partial"
    /\ UNCHANGED <<vm, idFile, solo, repaired>>

\* virt-customize, in place.
VirtCustomize(b) ==
    /\ pc[b] = "bake"
    /\ \/ /\ staged \in {"plain", "baked"}
          /\ staged' = "baked"
          /\ Goto(b, "find")
          /\ UNCHANGED faults
       \/ staged = "partial" /\ Fail(b) /\ UNCHANGED <<staged, faults>>
       \/ Fault /\ Fail(b) /\ staged' \in {staged, "partial", "baked"}
    /\ UNCHANGED <<vm, idFile, solo, repaired>>

\* find_template_vmid: `qm list`, by name.
Find(b) ==
    /\ pc[b] = "find"
    /\ \/ Goto(b, IF Exists THEN "destroy" ELSE "create") /\ UNCHANGED faults
       \/ Fault /\ Fail(b)
    /\ UNCHANGED <<staged, vm, idFile, solo, repaired>>

\* destroy_vm swallows every failure.
Destroy(b) ==
    /\ pc[b] = "destroy"
    /\ Goto(b, "create")
    /\ \/ vm' = NoVm /\ UNCHANGED faults
       \/ /\ Exists /\ Fault
          /\ \/ UNCHANGED vm
             \/ Up /\ vm' = [vm EXCEPT !.life = "stopped"]
             \/ vm' = [vm EXCEPT !.leaving = TRUE]
    /\ UNCHANGED <<staged, idFile, solo, repaired>>

\* Mutant: a VM that is still there is taken for the one to build.
CreateOrReuseVm(b) ==
    /\ pc[b] = "create"
    /\ IF Exists THEN Goto(b, "import") /\ UNCHANGED <<vm, faults>>
       ELSE Qm(b, TRUE, [NoVm EXCEPT !.life = "stopped", !.by = b], "import")
    /\ UNCHANGED <<staged, idFile, solo, repaired>>

\* `qm create 900`.
CreateTemplateVm(b) ==
    /\ pc[b] = "create"
    /\ Qm(b, ~Exists, [NoVm EXCEPT !.life = "stopped", !.by = b], "import")
    /\ UNCHANGED <<staged, idFile, solo, repaired>>

\* importdisk, resize, and disk-1 into scsi0: the first disk imported stays.
ImportRootDisk(b) ==
    /\ pc[b] = "import"
    /\ Qm(b, Exists /\ vm.life # "template",
          [vm EXCEPT !.disk = IF @ = "none" THEN staged ELSE @], "seed")
    /\ UNCHANGED <<staged, idFile, solo, repaired>>

ConfigureCloudinitDrive(b) ==
    /\ pc[b] = "seed"
    /\ Qm(b, Exists, vm, AfterStdin("start"))
    /\ UNCHANGED <<staged, idFile, solo, repaired>>

\* `qm start`; the first boot of a baked image writes its machine-id.
StartVm(b) ==
    /\ pc[b] = "start"
    /\ Qm(b, vm.life = "stopped",
          [vm EXCEPT !.life = "booting",
                     !.disk = IF @ = "baked" THEN "used" ELSE @], "ping")
    /\ UNCHANGED <<staged, idFile, solo, repaired>>

\* Mutant: a ping that fails ends the build.
PingOnce(b) ==
    /\ pc[b] = "ping"
    /\ \/ AgentUp /\ vm' = [vm EXCEPT !.answered = TRUE] /\ Goto(b, "address")
       \/ ~AgentUp /\ Fail(b) /\ UNCHANGED vm
    /\ UNCHANGED <<staged, idFile, faults, solo, repaired>>

\* Mutant: the build goes on when the agent never answers.
PingAnyway(b) ==
    /\ pc[b] = "ping"
    /\ \/ AgentUp /\ vm' = [vm EXCEPT !.answered = TRUE] /\ UNCHANGED faults
       \/ ~AgentUp /\ vm.disk # "used" /\ UNCHANGED <<vm, faults>>
       \/ Fault /\ UNCHANGED vm
    /\ Goto(b, "address")
    /\ UNCHANGED <<staged, idFile, solo, repaired>>

\* `qm agent ping` until it answers.  ssh_run raises when it does not, which
\* the loop catches; an agent that is still to come up is waited for, and the
\* deadline ends the build.
Ping(b) ==
    /\ pc[b] = "ping"
    /\ \/ /\ AgentUp
          /\ vm' = [vm EXCEPT !.answered = TRUE]
          /\ Goto(b, "address")
          /\ UNCHANGED faults
       \/ /\ ~AgentUp /\ ~(vm.life = "booting" /\ vm.disk = "used")
          /\ Fail(b)
          /\ UNCHANGED <<vm, faults>>
       \/ Fault /\ Fail(b) /\ UNCHANGED vm
    /\ UNCHANGED <<staged, idFile, solo, repaired>>

\* _get_vm_ip_via_agent.
GetVmIp(b) ==
    /\ pc[b] = "address"
    /\ \/ AgentUp /\ Goto(b, "shutdown") /\ UNCHANGED faults
       \/ ~AgentUp /\ Fail(b) /\ UNCHANGED faults
       \/ Fault /\ Fail(b)
    /\ UNCHANGED <<staged, vm, idFile, solo, repaired>>

\* `qm shutdown`, best effort: the guest may ignore it.
Shutdown(b) ==
    /\ pc[b] = "shutdown"
    /\ Goto(b, "wait")
    /\ \/ Up /\ Touch(b, [vm EXCEPT !.life = "stopped"])
       \/ UNCHANGED vm
    /\ UNCHANGED <<staged, idFile, faults, solo, repaired>>

\* wait_for_vm_stopped; a template is stopped too.
WaitForVmStopped(b) ==
    /\ pc[b] = "wait"
    /\ Goto(b, IF vm.life \in {"stopped", "template"} THEN "template" ELSE "force")
    /\ UNCHANGED <<staged, vm, idFile, faults, solo, repaired>>

\* `qm stop` and a second wait.
StopVmForcible(b) ==
    /\ pc[b] = "force"
    /\ Qm(b, Exists,
          [vm EXCEPT !.life = IF Up THEN "stopped" ELSE @], "template")
    /\ UNCHANGED <<staged, idFile, solo, repaired>>

TemplateVm(b) ==
    /\ pc[b] = "template"
    /\ Qm(b, vm.life = "stopped", [vm EXCEPT !.life = "template"], "write")
    /\ UNCHANGED <<staged, idFile, solo, repaired>>

\* Mutant: the name of the template is written.
WriteImageName(b) ==
    /\ pc[b] = "write"
    /\ idFile' = "ubuntu-noble-template"
    /\ Goto(b, "ok")
    /\ UNCHANGED <<staged, vm, faults, solo, repaired>>

WriteImageId(b) ==
    /\ pc[b] = "write"
    /\ idFile' = "900"
    /\ Goto(b, "ok")
    /\ UNCHANGED <<staged, vm, faults, solo, repaired>>

\* The operator interrupts a build; write_text may have emptied the file.
Kill(b) ==
    /\ Active(b) /\ Fault
    /\ Fail(b)
    /\ idFile' \in {idFile} \cup (IF pc[b] = "write" THEN {"empty"} ELSE {})
    /\ UNCHANGED <<staged, vm, solo, repaired>>

-----------------------------------------------------------------------------
(* The PVE host.                                                           *)

\* The guest's agent comes up.
Boots ==
    /\ vm.life = "booting"
    /\ vm' = [vm EXCEPT !.life = "running"]
    /\ UNCHANGED <<pc, staged, idFile, faults, solo, repaired>>

\* A `qm destroy` whose caller gave up gets its lock.
LateDestroy ==
    /\ vm.leaving
    /\ vm' = NoVm
    /\ UNCHANGED <<pc, staged, idFile, faults, solo, repaired>>

-----------------------------------------------------------------------------

Step(b) ==
    \/ Download(b) \/ Stage(b) \/ Check(b) \/ VirtCustomize(b) \/ Find(b) \/ Destroy(b)
    \/ CreateTemplateVm(b) \/ ImportRootDisk(b) \/ ConfigureCloudinitDrive(b)
    \/ StartVm(b) \/ Ping(b) \/ GetVmIp(b) \/ Shutdown(b)
    \/ WaitForVmStopped(b) \/ StopVmForcible(b) \/ TemplateVm(b)
    \/ WriteImageId(b)

Retry(b) == pc[b] = "failed" /\ Begin(b)

Next ==
    \/ \E b \in Builder : Begin(b) \/ Step(b) \/ Kill(b)
    \/ Boots \/ LateDestroy

Spec == Init /\ [][Next]_vars

\* A build goes on by itself, a guest that boots comes up, and the operator
\* starts a build that failed again.
FairSpec ==
    /\ Spec
    /\ WF_vars(Boots)
    /\ \A b \in Builder : WF_vars(Step(b)) /\ WF_vars(Retry(b))

-----------------------------------------------------------------------------
(* Properties.                                                             *)

\* After a build that ended well, and that no other build overlapped, VM 900
\* is the template of that build, its agent has answered, and image-id.txt
\* names it: whatever earlier builds left behind or still had running.
ImageIdVouches ==
    \A b \in Builder : pc[b] = "ok" /\ solo[b] =>
        /\ idFile = "900"
        /\ vm.life = "template" /\ vm.by = b /\ vm.answered

\* A template that one build alone has made boots and has the guest agent,
\* even if another build restaged the image under it.
TemplateVerified ==
    vm.life = "template" /\ vm.touched = {vm.by} =>
        vm.answered /\ vm.disk = "used"

\* A build takes the old template away only when the image that replaces it
\* is ready; a failed download or customisation leaves it alone.
OldTemplateKept ==
    [][\A b \in Builder :
          solo[b] /\ vm.life = "template" /\ ~vm.leaving
          /\ vm'.life # "template" => staged = "baked"]_vars

\* "Phase 1 produces an Ubuntu+k3s template at VMID 900 with image-id.txt"
\* (docs/verification.md:21) is never true of the code as it is: with no call
\* failing, and however often it is repeated, a build gives up where it has
\* staged the image, before there is a VM 900 or an image-id.txt.
AsIsBuildsNothing ==
    ~repaired => vm = NoVm /\ idFile = "missing" /\ \A b \in Builder : pc[b] # "ok"

\* "The half-baked VM 900 is left for diagnostics; next run will destroy and
\* rebuild" (run): once ssh_run_stdin is repaired, a build that failed succeeds
\* when it is repeated.
RebuildsConverge ==
    repaired =>
        \A b \in Builder :
            <>[](\A c \in Builder \ {b} : ~Active(c)) =>
                [](pc[b] = "failed" => <>(pc[b] = "ok"))

=============================================================================
