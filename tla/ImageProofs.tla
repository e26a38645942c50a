----------------------------- MODULE ImageProofs ----------------------------
(***************************************************************************)
(* Module ImageBuild for any builds and faults, and for the code as it is   *)
(* as well as repaired: types, what image-id.txt and a template vouch for,  *)
(* when the old template is given up, and how far the code as it is gets.   *)
(***************************************************************************)
EXTENDS ImageBuild, TLAPS

-----------------------------------------------------------------------------
(* Types.                                                                  *)

LEMMA NoVmType == NoVm \in Vm
  BY NobodyAssumption DEF NoVm, Vm, Image

\* The outcomes of a `qm` command.
LEMMA TouchType ==
  ASSUME NEW b \in Builder, NEW new \in Vm
  PROVE  [new EXCEPT !.touched = @ \cup {b}] \in Vm
  BY DEF Vm

LEMMA InitTypes == Init => TypeOK
  BY NoVmType, FaultAssumption DEF Init, TypeOK, Image, Label, Idle

\* What a step does apart from VM 900: a build moves on by itself, and only the
\* image being staged, image-id.txt and the count of faults move with it.
LEMMA StepFrame ==
  ASSUME TypeOK, NEW b \in Builder, Step(b) \/ Kill(b)
  PROVE  /\ Active(b)
         /\ \E l \in Label : Goto(b, l)
         /\ solo' = solo /\ repaired' = repaired
         /\ staged' \in Image \ {"used"}
         /\ idFile' \in {"missing", "empty", "900"}
         /\ faults' \in 0..Faults
<1> USE FaultAssumption DEF Active, Idle, Label, Goto, Fail, Fault, Image, TypeOK
<1>1. CASE Download(b) \/ Stage(b) \/ Check(b) \/ VirtCustomize(b)
  BY <1>1 DEF Download, Stage, Check, VirtCustomize, AfterStdin
<1>2. CASE Find(b) \/ Destroy(b)
  BY <1>2 DEF Find, Destroy
<1>3. CASE CreateTemplateVm(b) \/ ImportRootDisk(b) \/ ConfigureCloudinitDrive(b)
           \/ StartVm(b)
  BY <1>3 DEF CreateTemplateVm, ImportRootDisk, ConfigureCloudinitDrive, StartVm, Qm,
              AfterStdin
<1>4. CASE Ping(b) \/ GetVmIp(b) \/ Shutdown(b) \/ WaitForVmStopped(b)
  BY <1>4 DEF Ping, GetVmIp, Shutdown, WaitForVmStopped
<1>5. CASE StopVmForcible(b) \/ TemplateVm(b)
  BY <1>5 DEF StopVmForcible, TemplateVm, Qm
<1>6. CASE WriteImageId(b) \/ Kill(b)
  BY <1>6 DEF WriteImageId, Kill
<1> QED BY <1>1, <1>2, <1>3, <1>4, <1>5, <1>6 DEF Step

\* What a step does to VM 900, and where it leaves the build.
VmStep(b) ==
    \/ vm' = vm /\ pc'[b] \notin {"import", "address", "write"}
    \/ /\ pc[b] = "destroy" /\ pc'[b] = "create"
       /\ \/ vm' = NoVm
          \/ Exists /\ Up /\ vm' = [vm EXCEPT !.life = "stopped"]
          \/ Exists /\ vm' = [vm EXCEPT !.leaving = TRUE]
    \/ /\ pc[b] = "create" /\ pc'[b] \in {"import", "failed"} /\ ~Exists
       /\ Touch(b, [NoVm EXCEPT !.life = "stopped", !.by = b])
    \/ /\ pc[b] = "import" /\ pc'[b] \in {"seed", "failed"}
       /\ Exists /\ vm.life # "template"
       /\ Touch(b, [vm EXCEPT !.disk = IF @ = "none" THEN staged ELSE @])
    \/ /\ pc[b] = "seed" /\ pc'[b] \in {"start", "failed"}
       /\ Exists /\ Touch(b, vm)
    \/ /\ pc[b] = "start" /\ pc'[b] \in {"ping", "failed"} /\ vm.life = "stopped"
       /\ Touch(b, [vm EXCEPT !.life = "booting",
                              !.disk = IF @ = "baked" THEN "used" ELSE @])
    \/ /\ pc[b] = "ping" /\ pc'[b] = "address"
       /\ AgentUp /\ vm' = [vm EXCEPT !.answered = TRUE]
    \/ /\ pc[b] = "shutdown" /\ pc'[b] = "wait"
       /\ Up /\ Touch(b, [vm EXCEPT !.life = "stopped"])
    \/ /\ pc[b] = "force" /\ pc'[b] \in {"template", "failed"}
       /\ Exists /\ Touch(b, [vm EXCEPT !.life = IF Up THEN "stopped" ELSE @])
    \/ /\ pc[b] = "template" /\ pc'[b] \in {"write", "failed"} /\ vm.life = "stopped"
       /\ Touch(b, [vm EXCEPT !.life = "template"])

LEMMA VmSteps ==
  ASSUME TypeOK, NEW b \in Builder, Step(b) \/ Kill(b)
  PROVE  VmStep(b)
<1> USE DEF Goto, Fail, TypeOK, VmStep
<1>1. CASE Download(b) \/ Stage(b) \/ Check(b) \/ VirtCustomize(b)
  BY <1>1 DEF Download, Stage, Check, VirtCustomize, AfterStdin
<1>a. CASE Find(b) \/ GetVmIp(b) \/ WaitForVmStopped(b)
  BY <1>a DEF Find, GetVmIp, WaitForVmStopped
<1>b. CASE WriteImageId(b) \/ Kill(b)
  BY <1>b DEF WriteImageId, Kill
<1>2. CASE Destroy(b)
  BY <1>2 DEF Destroy
<1>3. CASE CreateTemplateVm(b)
  BY <1>3 DEF CreateTemplateVm, Qm
<1>4. CASE ImportRootDisk(b)
  BY <1>4 DEF ImportRootDisk, Qm
<1>5. CASE ConfigureCloudinitDrive(b)
  BY <1>5 DEF ConfigureCloudinitDrive, Qm, AfterStdin
<1>6. CASE StartVm(b)
  BY <1>6 DEF StartVm, Qm
<1>7. CASE Ping(b) \/ Shutdown(b)
  BY <1>7 DEF Ping, Shutdown
<1>8. CASE StopVmForcible(b)
  BY <1>8 DEF StopVmForcible, Qm
<1>9. CASE TemplateVm(b)
  BY <1>9 DEF TemplateVm, Qm
<1> QED BY <1>1, <1>2, <1>3, <1>4, <1>5, <1>6, <1>7, <1>8, <1>9, <1>a, <1>b DEF Step

LEMMA VmType ==
  ASSUME TypeOK, NEW b \in Builder, Step(b) \/ Kill(b)
  PROVE  vm' \in Vm
<1>1. /\ vm \in Vm /\ NoVm \in Vm /\ staged \in Image
      /\ \A new \in Vm : Touch(b, new) => vm' \in Vm
  BY NoVmType, TouchType DEF TypeOK, Touch
<1>2. /\ [vm EXCEPT !.life = "stopped"] \in Vm
      /\ [vm EXCEPT !.leaving = TRUE] \in Vm
      /\ [NoVm EXCEPT !.life = "stopped", !.by = b] \in Vm
      /\ [vm EXCEPT !.disk = IF @ = "none" THEN staged ELSE @] \in Vm
      /\ [vm EXCEPT !.life = "booting", !.disk = IF @ = "baked" THEN "used" ELSE @] \in Vm
      /\ [vm EXCEPT !.answered = TRUE] \in Vm
      /\ [vm EXCEPT !.life = IF Up THEN "stopped" ELSE @] \in Vm
      /\ [vm EXCEPT !.life = "template"] \in Vm
  BY <1>1 DEF Vm, Image
<1> QED BY <1>1, <1>2, VmSteps DEF VmStep

LEMMA StepTypes ==
  ASSUME TypeOK, [Next]_vars
  PROVE  TypeOK'
<1>1. CASE UNCHANGED vars
  BY <1>1 DEF vars, TypeOK
<1>2. ASSUME NEW b \in Builder, Begin(b) PROVE TypeOK'
  <2>1. pc' \in [Builder -> Label] /\ solo' \in [Builder -> BOOLEAN]
    BY <1>2 DEF Begin, Goto, TypeOK, Label
  <2> QED BY <1>2, <2>1 DEF Begin, TypeOK
<1>3. ASSUME NEW b \in Builder, Step(b) \/ Kill(b) PROVE TypeOK'
  BY <1>3, StepFrame, VmType DEF Goto, TypeOK
<1>4. CASE Boots \/ LateDestroy
  <2>1. vm' \in Vm
    BY <1>4, NoVmType DEF Boots, LateDestroy, TypeOK, Vm
  <2> QED BY <1>4, <2>1 DEF Boots, LateDestroy, TypeOK
<1> QED BY <1>1, <1>2, <1>3, <1>4 DEF Next

-----------------------------------------------------------------------------
(* A template that one build has made.                                     *)

\* VM 900 has been made by a build that has changed it, or it is not there.
Made ==
    \/ Exists /\ vm.by \in Builder /\ vm.by \in vm.touched
    \/ vm = NoVm

Verified == vm.answered /\ vm.disk = "used"

\* The labels that follow the answer of the agent.
Answered == {"address", "shutdown", "wait", "force", "template", "write"}

\* The maker of a VM that nobody else has touched is past the answer, or the
\* VM is a template, only when the VM has booted and answered.
Checked ==
    vm.touched = {vm.by} /\ (vm.life = "template" \/ pc[vm.by] \in Answered) => Verified

\* VM 900 goes, is made, or is changed; and then what is known of it stays known.
Changed(b) ==
    /\ Exists /\ Exists' /\ vm'.by = vm.by
    /\ vm'.touched \in {vm.touched, vm.touched \cup {b}}
    /\ Verified => Verified'
    /\ pc'[b] = "address" => Verified'
    /\ vm.life = "template" => vm'.life = "template"
    /\ pc'[b] = "write" => vm'.life = "template"
    /\ vm'.life = "template" /\ vm.life # "template" =>
          pc[b] = "template" /\ b \in vm'.touched
    /\ vm'.leaving /\ ~vm.leaving => pc'[b] = "create"
    /\ vm.answered => vm'.answered

LEMMA VmOutcomes ==
  ASSUME TypeOK, NEW b \in Builder, Step(b) \/ Kill(b)
  PROVE  \/ vm' = vm /\ pc'[b] \notin {"import", "address", "write"}
         \/ vm' = NoVm /\ pc[b] = "destroy" /\ pc'[b] = "create"
         \/ /\ vm'.life = "stopped" /\ vm'.by = b /\ vm'.touched = {b} /\ ~vm'.leaving
            /\ ~Exists /\ pc'[b] \in {"import", "failed"}
         \/ Changed(b) /\ pc'[b] # "import"
<1> USE DEF Exists, Touch, Changed, Verified, Up, AgentUp
<1>0. vm \in Vm /\ VmStep(b)
  BY VmSteps DEF TypeOK
<1>2. CASE pc[b] = "destroy" /\ pc'[b] = "create" /\ vm' # NoVm
  BY <1>0, <1>2 DEF Vm, VmStep
<1>3. CASE pc[b] = "create"
  <2>1. CASE vm' = vm /\ pc'[b] \notin {"import", "address", "write"}
    BY <2>1
  <2>2. CASE /\ pc'[b] \in {"import", "failed"} /\ ~Exists
             /\ Touch(b, [NoVm EXCEPT !.life = "stopped", !.by = b])
    <3>1. vm' = [life |-> "stopped", disk |-> "none", by |-> b, touched |-> {b},
                 answered |-> FALSE, leaving |-> FALSE]
      BY <2>2 DEF NoVm
    <3>2. /\ vm'.life = "stopped" /\ vm'.by = b /\ vm'.touched = {b} /\ ~vm'.leaving
      BY <3>1
    <3>3. pc'[b] \in {"import", "failed"} /\ ~Exists
      <4> HIDE DEF Touch
      <4> QED BY <2>2
    <3> QED BY <3>2, <3>3
  <2>3. \/ vm' = vm /\ pc'[b] \notin {"import", "address", "write"}
        \/ /\ pc'[b] \in {"import", "failed"} /\ ~Exists
           /\ Touch(b, [NoVm EXCEPT !.life = "stopped", !.by = b])
    <3> HIDE DEF Exists, Touch, Changed, Verified, Up, AgentUp
    <3> QED BY <1>0, <1>3 DEF VmStep
  <2> QED BY <2>1, <2>2, <2>3
<1>4. CASE pc[b] = "import"
  BY <1>0, <1>4 DEF Vm, VmStep
<1>5. CASE pc[b] = "seed"
  BY <1>0, <1>5 DEF Vm, VmStep
<1>6. CASE pc[b] \in {"start", "ping"}
  BY <1>0, <1>6 DEF Vm, VmStep
<1>7. CASE pc[b] \in {"shutdown", "force"}
  BY <1>0, <1>7 DEF Vm, VmStep
<1>8. CASE pc[b] = "template"
  BY <1>0, <1>8 DEF Vm, VmStep
<1> QED BY <1>0, <1>2, <1>3, <1>4, <1>5, <1>6, <1>7, <1>8 DEF VmStep

LEMMA NoVmFields ==
  /\ NoVm.life = "none" /\ NoVm.touched = {} /\ NoVm.by = Nobody
  /\ ~NoVm.leaving /\ ~NoVm.answered
  BY DEF NoVm

LEMMA StepMade ==
  ASSUME TypeOK, Made, NEW b \in Builder, Step(b) \/ Kill(b)
  PROVE  Made'
  BY VmOutcomes, NoVmFields DEF Made, Changed, Exists

\* By the label of a build: how it gets past the answer.
LEMMA StepLabels ==
  ASSUME TypeOK, NEW b \in Builder, Step(b) \/ Kill(b)
  PROVE  /\ \A c \in Builder : c # b => pc'[c] = pc[c]
         /\ pc'[b] \in Answered => pc[b] \in Answered \/ pc'[b] = "address"
         /\ pc'[b] = "find" => staged' = "baked"
         /\ pc'[b] = "destroy" => pc[b] = "find" /\ staged' = staged
         /\ pc'[b] \in {"seed", "start", "ping", "address", "shutdown", "wait", "force",
                        "template", "write", "ok"} =>
               pc[b] \in {"import", "seed", "start", "ping", "address", "shutdown", "wait",
                          "force", "template", "write"}
         /\ pc'[b] = "ok" => pc[b] = "write" /\ idFile' = "900"
<1> USE DEF Goto, Fail, Answered, TypeOK
<1>1. CASE Download(b) \/ Stage(b) \/ Check(b) \/ VirtCustomize(b)
  BY <1>1 DEF Download, Stage, Check, VirtCustomize, AfterStdin
<1>2. CASE Find(b) \/ Destroy(b)
  BY <1>2 DEF Find, Destroy
<1>3. CASE CreateTemplateVm(b) \/ ImportRootDisk(b) \/ ConfigureCloudinitDrive(b)
           \/ StartVm(b)
  BY <1>3 DEF CreateTemplateVm, ImportRootDisk, ConfigureCloudinitDrive, StartVm, Qm,
              AfterStdin
<1>4. CASE Ping(b) \/ GetVmIp(b) \/ Shutdown(b) \/ WaitForVmStopped(b)
  BY <1>4 DEF Ping, GetVmIp, Shutdown, WaitForVmStopped
<1>5. CASE StopVmForcible(b) \/ TemplateVm(b)
  BY <1>5 DEF StopVmForcible, TemplateVm, Qm
<1>6. CASE WriteImageId(b) \/ Kill(b)
  BY <1>6 DEF WriteImageId, Kill
<1> QED BY <1>1, <1>2, <1>3, <1>4, <1>5, <1>6 DEF Step

LEMMA StepChecked ==
  ASSUME TypeOK, Made, Checked, NEW b \in Builder, Step(b) \/ Kill(b)
  PROVE  Checked'
<1> SUFFICES ASSUME vm'.touched = {vm'.by},
                    vm'.life = "template" \/ pc'[vm'.by] \in Answered
             PROVE  Verified'
  BY DEF Checked
<1>1. CASE vm' = vm /\ pc'[b] \notin {"import", "address", "write"}
  BY <1>1, StepLabels, NoVmFields DEF Made, Checked, Verified
<1>2. CASE vm' = NoVm
  BY <1>2, NoVmFields
<1>3. CASE vm'.life = "stopped" /\ vm'.by = b /\ pc'[b] \in {"import", "failed"}
  BY <1>3 DEF Answered
<1>4. CASE Changed(b)
  <2>1. Made /\ vm.by \in Builder /\ vm.touched = {vm.by}
    BY <1>4 DEF Changed, Made, NoVm, Exists
  <2>2. CASE vm'.life = "template" /\ vm.life # "template"
    BY <1>4, <2>1, <2>2 DEF Changed, Checked, Answered
  <2>3. CASE vm.life = "template"
    BY <1>4, <2>1, <2>3 DEF Changed, Checked
  <2>4. CASE pc'[vm.by] \in Answered
    BY <1>4, <2>1, <2>4, StepLabels DEF Changed, Checked
  <2> QED BY <1>4, <2>2, <2>3, <2>4 DEF Changed
<1> QED BY <1>1, <1>2, <1>3, <1>4, VmOutcomes

-----------------------------------------------------------------------------
(* A build that no other overlaps.                                         *)

Alone(b) == \A c \in Builder \ {b} : ~Active(c)

\* What holds at the labels of such a build, up to its end.
StageOK(b) ==
    /\ pc[b] \in {"find", "destroy"} => staged = "baked"
    /\ pc[b] \in {"import", "seed", "start", "ping", "ok"} \cup Answered =>
          Exists /\ vm.by = b /\ ~vm.leaving
    /\ pc[b] \in Answered \cup {"ok"} => vm.answered
    /\ pc[b] \in {"write", "ok"} => vm.life = "template"
    /\ pc[b] = "ok" => idFile = "900"

\* The code as it is gets no further than the end of staging.
Unrepaired ==
    /\ vm = NoVm /\ idFile = "missing"
    /\ \A b \in Builder : pc[b] \in {"idle", "download", "staging", "failed"}

ImageInv ==
    /\ TypeOK /\ Made /\ Checked
    /\ ~repaired => Unrepaired
    /\ \A b \in Builder : solo[b] => Alone(b) /\ StageOK(b)

LEMMA InitInv == Init => ImageInv
  BY InitTypes, NoVmFields DEF Init, ImageInv, Made, Checked, Unrepaired

\* The code as it is only downloads, and stages the image.
LEMMA StepUnrepaired ==
  ASSUME TypeOK, ~repaired, Unrepaired, [Next]_vars
  PROVE  Unrepaired' /\ repaired' = repaired
<1> USE DEF Unrepaired, Goto, Fail, TypeOK
<1>1. CASE UNCHANGED vars
  BY <1>1 DEF vars
<1>2. ASSUME NEW b \in Builder, Begin(b) PROVE Unrepaired' /\ repaired' = repaired
  BY <1>2 DEF Begin
<1>3. ASSUME NEW b \in Builder, Step(b) \/ Kill(b)
      PROVE  Unrepaired' /\ repaired' = repaired
  <2>1. pc[b] \in {"idle", "download", "staging", "failed"}
    OBVIOUS
  <2>2. Download(b) \/ Stage(b) \/ Kill(b)
    BY <1>3, <2>1 DEF Step, Check, VirtCustomize, Find, Destroy, CreateTemplateVm,
       ImportRootDisk, ConfigureCloudinitDrive, StartVm, Ping, GetVmIp, Shutdown,
       WaitForVmStopped, StopVmForcible, TemplateVm, WriteImageId
  <2> QED BY <2>1, <2>2 DEF Download, Stage, Kill, AfterStdin
<1>4. CASE Boots \/ LateDestroy
  BY <1>4, NoVmFields DEF Boots, LateDestroy
<1> QED BY <1>1, <1>2, <1>3, <1>4 DEF Next

LEMMA StepStage ==
  ASSUME TypeOK, Made, NEW b \in Builder, Step(b) \/ Kill(b), StageOK(b)
  PROVE  StageOK(b)'
<1>1. pc'[b] \in {"find", "destroy"} => staged' = "baked"
  BY StepLabels DEF StageOK
<1>2. ASSUME pc'[b] \in {"import", "seed", "start", "ping", "ok"} \cup Answered
      PROVE  Exists' /\ vm'.by = b /\ ~vm'.leaving
  <2>1. CASE pc'[b] = "import"
    BY <2>1, VmOutcomes DEF Exists
  <2>2. CASE pc'[b] # "import"
    <3>1. Exists /\ vm.by = b /\ ~vm.leaving
      BY <1>2, <2>2, StepLabels DEF StageOK, Answered
    <3> QED BY <1>2, <2>2, <3>1, VmOutcomes DEF Changed, Answered, Exists
  <2> QED BY <2>1, <2>2
<1>3. pc'[b] \in Answered \cup {"ok"} => vm'.answered
  <2> SUFFICES ASSUME pc'[b] \in Answered \cup {"ok"} PROVE vm'.answered
    OBVIOUS
  <2>1. CASE pc'[b] = "address"
    BY <2>1, VmOutcomes DEF Changed, Verified
  <2>2. CASE pc'[b] # "address"
    <3>1. vm.answered
      BY <2>2, StepLabels DEF StageOK, Answered
    <3> QED BY <3>1, VmOutcomes DEF Changed, Answered
  <2> QED BY <2>1, <2>2
<1>4. pc'[b] \in {"write", "ok"} => vm'.life = "template"
  <2>1. CASE pc'[b] = "write"
    BY <2>1, VmOutcomes DEF Changed
  <2>2. CASE pc'[b] = "ok"
    BY <2>2, StepLabels, VmOutcomes DEF Changed, StageOK
  <2> QED BY <2>1, <2>2
<1>5. pc'[b] = "ok" => idFile' = "900"
  BY StepLabels
<1> QED BY <1>1, <1>2, <1>3, <1>4, <1>5 DEF StageOK

LEMMA StepInv == ImageInv /\ [Next]_vars => ImageInv'
<1> SUFFICES ASSUME ImageInv, [Next]_vars PROVE ImageInv'
  OBVIOUS
<1>0. TypeOK /\ Made /\ Checked /\ TypeOK'
  BY StepTypes DEF ImageInv
<1>u. (~repaired => Unrepaired)'
  <2>1. repaired' = repaired
    BY <1>0, StepFrame DEF Next, Begin, Boots, LateDestroy, vars
  <2> QED BY <1>0, <2>1, StepUnrepaired DEF ImageInv
<1>1. CASE UNCHANGED vars
  BY <1>0, <1>u, <1>1 DEF vars, ImageInv, Made, Checked, Verified, Exists, Alone, Active, StageOK
<1>2. ASSUME NEW b \in Builder, Begin(b) PROVE ImageInv'
  <2>1. /\ UNCHANGED <<staged, vm, idFile>> /\ pc'[b] = "download"
        /\ \A c \in Builder \ {b} : pc'[c] = pc[c] /\ ~solo'[c]
        /\ solo'[b] => \A c \in Builder \ {b} : ~Active(c)
    BY <1>0, <1>2 DEF Begin, Goto, TypeOK
  <2>2. Made' /\ Checked'
    BY <1>0, <2>1, NoVmFields DEF Made, Checked, Verified, Exists, Answered
  <2>3. \A c \in Builder : solo'[c] => Alone(c)' /\ StageOK(c)'
    BY <2>1 DEF Alone, Active, StageOK, Answered
  <2> QED BY <1>0, <1>u, <2>2, <2>3 DEF ImageInv
<1>3. ASSUME NEW b \in Builder, Step(b) \/ Kill(b) PROVE ImageInv'
  <2>1. Made' /\ Checked'
    BY <1>0, <1>3, StepMade, StepChecked
  <2>2. /\ Active(b) /\ solo' = solo
        /\ \A c \in Builder \ {b} : pc'[c] = pc[c]
    BY <1>0, <1>3, StepFrame, StepLabels
  <2>3. ASSUME NEW c \in Builder, solo'[c] PROVE Alone(c)' /\ StageOK(c)'
    <3>1. Alone(c) /\ StageOK(c) /\ c = b
      BY <2>2, <2>3 DEF ImageInv, Alone
    <3>2. StageOK(c)'
      BY <1>0, <1>3, <3>1, StepStage
    <3> QED BY <2>2, <3>1, <3>2 DEF Alone, Active
  <2> QED BY <1>0, <1>u, <2>1, <2>3 DEF ImageInv
<1>4. CASE Boots
  <2>1. /\ UNCHANGED <<pc, staged, idFile, solo>>
        /\ vm' = [vm EXCEPT !.life = "running"] /\ vm.life = "booting" /\ vm \in Vm
    BY <1>0, <1>4 DEF Boots, TypeOK
  <2>2. /\ vm'.life = "running" /\ vm'.by = vm.by /\ vm'.touched = vm.touched
        /\ vm'.disk = vm.disk /\ vm'.answered = vm.answered /\ vm'.leaving = vm.leaving
    BY <2>1 DEF Vm
  <2>3. Made' /\ Checked'
    BY <1>0, <2>1, <2>2, NoVmFields DEF Made, Checked, Verified, Exists
  <2>4. \A b \in Builder : solo'[b] => Alone(b)' /\ StageOK(b)'
    BY <2>1, <2>2 DEF ImageInv, Alone, Active, StageOK, Exists
  <2> QED BY <1>0, <1>u, <2>3, <2>4 DEF ImageInv
<1>5. CASE LateDestroy
  <2>1. vm.leaving /\ vm' = NoVm /\ UNCHANGED <<pc, staged, idFile, solo>>
    BY <1>5 DEF LateDestroy
  <2>2. Made' /\ Checked'
    BY <2>1, NoVmFields DEF Made, Checked
  <2>3. \A b \in Builder : solo'[b] => Alone(b)' /\ StageOK(b)'
    BY <2>1 DEF ImageInv, Alone, Active, StageOK, Answered
  <2> QED BY <1>0, <1>u, <2>2, <2>3 DEF ImageInv
<1> QED BY <1>1, <1>2, <1>3, <1>4, <1>5 DEF Next

LEMMA Invariance == Spec => []ImageInv
  BY InitInv, StepInv, PTL DEF Spec

-----------------------------------------------------------------------------

\* Types: in particular what VM 900 and image-id.txt can be.
THEOREM TypeCorrect == Spec => []TypeOK
<1>1. ImageInv => TypeOK
  BY DEF ImageInv
<1> QED BY <1>1, Invariance, PTL

\* After a build that no other overlapped, image-id.txt names a template that
\* this build has made and whose agent has answered (BuildImage.run).
THEOREM ImageIdVouchesForTemplate == Spec => []ImageIdVouches
<1>1. ImageInv => ImageIdVouches
  BY DEF ImageInv, StageOK, ImageIdVouches
<1> QED BY <1>1, Invariance, PTL

\* A template that one build alone has changed has booted and its agent has
\* answered (wait_for_agent before `qm template`).
THEOREM TemplatesAreVerified == Spec => []TemplateVerified
<1>1. ImageInv => TemplateVerified
  BY DEF ImageInv, Checked, Verified, TemplateVerified
<1> QED BY <1>1, Invariance, PTL

\* The code as it is makes no VM 900 and no image-id.txt, whatever the faults
\* and the repetitions (PveClient.ssh_run_stdin).
THEOREM CodeAsItIsBuildsNothing == Spec => []AsIsBuildsNothing
<1>1. ImageInv => AsIsBuildsNothing
  BY DEF ImageInv, Unrepaired, AsIsBuildsNothing
<1> QED BY <1>1, Invariance, PTL

\* A build that runs alone gives up the old template only when the image that
\* will replace it is baked (find_template_vmid and destroy_vm after the bake).
THEOREM OldTemplateIsKept == Spec => OldTemplateKept
<1>1. ASSUME ImageInv, [Next]_vars, NEW b \in Builder, solo[b],
             vm.life = "template", ~vm.leaving, vm'.life # "template"
      PROVE  staged = "baked"
  <2>1. TypeOK /\ Alone(b) /\ StageOK(b)
    BY <1>1 DEF ImageInv
  <2>2. ~UNCHANGED vars /\ ~Boots /\ ~LateDestroy /\ \A c \in Builder : ~Begin(c)
    BY <1>1 DEF vars, Boots, LateDestroy, Begin
  <2>3. PICK c \in Builder : Step(c) \/ Kill(c)
    BY <1>1, <2>2 DEF Next
  <2>4. c = b
    BY <2>1, <2>3, StepFrame DEF Alone
  <2>5. pc[b] = "destroy"
    BY <1>1, <2>1, <2>3, <2>4, VmOutcomes DEF Changed, Exists
  <2> QED BY <2>1, <2>5 DEF StageOK
<1>2. ImageInv /\ [Next]_vars =>
         [\A b \in Builder :
            solo[b] /\ vm.life = "template" /\ ~vm.leaving
            /\ vm'.life # "template" => staged = "baked"]_vars
  BY <1>1
<1> QED BY <1>2, Invariance, PTL DEF Spec, OldTemplateKept

=============================================================================
