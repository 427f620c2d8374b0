----------------------------- MODULE JobEngine -----------------------------
(***************************************************************************)
(* The migration engine of backend/internal/job/engine.go as it runs in    *)
(* lab mode: plans and jobs in PostgreSQL, a vCenter source, a Proxmox     *)
(* target and the conversion worker.                                       *)
(*                                                                         *)
(* Any number of execute requests may be open.  Each holds the plan it     *)
(* read BEFORE it queued on the engine's mutex; the holder of the mutex    *)
(* runs ExecutePlan: six steps, each bracketed by saves of the whole job,  *)
(* every step skipped when the stored job already shows it succeeded.      *)
(* One action is one call that leaves the process (a save, an audit        *)
(* append, a platform call), so a crash, a failed call or a change on the  *)
(* platform can fall between any two of them.                              *)
(***************************************************************************)
EXTENDS Naturals, FiniteSets

CONSTANTS
  Plans,        \* migration plans; plan p owns the job "job-" + p
  Sources,      \* source VMs in vCenter
  SourceOf,     \* the source VM a plan migrates (plans may share one)
  Requests,     \* execute requests that may be open at the same time
  Vmids,        \* VM ids the Proxmox cluster can hand out
  DiskCount,    \* disks a plan maps to a storage, imported in this order
  Disturbances, \* what may go wrong, see below
  NoPlan, NoRequest, NoVmid

(***************************************************************************)
(* "store":    a database call returns an error (its commit may have taken *)
(*             effect); a cancelled request context looks the same.        *)
(* "platform": an adapter call returns an error, before or after its       *)
(*             effect on the platform.                                     *)
(* "crash":    the backend process dies and restarts.                      *)
(* "operator": somebody starts a source VM in vCenter.                     *)
(***************************************************************************)
DisturbanceKinds == {"store", "platform", "crash", "operator"}

ASSUME EngineAssumption ==
  /\ SourceOf \in [Plans -> Sources]
  /\ DiskCount \in Nat \ {0}
  /\ Disturbances \subseteq DisturbanceKinds
  /\ NoPlan \notin Plans
  /\ NoRequest \notin Requests
  /\ NoVmid \notin Vmids

VARIABLES
  plans,      \* the plan table
  jobs,       \* the job table with the steps of each job
  audit,      \* ids of the stored audit events
  power,      \* power state of each source VM
  exports,    \* exported disk files in the job workspace
  converted,  \* converted disk files in the job workspace
  vms,        \* the VMs of the Proxmox cluster, by VM id
  calls,      \* the open execute requests: plan id and plan value read
  owner,      \* the request that holds the engine's mutex
  pc,         \* where ExecutePlan is
  step,       \* the step it is at
  disk,       \* the disk that step is at
  job         \* its copy of the job

durable  == <<plans, jobs, audit>>
platform == <<power, exports, converted, vms>>
vars     == <<plans, jobs, audit, power, exports, converted, vms, calls,
              owner, pc, step, disk, job>>

-----------------------------------------------------------------------------
(* Data *)

(* The driven steps in the order ExecutePlan runs them.  The job also      *)
(* lists preflight, validate and cutover; no code ever changes those.      *)
SourcePoweroff == 1
CreateTargetVM == 2
ExportDisks    == 3
ConvertDisks   == 4
AttachDisks    == 5
IsolatedBoot   == 6
Steps == 1..6
Disks == 1..DiskCount

PlanStatuses == {"absent", "draft", "preflight", "approved", "deleted"}
StepStates   == {"pending", "running", "succeeded", "failed"}
JobStates    == {"absent", "pending", "running", "succeeded", "failed",
                 "rollback_prepared"}
PowerStates  == {"on", "off", "suspended"}
ExportStates == {"absent", "residue", "current", "stale"}
OutputStates == {"absent", "orphan", "complete"}
AuditActions == {"start", "wait", "fail", "approve", "approve_power_off"}
AuditEvents  == AuditActions \X Plans

Labels == {"idle", "load", "create", "start", "audit_start", "step", "work",
           "power_off", "power_verify", "boot", "complete", "reserve",
           "save_plan", "workspace", "evidence", "finish", "audit_wait",
           "fail", "audit_fail"}

(* A row of the plan table: its preflight passed, which disks of the       *)
(* source its storage maps name (the engine migrates those and no other),  *)
(* the shutdown of its source was approved, its target VM id.              *)
Plan == [status: PlanStatuses, passed: BOOLEAN, maps: {"none", "some", "all"},
         powerOffApproved: BOOLEAN, vmid: Vmids \cup {NoVmid}]
Job  == [state: JobStates, steps: [Steps -> StepStates]]
(* owner is the plan whose idempotency marker the VM's description holds,  *)
(* NoPlan when no VM has this id; slots[d] is the plan whose disk d the    *)
(* marker of slot scsi(d-1) names.                                         *)
VM   == [owner: Plans \cup {NoPlan}, on: BOOLEAN,
         net: {"isolated", "production"},
         slots: [Disks -> Plans \cup {NoPlan}]]
Call == [plan: Plans \cup {NoPlan}, snapshot: Plan]

AllPending == [s \in Steps |-> "pending"]
NoJob  == [state |-> "absent", steps |-> AllPending]
NewJob == [state |-> "pending", steps |-> AllPending]
NoVM   == [owner |-> NoPlan, on |-> FALSE, net |-> "isolated",
           slots |-> [d \in Disks |-> NoPlan]]
NewVM(p) == [NoVM EXCEPT !.owner = p]
NoRow  == [status |-> "absent", passed |-> FALSE, maps |-> "none",
           powerOffApproved |-> FALSE, vmid |-> NoVmid]
NoCall == [plan |-> NoPlan, snapshot |-> NoRow]

-----------------------------------------------------------------------------
(* The running execution *)

Current  == calls[owner].plan
Snapshot == calls[owner].snapshot
Source   == SourceOf[Current]
Target   == Snapshot.vmid
Faulty(kind) == kind \in Disturbances
InTable(p) == plans[p].status \notin {"absent", "deleted"}

At(label) == owner # NoRequest /\ pc = label
Working(s) == At("work") /\ step = s

Goto(label) == pc' = label /\ UNCHANGED <<owner, step, disk, job, calls>>

(* Mutation of Return: the mutex is not unlocked.                          *)
ReturnLocked ==
  /\ calls' = [calls EXCEPT ![owner] = NoCall]
  /\ pc' = "idle"
  /\ step' = SourcePoweroff
  /\ disk' = 1
  /\ job' = NoJob
  /\ UNCHANGED owner

(* ExecutePlan returns: the mutex is released and its locals are gone.     *)
Return ==
  /\ calls' = [calls EXCEPT ![owner] = NoCall]
  /\ owner' = NoRequest
  /\ pc' = "idle"
  /\ step' = SourcePoweroff
  /\ disk' = 1
  /\ job' = NoJob

(* Save job value j, then continue at label of step s.  When the save      *)
(* reports an error ExecutePlan returns, whatever the database kept.       *)
SaveThen(j, label, s) ==
  /\ \/ /\ jobs' = [jobs EXCEPT ![Current] = j]
        /\ job' = j
        /\ pc' = label
        /\ step' = s
        /\ disk' = 1
        /\ UNCHANGED <<owner, calls>>
     \/ /\ Faulty("store")
        /\ \/ jobs' = [jobs EXCEPT ![Current] = j]
           \/ UNCHANGED jobs
        /\ Return
  /\ UNCHANGED <<plans, audit, platform>>

(* Append an audit event: an id the table already has is kept as it is.    *)
AuditThen(action, next) ==
  /\ \/ audit' = audit \cup {<<action, Current>>} /\ next
     \/ /\ Faulty("store")
        /\ \/ audit' = audit \cup {<<action, Current>>}
           \/ UNCHANGED audit
        /\ Return
  /\ UNCHANGED <<plans, jobs, platform>>

(* Mutation of StepFails: the caller returns without calling fail.         *)
StepFailsSilently ==
  /\ job' = [job EXCEPT !.steps[step] = "failed"]
  /\ pc' = "audit_fail"
  /\ UNCHANGED <<owner, step, disk, calls>>

(* The step's function returned an error: the step is failed in the copy.  *)
StepFails ==
  /\ job' = [job EXCEPT !.steps[step] = "failed"]
  /\ pc' = "fail"
  /\ UNCHANGED <<owner, step, disk, calls>>

(* Mutations of NextDisk: the loop ends one disk late, or one early.       *)
NextDiskLate ==
  /\ IF disk > DiskCount THEN disk' = 1 /\ pc' = "complete"
                         ELSE disk' = disk + 1 /\ pc' = "work"
  /\ UNCHANGED <<owner, step, job, calls>>

NextDiskEarly ==
  /\ IF disk + 1 >= DiskCount THEN disk' = 1 /\ pc' = "complete"
                              ELSE disk' = disk + 1 /\ pc' = "work"
  /\ UNCHANGED <<owner, step, job, calls>>

NextDisk ==
  /\ IF disk = DiskCount THEN disk' = 1 /\ pc' = "complete"
                         ELSE disk' = disk + 1 /\ pc' = "work"
  /\ UNCHANGED <<owner, step, job, calls>>

(* What ExecutePlan does after step s; ran: it was not skipped.            *)
AfterStep(s, ran) ==
  CASE s = SourcePoweroff      -> "reserve"
    [] s = CreateTargetVM      -> "workspace"
    [] s = ConvertDisks /\ ran -> "evidence"
    [] s = IsolatedBoot        -> "finish"
    [] OTHER                   -> "step"

StepAfter(s) == IF s = IsolatedBoot THEN s ELSE s + 1

-----------------------------------------------------------------------------
(* Requests, and the prologue of ExecutePlan *)

(* The handler reads the plan and refuses one that is not approved.        *)
Execute(r, p) ==
  /\ calls[r] = NoCall
  /\ plans[p].status = "approved"
  /\ calls' = [calls EXCEPT ![r] = [plan |-> p, snapshot |-> plans[p]]]
  /\ UNCHANGED <<durable, platform, owner, pc, step, disk, job>>

Lock(r) ==
  /\ owner = NoRequest
  /\ calls[r].plan # NoPlan
  /\ owner' = r
  /\ pc' = "load"
  /\ UNCHANGED <<durable, platform, calls, step, disk, job>>

(* Mutation of Load: a retry starts from a new job.                        *)
LoadAfresh ==
  /\ At("load")
  /\ Goto("create") \/ (Faulty("store") /\ Return)
  /\ UNCHANGED <<durable, platform>>

Load ==
  /\ At("load")
  /\ \/ /\ jobs[Current].state # "absent"
        /\ job' = jobs[Current]
        /\ pc' = "start"
        /\ UNCHANGED <<owner, step, disk, calls>>
     \/ jobs[Current].state = "absent" /\ Goto("create")
     \/ Faulty("store") /\ Return
  /\ UNCHANGED <<durable, platform>>

(* jobs.plan_id references the plan table.                                 *)
Create ==
  /\ At("create")
  /\ \/ InTable(Current) /\ SaveThen(NewJob, "start", SourcePoweroff)
     \/ ~InTable(Current) /\ Return /\ UNCHANGED <<durable, platform>>

(* Mutation of Start: the job is not marked as running.                    *)
StartUnmarked ==
  /\ At("start")
  /\ \/ SaveThen(job, "audit_start", SourcePoweroff)
     \/ Faulty("platform") /\ Return /\ UNCHANGED <<durable, platform>>

(* Both adapters are built here; no credential means an early return.      *)
Start ==
  /\ At("start")
  /\ \/ SaveThen([job EXCEPT !.state = "running"], "audit_start", SourcePoweroff)
     \/ Faulty("platform") /\ Return /\ UNCHANGED <<durable, platform>>

AuditStart == At("audit_start") /\ AuditThen("start", Goto("step"))

-----------------------------------------------------------------------------
(* runStep, around the function of the step *)

SkipStep ==
  /\ At("step")
  /\ job.steps[step] = "succeeded"
  /\ pc' = AfterStep(step, FALSE)
  /\ step' = StepAfter(step)
  /\ UNCHANGED <<durable, platform, owner, disk, job, calls>>

BeginStep ==
  /\ At("step")
  /\ job.steps[step] # "succeeded"
  /\ SaveThen([job EXCEPT !.steps[step] = "running"], "work", step)

CompleteStep ==
  /\ At("complete")
  /\ SaveThen([job EXCEPT !.steps[step] = "succeeded"],
              AfterStep(step, TRUE), StepAfter(step))

(* Mutation of Fail: the job goes back to pending, ready for a retry.      *)
FailToPending ==
  At("fail") /\ SaveThen([job EXCEPT !.state = "pending"], "audit_fail", step)

Fail == At("fail") /\ SaveThen([job EXCEPT !.state = "failed"], "audit_fail", step)

AuditFail == At("audit_fail") /\ AuditThen("fail", Return)

-----------------------------------------------------------------------------
(* source_poweroff *)

ReadPower ==
  /\ Working(SourcePoweroff)
  /\ \/ power[Source] = "off" /\ Goto("power_off")
     \/ power[Source] = "on" /\ Snapshot.powerOffApproved /\ Goto("power_off")
     \/ power[Source] = "on" /\ ~Snapshot.powerOffApproved /\ StepFails
     \/ power[Source] = "suspended" /\ StepFails
     \/ Faulty("platform") /\ StepFails
  /\ UNCHANGED <<durable, platform>>

(* Mutation of PowerOff: the guest is asked to stop but keeps running.     *)
PowerOffAsksOnly ==
  /\ At("power_off")
  /\ Goto("power_verify")
  /\ UNCHANGED <<durable, platform>>

(* Mutation of PowerOff: the approval is left to the check before it.      *)
PowerOffTrusting ==
  LET refused == power[Source] = "suspended"
  IN  /\ At("power_off")
      /\ \/ ~refused /\ power' = [power EXCEPT ![Source] = "off"] /\ Goto("power_verify")
         \/ (refused \/ Faulty("platform")) /\ UNCHANGED power /\ StepFails
      /\ UNCHANGED <<durable, exports, converted, vms>>

PowerOff ==
  LET refused == \/ power[Source] = "suspended"
                 \/ power[Source] = "on" /\ ~Snapshot.powerOffApproved
      stopped == power' = [power EXCEPT ![Source] = "off"]
  IN  /\ At("power_off")
      /\ \/ ~refused /\ stopped /\ Goto("power_verify")
         \/ refused /\ UNCHANGED power /\ StepFails
         \/ Faulty("platform") /\ UNCHANGED power /\ StepFails
         \/ Faulty("platform") /\ ~refused /\ stopped /\ StepFails
      /\ UNCHANGED <<durable, exports, converted, vms>>

VerifyPower ==
  /\ At("power_verify")
  /\ \/ power[Source] = "off" /\ Goto("complete")
     \/ power[Source] # "off" /\ StepFails
     \/ Faulty("platform") /\ StepFails
  /\ UNCHANGED <<durable, platform>>

-----------------------------------------------------------------------------
(* The target VM id, the target VM and the job workspace *)

(* Mutation of ReserveVMID: an id the plan already has is not kept.        *)
ReserveAgain ==
  /\ At("reserve")
  /\ \/ \E i \in Vmids :
          /\ vms[i].owner = NoPlan
          /\ calls' = [calls EXCEPT ![owner].snapshot.vmid = i]
          /\ pc' = "save_plan"
          /\ UNCHANGED <<owner, step, disk, job>>
     \/ (\A i \in Vmids : vms[i].owner # NoPlan) /\ Goto("fail")
  /\ UNCHANGED <<durable, platform>>

(* ReserveVMID asks the cluster for an id nobody uses; nothing holds it.   *)
ReserveVMID ==
  /\ At("reserve")
  /\ \/ Target # NoVmid /\ Goto("step")
     \/ /\ Target = NoVmid
        /\ \E i \in Vmids :
             /\ vms[i].owner = NoPlan
             /\ calls' = [calls EXCEPT ![owner].snapshot.vmid = i]
        /\ pc' = "save_plan"
        /\ UNCHANGED <<owner, step, disk, job>>
     \/ Target = NoVmid /\ (\A i \in Vmids : vms[i].owner # NoPlan) /\ Goto("fail")
     \/ Target = NoVmid /\ Faulty("platform") /\ Goto("fail")
  /\ UNCHANGED <<durable, platform>>

(* The whole plan value is written, as it was when the request read it.    *)
SavePlan ==
  LET saved == plans' = [plans EXCEPT ![Current] = Snapshot]
  IN  /\ At("save_plan")
      /\ \/ saved /\ Goto("step")
         \/ Faulty("store") /\ (saved \/ UNCHANGED plans) /\ Goto("fail")
      /\ UNCHANGED <<jobs, audit, platform>>

(* Mutation of CreateVM: a VM that exists is taken without its marker.     *)
CreateOverAny ==
  LET vm == vms[Target]
  IN  /\ Working(CreateTargetVM)
      /\ \/ /\ vm.owner = NoPlan
            /\ vms' = [vms EXCEPT ![Target] = NewVM(Current)]
            /\ Goto("complete")
         \/ vm.owner # NoPlan /\ ~vm.on /\ UNCHANGED vms /\ Goto("complete")
         \/ vm.on /\ UNCHANGED vms /\ StepFails
         \/ Faulty("platform") /\ UNCHANGED vms /\ StepFails
      /\ UNCHANGED <<durable, power, exports, converted>>

CreateVM ==
  LET vm      == vms[Target]
      verified == vm.owner = Current /\ ~vm.on /\ vm.net = "isolated"
      created == vms' = [vms EXCEPT ![Target] = NewVM(Current)]
  IN  /\ Working(CreateTargetVM)
      /\ \/ vm.owner = NoPlan /\ created /\ Goto("complete")
         \/ verified /\ UNCHANGED vms /\ Goto("complete")
         \/ vm.owner # NoPlan /\ ~verified /\ UNCHANGED vms /\ StepFails
         \/ Faulty("platform") /\ UNCHANGED vms /\ StepFails
         \/ Faulty("platform") /\ vm.owner = NoPlan /\ created /\ StepFails
      /\ UNCHANGED <<durable, power, exports, converted>>

MakeWorkspace ==
  /\ At("workspace")
  /\ (Goto("step") \/ (Faulty("platform") /\ Goto("fail")))
  /\ UNCHANGED <<durable, platform>>

-----------------------------------------------------------------------------
(* The disks *)

(* The adapter refuses a running source and a file that already exists; an *)
(* export that fails late can leave files behind.                          *)
ExportDisk ==
  LET possible == power[Source] = "off" /\ exports[Current][disk] = "absent"
      leaves(state) == exports' = [exports EXCEPT ![Current][disk] = state]
  IN  /\ Working(ExportDisks)
      /\ \/ possible /\ leaves("current") /\ NextDisk
         \/ ~possible /\ UNCHANGED exports /\ StepFails
         \/ Faulty("platform") /\ UNCHANGED exports /\ StepFails
         \/ Faulty("platform") /\ possible /\ leaves("residue") /\ StepFails
      /\ UNCHANGED <<durable, power, converted, vms>>

(* The worker reuses an output that its manifest vouches for and refuses   *)
(* one without a manifest.                                                 *)
ConvertDisk ==
  LET output == converted[Current][disk]
      leaves(state) == converted' = [converted EXCEPT ![Current][disk] = state]
  IN  /\ Working(ConvertDisks)
      /\ \/ output # "orphan" /\ leaves("complete") /\ NextDisk
         \/ output = "orphan" /\ UNCHANGED converted /\ StepFails
         \/ Faulty("platform") /\ UNCHANGED converted /\ StepFails
         \/ /\ Faulty("platform") /\ output = "absent"
            /\ leaves("orphan") \/ leaves("complete")
            /\ StepFails
      /\ UNCHANGED <<durable, power, exports, vms>>

EvidenceSaved == At("evidence") /\ SaveThen(job, "step", step)

(* Mutation of AttachDisk: an error of one disk does not stop the loop.    *)
AttachRegardless ==
  LET vm == vms[Target]
  IN  /\ Working(AttachDisks)
      /\ \/ /\ vm.owner # NoPlan /\ ~vm.on
            /\ vms' = [vms EXCEPT ![Target].slots[disk] = Current]
         \/ (vm.owner = NoPlan \/ vm.on \/ Faulty("platform")) /\ UNCHANGED vms
      /\ NextDisk
      /\ UNCHANGED <<durable, power, exports, converted>>

(* Any VM with a marker of this tool is accepted, whichever plan made it.  *)
AttachDisk ==
  LET vm       == vms[Target]
      refused  == \/ vm.owner = NoPlan
                  \/ vm.on
                  \/ vm.slots[disk] \notin {NoPlan, Current}
      attached == vms' = [vms EXCEPT ![Target].slots[disk] = Current]
  IN  /\ Working(AttachDisks)
      /\ \/ ~refused /\ attached /\ NextDisk
         \/ refused /\ UNCHANGED vms /\ StepFails
         \/ Faulty("platform") /\ UNCHANGED vms /\ StepFails
         \/ Faulty("platform") /\ ~refused /\ attached /\ StepFails
      /\ UNCHANGED <<durable, power, exports, converted>>

-----------------------------------------------------------------------------
(* isolated_boot *)

IsolateNetwork ==
  LET isolated == vms' = [vms EXCEPT ![Target].net = "isolated"]
      found    == vms[Target].owner # NoPlan
  IN  /\ Working(IsolatedBoot)
      /\ \/ found /\ isolated /\ Goto("boot")
         \/ ~found /\ UNCHANGED vms /\ StepFails
         \/ Faulty("platform") /\ UNCHANGED vms /\ StepFails
         \/ Faulty("platform") /\ found /\ isolated /\ StepFails
      /\ UNCHANGED <<durable, power, exports, converted>>

(* Whether Proxmox accepts the start of a running VM is not the engine's   *)
(* to say: both answers are possible.                                      *)
StartVM ==
  LET vm      == vms[Target]
      allowed == vm.owner # NoPlan /\ vm.net = "isolated"
      started == vms' = [vms EXCEPT ![Target].on = TRUE]
  IN  /\ At("boot")
      /\ \/ allowed /\ started /\ Goto("complete")
         \/ (~allowed \/ vm.on) /\ UNCHANGED vms /\ StepFails
         \/ Faulty("platform") /\ UNCHANGED vms /\ StepFails
         \/ Faulty("platform") /\ allowed /\ started /\ StepFails
      /\ UNCHANGED <<durable, power, exports, converted>>

Finish == At("finish") /\ SaveThen([job EXCEPT !.state = "pending"], "audit_wait", step)

AuditWait == At("audit_wait") /\ AuditThen("wait", Return)

-----------------------------------------------------------------------------
(* Disturbances that are not the answer to a call *)

Crash ==
  /\ Faulty("crash")
  /\ \E r \in Requests : calls[r] # NoCall
  /\ calls' = [r \in Requests |-> NoCall]
  /\ owner' = NoRequest
  /\ pc' = "idle"
  /\ step' = SourcePoweroff
  /\ disk' = 1
  /\ job' = NoJob
  /\ UNCHANGED <<durable, platform>>

SourceStarted(v) ==
  /\ Faulty("operator")
  /\ power[v] # "on"
  /\ power' = [power EXCEPT ![v] = "on"]
  /\ exports' = [p \in Plans |-> [d \in Disks |->
                   IF SourceOf[p] = v /\ exports[p][d] = "current"
                     THEN "stale" ELSE exports[p][d]]]
  /\ UNCHANGED <<durable, converted, vms, calls, owner, pc, step, disk, job>>

-----------------------------------------------------------------------------
InitEngine ==
  /\ jobs = [p \in Plans |-> NoJob]
  /\ audit = {}
  /\ power \in [Sources -> PowerStates]
  /\ exports = [p \in Plans |-> [d \in Disks |-> "absent"]]
  /\ converted = [p \in Plans |-> [d \in Disks |-> "absent"]]
  /\ vms = [i \in Vmids |-> NoVM]
  /\ calls = [r \in Requests |-> NoCall]
  /\ owner = NoRequest
  /\ pc = "idle"
  /\ step = SourcePoweroff
  /\ disk = 1
  /\ job = NoJob

(* Here the plans have been approved; MigrationApi starts without plans.   *)
(* The engine does not look at which disks the maps leave out.             *)
Init ==
  /\ plans \in [Plans -> [status: {"approved"}, passed: {TRUE}, maps: {"all"},
                          powerOffApproved: BOOLEAN, vmid: {NoVmid}]]
  /\ InitEngine

(* One step of the goroutine that holds the mutex.                         *)
EngineStep ==
  \/ Load \/ Create \/ Start \/ AuditStart
  \/ SkipStep \/ BeginStep \/ CompleteStep \/ Fail \/ AuditFail
  \/ ReadPower \/ PowerOff \/ VerifyPower
  \/ ReserveVMID \/ SavePlan \/ CreateVM \/ MakeWorkspace
  \/ ExportDisk \/ ConvertDisk \/ EvidenceSaved \/ AttachDisk
  \/ IsolateNetwork \/ StartVM
  \/ Finish \/ AuditWait

Next ==
  \/ \E r \in Requests, p \in Plans : Execute(r, p)
  \/ \E r \in Requests : Lock(r)
  \/ EngineStep
  \/ Crash
  \/ \E v \in Sources : SourceStarted(v)

Spec == Init /\ [][Next]_vars

(* Every call the engine makes returns (the clients have deadlines or the  *)
(* platform task ends), so the holder of the mutex keeps moving; Go's      *)
(* sync.Mutex is starvation free, so a waiter gets it if it is released    *)
(* again and again.                                                        *)
Fairness ==
  /\ WF_vars(EngineStep)
  /\ \A r \in Requests : SF_vars(Lock(r))

FairSpec == Spec /\ Fairness

-----------------------------------------------------------------------------
(* Invariants *)

TypeOK ==
  /\ plans \in [Plans -> Plan]
  /\ jobs \in [Plans -> Job]
  /\ audit \subseteq AuditEvents
  /\ power \in [Sources -> PowerStates]
  /\ exports \in [Plans -> [Disks -> ExportStates]]
  /\ converted \in [Plans -> [Disks -> OutputStates]]
  /\ vms \in [Vmids -> VM]
  /\ calls \in [Requests -> Call]
  /\ owner \in Requests \cup {NoRequest}
  /\ pc \in Labels
  /\ step \in Steps
  /\ disk \in Disks
  /\ job \in Job

Succeeded(p, s) == jobs[p].steps[s] = "succeeded"

(* The stored steps of a job are always a prefix of the execution order    *)
(* that succeeded, then at most one step that runs or failed, then steps   *)
(* never started: no crash, lost save, failure or second request makes     *)
(* runStep store progress on a step whose predecessor is not done.         *)
StepsFollowOrder ==
  \A p \in Plans, s \in Steps :
    (s > 1 /\ jobs[p].steps[s] # "pending") => Succeeded(p, s - 1)

(* A job stored as pending is either new or has all six steps done: the    *)
(* "awaiting validation" state of ExecutePlan is never reached early.      *)
WaitingIsComplete ==
  \A p \in Plans : jobs[p].state = "pending" =>
    \/ jobs[p].steps = AllPending
    \/ \A s \in Steps : Succeeded(p, s)

(* What a step leaves on the platform: the VM with the plan's marker, and  *)
(* of every disk a complete export, a complete conversion and a slot that  *)
(* holds it.                                                               *)
DiskDone(p, s, d) ==
  /\ s = ExportDisks  => exports[p][d] \in {"current", "stale"}
  /\ s = ConvertDisks => converted[p][d] = "complete"
  /\ s = AttachDisks  => \E i \in Vmids : vms[i].slots[d] = p

Happened(p, s) ==
  /\ s = CreateTargetVM => \E i \in Vmids : vms[i].owner = p
  /\ \A d \in Disks : DiskDone(p, s, d)

(* A step stored as succeeded has happened on the platform, so skipping it *)
(* on the next execution loses nothing.                                    *)
SucceededStepsHappened ==
  \A p \in Plans, s \in Steps : Succeeded(p, s) => Happened(p, s)

(* Once the target VM was created, the stored plan leads to it: validate,  *)
(* cutover and rollback all find their VM through plan.TargetVMID.         *)
PlanNamesItsVM ==
  \A p \in Plans : Succeeded(p, CreateTargetVM) =>
    /\ plans[p].vmid # NoVmid
    /\ vms[plans[p].vmid].owner = p

(* No execution writes to another plan's VM, although ownedVMNode accepts  *)
(* any VM with a marker of this tool: disks stay with the VM's own plan.   *)
VMsKeepToTheirPlan ==
  \A i \in Vmids, d \in Disks : vms[i].slots[d] \in {NoPlan, vms[i].owner}

(* A target VM that runs has every disk of its plan and no way out to a    *)
(* network: isolated_boot never starts a half-imported VM.                 *)
RunningTargetIsComplete ==
  \A i \in Vmids : vms[i].on =>
    /\ vms[i].net = "isolated"
    /\ \A d \in Disks : vms[i].slots[d] = vms[i].owner /\ vms[i].owner # NoPlan

(* What the documentation says and the code does not keep, "running |      *)
(* Execution in progress": a job stored as running is the one that the     *)
(* holder of the mutex executes. A crash breaks it.                        *)
RunningMeansExecuting ==
  \A p \in Plans : jobs[p].state = "running" => owner # NoRequest /\ Current = p

-----------------------------------------------------------------------------
(* The inductive invariant behind StepsFollowOrder and WaitingIsComplete:  *)
(* what the holder's copy of the job and its position say of the stored    *)
(* job.                                                                    *)

BeforeSteps == {"idle", "load", "create", "start", "audit_start"}
InsideStep  == {"work", "power_off", "power_verify", "boot", "complete"}
Stepping    == InsideStep \cup {"step", "reserve", "save_plan", "workspace",
                                "evidence"}

OrderOK(j) == \A s \in Steps :
  (s > 1 /\ j.steps[s] # "pending") => j.steps[s - 1] = "succeeded"

(* The mutex has a holder exactly while ExecutePlan runs, and the holder   *)
(* works for a plan.                                                       *)
HolderOK ==
  /\ owner = NoRequest <=> pc = "idle"
  /\ owner # NoRequest => Current \in Plans

(* The copy agrees with the stored job on the state and on which steps     *)
(* succeeded.                                                              *)
CopyOK == pc \notin {"idle", "load", "create"} =>
  /\ job.state = jobs[Current].state
  /\ \A s \in Steps : job.steps[s] = "succeeded" <=> Succeeded(Current, s)

(* What holds of the copy j when ExecutePlan is at label of step s.        *)
PositionAt(j, label, s) ==
  /\ OrderOK(j)
  /\ label \in BeforeSteps => s = SourcePoweroff
  /\ label = "start" => j.state # "absent"
  /\ label \in Stepping \cup {"audit_start", "finish", "fail"} => j.state = "running"
  /\ label \in Stepping => \A t \in Steps : t < s => j.steps[t] = "succeeded"
  /\ label \in InsideStep => j.steps[s] = "running"
  /\ label = "finish" => \A t \in Steps : j.steps[t] = "succeeded"
  /\ label = "audit_fail" => j.state = "failed"
  /\ label = "audit_wait" => j.state = "pending"

PositionOK ==
  /\ PositionAt(job, pc, step)
  /\ pc = "create" => jobs[Current].state = "absent"

(* A value fit to be stored.                                               *)
Storable(j) ==
  /\ OrderOK(j)
  /\ j.state \in {"pending", "running", "failed"}
  /\ j.state = "pending" =>
       j.steps = AllPending \/ \A s \in Steps : j.steps[s] = "succeeded"

(* Only the states ExecutePlan and a rollback store, and an absent job has *)
(* no steps.                                                               *)
StoredOK == \A p \in Plans :
  /\ jobs[p].state \in {"absent", "pending", "running", "failed", "rollback_prepared"}
  /\ jobs[p].state = "absent" => jobs[p] = NoJob

(* Only rollback handlers store the state of a rollback (MigrationApi).    *)
NotRolledBack == \A p \in Plans : jobs[p].state # "rollback_prepared"

EngineInv ==
  /\ TypeOK /\ HolderOK /\ CopyOK /\ PositionOK /\ StoredOK
  /\ StepsFollowOrder /\ WaitingIsComplete

(* The inductive invariant behind SucceededStepsHappened: which step some  *)
(* labels belong to, and how far the step at hand has come.                *)
LabelsOK ==
  /\ pc \in {"power_off", "power_verify"} => step = SourcePoweroff
  /\ pc = "boot" => step = IsolatedBoot

(* From the reservation on the holder's plan has a VM id.                  *)
TargetNamed ==
  /\ pc = "save_plan" => Target \in Vmids
  /\ (pc \in InsideStep \cup {"step", "workspace", "evidence"} /\ step > SourcePoweroff) =>
       Target \in Vmids

ProgressOK ==
  /\ pc = "work" => \A d \in Disks : d < disk => DiskDone(Current, step, d)
  /\ pc = "complete" => Happened(Current, step)

UnusedIsEmpty ==
  \A i \in Vmids, d \in Disks : vms[i].owner = NoPlan => vms[i].slots[d] = NoPlan

EffectsInv ==
  /\ EngineInv /\ LabelsOK /\ TargetNamed /\ ProgressOK /\ UnusedIsEmpty
  /\ SucceededStepsHappened

(* With one request at a time: the holder's VM id is the one the plan      *)
(* table has, from the save of the plan on, and the VM with this id is the *)
(* plan's own and holds the disks attached so far.                         *)
TargetIsStored ==
  \A r \in Requests :
    (calls[r] # NoCall /\ pc \notin {"save_plan", "fail", "audit_fail"}) =>
      calls[r].snapshot.vmid = plans[calls[r].plan].vmid

TargetOK ==
  /\ pc = "save_plan" => plans[Current].vmid = NoVmid
  /\ (pc = "complete" /\ step = CreateTargetVM) => vms[Target].owner = Current
  /\ (pc = "work" /\ step = AttachDisks) =>
       \A d \in Disks : d < disk => vms[Target].slots[d] = Current
  /\ (pc = "complete" /\ step = AttachDisks) =>
       \A d \in Disks : vms[Target].slots[d] = Current

AttachedToOwnVM ==
  \A p \in Plans : Succeeded(p, AttachDisks) =>
    \A d \in Disks : vms[plans[p].vmid].slots[d] = p

SequentialInv ==
  /\ EngineInv /\ LabelsOK /\ TargetNamed /\ TargetIsStored /\ TargetOK
  /\ PlanNamesItsVM /\ VMsKeepToTheirPlan /\ AttachedToOwnVM /\ RunningTargetIsComplete

-----------------------------------------------------------------------------
(* An action property *)

(* Where the holder waits for the answer of a save or of an audit append.  *)
StoreCalls == {"audit_start", "step", "complete", "evidence", "finish", "fail"}

(* An execution that has marked its job as running leaves it so, with      *)
(* nobody executing it, only when the process dies or when the store fails *)
(* in the middle of it: whatever a platform refuses, and wherever, the job *)
(* ends failed or waiting, and only then is the mutex released.            *)
StrandedOnlyByFault ==
  [][(/\ owner # NoRequest /\ owner' = NoRequest
      /\ pc \notin {"load", "create", "start"}
      /\ jobs'[Current].state = "running")
       => Crash \/ (Faulty("store") /\ pc \in StoreCalls)]_vars

-----------------------------------------------------------------------------
(* Liveness *)

(* Every execute request gets its answer, whatever fails on the way: no    *)
(* path through ExecutePlan keeps the mutex.                               *)
RequestReturns ==
  \A r \in Requests : calls[r] # NoCall ~> calls[r] = NoCall

(* When nothing goes wrong, an execute request of a plan whose source may  *)
(* be shut down ends with all six steps done and the job awaiting the      *)
(* operator.                                                               *)
MayStop(p) == \/ power[SourceOf[p]] = "off"
              \/ power[SourceOf[p]] = "on" /\ plans[p].powerOffApproved

ExecutionCompletes ==
  \A r \in Requests, p \in Plans :
    (calls[r].plan = p /\ MayStop(p)) ~>
      (jobs[p].state = "pending" /\ \A s \in Steps : Succeeded(p, s))

=============================================================================
