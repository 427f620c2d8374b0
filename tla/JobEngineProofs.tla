-------------------------- MODULE JobEngineProofs --------------------------
(***************************************************************************)
(* Theorems of JobEngine, for any plans, requests, VM ids, disks and       *)
(* disturbances.                                                           *)
(***************************************************************************)
EXTENDS JobEngineRefinement, TLAPS

USE DEF SourcePoweroff, CreateTargetVM, ExportDisks, ConvertDisks,
        AttachDisks, IsolatedBoot

(* The constant records have their types.                                  *)
LEMMA RecordTypes ==
  /\ NoJob \in Job /\ NewJob \in Job /\ NoVM \in VM /\ NoCall \in Call
  /\ \A p \in Plans : NewVM(p) \in VM
<1>1. AllPending \in [Steps -> StepStates]
  BY DEF AllPending, StepStates
<1>2. NoJob \in Job /\ NewJob \in Job
  BY <1>1 DEF NoJob, NewJob, Job, JobStates
<1>3. NoVM \in VM
  BY DEF NoVM, VM
<1>4. \A p \in Plans : NewVM(p) \in VM
  BY <1>3 DEF NewVM, VM
<1>5. NoCall \in Call
  BY DEF NoCall, NoRow, Call, Plan, PlanStatuses
<1> QED BY <1>2, <1>3, <1>4, <1>5

(* The initial states have their types.                                    *)
LEMMA InitType == Init => TypeOK
<1> SUFFICES ASSUME Init PROVE TypeOK
  OBVIOUS
<1>1. plans \in [Plans -> Plan]
  BY DEF Init, InitEngine, Plan, PlanStatuses
<1>2. DiskCount \in Nat /\ DiskCount >= 1
  BY EngineAssumption
<1> QED
  BY <1>1, <1>2, RecordTypes
  DEF Init, InitEngine, TypeOK, ExportStates, OutputStates, Labels, Steps, Disks

(* ExecutePlan's exits keep the types of what it holds.                    *)
LEMMA ReturnType ==
  ASSUME TypeOK, Return
  PROVE  /\ calls' \in [Requests -> Call] /\ owner' \in Requests \cup {NoRequest}
         /\ pc' \in Labels /\ step' \in Steps /\ disk' \in Disks /\ job' \in Job
<1>1. calls' \in [Requests -> Call]
  BY RecordTypes DEF TypeOK, Return
<1>2. job' \in Job
  BY RecordTypes DEF Return
<1>3. DiskCount \in Nat /\ DiskCount >= 1
  BY EngineAssumption
<1> QED
  BY <1>1, <1>2, <1>3 DEF Return, Labels, Steps, Disks

(* A save keeps the types of the table and of what ExecutePlan holds.      *)
LEMMA SaveThenType ==
  ASSUME TypeOK, NEW j \in Job, NEW label \in Labels, NEW s \in Steps,
         SaveThen(j, label, s)
  PROVE  TypeOK'
<1>1. jobs' \in [Plans -> Job]
  BY DEF TypeOK, SaveThen
<1>2. /\ calls' \in [Requests -> Call] /\ owner' \in Requests \cup {NoRequest}
      /\ pc' \in Labels /\ step' \in Steps /\ disk' \in Disks /\ job' \in Job
  BY ReturnType, EngineAssumption DEF TypeOK, SaveThen, Disks
<1> QED
  BY <1>1, <1>2 DEF TypeOK, SaveThen, platform

(* The continuations of a platform call keep the types of the locals.      *)
LEMMA LocalTypes ==
  ASSUME TypeOK,
         \/ \E label \in Labels : Goto(label)
         \/ StepFails
         \/ NextDisk
  PROVE  /\ calls' \in [Requests -> Call] /\ owner' \in Requests \cup {NoRequest}
         /\ pc' \in Labels /\ step' \in Steps /\ disk' \in Disks /\ job' \in Job
<1>1. CASE \E label \in Labels : Goto(label)
  BY <1>1 DEF TypeOK, Goto
<1>2. CASE StepFails
  <2>1. job' \in Job
    BY <1>2 DEF TypeOK, StepFails, Job, StepStates
  <2> QED
    BY <1>2, <2>1 DEF TypeOK, StepFails, Labels
<1>3. CASE NextDisk
  <2>1. DiskCount \in Nat
    BY EngineAssumption
  <2>2. disk' \in Disks
    BY <1>3, <2>1 DEF TypeOK, NextDisk, Disks
  <2> QED
    BY <1>3, <2>2 DEF TypeOK, NextDisk, Labels
<1> QED BY <1>1, <1>2, <1>3

-----------------------------------------------------------------------------
(* Every step keeps the types                                              *)

(* Requests, the mutex and the prologue of ExecutePlan.                    *)
LEMMA PrologueType ==
  ASSUME TypeOK, HolderOK,
         \/ \E r \in Requests, p \in Plans : Execute(r, p)
         \/ \E r \in Requests : Lock(r)
         \/ Load \/ Create \/ Start \/ AuditStart \/ AuditFail \/ AuditWait
  PROVE  TypeOK'
<1>1. ASSUME NEW r \in Requests, NEW p \in Plans, Execute(r, p) PROVE TypeOK'
  BY <1>1 DEF TypeOK, Execute, durable, platform, Call
<1>2. ASSUME NEW r \in Requests, Lock(r) PROVE TypeOK'
  BY <1>2 DEF TypeOK, Lock, durable, platform, Labels
<1>3. CASE Load
  <2>1. owner \in Requests /\ Current \in Plans
    BY <1>3 DEF TypeOK, HolderOK, Load, At
  <2>2. /\ calls' \in [Requests -> Call] /\ owner' \in Requests \cup {NoRequest}
        /\ pc' \in Labels /\ step' \in Steps /\ disk' \in Disks /\ job' \in Job
    <3>1. CASE job' = jobs[Current] /\ pc' = "start" /\ UNCHANGED <<owner, step, disk, calls>>
      BY <2>1, <3>1 DEF TypeOK, Labels
    <3>2. CASE Goto("create")
      BY <3>2, LocalTypes DEF Labels
    <3>3. CASE Return
      BY <3>3, ReturnType
    <3> QED BY <1>3, <3>1, <3>2, <3>3 DEF Load
  <2> QED
    BY <1>3, <2>2 DEF TypeOK, Load, durable, platform
<1>4. CASE Create
  <2>1. CASE SaveThen(NewJob, "start", SourcePoweroff)
    BY <2>1, SaveThenType, RecordTypes DEF Labels, Steps
  <2>2. CASE Return /\ UNCHANGED <<durable, platform>>
    BY <2>2, ReturnType DEF TypeOK, durable, platform
  <2> QED BY <1>4, <2>1, <2>2 DEF Create
<1>5. CASE Start
  <2>1. [job EXCEPT !.state = "running"] \in Job
    BY DEF TypeOK, Job, JobStates
  <2>2. CASE SaveThen([job EXCEPT !.state = "running"], "audit_start", SourcePoweroff)
    BY <2>1, <2>2, SaveThenType DEF Labels, Steps
  <2>3. CASE Return /\ UNCHANGED <<durable, platform>>
    BY <2>3, ReturnType DEF TypeOK, durable, platform
  <2> QED BY <1>5, <2>2, <2>3 DEF Start
<1>6. ASSUME NEW action \in {"start", "wait", "fail"},
             owner # NoRequest,
             AuditThen(action, Return \/ \E label \in Labels : Goto(label))
      PROVE  TypeOK'
  <2>1. <<action, Current>> \in AuditEvents
    BY <1>6 DEF HolderOK, AuditEvents, AuditActions
  <2>2. audit' \subseteq AuditEvents
    BY <1>6, <2>1 DEF TypeOK, AuditThen
  <2>3. /\ calls' \in [Requests -> Call] /\ owner' \in Requests \cup {NoRequest}
        /\ pc' \in Labels /\ step' \in Steps /\ disk' \in Disks /\ job' \in Job
    BY <1>6, ReturnType, LocalTypes DEF AuditThen
  <2> QED
    BY <1>6, <2>2, <2>3 DEF TypeOK, AuditThen, platform
<1>7. CASE AuditStart \/ AuditFail \/ AuditWait
  BY <1>6, <1>7 DEF AuditStart, AuditFail, AuditWait, AuditThen, At, Labels
<1> QED BY <1>1, <1>2, <1>3, <1>4, <1>5, <1>7

(* runStep, fail and the end of ExecutePlan: saves of the job.             *)
LEMMA SaveStepsType ==
  ASSUME TypeOK, HolderOK,
         SkipStep \/ BeginStep \/ CompleteStep \/ Fail \/ EvidenceSaved \/ Finish
  PROVE  TypeOK'
<1>1. \A s \in Steps, ran \in BOOLEAN : AfterStep(s, ran) \in Labels /\ StepAfter(s) \in Steps
  BY DEF AfterStep, StepAfter, Labels, Steps
<1>2. \A v \in StepStates : [job EXCEPT !.steps[step] = v] \in Job
  BY DEF TypeOK, Job
<1>3. \A v \in JobStates : [job EXCEPT !.state = v] \in Job
  BY DEF TypeOK, Job
<1>4. step \in Steps /\ job \in Job
  BY DEF TypeOK
<1>5. CASE SkipStep
  BY <1>1, <1>4, <1>5 DEF SkipStep, TypeOK, durable, platform
<1>6. CASE BeginStep
  BY <1>2, <1>4, <1>6, SaveThenType DEF BeginStep, StepStates, Labels
<1>7. CASE CompleteStep
  BY <1>1, <1>2, <1>4, <1>7, SaveThenType DEF CompleteStep, StepStates
<1>8. CASE Fail
  BY <1>3, <1>4, <1>8, SaveThenType DEF Fail, JobStates, Labels
<1>9. CASE EvidenceSaved
  BY <1>4, <1>9, SaveThenType DEF EvidenceSaved, Labels
<1>10. CASE Finish
  BY <1>3, <1>4, <1>10, SaveThenType DEF Finish, JobStates, Labels
<1> QED BY <1>5, <1>6, <1>7, <1>8, <1>9, <1>10

(* The platform calls.                                                     *)
LEMMA PlatformType ==
  ASSUME TypeOK, HolderOK,
         \/ ReadPower \/ PowerOff \/ VerifyPower
         \/ ReserveVMID \/ SavePlan \/ CreateVM \/ MakeWorkspace
         \/ ExportDisk \/ ConvertDisk \/ AttachDisk
         \/ IsolateNetwork \/ StartVM
  PROVE  TypeOK'
<1>1. owner \in Requests /\ Current \in Plans
  BY DEF TypeOK, HolderOK, At, Working, ReadPower, PowerOff, VerifyPower,
     ReserveVMID, SavePlan, CreateVM, MakeWorkspace, ExportDisk, ConvertDisk,
     AttachDisk, IsolateNetwork, StartVM
<1>2. Snapshot \in Plan
  BY <1>1 DEF TypeOK, Call, Snapshot
<1>3. \A label \in {"complete", "power_off", "power_verify", "step", "fail", "boot"} :
        label \in Labels
  BY DEF Labels
<1>4. CASE ReadPower
  BY <1>3, <1>4, LocalTypes DEF ReadPower, TypeOK, durable, platform
<1>5. CASE PowerOff
  <2>1. power' \in [Sources -> PowerStates]
    BY <1>5 DEF PowerOff, TypeOK, PowerStates
  <2> QED
    BY <1>3, <1>5, <2>1, LocalTypes DEF PowerOff, TypeOK, durable
<1>6. CASE VerifyPower
  BY <1>3, <1>6, LocalTypes DEF VerifyPower, TypeOK, durable, platform
<1>7. CASE ReserveVMID
  <2>1. CASE \E label \in Labels : Goto(label)
    BY <1>7, <2>1, LocalTypes DEF ReserveVMID, TypeOK, durable, platform
  <2>2. CASE /\ \E i \in Vmids : calls' = [calls EXCEPT ![owner].snapshot.vmid = i]
             /\ pc' = "save_plan" /\ UNCHANGED <<owner, step, disk, job>>
    <3>1. calls' \in [Requests -> Call]
      <4>1. PICK i \in Vmids : calls' = [calls EXCEPT ![owner].snapshot.vmid = i]
        BY <2>2
      <4>2. [calls[owner] EXCEPT !.snapshot.vmid = i] \in Call
        BY <1>1 DEF TypeOK, Call, Plan
      <4> QED BY <1>1, <4>1, <4>2 DEF TypeOK
    <3> QED
      BY <1>7, <2>2, <3>1 DEF ReserveVMID, TypeOK, durable, platform, Labels
  <2> QED BY <1>3, <1>7, <2>1, <2>2 DEF ReserveVMID
<1>8. CASE SavePlan
  <2>1. plans' \in [Plans -> Plan]
    BY <1>1, <1>2, <1>8 DEF SavePlan, TypeOK
  <2> QED
    BY <1>3, <1>8, <2>1, LocalTypes DEF SavePlan, TypeOK, platform
<1>9. CASE CreateVM
  <2>1. vms' \in [Vmids -> VM]
    BY <1>1, <1>9, RecordTypes DEF CreateVM, TypeOK
  <2> QED
    BY <1>3, <1>9, <2>1, LocalTypes DEF CreateVM, TypeOK, durable
<1>10. CASE MakeWorkspace
  BY <1>3, <1>10, LocalTypes DEF MakeWorkspace, TypeOK, durable, platform
<1>11. CASE ExportDisk
  <2>1. exports' \in [Plans -> [Disks -> ExportStates]]
    <3>1. \A state \in ExportStates :
            [exports EXCEPT ![Current][disk] = state] \in [Plans -> [Disks -> ExportStates]]
      BY <1>1 DEF TypeOK
    <3> QED BY <1>11, <3>1 DEF ExportDisk, TypeOK, ExportStates
  <2> QED
    BY <1>11, <2>1, LocalTypes DEF ExportDisk, TypeOK, durable
<1>12. CASE ConvertDisk
  <2>1. converted' \in [Plans -> [Disks -> OutputStates]]
    BY <1>1, <1>12 DEF ConvertDisk, TypeOK, OutputStates
  <2> QED
    BY <1>12, <2>1, LocalTypes DEF ConvertDisk, TypeOK, durable
<1>13. CASE AttachDisk
  <2>1. vms' \in [Vmids -> VM]
    <3>1. ASSUME NEW vm \in VM
          PROVE  [vm EXCEPT !.slots[disk] = Current] \in VM
      BY <1>1 DEF TypeOK, VM
    <3> QED BY <1>13, <3>1 DEF AttachDisk, TypeOK
  <2> QED
    BY <1>13, <2>1, LocalTypes DEF AttachDisk, TypeOK, durable
<1>14. CASE IsolateNetwork
  <2>1. vms' \in [Vmids -> VM]
    BY <1>14 DEF IsolateNetwork, TypeOK, VM
  <2> QED
    BY <1>3, <1>14, <2>1, LocalTypes DEF IsolateNetwork, TypeOK, durable
<1>15. CASE StartVM
  <2>1. vms' \in [Vmids -> VM]
    <3>1. ASSUME NEW vm \in VM PROVE [vm EXCEPT !.on = TRUE] \in VM
      BY DEF VM
    <3> QED BY <1>15, <3>1 DEF StartVM, TypeOK
  <2> QED
    BY <1>3, <1>15, <2>1, LocalTypes DEF StartVM, TypeOK, durable
<1> QED BY <1>4, <1>5, <1>6, <1>7, <1>8, <1>9, <1>10, <1>11, <1>12, <1>13, <1>14, <1>15

(* Disturbances.                                                           *)
LEMMA DisturbanceType ==
  ASSUME TypeOK, Crash \/ \E v \in Sources : SourceStarted(v)
  PROVE  TypeOK'
<1>1. CASE Crash
  <2>1. calls' \in [Requests -> Call] /\ job' \in Job
    BY <1>1, RecordTypes DEF Crash
  <2>2. DiskCount \in Nat /\ DiskCount >= 1
    BY EngineAssumption
  <2> QED
    BY <1>1, <2>1, <2>2 DEF Crash, TypeOK, durable, platform, Labels, Steps, Disks
<1>2. ASSUME NEW v \in Sources, SourceStarted(v) PROVE TypeOK'
  <2>1. exports' \in [Plans -> [Disks -> ExportStates]]
    BY <1>2 DEF SourceStarted, TypeOK, ExportStates
  <2>2. power' \in [Sources -> PowerStates]
    BY <1>2 DEF SourceStarted, TypeOK, PowerStates
  <2> QED
    BY <1>2, <2>1, <2>2 DEF SourceStarted, TypeOK, durable
<1> QED BY <1>1, <1>2

-----------------------------------------------------------------------------
(* The inductive invariant                                                 *)

(* The initial states satisfy it.                                          *)
LEMMA InitInv == Init => EngineInv
<1> SUFFICES ASSUME Init PROVE EngineInv
  OBVIOUS
<1>1. TypeOK
  BY InitType
<1>2. \A p \in Plans : jobs[p] = NoJob
  BY DEF Init, InitEngine
<1>3. NoJob.state = "absent" /\ \A s \in Steps : NoJob.steps[s] = "pending"
  BY DEF NoJob, AllPending
<1>4. HolderOK /\ CopyOK
  BY DEF Init, InitEngine, HolderOK, CopyOK
<1>5. PositionOK
  BY <1>3 DEF Init, InitEngine, PositionOK, PositionAt, OrderOK, BeforeSteps, Stepping, InsideStep
<1>6. StoredOK /\ StepsFollowOrder /\ WaitingIsComplete
  BY <1>2, <1>3 DEF StoredOK, StepsFollowOrder, WaitingIsComplete, Succeeded
<1> QED BY <1>1, <1>4, <1>5, <1>6 DEF EngineInv

(* Storing a storable value keeps what is promised of the job table.       *)
LEMMA StoreInv ==
  ASSUME EngineInv, NEW j \in Job, Storable(j), Current \in Plans,
         jobs' = [jobs EXCEPT ![Current] = j]
  PROVE  StoredOK' /\ StepsFollowOrder' /\ WaitingIsComplete'
<1>1. \A p \in Plans : jobs'[p] = IF p = Current THEN j ELSE jobs[p]
  BY DEF EngineInv, TypeOK
<1>2. StoredOK'
  BY <1>1 DEF EngineInv, StoredOK, Storable
<1>3. StepsFollowOrder'
  BY <1>1 DEF EngineInv, StepsFollowOrder, Succeeded, Storable, OrderOK
<1>4. WaitingIsComplete'
  BY <1>1 DEF EngineInv, WaitingIsComplete, Succeeded, Storable
<1> QED BY <1>2, <1>3, <1>4

(* Returning from ExecutePlan establishes everything but the job table.    *)
LEMMA ReturnInv ==
  ASSUME TypeOK, Return
  PROVE  HolderOK' /\ CopyOK' /\ PositionOK'
<1>1. OrderOK(NoJob)
  BY DEF OrderOK, NoJob, AllPending
<1> QED
  BY <1>1, EngineAssumption
  DEF Return, HolderOK, CopyOK, PositionOK, PositionAt, BeforeSteps, Stepping, InsideStep

(* A save, with the position it continues at.                              *)
LEMMA SaveThenInv ==
  ASSUME EngineInv, owner # NoRequest,
         NEW j \in Job, NEW label \in Labels \ {"idle", "load", "create"}, NEW s \in Steps,
         Storable(j), PositionAt(j, label, s), SaveThen(j, label, s)
  PROVE  EngineInv'
<1>1. TypeOK' /\ Current \in Plans
  BY SaveThenType DEF EngineInv, HolderOK
<1>2. jobs' = jobs => StoredOK' /\ StepsFollowOrder' /\ WaitingIsComplete'
  BY DEF EngineInv, StoredOK, StepsFollowOrder, WaitingIsComplete, Succeeded
<1>3. StoredOK' /\ StepsFollowOrder' /\ WaitingIsComplete'
  BY <1>1, <1>2, StoreInv DEF SaveThen
<1>4. CASE Return
  BY <1>1, <1>3, <1>4, ReturnInv DEF EngineInv
<1>5. CASE /\ jobs' = [jobs EXCEPT ![Current] = j] /\ job' = j /\ pc' = label
           /\ step' = s /\ UNCHANGED <<owner, calls>>
  <2>1. Current' = Current /\ jobs'[Current] = j
    BY <1>1, <1>5 DEF Current, EngineInv, TypeOK
  <2>2. HolderOK'
    BY <1>1, <1>5, <2>1 DEF HolderOK
  <2>3. CopyOK'
    BY <1>5, <2>1 DEF CopyOK, Succeeded
  <2>4. PositionOK'
    BY <1>5 DEF PositionOK
  <2> QED BY <1>1, <1>3, <2>2, <2>3, <2>4 DEF EngineInv
<1> QED BY <1>4, <1>5 DEF SaveThen

(* A step that stores nothing and stays with the holder.                   *)
LEMMA LocalInv ==
  ASSUME EngineInv, TypeOK', owner # NoRequest, UNCHANGED <<jobs, owner>>,
         Current' = Current,
         pc \notin {"idle", "load", "create"}, pc' \notin {"idle", "load", "create"},
         job'.state = job.state,
         \A s \in Steps : job'.steps[s] = "succeeded" <=> job.steps[s] = "succeeded",
         PositionAt(job', pc', step')
  PROVE  EngineInv'
<1>1. HolderOK'
  BY DEF EngineInv, HolderOK
<1>2. CopyOK'
  BY DEF EngineInv, CopyOK, Succeeded
<1>3. PositionOK'
  BY DEF PositionOK
<1>4. StoredOK' /\ StepsFollowOrder' /\ WaitingIsComplete'
  BY DEF EngineInv, StoredOK, StepsFollowOrder, WaitingIsComplete, Succeeded
<1> QED BY <1>1, <1>2, <1>3, <1>4 DEF EngineInv

(* The job of a call in flight moves with the continuations: Goto, the     *)
(* failure of the step, the next disk, the end of the execution.           *)
LEMMA GotoInv ==
  ASSUME EngineInv, TypeOK', owner # NoRequest, UNCHANGED jobs,
         pc \in Stepping,
         NEW label \in Stepping \cup {"fail"}, Goto(label),
         label \in InsideStep => pc \in InsideStep
  PROVE  EngineInv'
<1>1. Current' = Current
  BY DEF Goto, Current
<1>2. PositionAt(job, label, step)
  BY DEF EngineInv, PositionOK, PositionAt, BeforeSteps, Stepping, InsideStep
<1> QED
  BY <1>1, <1>2, LocalInv DEF Goto, Stepping, InsideStep

(* A step that fails leaves the loop towards fail.                         *)
LEMMA StepFailsInv ==
  ASSUME EngineInv, TypeOK', owner # NoRequest, UNCHANGED jobs,
         pc \in InsideStep, StepFails
  PROVE  EngineInv'
<1>1. Current' = Current
  BY DEF StepFails, Current
<1>2. step \in Steps /\ job \in Job /\ job.steps[step] = "running"
  BY DEF EngineInv, TypeOK, PositionOK, PositionAt
<1>3. \A s \in Steps : job'.steps[s] = IF s = step THEN "failed" ELSE job.steps[s]
  BY <1>2 DEF StepFails, Job
<1>4. job'.state = job.state /\ job.state = "running"
  BY <1>2 DEF StepFails, Job, EngineInv, PositionOK, PositionAt, Stepping
<1>5. OrderOK(job')
  BY <1>2, <1>3 DEF EngineInv, PositionOK, PositionAt, OrderOK, Steps
<1>6. PositionAt(job', "fail", step)
  BY <1>4, <1>5 DEF PositionAt, BeforeSteps, Stepping, InsideStep
<1> QED
  BY <1>1, <1>2, <1>3, <1>4, <1>6, LocalInv DEF StepFails, InsideStep

(* The next disk of the same step, or the end of the step.                 *)
LEMMA NextDiskInv ==
  ASSUME EngineInv, TypeOK', owner # NoRequest, UNCHANGED jobs,
         pc \in InsideStep, NextDisk
  PROVE  EngineInv'
<1>1. Current' = Current /\ job' = job /\ step' = step /\ pc' \in {"work", "complete"}
  BY DEF NextDisk, Current
<1>2. PositionAt(job', pc', step')
  BY <1>1 DEF EngineInv, PositionOK, PositionAt, BeforeSteps, Stepping, InsideStep
<1> QED
  BY <1>1, <1>2, LocalInv DEF NextDisk, InsideStep

(* The end of the execution.                                               *)
LEMMA ReturnsInv ==
  ASSUME EngineInv, TypeOK', UNCHANGED jobs, Return
  PROVE  EngineInv'
<1>1. StoredOK' /\ StepsFollowOrder' /\ WaitingIsComplete'
  BY DEF EngineInv, StoredOK, StepsFollowOrder, WaitingIsComplete, Succeeded
<1> QED BY <1>1, ReturnInv DEF EngineInv

(* The platform calls.                                                     *)
LEMMA PlatformInv ==
  ASSUME EngineInv,
         \/ ReadPower \/ PowerOff \/ VerifyPower
         \/ ReserveVMID \/ SavePlan \/ CreateVM \/ MakeWorkspace
         \/ ExportDisk \/ ConvertDisk \/ AttachDisk
         \/ IsolateNetwork \/ StartVM
  PROVE  EngineInv'
<1>1. TypeOK'
  BY PlatformType DEF EngineInv
<1>2. owner # NoRequest /\ UNCHANGED jobs
  BY DEF At, Working, ReadPower, PowerOff, VerifyPower, ReserveVMID, SavePlan,
     CreateVM, MakeWorkspace, ExportDisk, ConvertDisk, AttachDisk,
     IsolateNetwork, StartVM, durable
<1>3. CASE ReadPower \/ PowerOff \/ VerifyPower
  <2>1. /\ pc \in InsideStep
        /\ StepFails \/ \E label \in {"power_off", "power_verify", "complete"} : Goto(label)
    BY <1>3 DEF ReadPower, PowerOff, VerifyPower, At, Working, InsideStep
  <2> QED BY <1>1, <1>2, <2>1, StepFailsInv, GotoInv DEF Stepping, InsideStep
<1>4. CASE ReserveVMID
  <2>1. pc = "reserve"
    BY <1>4 DEF ReserveVMID, At
  <2>2. CASE Goto("step") \/ Goto("fail")
    BY <1>1, <1>2, <2>1, <2>2, GotoInv DEF Stepping, InsideStep
  <2>3. CASE /\ \E i \in Vmids : calls' = [calls EXCEPT ![owner].snapshot.vmid = i]
             /\ pc' = "save_plan" /\ UNCHANGED <<owner, step, disk, job>>
    <3>1. Current' = Current
      BY <1>2, <2>3 DEF Current, EngineInv, TypeOK, Call
    <3>2. PositionAt(job', pc', step')
      BY <2>1, <2>3 DEF EngineInv, PositionOK, PositionAt, BeforeSteps, Stepping, InsideStep
    <3> QED BY <1>1, <1>2, <2>1, <2>3, <3>1, <3>2, LocalInv
  <2> QED BY <1>4, <2>2, <2>3 DEF ReserveVMID
<1>5. CASE SavePlan \/ MakeWorkspace
  <2>1. pc \in {"save_plan", "workspace"} /\ (Goto("step") \/ Goto("fail"))
    BY <1>5 DEF SavePlan, MakeWorkspace, At
  <2> QED BY <1>1, <1>2, <2>1, GotoInv DEF Stepping, InsideStep
<1>6. CASE CreateVM \/ IsolateNetwork \/ StartVM
  <2>1. /\ pc \in InsideStep
        /\ StepFails \/ Goto("boot") \/ Goto("complete")
    BY <1>6 DEF CreateVM, IsolateNetwork, StartVM, At, Working, InsideStep
  <2> QED BY <1>1, <1>2, <2>1, StepFailsInv, GotoInv DEF Stepping, InsideStep
<1>7. CASE ExportDisk \/ ConvertDisk \/ AttachDisk
  <2>1. pc \in InsideStep /\ (StepFails \/ NextDisk)
    BY <1>7 DEF ExportDisk, ConvertDisk, AttachDisk, At, Working, InsideStep
  <2> QED BY <1>1, <1>2, <2>1, StepFailsInv, NextDiskInv
<1> QED BY <1>3, <1>4, <1>5, <1>6, <1>7

(* The saves of runStep, fail and the end of ExecutePlan.                  *)
LEMMA SaveStepsInv ==
  ASSUME EngineInv,
         SkipStep \/ BeginStep \/ CompleteStep \/ Fail \/ EvidenceSaved \/ Finish
  PROVE  EngineInv'
<1>1. TypeOK'
  BY SaveStepsType DEF EngineInv
<1>2. owner # NoRequest /\ step \in Steps /\ job \in Job /\ PositionAt(job, pc, step)
  BY DEF At, SkipStep, BeginStep, CompleteStep, Fail, EvidenceSaved, Finish,
     EngineInv, TypeOK, PositionOK
<1>3. ASSUME NEW v \in StepStates
      PROVE  LET j == [job EXCEPT !.steps[step] = v] IN
             /\ j \in Job /\ j.state = job.state
             /\ \A s \in Steps : j.steps[s] = IF s = step THEN v ELSE job.steps[s]
  BY <1>2 DEF Job
<1>4. ASSUME NEW v \in JobStates
      PROVE  LET j == [job EXCEPT !.state = v] IN
             /\ j \in Job /\ j.state = v /\ j.steps = job.steps
  BY <1>2 DEF Job
<1>5. \A s \in Steps, ran \in BOOLEAN :
        /\ AfterStep(s, ran) \in {"step", "reserve", "workspace", "evidence", "finish"}
        /\ AfterStep(s, ran) = "finish" <=> s = IsolatedBoot
        /\ StepAfter(s) \in Steps
        /\ s # IsolatedBoot => StepAfter(s) = s + 1
        /\ s = IsolatedBoot => StepAfter(s) = s
  BY DEF AfterStep, StepAfter, Steps
<1>6. ASSUME NEW j \in Job, OrderOK(j), j.state = "running", NEW ran \in BOOLEAN,
             \A s \in Steps : s <= step => j.steps[s] = "succeeded"
      PROVE  PositionAt(j, AfterStep(step, ran), StepAfter(step))
  BY <1>2, <1>5, <1>6
  DEF PositionAt, BeforeSteps, Stepping, InsideStep, Steps
<1>7. CASE SkipStep
  <2>1. pc = "step" /\ job' = job /\ pc' = AfterStep(step, FALSE) /\ step' = StepAfter(step)
        /\ job.steps[step] = "succeeded" /\ UNCHANGED <<jobs, owner, calls>>
    BY <1>7 DEF SkipStep, At, durable
  <2>2. \A s \in Steps : s <= step => job.steps[s] = "succeeded"
    BY <1>2, <2>1 DEF PositionAt, Stepping, Steps
  <2>3. PositionAt(job', pc', step')
    BY <1>2, <1>6, <2>1, <2>2 DEF PositionAt, Stepping
  <2>4. pc' \notin {"idle", "load", "create"}
    BY <1>2, <1>5, <2>1
  <2> QED BY <1>1, <1>2, <2>1, <2>3, <2>4, LocalInv DEF Current
<1>8. CASE BeginStep
  <2> DEFINE j == [job EXCEPT !.steps[step] = "running"]
  <2>1. pc = "step" /\ job.steps[step] # "succeeded" /\ SaveThen(j, "work", step)
    BY <1>8 DEF BeginStep, At
  <2>2. /\ j \in Job /\ j.state = "running"
        /\ \A s \in Steps : j.steps[s] = IF s = step THEN "running" ELSE job.steps[s]
    BY <1>2, <1>3, <2>1 DEF StepStates, PositionAt, Stepping
  <2> HIDE DEF j
  <2>3. OrderOK(j)
    BY <1>2, <2>1, <2>2 DEF PositionAt, OrderOK, Stepping, Steps
  <2>4. Storable(j) /\ PositionAt(j, "work", step)
    BY <1>2, <2>1, <2>2, <2>3
    DEF Storable, PositionAt, BeforeSteps, Stepping, InsideStep, Steps
  <2> QED BY <1>2, <2>1, <2>2, <2>4, SaveThenInv DEF Labels
<1>9. CASE CompleteStep
  <2> DEFINE j == [job EXCEPT !.steps[step] = "succeeded"]
  <2>1. /\ pc = "complete"
        /\ SaveThen(j, AfterStep(step, TRUE), StepAfter(step))
    BY <1>9 DEF CompleteStep, At
  <2>2. /\ j \in Job /\ j.state = "running"
        /\ \A s \in Steps : j.steps[s] = IF s = step THEN "succeeded" ELSE job.steps[s]
    BY <1>2, <1>3, <2>1 DEF StepStates, PositionAt, Stepping, InsideStep
  <2> HIDE DEF j
  <2>3. OrderOK(j) /\ \A s \in Steps : s <= step => j.steps[s] = "succeeded"
    BY <1>2, <2>1, <2>2 DEF PositionAt, OrderOK, Stepping, InsideStep, Steps
  <2>4. Storable(j) /\ PositionAt(j, AfterStep(step, TRUE), StepAfter(step))
    BY <1>6, <2>2, <2>3 DEF Storable
  <2>5. AfterStep(step, TRUE) \in Labels \ {"idle", "load", "create"} /\ StepAfter(step) \in Steps
    BY <1>2, <1>5 DEF Labels
  <2> QED BY <1>2, <2>1, <2>2, <2>4, <2>5, SaveThenInv
<1>10. CASE Fail \/ Finish
  <2>1. PICK v \in {"failed", "pending"}, label \in {"audit_fail", "audit_wait"} :
          /\ SaveThen([job EXCEPT !.state = v], label, step)
          /\ v = "pending" => pc = "finish"
          /\ label = "audit_wait" <=> v = "pending"
    BY <1>10 DEF Fail, Finish, At
  <2> DEFINE j == [job EXCEPT !.state = v]
  <2>2. j \in Job /\ j.state = v /\ j.steps = job.steps
    BY <1>4 DEF JobStates
  <2> HIDE DEF j
  <2>3. Storable(j) /\ PositionAt(j, label, step)
    BY <1>2, <2>1, <2>2
    DEF Storable, OrderOK, PositionAt, BeforeSteps, Stepping, InsideStep
  <2> QED BY <1>2, <2>1, <2>2, <2>3, SaveThenInv DEF Labels, j
<1>11. CASE EvidenceSaved
  <2>1. pc = "evidence" /\ SaveThen(job, "step", step)
    BY <1>11 DEF EvidenceSaved, At
  <2>2. Storable(job) /\ PositionAt(job, "step", step)
    BY <1>2, <2>1 DEF Storable, PositionAt, BeforeSteps, Stepping, InsideStep
  <2> QED BY <1>2, <2>1, <2>2, SaveThenInv DEF Labels
<1> QED BY <1>7, <1>8, <1>9, <1>10, <1>11

(* Requests, the mutex, the prologue and the audit appends.                *)
LEMMA PrologueInv ==
  ASSUME EngineInv,
         \/ \E r \in Requests, p \in Plans : Execute(r, p)
         \/ \E r \in Requests : Lock(r)
         \/ Load \/ Create \/ Start \/ AuditStart \/ AuditFail \/ AuditWait
  PROVE  EngineInv'
<1>1. TypeOK'
  BY PrologueType DEF EngineInv
<1>2. \/ jobs' # jobs
      \/ StoredOK' /\ StepsFollowOrder' /\ WaitingIsComplete'
  BY DEF EngineInv, StoredOK, StepsFollowOrder, WaitingIsComplete, Succeeded
<1>3. ASSUME NEW r \in Requests, NEW p \in Plans, Execute(r, p) PROVE EngineInv'
  <2>1. owner # NoRequest => r # owner
    BY <1>3, EngineAssumption DEF Execute, NoCall, EngineInv, HolderOK, Current
  <2>2. owner # NoRequest => Current' = Current
    BY <1>3, <2>1 DEF Execute, Current, EngineInv, TypeOK
  <2>3. HolderOK'
    BY <1>3, <2>2 DEF Execute, EngineInv, HolderOK
  <2>4. CopyOK' /\ PositionOK'
    BY <1>3, <2>2
    DEF Execute, durable, EngineInv, HolderOK, CopyOK, PositionOK, Succeeded
  <2> QED BY <1>1, <1>2, <1>3, <2>3, <2>4 DEF Execute, durable, EngineInv
<1>4. ASSUME NEW r \in Requests, Lock(r) PROVE EngineInv'
  <2>1. owner' = r /\ pc' = "load" /\ step' = step /\ job' = job
        /\ pc = "idle" /\ UNCHANGED <<jobs, calls>>
    BY <1>4 DEF Lock, durable, EngineInv, HolderOK
  <2>2. HolderOK'
    BY <1>4, <2>1, EngineAssumption DEF Lock, HolderOK, Current, EngineInv, TypeOK, Call
  <2>3. CopyOK' /\ PositionOK'
    BY <2>1 DEF EngineInv, CopyOK, PositionOK, PositionAt, BeforeSteps, Stepping, InsideStep
  <2> QED BY <1>1, <1>2, <2>1, <2>2, <2>3 DEF EngineInv
<1>5. CASE Load
  <2>1. owner # NoRequest /\ pc = "load" /\ step = SourcePoweroff /\ Current \in Plans
        /\ UNCHANGED jobs
    BY <1>5 DEF Load, At, durable, EngineInv, HolderOK, PositionOK, PositionAt, BeforeSteps
  <2>2. CASE /\ jobs[Current].state # "absent" /\ job' = jobs[Current] /\ pc' = "start"
             /\ UNCHANGED <<owner, step, disk, calls>>
    <3>1. Current' = Current
      BY <2>2 DEF Current
    <3>2. OrderOK(jobs[Current])
      BY <2>1 DEF EngineInv, StepsFollowOrder, Succeeded, OrderOK
    <3>3. HolderOK' /\ CopyOK'
      BY <2>1, <2>2, <3>1 DEF HolderOK, CopyOK, Succeeded
    <3>4. PositionOK'
      BY <2>1, <2>2, <3>2
      DEF PositionOK, PositionAt, BeforeSteps, Stepping, InsideStep
    <3> QED BY <1>1, <1>2, <2>1, <3>3, <3>4 DEF EngineInv
  <2>3. CASE jobs[Current].state = "absent" /\ Goto("create")
    <3>1. Current' = Current
      BY <2>3 DEF Current, Goto
    <3>2. HolderOK' /\ CopyOK'
      BY <2>1, <2>3, <3>1 DEF HolderOK, CopyOK, Goto
    <3>3. PositionOK'
      BY <2>1, <2>3, <3>1
      DEF EngineInv, PositionOK, PositionAt, BeforeSteps, Stepping, InsideStep, Goto
    <3> QED BY <1>1, <1>2, <2>1, <3>2, <3>3 DEF EngineInv
  <2>4. CASE Return
    BY <1>1, <2>1, <2>4, ReturnsInv
  <2> QED BY <1>5, <2>2, <2>3, <2>4 DEF Load
<1>6. CASE Create
  <2>1. OrderOK(NewJob) /\ NewJob.state = "pending" /\ NewJob.steps = AllPending
    BY DEF OrderOK, NewJob, AllPending
  <2>2. Storable(NewJob) /\ PositionAt(NewJob, "start", SourcePoweroff)
    BY <2>1 DEF Storable, PositionAt, BeforeSteps, Stepping, InsideStep
  <2>3. CASE SaveThen(NewJob, "start", SourcePoweroff)
    BY <1>6, <2>2, <2>3, SaveThenInv, RecordTypes DEF Create, At, Labels, Steps
  <2>4. CASE Return /\ UNCHANGED durable
    BY <1>1, <2>4, ReturnsInv DEF durable
  <2> QED BY <1>6, <2>3, <2>4 DEF Create
<1>7. CASE Start
  <2> DEFINE j == [job EXCEPT !.state = "running"]
  <2>1. owner # NoRequest /\ OrderOK(job) /\ job \in Job
    BY <1>7 DEF Start, At, EngineInv, TypeOK, PositionOK, PositionAt
  <2>2. j \in Job /\ j.state = "running" /\ j.steps = job.steps
    BY <2>1 DEF Job, JobStates
  <2> HIDE DEF j
  <2>3. Storable(j) /\ PositionAt(j, "audit_start", SourcePoweroff)
    BY <2>1, <2>2 DEF Storable, OrderOK, PositionAt, BeforeSteps, Stepping, InsideStep
  <2>4. CASE SaveThen(j, "audit_start", SourcePoweroff)
    BY <2>1, <2>2, <2>3, <2>4, SaveThenInv DEF Labels, Steps
  <2>5. CASE Return /\ UNCHANGED durable
    BY <1>1, <2>5, ReturnsInv DEF durable
  <2> QED BY <1>7, <2>4, <2>5 DEF Start, j
<1>8. CASE AuditStart
  <2>1. owner # NoRequest /\ pc = "audit_start" /\ UNCHANGED jobs
        /\ (Goto("step") \/ Return)
    BY <1>8 DEF AuditStart, AuditThen, At
  <2>2. CASE Goto("step")
    <3>1. Current' = Current /\ job' = job /\ pc' = "step" /\ step' = step /\ owner' = owner
      BY <2>2 DEF Goto, Current
    <3>2. PositionAt(job', pc', step')
      BY <2>1, <3>1
      DEF EngineInv, PositionOK, PositionAt, BeforeSteps, Stepping, InsideStep, Steps
    <3> QED BY <1>1, <2>1, <3>1, <3>2, LocalInv
  <2> QED BY <1>1, <2>1, <2>2, ReturnsInv
<1>9. CASE AuditFail \/ AuditWait
  BY <1>1, <1>9, ReturnsInv DEF AuditFail, AuditWait, AuditThen
<1> QED BY <1>3, <1>4, <1>5, <1>6, <1>7, <1>8, <1>9

(* A crash forgets the holder and its copy; the operator touches neither.  *)
LEMMA DisturbanceInv ==
  ASSUME EngineInv, Crash \/ \E v \in Sources : SourceStarted(v)
  PROVE  EngineInv'
<1>1. TypeOK'
  BY DisturbanceType DEF EngineInv
<1>2. UNCHANGED jobs /\ StoredOK' /\ StepsFollowOrder' /\ WaitingIsComplete'
  BY DEF Crash, SourceStarted, durable, EngineInv, StoredOK, StepsFollowOrder,
     WaitingIsComplete, Succeeded
<1>3. CASE Crash
  <2>1. OrderOK(NoJob)
    BY DEF OrderOK, NoJob, AllPending
  <2>2. HolderOK' /\ CopyOK' /\ PositionOK'
    BY <1>3, <2>1
    DEF Crash, HolderOK, CopyOK, PositionOK, PositionAt, BeforeSteps, Stepping, InsideStep
  <2> QED BY <1>1, <1>2, <2>2 DEF EngineInv
<1>4. CASE \E v \in Sources : SourceStarted(v)
  <2>1. UNCHANGED <<jobs, calls, owner, pc, step, job>>
    BY <1>4 DEF SourceStarted, durable
  <2>2. HolderOK' /\ CopyOK' /\ PositionOK'
    BY <2>1 DEF EngineInv, HolderOK, CopyOK, PositionOK, Current, Succeeded
  <2> QED BY <1>1, <1>2, <2>2 DEF EngineInv
<1> QED BY <1>3, <1>4

(* Every step of the engine keeps the invariant.                           *)
LEMMA NextInv == ASSUME EngineInv, [Next]_vars PROVE EngineInv'
<1>1. CASE UNCHANGED vars
  BY <1>1 DEF vars, EngineInv, TypeOK, HolderOK, CopyOK, PositionOK, StoredOK,
     StepsFollowOrder, WaitingIsComplete, Succeeded, Current
<1>2. CASE Next
  BY <1>2, PrologueInv, SaveStepsInv, PlatformInv, DisturbanceInv DEF Next, EngineStep
<1> QED BY <1>1, <1>2

(* EngineInv is an invariant of the engine.                                *)
THEOREM Invariance == Spec => []EngineInv
<1>1. EngineInv /\ [Next]_vars => EngineInv'
  BY NextInv
<1> QED BY <1>1, InitInv, PTL DEF Spec

(* Every reachable state has its types.                                    *)
THEOREM TypeCorrect == Spec => []TypeOK
<1>1. EngineInv => TypeOK
  BY DEF EngineInv
<1> QED BY <1>1, Invariance, PTL

(* The stored steps of a job follow the execution order, whatever fails,   *)
(* crashes or interleaves (engine.go, runStep).                            *)
THEOREM StepOrder == Spec => []StepsFollowOrder
<1>1. EngineInv => StepsFollowOrder
  BY DEF EngineInv
<1> QED BY <1>1, Invariance, PTL

(* A job that is stored as pending is new or has all its steps done        *)
(* (engine.go, the end of ExecutePlan).                                    *)
THEOREM WaitingComplete == Spec => []WaitingIsComplete
<1>1. EngineInv => WaitingIsComplete
  BY DEF EngineInv
<1> QED BY <1>1, Invariance, PTL

-----------------------------------------------------------------------------
(* The refinement: under the inductive invariant every save of a job is    *)
(* one step of the lifecycle or leaves its view of the job alone.          *)

Done(j) == {s \in Steps : j.steps[s] = "succeeded"}

(* What a save of the value j changes in the lifecycle's view.             *)
LEMMA SaveView ==
  ASSUME TypeOK, NEW p \in Plans, NEW j \in Job, jobs' = [jobs EXCEPT ![p] = j]
  PROVE  /\ [q \in Plans |-> jobs[q].state]' =
              [[q \in Plans |-> jobs[q].state] EXCEPT ![p] = j.state]
         /\ [q \in Plans |-> {s \in Steps : jobs[q].steps[s] = "succeeded"}]' =
              [[q \in Plans |-> {s \in Steps : jobs[q].steps[s] = "succeeded"}]
                 EXCEPT ![p] = Done(j)]
<1>1. \A q \in Plans : jobs'[q] = IF q = p THEN j ELSE jobs[q]
  BY DEF TypeOK
<1>2. [q \in Plans |-> jobs'[q].state] =
        [[q \in Plans |-> jobs[q].state] EXCEPT ![p] = j.state]
  <2>1. \A q \in Plans : jobs'[q].state = IF q = p THEN j.state ELSE jobs[q].state
    BY <1>1
  <2> QED BY <2>1
<1>3. \A q \in Plans : Done(jobs'[q]) = IF q = p THEN Done(j) ELSE Done(jobs[q])
  BY <1>1
<1>4. [q \in Plans |-> Done(jobs'[q])] = [[q \in Plans |-> Done(jobs[q])] EXCEPT ![p] = Done(j)]
  BY <1>3
<1> QED BY <1>2, <1>4 DEF Done

(* A save that keeps the succeeded steps moves the phase along the         *)
(* lifecycle when the old and the new state are neighbours in it.          *)
LEMMA PhaseStep ==
  ASSUME TypeOK, NEW p \in Plans, NEW j \in Job, jobs' = [jobs EXCEPT ![p] = j],
         Done(j) = Done(jobs[p]),
         \/ j.state = jobs[p].state
         \/ jobs[p].state = "absent" /\ j.state = "pending"
         \/ jobs[p].state \in {"pending", "failed"} /\ j.state = "running"
         \/ jobs[p].state = "running" /\ j.state = "failed"
         \/ jobs[p].state = "running" /\ j.state = "pending" /\ Done(j) = Steps
  PROVE  [Lifecycle!Next]_(Lifecycle!vars)
<1> DEFINE phase == [q \in Plans |-> jobs[q].state]
           done  == [q \in Plans |-> {s \in Steps : jobs[q].steps[s] = "succeeded"}]
<1>1. phase' = [phase EXCEPT ![p] = j.state] /\ done' = [done EXCEPT ![p] = Done(j)]
  BY SaveView
<1>2. phase[p] = jobs[p].state /\ done[p] = Done(jobs[p])
  BY DEF Done
<1>3. done' = done
  BY <1>1, <1>2
<1>4. CASE j.state = jobs[p].state
  BY <1>1, <1>2, <1>3, <1>4 DEF Lifecycle!vars
<1>5. CASE jobs[p].state = "absent" /\ j.state = "pending"
  BY <1>1, <1>2, <1>3, <1>5 DEF Lifecycle!Next, Lifecycle!Register
<1>6. CASE jobs[p].state \in {"pending", "failed"} /\ j.state = "running"
  BY <1>1, <1>2, <1>3, <1>6 DEF Lifecycle!Next, Lifecycle!Begin
<1>7. CASE jobs[p].state = "running" /\ j.state = "failed"
  BY <1>1, <1>2, <1>3, <1>7 DEF Lifecycle!Next, Lifecycle!Abort
<1>8. CASE jobs[p].state = "running" /\ j.state = "pending" /\ Done(j) = Steps
  BY <1>1, <1>2, <1>3, <1>8 DEF Lifecycle!Next, Lifecycle!Await, Lifecycle!Steps, Steps
<1> QED BY <1>4, <1>5, <1>6, <1>7, <1>8

(* A save that completes the first step that had not succeeded.            *)
LEMMA AdvanceStep ==
  ASSUME TypeOK, NEW p \in Plans, NEW j \in Job, jobs' = [jobs EXCEPT ![p] = j],
         NEW n \in Steps, jobs[p].state = "running", j.state = "running",
         Done(jobs[p]) = 1..(n - 1), Done(j) = 1..n
  PROVE  [Lifecycle!Next]_(Lifecycle!vars)
<1> DEFINE phase == [q \in Plans |-> jobs[q].state]
           done  == [q \in Plans |-> {s \in Steps : jobs[q].steps[s] = "succeeded"}]
<1>1. phase' = [phase EXCEPT ![p] = j.state] /\ done' = [done EXCEPT ![p] = 1..n]
  <2>1. phase' = [phase EXCEPT ![p] = j.state] /\ done' = [done EXCEPT ![p] = Done(j)]
    BY SaveView
  <2> QED BY <2>1
<1>2. phase[p] = jobs[p].state /\ done[p] = 1..(n - 1)
  BY DEF Done
<1>3. phase' = phase
  BY <1>1, <1>2
<1>4. Lifecycle!Advance(p, n)
  BY <1>1, <1>2, <1>3 DEF Lifecycle!Advance
<1>5. n \in Lifecycle!Steps
  BY DEF Lifecycle!Steps, Steps
<1> QED BY <1>4, <1>5, Zenon DEF Lifecycle!Next

(* The saves.                                                              *)
LEMMA SaveImplements ==
  ASSUME EngineInv, NotRolledBack,
         Create \/ Start \/ BeginStep \/ CompleteStep \/ Fail \/ EvidenceSaved \/ Finish
  PROVE  [Lifecycle!Next]_(Lifecycle!vars)
<1>1. /\ owner # NoRequest /\ Current \in Plans /\ TypeOK
      /\ step \in Steps /\ job \in Job /\ jobs[Current] \in Job
      /\ PositionAt(job, pc, step)
  BY DEF At, Create, Start, BeginStep, CompleteStep, Fail, EvidenceSaved, Finish,
     EngineInv, HolderOK, TypeOK, PositionOK
<1>2. CASE UNCHANGED jobs
  BY <1>2 DEF Lifecycle!vars
<1>3. pc \notin {"idle", "load", "create"} =>
        job.state = jobs[Current].state /\ Done(job) = Done(jobs[Current])
  BY DEF EngineInv, CopyOK, Succeeded, Done
<1>4. CASE Create
  <2>1. jobs[Current] = NoJob
    BY <1>1, <1>4 DEF Create, At, EngineInv, PositionOK, StoredOK
  <2>2. Done(NewJob) = Done(NoJob) /\ NewJob.state = "pending" /\ NoJob.state = "absent"
    BY DEF Done, NewJob, NoJob
  <2>3. UNCHANGED jobs \/ jobs' = [jobs EXCEPT ![Current] = NewJob]
    BY <1>4 DEF Create, SaveThen, durable
  <2> QED BY <1>1, <1>2, <2>1, <2>2, <2>3, PhaseStep, RecordTypes
<1>5. CASE Start
  <2> DEFINE j == [job EXCEPT !.state = "running"]
  <2>1. UNCHANGED jobs \/ jobs' = [jobs EXCEPT ![Current] = j]
    BY <1>5 DEF Start, SaveThen, durable
  <2>2. j \in Job /\ j.state = "running" /\ j.steps = job.steps
    BY <1>1 DEF Job, JobStates
  <2>3. pc = "start" /\ job.state \in {"pending", "running", "failed"}
    BY <1>1, <1>3, <1>5 DEF Start, At, PositionAt, EngineInv, StoredOK, NotRolledBack
  <2> HIDE DEF j
  <2>4. Done(j) = Done(jobs[Current])
    BY <1>3, <2>2, <2>3 DEF Done
  <2> QED BY <1>1, <1>2, <1>3, <2>1, <2>2, <2>3, <2>4, PhaseStep
<1>6. CASE BeginStep \/ EvidenceSaved
  <2>1. PICK j \in Job :
          /\ UNCHANGED jobs \/ jobs' = [jobs EXCEPT ![Current] = j]
          /\ j.state = job.state /\ Done(j) = Done(job)
    <3>1. CASE BeginStep
      <4> DEFINE j == [job EXCEPT !.steps[step] = "running"]
      <4>1. UNCHANGED jobs \/ jobs' = [jobs EXCEPT ![Current] = j]
        BY <3>1 DEF BeginStep, SaveThen
      <4>2. /\ j \in Job /\ j.state = job.state
            /\ \A s \in Steps : j.steps[s] = IF s = step THEN "running" ELSE job.steps[s]
        BY <1>1 DEF Job, StepStates
      <4> HIDE DEF j
      <4>3. Done(j) = Done(job)
        BY <3>1, <4>2 DEF BeginStep, Done
      <4> QED BY <4>1, <4>2, <4>3
    <3>2. CASE EvidenceSaved
      BY <1>1, <3>2 DEF EvidenceSaved, SaveThen
    <3> QED BY <1>6, <3>1, <3>2
  <2>2. pc \in {"step", "evidence"}
    BY <1>6 DEF BeginStep, EvidenceSaved, At
  <2> QED BY <1>1, <1>2, <1>3, <2>1, <2>2, PhaseStep
<1>7. CASE CompleteStep
  <2> DEFINE j == [job EXCEPT !.steps[step] = "succeeded"]
  <2>1. UNCHANGED jobs \/ jobs' = [jobs EXCEPT ![Current] = j]
    BY <1>7 DEF CompleteStep, SaveThen
  <2>2. /\ j \in Job /\ j.state = job.state
        /\ \A s \in Steps : j.steps[s] = IF s = step THEN "succeeded" ELSE job.steps[s]
    BY <1>1 DEF Job, StepStates
  <2> HIDE DEF j
  <2>3. pc = "complete" /\ job.state = "running" /\ job.steps[step] = "running" /\ OrderOK(job)
        /\ \A t \in Steps : t < step => job.steps[t] = "succeeded"
    BY <1>1, <1>7 DEF CompleteStep, At, PositionAt, Stepping, InsideStep
  <2>4. \A t \in Steps : job.steps[t] = "succeeded" <=> t < step
    <3>1. \A t \in Steps : t > step => job.steps[t] # "succeeded"
      BY <1>1, <2>3 DEF OrderOK, Steps
    <3> QED BY <1>1, <2>3, <3>1 DEF Steps
  <2>5. Done(job) = 1..(step - 1) /\ Done(j) = 1..step
    BY <1>1, <2>2, <2>4 DEF Done, Steps
  <2> QED BY <1>1, <1>2, <1>3, <2>1, <2>2, <2>3, <2>5, AdvanceStep
<1>8. CASE Fail \/ Finish
  <2>1. PICK v \in {"failed", "pending"} :
          /\ UNCHANGED jobs \/ jobs' = [jobs EXCEPT ![Current] = [job EXCEPT !.state = v]]
          /\ v = "failed" => pc = "fail"
          /\ v = "pending" => pc = "finish"
    BY <1>8 DEF Fail, Finish, At, SaveThen
  <2> DEFINE j == [job EXCEPT !.state = v]
  <2>2. j \in Job /\ j.state = v /\ j.steps = job.steps
    BY <1>1 DEF Job, JobStates
  <2>3. UNCHANGED jobs \/ jobs' = [jobs EXCEPT ![Current] = j]
    BY <2>1
  <2> HIDE DEF j
  <2>4. job.state = "running" /\ Done(j) = Done(jobs[Current])
    BY <1>1, <1>3, <2>1, <2>2 DEF PositionAt, Stepping, Done
  <2>5. v = "pending" => Done(j) = Steps
    BY <1>1, <2>1, <2>2 DEF PositionAt, Done
  <2> QED BY <1>1, <1>2, <1>3, <2>1, <2>2, <2>3, <2>4, <2>5, PhaseStep
<1> QED BY <1>4, <1>5, <1>6, <1>7, <1>8

(* Only the saves touch the job table.                                     *)
LEMMA OthersStutter ==
  ASSUME Next, ~(Create \/ Start \/ BeginStep \/ CompleteStep \/ Fail \/ EvidenceSaved \/ Finish)
  PROVE  UNCHANGED jobs
<1>1. CASE (\E r \in Requests, p \in Plans : Execute(r, p)) \/ (\E r \in Requests : Lock(r))
  BY <1>1 DEF Execute, Lock, durable
<1>2. CASE Crash \/ \E v \in Sources : SourceStarted(v)
  BY <1>2 DEF Crash, SourceStarted, durable
<1>3. CASE Load \/ AuditStart \/ SkipStep \/ AuditFail \/ AuditWait
  BY <1>3 DEF Load, AuditStart, SkipStep, AuditFail, AuditWait, AuditThen, durable
<1>4. CASE \/ ReadPower \/ PowerOff \/ VerifyPower
           \/ ReserveVMID \/ SavePlan \/ CreateVM \/ MakeWorkspace
           \/ ExportDisk \/ ConvertDisk \/ AttachDisk
           \/ IsolateNetwork \/ StartVM
  BY <1>4 DEF ReadPower, PowerOff, VerifyPower, ReserveVMID, SavePlan, CreateVM,
     MakeWorkspace, ExportDisk, ConvertDisk, AttachDisk, IsolateNetwork, StartVM, durable
<1> QED BY <1>1, <1>2, <1>3, <1>4 DEF Next, EngineStep

(* No state of a rollback comes from the engine itself.                    *)
LEMMA NeverRolledBack == Spec => []NotRolledBack
<1>1. Init => NotRolledBack
  BY DEF Init, InitEngine, NoJob, NotRolledBack
<1>2. EngineInv /\ NotRolledBack /\ [Next]_vars => NotRolledBack'
  <2> SUFFICES ASSUME EngineInv, NotRolledBack, [Next]_vars PROVE NotRolledBack'
    OBVIOUS
  <2>1. CASE UNCHANGED jobs
    BY <2>1 DEF NotRolledBack
  <2>2. CASE Create \/ Start \/ BeginStep \/ CompleteStep \/ Fail \/ EvidenceSaved \/ Finish
    <3>1. Current \in Plans /\ job \in Job /\ jobs \in [Plans -> Job]
      BY <2>2
      DEF At, Create, Start, BeginStep, CompleteStep, Fail, EvidenceSaved, Finish,
          EngineInv, HolderOK, TypeOK
    <3>2. pc \notin {"idle", "load", "create"} => job.state # "rollback_prepared"
      BY <3>1 DEF EngineInv, CopyOK, NotRolledBack
    <3>3. /\ \A v : [job EXCEPT !.state = v].state = v
          /\ NewJob.state = "pending"
      BY <3>1 DEF Job, NewJob
    <3>4. ASSUME NEW j, j.state # "rollback_prepared",
                 UNCHANGED jobs \/ jobs' = [jobs EXCEPT ![Current] = j]
          PROVE  NotRolledBack'
      BY <3>1, <3>4 DEF NotRolledBack
    <3>5. CASE Create \/ Start
      BY <3>3, <3>4, <3>5 DEF Create, Start, SaveThen, durable
    <3>6. CASE BeginStep \/ CompleteStep \/ EvidenceSaved
      <4>1. job.state # "rollback_prepared"
        BY <3>2, <3>6 DEF BeginStep, CompleteStep, EvidenceSaved, At
      <4>2. CASE BeginStep
        <5> DEFINE j == [job EXCEPT !.steps[step] = "running"]
        <5>1. UNCHANGED jobs \/ jobs' = [jobs EXCEPT ![Current] = j]
          BY <4>2 DEF BeginStep, SaveThen
        <5>2. j.state = job.state
          BY <3>1 DEF Job
        <5> HIDE DEF j
        <5> QED
          BY <3>4, <4>1, <5>1, <5>2
      <4>3. CASE CompleteStep
        <5> DEFINE j == [job EXCEPT !.steps[step] = "succeeded"]
        <5>1. UNCHANGED jobs \/ jobs' = [jobs EXCEPT ![Current] = j]
          BY <4>3 DEF CompleteStep, SaveThen
        <5>2. j.state = job.state
          BY <3>1 DEF Job
        <5> HIDE DEF j
        <5> QED
          BY <3>4, <4>1, <5>1, <5>2
      <4>4. CASE EvidenceSaved
        BY <3>4, <4>1, <4>4 DEF EvidenceSaved, SaveThen
      <4> QED
        BY <3>6, <4>2, <4>3, <4>4
    <3>7. CASE Fail \/ Finish
      BY <3>3, <3>4, <3>7 DEF Fail, Finish, SaveThen
    <3> QED
      BY <2>2, <3>5, <3>6, <3>7
  <2> QED
    BY <2>1, <2>2, OthersStutter DEF vars
<1> QED
  BY <1>1, <1>2, Invariance, PTL DEF Spec

(* The stored jobs of every behaviour of the engine are a behaviour of the *)
(* lifecycle: no save of ExecutePlan, runStep or fail takes a succeeded    *)
(* step back, skips one or awaits the operator early.                      *)
THEOREM Refinement == Spec => ImplementsLifecycle
<1>1. Init => Lifecycle!Init
  <2> SUFFICES ASSUME Init PROVE Lifecycle!Init
    OBVIOUS
  <2>1. \A p \in Plans : jobs[p].state = "absent"
                         /\ {s \in Steps : jobs[p].steps[s] = "succeeded"} = {}
    BY DEF Init, InitEngine, NoJob, AllPending
  <2> QED BY <2>1 DEF Lifecycle!Init
<1>2. EngineInv /\ NotRolledBack /\ [Next]_vars => [Lifecycle!Next]_(Lifecycle!vars)
  <2> SUFFICES ASSUME EngineInv, NotRolledBack, [Next]_vars
               PROVE  [Lifecycle!Next]_(Lifecycle!vars)
    OBVIOUS
  <2>1. CASE UNCHANGED jobs
    BY <2>1 DEF Lifecycle!vars
  <2> QED BY <2>1, SaveImplements, OthersStutter DEF vars
<1> QED BY <1>1, <1>2, Invariance, NeverRolledBack, PTL DEF Spec, ImplementsLifecycle, Lifecycle!Spec

-----------------------------------------------------------------------------
(* The platform: what a step has done there stays done                     *)

(* No export, conversion, VM or attached disk of a plan is ever taken back. *)
Advances ==
  /\ \A p \in Plans, d \in Disks :
       /\ exports[p][d] \in {"current", "stale"} => exports'[p][d] \in {"current", "stale"}
       /\ converted[p][d] = "complete" => converted'[p][d] = "complete"
  /\ \A i \in Vmids : vms[i].owner # NoPlan => vms'[i].owner = vms[i].owner
  /\ \A i \in Vmids, d \in Disks, p \in Plans :
       vms[i].slots[d] = p => vms'[i].slots[d] = p

LEMMA DoneStays ==
  ASSUME Advances, NEW p \in Plans, NEW s \in Steps
  PROVE  /\ \A d \in Disks : DiskDone(p, s, d) => DiskDone(p, s, d)'
         /\ Happened(p, s) => Happened(p, s)'
<1>1. ASSUME NEW d \in Disks, DiskDone(p, s, d) PROVE DiskDone(p, s, d)'
  BY <1>1 DEF Advances, DiskDone
<1>2. (\E i \in Vmids : vms[i].owner = p) => \E i \in Vmids : vms'[i].owner = p
  BY EngineAssumption DEF Advances
<1> QED BY <1>1, <1>2 DEF Happened

(* The target VM is the only one that a step changes.                      *)
LEMMA StepAdvances ==
  ASSUME TypeOK, HolderOK, UnusedIsEmpty, [Next]_vars
  PROVE  Advances
<1>1. CASE UNCHANGED platform
  BY <1>1 DEF platform, Advances
<1>2. CASE \E v \in Sources : SourceStarted(v)
  BY <1>2 DEF SourceStarted, TypeOK, Advances
<1>3. CASE PowerOff
  BY <1>3 DEF PowerOff, Advances
<1>4. CASE ExportDisk
  <2>1. Current \in Plans /\ UNCHANGED <<converted, vms>>
    BY <1>4 DEF ExportDisk, Working, At, HolderOK
  <2>2. \/ UNCHANGED exports
        \/ /\ exports[Current][disk] = "absent"
           /\ \E state \in ExportStates : exports' = [exports EXCEPT ![Current][disk] = state]
    BY <1>4 DEF ExportDisk, ExportStates
  <2> QED BY <2>1, <2>2 DEF TypeOK, Advances
<1>5. CASE ConvertDisk
  <2>1. Current \in Plans /\ UNCHANGED <<exports, vms>>
    BY <1>5 DEF ConvertDisk, Working, At, HolderOK
  <2>2. \/ UNCHANGED converted
        \/ converted' = [converted EXCEPT ![Current][disk] = "complete"]
        \/ /\ converted[Current][disk] = "absent"
           /\ converted' = [converted EXCEPT ![Current][disk] = "orphan"]
    BY <1>5 DEF ConvertDisk
  <2> QED BY <2>1, <2>2 DEF TypeOK, Advances
<1>6. CASE CreateVM \/ AttachDisk \/ IsolateNetwork \/ StartVM
  <2>1. Current \in Plans /\ UNCHANGED <<exports, converted>> /\ disk \in Disks
    BY <1>6 DEF CreateVM, AttachDisk, IsolateNetwork, StartVM, Working, At, HolderOK, TypeOK
  <2>2. \A i \in Vmids : vms[i] \in VM
    BY DEF TypeOK
  <2>3. CASE UNCHANGED vms
    BY <2>1, <2>3 DEF Advances
  <2>4. CASE vms[Target].owner = NoPlan /\ vms' = [vms EXCEPT ![Target] = NewVM(Current)]
    <3>1. \A i \in Vmids : i # Target => vms'[i] = vms[i]
      BY <2>4 DEF TypeOK
    <3>2. Target \in Vmids => \A d \in Disks : vms[Target].slots[d] = NoPlan
      BY <2>4 DEF UnusedIsEmpty
    <3> QED BY <2>1, <2>4, <3>1, <3>2, EngineAssumption DEF Advances
  <2>5. CASE /\ vms[Target].slots[disk] \in {NoPlan, Current}
             /\ vms' = [vms EXCEPT ![Target].slots[disk] = Current]
    <3>1. ASSUME NEW i \in Vmids
          PROVE  /\ vms'[i].owner = vms[i].owner
                 /\ \A d \in Disks : vms'[i].slots[d] =
                      IF i = Target /\ d = disk THEN Current ELSE vms[i].slots[d]
      BY <2>1, <2>2, <2>5 DEF TypeOK, VM
    <3> QED BY <2>1, <2>5, <3>1, EngineAssumption DEF Advances
  <2>6. CASE \/ vms' = [vms EXCEPT ![Target].net = "isolated"]
             \/ vms' = [vms EXCEPT ![Target].on = TRUE]
    <3>1. \A i \in Vmids : vms'[i].owner = vms[i].owner /\ vms'[i].slots = vms[i].slots
      <4>1. ASSUME NEW i \in Vmids, NEW vm \in VM
            PROVE  /\ [vm EXCEPT !.net = "isolated"].owner = vm.owner
                   /\ [vm EXCEPT !.net = "isolated"].slots = vm.slots
                   /\ [vm EXCEPT !.on = TRUE].owner = vm.owner
                   /\ [vm EXCEPT !.on = TRUE].slots = vm.slots
        BY DEF VM
      <4>2. \A i \in Vmids : vms'[i] \in {vms[i], [vms[i] EXCEPT !.net = "isolated"],
                                        [vms[i] EXCEPT !.on = TRUE]}
        BY <2>6 DEF TypeOK
      <4> QED BY <2>2, <4>1, <4>2
    <3> QED BY <2>1, <3>1 DEF Advances
  <2>7. CASE CreateVM
    BY <2>3, <2>4, <2>7 DEF CreateVM
  <2>8. CASE AttachDisk
    BY <2>3, <2>5, <2>8 DEF AttachDisk
  <2>9. CASE IsolateNetwork \/ StartVM
    BY <2>3, <2>6, <2>9 DEF IsolateNetwork, StartVM
  <2> QED BY <1>6, <2>7, <2>8, <2>9
<1>7. CASE \/ \E r \in Requests, p \in Plans : Execute(r, p)
           \/ \E r \in Requests : Lock(r)
           \/ Crash \/ UNCHANGED vars
           \/ Load \/ Create \/ Start \/ AuditStart
           \/ SkipStep \/ BeginStep \/ CompleteStep \/ Fail \/ AuditFail
           \/ ReadPower \/ VerifyPower \/ ReserveVMID \/ SavePlan \/ MakeWorkspace
           \/ EvidenceSaved \/ Finish \/ AuditWait
  <2>1. UNCHANGED platform
    BY <1>7 DEF Execute, Lock, Crash, vars, Load, Create, Start, AuditStart, SkipStep,
       BeginStep, CompleteStep, Fail, AuditFail, ReadPower, VerifyPower, ReserveVMID,
       SavePlan, MakeWorkspace, EvidenceSaved, Finish, AuditWait, AuditThen, SaveThen, platform
  <2> QED BY <1>1, <2>1
<1> QED BY <1>2, <1>3, <1>4, <1>5, <1>6, <1>7 DEF Next, EngineStep

(* Only these steps touch the VMs.                                         *)
LEMMA VMsAside ==
  ASSUME [Next]_vars, ~(CreateVM \/ AttachDisk \/ IsolateNetwork \/ StartVM)
  PROVE  UNCHANGED vms
<1>1. CASE \/ \E r \in Requests, p \in Plans : Execute(r, p)
           \/ \E r \in Requests : Lock(r)
           \/ Crash \/ (\E v \in Sources : SourceStarted(v)) \/ UNCHANGED vars
  BY <1>1 DEF Execute, Lock, Crash, SourceStarted, vars, platform
<1>2. CASE \/ Load \/ Create \/ Start \/ AuditStart \/ AuditFail \/ AuditWait
           \/ SkipStep \/ BeginStep \/ CompleteStep \/ Fail \/ EvidenceSaved \/ Finish
  BY <1>2 DEF Load, Create, Start, AuditStart, AuditFail, AuditWait, AuditThen, SkipStep,
     BeginStep, CompleteStep, Fail, EvidenceSaved, Finish, SaveThen, platform
<1>3. CASE \/ ReadPower \/ PowerOff \/ VerifyPower \/ ReserveVMID \/ SavePlan
           \/ MakeWorkspace \/ ExportDisk \/ ConvertDisk
  BY <1>3 DEF ReadPower, PowerOff, VerifyPower, ReserveVMID, SavePlan, MakeWorkspace,
     ExportDisk, ConvertDisk, platform
<1> QED BY <1>1, <1>2, <1>3 DEF Next, EngineStep

(* A VM id without a VM has no disks.                                      *)
LEMMA UnusedStaysEmpty ==
  ASSUME TypeOK, HolderOK, UnusedIsEmpty, [Next]_vars
  PROVE  UnusedIsEmpty'
<1>1. CASE UNCHANGED vms
  BY <1>1 DEF UnusedIsEmpty
<1>2. CASE CreateVM \/ AttachDisk \/ IsolateNetwork \/ StartVM
  <2>1. Current \in Plans /\ \A i \in Vmids : vms[i] \in VM
    BY <1>2 DEF CreateVM, AttachDisk, IsolateNetwork, StartVM, Working, At, HolderOK, TypeOK
  <2>2. \A i \in Vmids : vms'[i] = vms[i] \/ vms'[i].owner # NoPlan
    <3>1. CASE CreateVM
      BY <2>1, <3>1, EngineAssumption DEF CreateVM, TypeOK, NewVM, NoVM
    <3>2. CASE AttachDisk
      <4>1. \/ UNCHANGED vms
            \/ /\ vms[Target].owner # NoPlan
               /\ vms' = [vms EXCEPT ![Target].slots[disk] = Current]
        BY <3>2 DEF AttachDisk
      <4>2. ASSUME NEW vm \in VM PROVE [vm EXCEPT !.slots[disk] = Current].owner = vm.owner
        BY DEF VM
      <4> QED BY <2>1, <4>1, <4>2 DEF TypeOK
    <3>3. CASE IsolateNetwork \/ StartVM
      <4>1. \/ UNCHANGED vms
            \/ /\ vms[Target].owner # NoPlan
               /\ \/ vms' = [vms EXCEPT ![Target].net = "isolated"]
                  \/ vms' = [vms EXCEPT ![Target].on = TRUE]
        BY <3>3 DEF IsolateNetwork, StartVM
      <4>2. ASSUME NEW vm \in VM
            PROVE  /\ [vm EXCEPT !.net = "isolated"].owner = vm.owner
                   /\ [vm EXCEPT !.on = TRUE].owner = vm.owner
        BY DEF VM
      <4> QED BY <2>1, <4>1, <4>2 DEF TypeOK
    <3> QED BY <1>2, <3>1, <3>2, <3>3
  <2> QED BY <2>2 DEF UnusedIsEmpty
<1>3. CASE ~(CreateVM \/ AttachDisk \/ IsolateNetwork \/ StartVM)
  BY <1>1, <1>3, VMsAside
<1> QED BY <1>2, <1>3

(* A success is stored by the save that completes the step.                *)
LEMMA NewSuccess ==
  ASSUME EngineInv, [Next]_vars, NEW p \in Plans, NEW s \in Steps, Succeeded(p, s)'
  PROVE  \/ Succeeded(p, s)
         \/ CompleteStep /\ p = Current /\ s = step
<1>1. CASE UNCHANGED jobs
  BY <1>1 DEF Succeeded
<1>2. CASE Create \/ Start \/ BeginStep \/ CompleteStep \/ Fail \/ EvidenceSaved \/ Finish
  <2>1. Current \in Plans /\ job \in Job /\ step \in Steps /\ jobs \in [Plans -> Job]
    BY <1>2
    DEF At, Create, Start, BeginStep, CompleteStep, Fail, EvidenceSaved, Finish,
        EngineInv, HolderOK, TypeOK
  <2>2. pc \notin {"idle", "load", "create"} =>
          \A t \in Steps : job.steps[t] = "succeeded" <=> Succeeded(Current, t)
    BY DEF EngineInv, CopyOK
  <2>3. ASSUME NEW j, \A t \in Steps : j.steps[t] = "succeeded" => Succeeded(Current, t),
               UNCHANGED jobs \/ jobs' = [jobs EXCEPT ![Current] = j]
        PROVE  Succeeded(p, s)
    BY <2>1, <2>3 DEF Succeeded
  <2>4. CASE Create
    <3>1. UNCHANGED jobs \/ jobs' = [jobs EXCEPT ![Current] = NewJob]
      BY <2>4 DEF Create, SaveThen, durable
    <3>2. \A t \in Steps : NewJob.steps[t] # "succeeded"
      BY DEF NewJob, AllPending
    <3> QED BY <2>3, <3>1, <3>2
  <2>5. CASE Start \/ Fail \/ Finish
    <3>1. PICK v : UNCHANGED jobs \/ jobs' = [jobs EXCEPT ![Current] = [job EXCEPT !.state = v]]
      BY <2>5 DEF Start, Fail, Finish, SaveThen, durable
    <3>2. [job EXCEPT !.state = v].steps = job.steps
      BY <2>1 DEF Job
    <3>3. pc \notin {"idle", "load", "create"}
      BY <2>5 DEF Start, Fail, Finish, At
    <3> QED BY <2>2, <2>3, <3>1, <3>2, <3>3
  <2>6. CASE BeginStep
    <3> DEFINE j == [job EXCEPT !.steps[step] = "running"]
    <3>1. UNCHANGED jobs \/ jobs' = [jobs EXCEPT ![Current] = j]
      BY <2>6 DEF BeginStep, SaveThen
    <3>2. \A t \in Steps : j.steps[t] = IF t = step THEN "running" ELSE job.steps[t]
      BY <2>1 DEF Job
    <3>3. pc = "step"
      BY <2>6 DEF BeginStep, At
    <3> HIDE DEF j
    <3> QED BY <2>2, <2>3, <3>1, <3>2, <3>3
  <2>7. CASE EvidenceSaved
    <3>1. pc = "evidence" /\ (UNCHANGED jobs \/ jobs' = [jobs EXCEPT ![Current] = job])
      BY <2>7 DEF EvidenceSaved, SaveThen, At
    <3> QED BY <2>2, <2>3, <3>1
  <2>8. CASE CompleteStep
    <3> DEFINE j == [job EXCEPT !.steps[step] = "succeeded"]
    <3>1. UNCHANGED jobs \/ jobs' = [jobs EXCEPT ![Current] = j]
      BY <2>8 DEF CompleteStep, SaveThen
    <3>2. \A t \in Steps : j.steps[t] = IF t = step THEN "succeeded" ELSE job.steps[t]
      BY <2>1 DEF Job
    <3>3. pc = "complete"
      BY <2>8 DEF CompleteStep, At
    <3> HIDE DEF j
    <3>4. jobs'[p].steps[s] = "succeeded"
      BY DEF Succeeded
    <3> QED BY <2>1, <2>2, <2>8, <3>1, <3>2, <3>3, <3>4 DEF Succeeded
  <2> QED BY <1>2, <2>4, <2>5, <2>6, <2>7, <2>8
<1> QED BY <1>1, <1>2, OthersStutter DEF vars

(* power_off and power_verify belong to the first step, boot to the last.  *)
LEMMA LabelsStay ==
  ASSUME EngineInv, LabelsOK, [Next]_vars
  PROVE  LabelsOK'
<1>1. CASE UNCHANGED <<pc, step>>
  BY <1>1 DEF LabelsOK
<1>2. CASE pc' \notin {"power_off", "power_verify", "boot"}
  BY <1>2 DEF LabelsOK
<1>3. CASE ReadPower \/ PowerOff
  BY <1>3 DEF ReadPower, PowerOff, At, Working, Goto, StepFails, LabelsOK
<1>4. CASE IsolateNetwork
  BY <1>4 DEF IsolateNetwork, Working, Goto, StepFails, LabelsOK
<1>5. CASE ~(ReadPower \/ PowerOff \/ IsolateNetwork)
  <2>1. UNCHANGED <<pc, step>> \/ pc' \notin {"power_off", "power_verify", "boot"}
    <3>1. CASE \/ \E r \in Requests, p \in Plans : Execute(r, p)
               \/ \E r \in Requests : Lock(r)
               \/ Crash \/ (\E v \in Sources : SourceStarted(v)) \/ UNCHANGED vars
      BY <3>1 DEF Execute, Lock, Crash, SourceStarted, vars
    <3>2. CASE Load \/ Create \/ Start \/ AuditStart \/ AuditFail \/ AuditWait
      BY <3>2 DEF Load, Create, Start, AuditStart, AuditFail, AuditWait, AuditThen,
         SaveThen, Goto, Return
    <3>3. CASE SkipStep \/ BeginStep \/ CompleteStep \/ Fail \/ EvidenceSaved \/ Finish
      BY <3>3 DEF SkipStep, BeginStep, CompleteStep, Fail, EvidenceSaved, Finish,
         SaveThen, Return, AfterStep
    <3>4. CASE VerifyPower \/ ReserveVMID \/ SavePlan \/ CreateVM \/ MakeWorkspace \/ StartVM
      BY <3>4 DEF VerifyPower, ReserveVMID, SavePlan, CreateVM, MakeWorkspace, StartVM,
         Goto, StepFails
    <3>5. CASE ExportDisk \/ ConvertDisk \/ AttachDisk
      BY <3>5 DEF ExportDisk, ConvertDisk, AttachDisk, NextDisk, StepFails
    <3> QED BY <1>5, <3>1, <3>2, <3>3, <3>4, <3>5 DEF Next, EngineStep
  <2> QED BY <1>1, <1>2, <2>1
<1> QED BY <1>3, <1>4, <1>5

(* What a step does to the holder's request.                               *)
LEMMA HolderStays ==
  ASSUME EngineInv, [Next]_vars, owner # NoRequest, owner' # NoRequest
  PROVE  /\ owner' = owner /\ Current' = Current
         /\ ~ReserveVMID => Snapshot' = Snapshot
<1>1. owner \in Requests /\ Current \in Plans /\ calls[owner] \in Call
  BY DEF EngineInv, TypeOK, HolderOK
<1>2. CASE UNCHANGED <<owner, calls>>
  BY <1>2 DEF Current, Snapshot
<1>3. CASE Return \/ Crash \/ \E r \in Requests : Lock(r)
  BY <1>3 DEF Return, Crash, Lock
<1>4. ASSUME NEW r \in Requests, NEW p \in Plans, Execute(r, p)
      PROVE  owner' = owner /\ Current' = Current /\ Snapshot' = Snapshot
  <2>1. owner # r
    BY <1>1, <1>4, EngineAssumption DEF Execute, Current, NoCall
  <2>2. owner' = owner /\ calls'[owner] = calls[owner]
    BY <1>1, <1>4, <2>1 DEF Execute, EngineInv, TypeOK
  <2> QED BY <2>2 DEF Current, Snapshot
<1>5. CASE ReserveVMID
  <2>1. CASE \E i \in Vmids : calls' = [calls EXCEPT ![owner].snapshot.vmid = i]
    <3>1. calls'[owner].plan = calls[owner].plan /\ owner' = owner
      BY <1>1, <1>5, <2>1 DEF ReserveVMID, Goto, EngineInv, TypeOK, Call
    <3> QED BY <1>5, <3>1 DEF Current
  <2> QED BY <1>2, <1>5, <2>1 DEF ReserveVMID, Goto
<1>6. CASE (\E v \in Sources : SourceStarted(v)) \/ UNCHANGED vars
  BY <1>2, <1>6 DEF SourceStarted, vars
<1>7. CASE \/ Load \/ Create \/ Start \/ AuditStart \/ AuditFail \/ AuditWait
           \/ SkipStep \/ BeginStep \/ CompleteStep \/ Fail \/ EvidenceSaved \/ Finish
  <2>1. Return \/ UNCHANGED <<owner, calls>>
    BY <1>7 DEF Load, Create, Start, AuditStart, AuditFail, AuditWait, AuditThen, SkipStep,
       BeginStep, CompleteStep, Fail, EvidenceSaved, Finish, SaveThen, Goto
  <2> QED BY <1>2, <1>3, <2>1
<1>8. CASE \/ ReadPower \/ PowerOff \/ VerifyPower \/ SavePlan \/ CreateVM \/ MakeWorkspace
           \/ ExportDisk \/ ConvertDisk \/ AttachDisk \/ IsolateNetwork \/ StartVM
  <2>1. UNCHANGED <<owner, calls>>
    BY <1>8 DEF ReadPower, PowerOff, VerifyPower, SavePlan, CreateVM, MakeWorkspace,
       ExportDisk, ConvertDisk, AttachDisk, IsolateNetwork, StartVM, Goto, StepFails, NextDisk
  <2> QED BY <1>2, <2>1
<1> QED BY <1>3, <1>4, <1>5, <1>6, <1>7, <1>8 DEF Next, EngineStep

(* The labels at which TargetNamed promises a VM id.                       *)
Named(label, s) ==
  \/ label = "save_plan"
  \/ label \in InsideStep \cup {"step", "workspace", "evidence"} /\ s > SourcePoweroff

(* ReserveVMID gives the plan an id or finds one; every other step reaches *)
(* such a label from another.                                              *)
LEMMA NamedStays ==
  ASSUME EngineInv, TargetNamed, [Next]_vars
  PROVE  TargetNamed'
<1>1. CASE ~Named(pc', step')
  BY <1>1 DEF TargetNamed, Named
<1>2. CASE Named(pc, step) /\ ~ReserveVMID /\ Named(pc', step')
  <2>1. owner # NoRequest /\ owner' # NoRequest
    BY <1>2, NextInv DEF Named, InsideStep, EngineInv, HolderOK
  <2> QED
    BY <1>2, <2>1, HolderStays DEF TargetNamed, Named, Snapshot, Target
<1>3. CASE ReserveVMID
  <2>1. owner \in Requests /\ calls[owner] \in Call /\ Target \in Vmids \cup {NoVmid}
    BY <1>3 DEF ReserveVMID, At, EngineInv, TypeOK, Call, Plan, Target, Snapshot
  <2>2. CASE Target # NoVmid /\ Goto("step")
    BY <2>1, <2>2 DEF Goto, Target, Snapshot, TargetNamed
  <2>3. CASE Goto("fail")
    BY <2>3 DEF Goto, TargetNamed, InsideStep
  <2>4. CASE UNCHANGED owner /\ \E i \in Vmids : calls' = [calls EXCEPT ![owner].snapshot.vmid = i]
    <3>1. PICK i \in Vmids : calls' = [calls EXCEPT ![owner].snapshot.vmid = i]
      BY <2>4
    <3>2. calls'[owner].snapshot.vmid = i
      BY <2>1, <3>1 DEF EngineInv, TypeOK, Call, Plan
    <3> QED BY <2>4, <3>2 DEF Target, Snapshot, TargetNamed
  <2> QED BY <1>3, <2>2, <2>3, <2>4 DEF ReserveVMID
<1>4. Named(pc', step') => Named(pc, step) \/ ReserveVMID
  <2>1. CASE UNCHANGED <<pc, step>>
    BY <2>1 DEF Named
  <2>2. CASE \/ \E r \in Requests, p \in Plans : Execute(r, p)
             \/ \E r \in Requests : Lock(r)
             \/ Crash \/ (\E v \in Sources : SourceStarted(v)) \/ UNCHANGED vars
    BY <2>1, <2>2 DEF Execute, Lock, Crash, SourceStarted, vars, Named, InsideStep
  <2>3. CASE Load \/ Create \/ Start \/ AuditFail \/ AuditWait \/ Fail \/ Finish
    BY <2>3 DEF Load, Create, Start, AuditFail, AuditWait, AuditThen, Fail, Finish,
       SaveThen, Goto, Return, Named, InsideStep
  <2>4. CASE AuditStart
    <3>1. pc' = "idle" \/ (step' = SourcePoweroff /\ pc' = "step")
      BY <2>4 DEF AuditStart, AuditThen, At, Goto, Return, EngineInv, PositionOK, PositionAt,
         BeforeSteps
    <3> QED BY <3>1 DEF Named, InsideStep
  <2>5. CASE SkipStep \/ CompleteStep
    <3>1. \/ pc' = "idle"
          \/ /\ pc \in InsideStep \cup {"step"} /\ step' = StepAfter(step)
             /\ \E ran \in BOOLEAN : pc' = AfterStep(step, ran)
      BY <2>5 DEF SkipStep, CompleteStep, SaveThen, At, Return, InsideStep
    <3>2. step = SourcePoweroff => \A ran \in BOOLEAN : AfterStep(step, ran) = "reserve"
      BY DEF AfterStep
    <3>3. step \in Steps
      BY DEF EngineInv, TypeOK
    <3> QED BY <3>1, <3>2, <3>3 DEF Named, InsideStep, Steps
  <2>6. CASE BeginStep \/ EvidenceSaved
    <3>1. pc' = "idle" \/ (pc \in {"step", "evidence"} /\ step' = step)
      BY <2>6 DEF BeginStep, EvidenceSaved, SaveThen, At, Return
    <3>2. pc' # "save_plan"
      BY <2>6 DEF BeginStep, EvidenceSaved, SaveThen, Return
    <3> QED BY <3>1, <3>2 DEF Named, InsideStep
  <2>7. CASE ReadPower \/ PowerOff \/ VerifyPower \/ CreateVM \/ IsolateNetwork \/ StartVM
             \/ ExportDisk \/ ConvertDisk \/ AttachDisk
    <3>1. pc \in InsideStep /\ step' = step /\ pc' # "save_plan"
      BY <2>7 DEF ReadPower, PowerOff, VerifyPower, CreateVM, IsolateNetwork, StartVM,
         ExportDisk, ConvertDisk, AttachDisk, At, Working, Goto, StepFails, NextDisk, InsideStep
    <3> QED BY <3>1 DEF Named
  <2>8. CASE SavePlan \/ MakeWorkspace
    <3>1. pc \in {"save_plan", "workspace"} /\ step' = step /\ pc' \in {"step", "fail"}
      BY <2>8 DEF SavePlan, MakeWorkspace, At, Goto
    <3> QED BY <3>1 DEF Named, InsideStep
  <2> QED BY <2>2, <2>3, <2>4, <2>5, <2>6, <2>7, <2>8 DEF Next, EngineStep
<1> QED BY <1>1, <1>2, <1>3, <1>4

(* The step at hand comes as far as its position says: the loop over the   *)
(* disks goes on after a disk that is done and ends after the last one.    *)
LEMMA ProgressStays ==
  ASSUME EffectsInv, [Next]_vars
  PROVE  ProgressOK'
<1>1. Advances /\ step \in Steps /\ disk \in Disks /\ DiskCount \in Nat
  BY StepAdvances, EngineAssumption DEF EffectsInv, EngineInv, TypeOK
<1>2. pc \notin {"idle"} => owner \in Requests /\ Current \in Plans
  BY EngineAssumption DEF EffectsInv, EngineInv, TypeOK, HolderOK
<1>3. CASE UNCHANGED <<pc, step, disk>> /\ (pc \in {"work", "complete"} => Current' = Current)
  <2>1. CASE pc \in {"work", "complete"}
    BY <1>1, <1>2, <1>3, <2>1, DoneStays DEF EffectsInv, ProgressOK
  <2>2. CASE pc \notin {"work", "complete"}
    BY <1>3, <2>2 DEF ProgressOK
  <2> QED BY <2>1, <2>2
<1>4. CASE pc' \notin {"work", "complete"}
  BY <1>4 DEF ProgressOK
<1>5. CASE pc' = "work" /\ disk' = 1
  BY <1>1, <1>5 DEF ProgressOK, Disks
<1>6. ASSUME Goto("complete"), Happened(Current, step)' PROVE ProgressOK'
  BY <1>6 DEF Goto, ProgressOK
<1>7. ASSUME NEW s \in {SourcePoweroff, IsolatedBoot}, NEW p PROVE Happened(p, s)'
  BY <1>7 DEF Happened, DiskDone
<1>8. CASE \E r \in Requests, p \in Plans : Execute(r, p)
  <2>1. PICK r \in Requests, p \in Plans : Execute(r, p)
    BY <1>8
  <2>2. pc # "idle" => owner # r
    BY <1>2, <2>1, EngineAssumption DEF Execute, Current, NoCall
  <2>3. pc # "idle" => Current' = Current
    BY <1>2, <2>1, <2>2 DEF Execute, Current, EffectsInv, EngineInv, TypeOK
  <2> QED BY <1>3, <2>1, <2>3 DEF Execute
<1>9. CASE \/ \E r \in Requests : Lock(r)
           \/ Crash \/ Load \/ Create \/ Start \/ AuditStart \/ AuditFail \/ AuditWait
           \/ SkipStep \/ Fail \/ EvidenceSaved \/ Finish
           \/ ReserveVMID \/ SavePlan \/ MakeWorkspace
  <2>1. pc' \notin {"work", "complete"}
    <3>1. CASE (\E r \in Requests : Lock(r)) \/ Crash
      BY <3>1 DEF Lock, Crash
    <3>2. CASE Load \/ Create \/ Start \/ AuditStart \/ AuditFail \/ AuditWait
      BY <3>2 DEF Load, Create, Start, AuditStart, AuditFail, AuditWait, AuditThen,
         SaveThen, Goto, Return
    <3>3. CASE SkipStep \/ Fail \/ EvidenceSaved \/ Finish
      BY <3>3 DEF SkipStep, Fail, EvidenceSaved, Finish, SaveThen, Return, AfterStep
    <3>4. CASE ReserveVMID \/ SavePlan \/ MakeWorkspace
      BY <3>4 DEF ReserveVMID, SavePlan, MakeWorkspace, Goto
    <3> QED BY <1>9, <3>1, <3>2, <3>3, <3>4
  <2> QED BY <1>4, <2>1
<1>10. CASE (\E v \in Sources : SourceStarted(v)) \/ UNCHANGED vars
  BY <1>3, <1>10 DEF SourceStarted, vars, Current
<1>11. CASE BeginStep
  BY <1>4, <1>5, <1>11 DEF BeginStep, SaveThen, Return
<1>12. CASE CompleteStep
  BY <1>4, <1>12 DEF CompleteStep, SaveThen, Return, AfterStep
<1>13. CASE ReadPower \/ PowerOff \/ IsolateNetwork
  BY <1>4, <1>13 DEF ReadPower, PowerOff, IsolateNetwork, Goto, StepFails
<1>14. CASE VerifyPower \/ StartVM
  <2>1. pc' = "fail" \/ (Goto("complete") /\ step \in {SourcePoweroff, IsolatedBoot})
    BY <1>14 DEF VerifyPower, StartVM, At, StepFails, EffectsInv, LabelsOK
  <2>2. CASE Goto("complete") /\ step \in {SourcePoweroff, IsolatedBoot}
    <3>1. Happened(Current, step)'
      <4>1. step' = step
        BY <2>2 DEF Goto
      <4> QED BY <2>2, <4>1 DEF Happened, DiskDone
    <3> QED BY <1>6, <2>2, <3>1
  <2> QED BY <1>4, <2>1, <2>2
<1>15. CASE CreateVM
  <2>1. \/ pc' = "fail"
        \/ /\ Goto("complete") /\ step = CreateTargetVM
           /\ \/ vms[Target].owner = NoPlan /\ vms' = [vms EXCEPT ![Target] = NewVM(Current)]
              \/ vms[Target].owner = Current /\ UNCHANGED vms
    BY <1>15 DEF CreateVM, Working, Goto, StepFails
  <2>2. Target \in Vmids
    BY <1>15 DEF CreateVM, Working, At, EffectsInv, TargetNamed, InsideStep
  <2>3. CASE /\ Goto("complete") /\ step = CreateTargetVM
             /\ \/ vms[Target].owner = NoPlan /\ vms' = [vms EXCEPT ![Target] = NewVM(Current)]
                \/ vms[Target].owner = Current /\ UNCHANGED vms
    <3>1. vms'[Target].owner = Current
      BY <2>2, <2>3 DEF EffectsInv, EngineInv, TypeOK, NewVM, NoVM
    <3>2. step' = step /\ Current' = Current
      BY <2>3 DEF Goto, Current
    <3>3. \E i \in Vmids : vms'[i].owner = Current
      BY <2>2, <3>1
    <3>4. Happened(Current, step)'
      BY <2>3, <3>2, <3>3 DEF Happened, DiskDone
    <3> QED BY <1>6, <2>3, <3>4
  <2> QED BY <1>4, <2>1, <2>3
<1>16. CASE ExportDisk \/ ConvertDisk \/ AttachDisk
  <2>1. PICK p \in Plans, s \in {ExportDisks, ConvertDisks, AttachDisks}, e \in Disks :
          p = Current /\ s = step /\ e = disk /\ pc = "work"
    BY <1>1, <1>2, <1>16 DEF ExportDisk, ConvertDisk, AttachDisk, Working, At
  <2>2. CASE NextDisk /\ DiskDone(p, s, e)'
    <3>1. Current' = p /\ step' = s
      BY <2>1, <2>2 DEF NextDisk, Current
    <3>2. \A d \in Disks : d < e => DiskDone(p, s, d)
      BY <2>1 DEF EffectsInv, ProgressOK
    <3>3. \A d \in Disks : d <= e => DiskDone(p, s, d)'
      <4>1. \A d \in Disks : d < e => DiskDone(p, s, d)'
        BY <1>1, <3>2, DoneStays DEF Steps
      <4>2. \A d \in Disks : d <= e => d < e \/ d = e
        BY <2>1 DEF Disks
      <4> QED BY <2>2, <4>1, <4>2
    <3>4. CASE disk = DiskCount
      <4>1. \A d \in Disks : DiskDone(p, s, d)'
        BY <1>1, <2>1, <3>3, <3>4 DEF Disks
      <4>2. Happened(p, s)'
        BY <4>1 DEF Happened
      <4> QED BY <2>2, <3>1, <3>4, <4>2 DEF NextDisk, ProgressOK
    <3>5. CASE disk # DiskCount
      <4>1. pc' = "work" /\ \A d \in Disks : d < disk' => d <= e
        BY <1>1, <2>1, <2>2, <3>5 DEF NextDisk, Disks
      <4> QED BY <3>1, <3>3, <4>1 DEF ProgressOK
    <3> QED BY <3>4, <3>5
  <2>3. CASE pc' = "fail"
    BY <1>4, <2>3
  <2>4. CASE ExportDisk
    <3>1. pc' = "fail" \/ (NextDisk /\ exports' = [exports EXCEPT ![p][e] = "current"] /\ s = ExportDisks)
      BY <2>1, <2>4 DEF ExportDisk, Working, StepFails
    <3>2. exports' = [exports EXCEPT ![p][e] = "current"] => exports'[p][e] = "current"
      BY DEF EffectsInv, EngineInv, TypeOK
    <3> QED BY <2>2, <2>3, <3>1, <3>2 DEF DiskDone
  <2>5. CASE ConvertDisk
    <3>1. \/ pc' = "fail"
          \/ /\ NextDisk /\ converted' = [converted EXCEPT ![p][e] = "complete"]
             /\ s = ConvertDisks
      BY <2>1, <2>5 DEF ConvertDisk, Working, StepFails
    <3>2. converted' = [converted EXCEPT ![p][e] = "complete"] => converted'[p][e] = "complete"
      BY DEF EffectsInv, EngineInv, TypeOK
    <3> QED BY <2>2, <2>3, <3>1, <3>2 DEF DiskDone
  <2>6. CASE AttachDisk
    <3>1. \/ pc' = "fail"
          \/ /\ NextDisk /\ vms' = [vms EXCEPT ![Target].slots[e] = p]
             /\ s = AttachDisks
      BY <2>1, <2>6 DEF AttachDisk, Working, StepFails
    <3>2. Target \in Vmids
      BY <2>6 DEF AttachDisk, Working, At, EffectsInv, TargetNamed, InsideStep
    <3>3. vms' = [vms EXCEPT ![Target].slots[e] = p] => vms'[Target].slots[e] = p
      BY <3>2 DEF EffectsInv, EngineInv, TypeOK, VM
    <3>4. vms' = [vms EXCEPT ![Target].slots[e] = p] => \E i \in Vmids : vms'[i].slots[e] = p
      BY <3>2, <3>3
    <3> QED BY <2>2, <2>3, <3>1, <3>4 DEF DiskDone
  <2> QED BY <1>16, <2>4, <2>5, <2>6
<1> QED
  BY <1>8, <1>9, <1>10, <1>11, <1>12, <1>13, <1>14, <1>15, <1>16 DEF Next, EngineStep

(* Every step keeps it.                                                    *)
LEMMA EffectsStay == ASSUME EffectsInv, [Next]_vars PROVE EffectsInv'
<1>1. EngineInv' /\ LabelsOK' /\ TargetNamed' /\ UnusedIsEmpty' /\ ProgressOK'
  BY NextInv, LabelsStay, NamedStays, UnusedStaysEmpty, ProgressStays DEF EffectsInv, EngineInv
<1>2. Advances
  BY StepAdvances DEF EffectsInv, EngineInv
<1>3. ASSUME NEW p \in Plans, NEW s \in Steps, Succeeded(p, s)' PROVE Happened(p, s)'
  <2>1. CASE Succeeded(p, s)
    BY <1>2, <2>1, DoneStays DEF EffectsInv, SucceededStepsHappened
  <2>2. CASE CompleteStep /\ p = Current /\ s = step
    <3>1. Happened(p, s)
      BY <2>2 DEF CompleteStep, At, EffectsInv, ProgressOK
    <3> QED BY <1>2, <3>1, DoneStays
  <2> QED BY <1>3, <2>1, <2>2, NewSuccess DEF EffectsInv
<1> QED BY <1>1, <1>3 DEF EffectsInv, SucceededStepsHappened

(* EffectsInv is an invariant of the engine, for any number of requests:   *)
(* how far the step at hand has come on the platform, and that the steps   *)
(* stored as succeeded have happened there (job/engine.go, ExecutePlan).   *)
THEOREM EffectsInvariance == Spec => []EffectsInv
<1>1. Init => EffectsInv
  <2> SUFFICES ASSUME Init PROVE EffectsInv
    OBVIOUS
  <2>1. EngineInv /\ pc = "idle" /\ vms = [i \in Vmids |-> NoVM]
    BY InitInv DEF Init, InitEngine
  <2>2. \A p \in Plans, s \in Steps : ~Succeeded(p, s)
    BY DEF Init, InitEngine, NoJob, AllPending, Succeeded
  <2>3. LabelsOK /\ TargetNamed /\ ProgressOK /\ UnusedIsEmpty
    BY <2>1 DEF LabelsOK, TargetNamed, InsideStep, ProgressOK, UnusedIsEmpty, NoVM
  <2> QED BY <2>1, <2>2, <2>3 DEF EffectsInv, SucceededStepsHappened
<1>2. EffectsInv /\ [Next]_vars => EffectsInv'
  BY EffectsStay
<1> QED BY <1>1, <1>2, PTL DEF Spec

(* A step that is stored as succeeded has happened on the platform, however *)
(* requests interleave and whatever fails or crashes (job/engine.go,       *)
(* runStep: a later execution skips the step).                             *)
THEOREM StepsHappened == Spec => []SucceededStepsHappened
<1>1. EffectsInv => SucceededStepsHappened
  BY DEF EffectsInv
<1> QED BY <1>1, EffectsInvariance, PTL

-----------------------------------------------------------------------------
(* One client at a time                                                    *)

(* At most one execute request is open.  With two requests the second one  *)
(* executes with the plan it read before the first one reserved the VM id, *)
(* and the properties below fail.                                          *)
OneClient == \A q, r \in Requests : q = r

(* What a step does to a VM: only these four change one, the target.       *)
LEMMA VMChange ==
  ASSUME TypeOK, HolderOK, [Next]_vars, NEW i \in Vmids
  PROVE  \/ vms'[i] = vms[i]
         \/ /\ CreateVM /\ i = Target /\ vms[i].owner = NoPlan
            /\ vms'[i] = NewVM(Current)
         \/ /\ AttachDisk /\ i = Target /\ ~vms[i].on
            /\ vms'[i] = [vms[i] EXCEPT !.slots[disk] = Current]
         \/ /\ IsolateNetwork /\ i = Target
            /\ vms'[i] = [vms[i] EXCEPT !.net = "isolated"]
         \/ /\ StartVM /\ i = Target /\ vms[i].owner # NoPlan /\ vms[i].net = "isolated"
            /\ vms'[i] = [vms[i] EXCEPT !.on = TRUE]
<1>1. CASE CreateVM
  <2>1. \/ UNCHANGED vms
        \/ vms[Target].owner = NoPlan /\ vms' = [vms EXCEPT ![Target] = NewVM(Current)]
    BY <1>1 DEF CreateVM
  <2> QED BY <1>1, <2>1 DEF TypeOK
<1>2. CASE AttachDisk
  <2>1. \/ UNCHANGED vms
        \/ ~vms[Target].on /\ vms' = [vms EXCEPT ![Target].slots[disk] = Current]
    BY <1>2 DEF AttachDisk
  <2> QED BY <1>2, <2>1 DEF TypeOK
<1>3. CASE IsolateNetwork
  <2>1. UNCHANGED vms \/ vms' = [vms EXCEPT ![Target].net = "isolated"]
    BY <1>3 DEF IsolateNetwork
  <2> QED BY <1>3, <2>1 DEF TypeOK
<1>4. CASE StartVM
  <2>1. \/ UNCHANGED vms
        \/ /\ vms[Target].owner # NoPlan /\ vms[Target].net = "isolated"
           /\ vms' = [vms EXCEPT ![Target].on = TRUE]
    BY <1>4 DEF StartVM
  <2> QED BY <1>4, <2>1 DEF TypeOK
<1> QED BY <1>1, <1>2, <1>3, <1>4, VMsAside

(* Only SavePlan touches the plan table.                                   *)
LEMMA PlansAside ==
  ASSUME [Next]_vars
  PROVE  \/ UNCHANGED plans
         \/ SavePlan /\ plans' = [plans EXCEPT ![Current] = Snapshot]
<1>1. CASE SavePlan
  BY <1>1 DEF SavePlan
<1>2. CASE \/ \E r \in Requests, p \in Plans : Execute(r, p)
           \/ \E r \in Requests : Lock(r)
           \/ Crash \/ (\E v \in Sources : SourceStarted(v)) \/ UNCHANGED vars
  BY <1>2 DEF Execute, Lock, Crash, SourceStarted, vars, durable
<1>3. CASE \/ Load \/ Create \/ Start \/ AuditStart \/ AuditFail \/ AuditWait
           \/ SkipStep \/ BeginStep \/ CompleteStep \/ Fail \/ EvidenceSaved \/ Finish
  BY <1>3 DEF Load, Create, Start, AuditStart, AuditFail, AuditWait, AuditThen, SkipStep,
     BeginStep, CompleteStep, Fail, EvidenceSaved, Finish, SaveThen, durable
<1>4. CASE \/ ReadPower \/ PowerOff \/ VerifyPower \/ ReserveVMID \/ CreateVM
           \/ MakeWorkspace \/ ExportDisk \/ ConvertDisk \/ AttachDisk
           \/ IsolateNetwork \/ StartVM
  BY <1>4 DEF ReadPower, PowerOff, VerifyPower, ReserveVMID, CreateVM, MakeWorkspace,
     ExportDisk, ConvertDisk, AttachDisk, IsolateNetwork, StartVM, durable
<1> QED BY <1>1, <1>2, <1>3, <1>4 DEF Next, EngineStep

(* The row that is saved names the target, and had none before.            *)
LEMMA SavedPlan ==
  ASSUME SequentialInv, [Next]_vars, NEW p \in Plans, plans[p].vmid # NoVmid
  PROVE  plans'[p] = plans[p]
<1>1. CASE SavePlan /\ plans' = [plans EXCEPT ![Current] = Snapshot]
  <2>1. plans[Current].vmid = NoVmid
    BY <1>1 DEF SavePlan, At, SequentialInv, TargetOK
  <2> QED BY <1>1, <2>1 DEF SequentialInv, EngineInv, TypeOK
<1> QED BY <1>1, PlansAside

(* Past create_target_vm the holder works on its plan's own VM.            *)
LEMMA OwnTarget ==
  ASSUME SequentialInv, pc \in InsideStep \cup {"step"}, step > CreateTargetVM
  PROVE  /\ Target \in Vmids /\ plans[Current].vmid = Target
         /\ vms[Target].owner = Current /\ Current \in Plans
         /\ \A s \in Steps : s < step => Succeeded(Current, s)
<1>1. owner \in Requests /\ Current \in Plans /\ plans[Current] \in Plan /\ step \in Steps
  BY DEF SequentialInv, EngineInv, TypeOK, HolderOK, InsideStep
<1>2. \A s \in Steps : s < step => Succeeded(Current, s)
  BY DEF SequentialInv, EngineInv, CopyOK, PositionOK, PositionAt, Stepping, InsideStep
<1>3. Succeeded(Current, CreateTargetVM)
  BY <1>1, <1>2 DEF Steps
<1>4. plans[Current].vmid # NoVmid /\ vms[plans[Current].vmid].owner = Current
  BY <1>1, <1>3 DEF SequentialInv, PlanNamesItsVM
<1>5. calls[owner] # NoCall
  BY <1>1, EngineAssumption DEF Current, NoCall
<1>6. plans[Current].vmid = Target
  BY <1>1, <1>5 DEF SequentialInv, TargetIsStored, Target, Snapshot, Current, InsideStep
<1> QED BY <1>1, <1>2, <1>4, <1>6 DEF Plan

(* The plan table agrees with the open request.                            *)
LEMMA TargetStaysStored ==
  ASSUME OneClient, SequentialInv, [Next]_vars
  PROVE  TargetIsStored'
<1>1. TypeOK /\ HolderOK /\ TargetIsStored
  BY DEF SequentialInv, EngineInv
<1>2. CASE pc' \in {"save_plan", "fail", "audit_fail"}
  BY <1>2 DEF TargetIsStored
<1>3. CASE UNCHANGED <<plans, calls>> /\ pc \notin {"save_plan", "fail", "audit_fail"}
  BY <1>1, <1>3 DEF TargetIsStored
<1>4. CASE Crash \/ (owner # NoRequest /\ Return)
  <2>1. \A r \in Requests : calls'[r] = NoCall
    BY <1>1, <1>4 DEF Crash, Return, TypeOK, OneClient
  <2> QED BY <2>1 DEF TargetIsStored
<1>5. ASSUME NEW r \in Requests, NEW p \in Plans, Execute(r, p) PROVE TargetIsStored'
  <2>1. calls' = [calls EXCEPT ![r] = [plan |-> p, snapshot |-> plans[p]]] /\ plans' = plans
    BY <1>5 DEF Execute, durable
  <2>2. calls'[r] = [plan |-> p, snapshot |-> plans[p]]
    BY <1>1, <2>1 DEF TypeOK
  <2> QED BY <2>1, <2>2 DEF TargetIsStored, OneClient
<1>6. CASE (\E r \in Requests : Lock(r)) \/ (\E v \in Sources : SourceStarted(v)) \/ UNCHANGED vars
  <2>1. UNCHANGED <<plans, calls>> /\ (pc' = pc \/ pc = "idle")
    BY <1>1, <1>6 DEF Lock, SourceStarted, vars, durable, HolderOK
  <2> QED BY <1>2, <1>3, <2>1
<1>7. CASE ReserveVMID
  <2>1. pc' \in {"save_plan", "fail"} \/ (UNCHANGED <<plans, calls>> /\ pc = "reserve")
    BY <1>7 DEF ReserveVMID, Goto, durable, At
  <2> QED BY <1>2, <1>3, <2>1
<1>8. CASE SavePlan
  <2>1. \/ pc' = "fail"
        \/ calls' = calls /\ plans' = [plans EXCEPT ![Current] = Snapshot]
    BY <1>8 DEF SavePlan, Goto
  <2>2. owner \in Requests /\ Current \in Plans
    BY <1>1, <1>8 DEF SavePlan, At, TypeOK, HolderOK
  <2>3. CASE calls' = calls /\ plans' = [plans EXCEPT ![Current] = Snapshot]
    <3>1. plans'[calls[owner].plan] = calls[owner].snapshot
      BY <1>1, <2>2, <2>3 DEF TypeOK, Current, Snapshot
    <3> QED BY <2>2, <2>3, <3>1 DEF TargetIsStored, OneClient
  <2> QED BY <1>2, <2>1, <2>3
<1>9. CASE Fail \/ AuditFail
  <2>1. pc' = "audit_fail" \/ (owner # NoRequest /\ Return)
    BY <1>9 DEF Fail, AuditFail, AuditThen, SaveThen, At
  <2> QED BY <1>2, <1>4, <2>1
<1>10. CASE \/ Load \/ Create \/ Start \/ AuditStart \/ AuditWait
            \/ SkipStep \/ BeginStep \/ CompleteStep \/ EvidenceSaved \/ Finish
  <2>1. /\ owner # NoRequest /\ pc \notin {"save_plan", "fail", "audit_fail"}
        /\ plans' = plans /\ (Return \/ calls' = calls)
    BY <1>10 DEF Load, Create, Start, AuditStart, AuditWait, AuditThen, SkipStep,
       BeginStep, CompleteStep, EvidenceSaved, Finish, SaveThen, At, Goto, durable
  <2> QED BY <1>3, <1>4, <2>1
<1>11. CASE \/ ReadPower \/ PowerOff \/ VerifyPower \/ CreateVM \/ MakeWorkspace
            \/ ExportDisk \/ ConvertDisk \/ AttachDisk \/ IsolateNetwork \/ StartVM
  <2>1. UNCHANGED <<plans, calls>> /\ pc \notin {"save_plan", "fail", "audit_fail"}
    BY <1>11 DEF ReadPower, PowerOff, VerifyPower, CreateVM, MakeWorkspace, ExportDisk,
       ConvertDisk, AttachDisk, IsolateNetwork, StartVM, At, Working, Goto, StepFails,
       NextDisk, durable
  <2> QED BY <1>3, <2>1
<1> QED
  BY <1>4, <1>5, <1>6, <1>7, <1>8, <1>9, <1>10, <1>11 DEF Next, EngineStep

(* The VM that is created is the plan's, and the disks attached so far are *)
(* in its slots.                                                           *)
LEMMA TargetStaysOK ==
  ASSUME OneClient, SequentialInv, [Next]_vars
  PROVE  TargetOK'
<1>1. /\ TypeOK /\ HolderOK /\ TargetIsStored /\ TargetOK
      /\ step \in Steps /\ disk \in Disks /\ DiskCount \in Nat
  BY EngineAssumption DEF SequentialInv, EngineInv, TypeOK
<1>2. owner # NoRequest => owner \in Requests /\ Current \in Plans /\ calls[owner] # NoCall
  BY <1>1, EngineAssumption DEF TypeOK, HolderOK, Current, NoCall
<1>3. CASE pc' \notin {"save_plan", "work", "complete"}
  BY <1>3 DEF TargetOK
<1>4. CASE UNCHANGED <<plans, vms, calls, owner, pc, step, disk>>
  BY <1>1, <1>4 DEF TargetOK, Target, Snapshot, Current
<1>5. CASE pc' \in {"work", "complete"} /\ step' \notin {CreateTargetVM, AttachDisks}
  BY <1>5 DEF TargetOK
<1>6. CASE \E r \in Requests, p \in Plans : Execute(r, p)
  <2>1. pc' = pc /\ owner = NoRequest
    BY <1>2, <1>6 DEF Execute, OneClient
  <2> QED BY <1>1, <1>3, <2>1 DEF HolderOK
<1>7. CASE \/ \E r \in Requests : Lock(r)
           \/ Crash \/ Load \/ Create \/ Start \/ AuditStart \/ AuditFail \/ AuditWait
           \/ SkipStep \/ CompleteStep \/ Fail \/ EvidenceSaved \/ Finish
           \/ SavePlan \/ MakeWorkspace
  <2>1. pc' \notin {"save_plan", "work", "complete"}
    <3>1. CASE (\E r \in Requests : Lock(r)) \/ Crash
      BY <3>1 DEF Lock, Crash
    <3>2. CASE Load \/ Create \/ Start \/ AuditStart \/ AuditFail \/ AuditWait
      BY <3>2 DEF Load, Create, Start, AuditStart, AuditFail, AuditWait, AuditThen,
         SaveThen, Goto, Return
    <3>3. CASE SkipStep \/ CompleteStep \/ Fail \/ EvidenceSaved \/ Finish
      BY <3>3 DEF SkipStep, CompleteStep, Fail, EvidenceSaved, Finish, SaveThen, Return, AfterStep
    <3>4. CASE SavePlan \/ MakeWorkspace
      BY <3>4 DEF SavePlan, MakeWorkspace, Goto
    <3> QED BY <1>7, <3>1, <3>2, <3>3, <3>4
  <2> QED BY <1>3, <2>1
<1>8. CASE (\E v \in Sources : SourceStarted(v)) \/ UNCHANGED vars
  BY <1>4, <1>8 DEF SourceStarted, vars, durable
<1>9. CASE ReserveVMID
  <2>1. \/ pc' \in {"step", "fail"}
        \/ plans' = plans /\ Current' = Current /\ pc' = "save_plan" /\ Target = NoVmid
    BY <1>1, <1>2, <1>9 DEF ReserveVMID, At, Goto, durable, Current, TypeOK, Call
  <2>2. plans[Current].vmid = Target
    BY <1>1, <1>2, <1>9 DEF ReserveVMID, At, TargetIsStored, Target, Snapshot, Current
  <2> QED BY <1>3, <2>1, <2>2 DEF TargetOK
<1>10. CASE BeginStep
  <2>1. pc' = "idle" \/ (pc' = "work" /\ disk' = 1)
    BY <1>10 DEF BeginStep, SaveThen, Return
  <2>2. CASE pc' = "work" /\ disk' = 1
    BY <1>1, <2>2 DEF TargetOK, Disks
  <2> QED BY <1>3, <2>1, <2>2
<1>11. CASE ReadPower \/ PowerOff \/ VerifyPower \/ IsolateNetwork \/ StartVM
  <2>1. step' = step /\ step \in {SourcePoweroff, IsolatedBoot} /\ pc' # "save_plan"
    BY <1>11 DEF ReadPower, PowerOff, VerifyPower, IsolateNetwork, StartVM, At, Working,
       Goto, StepFails, SequentialInv, LabelsOK
  <2> QED BY <1>3, <1>5, <2>1
<1>12. CASE ExportDisk \/ ConvertDisk
  <2>1. step' = step /\ step \in {ExportDisks, ConvertDisks} /\ pc' # "save_plan"
    BY <1>12 DEF ExportDisk, ConvertDisk, Working, NextDisk, StepFails
  <2> QED BY <1>3, <1>5, <2>1
<1>13. CASE CreateVM
  <2>1. \/ pc' = "fail"
        \/ /\ Goto("complete") /\ step = CreateTargetVM
           /\ \/ vms[Target].owner = NoPlan /\ vms' = [vms EXCEPT ![Target] = NewVM(Current)]
              \/ vms[Target].owner = Current /\ UNCHANGED vms
    BY <1>13 DEF CreateVM, Working, Goto, StepFails
  <2>2. Target \in Vmids
    BY <1>13 DEF CreateVM, Working, At, SequentialInv, TargetNamed, InsideStep
  <2>3. CASE /\ Goto("complete") /\ step = CreateTargetVM
             /\ \/ vms[Target].owner = NoPlan /\ vms' = [vms EXCEPT ![Target] = NewVM(Current)]
                \/ vms[Target].owner = Current /\ UNCHANGED vms
    <3>1. vms'[Target].owner = Current
      BY <1>1, <2>2, <2>3 DEF TypeOK, NewVM, NoVM
    <3>2. step' = step /\ Current' = Current /\ Target' = Target /\ pc' = "complete"
      BY <2>3 DEF Goto, Current, Target, Snapshot
    <3> QED BY <2>3, <3>1, <3>2 DEF TargetOK
  <2> QED BY <1>3, <2>1, <2>3
<1>14. CASE AttachDisk
  <2>1. \/ pc' = "fail"
        \/ NextDisk /\ vms' = [vms EXCEPT ![Target].slots[disk] = Current]
    BY <1>14 DEF AttachDisk, StepFails
  <2>2. step = AttachDisks /\ pc = "work" /\ Target \in Vmids
    BY <1>14 DEF AttachDisk, Working, At, SequentialInv, TargetNamed, InsideStep
  <2>3. CASE NextDisk /\ vms' = [vms EXCEPT ![Target].slots[disk] = Current]
    <3>1. step' = step /\ Current' = Current /\ Target' = Target
      BY <2>3 DEF NextDisk, Current, Target, Snapshot
    <3>2. vms[Target] \in VM
      BY <1>1, <2>2 DEF TypeOK
    <3>3. \A d \in Disks : vms'[Target].slots[d] =
            IF d = disk THEN Current ELSE vms[Target].slots[d]
      BY <1>1, <2>2, <2>3, <3>2 DEF TypeOK, VM
    <3>4. \A d \in Disks : d <= disk => vms'[Target].slots[d] = Current
      BY <1>1, <2>2, <3>3 DEF TargetOK, Disks
    <3>5. CASE disk = DiskCount
      <4>1. \A d \in Disks : vms'[Target].slots[d] = Current
        BY <3>4, <3>5 DEF Disks
      <4>2. pc' = "complete"
        BY <2>3, <3>5 DEF NextDisk
      <4> QED BY <2>2, <3>1, <4>1, <4>2 DEF TargetOK
    <3>6. CASE disk # DiskCount
      <4>1. pc' = "work" /\ disk' = disk + 1
        BY <2>3, <3>6 DEF NextDisk
      <4>2. \A d \in Disks : d < disk' => vms'[Target].slots[d] = Current
        BY <1>1, <3>4, <4>1 DEF Disks
      <4> QED BY <2>2, <3>1, <4>1, <4>2 DEF TargetOK
    <3> QED BY <3>5, <3>6
  <2> QED BY <1>3, <2>1, <2>3
<1> QED
  BY <1>6, <1>7, <1>8, <1>9, <1>10, <1>11, <1>12, <1>13, <1>14 DEF Next, EngineStep

(* The VM of a plan whose target was created, and its disks, stay.         *)
LEMMA OwnVMsStay ==
  ASSUME SequentialInv, Advances, TargetIsStored', [Next]_vars
  PROVE  PlanNamesItsVM' /\ AttachedToOwnVM'
<1>1. TypeOK /\ HolderOK /\ TargetIsStored /\ TargetOK /\ StepsFollowOrder
  BY DEF SequentialInv, EngineInv
<1>2. ASSUME NEW p \in Plans, Succeeded(p, CreateTargetVM)
      PROVE  /\ plans'[p] = plans[p] /\ plans[p].vmid \in Vmids
             /\ vms[plans[p].vmid].owner = p /\ vms'[plans[p].vmid].owner = p
  <2>1. plans[p].vmid # NoVmid /\ vms[plans[p].vmid].owner = p /\ plans[p] \in Plan
    BY <1>1, <1>2 DEF SequentialInv, PlanNamesItsVM, TypeOK
  <2>2. plans[p].vmid \in Vmids
    BY <2>1 DEF Plan
  <2> QED BY <2>1, <2>2, SavedPlan, EngineAssumption DEF Advances
<1>3. ASSUME CompleteStep
      PROVE  /\ UNCHANGED <<plans, vms>>
             /\ Current \in Plans /\ pc = "complete"
             /\ plans[Current].vmid = Target
             /\ step = CreateTargetVM => Target \in Vmids
  <2>1. owner \in Requests /\ Current \in Plans /\ pc = "complete" /\ UNCHANGED <<plans, vms>>
    BY <1>1, <1>3 DEF CompleteStep, SaveThen, At, TypeOK, HolderOK, platform
  <2>2. calls[owner] # NoCall
    BY <2>1, EngineAssumption DEF Current, NoCall
  <2>3. step = CreateTargetVM => Target \in Vmids
    BY <2>1 DEF SequentialInv, TargetNamed, InsideStep
  <2> QED BY <1>1, <2>1, <2>2, <2>3 DEF TargetIsStored, Target, Snapshot, Current
<1>4. ASSUME NEW p \in Plans, Succeeded(p, CreateTargetVM)'
      PROVE  plans'[p].vmid # NoVmid /\ vms'[plans'[p].vmid].owner = p
  <2>1. CASE Succeeded(p, CreateTargetVM)
    BY <1>2, <2>1, EngineAssumption
  <2>2. CASE CompleteStep /\ p = Current /\ step = CreateTargetVM
    BY <1>1, <1>3, <2>2, EngineAssumption DEF TargetOK
  <2> QED BY <1>4, <2>1, <2>2, NewSuccess DEF SequentialInv, Steps
<1>5. ASSUME NEW p \in Plans, Succeeded(p, AttachDisks)', NEW d \in Disks
      PROVE  vms'[plans'[p].vmid].slots[d] = p
  <2>1. CASE Succeeded(p, AttachDisks)
    <3>1. Succeeded(p, CreateTargetVM)
      BY <1>1, <2>1 DEF StepsFollowOrder, Succeeded, Steps
    <3>2. vms[plans[p].vmid].slots[d] = p
      BY <2>1 DEF SequentialInv, AttachedToOwnVM
    <3> QED BY <1>2, <3>1, <3>2 DEF Advances
  <2>2. CASE CompleteStep /\ p = Current /\ step = AttachDisks
    BY <1>1, <1>3, <2>2 DEF TargetOK
  <2> QED BY <1>5, <2>1, <2>2, NewSuccess DEF SequentialInv, Steps
<1> QED BY <1>4, <1>5 DEF PlanNamesItsVM, AttachedToOwnVM

(* Disks go to the VM of their own plan, and a VM is started when all its  *)
(* disks are there and while its network is isolated.                      *)
LEMMA VMsStayWhole ==
  ASSUME SequentialInv, [Next]_vars
  PROVE  VMsKeepToTheirPlan' /\ RunningTargetIsComplete'
<1>1. TypeOK /\ HolderOK /\ VMsKeepToTheirPlan /\ RunningTargetIsComplete /\ LabelsOK
  BY DEF SequentialInv, EngineInv
<1> DEFINE Whole(vm) ==
      /\ \A d \in Disks : vm.slots[d] \in {NoPlan, vm.owner}
      /\ vm.on => vm.net = "isolated" /\ \A d \in Disks : vm.slots[d] = vm.owner /\ vm.owner # NoPlan
<1>2. ASSUME NEW i \in Vmids PROVE Whole(vms'[i])
  <2>1. vms[i] \in VM /\ Whole(vms[i])
    BY <1>1 DEF TypeOK, VMsKeepToTheirPlan, RunningTargetIsComplete
  <2>2. CASE vms'[i] = vms[i]
    BY <2>1, <2>2
  <2>3. CASE vms'[i] = NewVM(Current)
    BY <2>3 DEF NewVM, NoVM
  <2>4. CASE /\ AttachDisk /\ i = Target /\ ~vms[i].on
             /\ vms'[i] = [vms[i] EXCEPT !.slots[disk] = Current]
    <3>1. vms[i].owner = Current
      BY <2>4, OwnTarget DEF AttachDisk, Working, At, InsideStep
    <3>2. /\ vms'[i].owner = vms[i].owner /\ vms'[i].on = vms[i].on
          /\ \A d \in Disks : vms'[i].slots[d] = IF d = disk THEN Current ELSE vms[i].slots[d]
      BY <2>1, <2>4 DEF VM
    <3> QED BY <2>1, <2>4, <3>1, <3>2
  <2>5. CASE vms'[i] = [vms[i] EXCEPT !.net = "isolated"]
    <3>1. /\ vms'[i].owner = vms[i].owner /\ vms'[i].on = vms[i].on
          /\ vms'[i].slots = vms[i].slots /\ vms'[i].net = "isolated"
      BY <2>1, <2>5 DEF VM
    <3> QED BY <2>1, <3>1
  <2>6. CASE /\ StartVM /\ i = Target /\ vms[i].owner # NoPlan /\ vms[i].net = "isolated"
             /\ vms'[i] = [vms[i] EXCEPT !.on = TRUE]
    <3>1. pc = "boot" /\ step = IsolatedBoot
      BY <1>1, <2>6 DEF StartVM, At, LabelsOK
    <3>2. /\ vms[i].owner = Current /\ plans[Current].vmid = i /\ Current \in Plans
          /\ Succeeded(Current, AttachDisks)
      BY <2>6, <3>1, OwnTarget DEF InsideStep, Steps
    <3>3. \A d \in Disks : vms[i].slots[d] = Current
      BY <3>2 DEF SequentialInv, AttachedToOwnVM
    <3>4. /\ vms'[i].owner = vms[i].owner /\ vms'[i].slots = vms[i].slots
          /\ vms'[i].net = vms[i].net
      BY <2>1, <2>6 DEF VM
    <3> QED BY <2>6, <3>2, <3>3, <3>4
  <2> QED BY <1>1, <2>2, <2>3, <2>4, <2>5, <2>6, VMChange
<1> QED BY <1>2 DEF VMsKeepToTheirPlan, RunningTargetIsComplete

(* SequentialInv is an invariant when one client works at a time: the      *)
(* engine's VM id is the stored one, and the VM with this id is the plan's *)
(* (job/engine.go, ExecutePlan).                                           *)
THEOREM SequentialInvariance == ASSUME OneClient PROVE Spec => []SequentialInv
<1>1. Init => SequentialInv
  <2> SUFFICES ASSUME Init PROVE SequentialInv
    OBVIOUS
  <2>1. EngineInv /\ pc = "idle" /\ vms = [i \in Vmids |-> NoVM]
    BY InitInv DEF Init, InitEngine
  <2>2. \A p \in Plans, s \in Steps : ~Succeeded(p, s)
    BY DEF Init, InitEngine, NoJob, AllPending, Succeeded
  <2>3. LabelsOK /\ TargetNamed /\ TargetOK
    BY <2>1 DEF LabelsOK, TargetNamed, InsideStep, TargetOK
  <2>4. TargetIsStored
    BY DEF Init, InitEngine, TargetIsStored
  <2>5. VMsKeepToTheirPlan /\ RunningTargetIsComplete
    BY <2>1 DEF VMsKeepToTheirPlan, RunningTargetIsComplete, NoVM
  <2> QED BY <2>1, <2>2, <2>3, <2>4, <2>5 DEF SequentialInv, PlanNamesItsVM, AttachedToOwnVM, Steps
<1>2. SequentialInv /\ [Next]_vars => SequentialInv'
  <2> SUFFICES ASSUME SequentialInv, [Next]_vars PROVE SequentialInv'
    OBVIOUS
  <2>1. EngineInv' /\ LabelsOK' /\ TargetNamed'
    BY NextInv, LabelsStay, NamedStays DEF SequentialInv
  <2>2. TargetIsStored' /\ TargetOK'
    BY TargetStaysStored, TargetStaysOK
  <2>3. UnusedIsEmpty
    <3> SUFFICES ASSUME NEW i \in Vmids, NEW d \in Disks, vms[i].owner = NoPlan
                 PROVE  vms[i].slots[d] = NoPlan
      BY DEF UnusedIsEmpty
    <3> QED BY DEF SequentialInv, VMsKeepToTheirPlan
  <2>4. Advances
    BY <2>3, StepAdvances DEF SequentialInv, EngineInv
  <2> QED BY <2>1, <2>2, <2>4, OwnVMsStay, VMsStayWhole DEF SequentialInv
<1> QED BY <1>1, <1>2, PTL DEF Spec

(* The stored plan of a created VM names that VM, through crashes, lost    *)
(* saves and retries, when one client works at a time (job/engine.go,      *)
(* ExecutePlan: plan.TargetVMID is saved before CreateVM is called).       *)
THEOREM PlansNameTheirVMs == ASSUME OneClient PROVE Spec => []PlanNamesItsVM
<1>1. SequentialInv => PlanNamesItsVM
  BY DEF SequentialInv
<1> QED BY <1>1, SequentialInvariance, PTL

(* No execution writes to another plan's VM, when one client works at a    *)
(* time (proxmox/target.go: ownedVMNode takes the marker of any plan).     *)
THEOREM VMsStayApart == ASSUME OneClient PROVE Spec => []VMsKeepToTheirPlan
<1>1. SequentialInv => VMsKeepToTheirPlan
  BY DEF SequentialInv
<1> QED BY <1>1, SequentialInvariance, PTL

(* A target VM that runs has all its disks and an isolated network, when   *)
(* one client works at a time (job/engine.go, isolated_boot).              *)
THEOREM TargetsRunWhole == ASSUME OneClient PROVE Spec => []RunningTargetIsComplete
<1>1. SequentialInv => RunningTargetIsComplete
  BY DEF SequentialInv
<1> QED BY <1>1, SequentialInvariance, PTL

-----------------------------------------------------------------------------
(* What leaves a job running                                               *)

(* The mutex is given up by a crash, by a failed call of the store, after  *)
(* the audit event that ends an execution, or before the job is running.   *)
LEMMA GivesUp ==
  ASSUME EngineInv, [Next]_vars, owner # NoRequest, owner' = NoRequest
  PROVE  \/ Crash
         \/ Faulty("store") /\ pc \in StoreCalls
         \/ pc \in {"audit_fail", "audit_wait"} /\ UNCHANGED jobs
         \/ pc \in {"load", "create", "start"}
<1>1. owner' # owner
  OBVIOUS
<1>2. CASE \/ \E r \in Requests, p \in Plans : Execute(r, p)
           \/ \E r \in Requests : Lock(r)
           \/ \E v \in Sources : SourceStarted(v)
           \/ UNCHANGED vars
  BY <1>1, <1>2 DEF Execute, Lock, SourceStarted, vars
<1>3. CASE Load \/ Create \/ Start
  BY <1>3 DEF Load, Create, Start, At
<1>4. CASE AuditStart \/ AuditFail \/ AuditWait
  BY <1>1, <1>4 DEF AuditStart, AuditFail, AuditWait, AuditThen, At, Goto, StoreCalls
<1>5. CASE SkipStep \/ BeginStep \/ CompleteStep \/ Fail \/ EvidenceSaved \/ Finish
  BY <1>1, <1>5 DEF SkipStep, BeginStep, CompleteStep, Fail, EvidenceSaved, Finish, SaveThen,
     At, StoreCalls
<1>6. CASE \/ ReadPower \/ PowerOff \/ VerifyPower \/ ReserveVMID \/ SavePlan \/ CreateVM
           \/ MakeWorkspace \/ ExportDisk \/ ConvertDisk \/ AttachDisk \/ IsolateNetwork \/ StartVM
  BY <1>1, <1>6 DEF ReadPower, PowerOff, VerifyPower, ReserveVMID, SavePlan, CreateVM,
     MakeWorkspace, ExportDisk, ConvertDisk, AttachDisk, IsolateNetwork, StartVM, Goto,
     StepFails, NextDisk
<1> QED BY <1>2, <1>3, <1>4, <1>5, <1>6 DEF Next, EngineStep

(* Whatever goes wrong elsewhere, only the death of the process and a      *)
(* failed call of the store leave a job running that nobody executes       *)
(* (engine.go: runStep and fail save the end of an execution before        *)
(* ExecutePlan returns and unlocks the mutex).                             *)
THEOREM OnlyFaultsStrand == Spec => StrandedOnlyByFault
<1>1. ASSUME EngineInv, [Next]_vars, owner # NoRequest, owner' = NoRequest,
             pc \notin {"load", "create", "start"}, jobs'[Current].state = "running"
      PROVE  Crash \/ (Faulty("store") /\ pc \in StoreCalls)
  <2>1. pc \in {"audit_fail", "audit_wait"} => jobs[Current].state # "running"
    BY <1>1 DEF EngineInv, CopyOK, PositionOK, PositionAt
  <2> QED BY <1>1, <2>1, GivesUp
<1>2. EngineInv /\ [Next]_vars =>
        [(/\ owner # NoRequest /\ owner' = NoRequest
          /\ pc \notin {"load", "create", "start"}
          /\ jobs'[Current].state = "running")
           => Crash \/ (Faulty("store") /\ pc \in StoreCalls)]_vars
  BY <1>1
<1> QED BY <1>2, Invariance, PTL DEF Spec, StrandedOnlyByFault

=============================================================================
