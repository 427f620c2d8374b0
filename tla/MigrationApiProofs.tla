------------------------ MODULE MigrationApiProofs ------------------------
(***************************************************************************)
(* Theorems of MigrationApi: the engine's invariant holds with the         *)
(* handlers around it, shutdowns are on record, a job keeps its plan, for  *)
(* any plans, requests, handlers and disturbances.                         *)
(***************************************************************************)
EXTENDS MigrationApi, JobEngineProofs

(* The steps of the engine's own module.                                   *)
OfEngine ==
  \/ \E r \in Requests, p \in Plans : Execute(r, p)
  \/ \E r \in Requests : Lock(r)
  \/ EngineStep
  \/ \E v \in Sources : SourceStarted(v)
  \/ Crash

Present(row) == row.status \notin {"absent", "deleted"}

(* Two rows agree on what an approval is about.                            *)
UnchangedVerdict(row, old) ==
  row.passed = old.passed /\ row.powerOffApproved = old.powerOffApproved

-----------------------------------------------------------------------------
(* What the engine does to the tables                                      *)

(* An empty row and an idle handler have their types.                      *)
LEMMA LocalType == NoRow \in Plan /\ NoLocal \in Local
<1>1. NoRow \in Plan
  BY DEF NoRow, Plan, PlanStatuses
<1> QED
  BY <1>1, RecordTypes DEF NoLocal, Local, HandlerLabels

(* The engine keeps its invariant.                                         *)
LEMMA OfEngineInv == ASSUME EngineInv, OfEngine PROVE EngineInv'
<1> QED
  BY PrologueInv, SaveStepsInv, PlatformInv, DisturbanceInv DEF OfEngine, EngineStep

(* The engine never takes an audit event back, and the only plan it writes *)
(* is the value its holder read, with a VM id.                             *)
LEMMA EngineTables ==
  ASSUME EngineInv, OfEngine
  PROVE  /\ audit \subseteq audit'
         /\ \/ UNCHANGED plans
            \/ /\ owner \in Requests /\ Current \in Plans
               /\ plans' = [plans EXCEPT ![Current] = Snapshot]
               /\ UNCHANGED jobs
<1>1. CASE \/ \E r \in Requests, p \in Plans : Execute(r, p)
           \/ \E r \in Requests : Lock(r)
           \/ \E v \in Sources : SourceStarted(v)
           \/ Crash
  BY <1>1 DEF Execute, Lock, SourceStarted, Crash, durable
<1>2. CASE AuditStart \/ AuditFail \/ AuditWait
  BY <1>2 DEF AuditStart, AuditFail, AuditWait, AuditThen
<1>3. CASE SavePlan
  BY <1>3 DEF SavePlan, At, EngineInv, TypeOK, HolderOK
<1>4. CASE \/ Load \/ Create \/ Start
           \/ SkipStep \/ BeginStep \/ CompleteStep \/ Fail \/ EvidenceSaved \/ Finish
  BY <1>4 DEF Load, Create, Start, SkipStep, BeginStep, CompleteStep, Fail,
     EvidenceSaved, Finish, SaveThen, durable
<1>5. CASE \/ ReadPower \/ PowerOff \/ VerifyPower
           \/ ReserveVMID \/ CreateVM \/ MakeWorkspace
           \/ ExportDisk \/ ConvertDisk \/ AttachDisk
           \/ IsolateNetwork \/ StartVM
  BY <1>5 DEF ReadPower, PowerOff, VerifyPower, ReserveVMID, CreateVM,
     MakeWorkspace, ExportDisk, ConvertDisk, AttachDisk, IsolateNetwork, StartVM, durable
<1> QED
  BY <1>1, <1>2, <1>3, <1>4, <1>5 DEF OfEngine, EngineStep

(* A stored job stays stored, and the engine registers one only while its  *)
(* plan is in the table.                                                   *)
LEMMA EngineJobs ==
  ASSUME EngineInv, OfEngine, NEW p \in Plans
  PROVE  /\ jobs[p].state # "absent" => jobs'[p].state # "absent"
         /\ jobs[p].state = "absent" /\ jobs'[p].state # "absent" =>
              InTable(p) /\ UNCHANGED plans
<1>1. CASE UNCHANGED jobs
  BY <1>1
<1>2. CASE Create \/ Start \/ BeginStep \/ CompleteStep \/ Fail \/ EvidenceSaved \/ Finish
  <2>1. Current \in Plans /\ job \in Job /\ jobs \in [Plans -> Job]
    BY <1>2
    DEF At, Create, Start, BeginStep, CompleteStep, Fail, EvidenceSaved, Finish,
        EngineInv, HolderOK, TypeOK
  <2>2. UNCHANGED plans
    BY <1>2 DEF Create, Start, BeginStep, CompleteStep, Fail, EvidenceSaved, Finish,
       SaveThen, durable
  <2>3. CASE Create
    <3>1. UNCHANGED jobs \/ (InTable(Current) /\ jobs' = [jobs EXCEPT ![Current] = NewJob])
      BY <2>3 DEF Create, SaveThen, durable
    <3> QED BY <2>1, <2>2, <3>1 DEF NewJob
  <2>4. CASE Start \/ BeginStep \/ CompleteStep \/ Fail \/ EvidenceSaved \/ Finish
    <3>1. job.state # "absent" /\ jobs[Current].state = job.state
      BY <2>4
      DEF Start, BeginStep, CompleteStep, Fail, EvidenceSaved, Finish, At,
          EngineInv, CopyOK, PositionOK, PositionAt, Stepping, InsideStep
    <3>2. /\ \A s \in Steps, v \in StepStates : [job EXCEPT !.steps[s] = v].state = job.state
          /\ \A v \in JobStates : [job EXCEPT !.state = v].state = v
      BY <2>1 DEF Job
    <3>3. UNCHANGED jobs \/ \E j : j.state # "absent" /\ jobs' = [jobs EXCEPT ![Current] = j]
      <4>1. step \in Steps
        BY DEF EngineInv, TypeOK
      <4>2. CASE Start \/ Fail \/ Finish
        BY <3>2, <4>2 DEF Start, Fail, Finish, SaveThen, durable, JobStates
      <4>3. CASE BeginStep
        <5>1. [job EXCEPT !.steps[step] = "running"].state # "absent"
          BY <3>1, <3>2, <4>1 DEF StepStates
        <5> QED BY <4>3, <5>1 DEF BeginStep, SaveThen
      <4>4. CASE CompleteStep
        <5>1. [job EXCEPT !.steps[step] = "succeeded"].state # "absent"
          BY <3>1, <3>2, <4>1 DEF StepStates
        <5> QED BY <4>4, <5>1 DEF CompleteStep, SaveThen
      <4>5. CASE EvidenceSaved
        BY <3>1, <4>5 DEF EvidenceSaved, SaveThen
      <4> QED BY <2>4, <4>2, <4>3, <4>4, <4>5
    <3> QED BY <2>1, <3>1, <3>3
  <2> QED BY <1>2, <2>3, <2>4
<1>3. CASE Next
  BY <1>1, <1>2, <1>3, OthersStutter
<1> QED BY <1>3 DEF OfEngine, Next

(* What an open request holds: nothing afterwards, what it held, what it   *)
(* held with a VM id, or the approved plan it has just read.               *)
LEMMA EngineCalls ==
  ASSUME EngineInv, OfEngine, NEW r \in Requests
  PROVE  \/ calls'[r] = NoCall \/ calls'[r] = calls[r]
         \/ /\ calls[r] # NoCall
            /\ \E i \in Vmids : calls'[r] = [calls[r] EXCEPT !.snapshot.vmid = i]
         \/ \E p \in Plans : /\ calls'[r] = [plan |-> p, snapshot |-> plans[p]]
                             /\ plans[p].status = "approved"
                             /\ UNCHANGED <<plans, audit>>
<1>1. calls \in [Requests -> Call]
  BY DEF EngineInv, TypeOK
<1>2. ASSUME Return \/ UNCHANGED calls PROVE calls'[r] = NoCall \/ calls'[r] = calls[r]
  BY <1>1, <1>2 DEF Return
<1>3. CASE \E q \in Requests, p \in Plans : Execute(q, p)
  BY <1>1, <1>3 DEF Execute, durable
<1>4. CASE (\E q \in Requests : Lock(q)) \/ (\E v \in Sources : SourceStarted(v)) \/ Crash
  BY <1>1, <1>4 DEF Lock, SourceStarted, Crash
<1>5. CASE ReserveVMID
  <2>1. CASE UNCHANGED calls
    BY <2>1
  <2>2. CASE \E i \in Vmids : calls' = [calls EXCEPT ![owner].snapshot.vmid = i]
    <3>1. calls[owner] # NoCall
      BY <1>5, EngineAssumption DEF ReserveVMID, At, EngineInv, HolderOK, Current, NoCall
    <3> QED BY <1>1, <2>2, <3>1
  <2> QED BY <1>5, <2>1, <2>2 DEF ReserveVMID, Goto
<1>6. CASE \/ Load \/ Create \/ Start \/ AuditStart \/ AuditFail \/ AuditWait
           \/ SkipStep \/ BeginStep \/ CompleteStep \/ Fail \/ EvidenceSaved \/ Finish
  <2>1. Return \/ UNCHANGED calls
    BY <1>6 DEF Load, Create, Start, AuditStart, AuditFail, AuditWait, AuditThen,
       SkipStep, BeginStep, CompleteStep, Fail, EvidenceSaved, Finish, SaveThen, Goto
  <2> QED BY <1>2, <2>1
<1>7. CASE \/ ReadPower \/ PowerOff \/ VerifyPower \/ SavePlan \/ CreateVM \/ MakeWorkspace
           \/ ExportDisk \/ ConvertDisk \/ AttachDisk \/ IsolateNetwork \/ StartVM
  <2>1. UNCHANGED calls
    BY <1>7 DEF ReadPower, PowerOff, VerifyPower, SavePlan, CreateVM, MakeWorkspace,
       ExportDisk, ConvertDisk, AttachDisk, IsolateNetwork, StartVM, Goto, StepFails, NextDisk
  <2> QED BY <2>1
<1> QED BY <1>3, <1>4, <1>5, <1>6, <1>7 DEF OfEngine, EngineStep

-----------------------------------------------------------------------------
(* The invariant                                                           *)

(* A row that is fit for the table stays so: nobody takes an approval out  *)
(* of the audit log, and a VM id does not matter.                          *)
LEMMA RowStays ==
  ASSUME NEW p, NEW row, RowOK(p, row), audit \subseteq audit'
  PROVE  RowOK(p, row)'
BY DEF RowOK

LEMMA RowWithVmid ==
  ASSUME NEW p, NEW row \in Plan, RowOK(p, row), NEW i \in Vmids
  PROVE  RowOK(p, [row EXCEPT !.vmid = i])
BY DEF RowOK, Plan

(* Initially there are no plans.                                           *)
LEMMA ApiInitInv == ApiInit => ApiInv
<1> SUFFICES ASSUME ApiInit PROVE ApiInv
  OBVIOUS
<1>1. TypeOK
  <2>1. DiskCount \in Nat /\ DiskCount >= 1
    BY EngineAssumption
  <2>2. plans \in [Plans -> Plan]
    BY LocalType DEF ApiInit
  <2>3. InitEngine
    BY DEF ApiInit
  <2> QED
    BY <2>1, <2>2, <2>3, RecordTypes
    DEF InitEngine, TypeOK, ExportStates, OutputStates, Labels, Steps, Disks, SourcePoweroff
<1>2. /\ \A p \in Plans : jobs[p] = NoJob /\ plans[p] = NoRow
      /\ \A r \in Requests : calls[r] = NoCall
      /\ \A h \in Handlers : handlers[h] = NoLocal
  BY DEF ApiInit, InitEngine
<1>3. NoJob.state = "absent" /\ \A s \in Steps : NoJob.steps[s] = "pending"
  BY DEF NoJob, AllPending
<1>4. HolderOK /\ CopyOK
  BY DEF ApiInit, InitEngine, HolderOK, CopyOK
<1>5. PositionOK
  BY <1>3 DEF ApiInit, InitEngine, PositionOK, PositionAt, OrderOK, BeforeSteps, Stepping, InsideStep
<1>6. StoredOK /\ StepsFollowOrder /\ WaitingIsComplete
  BY <1>2, <1>3 DEF StoredOK, StepsFollowOrder, WaitingIsComplete, Succeeded
<1>7. ApiTypeOK
  BY <1>1, LocalType DEF ApiInit, ApiTypeOK
<1>8. \A p \in Plans : RowOK(p, plans[p])
  BY <1>2 DEF RowOK, NoRow
<1>9. \A r \in Requests : SnapshotOK(r)
  BY <1>2 DEF SnapshotOK
<1>10. \A h \in Handlers : HandlerOK(h)
  BY <1>2 DEF HandlerOK, HandlerAt, NoLocal
<1>11. JobsKeepTheirPlan
  BY <1>2, <1>3 DEF JobsKeepTheirPlan
<1> QED
  BY <1>1, <1>4, <1>5, <1>6, <1>7, <1>8, <1>9, <1>10, <1>11 DEF ApiInv, EngineInv

(* A handler that does not move keeps what it knows: rows stay fit and     *)
(* stored jobs stay stored.                                                *)
LEMMA HandlerFrame ==
  ASSUME NEW h \in Handlers, HandlerOK(h), handlers'[h] = handlers[h],
         audit \subseteq audit',
         \A p \in Plans : jobs[p].state # "absent" => jobs'[p].state # "absent"
  PROVE  HandlerOK(h)'
BY DEF HandlerOK, HandlerAt, PlanOf, RowOf, RowOK

(* A step of the engine, with no handler moving.                           *)
LEMMA EngineKeepsApi ==
  ASSUME ApiInv, OfEngine,
         \A h \in Handlers : handlers'[h] \in {handlers[h], NoLocal},
         handlers' \in [Handlers -> Local]
  PROVE  ApiInv'
<1>1. EngineInv' /\ ApiTypeOK'
  BY OfEngineInv DEF ApiInv, ApiTypeOK, EngineInv
<1>2. audit \subseteq audit'
  BY EngineTables DEF ApiInv
<1>3. \A p \in Plans : RowOK(p, plans[p])'
  <2> SUFFICES ASSUME NEW p \in Plans PROVE RowOK(p, plans[p])'
    OBVIOUS
  <2>1. CASE UNCHANGED plans
    BY <1>2, <2>1 DEF ApiInv, RowOK
  <2>2. CASE /\ owner \in Requests /\ Current \in Plans
             /\ plans' = [plans EXCEPT ![Current] = Snapshot]
    <3>1. calls[owner] # NoCall /\ RowOK(Current, Snapshot)
      BY <2>2, EngineAssumption DEF ApiInv, SnapshotOK, Current, Snapshot, NoCall
    <3>2. plans'[p] = IF p = Current THEN Snapshot ELSE plans[p]
      BY <2>2 DEF ApiInv, EngineInv, TypeOK
    <3> QED
      BY <1>2, <3>1, <3>2 DEF ApiInv, RowOK
  <2> QED BY <2>1, <2>2, EngineTables DEF ApiInv
<1>4. \A r \in Requests : SnapshotOK(r)'
  <2> SUFFICES ASSUME NEW r \in Requests PROVE SnapshotOK(r)'
    OBVIOUS
  <2>1. SnapshotOK(r) /\ calls[r] \in Call /\ EngineInv
    BY DEF ApiInv, EngineInv, TypeOK
  <2>2. CASE calls'[r] = NoCall
    BY <2>2 DEF SnapshotOK
  <2>3. CASE calls'[r] = calls[r]
    BY <1>2, <2>1, <2>3 DEF SnapshotOK, RowOK
  <2>4. ASSUME calls[r] # NoCall,
               NEW i \in Vmids, calls'[r] = [calls[r] EXCEPT !.snapshot.vmid = i]
        PROVE  SnapshotOK(r)'
    <3>1. /\ calls'[r].plan = calls[r].plan
          /\ calls'[r].snapshot = [calls[r].snapshot EXCEPT !.vmid = i]
      BY <2>1, <2>4 DEF Call, Plan
    <3>2. /\ calls[r].plan \in Plans /\ calls[r].snapshot \in Plan
          /\ calls[r].snapshot.status = "approved"
          /\ RowOK(calls[r].plan, calls[r].snapshot)
      BY <2>1, <2>4 DEF SnapshotOK, Call
    <3>3. RowOK(calls[r].plan, calls'[r].snapshot) /\ calls'[r].snapshot.status = "approved"
      BY <3>1, <3>2, RowWithVmid DEF Plan
    <3> QED
      BY <1>2, <3>1, <3>2, <3>3 DEF SnapshotOK, RowOK
  <2>5. ASSUME NEW p \in Plans, calls'[r] = [plan |-> p, snapshot |-> plans[p]],
               plans[p].status = "approved", UNCHANGED audit
        PROVE  SnapshotOK(r)'
    BY <2>5 DEF SnapshotOK, RowOK, ApiInv
  <2> QED BY <2>1, <2>2, <2>3, <2>4, <2>5, EngineCalls
<1>5. \A p \in Plans : jobs[p].state # "absent" => jobs'[p].state # "absent"
  BY EngineJobs DEF ApiInv
<1>6. \A h \in Handlers : HandlerOK(h)'
  <2> SUFFICES ASSUME NEW h \in Handlers PROVE HandlerOK(h)'
    OBVIOUS
  <2>1. CASE handlers'[h] = NoLocal
    BY <2>1 DEF HandlerOK, HandlerAt, NoLocal
  <2>2. CASE handlers'[h] = handlers[h]
    BY <1>2, <1>5, <2>2, HandlerFrame DEF ApiInv
  <2> QED BY <2>1, <2>2
<1>7. JobsKeepTheirPlan'
  <2> SUFFICES ASSUME NEW p \in Plans, jobs'[p].state # "absent" PROVE InTable(p)'
    BY DEF JobsKeepTheirPlan
  <2>1. CASE UNCHANGED plans
    <3>1. InTable(p)
      BY EngineJobs DEF ApiInv, JobsKeepTheirPlan
    <3> QED BY <2>1, <3>1 DEF InTable
  <2>2. CASE /\ owner \in Requests /\ Current \in Plans /\ UNCHANGED jobs
             /\ plans' = [plans EXCEPT ![Current] = Snapshot]
    <3>1. Snapshot.status = "approved"
      BY <2>2, EngineAssumption DEF ApiInv, SnapshotOK, Current, Snapshot, NoCall
    <3>2. plans'[p] = IF p = Current THEN Snapshot ELSE plans[p]
      BY <2>2 DEF ApiInv, EngineInv, TypeOK
    <3> QED
      BY <2>2, <3>1, <3>2 DEF ApiInv, JobsKeepTheirPlan, InTable
  <2> QED BY <2>1, <2>2, EngineTables DEF ApiInv
<1> QED
  BY <1>1, <1>3, <1>4, <1>6, <1>7 DEF ApiInv

(* A step of a handler that leaves the engine alone but for the rows of    *)
(* the plan table, the audit log and the VMs.                              *)
LEMMA EngineAside ==
  ASSUME ApiInv, plans' \in [Plans -> Plan], audit' \subseteq AuditEvents,
         vms' \in [Vmids -> VM],
         UNCHANGED <<jobs, power, exports, converted, calls, owner, pc, step, disk, job>>
  PROVE  EngineInv'
<1>1. TypeOK'
  BY DEF ApiInv, EngineInv, TypeOK
<1>2. HolderOK' /\ CopyOK' /\ PositionOK'
  BY DEF ApiInv, EngineInv, HolderOK, CopyOK, PositionOK, Current, Succeeded
<1>3. StoredOK' /\ StepsFollowOrder' /\ WaitingIsComplete'
  BY DEF ApiInv, EngineInv, StoredOK, StepsFollowOrder, WaitingIsComplete, Succeeded
<1> QED BY <1>1, <1>2, <1>3 DEF EngineInv

(* One row of the plan table is written, and at most one handler moves.    *)
LEMMA RowKeepsApi ==
  ASSUME ApiInv, NEW p \in Plans, NEW row \in Plan, PutPlan(p, row),
         audit \subseteq audit', audit' \subseteq AuditEvents,
         RowOK(p, row)', jobs[p].state # "absent" => Present(row),
         handlers' \in [Handlers -> Local], NEW h,
         \A k \in Handlers \ {h} : handlers'[k] = handlers[k],
         h \in Handlers => HandlerOK(h)',
         UNCHANGED <<jobs, vms, power, exports, converted, calls, owner, pc, step, disk, job>>
  PROVE  ApiInv'
<1>1. plans' \in [Plans -> Plan] /\ \A q \in Plans : plans'[q] = IF q = p THEN row ELSE plans[q]
  BY DEF PutPlan, ApiInv, EngineInv, TypeOK
<1>2. EngineInv'
  BY <1>1, EngineAside DEF ApiInv, EngineInv, TypeOK
<1>3. ApiTypeOK'
  BY <1>2 DEF ApiTypeOK, EngineInv
<1>4. \A q \in Plans : RowOK(q, plans[q])'
  BY <1>1 DEF ApiInv, RowOK
<1>5. \A r \in Requests : SnapshotOK(r)'
  BY DEF ApiInv, SnapshotOK, RowOK
<1>6. \A k \in Handlers : HandlerOK(k)'
  BY HandlerFrame DEF ApiInv
<1>7. JobsKeepTheirPlan'
  BY <1>1 DEF ApiInv, JobsKeepTheirPlan, InTable, Present
<1> QED BY <1>2, <1>3, <1>4, <1>5, <1>6, <1>7 DEF ApiInv

(* A handler that writes no table: it reads one, talks to the platform or  *)
(* ends.                                                                   *)
LEMMA MoveKeepsApi ==
  ASSUME ApiInv, NEW h \in Handlers, NEW local \in Local,
         handlers' = [handlers EXCEPT ![h] = local],
         HandlerOK(h)', vms' \in [Vmids -> VM],
         UNCHANGED <<plans, jobs, audit, power, exports, converted, calls, owner, pc,
                     step, disk, job>>
  PROVE  ApiInv'
<1>1. EngineInv'
  BY EngineAside DEF ApiInv, EngineInv, TypeOK
<1>2. /\ handlers' \in [Handlers -> Local]
      /\ \A k \in Handlers \ {h} : handlers'[k] = handlers[k]
  BY DEF ApiInv, ApiTypeOK
<1>3. ApiTypeOK'
  BY <1>1, <1>2 DEF ApiTypeOK, EngineInv
<1>4. \A q \in Plans : RowOK(q, plans[q])'
  BY DEF ApiInv, RowOK
<1>5. \A r \in Requests : SnapshotOK(r)'
  BY DEF ApiInv, SnapshotOK, RowOK
<1>6. \A k \in Handlers : HandlerOK(k)'
  BY <1>2, HandlerFrame DEF ApiInv
<1>7. JobsKeepTheirPlan'
  BY DEF ApiInv, JobsKeepTheirPlan, InTable
<1> QED BY <1>1, <1>3, <1>4, <1>5, <1>6, <1>7 DEF ApiInv

(* The handler answers: it holds nothing any more.                         *)
LEMMA AnswerOK ==
  ASSUME ApiInv, NEW h \in Handlers, Answer(h)
  PROVE  /\ handlers' \in [Handlers -> Local] /\ HandlerOK(h)'
         /\ \A k \in Handlers \ {h} : handlers'[k] = handlers[k]
<1>1. handlers'[h] = NoLocal
  BY DEF Answer, ApiInv, ApiTypeOK
<1> QED
  BY <1>1, LocalType DEF Answer, ApiInv, ApiTypeOK, HandlerOK, HandlerAt, NoLocal

(* Create, preflight, approve and delete.                                  *)
LEMMA PlanHandlersInv ==
  ASSUME ApiInv,
         \/ \E p \in Plans : CreatePlan(p)
         \/ \E p \in Plans, powerOff \in BOOLEAN : ApprovePlan(p, powerOff)
         \/ \E h \in Handlers : MapDisks(h) \/ FinishPreflight(h) \/ DeletePlan(h)
  PROVE  ApiInv'
<1>1. /\ \A p \in Plans : plans[p] \in Plan /\ RowOK(p, plans[p])
      /\ \A h \in Handlers : handlers[h] \in Local /\ HandlerOK(h)
      /\ audit \subseteq AuditEvents /\ plans \in [Plans -> Plan]
      /\ handlers \in [Handlers -> Local]
  BY DEF ApiInv, EngineInv, TypeOK, ApiTypeOK
<1>2. ASSUME NEW p \in Plans, CreatePlan(p) PROVE ApiInv'
  <2>1. PICK maps \in MapsSent :
          PutPlan(p, [NoRow EXCEPT !.status = "draft", !.maps = maps])
    BY <1>2 DEF CreatePlan
  <2> DEFINE row == [NoRow EXCEPT !.status = "draft", !.maps = maps]
  <2>2. row \in Plan /\ row.status = "draft" /\ ~row.powerOffApproved
    BY MapsAssumption DEF NoRow, Plan, PlanStatuses
  <2>3. PutPlan(p, row)
    BY <2>1
  <2> HIDE DEF row
  <2>4. RowOK(p, row)' /\ Present(row)
    BY <2>2 DEF RowOK, Present
  <2>5. UNCHANGED <<jobs, audit, vms, power, exports, converted, calls, owner, pc,
                    step, disk, job, handlers>>
    BY <1>2 DEF CreatePlan, platform, execution
  <2>6. \A h \in Handlers : HandlerOK(h)'
    BY <1>1, <2>5, HandlerFrame
  <2> QED BY <1>1, <2>2, <2>3, <2>4, <2>5, <2>6, RowKeepsApi
<1>3. ASSUME NEW p \in Plans, NEW powerOff \in BOOLEAN, ApprovePlan(p, powerOff)
      PROVE  ApiInv'
  <2>1. PICK row \in Plan :
          row = [plans[p] EXCEPT !.status = "approved", !.powerOffApproved = powerOff]
    BY <1>1 DEF Plan, PlanStatuses
  <2>2. /\ row.status = "approved"
        /\ row.passed = plans[p].passed /\ row.powerOffApproved = powerOff
    BY <1>1, <2>1 DEF Plan
  <2>3. PutPlan(p, row)
    BY <1>1, <1>3, <2>1 DEF ApprovePlan, PutPlan
  <2>4. /\ plans[p].status = "preflight" /\ plans[p].passed
        /\ audit' = audit \cup ApprovalEvents(p, powerOff)
        /\ UNCHANGED <<jobs, vms, power, exports, converted, calls, owner, pc,
                       step, disk, job, handlers>>
    BY <1>3 DEF ApprovePlan, platform, execution
  <2>5. /\ ApprovalEvents(p, powerOff) \subseteq AuditEvents
        /\ <<"approve", p>> \in audit'
        /\ powerOff => <<"approve_power_off", p>> \in audit'
    BY <2>4 DEF ApprovalEvents, AuditEvents, AuditActions
  <2>6. RowOK(p, row)' /\ Present(row)
    BY <1>1, <2>2, <2>4, <2>5 DEF RowOK, Present
  <2>7. \A h \in Handlers : HandlerOK(h)'
    BY <1>1, <2>4, HandlerFrame
  <2> QED BY <1>1, <2>3, <2>4, <2>5, <2>6, <2>7, RowKeepsApi
<1>4. ASSUME NEW h \in Handlers, MapDisks(h) PROVE ApiInv'
  <2>1. /\ RowOf(h) \in Plan /\ PlanOf(h) \in Plans
        /\ Present(RowOf(h)) /\ RowOK(PlanOf(h), RowOf(h))
    BY <1>1, <1>4 DEF MapDisks, HandlerOK, HandlerAt, Local, RowOf, Present
  <2>2. PICK p \in Plans, found \in {"none", "all"}, row \in Plan :
          /\ p = PlanOf(h) /\ row = [RowOf(h) EXCEPT !.maps = found]
          /\ PutPlan(p, row)
          /\ handlers' = [handlers EXCEPT ![h].at = "mapped", ![h].row = row]
    BY <1>4, <2>1 DEF MapDisks, Plan
  <2>3. row.status = RowOf(h).status /\ UnchangedVerdict(row, RowOf(h))
    BY <2>1, <2>2 DEF Plan, UnchangedVerdict
  <2>4. PICK local \in Local : local = [handlers[h] EXCEPT !.at = "mapped", !.row = row]
    BY <1>1, <2>1 DEF Local, HandlerLabels
  <2>5. local.at = "mapped" /\ local.plan = p /\ local.row = row
    BY <1>1, <2>2, <2>4 DEF Local, PlanOf
  <2>6. /\ PutPlan(p, row)
        /\ handlers' = [handlers EXCEPT ![h] = local]
    BY <1>1, <2>2, <2>4 DEF Local
  <2>7. UNCHANGED <<jobs, audit, vms, power, exports, converted, calls, owner, pc,
                    step, disk, job>>
    BY <1>4 DEF MapDisks, platform, execution
  <2>8. RowOK(p, row)' /\ Present(row)
    BY <2>1, <2>2, <2>3, <2>7 DEF RowOK, Present, UnchangedVerdict
  <2>9. /\ handlers'[h] = local /\ handlers' \in [Handlers -> Local]
        /\ \A k \in Handlers \ {h} : handlers'[k] = handlers[k]
    BY <1>1, <2>6
  <2>10. HandlerOK(h)'
    BY <2>5, <2>8, <2>9 DEF HandlerOK, HandlerAt, PlanOf, RowOf, Present
  <2> QED BY <1>1, <2>6, <2>7, <2>8, <2>9, <2>10, RowKeepsApi
<1>5. ASSUME NEW h \in Handlers, FinishPreflight(h) PROVE ApiInv'
  <2>1. /\ RowOf(h) \in Plan /\ PlanOf(h) \in Plans /\ RowOK(PlanOf(h), RowOf(h))
    BY <1>1, <1>5 DEF FinishPreflight, HandlerOK, HandlerAt, Local, RowOf
  <2>2. PICK pass \in BOOLEAN :
          PutPlan(PlanOf(h), [RowOf(h) EXCEPT !.status = "preflight", !.passed = pass])
    BY <1>5 DEF FinishPreflight
  <2>3. PICK p \in Plans, row \in Plan :
          /\ p = PlanOf(h)
          /\ row = [RowOf(h) EXCEPT !.status = "preflight", !.passed = pass]
    BY <2>1 DEF Plan, PlanStatuses
  <2>4. row.status = "preflight" /\ row.powerOffApproved = RowOf(h).powerOffApproved
    BY <2>1, <2>3 DEF Plan
  <2>5. PutPlan(p, row)
    BY <2>2, <2>3
  <2>6. UNCHANGED <<jobs, audit, vms, power, exports, converted, calls, owner, pc,
                    step, disk, job>>
    BY <1>5 DEF FinishPreflight, platform, execution
  <2>7. RowOK(p, row)' /\ Present(row)
    BY <2>1, <2>3, <2>4, <2>6 DEF RowOK, Present
  <2>8. Answer(h)
    BY <1>5 DEF FinishPreflight
  <2> QED BY <1>1, <2>5, <2>6, <2>7, <2>8, AnswerOK, RowKeepsApi
<1>6. ASSUME NEW h \in Handlers, DeletePlan(h) PROVE ApiInv'
  <2>1. PlanOf(h) \in Plans /\ Answer(h)
    BY <1>1, <1>6 DEF DeletePlan, HandlerOK, HandlerAt
  <2>2. UNCHANGED <<jobs, audit, vms, power, exports, converted, calls, owner, pc,
                    step, disk, job>>
    BY <1>6 DEF DeletePlan, platform, execution
  <2>3. CASE jobs[PlanOf(h)].state = "absent"
             /\ PutPlan(PlanOf(h), [NoRow EXCEPT !.status = "deleted"])
    <3>1. PICK p \in Plans, row \in Plan :
            p = PlanOf(h) /\ row = [NoRow EXCEPT !.status = "deleted"]
      BY <2>1 DEF NoRow, Plan, PlanStatuses
    <3>2. RowOK(p, row)'
      BY <3>1 DEF RowOK, NoRow
    <3> QED BY <1>1, <2>1, <2>2, <2>3, <3>1, <3>2, AnswerOK, RowKeepsApi
  <2>4. CASE UNCHANGED plans
    BY <1>1, <2>1, <2>2, <2>4, LocalType, AnswerOK, MoveKeepsApi
    DEF Answer, ApiInv, EngineInv, TypeOK
  <2> QED BY <1>6, <2>3, <2>4 DEF DeletePlan
<1> QED BY <1>2, <1>3, <1>4, <1>5, <1>6

(* Rollback, the reads of the other handlers, and handlers that give up.   *)
LEMMA OtherHandlersInv ==
  ASSUME ApiInv, NEW h \in Handlers,
         \/ \E p \in Plans : ReadForPreflight(h, p) \/ ReadForDelete(h, p) \/ ReadForRollback(h, p)
         \/ ReadRollbackPlan(h) \/ IsolateTarget(h) \/ StopTarget(h) \/ CheckSource(h)
         \/ Abandon(h)
  PROVE  ApiInv'
<1>1. /\ \A p \in Plans : plans[p] \in Plan /\ RowOK(p, plans[p]) /\ jobs[p] \in Job
      /\ handlers[h] \in Local /\ HandlerOK(h) /\ vms \in [Vmids -> VM]
      /\ handlers \in [Handlers -> Local]
  BY DEF ApiInv, EngineInv, TypeOK, ApiTypeOK
<1>2. ASSUME NEW local \in Local, handlers' = [handlers EXCEPT ![h] = local],
             HandlerOK(h)', UNCHANGED vars
      PROVE  ApiInv'
  BY <1>1, <1>2, MoveKeepsApi DEF vars
<1>3. ASSUME NEW p \in Plans, ReadForPreflight(h, p) PROVE ApiInv'
  <2>1. PICK local \in Local :
          local = [NoLocal EXCEPT !.at = "checks", !.plan = p, !.row = plans[p]]
    BY <1>1, LocalType DEF Local, HandlerLabels
  <2>2. local.at = "checks" /\ local.plan = p /\ local.row = plans[p]
    BY <2>1 DEF NoLocal
  <2>3. handlers' = [handlers EXCEPT ![h] = local] /\ UNCHANGED vars /\ InTable(p)
    BY <1>3, <2>1 DEF ReadForPreflight
  <2>4. handlers'[h] = local /\ UNCHANGED <<audit, plans>>
    BY <1>1, <2>3 DEF vars
  <2>5. HandlerOK(h)'
    BY <1>1, <2>2, <2>3, <2>4 DEF HandlerOK, HandlerAt, PlanOf, RowOf, RowOK, InTable
  <2> QED BY <1>2, <2>3, <2>5
<1>4. ASSUME NEW p \in Plans, ReadForDelete(h, p) PROVE ApiInv'
  <2>1. PICK local \in Local : local = [NoLocal EXCEPT !.at = "delete", !.plan = p]
    BY LocalType DEF Local, HandlerLabels
  <2>2. local.at = "delete" /\ local.plan = p
    BY <2>1 DEF NoLocal
  <2>3. handlers' = [handlers EXCEPT ![h] = local] /\ UNCHANGED vars
    BY <1>4, <2>1 DEF ReadForDelete
  <2>4. handlers'[h] = local
    BY <1>1, <2>3
  <2>5. HandlerOK(h)'
    BY <2>2, <2>4 DEF HandlerOK, HandlerAt, PlanOf
  <2> QED BY <1>2, <2>3, <2>5
<1>5. ASSUME NEW p \in Plans, ReadForRollback(h, p) PROVE ApiInv'
  <2>1. PICK local \in Local :
          local = [NoLocal EXCEPT !.at = "rollback", !.plan = p, !.job = jobs[p]]
    BY <1>1, LocalType DEF Local, HandlerLabels
  <2>2. local.at = "rollback" /\ local.plan = p /\ local.job = jobs[p]
    BY <2>1 DEF NoLocal
  <2>3. /\ handlers' = [handlers EXCEPT ![h] = local] /\ UNCHANGED vars
        /\ jobs[p].state # "absent"
    BY <1>5, <2>1 DEF ReadForRollback
  <2>4. handlers'[h] = local /\ UNCHANGED jobs
    BY <1>1, <2>3 DEF vars
  <2>5. OrderOK(jobs[p])
    BY DEF ApiInv, EngineInv, StepsFollowOrder, Succeeded, OrderOK
  <2>6. HandlerOK(h)'
    BY <2>2, <2>3, <2>4, <2>5 DEF HandlerOK, HandlerAt, PlanOf, OrderOK
  <2> QED BY <1>2, <2>3, <2>6
<1>6. CASE \/ ReadRollbackPlan(h) \/ IsolateTarget(h) \/ StopTarget(h) \/ CheckSource(h)
           \/ Abandon(h)
  <2>1. UNCHANGED <<plans, jobs, audit, power, exports, converted, calls, owner, pc,
                    step, disk, job>>
    BY <1>6 DEF ReadRollbackPlan, IsolateTarget, StopTarget, CheckSource, Abandon,
       vars, durable, execution
  <2>2. vms' \in [Vmids -> VM]
    <3>1. ASSUME NEW vm \in VM
          PROVE  [vm EXCEPT !.net = "isolated"] \in VM /\ [vm EXCEPT !.on = FALSE] \in VM
      BY DEF VM
    <3>2. CASE IsolateTarget(h) \/ StopTarget(h)
      BY <1>1, <3>1, <3>2 DEF IsolateTarget, StopTarget
    <3>3. CASE ReadRollbackPlan(h) \/ CheckSource(h) \/ Abandon(h)
      BY <1>1, <3>3 DEF ReadRollbackPlan, CheckSource, Abandon, vars
    <3> QED BY <1>6, <3>2, <3>3
  <2>3. CASE Answer(h)
    BY <1>1, <2>1, <2>2, <2>3, LocalType, AnswerOK, MoveKeepsApi DEF Answer
  <2>4. ASSUME handlers[h].at \in {"rollback", "isolate", "stop", "source"},
               NEW label \in {"isolate", "stop", "source", "save"}, NEW row \in Plan,
               handlers' = [handlers EXCEPT ![h].at = label, ![h].row = row]
        PROVE  ApiInv'
    <3>1. PICK local \in Local : local = [handlers[h] EXCEPT !.at = label, !.row = row]
      BY <1>1 DEF Local, HandlerLabels
    <3>2. /\ local.at = label /\ local.plan = PlanOf(h) /\ local.job = handlers[h].job
          /\ handlers' = [handlers EXCEPT ![h] = local]
      BY <1>1, <2>4, <3>1 DEF Local, PlanOf
    <3>3. handlers'[h] = local
      BY <1>1, <3>2
    <3>4. /\ PlanOf(h) \in Plans /\ OrderOK(handlers[h].job)
          /\ jobs[PlanOf(h)].state # "absent"
      BY <1>1, <2>4 DEF HandlerOK, HandlerAt
    <3>5. HandlerOK(h)'
      BY <2>1, <3>2, <3>3, <3>4 DEF HandlerOK, HandlerAt, PlanOf, OrderOK
    <3> QED BY <2>1, <2>2, <3>2, <3>5, MoveKeepsApi
  <2>5. ASSUME NEW label, Step(h, label)
        PROVE  handlers' = [handlers EXCEPT ![h].at = label, ![h].row = handlers[h].row]
    BY <1>1, <2>5 DEF Step, Local
  <2>6. handlers[h].row \in Plan
    BY <1>1 DEF Local
  <2>7. CASE ReadRollbackPlan(h)
    <3>1. PlanOf(h) \in Plans
      BY <1>1, <2>7 DEF ReadRollbackPlan, HandlerOK, HandlerAt
    <3> QED
      BY <1>1, <2>4, <2>7, <3>1 DEF ReadRollbackPlan, HandlerAt
  <2>8. CASE IsolateTarget(h) \/ StopTarget(h) \/ CheckSource(h)
    BY <2>3, <2>4, <2>5, <2>6, <2>8 DEF IsolateTarget, StopTarget, CheckSource, HandlerAt
  <2>9. CASE Abandon(h)
    BY <2>3, <2>9 DEF Abandon
  <2> QED BY <1>6, <2>7, <2>8, <2>9
<1> QED BY <1>3, <1>4, <1>5, <1>6

(* The save of a rollback: the job was stored before and is stored now, and *)
(* its steps are in order; nobody executes while it is written.            *)
LEMMA SaveRollbackInv ==
  ASSUME ApiInv, NEW h \in Handlers, SaveRollback(h)
  PROVE  ApiInv'
<1>1. /\ PlanOf(h) \in Plans /\ handlers[h].job \in Job /\ OrderOK(handlers[h].job)
      /\ jobs[PlanOf(h)].state # "absent"
  BY DEF SaveRollback, ApiInv, ApiTypeOK, Local, HandlerOK, HandlerAt
<1>2. PICK p \in Plans, j \in Job :
        p = PlanOf(h) /\ j = [handlers[h].job EXCEPT !.state = "rollback_prepared"]
  BY <1>1 DEF Job, JobStates
<1>3. j.state = "rollback_prepared" /\ j.steps = handlers[h].job.steps
  BY <1>1, <1>2 DEF Job
<1>4. jobs' = [jobs EXCEPT ![p] = j]
  BY <1>2 DEF SaveRollback
<1>5. jobs' \in [Plans -> Job] /\ \A q \in Plans : jobs'[q] = IF q = p THEN j ELSE jobs[q]
  BY <1>4 DEF ApiInv, EngineInv, TypeOK
<1>6. /\ UNCHANGED <<plans, audit, power, exports, converted, vms, calls, owner, pc,
                     step, disk, job>>
      /\ owner = NoRequest /\ Answer(h)
  BY DEF SaveRollback, platform, execution
<1>7. TypeOK'
  BY <1>5, <1>6 DEF ApiInv, EngineInv, TypeOK
<1>8. HolderOK' /\ CopyOK' /\ PositionOK'
  BY <1>6 DEF ApiInv, EngineInv, HolderOK, CopyOK, PositionOK, Current
<1>9. StoredOK' /\ WaitingIsComplete'
  BY <1>3, <1>5 DEF ApiInv, EngineInv, StoredOK, WaitingIsComplete, Succeeded
<1>10. StepsFollowOrder'
  BY <1>1, <1>3, <1>5 DEF ApiInv, EngineInv, StepsFollowOrder, Succeeded, OrderOK
<1>11. ApiTypeOK'
  BY <1>6, <1>7, AnswerOK DEF ApiTypeOK
<1>12. \A q \in Plans : RowOK(q, plans[q])'
  BY <1>6 DEF ApiInv, RowOK
<1>13. \A r \in Requests : SnapshotOK(r)'
  BY <1>6 DEF ApiInv, SnapshotOK, RowOK
<1>14. \A q \in Plans : jobs[q].state # "absent" => jobs'[q].state # "absent"
  BY <1>3, <1>5
<1>15. \A k \in Handlers : HandlerOK(k)'
  BY <1>6, <1>14, AnswerOK, HandlerFrame DEF ApiInv
<1>16. JobsKeepTheirPlan'
  BY <1>1, <1>2, <1>5, <1>6 DEF ApiInv, JobsKeepTheirPlan, InTable
<1> QED
  BY <1>7, <1>8, <1>9, <1>10, <1>11, <1>12, <1>13, <1>15, <1>16 DEF ApiInv, EngineInv

(* An execution that maps the disks before it queues, or gives up: it      *)
(* writes the row that it holds.                                           *)
LEMMA MapInv ==
  ASSUME ApiInv, NEW r \in Requests, MapForExecution(r) \/ MapFails(r)
  PROVE  ApiInv'
<1>1. /\ calls \in [Requests -> Call] /\ plans \in [Plans -> Plan] /\ SnapshotOK(r)
      /\ calls[r] # NoCall /\ r # owner
      /\ UNCHANGED <<jobs, audit, vms, power, exports, converted, owner, pc, step, disk, job, handlers>>
  BY DEF MapForExecution, MapFails, Unmapped, ApiInv, EngineInv, TypeOK, platform
<1>2. PICK p \in Plans, old \in Plan :
        /\ calls[r] = [plan |-> p, snapshot |-> old]
        /\ old.status = "approved" /\ RowOK(p, old)
  BY <1>1 DEF SnapshotOK, Call
<1>3. PICK found \in {"none", "all"}, row \in Plan :
        /\ row = [old EXCEPT !.maps = found]
        /\ plans' = [plans EXCEPT ![p] = row] \/ UNCHANGED plans
        /\ \/ calls' = [calls EXCEPT ![r] = NoCall]
           \/ calls' = [calls EXCEPT ![r] = [plan |-> p, snapshot |-> row]]
  <2>1. \A found \in {"none", "all"} : [old EXCEPT !.maps = found] \in Plan
    BY DEF Plan
  <2>2. calls[r].plan = p /\ calls[r].snapshot = old
    BY <1>2
  <2>3. CASE MapForExecution(r)
    BY <2>1, <2>2, <2>3 DEF MapForExecution, PutPlan
  <2>4. CASE MapFails(r)
    BY <2>1, <2>2, <2>4 DEF MapFails, PutPlan
  <2> QED BY <2>3, <2>4
<1>4. row.status = "approved" /\ RowOK(p, row)
  BY <1>2, <1>3 DEF Plan, RowOK
<1>5. /\ plans' \in [Plans -> Plan]
      /\ \A q \in Plans : plans'[q] = plans[q] \/ (q = p /\ plans'[q] = row)
  BY <1>1, <1>3
<1>6. /\ calls' \in [Requests -> Call]
      /\ \A q \in Requests : \/ calls'[q] = calls[q] \/ calls'[q] = NoCall
                            \/ calls'[q] = [plan |-> p, snapshot |-> row]
      /\ owner \in Requests => calls'[owner] = calls[owner]
  <2>1. NoCall \in Call /\ [plan |-> p, snapshot |-> row] \in Call
    BY LocalType DEF NoCall, Call
  <2> QED BY <1>1, <1>3, <2>1
<1>7. EngineInv'
  <2>1. TypeOK'
    BY <1>1, <1>5, <1>6 DEF ApiInv, EngineInv, TypeOK
  <2>2. owner \in Requests => Current' = Current
    BY <1>1, <1>6 DEF Current
  <2>3. owner \in Requests \/ (owner = NoRequest /\ pc = "idle")
    BY DEF ApiInv, EngineInv, TypeOK, HolderOK
  <2>4. HolderOK' /\ CopyOK' /\ PositionOK'
    <3>1. CASE owner \in Requests
      BY <1>1, <2>2, <3>1 DEF ApiInv, EngineInv, HolderOK, CopyOK, PositionOK, Succeeded
    <3>2. CASE owner = NoRequest /\ pc = "idle"
      BY <1>1, <3>2 DEF ApiInv, EngineInv, HolderOK, CopyOK, PositionOK
    <3> QED BY <2>3, <3>1, <3>2
  <2>5. StoredOK' /\ StepsFollowOrder' /\ WaitingIsComplete'
    BY <1>1 DEF ApiInv, EngineInv, StoredOK, StepsFollowOrder, WaitingIsComplete, Succeeded
  <2> QED BY <2>1, <2>4, <2>5 DEF EngineInv
<1>8. ApiTypeOK'
  BY <1>1, <1>7 DEF ApiInv, ApiTypeOK, EngineInv
<1>9. \A q \in Plans : RowOK(q, plans[q])'
  BY <1>1, <1>4, <1>5 DEF ApiInv, RowOK
<1>10. \A q \in Requests : SnapshotOK(q)'
  <2> SUFFICES ASSUME NEW q \in Requests PROVE SnapshotOK(q)'
    OBVIOUS
  <2>1. CASE calls'[q] = calls[q]
    BY <1>1, <2>1 DEF ApiInv, SnapshotOK, RowOK
  <2>2. CASE calls'[q] = NoCall
    BY <2>2 DEF SnapshotOK
  <2>3. CASE calls'[q] = [plan |-> p, snapshot |-> row]
    BY <1>1, <1>4, <2>3 DEF SnapshotOK, RowOK
  <2> QED BY <1>6, <2>1, <2>2, <2>3
<1>11. \A h \in Handlers : HandlerOK(h)'
  BY <1>1, HandlerFrame DEF ApiInv
<1>12. JobsKeepTheirPlan'
  BY <1>1, <1>4, <1>5 DEF ApiInv, JobsKeepTheirPlan, InTable
<1> QED BY <1>7, <1>8, <1>9, <1>10, <1>11, <1>12 DEF ApiInv

(* ApiInv is an invariant of the engine and the handlers around it.        *)
THEOREM ApiInvariance == ApiSpec => []ApiInv
<1>1. ApiInv /\ [ApiNext]_apiVars => ApiInv'
  <2> SUFFICES ASSUME ApiInv, [ApiNext]_apiVars PROVE ApiInv'
    OBVIOUS
  <2>1. handlers \in [Handlers -> Local]
    BY DEF ApiInv, ApiTypeOK
  <2>2. CASE UNCHANGED apiVars
    <3>1. EngineInv'
      BY <2>2, EngineAside DEF apiVars, vars, ApiInv, EngineInv, TypeOK
    <3>2. ApiTypeOK'
      BY <2>1, <2>2, <3>1 DEF apiVars, ApiTypeOK, EngineInv
    <3>3. /\ \A p \in Plans : RowOK(p, plans[p])'
          /\ \A r \in Requests : SnapshotOK(r)'
          /\ JobsKeepTheirPlan'
      BY <2>2 DEF apiVars, vars, ApiInv, RowOK, SnapshotOK, JobsKeepTheirPlan, InTable
    <3>4. \A h \in Handlers : HandlerOK(h)'
      BY <2>2, HandlerFrame DEF apiVars, vars, ApiInv
    <3> QED BY <3>1, <3>2, <3>3, <3>4 DEF ApiInv
  <2>3. CASE OfEngine /\ UNCHANGED handlers
    BY <2>1, <2>3, EngineKeepsApi
  <2>4. CASE ApiCrash
    <3>1. handlers' = [h \in Handlers |-> NoLocal]
      BY <2>4 DEF ApiCrash
    <3>2. CASE Crash
      BY <3>1, <3>2, LocalType, EngineKeepsApi DEF OfEngine
    <3>3. CASE UNCHANGED vars
      <4>1. EngineInv'
        BY <3>3, EngineAside DEF vars, ApiInv, EngineInv, TypeOK
      <4>2. ApiTypeOK'
        BY <3>1, <4>1, LocalType DEF ApiTypeOK, EngineInv
      <4>3. /\ \A p \in Plans : RowOK(p, plans[p])'
            /\ \A r \in Requests : SnapshotOK(r)'
            /\ JobsKeepTheirPlan'
        BY <3>3 DEF vars, ApiInv, RowOK, SnapshotOK, JobsKeepTheirPlan, InTable
      <4>4. \A h \in Handlers : HandlerOK(h)'
        BY <3>1 DEF HandlerOK, HandlerAt, NoLocal
      <4> QED BY <4>1, <4>2, <4>3, <4>4 DEF ApiInv
    <3> QED BY <2>4, <3>2, <3>3 DEF ApiCrash
  <2>5. CASE \/ \E p \in Plans : CreatePlan(p)
             \/ \E p \in Plans, powerOff \in BOOLEAN : ApprovePlan(p, powerOff)
    BY <2>5, PlanHandlersInv
  <2>6. ASSUME NEW h \in Handlers, HandlerStep(h) PROVE ApiInv'
    BY <2>6, PlanHandlersInv, OtherHandlersInv, SaveRollbackInv DEF HandlerStep
  <2>7. CASE \E r \in Requests : MapForExecution(r) \/ MapFails(r)
    BY <2>7, MapInv
  <2> QED
    BY <2>2, <2>3, <2>4, <2>5, <2>6, <2>7 DEF ApiNext, OfEngine
<1> QED BY <1>1, ApiInitInv, PTL DEF ApiSpec

(* The power of a source changes from on to off in one place only.         *)
LEMMA OnlyPowerOffStops ==
  ASSUME NEW v \in Sources, [ApiNext]_apiVars, power[v] = "on", power'[v] = "off"
  PROVE  PowerOff
<1>1. CASE UNCHANGED apiVars
  BY <1>1 DEF apiVars, vars
<1>2. CASE EngineStep
  BY <1>2 DEF EngineStep, Load, Create, Start, AuditStart, SkipStep, BeginStep, CompleteStep,
     Fail, AuditFail, ReadPower, VerifyPower, ReserveVMID, SavePlan, CreateVM, MakeWorkspace,
     ExportDisk, ConvertDisk, EvidenceSaved, AttachDisk, IsolateNetwork, StartVM, Finish,
     AuditWait, SaveThen, AuditThen, platform
<1>3. CASE \/ \E r \in Requests, p \in Plans : Execute(r, p)
           \/ \E r \in Requests : Lock(r) \/ MapForExecution(r) \/ MapFails(r)
           \/ \E p \in Plans : CreatePlan(p)
           \/ \E p \in Plans, powerOff \in BOOLEAN : ApprovePlan(p, powerOff)
           \/ ApiCrash
  BY <1>3 DEF Execute, Lock, MapForExecution, MapFails, CreatePlan, ApprovePlan, ApiCrash,
     Crash, platform, vars
<1>4. CASE \E h \in Handlers : HandlerStep(h)
  BY <1>4 DEF HandlerStep, ReadForPreflight, ReadForDelete, ReadForRollback, MapDisks,
     FinishPreflight, DeletePlan, ReadRollbackPlan, IsolateTarget, StopTarget, CheckSource,
     SaveRollback, Abandon, platform, vars
<1>5. CASE \E w \in Sources : SourceStarted(w)
  BY <1>5 DEF SourceStarted
<1> QED BY <1>1, <1>2, <1>3, <1>4, <1>5 DEF ApiNext

(* A source is shut down only for a plan that passed its preflight, after  *)
(* an approval of the shutdown went into the audit log (engine.go,         *)
(* source_poweroff; api/migration.go, approvePlan; with every handler that *)
(* writes whole rows).                                                     *)
THEOREM ShutdownsAreOnRecord == ApiSpec => ShutdownOnRecord
<1>1. ASSUME ApiInv, [ApiNext]_apiVars, NEW v \in Sources, power[v] = "on", power'[v] = "off"
      PROVE  v = Source /\ Snapshot.passed /\ <<"approve_power_off", Current>> \in audit
  <2>1. PowerOff
    BY <1>1, OnlyPowerOffStops
  <2>2. owner \in Requests /\ Current \in Plans
    BY <1>1, <2>1 DEF PowerOff, At, ApiInv, EngineInv, TypeOK, HolderOK
  <2>3. power' = [power EXCEPT ![Source] = "off"] /\ (power[Source] = "on" => Snapshot.powerOffApproved)
    BY <1>1, <2>1 DEF PowerOff
  <2>4. v = Source
    BY <1>1, <2>3 DEF ApiInv, EngineInv, TypeOK
  <2>5. calls[owner] # NoCall
    BY <2>2, EngineAssumption DEF Current, NoCall
  <2>6. Snapshot.status = "approved" /\ RowOK(Current, Snapshot)
    BY <1>1, <2>2, <2>5 DEF ApiInv, SnapshotOK, Current, Snapshot
  <2> QED BY <1>1, <2>3, <2>4, <2>6 DEF RowOK
<1>2. ApiInv /\ [ApiNext]_apiVars =>
        [\A v \in Sources : (power[v] = "on" /\ power'[v] = "off") =>
           /\ v = Source /\ Snapshot.passed
           /\ <<"approve_power_off", Current>> \in audit]_apiVars
  BY <1>1
<1> QED BY <1>2, ApiInvariance, PTL DEF ApiSpec, ShutdownOnRecord

(* A job's plan is in the table, although plans may be deleted             *)
(* (api/migration.go, deletePlan; the foreign key of the job table).       *)
THEOREM PlansOutliveJobs == ApiSpec => []JobsKeepTheirPlan
<1>1. ApiInv => JobsKeepTheirPlan
  BY DEF ApiInv
<1> QED BY <1>1, ApiInvariance, PTL

(* The handlers never break the order of a job's steps: the job that a     *)
(* rollback read and writes back is in order, however old it is.           *)
THEOREM OrderUnderHandlers == ApiSpec => []StepsFollowOrder
<1>1. ApiInv => StepsFollowOrder
  BY DEF ApiInv, EngineInv
<1> QED BY <1>1, ApiInvariance, PTL

-----------------------------------------------------------------------------
(* What the steps did stays done beside the handlers                       *)

Rolling == {"rollback", "isolate", "stop", "source", "save"}

(* A rollback isolates and stops a VM: it takes nothing back.              *)
LEMMA HandlersAdvance ==
  ASSUME ApiInv, NEW h \in Handlers, HandlerStep(h)
  PROVE  /\ Advances
         /\ UNCHANGED <<calls, owner, pc, step, disk>>
         /\ \A i \in Vmids : vms'[i].owner = vms[i].owner /\ vms'[i].slots = vms[i].slots
<1>1. /\ \A i \in Vmids : vms[i] \in VM
      /\ vms \in [Vmids -> VM]
  BY DEF ApiInv, EngineInv, TypeOK
<1>2. UNCHANGED <<exports, converted, calls, owner, pc, step, disk>>
  <2>1. CASE \/ \E p \in Plans : ReadForPreflight(h, p) \/ ReadForDelete(h, p) \/ ReadForRollback(h, p)
             \/ ReadRollbackPlan(h) \/ CheckSource(h) \/ Abandon(h)
    BY <2>1 DEF ReadForPreflight, ReadForDelete, ReadForRollback, ReadRollbackPlan,
       CheckSource, Abandon, vars
  <2>2. CASE \/ MapDisks(h) \/ FinishPreflight(h) \/ DeletePlan(h)
             \/ IsolateTarget(h) \/ StopTarget(h) \/ SaveRollback(h)
    BY <2>2 DEF MapDisks, FinishPreflight, DeletePlan, IsolateTarget, StopTarget,
       SaveRollback, platform, execution
  <2> QED BY <2>1, <2>2 DEF HandlerStep
<1>3. \A i \in Vmids : vms'[i].owner = vms[i].owner /\ vms'[i].slots = vms[i].slots
  <2>1. CASE \/ \E p \in Plans : ReadForPreflight(h, p) \/ ReadForDelete(h, p) \/ ReadForRollback(h, p)
             \/ ReadRollbackPlan(h) \/ CheckSource(h) \/ Abandon(h)
             \/ MapDisks(h) \/ FinishPreflight(h) \/ DeletePlan(h) \/ SaveRollback(h)
    <3>1. UNCHANGED vms
      BY <2>1 DEF ReadForPreflight, ReadForDelete, ReadForRollback, ReadRollbackPlan,
         CheckSource, Abandon, vars, MapDisks, FinishPreflight, DeletePlan, SaveRollback, platform
    <3> QED BY <3>1
  <2>2. CASE IsolateTarget(h) \/ StopTarget(h)
    <3>1. ASSUME NEW vm \in VM
          PROVE  /\ [vm EXCEPT !.net = "isolated"].owner = vm.owner
                 /\ [vm EXCEPT !.net = "isolated"].slots = vm.slots
                 /\ [vm EXCEPT !.on = FALSE].owner = vm.owner
                 /\ [vm EXCEPT !.on = FALSE].slots = vm.slots
      BY DEF VM
    <3>2. \A i \in Vmids : vms'[i] \in {vms[i], [vms[i] EXCEPT !.net = "isolated"],
                                      [vms[i] EXCEPT !.on = FALSE]}
      BY <1>1, <2>2 DEF IsolateTarget, StopTarget
    <3> QED BY <1>1, <3>1, <3>2
  <2> QED BY <2>1, <2>2 DEF HandlerStep
<1> QED BY <1>2, <1>3 DEF Advances

(* A job that was read and waits to be written back keeps what it says.    *)
LEMMA ReadStepsStay ==
  ASSUME NEW h \in Handlers, HandlerOK(h), ReadStepsHappened(h), Advances,
         \/ handlers'[h].at \notin Rolling
         \/ /\ handlers[h].at \in Rolling
            /\ handlers'[h].plan = handlers[h].plan /\ handlers'[h].job = handlers[h].job
  PROVE  ReadStepsHappened(h)'
<1>1. CASE handlers'[h].at \notin Rolling
  BY <1>1 DEF Rolling, ReadStepsHappened
<1>2. CASE /\ handlers[h].at \in Rolling
           /\ handlers'[h].plan = handlers[h].plan /\ handlers'[h].job = handlers[h].job
  <2>1. PICK p \in Plans : p = handlers[h].plan
    BY <1>2 DEF HandlerOK, HandlerAt, PlanOf, Rolling
  <2>2. \A s \in Steps : handlers[h].job.steps[s] = "succeeded" => Happened(p, s)
    BY <1>2, <2>1 DEF ReadStepsHappened, Rolling, PlanOf
  <2>3. \A s \in Steps : Happened(p, s) => Happened(p, s)'
    BY DoneStays
  <2>4. \A s \in Steps : handlers'[h].job.steps[s] = "succeeded" => Happened(p, s)'
    BY <1>2, <2>2, <2>3
  <2> QED BY <1>2, <2>1, <2>4 DEF ReadStepsHappened, PlanOf
<1> QED BY <1>1, <1>2

(* Every step of a handler leaves the succeeded steps done, those stored   *)
(* and those of the jobs it has read.                                      *)
LEMMA HandlerKeepsEffects ==
  ASSUME ApiEffectsInv, NEW h \in Handlers, HandlerStep(h), ApiInv'
  PROVE  ApiEffectsInv'
<1>1. /\ Advances /\ UNCHANGED <<calls, owner, pc, step, disk>>
      /\ \A i \in Vmids : vms'[i].owner = vms[i].owner /\ vms'[i].slots = vms[i].slots
  BY HandlersAdvance DEF ApiEffectsInv
<1>2. /\ TypeOK /\ HolderOK /\ handlers \in [Handlers -> Local] /\ HandlerOK(h)
      /\ SucceededStepsHappened
  BY DEF ApiEffectsInv, ApiInv, ApiTypeOK, EngineInv, EffectsInv
<1>3. LabelsOK' /\ TargetNamed' /\ UnusedIsEmpty'
  BY <1>1 DEF ApiEffectsInv, EffectsInv, LabelsOK, TargetNamed, UnusedIsEmpty, Target, Snapshot
<1>4. ProgressOK'
  <2>1. CASE pc \notin {"work", "complete"}
    BY <1>1, <2>1 DEF ProgressOK
  <2>2. CASE pc \in {"work", "complete"}
    <3>1. PICK p \in Plans, s \in Steps : p = Current /\ s = step
      BY <1>2, <2>2 DEF TypeOK, HolderOK
    <3>2. Current' = p /\ step' = s
      BY <1>1, <3>1 DEF Current
    <3> QED BY <1>1, <3>1, <3>2, DoneStays DEF ApiEffectsInv, EffectsInv, ProgressOK
  <2> QED BY <2>1, <2>2
<1>5. ASSUME NEW p \in Plans, NEW s \in Steps, Succeeded(p, s)' PROVE Happened(p, s)'
  <2>1. CASE Succeeded(p, s)
    BY <1>1, <1>2, <2>1, DoneStays DEF SucceededStepsHappened
  <2>2. CASE SaveRollback(h)
    <3>1. PlanOf(h) \in Plans /\ handlers[h].job \in Job /\ handlers[h].at = "save"
      BY <1>2, <2>2 DEF SaveRollback, HandlerOK, HandlerAt, Local
    <3>2. [handlers[h].job EXCEPT !.state = "rollback_prepared"].steps = handlers[h].job.steps
      BY <3>1 DEF Job
    <3>3. p # PlanOf(h) => Succeeded(p, s)
      BY <1>2, <1>5, <2>2 DEF SaveRollback, Succeeded, TypeOK
    <3>4. p = PlanOf(h) => handlers[h].job.steps[s] = "succeeded"
      BY <1>2, <1>5, <2>2, <3>1, <3>2 DEF SaveRollback, Succeeded, TypeOK
    <3>5. p = PlanOf(h) => Happened(p, s)
      BY <3>1, <3>4 DEF ApiEffectsInv, ReadStepsHappened
    <3> QED BY <1>1, <2>1, <3>3, <3>5, DoneStays
  <2>3. CASE ~SaveRollback(h)
    <3>1. UNCHANGED jobs
      <4>1. CASE \/ \E q \in Plans : ReadForPreflight(h, q) \/ ReadForDelete(h, q) \/ ReadForRollback(h, q)
                 \/ ReadRollbackPlan(h) \/ CheckSource(h) \/ Abandon(h)
        BY <4>1 DEF ReadForPreflight, ReadForDelete, ReadForRollback, ReadRollbackPlan,
           CheckSource, Abandon, vars
      <4>2. CASE MapDisks(h) \/ FinishPreflight(h) \/ DeletePlan(h) \/ IsolateTarget(h) \/ StopTarget(h)
        BY <4>2 DEF MapDisks, FinishPreflight, DeletePlan, IsolateTarget, StopTarget, durable
      <4> QED BY <2>3, <4>1, <4>2 DEF HandlerStep
    <3> QED BY <1>5, <2>1, <3>1 DEF Succeeded
  <2> QED BY <2>2, <2>3
<1>6. ReadStepsHappened(h)'
  <2>1. CASE \E p \in Plans : ReadForRollback(h, p)
    <3>1. PICK p \in Plans : ReadForRollback(h, p)
      BY <2>1
    <3>2. /\ handlers' = [handlers EXCEPT ![h] =
               [NoLocal EXCEPT !.at = "rollback", !.plan = p, !.job = jobs[p]]]
          /\ UNCHANGED jobs
      BY <3>1 DEF ReadForRollback, vars
    <3>3. handlers'[h].plan = p /\ handlers'[h].job = jobs'[p]
      BY <1>2, <3>2 DEF NoLocal
    <3> QED BY <1>5, <3>3 DEF ReadStepsHappened, PlanOf, Succeeded
  <2>2. CASE Answer(h)
    <3>1. handlers'[h].at \notin Rolling
      BY <1>2, <2>2 DEF Answer, NoLocal, Rolling
    <3> QED BY <1>1, <1>2, <3>1, ReadStepsStay DEF ApiEffectsInv
  <2>3. ASSUME NEW label, Step(h, label), handlers[h].at \in Rolling PROVE ReadStepsHappened(h)'
    <3>1. handlers'[h].plan = handlers[h].plan /\ handlers'[h].job = handlers[h].job
      BY <1>2, <2>3 DEF Step, Local
    <3> QED BY <1>1, <1>2, <2>3, <3>1, ReadStepsStay DEF ApiEffectsInv
  <2>4. CASE ReadRollbackPlan(h)
    <3>1. /\ handlers'[h].plan = handlers[h].plan /\ handlers'[h].job = handlers[h].job
          /\ handlers[h].at \in Rolling
      BY <1>2, <2>4 DEF ReadRollbackPlan, Local, HandlerAt, Rolling
    <3> QED BY <1>1, <1>2, <3>1, ReadStepsStay DEF ApiEffectsInv
  <2>5. CASE (\E p \in Plans : ReadForPreflight(h, p) \/ ReadForDelete(h, p)) \/ MapDisks(h)
    <3>1. handlers'[h].at \in {"checks", "mapped", "delete"}
      BY <1>2, <2>5 DEF ReadForPreflight, ReadForDelete, MapDisks, NoLocal, Local, HandlerAt
    <3>2. handlers'[h].at \notin Rolling
      BY <3>1 DEF Rolling
    <3> QED BY <1>1, <1>2, <3>2, ReadStepsStay DEF ApiEffectsInv
  <2>6. CASE FinishPreflight(h) \/ DeletePlan(h) \/ SaveRollback(h) \/ Abandon(h)
    BY <2>2, <2>6 DEF FinishPreflight, DeletePlan, SaveRollback, Abandon
  <2>7. CASE IsolateTarget(h) \/ StopTarget(h) \/ CheckSource(h)
    BY <2>2, <2>3, <2>7 DEF IsolateTarget, StopTarget, CheckSource, HandlerAt, Rolling
  <2> QED BY <2>1, <2>4, <2>5, <2>6, <2>7 DEF HandlerStep
<1>7. ASSUME NEW k \in Handlers, k # h PROVE ReadStepsHappened(k)'
  <2>1. handlers'[k] = handlers[k]
    BY <1>2, <1>7 DEF HandlerStep, ReadForPreflight, ReadForDelete, ReadForRollback, MapDisks,
       FinishPreflight, DeletePlan, ReadRollbackPlan, IsolateTarget, StopTarget,
       CheckSource, SaveRollback, Abandon, Answer, Step
  <2>2. HandlerOK(k) /\ ReadStepsHappened(k)
    BY DEF ApiEffectsInv, ApiInv
  <2>3. handlers'[k].at \notin Rolling \/ handlers[k].at \in Rolling
    BY <2>1
  <2> QED BY <1>1, <2>1, <2>2, <2>3, ReadStepsStay
<1>8. EffectsInv'
  BY <1>3, <1>4, <1>5 DEF EffectsInv, SucceededStepsHappened, ApiInv
<1> QED BY <1>6, <1>7, <1>8 DEF ApiEffectsInv

(* Every step leaves them done.                                            *)
LEMMA ApiEffectsStay ==
  ASSUME ApiEffectsInv, [ApiNext]_apiVars, ApiInv'
  PROVE  ApiEffectsInv'
<1>1. handlers \in [Handlers -> Local] /\ EngineInv' /\ TypeOK /\ HolderOK
  BY DEF ApiEffectsInv, ApiInv, ApiTypeOK, EngineInv
<1>2. ASSUME [Next]_vars, \A h \in Handlers : handlers'[h] \in {handlers[h], NoLocal}
      PROVE  ApiEffectsInv'
  <2>1. EffectsInv' /\ Advances
    BY <1>1, <1>2, EffectsStay, StepAdvances DEF ApiEffectsInv, EffectsInv
  <2>2. ASSUME NEW h \in Handlers PROVE ReadStepsHappened(h)'
    <3>1. HandlerOK(h) /\ ReadStepsHappened(h)
      BY DEF ApiEffectsInv, ApiInv
    <3>2. \/ handlers'[h].at \notin Rolling
          \/ handlers[h].at \in Rolling /\ handlers'[h] = handlers[h]
      BY <1>2 DEF NoLocal, Rolling
    <3> QED BY <2>1, <3>1, <3>2, ReadStepsStay
  <2> QED BY <2>1, <2>2 DEF ApiEffectsInv
<1>3. CASE UNCHANGED apiVars
  BY <1>2, <1>3 DEF apiVars
<1>4. CASE OfEngine /\ UNCHANGED handlers
  BY <1>2, <1>4 DEF OfEngine, Next
<1>5. CASE ApiCrash
  BY <1>2, <1>5 DEF ApiCrash, Next
<1>6. CASE \E h \in Handlers : HandlerStep(h)
  BY <1>6, HandlerKeepsEffects
<1>7. CASE \/ \E p \in Plans : CreatePlan(p)
           \/ \E p \in Plans, powerOff \in BOOLEAN : ApprovePlan(p, powerOff)
  <2>1. UNCHANGED <<jobs, power, exports, converted, vms, calls, owner, pc, step, disk, job, handlers>>
    BY <1>7 DEF CreatePlan, ApprovePlan, platform, execution
  <2>2. LabelsOK' /\ TargetNamed' /\ UnusedIsEmpty' /\ ProgressOK' /\ SucceededStepsHappened'
    BY <2>1 DEF ApiEffectsInv, EffectsInv, LabelsOK, TargetNamed, UnusedIsEmpty, Target, Snapshot,
       ProgressOK, SucceededStepsHappened, Succeeded, Happened, DiskDone, Current
  <2>3. \A h \in Handlers : ReadStepsHappened(h)'
    BY <2>1 DEF ApiEffectsInv, ReadStepsHappened, Happened, DiskDone, PlanOf
  <2> QED BY <1>1, <2>2, <2>3 DEF ApiEffectsInv, EffectsInv
<1>8. CASE \E r \in Requests : MapForExecution(r) \/ MapFails(r)
  <2>1. PICK r \in Requests : MapForExecution(r) \/ MapFails(r)
    BY <1>8
  <2>2. /\ UNCHANGED <<jobs, exports, converted, vms, owner, pc, step, disk, handlers>>
        /\ r # owner /\ calls \in [Requests -> Call]
        /\ \E call : calls' = [calls EXCEPT ![r] = call]
    BY <1>1, <2>1 DEF MapForExecution, MapFails, Unmapped, platform, TypeOK
  <2>3. \/ owner \in Requests /\ calls'[owner] = calls[owner]
        \/ pc = "idle"
    BY <1>1, <2>2 DEF TypeOK, HolderOK
  <2>4. LabelsOK' /\ UnusedIsEmpty' /\ SucceededStepsHappened'
    BY <2>2 DEF ApiEffectsInv, EffectsInv, LabelsOK, UnusedIsEmpty,
       SucceededStepsHappened, Succeeded, Happened, DiskDone
  <2>5. TargetNamed' /\ ProgressOK'
    BY <2>2, <2>3 DEF ApiEffectsInv, EffectsInv, TargetNamed, ProgressOK, InsideStep,
       Target, Snapshot, Current, Happened, DiskDone
  <2>6. \A h \in Handlers : ReadStepsHappened(h)'
    BY <2>2 DEF ApiEffectsInv, ReadStepsHappened, Happened, DiskDone, PlanOf
  <2> QED BY <1>1, <2>4, <2>5, <2>6 DEF ApiEffectsInv, EffectsInv
<1> QED
  BY <1>3, <1>4, <1>5, <1>6, <1>7, <1>8 DEF ApiNext, OfEngine

(* A step that is stored as succeeded has happened on the platform, also   *)
(* when a rollback writes back a job it read long ago (api/migration.go,   *)
(* rollbackJob) while plans are checked, approved and deleted.             *)
THEOREM StepsHappenedUnderHandlers == ApiSpec => []SucceededStepsHappened
<1>1. ApiInit => ApiEffectsInv
  <2> SUFFICES ASSUME ApiInit PROVE ApiEffectsInv
    OBVIOUS
  <2>1. /\ pc = "idle" /\ vms = [i \in Vmids |-> NoVM]
        /\ \A h \in Handlers : handlers[h] = NoLocal
        /\ \A p \in Plans : jobs[p] = NoJob
    BY DEF ApiInit, InitEngine
  <2>2. LabelsOK /\ TargetNamed /\ ProgressOK /\ UnusedIsEmpty
    BY <2>1 DEF LabelsOK, TargetNamed, InsideStep, ProgressOK, UnusedIsEmpty, NoVM
  <2>3. SucceededStepsHappened /\ \A h \in Handlers : ReadStepsHappened(h)
    BY <2>1 DEF SucceededStepsHappened, Succeeded, NoJob, AllPending, ReadStepsHappened, NoLocal
  <2> QED BY <2>2, <2>3, ApiInitInv DEF ApiEffectsInv, EffectsInv, ApiInv
<1>2. ApiEffectsInv /\ ApiInv' /\ [ApiNext]_apiVars => ApiEffectsInv'
  BY ApiEffectsStay
<1>3. ApiEffectsInv => SucceededStepsHappened
  BY DEF ApiEffectsInv, EffectsInv
<1> QED BY <1>1, <1>2, <1>3, ApiInvariance, PTL DEF ApiSpec

=============================================================================
