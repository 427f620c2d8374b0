--------------------------- MODULE MigrationApi ---------------------------
(***************************************************************************)
(* The HTTP handlers of backend/internal/api that change plans and jobs,   *)
(* around the engine of JobEngine: create, preflight, approve, delete and  *)
(* rollback.  A handler reads a plan or a job, talks to the platforms, and *)
(* writes back the whole value it read; only the approval is a             *)
(* transaction, and only the save of a rollback takes the engine's mutex.  *)
(*                                                                         *)
(* Validate and cutover read and refuse: the Proxmox target rejects every  *)
(* network that is not isolated, so cutover ends before it saves.  The     *)
(* events that the handlers append after their writes have fresh ids and   *)
(* nobody reads them: of these the model keeps the approval's only.        *)
(***************************************************************************)
EXTENDS JobEngine

CONSTANTS
  Handlers,  \* preflight, delete and rollback requests open at a time
  MapsSent   \* which disks the storage maps of a new plan may name

ASSUME MapsAssumption == MapsSent \subseteq {"none", "some", "all"}

VARIABLE handlers  \* the local state of each of them

apiVars == <<vars, handlers>>

HandlerLabels == {"idle", "checks", "mapped", "delete", "rollback", "isolate", "stop",
                  "source", "save"}
Local == [at: HandlerLabels, plan: Plans \cup {NoPlan}, row: Plan, job: Job]
NoLocal == [at |-> "idle", plan |-> NoPlan, row |-> NoRow, job |-> NoJob]

PlanOf(h) == handlers[h].plan
RowOf(h)  == handlers[h].row
TargetOf(h) == RowOf(h).vmid

HandlerAt(h, label) == handlers[h].at = label
Step(h, label) == handlers' = [handlers EXCEPT ![h].at = label]
Answer(h) == handlers' = [handlers EXCEPT ![h] = NoLocal]

(* PutPlan inserts or replaces the complete row, whatever it holds by now. *)
PutPlan(p, row) == plans' = [plans EXCEPT ![p] = row]

execution == <<calls, owner, pc, step, disk, job>>

-----------------------------------------------------------------------------
(* Plans *)

(* Plan ids are fresh: a plan that was deleted is not created again.  The  *)
(* client's maps are looked at one by one, not whether a disk is left out. *)
CreatePlan(p) ==
  /\ plans[p].status = "absent"
  /\ \E maps \in MapsSent :
       PutPlan(p, [NoRow EXCEPT !.status = "draft", !.maps = maps])
  /\ UNCHANGED <<jobs, audit, platform, execution, handlers>>

ReadForPreflight(h, p) ==
  /\ HandlerAt(h, "idle")
  /\ InTable(p)
  /\ handlers' = [handlers EXCEPT ![h] =
       [NoLocal EXCEPT !.at = "checks", !.plan = p, !.row = plans[p]]]
  /\ UNCHANGED vars

(* autoStorageMaps: every disk the inventory shows, which may be none.     *)
MapDisks(h) ==
  /\ HandlerAt(h, "checks")
  /\ RowOf(h).maps = "none"
  /\ \E found \in {"none", "all"} :
       LET row == [RowOf(h) EXCEPT !.maps = found]
       IN  /\ PutPlan(PlanOf(h), row)
           /\ handlers' = [handlers EXCEPT ![h].at = "mapped", ![h].row = row]
  /\ UNCHANGED <<jobs, audit, platform, execution>>

(* The checks look at inventory read earlier: either verdict may follow.   *)
FinishPreflight(h) ==
  /\ HandlerAt(h, "mapped") \/ (HandlerAt(h, "checks") /\ RowOf(h).maps # "none")
  /\ \E pass \in BOOLEAN :
       PutPlan(PlanOf(h), [RowOf(h) EXCEPT !.status = "preflight", !.passed = pass])
  /\ Answer(h)
  /\ UNCHANGED <<jobs, audit, platform, execution>>

(* What the event of an approval says.                                     *)
ApprovalEvents(p, powerOff) ==
  {<<"approve", p>>} \cup (IF powerOff THEN {<<"approve_power_off", p>>} ELSE {})

(* One serializable transaction: the check, the update of two columns and  *)
(* the audit event.                                                        *)
ApprovePlan(p, powerOff) ==
  /\ plans[p].status = "preflight" /\ plans[p].passed
  /\ plans' = [plans EXCEPT ![p].status = "approved", ![p].powerOffApproved = powerOff]
  /\ audit' = audit \cup ApprovalEvents(p, powerOff)
  /\ UNCHANGED <<jobs, platform, execution, handlers>>

ReadForDelete(h, p) ==
  /\ HandlerAt(h, "idle")
  /\ plans[p].status = "draft"
  /\ handlers' = [handlers EXCEPT ![h] = [NoLocal EXCEPT !.at = "delete", !.plan = p]]
  /\ UNCHANGED vars

(* Mutation of DeletePlan: jobs do not reference the plan table.           *)
DeleteReferenced(h) ==
  /\ HandlerAt(h, "delete")
  /\ PutPlan(PlanOf(h), [NoRow EXCEPT !.status = "deleted"])
  /\ Answer(h)
  /\ UNCHANGED <<jobs, audit, platform, execution>>

(* The row goes, unless a job refers to it.                                *)
DeletePlan(h) ==
  /\ HandlerAt(h, "delete")
  /\ \/ /\ jobs[PlanOf(h)].state = "absent"
        /\ PutPlan(PlanOf(h), [NoRow EXCEPT !.status = "deleted"])
     \/ /\ jobs[PlanOf(h)].state # "absent"
        /\ UNCHANGED plans
  /\ Answer(h)
  /\ UNCHANGED <<jobs, audit, platform, execution>>

-----------------------------------------------------------------------------
(* Execution: what executeMigration does before it calls ExecutePlan *)

Unmapped(r) ==
  /\ calls[r] # NoCall
  /\ r # owner
  /\ calls[r].snapshot.maps = "none"

(* The approved plan names no disk: the source is looked at once more.  A  *)
(* plan whose source still has no disk is not followed any further.        *)
MapForExecution(r) ==
  /\ Unmapped(r)
  /\ \E found \in {"none", "all"} :
       LET row == [calls[r].snapshot EXCEPT !.maps = found]
       IN  /\ PutPlan(calls[r].plan, row)
           /\ calls' = [calls EXCEPT ![r] =
                IF found = "all" THEN [plan |-> calls[r].plan, snapshot |-> row] ELSE NoCall]
  /\ UNCHANGED <<jobs, audit, platform, owner, pc, step, disk, job, handlers>>

(* A lookup of the source, or the save of the maps, fails.                 *)
MapFails(r) ==
  /\ Faulty("store") \/ Faulty("platform")
  /\ Unmapped(r)
  /\ \/ UNCHANGED plans
     \/ PutPlan(calls[r].plan, [calls[r].snapshot EXCEPT !.maps = "all"])
  /\ calls' = [calls EXCEPT ![r] = NoCall]
  /\ UNCHANGED <<jobs, audit, platform, owner, pc, step, disk, job, handlers>>

-----------------------------------------------------------------------------
(* Rollback *)

ReadForRollback(h, p) ==
  /\ HandlerAt(h, "idle")
  /\ jobs[p].state # "absent"
  /\ handlers' = [handlers EXCEPT ![h] =
       [NoLocal EXCEPT !.at = "rollback", !.plan = p, !.job = jobs[p]]]
  /\ UNCHANGED vars

ReadRollbackPlan(h) ==
  /\ HandlerAt(h, "rollback")
  /\ handlers' = [handlers EXCEPT ![h].at = "isolate", ![h].row = plans[PlanOf(h)]]
  /\ UNCHANGED vars

HasTarget(h) == TargetOf(h) # NoVmid /\ vms[TargetOf(h)].owner # NoPlan

IsolateTarget(h) ==
  /\ HandlerAt(h, "isolate")
  /\ \/ /\ HasTarget(h)
        /\ vms' = [vms EXCEPT ![TargetOf(h)].net = "isolated"]
        /\ Step(h, "stop")
     \/ /\ ~HasTarget(h)
        /\ UNCHANGED vms
        /\ Answer(h)
  /\ UNCHANGED <<durable, power, exports, converted, execution>>

(* Mutation of StopTarget: the VM is removed.                              *)
DestroyTarget(h) ==
  /\ HandlerAt(h, "stop")
  /\ vms' = [vms EXCEPT ![TargetOf(h)] = NoVM]
  /\ Step(h, "source")
  /\ UNCHANGED <<durable, power, exports, converted, execution>>

StopTarget(h) ==
  /\ HandlerAt(h, "stop")
  /\ vms' = [vms EXCEPT ![TargetOf(h)].on = FALSE]
  /\ Step(h, "source")
  /\ UNCHANGED <<durable, power, exports, converted, execution>>

CheckSource(h) ==
  /\ HandlerAt(h, "source")
  /\ IF power[SourceOf[PlanOf(h)]] = "off" THEN Step(h, "save") ELSE Answer(h)
  /\ UNCHANGED vars

(* Mutations of SaveRollback: the job is stored as rolled back already, or *)
(* with its target to be created again.                                    *)
SaveRolledBack(h) ==
  /\ HandlerAt(h, "save")
  /\ owner = NoRequest
  /\ jobs' = [jobs EXCEPT ![PlanOf(h)] =
       [handlers[h].job EXCEPT !.state = "rolled_back"]]
  /\ Answer(h)
  /\ UNCHANGED <<plans, audit, platform, execution>>

SaveForRecreation(h) ==
  /\ HandlerAt(h, "save")
  /\ owner = NoRequest
  /\ jobs' = [jobs EXCEPT ![PlanOf(h)] =
       [handlers[h].job EXCEPT !.state = "rollback_prepared",
                               !.steps[CreateTargetVM] = "pending"]]
  /\ Answer(h)
  /\ UNCHANGED <<plans, audit, platform, execution>>

(* Engine.Save waits for the mutex, then writes the job as it was read.    *)
SaveRollback(h) ==
  /\ HandlerAt(h, "save")
  /\ owner = NoRequest
  /\ jobs' = [jobs EXCEPT ![PlanOf(h)] =
       [handlers[h].job EXCEPT !.state = "rollback_prepared"]]
  /\ Answer(h)
  /\ UNCHANGED <<plans, audit, platform, execution>>

-----------------------------------------------------------------------------
(* The next call of a handler fails, on the way there or on the way back.  *)
Abandon(h) ==
  /\ Faulty("store") \/ Faulty("platform")
  /\ ~HandlerAt(h, "idle")
  /\ Answer(h)
  /\ UNCHANGED vars

(* A crash ends the handlers with the executions.                          *)
ApiCrash ==
  /\ Faulty("crash")
  /\ \/ Crash
     \/ /\ \A r \in Requests : calls[r] = NoCall
        /\ \E h \in Handlers : ~HandlerAt(h, "idle")
        /\ UNCHANGED vars
  /\ handlers' = [h \in Handlers |-> NoLocal]

-----------------------------------------------------------------------------
ApiInit ==
  /\ InitEngine
  /\ plans = [p \in Plans |-> NoRow]
  /\ handlers = [h \in Handlers |-> NoLocal]

HandlerStep(h) ==
  \/ \E p \in Plans : ReadForPreflight(h, p) \/ ReadForDelete(h, p) \/ ReadForRollback(h, p)
  \/ MapDisks(h) \/ FinishPreflight(h) \/ DeletePlan(h)
  \/ ReadRollbackPlan(h) \/ IsolateTarget(h) \/ StopTarget(h) \/ CheckSource(h)
  \/ SaveRollback(h) \/ Abandon(h)

ApiNext ==
  \/ /\ \/ \E r \in Requests, p \in Plans : Execute(r, p)
        \/ \E r \in Requests : ~Unmapped(r) /\ Lock(r)
        \/ EngineStep
        \/ \E v \in Sources : SourceStarted(v)
     /\ UNCHANGED handlers
  \/ \E p \in Plans : CreatePlan(p)
  \/ \E p \in Plans, powerOff \in BOOLEAN : ApprovePlan(p, powerOff)
  \/ \E r \in Requests : MapForExecution(r) \/ MapFails(r)
  \/ \E h \in Handlers : HandlerStep(h)
  \/ ApiCrash

ApiSpec == ApiInit /\ [][ApiNext]_apiVars

-----------------------------------------------------------------------------
(* Invariants *)

ApiTypeOK == TypeOK /\ handlers \in [Handlers -> Local]

(* A job never outlives its plan: validate, cutover and rollback find the  *)
(* plan of every job, although plans may be deleted, and written again by  *)
(* a handler that read them before.                                        *)
JobsKeepTheirPlan == \A p \in Plans : jobs[p].state # "absent" => InTable(p)

-----------------------------------------------------------------------------
(* The inductive invariant: every value of a plan or a job that is stored, *)
(* or held by somebody who may write it back, is fit for the table.        *)

RowOK(p, row) ==
  /\ row.status = "approved" => row.passed /\ <<"approve", p>> \in audit
  /\ row.powerOffApproved => <<"approve_power_off", p>> \in audit

SnapshotOK(r) ==
  calls[r] # NoCall =>
    /\ calls[r].plan \in Plans
    /\ calls[r].snapshot.status = "approved"
    /\ RowOK(calls[r].plan, calls[r].snapshot)

HandlerOK(h) ==
  /\ ~HandlerAt(h, "idle") => PlanOf(h) \in Plans
  /\ handlers[h].at \in {"checks", "mapped"} =>
       RowOf(h).status \notin {"absent", "deleted"} /\ RowOK(PlanOf(h), RowOf(h))
  /\ handlers[h].at \in {"rollback", "isolate", "stop", "source", "save"} =>
       OrderOK(handlers[h].job) /\ jobs[PlanOf(h)].state # "absent"

ApiInv ==
  /\ EngineInv /\ ApiTypeOK
  /\ \A p \in Plans : RowOK(p, plans[p])
  /\ \A r \in Requests : SnapshotOK(r)
  /\ \A h \in Handlers : HandlerOK(h)
  /\ JobsKeepTheirPlan

(* The succeeded steps of the job a rollback has read, which it will write *)
(* back, happened.                                                         *)
ReadStepsHappened(h) ==
  handlers[h].at \in {"rollback", "isolate", "stop", "source", "save"} =>
    \A s \in Steps : handlers[h].job.steps[s] = "succeeded" => Happened(PlanOf(h), s)

ApiEffectsInv == ApiInv /\ EffectsInv /\ \A h \in Handlers : ReadStepsHappened(h)

-----------------------------------------------------------------------------
(* Action properties *)

(* Whatever preflights, approvals and executions write over each other's   *)
(* rows, a source is only shut down by an execution of its plan, whose     *)
(* preflight passed, after an approval of this shutdown went into the      *)
(* audit log: also when somebody starts the source between the engine's    *)
(* look at its power and the shutdown.                                     *)
ShutdownOnRecord ==
  [][\A v \in Sources : (power[v] = "on" /\ power'[v] = "off") =>
       /\ v = Source /\ Snapshot.passed
       /\ <<"approve_power_off", Current>> \in audit]_apiVars

(* The source is shut down only while the plan is approved and its         *)
(* approval includes the shutdown.                                         *)
ShutdownIsApproved ==
  [][\A v \in Sources : (power[v] = "on" /\ power'[v] = "off") =>
       plans[Current].status = "approved" /\ plans[Current].powerOffApproved]_apiVars

(* What the documentation says and the code does not keep: each source     *)
(* disk is assigned to a storage before the plan is approved. A plan       *)
(* created with maps for some of the disks breaks it.                      *)
ApprovedMapsEveryDisk ==
  \A p \in Plans : plans[p].status = "approved" => plans[p].maps # "some"

=============================================================================
