-------------------------- MODULE RemoteMigration --------------------------
(***************************************************************************)
(* Migration from one Proxmox cluster to another                           *)
(* (backend/internal/platform/proxmox/migration.go, the remote branches of *)
(* api/migration.go and the external jobs of job/engine.go), as it runs    *)
(* once EnableLabRemoteMigration has installed it.  Proxmox moves the VM   *)
(* in a task of its own; the handler that asked for it saves the id of the *)
(* VM and then a job, and leaves a goroutine that waits for the task, looks *)
(* at both VMs and records the end.                                        *)
(*                                                                         *)
(* Each plan has a source VM of its own.  Node, storages and bridges of a  *)
(* plan only decide whether a preflight passes, and any verdict is taken   *)
(* that the power of the source allows.                                    *)
(***************************************************************************)
EXTENDS Naturals, FiniteSetsExt

CONSTANTS
  ColdPlans, LivePlans,   \* plans by their strategy
  Requests,               \* requests that may be open at the same time
  VMIds,                  \* ids of VMs of the target cluster
  MaxTasks,               \* a bound: tasks of the source cluster
  NoPlan, NoVM

Plans == ColdPlans \cup LivePlans

ASSUME RemoteAssumption ==
  /\ ColdPlans \cap LivePlans = {} /\ NoPlan \notin Plans
  /\ VMIds \subseteq Nat /\ NoVM \notin VMIds
  /\ MaxTasks \in Nat

Tasks == 1..MaxTasks
NoTask == 0

VARIABLES
  plans,       \* table plans
  jobs,        \* table jobs with its one step; the id of a job is its plan's
  calls,       \* the request each client has open
  waiters,     \* the goroutine that waits for each task
  tasks,       \* tasks of the source cluster
  sources,     \* power of each source VM
  targets      \* VMs of the target cluster

remoteVars == <<plans, jobs, calls, waiters, tasks, sources, targets>>
tables == <<plans, jobs>>
clusters == <<tasks, sources, targets>>

Row == [status: {"draft", "preflight", "approved"}, passed: BOOLEAN, target: VMIds \cup {NoVM}]
Job == [state: {"none", "running", "succeeded", "failed"},
        task: Tasks \cup {NoTask},      \* external_id of the step
        shown: Tasks \cup {NoTask}]     \* the task its progress message is about
NoJob == [state |-> "none", task |-> NoTask, shown |-> NoTask]

CallLabels ==
  {"idle", "preflight", "verdict", "check", "reserve", "post", "save", "register"}
Call == [at: CallLabels, plan: Plans \cup {NoPlan}, copy: Row,
         id: VMIds \cup {NoVM}, task: Tasks \cup {NoTask}]
NewRow == [status |-> "draft", passed |-> FALSE, target |-> NoVM]
NoCall == [at |-> "idle", plan |-> NoPlan, copy |-> NewRow, id |-> NoVM, task |-> NoTask]

(* "done" has recorded the end of its task; "lost" ended without.          *)
Waiting == {"wait", "source", "target", "succeeded", "failed"}
WaiterStates == Waiting \cup {"none", "done", "lost"}

Task == [plan: Plans \cup {NoPlan}, id: VMIds \cup {NoVM}, state: {"none", "running", "ok", "failed"}]
TargetVM == [power: {"absent", "on", "off"}, task: Tasks \cup {NoTask}]

At(r, l) == calls[r].at = l
PlanOf(r) == calls[r].plan
Goto(r, l) == calls' = [calls EXCEPT ![r].at = l]
Respond(r) == calls' = [calls EXCEPT ![r] = NoCall]
Waits(t, l) == waiters[t] = l
GoOn(t, l) == waiters' = [waiters EXCEPT ![t] = l]

Locked(p) == \E t \in Tasks : tasks[t].plan = p /\ tasks[t].state = "running"

(* RemotePreflight wants a live source running and any other powered off.  *)
Ready(p) == sources[p] = IF p \in LivePlans THEN "on" ELSE "off"

(* Nothing keeps a plan to one request at a time, or to requests that come *)
(* when no goroutine waits for an earlier task of it.                      *)
Open(r, p, l) ==
  /\ calls[r] = NoCall
  /\ calls' = [calls EXCEPT ![r] = [NoCall EXCEPT !.at = l, !.plan = p, !.copy = plans[p]]]

-----------------------------------------------------------------------------
(* runPreflight and approvePlan *)

Preflight(r, p) ==
  /\ Open(r, p, "preflight")
  /\ UNCHANGED <<tables, waiters, clusters>>

(* RemotePreflight judges the clusters as it reads them.                   *)
InspectClusters(r) ==
  /\ At(r, "preflight")
  /\ \E passed \in BOOLEAN :
       /\ passed => Ready(PlanOf(r))
       /\ calls' = [calls EXCEPT ![r].at = "verdict",
            ![r].copy = [@ EXCEPT !.status = "preflight", !.passed = passed]]
  /\ UNCHANGED <<tables, waiters, clusters>>

(* The whole row that was read is written back with the verdict, unless    *)
(* the store refuses.                                                      *)
FinishPreflight(r) ==
  /\ At(r, "verdict")
  /\ plans' \in {plans, [plans EXCEPT ![PlanOf(r)] = calls[r].copy]}
  /\ Respond(r)
  /\ UNCHANGED <<jobs, waiters, clusters>>

ApprovePlan(p) ==
  /\ plans[p].status = "preflight" /\ plans[p].passed
  /\ plans' = [plans EXCEPT ![p].status = "approved"]
  /\ UNCHANGED <<jobs, calls, waiters, clusters>>

-----------------------------------------------------------------------------
(* executeMigration and StartRemoteMigration *)

Execute(r, p) ==
  /\ plans[p].status = "approved"
  /\ Open(r, p, "check")
  /\ UNCHANGED <<tables, waiters, clusters>>

(* Every platform call before the migration may fail and ends the request. *)
Refuse(r) ==
  /\ calls[r].at \in {"preflight", "check", "reserve", "post"}
  /\ Respond(r)
  /\ UNCHANGED <<tables, waiters, clusters>>

CheckAgain(r) ==
  /\ At(r, "check")
  /\ Ready(PlanOf(r))
  /\ Goto(r, "reserve")
  /\ UNCHANGED <<tables, waiters, clusters>>

(* The request never names a VM id, so each execution takes the next one   *)
(* of the cluster; nothing is reserved by reading it.                      *)
ReadNextVMID(r) ==
  /\ At(r, "reserve")
  /\ \E id \in VMIds : targets[id].power = "absent"
  /\ calls' = [calls EXCEPT ![r].at = "post",
       ![r].id = Min({id \in VMIds : targets[id].power = "absent"})]
  /\ UNCHANGED <<tables, waiters, clusters>>

(* Mutation of PostMigration: an answer without a task id is accepted.     *)
PostAnyAnswer(r) ==
  /\ At(r, "post") /\ ~Locked(PlanOf(r))
  /\ Goto(r, "save")
  /\ UNCHANGED <<tables, waiters, clusters>>

(* Proxmox refuses a VM that is locked by another migration.  The answer   *)
(* with the id of the task may be lost.                                    *)
PostMigration(r) ==
  /\ At(r, "post") /\ ~Locked(PlanOf(r))
  /\ \E t \in Tasks :
       /\ tasks[t].state = "none" /\ \A u \in 1..(t - 1) : tasks[u].state # "none"
       /\ tasks' = [tasks EXCEPT ![t] = [plan |-> PlanOf(r), id |-> calls[r].id, state |-> "running"]]
       /\ \/ calls' = [calls EXCEPT ![r].at = "save", ![r].task = t] /\ UNCHANGED waiters
          \/ Respond(r) /\ GoOn(t, "lost")
  /\ UNCHANGED <<tables, sources, targets>>

(* PutContext writes the copy back with the id of the VM, or fails before  *)
(* or after its effect.                                                    *)
SaveTarget(r) ==
  /\ At(r, "save")
  /\ LET saved == [plans EXCEPT ![PlanOf(r)] = [calls[r].copy EXCEPT !.target = calls[r].id]] IN
     \/ plans' = saved /\ Goto(r, "register") /\ UNCHANGED waiters
     \/ plans' \in {plans, saved} /\ Respond(r) /\ GoOn(calls[r].task, "lost")
  /\ UNCHANGED <<jobs, clusters>>

Started(r) == [jobs EXCEPT ![PlanOf(r)] =
                [state |-> "running", task |-> calls[r].task, shown |-> calls[r].task]]

(* Mutation of StartExternal: the goroutine waits whatever the store says. *)
StartUnstored(r) ==
  /\ At(r, "register")
  /\ jobs' \in {jobs, Started(r)} /\ GoOn(calls[r].task, "wait")
  /\ Respond(r)
  /\ UNCHANGED <<plans, clusters>>

(* The job is stored and its event appended before the goroutine starts:   *)
(* when either fails nobody waits for the task.                            *)
StartExternal(r) ==
  /\ At(r, "register")
  /\ \/ jobs' = Started(r) /\ GoOn(calls[r].task, "wait")
     \/ jobs' \in {jobs, Started(r)} /\ GoOn(calls[r].task, "lost")
  /\ Respond(r)
  /\ UNCHANGED <<plans, clusters>>

-----------------------------------------------------------------------------
(* WaitRemoteMigration, VerifyRemoteMigration and FinishExternal *)

(* UpdateExternal writes to a running job of the plan, whichever it is.    *)
PollRunning(t) ==
  /\ Waits(t, "wait") /\ tasks[t].state = "running"
  /\ LET p == tasks[t].plan IN
     jobs' = IF jobs[p].state = "running" THEN [jobs EXCEPT ![p].shown = t] ELSE jobs
  /\ UNCHANGED <<plans, calls, waiters, clusters>>

(* Mutation of PollStopped: the exit status of the task is not looked at.  *)
PollAnyEnd(t) ==
  /\ Waits(t, "wait") /\ tasks[t].state # "running"
  /\ GoOn(t, "source")
  /\ UNCHANGED <<tables, calls, clusters>>

PollStopped(t) ==
  /\ Waits(t, "wait") /\ tasks[t].state # "running"
  /\ GoOn(t, IF tasks[t].state = "ok" THEN "source" ELSE "failed")
  /\ UNCHANGED <<tables, calls, clusters>>

(* One status request that fails ends the wait, whatever the task does.    *)
PlatformFails(t) ==
  /\ waiters[t] \in {"wait", "source", "target"}
  /\ GoOn(t, "failed")
  /\ UNCHANGED <<tables, calls, clusters>>

(* After twelve hours the context ends, and with it the context FinishExternal *)
(* reads and saves the job with.                                           *)
Timeout(t) ==
  /\ waiters[t] \in Waiting
  /\ GoOn(t, "lost")
  /\ UNCHANGED <<tables, calls, clusters>>

VerifySource(t) ==
  /\ Waits(t, "source")
  /\ GoOn(t, IF sources[tasks[t].plan] = "off" THEN "target" ELSE "failed")
  /\ UNCHANGED <<tables, calls, clusters>>

(* Mutation of VerifyTarget: a target that runs ends the wait at once.     *)
VerifyAndReturn(t) ==
  /\ Waits(t, "target")
  /\ GoOn(t, IF targets[tasks[t].id].power = "off" THEN "succeeded" ELSE "done")
  /\ UNCHANGED <<tables, calls, clusters>>

(* A target that runs, as it does after a live migration, is a failure.    *)
VerifyTarget(t) ==
  /\ Waits(t, "target")
  /\ GoOn(t, IF targets[tasks[t].id].power = "off" THEN "succeeded" ELSE "failed")
  /\ UNCHANGED <<tables, calls, clusters>>

(* The outcome is written to the job the plan has by then.  An error of    *)
(* the store is dropped, before or after the job is saved.                 *)
FinishExternal(t) ==
  /\ waiters[t] \in {"succeeded", "failed"}
  /\ LET ended == [jobs EXCEPT ![tasks[t].plan].state = waiters[t]] IN
     \/ jobs' = ended /\ GoOn(t, "done")
     \/ jobs' = jobs /\ GoOn(t, "lost")
  /\ UNCHANGED <<plans, calls, clusters>>

-----------------------------------------------------------------------------
(* Proxmox and its operators *)

Completed(t) == [tasks EXCEPT ![t].state = "ok"]

(* The task refuses an id that is taken.  It keeps the source, stopped,    *)
(* and a live migration leaves the target running.                         *)
TaskSucceeds(t) ==
  LET p == tasks[t].plan  id == tasks[t].id IN
  /\ tasks[t].state = "running"
  /\ Ready(p) /\ targets[id].power = "absent"
  /\ tasks' = Completed(t)
  /\ targets' = [targets EXCEPT ![id] =
       [power |-> IF p \in LivePlans THEN "on" ELSE "off", task |-> t]]
  /\ sources' = [sources EXCEPT ![p] = "off"]
  /\ UNCHANGED <<tables, calls, waiters>>

TaskFails(t) ==
  /\ tasks[t].state = "running"
  /\ tasks' = [tasks EXCEPT ![t].state = "failed"]
  /\ UNCHANGED <<tables, calls, waiters, sources, targets>>

Switched(power) == IF power = "on" THEN "off" ELSE "on"

SwitchSource(p) ==
  /\ ~Locked(p)
  /\ sources' = [sources EXCEPT ![p] = Switched(@)]
  /\ UNCHANGED <<tables, calls, waiters, tasks, targets>>

SwitchTarget(id) ==
  /\ targets[id].power # "absent"
  /\ targets' = [targets EXCEPT ![id].power = Switched(@)]
  /\ UNCHANGED <<tables, calls, waiters, tasks, sources>>

SomebodyCreates(id) ==
  /\ targets[id].power = "absent"
  /\ targets' = [targets EXCEPT ![id].power = "off"]
  /\ UNCHANGED <<tables, calls, waiters, tasks, sources>>

(* The requests and the goroutines die; nothing takes the tasks up again.  *)
BackendDies ==
  /\ \/ \E r \in Requests : calls[r] # NoCall
     \/ \E t \in Tasks : waiters[t] \in Waiting
  /\ calls' = [r \in Requests |-> NoCall]
  /\ waiters' = [t \in Tasks |->
       IF waiters[t] \in Waiting \/ \E r \in Requests : calls[r].task = t
         THEN "lost" ELSE waiters[t]]
  /\ UNCHANGED <<tables, clusters>>

-----------------------------------------------------------------------------

RemoteInit ==
  /\ plans = [p \in Plans |-> NewRow]
  /\ jobs = [p \in Plans |-> NoJob]
  /\ calls = [r \in Requests |-> NoCall]
  /\ waiters = [t \in Tasks |-> "none"]
  /\ tasks = [t \in Tasks |-> [plan |-> NoPlan, id |-> NoVM, state |-> "none"]]
  /\ sources \in [Plans -> {"on", "off"}]
  /\ targets = [id \in VMIds |-> [power |-> "absent", task |-> NoTask]]

RequestStep(r) ==
  \/ InspectClusters(r) \/ FinishPreflight(r)
  \/ Refuse(r) \/ CheckAgain(r) \/ ReadNextVMID(r) \/ PostMigration(r)
  \/ SaveTarget(r) \/ StartExternal(r)

WaiterEnds(t) ==
  \/ PollStopped(t) \/ VerifySource(t) \/ VerifyTarget(t) \/ FinishExternal(t)

TaskEnds(t) == TaskSucceeds(t) \/ TaskFails(t)

RemoteNext ==
  \/ \E r \in Requests :
       \/ RequestStep(r)
       \/ \E p \in Plans : Preflight(r, p) \/ Execute(r, p)
  \/ \E p \in Plans : ApprovePlan(p) \/ SwitchSource(p)
  \/ \E t \in Tasks :
       \/ WaiterEnds(t) \/ PollRunning(t) \/ PlatformFails(t) \/ Timeout(t)
       \/ TaskEnds(t)
  \/ \E id \in VMIds : SwitchTarget(id) \/ SomebodyCreates(id)
  \/ BackendDies

(* A goroutine polls every two seconds, and a task of Proxmox ends.        *)
RemoteSpec ==
  /\ RemoteInit /\ [][RemoteNext]_remoteVars
  /\ \A t \in Tasks : WF_remoteVars(WaiterEnds(t)) /\ WF_remoteVars(TaskEnds(t))

-----------------------------------------------------------------------------
(* Properties *)

(* Every variable keeps its type, a job names its task and who waits for a *)
(* task was told its plan.                                                 *)
RemoteTypeOK ==
  /\ plans \in [Plans -> Row]
  /\ jobs \in [Plans -> Job]
  /\ calls \in [Requests -> Call]
  /\ waiters \in [Tasks -> WaiterStates]
  /\ tasks \in [Tasks -> Task]
  /\ sources \in [Plans -> {"on", "off"}]
  /\ targets \in [VMIds -> TargetVM]
  /\ \A p \in Plans : jobs[p].state # "none" => jobs[p].task \in Tasks
  /\ \A t \in Tasks : waiters[t] \in Waiting => tasks[t].plan \in Plans

(* The task moved the VM of the plan: it went well and what has its id on  *)
(* the target cluster is what it made.                                     *)
Moved(p, t) ==
  tasks[t].plan = p /\ tasks[t].state = "ok" /\ targets[tasks[t].id].task = t

(* A job is stored as succeeded only when some task moved the VM of its    *)
(* plan and the VM with that task's id is still the one it made, through   *)
(* failed saves, lost answers, deaths of the backend, overlapping          *)
(* executions of the plan and executions of other plans that were given    *)
(* the same VM id.                                                         *)
SuccessHasAMigration ==
  \A p \in Plans : jobs[p].state = "succeeded" => \E t \in Tasks : Moved(p, t)

(* What a comment says and the code does not keep, "FinishExternal records *)
(* the terminal state of an asynchronous Proxmox task": the task that      *)
(* moved the VM is the one the job names. Two executions of one plan break *)
(* it, since the goroutine of the first records its end in the job of the  *)
(* second.                                                                 *)
SuccessIsOfItsTask ==
  \A p \in Plans : jobs[p].state = "succeeded" =>
    \E t \in Tasks : jobs[p].task = t /\ Moved(p, t)

(* What the documentation says and the code does not keep, "running |      *)
(* Execution in progress": Proxmox works at the task of a running job or a *)
(* goroutine is about to record its end. Nothing looks at a job again      *)
(* whose goroutine died, timed out or could not save.                      *)
RunningIsInProgress ==
  \A p \in Plans : jobs[p].state = "running" =>
    \E t \in Tasks :
      jobs[p].task = t /\ (tasks[t].state = "running" \/ waiters[t] \in Waiting)

(* The inductive invariant: what an open request holds, and what the tasks *)
(* and their goroutines stand for.                                         *)
RequestOK(r) ==
  /\ At(r, "idle") => calls[r] = NoCall
  /\ ~At(r, "idle") => PlanOf(r) \in Plans
  /\ At(r, "post") => calls[r].id \in VMIds
  /\ calls[r].at \in {"save", "register"} =>
       calls[r].task \in Tasks /\ tasks[calls[r].task].plan = PlanOf(r)

TaskOK(t) ==
  /\ tasks[t].state = "none" => tasks[t].plan = NoPlan
  /\ tasks[t].state # "none" => tasks[t].plan \in Plans /\ tasks[t].id \in VMIds
  /\ tasks[t].state = "ok" =>
       targets[tasks[t].id].power # "absent" /\ targets[tasks[t].id].task = t

WaiterOK(t) == waiters[t] \in Waiting =>
  /\ jobs[tasks[t].plan].state # "none"
  /\ waiters[t] \in {"source", "target", "succeeded"} => tasks[t].state = "ok"

RemoteInv ==
  /\ RemoteTypeOK
  /\ \A r \in Requests : RequestOK(r)
  /\ \A t \in Tasks : TaskOK(t) /\ WaiterOK(t)
  /\ SuccessHasAMigration

(* A job does not stay running: it ends, or its goroutine was lost to a    *)
(* death of the backend, to twelve hours, or to the store.                 *)
RunningJobEnds ==
  \A p \in Plans :
    jobs[p].state = "running" ~>
      \/ jobs[p].state # "running"
      \/ \E t \in Tasks : jobs[p].task = t /\ waiters[t] = "lost"

=============================================================================
