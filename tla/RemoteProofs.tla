--------------------------- MODULE RemoteProofs ---------------------------
(***************************************************************************)
(* Theorems of RemoteMigration, for any plans, requests, VM ids and number *)
(* of tasks: a job is not recorded as succeeded unless its VM was moved.   *)
(***************************************************************************)
EXTENDS RemoteMigration, NaturalLemmas

(* The smallest unused id is an unused id.                                 *)
LEMMA MinIsMember ==
  ASSUME NEW S, S \subseteq VMIds, S # {}
  PROVE  Min(S) \in S
<1>1. PICK n \in S : \A m \in S : n <= m
  BY LeastNatural, RemoteAssumption
<1> QED BY <1>1 DEF Min

(* The empty values have their types.                                      *)
LEMMA EmptyTypes == NewRow \in Row /\ NoJob \in Job /\ NoCall \in Call
<1>1. NewRow \in Row
  BY DEF NewRow, Row
<1> QED
  BY <1>1 DEF NoJob, Job, NoCall, Call, CallLabels

(* Initially there are no requests, tasks or jobs.                         *)
LEMMA InitInv == RemoteInit => RemoteInv
<1> SUFFICES ASSUME RemoteInit PROVE RemoteInv
  OBVIOUS
<1>1. /\ \A p \in Plans : jobs[p] = NoJob
      /\ \A r \in Requests : calls[r] = NoCall
      /\ \A t \in Tasks : /\ waiters[t] = "none"
                          /\ tasks[t] = [plan |-> NoPlan, id |-> NoVM, state |-> "none"]
  BY DEF RemoteInit
<1>2. RemoteTypeOK
  BY <1>1, EmptyTypes
  DEF RemoteInit, RemoteTypeOK, NoJob, Waiting, WaiterStates, Task, TargetVM
<1>3. \A r \in Requests : RequestOK(r)
  BY <1>1 DEF RequestOK, At, NoCall
<1>4. \A t \in Tasks : TaskOK(t) /\ WaiterOK(t)
  BY <1>1 DEF TaskOK, WaiterOK, Waiting
<1>5. SuccessHasAMigration
  BY <1>1 DEF SuccessHasAMigration, NoJob
<1> QED BY <1>2, <1>3, <1>4, <1>5 DEF RemoteInv

-----------------------------------------------------------------------------
(* Requests                                                                *)

(* A request whose task stands: what it holds does not depend on others.   *)
LEMMA RequestFrame ==
  ASSUME NEW r \in Requests, RequestOK(r), calls'[r] = calls[r],
         \A t \in Tasks : tasks'[t].plan = tasks[t].plan
  PROVE  RequestOK(r)'
BY DEF RequestOK, At, PlanOf

(* Requests and goroutines end or go on with a task that went well; the    *)
(* job table, the tasks and the targets stay.                              *)
LEMMA FadeKeepsInv ==
  ASSUME RemoteInv, plans' \in [Plans -> Row], sources' \in [Plans -> {"on", "off"}],
         calls' \in [Requests -> Call], waiters' \in [Tasks -> WaiterStates],
         \A r \in Requests : calls'[r] \in {calls[r], NoCall},
         \A t \in Tasks : waiters'[t] \in Waiting =>
           /\ waiters[t] \in Waiting
           /\ waiters'[t] \in {"source", "target", "succeeded"} => tasks[t].state = "ok",
         UNCHANGED <<jobs, tasks, targets>>
  PROVE  RemoteInv'
<1>1. RemoteTypeOK'
  BY DEF RemoteInv, RemoteTypeOK
<1>2. \A r \in Requests : RequestOK(r)'
  <2> SUFFICES ASSUME NEW r \in Requests PROVE RequestOK(r)'
    OBVIOUS
  <2>1. CASE calls'[r] = calls[r]
    BY <2>1, RequestFrame DEF RemoteInv
  <2>2. CASE calls'[r] = NoCall
    BY <2>2 DEF RequestOK, At, NoCall
  <2> QED BY <2>1, <2>2
<1>3. \A t \in Tasks : TaskOK(t)' /\ WaiterOK(t)'
  BY DEF RemoteInv, TaskOK, WaiterOK
<1>4. SuccessHasAMigration'
  BY DEF RemoteInv, SuccessHasAMigration, Moved
<1> QED BY <1>1, <1>2, <1>3, <1>4 DEF RemoteInv

(* One request opens or goes on.                                           *)
LEMMA CallKeepsInv ==
  ASSUME RemoteInv, NEW r \in Requests, NEW c \in Call,
         calls' = [calls EXCEPT ![r] = c], RequestOK(r)',
         UNCHANGED <<tables, waiters, clusters>>
  PROVE  RemoteInv'
<1>1. RemoteTypeOK'
  BY DEF RemoteInv, RemoteTypeOK, tables, clusters
<1>2. \A q \in Requests : calls'[q] = IF q = r THEN c ELSE calls[q]
  BY DEF RemoteInv, RemoteTypeOK
<1>3. \A q \in Requests : RequestOK(q)'
  BY <1>2, RequestFrame DEF RemoteInv, clusters
<1>4. \A t \in Tasks : TaskOK(t)' /\ WaiterOK(t)'
  BY DEF RemoteInv, TaskOK, WaiterOK, tables, clusters
<1>5. SuccessHasAMigration'
  BY DEF RemoteInv, SuccessHasAMigration, Moved, tables, clusters
<1> QED BY <1>1, <1>3, <1>4, <1>5 DEF RemoteInv

(* The reads and checks before the migration is posted.                    *)
LEMMA RequestsInv ==
  ASSUME RemoteInv, NEW r \in Requests,
         \/ \E p \in Plans : Preflight(r, p) \/ Execute(r, p)
         \/ InspectClusters(r) \/ CheckAgain(r) \/ ReadNextVMID(r)
  PROVE  RemoteInv'
<1>1. calls[r] \in Call /\ calls \in [Requests -> Call] /\ RequestOK(r)
  BY DEF RemoteInv, RemoteTypeOK
<1>2. ASSUME NEW p \in Plans, NEW l \in {"preflight", "check"}, Open(r, p, l),
             UNCHANGED <<tables, waiters, clusters>>
      PROVE  RemoteInv'
  <2>1. PICK c \in Call : c = [NoCall EXCEPT !.at = l, !.plan = p, !.copy = plans[p]]
    BY EmptyTypes DEF RemoteInv, RemoteTypeOK, Call, CallLabels
  <2>2. c.at = l /\ c.plan = p
    BY <2>1 DEF NoCall
  <2>3. calls' = [calls EXCEPT ![r] = c]
    BY <1>2, <2>1 DEF Open
  <2>4. RequestOK(r)'
    BY <1>1, <2>2, <2>3 DEF RequestOK, At, PlanOf
  <2> QED BY <1>2, <2>2, <2>3, <2>4, CallKeepsInv
<1>3. CASE InspectClusters(r)
  <2>1. PICK passed \in BOOLEAN :
          calls' = [calls EXCEPT ![r].at = "verdict",
            ![r].copy = [@ EXCEPT !.status = "preflight", !.passed = passed]]
    BY <1>3 DEF InspectClusters
  <2> DEFINE row == [calls[r].copy EXCEPT !.status = "preflight", !.passed = passed]
             d == [calls[r] EXCEPT !.at = "verdict", !.copy = row]
  <2>2. row \in Row
    <3>1. calls[r].copy \in Row
      BY <1>1 DEF Call
    <3> QED BY <3>1 DEF Row
  <2>3. calls' = [calls EXCEPT ![r] = d]
    BY <1>1, <2>1
  <2> HIDE DEF row
  <2>4. d \in Call /\ d.at = "verdict" /\ d.plan = PlanOf(r)
    BY <1>1, <2>2 DEF Call, CallLabels, PlanOf
  <2> HIDE DEF d
  <2>5. RequestOK(r)'
    <3>1. PlanOf(r) \in Plans
      BY <1>1, <1>3 DEF InspectClusters, RequestOK, At
    <3> QED BY <1>1, <2>3, <2>4, <3>1 DEF RequestOK, At, PlanOf
  <2> QED BY <1>3, <2>3, <2>4, <2>5, CallKeepsInv DEF InspectClusters
<1>4. CASE CheckAgain(r)
  <2>1. PICK c \in Call : c = [calls[r] EXCEPT !.at = "reserve"]
    BY <1>1 DEF Call, CallLabels
  <2>2. c.at = "reserve" /\ c.plan = PlanOf(r)
    BY <1>1, <2>1 DEF Call, PlanOf
  <2>3. calls' = [calls EXCEPT ![r] = c] /\ At(r, "check")
    BY <1>4, <2>1 DEF CheckAgain, Goto
  <2>4. RequestOK(r)'
    BY <1>1, <2>2, <2>3 DEF RequestOK, At, PlanOf
  <2> QED BY <1>4, <2>2, <2>3, <2>4, CallKeepsInv DEF CheckAgain
<1>5. CASE ReadNextVMID(r)
  <2> DEFINE free == {i \in VMIds : targets[i].power = "absent"}
  <2>1. PICK id \in VMIds : id = Min(free)
    BY <1>5, MinIsMember DEF ReadNextVMID
  <2>2. PICK c \in Call : c = [calls[r] EXCEPT !.at = "post", !.id = id]
    BY <1>1 DEF Call, CallLabels
  <2>3. c.at = "post" /\ c.plan = PlanOf(r) /\ c.id = id
    BY <1>1, <2>2 DEF Call, PlanOf
  <2>4. calls' = [calls EXCEPT ![r] = c] /\ At(r, "reserve")
    BY <1>1, <1>5, <2>1, <2>2 DEF ReadNextVMID
  <2>5. RequestOK(r)'
    BY <1>1, <2>3, <2>4 DEF RequestOK, At, PlanOf
  <2> QED BY <1>5, <2>3, <2>4, <2>5, CallKeepsInv DEF ReadNextVMID
<1> QED BY <1>2, <1>3, <1>4, <1>5 DEF Preflight, Execute

(* A request, a goroutine, a row of the plan table or a source VM changes, *)
(* the tasks and the jobs do not.                                          *)
LEMMA FadingInv ==
  ASSUME RemoteInv,
         \/ \E r \in Requests : FinishPreflight(r) \/ Refuse(r)
         \/ \E p \in Plans : ApprovePlan(p) \/ SwitchSource(p)
         \/ \E t \in Tasks : PollStopped(t) \/ PlatformFails(t) \/ Timeout(t)
                             \/ VerifySource(t) \/ VerifyTarget(t)
         \/ BackendDies
         \/ UNCHANGED remoteVars
  PROVE  RemoteInv'
<1>1. /\ plans \in [Plans -> Row] /\ sources \in [Plans -> {"on", "off"}]
      /\ calls \in [Requests -> Call] /\ waiters \in [Tasks -> WaiterStates]
      /\ \A r \in Requests : RequestOK(r)
      /\ \A t \in Tasks : WaiterOK(t)
  BY DEF RemoteInv, RemoteTypeOK
<1>2. ASSUME NEW r \in Requests, FinishPreflight(r) \/ Refuse(r) PROVE RemoteInv'
  <2>1. /\ calls' \in [Requests -> Call]
        /\ \A q \in Requests : calls'[q] \in {calls[q], NoCall}
    BY <1>1, <1>2, EmptyTypes DEF FinishPreflight, Refuse, Respond
  <2>2. plans' \in [Plans -> Row]
    <3>1. calls[r].copy \in Row
      BY <1>1 DEF Call
    <3> QED
      BY <1>1, <1>2, <3>1 DEF FinishPreflight, Refuse, tables
  <2>3. UNCHANGED <<jobs, waiters, tasks, sources, targets>>
    BY <1>2 DEF FinishPreflight, Refuse, tables, clusters
  <2> QED BY <1>1, <2>1, <2>2, <2>3, FadeKeepsInv DEF WaiterOK
<1>3. ASSUME NEW p \in Plans, ApprovePlan(p) \/ SwitchSource(p) PROVE RemoteInv'
  <2>1. plans' \in [Plans -> Row] /\ sources' \in [Plans -> {"on", "off"}]
    BY <1>1, <1>3 DEF ApprovePlan, SwitchSource, Switched, Row, tables, clusters
  <2>2. UNCHANGED <<jobs, calls, waiters, tasks, targets>>
    BY <1>3 DEF ApprovePlan, SwitchSource, tables, clusters
  <2> QED BY <1>1, <2>1, <2>2, FadeKeepsInv DEF WaiterOK
<1>4. ASSUME NEW t \in Tasks,
             PollStopped(t) \/ PlatformFails(t) \/ Timeout(t) \/ VerifySource(t) \/ VerifyTarget(t)
      PROVE  RemoteInv'
  <2>1. PICK w \in WaiterStates :
          /\ waiters' = [waiters EXCEPT ![t] = w]
          /\ w \in Waiting => /\ waiters[t] \in Waiting
                              /\ w \in {"source", "target", "succeeded"} => tasks[t].state = "ok"
    <3>1. WaiterOK(t)
      BY <1>1
    <3>2. CASE PollStopped(t)
      <4>1. \E w \in {"source", "failed"} :
              /\ waiters[t] = "wait" /\ waiters' = [waiters EXCEPT ![t] = w]
              /\ w = "source" => tasks[t].state = "ok"
        BY <3>2 DEF PollStopped, Waits, GoOn
      <4> QED BY <4>1 DEF Waiting, WaiterStates
    <3>3. CASE PlatformFails(t) \/ Timeout(t)
      <4>1. \E w \in {"failed", "lost"} :
              waiters[t] \in Waiting /\ waiters' = [waiters EXCEPT ![t] = w]
        BY <3>3 DEF PlatformFails, Timeout, GoOn, Waiting
      <4> QED BY <4>1 DEF Waiting, WaiterStates
    <3>4. CASE VerifySource(t) \/ VerifyTarget(t)
      <4>1. waiters[t] \in {"source", "target"} /\ tasks[t].state = "ok"
        BY <3>1, <3>4 DEF VerifySource, VerifyTarget, Waits, Waiting, WaiterOK
      <4>2. \E w \in {"target", "succeeded", "failed"} : waiters' = [waiters EXCEPT ![t] = w]
        BY <3>4 DEF VerifySource, VerifyTarget, GoOn
      <4> QED BY <4>1, <4>2 DEF Waiting, WaiterStates
    <3> QED BY <1>4, <3>2, <3>3, <3>4
  <2>2. UNCHANGED <<tables, calls, clusters>>
    BY <1>4 DEF PollStopped, PlatformFails, Timeout, VerifySource, VerifyTarget
  <2> QED BY <1>1, <2>1, <2>2, FadeKeepsInv DEF WaiterOK, tables, clusters
<1>5. CASE BackendDies
  <2>1. /\ waiters' \in [Tasks -> WaiterStates]
        /\ \A t \in Tasks : waiters'[t] \in {waiters[t], "lost"}
    BY <1>1, <1>5 DEF BackendDies, WaiterStates
  <2>2. /\ calls' \in [Requests -> Call] /\ \A r \in Requests : calls'[r] = NoCall
        /\ UNCHANGED <<tables, clusters>>
    BY <1>5, EmptyTypes DEF BackendDies
  <2> QED BY <1>1, <2>1, <2>2, FadeKeepsInv DEF WaiterOK, Waiting, tables, clusters
<1>6. CASE UNCHANGED remoteVars
  BY <1>1, <1>6, FadeKeepsInv DEF WaiterOK, remoteVars
<1> QED BY <1>2, <1>3, <1>4, <1>5, <1>6

-----------------------------------------------------------------------------
(* Tasks                                                                   *)

(* The source cluster takes the task: nobody waited for it before.         *)
LEMMA PostInv ==
  ASSUME RemoteInv, NEW r \in Requests, PostMigration(r)
  PROVE  RemoteInv'
<1>1. /\ calls[r] \in Call /\ RequestOK(r) /\ At(r, "post")
      /\ PlanOf(r) \in Plans /\ calls[r].id \in VMIds
      /\ calls \in [Requests -> Call] /\ waiters \in [Tasks -> WaiterStates]
      /\ tasks \in [Tasks -> Task]
  BY DEF PostMigration, RequestOK, At, RemoteInv, RemoteTypeOK
<1>2. PICK t \in Tasks :
        /\ tasks[t].state = "none"
        /\ tasks' = [tasks EXCEPT ![t] =
             [plan |-> PlanOf(r), id |-> calls[r].id, state |-> "running"]]
        /\ \/ calls' = [calls EXCEPT ![r].at = "save", ![r].task = t] /\ UNCHANGED waiters
           \/ Respond(r) /\ GoOn(t, "lost")
  BY DEF PostMigration
<1>3. PICK p \in Plans, id \in VMIds : p = PlanOf(r) /\ id = calls[r].id
  BY <1>1
<1>4. /\ tasks'[t].plan = p /\ tasks'[t].id = id /\ tasks'[t].state = "running"
      /\ \A u \in Tasks \ {t} : tasks'[u] = tasks[u]
      /\ tasks' \in [Tasks -> Task]
  BY <1>1, <1>2, <1>3 DEF Task
<1>5. /\ waiters' \in [Tasks -> WaiterStates] /\ waiters[t] \notin Waiting
      /\ \A u \in Tasks : waiters'[u] \in Waiting =>
           u # t /\ waiters'[u] = waiters[u]
  <2>1. tasks[t].plan = NoPlan
    BY <1>2 DEF RemoteInv, TaskOK
  <2>2. waiters[t] \notin Waiting
    BY <2>1, RemoteAssumption DEF RemoteInv, RemoteTypeOK
  <2>3. waiters' \in [Tasks -> WaiterStates] /\ \A u \in Tasks : waiters'[u] \in {waiters[u], "lost"}
    BY <1>1, <1>2 DEF GoOn, WaiterStates
  <2>4. waiters'[t] \notin Waiting
    BY <2>2, <2>3 DEF Waiting
  <2> QED BY <2>2, <2>3, <2>4 DEF Waiting
<1>6. PICK c \in Call :
        /\ calls' = [calls EXCEPT ![r] = c]
        /\ c = NoCall \/ (c.at = "save" /\ c.task = t /\ c.plan = p)
  <2>1. [calls[r] EXCEPT !.at = "save", !.task = t] \in Call
    BY <1>1 DEF Call, CallLabels
  <2>2. /\ [calls[r] EXCEPT !.at = "save", !.task = t].at = "save"
        /\ [calls[r] EXCEPT !.at = "save", !.task = t].task = t
        /\ [calls[r] EXCEPT !.at = "save", !.task = t].plan = p
    BY <1>1, <1>3 DEF Call, PlanOf
  <2>3. CASE calls' = [calls EXCEPT ![r].at = "save", ![r].task = t]
    <3>1. calls' = [calls EXCEPT ![r] = [calls[r] EXCEPT !.at = "save", !.task = t]]
      BY <1>1, <2>3
    <3> QED BY <2>1, <2>2, <3>1
  <2>4. CASE Respond(r)
    BY <2>4, EmptyTypes DEF Respond
  <2> QED BY <1>2, <2>3, <2>4
<1>7. \A q \in Requests : calls'[q] = IF q = r THEN c ELSE calls[q]
  BY <1>1, <1>6
<1>8. UNCHANGED <<tables, sources, targets>>
  BY DEF PostMigration
<1>9. RemoteTypeOK'
  <2>1. calls' \in [Requests -> Call]
    BY <1>1, <1>6
  <2>2. \A u \in Tasks : waiters'[u] \in Waiting => tasks'[u].plan \in Plans
    BY <1>4, <1>5 DEF RemoteInv, RemoteTypeOK
  <2> QED
    BY <1>4, <1>5, <1>8, <2>1, <2>2 DEF RemoteInv, RemoteTypeOK, tables
<1>10. \A q \in Requests : RequestOK(q)'
  <2> SUFFICES ASSUME NEW q \in Requests PROVE RequestOK(q)'
    OBVIOUS
  <2>1. CASE q = r
    BY <1>4, <1>6, <1>7, <2>1 DEF RequestOK, At, PlanOf, NoCall
  <2>2. CASE q # r
    <3>1. calls'[q] = calls[q] /\ RequestOK(q)
      BY <1>7, <2>2 DEF RemoteInv
    <3>2. calls[q].at \in {"save", "register"} => calls[q].task # t
      <4>1. tasks[t].plan = NoPlan
        BY <1>2 DEF RemoteInv, TaskOK
      <4> QED BY <3>1, <4>1, RemoteAssumption DEF RequestOK, At
    <3> QED
      BY <1>4, <3>1, <3>2 DEF RequestOK, At, PlanOf
  <2> QED BY <2>1, <2>2
<1>11. \A u \in Tasks : TaskOK(u)' /\ WaiterOK(u)'
  <2> SUFFICES ASSUME NEW u \in Tasks PROVE TaskOK(u)' /\ WaiterOK(u)'
    OBVIOUS
  <2>1. CASE u = t
    BY <1>4, <1>5, <2>1 DEF TaskOK, WaiterOK
  <2>2. CASE u # t
    BY <1>4, <1>5, <1>8, <2>2 DEF RemoteInv, TaskOK, WaiterOK, tables
  <2> QED BY <2>1, <2>2
<1>12. SuccessHasAMigration'
  BY <1>2, <1>4, <1>8 DEF RemoteInv, SuccessHasAMigration, Moved, tables
<1> QED BY <1>9, <1>10, <1>11, <1>12 DEF RemoteInv

(* Proxmox ends the task, and its operators switch and create VMs: a       *)
(* target that a task made keeps its task.                                 *)
LEMMA ClustersInv ==
  ASSUME RemoteInv,
         \/ \E t \in Tasks : TaskEnds(t)
         \/ \E id \in VMIds : SwitchTarget(id) \/ SomebodyCreates(id)
  PROVE  RemoteInv'
<1>1. /\ tasks \in [Tasks -> Task] /\ targets \in [VMIds -> TargetVM]
      /\ sources \in [Plans -> {"on", "off"}]
      /\ \A t \in Tasks : TaskOK(t) /\ WaiterOK(t)
  BY DEF RemoteInv, RemoteTypeOK
<1>2. UNCHANGED <<tables, calls, waiters>>
  BY DEF TaskEnds, TaskSucceeds, TaskFails, SwitchTarget, SomebodyCreates
<1>3. /\ tasks' \in [Tasks -> Task] /\ targets' \in [VMIds -> TargetVM]
      /\ sources' \in [Plans -> {"on", "off"}]
      /\ \A t \in Tasks : tasks'[t].plan = tasks[t].plan /\ TaskOK(t)'
      /\ \A t \in Tasks : tasks[t].state = "ok" => tasks'[t] = tasks[t]
  <2>1. ASSUME NEW t \in Tasks, TaskSucceeds(t) PROVE <1>3!:
    <3> DEFINE p == tasks[t].plan  id == tasks[t].id
               made == [power |-> IF p \in LivePlans THEN "on" ELSE "off", task |-> t]
    <3>1. /\ tasks[t].state = "running" /\ targets[id].power = "absent"
          /\ tasks' = [tasks EXCEPT ![t].state = "ok"]
          /\ targets' = [targets EXCEPT ![id] = made]
          /\ sources' = [sources EXCEPT ![p] = "off"]
      BY <2>1 DEF TaskSucceeds, Completed
    <3>2. p \in Plans /\ id \in VMIds
      BY <1>1, <3>1 DEF TaskOK
    <3>3. made \in TargetVM /\ made.power # "absent" /\ made.task = t
      BY DEF TargetVM
    <3>4. /\ tasks'[t].plan = p /\ tasks'[t].id = id /\ tasks'[t].state = "ok"
          /\ \A u \in Tasks \ {t} : tasks'[u] = tasks[u]
          /\ tasks' \in [Tasks -> Task]
      BY <1>1, <3>1 DEF Task
    <3> HIDE DEF made, p, id
    <3>5. /\ targets'[id] = made /\ \A i \in VMIds \ {id} : targets'[i] = targets[i]
          /\ targets' \in [VMIds -> TargetVM] /\ sources' \in [Plans -> {"on", "off"}]
      BY <1>1, <3>1, <3>2, <3>3
    <3>6. ASSUME NEW u \in Tasks PROVE TaskOK(u)'
      <4>1. CASE u = t
        BY <3>2, <3>3, <3>4, <3>5, <4>1 DEF TaskOK
      <4>2. CASE u # t
        <5>1. TaskOK(u) /\ tasks'[u] = tasks[u]
          BY <1>1, <3>4, <4>2
        <5>2. tasks[u].state = "ok" => tasks[u].id # id
          BY <3>1, <5>1 DEF TaskOK
        <5> QED BY <3>5, <5>1, <5>2 DEF TaskOK
      <4> QED BY <4>1, <4>2
    <3> QED BY <3>1, <3>4, <3>5, <3>6 DEF p
  <2>2. ASSUME NEW t \in Tasks, TaskFails(t) PROVE <1>3!:
    <3>1. /\ tasks[t].state = "running" /\ UNCHANGED <<sources, targets>>
          /\ tasks' = [tasks EXCEPT ![t].state = "failed"]
      BY <2>2 DEF TaskFails
    <3>2. /\ tasks'[t].plan = tasks[t].plan /\ tasks'[t].id = tasks[t].id
          /\ tasks'[t].state = "failed"
          /\ \A u \in Tasks \ {t} : tasks'[u] = tasks[u]
          /\ tasks' \in [Tasks -> Task]
      BY <1>1, <3>1 DEF Task
    <3>3. ASSUME NEW u \in Tasks PROVE TaskOK(u)'
      <4>1. TaskOK(u)
        BY <1>1
      <4> QED BY <3>1, <3>2, <4>1 DEF TaskOK
    <3> QED BY <1>1, <3>1, <3>2, <3>3
  <2>3. ASSUME NEW id \in VMIds, SwitchTarget(id) \/ SomebodyCreates(id) PROVE <1>3!:
    <3>1. UNCHANGED <<tasks, sources>>
      BY <2>3 DEF SwitchTarget, SomebodyCreates
    <3>2. /\ targets' \in [VMIds -> TargetVM]
          /\ \A i \in VMIds : /\ targets'[i].task = targets[i].task
                              /\ targets[i].power # "absent" => targets'[i].power # "absent"
      BY <1>1, <2>3 DEF SwitchTarget, SomebodyCreates, Switched, TargetVM
    <3> QED BY <1>1, <3>1, <3>2 DEF TaskOK
  <2> QED BY <2>1, <2>2, <2>3 DEF TaskEnds
<1>4. RemoteTypeOK'
  BY <1>2, <1>3 DEF RemoteInv, RemoteTypeOK, tables
<1>5. \A r \in Requests : RequestOK(r)'
  BY <1>2, <1>3, RequestFrame DEF RemoteInv
<1>6. \A t \in Tasks : WaiterOK(t)'
  BY <1>1, <1>2, <1>3 DEF WaiterOK, tables
<1>7. SuccessHasAMigration'
  BY <1>2, <1>3 DEF RemoteInv, SuccessHasAMigration, Moved, TaskOK, tables
<1> QED BY <1>3, <1>4, <1>5, <1>6, <1>7 DEF RemoteInv

-----------------------------------------------------------------------------
(* The tables                                                              *)

(* SaveTarget writes the row, whatever becomes of the answer.              *)
LEMMA SaveTargetInv ==
  ASSUME RemoteInv, NEW r \in Requests, SaveTarget(r)
  PROVE  RemoteInv'
<1>1. /\ calls[r] \in Call /\ RequestOK(r) /\ At(r, "save") /\ plans \in [Plans -> Row]
      /\ calls \in [Requests -> Call] /\ waiters \in [Tasks -> WaiterStates]
      /\ sources \in [Plans -> {"on", "off"}] /\ calls[r].task \in Tasks
      /\ \A t \in Tasks : WaiterOK(t)
  BY DEF SaveTarget, RequestOK, At, RemoteInv, RemoteTypeOK
<1>2. plans' \in [Plans -> Row]
  <2>1. [calls[r].copy EXCEPT !.target = calls[r].id] \in Row
    <3>1. calls[r].copy \in Row /\ calls[r].id \in VMIds \cup {NoVM}
      BY <1>1 DEF Call
    <3> QED BY <3>1 DEF Row
  <2> QED BY <1>1, <2>1 DEF SaveTarget
<1>3. UNCHANGED <<jobs, clusters>>
  BY DEF SaveTarget
<1>4. CASE Goto(r, "register") /\ UNCHANGED waiters
  <2>1. PICK c \in Call : c = [calls[r] EXCEPT !.at = "register"]
    BY <1>1 DEF Call, CallLabels
  <2>2. /\ calls' = [calls EXCEPT ![r] = c] /\ c.at = "register" /\ c.plan = PlanOf(r)
        /\ c.task = calls[r].task
    BY <1>1, <1>4, <2>1 DEF Goto, Call, PlanOf
  <2>3. \A q \in Requests : calls'[q] = IF q = r THEN c ELSE calls[q]
    BY <1>1, <2>2
  <2>4. RemoteTypeOK'
    BY <1>1, <1>2, <1>3, <1>4, <2>2 DEF RemoteInv, RemoteTypeOK, clusters
  <2>5. RequestOK(r)'
    BY <1>1, <1>3, <2>2, <2>3 DEF RequestOK, At, PlanOf, clusters
  <2>6. \A q \in Requests : RequestOK(q)'
    BY <1>3, <2>3, <2>5, RequestFrame DEF RemoteInv, clusters
  <2>7. \A t \in Tasks : TaskOK(t)' /\ WaiterOK(t)'
    BY <1>3, <1>4 DEF RemoteInv, TaskOK, WaiterOK, clusters
  <2>8. SuccessHasAMigration'
    BY <1>3 DEF RemoteInv, SuccessHasAMigration, Moved, clusters
  <2> QED BY <2>4, <2>6, <2>7, <2>8 DEF RemoteInv
<1>5. CASE Respond(r) /\ GoOn(calls[r].task, "lost")
  <2>1. /\ calls' \in [Requests -> Call]
        /\ \A q \in Requests : calls'[q] \in {calls[q], NoCall}
    BY <1>1, <1>5, EmptyTypes DEF Respond
  <2>2. /\ waiters' \in [Tasks -> WaiterStates]
        /\ \A t \in Tasks : waiters'[t] \in {waiters[t], "lost"}
    BY <1>1, <1>5 DEF GoOn, WaiterStates
  <2> QED BY <1>1, <1>2, <1>3, <2>1, <2>2, FadeKeepsInv DEF WaiterOK, Waiting, clusters
<1> QED BY <1>4, <1>5 DEF SaveTarget

(* The job of a started task is stored before anybody waits for the task.  *)
LEMMA StartInv ==
  ASSUME RemoteInv, NEW r \in Requests, StartExternal(r)
  PROVE  RemoteInv'
<1>1. /\ calls[r] \in Call /\ RequestOK(r) /\ At(r, "register") /\ jobs \in [Plans -> Job]
      /\ calls \in [Requests -> Call] /\ waiters \in [Tasks -> WaiterStates]
      /\ calls[r].task \in Tasks /\ PlanOf(r) \in Plans
      /\ tasks[calls[r].task].plan = PlanOf(r)
      /\ \A t \in Tasks : TaskOK(t) /\ WaiterOK(t)
  BY DEF StartExternal, RequestOK, At, RemoteInv, RemoteTypeOK
<1>2. PICK p \in Plans, t \in Tasks : p = PlanOf(r) /\ t = calls[r].task
  BY <1>1
<1>3. PICK j \in Job : j = [state |-> "running", task |-> t, shown |-> t]
  BY DEF Job
<1>4. /\ \/ jobs' = [jobs EXCEPT ![p] = j] /\ GoOn(t, "wait")
         \/ jobs' \in {jobs, [jobs EXCEPT ![p] = j]} /\ GoOn(t, "lost")
      /\ Respond(r) /\ UNCHANGED <<plans, clusters>>
  BY <1>2, <1>3 DEF StartExternal, Started
<1>5. PICK w \in {"wait", "lost"} :
        /\ waiters' = [waiters EXCEPT ![t] = w]
        /\ w = "wait" => jobs' = [jobs EXCEPT ![p] = j]
  BY <1>4 DEF GoOn
<1>6. /\ jobs' \in [Plans -> Job]
      /\ \A q \in Plans \ {p} : jobs'[q] = jobs[q]
      /\ jobs'[p] = jobs[p] \/ jobs'[p] = j
      /\ w = "wait" => jobs'[p] = j
      /\ j.state = "running" /\ j.task = t /\ j.shown = t
  BY <1>1, <1>3, <1>4, <1>5
<1>7. /\ waiters' \in [Tasks -> WaiterStates] /\ waiters'[t] = w
      /\ \A u \in Tasks \ {t} : waiters'[u] = waiters[u]
  BY <1>1, <1>5 DEF WaiterStates, Waiting
<1>8. /\ calls' \in [Requests -> Call] /\ calls'[r] = NoCall
      /\ \A q \in Requests \ {r} : calls'[q] = calls[q]
  BY <1>1, <1>4, EmptyTypes DEF Respond
<1>9. RemoteTypeOK'
  BY <1>1, <1>2, <1>4, <1>6, <1>7, <1>8 DEF RemoteInv, RemoteTypeOK, clusters
<1>10. \A q \in Requests : RequestOK(q)'
  <2>1. RequestOK(r)'
    BY <1>8 DEF RequestOK, At, NoCall
  <2> QED BY <1>4, <1>8, <2>1, RequestFrame DEF RemoteInv, clusters
<1>11. \A u \in Tasks : TaskOK(u)' /\ WaiterOK(u)'
  <2>1. \A u \in Tasks : TaskOK(u)'
    BY <1>1, <1>4 DEF TaskOK, clusters
  <2>2. WaiterOK(t)'
    BY <1>1, <1>2, <1>4, <1>6, <1>7 DEF WaiterOK, Waiting, clusters
  <2>3. ASSUME NEW u \in Tasks \ {t} PROVE WaiterOK(u)'
    <3>1. waiters[u] \in Waiting => tasks[u].plan \in Plans
      BY DEF RemoteInv, RemoteTypeOK
    <3> QED BY <1>1, <1>4, <1>6, <1>7, <3>1 DEF WaiterOK, clusters
  <2> QED BY <2>1, <2>2, <2>3
<1>12. SuccessHasAMigration'
  BY <1>4, <1>6 DEF RemoteInv, SuccessHasAMigration, Moved, clusters
<1> QED BY <1>9, <1>10, <1>11, <1>12 DEF RemoteInv

(* The goroutine of a task writes to the job of its plan, whichever task   *)
(* that job names: a success it records is the success of its own.         *)
LEMMA RecordInv ==
  ASSUME RemoteInv, NEW t \in Tasks, PollRunning(t) \/ FinishExternal(t)
  PROVE  RemoteInv'
<1>1. /\ waiters[t] \in Waiting /\ waiters \in [Tasks -> WaiterStates]
      /\ jobs \in [Plans -> Job] /\ \A u \in Tasks : TaskOK(u) /\ WaiterOK(u)
  BY DEF PollRunning, FinishExternal, Waits, Waiting, RemoteInv, RemoteTypeOK
<1>2. PICK p \in Plans : p = tasks[t].plan
  BY <1>1 DEF RemoteInv, RemoteTypeOK
<1>3. jobs[p] \in Job /\ jobs[p].state # "none" /\ jobs[p].task \in Tasks
  BY <1>1, <1>2 DEF WaiterOK, RemoteInv, RemoteTypeOK
<1>4. UNCHANGED <<plans, calls, clusters>>
  BY DEF PollRunning, FinishExternal
<1>5. /\ waiters' \in [Tasks -> WaiterStates]
      /\ \A u \in Tasks : waiters'[u] \in Waiting => waiters'[u] = waiters[u]
  <2>1. CASE UNCHANGED waiters
    BY <1>1, <2>1
  <2>2. CASE GoOn(t, "done") \/ GoOn(t, "lost")
    BY <1>1, <2>2 DEF GoOn, Waiting, WaiterStates
  <2> QED BY <2>1, <2>2 DEF PollRunning, FinishExternal
<1>6. PICK j \in Job :
        /\ jobs' = [jobs EXCEPT ![p] = j]
        /\ j.state # "none" /\ j.task = jobs[p].task
        /\ j.shown \in {jobs[p].shown, t}
        /\ j.state = "succeeded" =>
             jobs[p].state = "succeeded" \/ waiters[t] = "succeeded"
  <2>1. CASE jobs' = jobs
    <3>1. jobs' = [jobs EXCEPT ![p] = jobs[p]]
      BY <1>1, <2>1
    <3> QED BY <1>3, <3>1
  <2>2. CASE jobs' = [jobs EXCEPT ![p].shown = t]
    <3> DEFINE j == [jobs[p] EXCEPT !.shown = t]
    <3>1. /\ j \in Job /\ j.state = jobs[p].state /\ j.task = jobs[p].task /\ j.shown = t
      BY <1>3 DEF Job
    <3>2. jobs' = [jobs EXCEPT ![p] = j]
      BY <1>1, <2>2
    <3> HIDE DEF j
    <3> QED BY <1>3, <3>1, <3>2
  <2>3. CASE waiters[t] \in {"succeeded", "failed"} /\ jobs' = [jobs EXCEPT ![p].state = waiters[t]]
    <3> DEFINE j == [jobs[p] EXCEPT !.state = waiters[t]]
    <3>1. /\ j \in Job /\ j.state = waiters[t] /\ j.task = jobs[p].task /\ j.shown = jobs[p].shown
      BY <1>3, <2>3 DEF Job
    <3>2. jobs' = [jobs EXCEPT ![p] = j]
      BY <1>1, <2>3
    <3> HIDE DEF j
    <3> QED BY <2>3, <3>1, <3>2
  <2> QED BY <1>2, <2>1, <2>2, <2>3 DEF PollRunning, FinishExternal
<1>7. \A q \in Plans : jobs'[q] = IF q = p THEN j ELSE jobs[q]
  BY <1>1, <1>6
<1>8. RemoteTypeOK'
  BY <1>3, <1>4, <1>5, <1>6, <1>7 DEF RemoteInv, RemoteTypeOK, clusters
<1>9. \A r \in Requests : RequestOK(r)'
  BY <1>4, RequestFrame DEF RemoteInv, clusters
<1>10. \A u \in Tasks : TaskOK(u)' /\ WaiterOK(u)'
  <2>1. \A u \in Tasks : TaskOK(u)'
    BY <1>1, <1>4 DEF TaskOK, clusters
  <2>2. ASSUME NEW u \in Tasks PROVE WaiterOK(u)'
    <3>1. waiters[u] \in Waiting => tasks[u].plan \in Plans
      BY DEF RemoteInv, RemoteTypeOK
    <3>2. \A q \in Plans : jobs[q].state # "none" => jobs'[q].state # "none"
      BY <1>6, <1>7
    <3> QED BY <1>1, <1>4, <1>5, <3>1, <3>2 DEF WaiterOK, clusters
  <2> QED BY <2>1, <2>2
<1>11. SuccessHasAMigration'
  <2> SUFFICES ASSUME NEW q \in Plans, jobs'[q].state = "succeeded"
               PROVE  \E u \in Tasks : Moved(q, u)
    BY <1>4 DEF SuccessHasAMigration, Moved, clusters
  <2>1. CASE jobs[q].state = "succeeded"
    BY <2>1 DEF RemoteInv, SuccessHasAMigration
  <2>2. CASE jobs[q].state # "succeeded"
    <3>1. q = p /\ waiters[t] = "succeeded"
      BY <1>6, <1>7, <2>2
    <3>2. tasks[t].state = "ok" /\ targets[tasks[t].id].task = t
      BY <1>1, <3>1 DEF WaiterOK, TaskOK, Waiting
    <3> QED BY <1>2, <3>1, <3>2 DEF Moved
  <2> QED BY <2>1, <2>2
<1> QED BY <1>8, <1>9, <1>10, <1>11 DEF RemoteInv

-----------------------------------------------------------------------------
(* RemoteInv is an invariant of remote migrations.                         *)
THEOREM RemoteInvariance == RemoteSpec => []RemoteInv
<1>1. RemoteInv /\ [RemoteNext]_remoteVars => RemoteInv'
  BY FadingInv, RequestsInv, PostInv, ClustersInv, SaveTargetInv, StartInv, RecordInv
  DEF RemoteNext, RequestStep, WaiterEnds
<1> QED BY <1>1, InitInv, PTL DEF RemoteSpec

(* A job is stored as succeeded only when a task moved the VM of its plan  *)
(* and the target VM is what that task made, however executions overlap    *)
(* (api/migration.go, executeMigration; job/engine.go, FinishExternal).    *)
THEOREM SuccessIsEarned == RemoteSpec => []SuccessHasAMigration
<1>1. RemoteInv => SuccessHasAMigration
  BY DEF RemoteInv
<1> QED BY <1>1, RemoteInvariance, PTL

=============================================================================
