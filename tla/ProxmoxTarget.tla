---------------------------- MODULE ProxmoxTarget ----------------------------
(***************************************************************************)
(* The target adapter (backend/internal/platform/proxmox, target.go and    *)
(* import.go) on a cluster that works through tasks.  An operation reads   *)
(* the cluster, posts one change, waits for the task of that change and    *)
(* reads again.  The task goes on when its poster has gone, so a retry may *)
(* meet the task of the attempt before.  Proxmox, which is external, works *)
(* on one task of a VM at a time, in the order they were posted.           *)
(*                                                                         *)
(* The engine performs the operations of a plan in the order of            *)
(* ExecutePlan, one plan at a time; a handler performs those of a rollback *)
(* beside it.  A backend that dies takes both with it.  Other users of the *)
(* cluster create VMs of their own; nobody removes one, since those of     *)
(* plans are protected.  The reads before a post are one action.           *)
(*                                                                         *)
(* A plan keeps the VM id it was given.  That the row with the id may be   *)
(* overwritten by an execution that queued or by a late preflight is not   *)
(* the adapter's doing; JobEngine and MigrationApi have it.                *)
(***************************************************************************)
EXTENDS Integers, Sequences, FiniteSets

CONSTANTS
  Plans, Vmids, DiskCount,
  MaxTasks,              \* a bound: tasks of one VM that wait or run
  NoPlan, NoVmid, Somebody

ASSUME TargetAssumption ==
  /\ DiskCount \in Nat \ {0} /\ MaxTasks \in Nat \ {0}
  /\ NoPlan \notin Plans /\ Somebody \notin Plans /\ Somebody # NoPlan
  /\ NoVmid \notin Vmids

VARIABLES
  vms,           \* the cluster
  markers,       \* the disk markers in the description of each VM
  tasks,         \* the tasks of each VM
  vmidOf,        \* TargetVMID of each plan
  progress,      \* operations of each plan that the engine has had answered
  calls          \* the open operation of the engine and of the handler

targetVars == <<vms, markers, tasks, vmidOf, progress, calls>>

Disks == 1..DiskCount
Cluster == INSTANCE TargetVMs

VM == [owner: Plans \cup {Somebody, NoPlan}, slots: [Disks -> Plans \cup {NoPlan}],
       on: BOOLEAN, isolated: BOOLEAN]

Actors == {"engine", "handler"}
Operations == {"create", "import", "isolate", "start", "stop"}
Outcomes == {"none", "open", "ok", "failed"}
Positions == {"idle", "check", "post", "wait", "verify"}

\* The operation of plan p after n answered ones.
Last == DiskCount + 3

\* Mutation of OperationAt: the loop over the disks ends one too early.
OperationTooEarly(n) ==
  IF n = 0 THEN "create" ELSE IF n < DiskCount THEN "import"
  ELSE IF n = DiskCount + 1 THEN "isolate" ELSE "start"

OperationAt(n) ==
  IF n = 0 THEN "create" ELSE IF n <= DiskCount THEN "import"
  ELSE IF n = DiskCount + 1 THEN "isolate" ELSE "start"

\* seen is the description as it was read; task tells how the task ended.
Call == [at: Positions, op: Operations, plan: Plans \cup {NoPlan},
         disk: Disks, seen: SUBSET Disks, task: Outcomes]
NoCall == [at |-> "idle", op |-> "create", plan |-> NoPlan, disk |-> 1,
           seen |-> {}, task |-> "none"]
Task == [op: Operations, plan: Plans, disk: Disks, seen: SUBSET Disks,
         by: Actors \cup {"nobody"}]

At(a, position) == calls[a].at = position
Op(a) == calls[a].op
PlanOf(a) == calls[a].plan
Id(a) == vmidOf[PlanOf(a)]
Target(a) == vms[Id(a)]
Goto(a, position) == calls' = [calls EXCEPT ![a].at = position]

-----------------------------------------------------------------------------
(* How an operation ends *)

Fail(a) == calls' = [calls EXCEPT ![a] = NoCall] /\ UNCHANGED progress

\* The engine goes on to the next operation of the plan, a rollback from
\* isolation to the stop.
Succeed(a) ==
  IF a = "engine"
  THEN /\ progress' = [progress EXCEPT ![PlanOf(a)] = @ + 1]
       /\ calls' = [calls EXCEPT ![a] = NoCall]
  ELSE /\ UNCHANGED progress
       /\ calls' = [calls EXCEPT ![a] =
            IF Op(a) = "stop" THEN NoCall
            ELSE [NoCall EXCEPT !.at = "check", !.op = "stop", !.plan = PlanOf(a)]]

-----------------------------------------------------------------------------
(* The actors *)

\* /cluster/nextid names an id without a VM; nothing keeps it for the plan.
\* The engine asks once: afterwards the plan names an id.
ReserveVMID(p) ==
  /\ At("engine", "idle") /\ vmidOf[p] = NoVmid
  /\ \E i \in Vmids : vms[i] = Cluster!NoVM /\ vmidOf' = [vmidOf EXCEPT ![p] = i]
  /\ UNCHANGED <<vms, markers, tasks, progress, calls>>

\* Mutation of Execute: a job that is done is executed again.
ExecuteDone(p) ==
  /\ At("engine", "idle") /\ vmidOf[p] # NoVmid
  /\ calls' = [calls EXCEPT !["engine"] =
       [NoCall EXCEPT !.at = "check", !.op = OperationAt(progress[p]), !.plan = p]]
  /\ UNCHANGED <<vms, markers, tasks, vmidOf, progress>>

Execute(p) ==
  /\ At("engine", "idle") /\ vmidOf[p] # NoVmid /\ progress[p] < Last
  /\ calls' = [calls EXCEPT !["engine"] =
       [NoCall EXCEPT !.at = "check", !.op = OperationAt(progress[p]), !.plan = p,
                      !.disk = IF progress[p] \in Disks THEN progress[p] ELSE 1]]
  /\ UNCHANGED <<vms, markers, tasks, vmidOf, progress>>

Rollback(p) ==
  /\ At("handler", "idle") /\ vmidOf[p] # NoVmid
  /\ calls' = [calls EXCEPT !["handler"] =
       [NoCall EXCEPT !.at = "check", !.op = "isolate", !.plan = p]]
  /\ UNCHANGED <<vms, markers, tasks, vmidOf, progress>>

-----------------------------------------------------------------------------
(* The operations *)

\* Mutation of Owned: any VM with that id will do.
Found(a) == Target(a).owner # NoPlan

\* ownedVMNode: a marker of any plan will do.
Owned(a) == Target(a).owner \in Plans

\* Mutation of DoneBefore: a VM with the marker of any plan is accepted.
DoneForAny(a) ==
  CASE Op(a) = "create" -> Owned(a) /\ ~Target(a).on /\ Target(a).isolated
    [] Op(a) = "import" -> /\ Owned(a) /\ ~Target(a).on
                           /\ calls[a].disk \in markers[Id(a)]
    [] Op(a) = "stop"   -> Owned(a) /\ ~Target(a).on
    [] OTHER -> FALSE

\* What an operation accepts as done already, and what it goes on from.
\* Everything else it refuses.
DoneBefore(a) ==
  CASE Op(a) = "create" -> Target(a).owner = PlanOf(a) /\ ~Target(a).on /\ Target(a).isolated
    [] Op(a) = "import" -> /\ Owned(a) /\ ~Target(a).on
                           /\ calls[a].disk \in markers[Id(a)]
                           /\ Target(a).slots[calls[a].disk] # NoPlan
    [] Op(a) = "stop"   -> Owned(a) /\ ~Target(a).on
    [] OTHER -> FALSE

MayPost(a) ==
  CASE Op(a) = "create" -> Target(a).owner = NoPlan
    [] Op(a) = "import" -> /\ Owned(a) /\ ~Target(a).on
                           /\ calls[a].disk \notin markers[Id(a)]
                           /\ Target(a).slots[calls[a].disk] = NoPlan
    [] Op(a) = "start"  -> Owned(a) /\ Target(a).isolated
    [] Op(a) = "stop"   -> Owned(a) /\ Target(a).on
    [] OTHER -> Owned(a)

Check(a) ==
  /\ At(a, "check")
  /\ \/ DoneBefore(a) /\ Succeed(a)
     \/ ~DoneBefore(a) /\ MayPost(a) /\ UNCHANGED progress
        /\ calls' = [calls EXCEPT ![a].at = "post", ![a].seen = markers[Id(a)]]
     \/ ~DoneBefore(a) /\ ~MayPost(a) /\ Fail(a)
  /\ UNCHANGED <<vms, markers, tasks, vmidOf>>

Post(a) ==
  /\ At(a, "post") /\ Len(tasks[Id(a)]) < MaxTasks
  /\ tasks' = [tasks EXCEPT ![Id(a)] = Append(@,
       [op |-> Op(a), plan |-> PlanOf(a), disk |-> calls[a].disk,
        seen |-> calls[a].seen, by |-> a])]
  /\ calls' = [calls EXCEPT ![a].task = "open",
                            ![a].at = IF Op(a) = "isolate" THEN "verify" ELSE "wait"]
  /\ UNCHANGED <<vms, markers, vmidOf, progress>>

WaitTask(a) ==
  /\ At(a, "wait") /\ calls[a].task # "open"
  /\ \/ calls[a].task = "ok" /\ Goto(a, "verify") /\ UNCHANGED progress
     \/ calls[a].task = "failed" /\ Fail(a)
  /\ UNCHANGED <<vms, markers, tasks, vmidOf>>

Verified(a) ==
  CASE Op(a) = "create"  -> Target(a).owner = PlanOf(a) /\ ~Target(a).on /\ Target(a).isolated
    [] Op(a) = "import"  -> /\ Target(a).slots[calls[a].disk] # NoPlan
                            /\ calls[a].disk \in markers[Id(a)]
    [] Op(a) = "isolate" -> Target(a).isolated
    [] Op(a) = "start"   -> Target(a).on
    [] Op(a) = "stop"    -> ~Target(a).on

\* Nobody looks at the task any more.
Leave(a) ==
  tasks' = [i \in Vmids |-> [n \in 1..Len(tasks[i]) |->
    IF tasks[i][n].by = a THEN [tasks[i][n] EXCEPT !.by = "nobody"] ELSE tasks[i][n]]]

Verify(a) ==
  /\ At(a, "verify") /\ Leave(a)
  /\ IF Verified(a) THEN Succeed(a) ELSE Fail(a)
  /\ UNCHANGED <<vms, markers, vmidOf>>

\* Mutation of Abandon: a wait that ends with its context is no error.
AbandonQuietly(a) ==
  /\ At(a, "wait")
  /\ Leave(a) /\ Succeed(a)
  /\ UNCHANGED <<vms, markers, vmidOf>>

\* A call fails or is not answered; what it has posted goes on.
Abandon(a) ==
  /\ calls[a].at \in {"check", "wait", "verify"}
  /\ Leave(a) /\ Fail(a)
  /\ UNCHANGED <<vms, markers, vmidOf>>

-----------------------------------------------------------------------------
(* The cluster *)

\* Proxmox refuses to create over a VM; an import replaces what is in the
\* slot, and the whole description.
Possible(i, t) == t.op = "create" => vms[i].owner = NoPlan

Changed(i, t) ==
  CASE t.op = "create"  -> Cluster!NewVM(t.plan)
    [] t.op = "import"  -> [vms[i] EXCEPT !.slots[t.disk] = t.plan]
    [] t.op = "isolate" -> [vms[i] EXCEPT !.isolated = TRUE]
    [] t.op = "start"   -> [vms[i] EXCEPT !.on = TRUE]
    [] t.op = "stop"    -> [vms[i] EXCEPT !.on = FALSE]

TaskEnds(i, outcome) ==
  /\ tasks' = [tasks EXCEPT ![i] = Tail(@)]
  /\ calls' = [a \in Actors |->
       IF Head(tasks[i]).by = a THEN [calls[a] EXCEPT !.task = outcome] ELSE calls[a]]

TaskDone(i) ==
  /\ tasks[i] # <<>> /\ Possible(i, Head(tasks[i]))
  /\ vms' = [vms EXCEPT ![i] = Changed(i, Head(tasks[i]))]
  /\ markers' = [markers EXCEPT ![i] =
       IF Head(tasks[i]).op = "import" THEN Head(tasks[i]).seen \cup {Head(tasks[i]).disk} ELSE @]
  /\ TaskEnds(i, "ok")
  /\ UNCHANGED <<vmidOf, progress>>

TaskFails(i) ==
  /\ tasks[i] # <<>>
  /\ TaskEnds(i, "failed")
  /\ UNCHANGED <<vms, markers, vmidOf, progress>>

SomebodyCreates(i) ==
  /\ vms[i] = Cluster!NoVM
  /\ vms' = [vms EXCEPT ![i] = Cluster!OtherVM]
  /\ UNCHANGED <<markers, tasks, vmidOf, progress, calls>>

\* An operator gives a target its network once its job awaits validation.
Connect(i) ==
  /\ vms[i].owner \in Plans /\ vms[i].on /\ vms[i].isolated
  /\ progress[vms[i].owner] = Last
  /\ vms' = [vms EXCEPT ![i].isolated = FALSE]
  /\ UNCHANGED <<markers, tasks, vmidOf, progress, calls>>

BackendDies ==
  /\ calls' = [a \in Actors |-> NoCall]
  /\ tasks' = [i \in Vmids |-> [n \in 1..Len(tasks[i]) |-> [tasks[i][n] EXCEPT !.by = "nobody"]]]
  /\ UNCHANGED <<vms, markers, vmidOf, progress>>

TargetInit ==
  /\ vms = [i \in Vmids |-> Cluster!NoVM]
  /\ markers = [i \in Vmids |-> {}]
  /\ tasks = [i \in Vmids |-> <<>>]
  /\ vmidOf = [p \in Plans |-> NoVmid]
  /\ progress = [p \in Plans |-> 0]
  /\ calls = [a \in Actors |-> NoCall]

Operate(a) == Check(a) \/ Post(a) \/ WaitTask(a) \/ Verify(a)

TargetNext ==
  \/ \E p \in Plans : ReserveVMID(p) \/ Execute(p) \/ Rollback(p)
  \/ \E a \in Actors : Operate(a) \/ Abandon(a)
  \/ \E i \in Vmids : TaskDone(i) \/ TaskFails(i) \/ SomebodyCreates(i) \/ Connect(i)
  \/ BackendDies

TargetSpec == TargetInit /\ [][TargetNext]_targetVars

-----------------------------------------------------------------------------
(* Invariants *)

TargetTypeOK ==
  /\ vms \in [Vmids -> VM]
  /\ markers \in [Vmids -> SUBSET Disks]
  /\ tasks \in [Vmids -> Seq(Task)] /\ \A i \in Vmids : Len(tasks[i]) <= MaxTasks
  /\ vmidOf \in [Plans -> Vmids \cup {NoVmid}]
  /\ progress \in [Plans -> 0..Last]
  /\ calls \in [Actors -> Call]

\* The inductive invariant.  Disk d of a plan is in place once an import of it
\* has ended, and imports end in the order of the disks.
VMOK(i) ==
  LET vm == vms[i]
  IN  /\ vm.owner = NoPlan => vm = Cluster!NoVM /\ markers[i] = {}
      /\ Cluster!Ours(i) =>
           /\ vmidOf[vm.owner] = i
           /\ progress[vm.owner] < Last => vm.isolated
           /\ vm.on => markers[i] = Disks
           /\ \A d \in Disks :
                /\ vm.slots[d] = IF d \in markers[i] THEN vm.owner ELSE NoPlan
                /\ d \in markers[i] => d <= progress[vm.owner]
                /\ progress[vm.owner] > d => d \in markers[i]

VMsOK == \A i \in Vmids : VMOK(i)

PlansOK ==
  \A p \in Plans : progress[p] > 0 => vmidOf[p] \in Vmids /\ vms[vmidOf[p]].owner = p

CallOK(a, call) ==
  call.at # "idle" =>
    /\ call.plan \in Plans /\ vmidOf[call.plan] \in Vmids
    /\ a = "engine" => /\ progress[call.plan] < Last
                       /\ call.op = OperationAt(progress[call.plan])
                       /\ call.op = "import" => call.disk = progress[call.plan]
    /\ a = "handler" => call.op \in {"isolate", "stop"}
    /\ call.at = "post" /\ call.op # "create" => Cluster!Ours(vmidOf[call.plan])
    /\ call.at = "post" /\ call.op = "import" => call.seen = 1..(call.disk - 1)
    /\ call.at = "verify" /\ call.op # "isolate" => call.task = "ok"

\* What a task in the queue of VM i was posted for holds until it ends.
PurposeOK(i, t) ==
  /\ t.op = "create" => vmidOf[t.plan] = i
  /\ t.op # "create" => Cluster!Ours(i)
  /\ t.op = "import" =>
       /\ t.plan = vms[i].owner /\ t.seen = 1..(t.disk - 1)
       /\ t.disk <= progress[t.plan] /\ \A d \in markers[i] : d <= t.disk
  /\ t.op = "start" => progress[vms[i].owner] = Last - 1

PosterOK(i, t) ==
  t.by # "nobody" => /\ calls[t.by].at \in {"wait", "verify"} /\ Id(t.by) = i
                     /\ calls[t.by].task = "open" /\ Op(t.by) = t.op

\* t waits before u.
Before(t, u) ==
  /\ t.op = "import" /\ u.op = "import" => t.disk <= u.disk
  /\ t.by # "nobody" => u.by # t.by
  /\ t.by = "engine" => u.op # "start"

QueuesOK ==
  \A i \in Vmids :
    /\ \A n \in 1..Len(tasks[i]) : PurposeOK(i, tasks[i][n]) /\ PosterOK(i, tasks[i][n])
    /\ \A m, n \in 1..Len(tasks[i]) : m < n => Before(tasks[i][m], tasks[i][n])

\* A start that has ended leaves no other one in the queue.
StartsOK ==
  calls["engine"].at \in {"wait", "verify"} /\ Op("engine") = "start"
    /\ calls["engine"].task # "open" =>
      \A n \in 1..Len(tasks[Id("engine")]) : tasks[Id("engine")][n].op # "start"

TargetInv ==
  /\ TargetTypeOK /\ VMsOK /\ PlansOK /\ QueuesOK /\ StartsOK
  /\ \A a \in Actors : CallOK(a, calls[a])

(* An operation that was answered has happened, on the VM of this plan,    *)
(* and is not undone by a task of an attempt before it, nor by a rollback  *)
(* of another plan that was given the same id.                             *)
AnsweredStaysDone ==
  \A p \in Plans :
    LET vm == vms[vmidOf[p]]
    IN  progress[p] > 0 =>
          /\ vm.owner = p
          /\ \A d \in Disks : progress[p] > d =>
               vm.slots[d] = p /\ d \in markers[vmidOf[p]]

(* A VM runs only with every disk of its plan, whatever is still queued.   *)
RunningVMIsComplete ==
  \A i \in Vmids : Cluster!Ours(i) /\ vms[i].on => \A d \in Disks : vms[i].slots[d] = vms[i].owner

-----------------------------------------------------------------------------
(* Action properties *)

(* The VM of somebody else is never touched, also when its id was free as  *)
(* the plan reserved it.                                                   *)
OthersUntouched ==
  [][\A i \in Vmids : vms[i].owner = Somebody => vms'[i] = vms[i]]_targetVars

(* To the engine the operations look like single steps.                    *)
ImplementsTargetVMs == Cluster!Spec

=============================================================================
