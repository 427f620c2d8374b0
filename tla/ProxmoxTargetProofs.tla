------------------------- MODULE ProxmoxTargetProofs -------------------------
(***************************************************************************)
(* Theorems of ProxmoxTarget, for any plans, VM ids, disks and lengths of  *)
(* the queues: what tasks of an earlier attempt may still do, and that the *)
(* operations look like single steps.                                      *)
(***************************************************************************)
EXTENDS ProxmoxTarget, SequenceTheorems, TLAPS

-----------------------------------------------------------------------------
(* Queues                                                                  *)

(* A queue without its first task.                                         *)
LEMMA QueueTail ==
  ASSUME NEW s \in Seq(Task), s # <<>>
  PROVE  /\ Tail(s) \in Seq(Task) /\ Len(s) \in Nat \ {0}
         /\ Head(s) = s[1] /\ s[1] \in Task /\ Len(Tail(s)) = Len(s) - 1
         /\ \A n \in 1..Len(Tail(s)) : n + 1 \in 1..Len(s) /\ Tail(s)[n] = s[n + 1]
<1>1. Len(s) \in Nat \ {0}
  BY EmptySeq
<1>2. Head(s) = s[1] /\ s[1] \in Task
  BY <1>1, ElementOfSeq
<1> QED
  BY <1>1, <1>2, HeadTailProperties

(* A queue with one more task.                                             *)
LEMMA QueueAppend ==
  ASSUME NEW s \in Seq(Task), NEW t \in Task
  PROVE  /\ Append(s, t) \in Seq(Task) /\ Len(Append(s, t)) = Len(s) + 1 /\ Len(s) \in Nat
         /\ \A n \in 1..Len(s) : Append(s, t)[n] = s[n]
         /\ Append(s, t)[Len(s) + 1] = t
BY AppendProperties, LenProperties

(* A queue in which nobody waits for the tasks of some actors any more.    *)
LEMMA QueueLeft ==
  ASSUME NEW s \in Seq(Task), NEW gone \in SUBSET Actors, NEW u,
         u = [n \in 1..Len(s) |->
                IF s[n].by \in gone THEN [s[n] EXCEPT !.by = "nobody"] ELSE s[n]]
  PROVE  u \in Seq(Task) /\ Len(u) = Len(s)
<1>1. Len(s) \in Nat
  BY LenProperties
<1>2. \A n \in 1..Len(s) : s[n] \in Task
  BY ElementOfSeq
<1>3. \A n \in 1..Len(s) : u[n] \in Task
  BY <1>2 DEF Task
<1> QED
  BY <1>1, <1>3

-----------------------------------------------------------------------------
(* Initial states                                                          *)

(* The empty values have their types.                                      *)
LEMMA EmptyTypes == /\ Cluster!NoVM \in VM /\ Cluster!OtherVM \in VM /\ NoCall \in Call
                    /\ \A p \in Plans : Cluster!NewVM(p) \in VM
                    /\ Last \in Nat /\ Disks \subseteq Nat /\ \A d \in Disks : d < Last - 1
                    /\ Last - 2 \in Nat \ Disks /\ 1 \in Disks
<1>1. 1 \in Disks /\ DiskCount \in Nat
  BY TargetAssumption DEF Disks
<1>2. Cluster!NoVM \in VM
  BY DEF VM, Cluster!NoVM
<1>3. Cluster!OtherVM \in VM /\ \A p \in Plans : Cluster!NewVM(p) \in VM
  BY <1>2 DEF VM, Cluster!NoVM, Cluster!OtherVM, Cluster!NewVM
<1>4. NoCall \in Call
  BY <1>1 DEF NoCall, Call, Positions, Operations, Outcomes
<1> QED
  BY <1>1, <1>2, <1>3, <1>4 DEF Last, Disks

(* Initially there are no VMs, no tasks and no calls.                      *)
LEMMA InitInv == TargetInit => TargetInv
<1> SUFFICES ASSUME TargetInit PROVE TargetInv
  OBVIOUS
<1>1. \A i \in Vmids : tasks[i] \in Seq(Task) /\ Len(tasks[i]) = 0 /\ vms[i] = Cluster!NoVM
  BY EmptySeq DEF TargetInit
<1>2. TargetTypeOK
  <2>1. tasks \in [Vmids -> Seq(Task)]
    BY <1>1 DEF TargetInit
  <2> QED
    BY <1>1, <2>1, EmptyTypes, TargetAssumption DEF TargetInit, TargetTypeOK
<1>3. VMsOK
  BY <1>1, TargetAssumption DEF VMsOK, VMOK, TargetInit, Cluster!Ours, Cluster!NoVM
<1>4. PlansOK /\ QueuesOK /\ StartsOK
  BY <1>1 DEF PlansOK, QueuesOK, StartsOK, TargetInit, NoCall, Actors
<1>5. \A a \in Actors : CallOK(a, calls[a])
  BY DEF CallOK, TargetInit, NoCall
<1> QED
  BY <1>2, <1>3, <1>4, <1>5 DEF TargetInv

-----------------------------------------------------------------------------
(* Steps that leave the cluster alone                                      *)

(* The engine may go on with plan p: what its operation does has happened. *)
Achieved(p) ==
  /\ p \in Plans /\ vmidOf[p] \in Vmids /\ vms[vmidOf[p]].owner = p /\ progress[p] < Last
  /\ progress[p] \in Disks => progress[p] \in markers[vmidOf[p]]
  /\ progress[p] = Last - 1 =>
       \A n \in 1..Len(tasks[vmidOf[p]]) : tasks[vmidOf[p]][n].op # "start"

(* A plan that goes on keeps the cluster as its progress tells.            *)
LEMMA ProgressKeepsVMs ==
  ASSUME TargetInv, NEW p, Achieved(p), UNCHANGED <<vms, markers, vmidOf>>,
         progress' = [progress EXCEPT ![p] = @ + 1]
  PROVE  progress' \in [Plans -> 0..Last] /\ VMsOK' /\ PlansOK'
<1>1. p \in Plans /\ progress \in [Plans -> 0..Last] /\ vmidOf[p] \in Vmids
  BY DEF TargetInv, TargetTypeOK, Achieved
<1>2. progress' \in [Plans -> 0..Last] /\ progress'[p] = progress[p] + 1
  BY <1>1, EmptyTypes DEF Achieved
<1>3. \A q \in Plans : q # p => progress'[q] = progress[q]
  BY <1>1
<1>4. PlansOK'
  BY <1>1, <1>2, <1>3 DEF TargetInv, PlansOK, Achieved
<1>5. ASSUME NEW i \in Vmids PROVE VMOK(i)'
  <2> DEFINE o == vms[i].owner
  <2>1. o = NoPlan => vms[i] = Cluster!NoVM /\ markers[i] = {}
    BY DEF TargetInv, VMsOK, VMOK
  <2>2. ASSUME Cluster!Ours(i), o # p PROVE VMOK(i)'
    <3>1. progress'[o] = progress[o]
      BY <1>3, <2>2 DEF Cluster!Ours
    <3> QED
      BY <2>1, <2>2, <3>1 DEF TargetInv, VMsOK, VMOK, Cluster!Ours
  <2>3. ASSUME Cluster!Ours(i), o = p PROVE VMOK(i)'
    <3>1. vmidOf[p] = i
      BY <2>3 DEF TargetInv, VMsOK, VMOK
    <3>2. \A d \in Disks : /\ vms[i].slots[d] = IF d \in markers[i] THEN p ELSE NoPlan
                           /\ d \in markers[i] => d <= progress[p]
                           /\ progress[p] > d => d \in markers[i]
      BY <2>3 DEF TargetInv, VMsOK, VMOK
    <3>3. \A d \in Disks : /\ d \in markers[i] => d <= progress[p] + 1
                           /\ progress[p] + 1 > d => d \in markers[i]
      BY <1>1, <3>1, <3>2, EmptyTypes DEF Achieved
    <3>4. vms[i].on => markers[i] = Disks
      BY <2>3 DEF TargetInv, VMsOK, VMOK
    <3>5. progress[p] + 1 < Last => vms[i].isolated
      BY <1>1, <2>3, EmptyTypes DEF TargetInv, VMsOK, VMOK
    <3> QED
      BY <1>2, <2>1, <2>3, <3>1, <3>2, <3>3, <3>4, <3>5 DEF VMOK, Cluster!Ours
  <2>4. ASSUME ~Cluster!Ours(i) PROVE VMOK(i)'
    BY <2>1, <2>4 DEF VMOK, Cluster!Ours
  <2> QED
    BY <2>2, <2>3, <2>4
<1>6. VMsOK'
  BY <1>5 DEF VMsOK
<1> QED
  BY <1>2, <1>4, <1>6

(* Nobody waits for the tasks of these actors any more.                    *)
Left(gone) ==
  /\ tasks' \in [Vmids -> Seq(Task)]
  /\ \A i \in Vmids :
       /\ Len(tasks'[i]) = Len(tasks[i])
       /\ \A n \in 1..Len(tasks[i]) :
            tasks'[i][n] = IF tasks[i][n].by \in gone THEN [tasks[i][n] EXCEPT !.by = "nobody"]
                           ELSE tasks[i][n]

(* The three things that happen to the queues of a step on calls.          *)
LEMMA QueuesLeft ==
  ASSUME TargetInv
  PROVE  /\ UNCHANGED tasks => Left({})
         /\ \A a \in Actors : Leave(a) => Left({a})
         /\ BackendDies => Left(Actors)
<1>1. tasks \in [Vmids -> Seq(Task)]
  BY DEF TargetInv, TargetTypeOK
<1>2. UNCHANGED tasks => Left({})
  BY <1>1 DEF Left
<1>3. ASSUME NEW gone \in SUBSET Actors,
             tasks' = [i \in Vmids |-> [n \in 1..Len(tasks[i]) |->
               IF tasks[i][n].by \in gone THEN [tasks[i][n] EXCEPT !.by = "nobody"] ELSE tasks[i][n]]]
      PROVE  Left(gone)
  <2>1. ASSUME NEW i \in Vmids PROVE tasks'[i] \in Seq(Task) /\ Len(tasks'[i]) = Len(tasks[i])
    <3>1. PICK s : s = tasks[i]
      OBVIOUS
    <3>2. PICK u : u = tasks'[i]
      OBVIOUS
    <3>3. s \in Seq(Task)
      BY <1>1, <3>1
    <3>4. u = [n \in 1..Len(s) |->
                 IF s[n].by \in gone THEN [s[n] EXCEPT !.by = "nobody"] ELSE s[n]]
      BY <1>3, <3>1, <3>2
    <3>5. u \in Seq(Task) /\ Len(u) = Len(s)
      BY <3>3, <3>4, QueueLeft
    <3> QED
      BY <3>1, <3>2, <3>5
  <2> QED
    BY <1>3, <2>1 DEF Left
<1>4. \A a \in Actors : Leave(a) => Left({a})
  <2> SUFFICES ASSUME NEW a \in Actors, Leave(a) PROVE Left({a})
    OBVIOUS
  <2>1. tasks' = [i \in Vmids |-> [n \in 1..Len(tasks[i]) |->
          IF tasks[i][n].by \in {a} THEN [tasks[i][n] EXCEPT !.by = "nobody"] ELSE tasks[i][n]]]
    BY DEF Leave
  <2> QED
    BY <1>3, <2>1
<1>5. BackendDies => Left(Actors)
  <2> SUFFICES ASSUME BackendDies PROVE Left(Actors)
    OBVIOUS
  <2>1. \A i \in Vmids : \A n \in 1..Len(tasks[i]) : tasks[i][n] \in Task
    BY <1>1, ElementOfSeq
  <2>2. \A i \in Vmids : \A n \in 1..Len(tasks[i]) :
          [tasks[i][n] EXCEPT !.by = "nobody"] =
            IF tasks[i][n].by \in Actors THEN [tasks[i][n] EXCEPT !.by = "nobody"] ELSE tasks[i][n]
    <3> SUFFICES ASSUME NEW i \in Vmids, NEW n \in 1..Len(tasks[i])
                 PROVE  tasks[i][n].by \notin Actors =>
                          [tasks[i][n] EXCEPT !.by = "nobody"] = tasks[i][n]
      OBVIOUS
    <3>1. PICK t \in Task : t = tasks[i][n]
      BY <2>1
    <3> QED
      BY <3>1 DEF Task, Actors
  <2>3. tasks' = [i \in Vmids |-> [n \in 1..Len(tasks[i]) |->
          IF tasks[i][n].by \in Actors THEN [tasks[i][n] EXCEPT !.by = "nobody"] ELSE tasks[i][n]]]
    BY <2>2 DEF BackendDies
  <2> QED
    BY <1>3, <2>3
<1> QED
  BY <1>2, <1>4, <1>5

(* What the engine goes on with: nothing, or a plan that has achieved it.  *)
GoesOn ==
  \/ UNCHANGED progress
  \/ \E p \in Plans : Achieved(p) /\ progress' = [progress EXCEPT ![p] = @ + 1]

(* A task that waits keeps its purpose when the engine goes on.            *)
LEMMA ProgressKeepsPurpose ==
  ASSUME TargetInv, GoesOn, UNCHANGED <<vms, markers, vmidOf>>,
         NEW i \in Vmids, NEW n \in 1..Len(tasks[i]), NEW u \in Task,
         u.op = tasks[i][n].op, u.plan = tasks[i][n].plan, u.disk = tasks[i][n].disk,
         u.seen = tasks[i][n].seen
  PROVE  PurposeOK(i, u)'
<1>1. PICK t \in Task : t = tasks[i][n] /\ PurposeOK(i, t)
  BY ElementOfSeq DEF TargetInv, TargetTypeOK, QueuesOK
<1>2. u.op = t.op /\ u.plan = t.plan /\ u.disk = t.disk /\ u.seen = t.seen
  BY <1>1
<1>3. progress \in [Plans -> 0..Last] /\ Disks \subseteq Nat /\ Last \in Nat
  BY EmptyTypes DEF TargetInv, TargetTypeOK
<1>4. progress' \in [Plans -> Nat] /\ \A p \in Plans : progress'[p] >= progress[p]
  BY <1>3 DEF GoesOn
<1>5. u.op = "import" => u.disk <= progress'[u.plan]
  <2>1. t.disk \in Nat /\ t.plan \in Plans
    BY <1>3 DEF Task
  <2>2. progress[t.plan] \in Nat /\ progress'[t.plan] \in Nat /\ progress'[t.plan] >= progress[t.plan]
    BY <1>3, <1>4, <2>1
  <2>3. t.op = "import" => t.disk <= progress[t.plan]
    BY <1>1 DEF PurposeOK
  <2> QED
    BY <1>2, <2>1, <2>2, <2>3
<1>6. ASSUME u.op = "start" PROVE progress'[vms[i].owner] = Last - 1
  <2>1. Cluster!Ours(i) /\ progress[vms[i].owner] = Last - 1 /\ vmidOf[vms[i].owner] = i
    BY <1>1, <1>2, <1>6 DEF PurposeOK, TargetInv, VMsOK, VMOK
  <2>2. ASSUME NEW p \in Plans, Achieved(p), progress' = [progress EXCEPT ![p] = @ + 1]
        PROVE  vms[i].owner # p
    BY <1>1, <1>2, <1>6, <2>1, <2>2 DEF Achieved
  <2> QED
    BY <1>3, <2>1, <2>2 DEF GoesOn, Cluster!Ours
<1> QED
  BY <1>1, <1>2, <1>5, <1>6 DEF PurposeOK, Cluster!Ours

(* A step of the callers that changes no queue but in who waits for what.  *)
LEMMA MoveKeepsInv ==
  ASSUME TargetInv, GoesOn, UNCHANGED <<vms, markers, vmidOf>>,
         NEW gone \in SUBSET Actors, Left(gone),
         calls' \in [Actors -> Call], \A a \in Actors : CallOK(a, calls[a])',
         \A a \in Actors \ gone : \/ calls'[a] = calls[a]
                                  \/ calls[a].at \notin {"wait", "verify"}
                                  \/ calls[a].task # "open",
         calls'["engine"].at \in {"wait", "verify"} =>
           /\ calls["engine"].at \in {"wait", "verify"}
           /\ calls'["engine"].op = calls["engine"].op
           /\ calls'["engine"].plan = calls["engine"].plan
           /\ calls'["engine"].task = calls["engine"].task
  PROVE  TargetInv'
<1>1. progress' \in [Plans -> 0..Last] /\ VMsOK' /\ PlansOK'
  <2>1. CASE UNCHANGED progress
    BY <2>1 DEF TargetInv, TargetTypeOK, VMsOK, VMOK, PlansOK, Cluster!Ours
  <2>2. CASE \E p \in Plans : Achieved(p) /\ progress' = [progress EXCEPT ![p] = @ + 1]
    BY <2>2, ProgressKeepsVMs
  <2> QED
    BY <2>1, <2>2 DEF GoesOn
<1>2. TargetTypeOK'
  BY <1>1 DEF TargetInv, TargetTypeOK, Left
<1>3. \A i \in Vmids : \A n \in 1..Len(tasks[i]) :
        /\ tasks[i][n] \in Task /\ tasks'[i][n] \in Task
        /\ tasks'[i][n].op = tasks[i][n].op /\ tasks'[i][n].plan = tasks[i][n].plan
        /\ tasks'[i][n].disk = tasks[i][n].disk /\ tasks'[i][n].seen = tasks[i][n].seen
        /\ \/ tasks'[i][n].by = "nobody"
           \/ tasks'[i][n].by = tasks[i][n].by /\ tasks[i][n].by \notin gone
  <2> SUFFICES ASSUME NEW i \in Vmids, NEW n \in 1..Len(tasks[i]) PROVE <1>3!(i)!(n)
    OBVIOUS
  <2>1. PICK t \in Task : t = tasks[i][n]
    BY ElementOfSeq DEF TargetInv, TargetTypeOK
  <2>2. PICK u : u = tasks'[i][n]
    OBVIOUS
  <2>3. u = IF t.by \in gone THEN [t EXCEPT !.by = "nobody"] ELSE t
    BY <2>1, <2>2 DEF Left
  <2> QED
    BY <2>1, <2>2, <2>3 DEF Task
<1>4. ASSUME NEW i \in Vmids, NEW n \in 1..Len(tasks[i]), NEW u, u = tasks'[i][n]
      PROVE  PurposeOK(i, u)' /\ PosterOK(i, u)'
  <2>1. u = tasks'[i][n]
    BY <1>4
  <2>2. PurposeOK(i, u)'
    BY <1>3, <2>1, ProgressKeepsPurpose
  <2>3. u.by = "nobody" \/ calls'[u.by] = calls[u.by]
    <3>1. u.by # "nobody" => /\ u.by = tasks[i][n].by /\ u.by \in Actors \ gone
                             /\ calls[u.by].at \in {"wait", "verify"}
                             /\ calls[u.by].task = "open"
      BY <1>3, <2>1 DEF TargetInv, QueuesOK, PosterOK, Task
    <3> QED
      BY <3>1
  <2>4. PosterOK(i, u)'
    BY <1>3, <2>1, <2>3 DEF TargetInv, QueuesOK, PosterOK, Id, Op, PlanOf
  <2> QED
    BY <2>2, <2>4
<1>5. \A i \in Vmids : \A m, n \in 1..Len(tasks[i]) : m < n => Before(tasks'[i][m], tasks'[i][n])
  <2> SUFFICES ASSUME NEW i \in Vmids, NEW m \in 1..Len(tasks[i]), NEW n \in 1..Len(tasks[i]), m < n
               PROVE  Before(tasks'[i][m], tasks'[i][n])
    OBVIOUS
  <2>1. Before(tasks[i][m], tasks[i][n])
    BY DEF TargetInv, QueuesOK
  <2> QED
    BY <1>3, <2>1 DEF Before
<1>6. QueuesOK'
  <2>1. ASSUME NEW i \in Vmids, NEW n \in 1..Len(tasks[i])
        PROVE  (PurposeOK(i, tasks[i][n]) /\ PosterOK(i, tasks[i][n]))'
    <3>1. PICK u : u = tasks'[i][n]
      OBVIOUS
    <3>2. PurposeOK(i, u)' /\ PosterOK(i, u)'
      BY <1>4, <3>1
    <3> QED
      BY <3>1, <3>2 DEF PurposeOK, PosterOK
  <2>2. \A i \in Vmids : \A m, n \in 1..Len(tasks[i]) : m < n => Before(tasks[i][m], tasks[i][n])'
    BY <1>5 DEF Before
  <2> QED
    BY <2>1, <2>2 DEF QueuesOK, Left
<1>7. StartsOK'
  <2> SUFFICES ASSUME StartsOK!1' PROVE StartsOK!2'
    BY DEF StartsOK
  <2>1. Id("engine")' = Id("engine") /\ StartsOK!2
    BY DEF StartsOK, Id, PlanOf, Op, TargetInv
  <2>2. Id("engine") \in Vmids
    BY DEF TargetInv, CallOK, Id, PlanOf, Actors
  <2> QED
    BY <1>3, <2>1, <2>2 DEF Left
<1> QED
  BY <1>1, <1>2, <1>6, <1>7 DEF TargetInv

-----------------------------------------------------------------------------
(* The callers                                                             *)

(* One caller moves to a call that is fit for the new state.               *)
LEMMA CallerMoves ==
  ASSUME TargetInv, NEW a \in Actors, NEW c \in Call, calls' = [calls EXCEPT ![a] = c],
         CallOK(a, c)', UNCHANGED <<vms, vmidOf>>, a # "engine" => UNCHANGED progress
  PROVE  calls' \in [Actors -> Call] /\ \A b \in Actors : CallOK(b, calls[b])'
<1>1. calls \in [Actors -> Call]
  BY DEF TargetInv, TargetTypeOK
<1>2. calls' \in [Actors -> Call] /\ calls'[a] = c
  BY <1>1
<1>3. ASSUME NEW b \in Actors, b # a PROVE CallOK(b, calls[b])'
  <2>1. PICK e : e = calls[b] /\ calls'[b] = e
    BY <1>1, <1>3
  <2>2. CallOK(b, e)
    BY <2>1 DEF TargetInv
  <2>3. b = "engine" => UNCHANGED progress
    BY <1>3
  <2>4. CallOK(b, e)'
    BY <2>2, <2>3 DEF CallOK, Cluster!Ours
  <2> QED
    BY <2>1, <2>4 DEF CallOK
<1>4. CallOK(a, calls[a])'
  BY <1>2 DEF CallOK
<1> QED
  BY <1>2, <1>3, <1>4

(* A caller that gives up is fit for any state.                            *)
LEMMA NoCallOK == \A a \in Actors : NoCall \in Call /\ CallOK(a, NoCall) /\ CallOK(a, NoCall)'
BY EmptyTypes DEF CallOK, NoCall

(* A call that is not idle has a plan with a VM id.                        *)
LEMMA OpenCall ==
  ASSUME TargetInv, NEW a \in Actors, calls[a].at # "idle"
  PROVE  /\ calls[a] \in Call /\ PlanOf(a) \in Plans /\ Id(a) \in Vmids
         /\ progress[PlanOf(a)] \in 0..Last /\ CallOK(a, calls[a])
BY DEF TargetInv, TargetTypeOK, CallOK, PlanOf, Id

(* What an operation finds done, or verifies, is what the plan may go on   *)
(* with.                                                                   *)
LEMMA DoneMeansAchieved ==
  ASSUME TargetInv, calls["engine"].at # "idle",
         \/ DoneBefore("engine")
         \/ At("engine", "verify") /\ Verified("engine")
  PROVE  Achieved(PlanOf("engine"))
<1> DEFINE p == PlanOf("engine")
           i == Id("engine")
<1>1. /\ p \in Plans /\ i \in Vmids /\ i = vmidOf[p] /\ progress[p] \in 0..Last
      /\ progress[p] < Last /\ Op("engine") = OperationAt(progress[p])
      /\ Op("engine") = "import" => calls["engine"].disk = progress[p]
      /\ At("engine", "verify") /\ Op("engine") # "isolate" => calls["engine"].task = "ok"
  BY OpenCall DEF CallOK, PlanOf, Id, Op, At, Actors
<1>2. vms[i].owner = p
  <2>1. CASE progress[p] = 0
    BY <1>1, <2>1 DEF OperationAt, DoneBefore, Verified, Target
  <2>2. CASE progress[p] > 0
    BY <1>1, <2>2 DEF TargetInv, PlansOK
  <2> QED
    BY <1>1, <2>1, <2>2
<1>3. progress[p] \in Disks => progress[p] \in markers[i]
  <2>1. progress[p] \in Disks => Op("engine") = "import"
    BY <1>1, TargetAssumption DEF OperationAt, Disks
  <2> QED
    BY <1>1, <2>1 DEF DoneBefore, Verified
<1>4. progress[p] = Last - 1 => \A n \in 1..Len(tasks[i]) : tasks[i][n].op # "start"
  <2>1. progress[p] = Last - 1 => Op("engine") = "start"
    BY <1>1, TargetAssumption DEF OperationAt, Last
  <2> QED
    BY <1>1, <2>1 DEF DoneBefore, Verified, TargetInv, StartsOK, At
<1> QED
  BY <1>1, <1>2, <1>3, <1>4 DEF Achieved

(* A caller that succeeds goes on, and its next call is fit.               *)
LEMMA SucceedMoves ==
  ASSUME TargetInv, NEW a \in Actors, calls[a].at # "idle", Succeed(a),
         DoneBefore(a) \/ (At(a, "verify") /\ Verified(a)), UNCHANGED <<vms, vmidOf>>
  PROVE  /\ GoesOn /\ calls' \in [Actors -> Call] /\ \A b \in Actors : CallOK(b, calls[b])'
         /\ \A b \in Actors : b # a => calls'[b] = calls[b]
         /\ calls'[a].at \in {"idle", "check"}
<1>0. calls \in [Actors -> Call]
  BY DEF TargetInv, TargetTypeOK
<1>1. CASE a = "engine"
  <2>1. PlanOf(a) \in Plans /\ Achieved(PlanOf(a)) /\ progress' = [progress EXCEPT ![PlanOf(a)] = @ + 1]
    BY <1>1, DoneMeansAchieved, OpenCall DEF Succeed
  <2>2. calls' = [calls EXCEPT ![a] = NoCall]
    BY <1>1 DEF Succeed
  <2>3. NoCall.at = "idle"
    BY DEF NoCall
  <2> QED
    BY <1>0, <1>1, <2>1, <2>2, <2>3, NoCallOK, CallerMoves DEF GoesOn
<1>2. CASE a = "handler"
  <2>1. PICK c : c = IF Op(a) = "stop" THEN NoCall
                     ELSE [NoCall EXCEPT !.at = "check", !.op = "stop", !.plan = PlanOf(a)]
    OBVIOUS
  <2>2. UNCHANGED progress /\ calls' = [calls EXCEPT ![a] = c]
    BY <1>2, <2>1 DEF Succeed
  <2>3. PlanOf(a) \in Plans /\ vmidOf[PlanOf(a)] \in Vmids
    BY OpenCall DEF Id
  <2>4. c \in Call /\ c.at \in {"idle", "check"}
    BY <2>1, <2>3, EmptyTypes DEF NoCall, Call, Positions, Operations, Outcomes
  <2>5. CallOK(a, c)'
    BY <1>2, <2>1, <2>3 DEF CallOK, NoCall
  <2> QED
    BY <1>0, <1>2, <2>2, <2>4, <2>5, CallerMoves DEF GoesOn
<1> QED
  BY <1>1, <1>2 DEF Actors

(* The disks that are in place when the engine posts the next one.         *)
LEMMA ImportsInOrder ==
  ASSUME TargetInv, NEW a \in Actors, At(a, "check"), Op(a) = "import", MayPost(a)
  PROVE  markers[Id(a)] = 1..(calls[a].disk - 1)
<1> DEFINE p == PlanOf(a)
           i == Id(a)
           d == calls[a].disk
<1>1. p \in Plans /\ i \in Vmids /\ i = vmidOf[p] /\ progress[p] \in 0..Last /\ d \in Disks
  BY OpenCall DEF At, Id, Call
<1>2. d = progress[p]
  BY OpenCall DEF CallOK, Actors, At, Op, PlanOf
<1>3. vms[i].owner = p /\ Disks = 1..DiskCount /\ DiskCount \in Nat
  BY <1>1, <1>2, TargetAssumption DEF TargetInv, PlansOK, Disks
<1>4. d \notin markers[i] /\ markers[i] \subseteq Disks
  BY <1>1 DEF MayPost, TargetInv, TargetTypeOK
<1>5. \A e \in Disks : /\ e \in markers[i] => e <= d
                       /\ d > e => e \in markers[i]
  BY <1>1, <1>2, <1>3 DEF TargetInv, VMsOK, VMOK, Cluster!Ours
<1>6. \A e \in markers[i] : e \in 1..(d - 1)
  BY <1>1, <1>3, <1>4, <1>5
<1>7. \A e \in 1..(d - 1) : e \in markers[i]
  BY <1>1, <1>3, <1>5
<1> QED
  BY <1>6, <1>7

(* An operation reads the cluster.                                         *)
LEMMA CheckKeepsInv ==
  ASSUME TargetInv, NEW a \in Actors, Check(a)
  PROVE  TargetInv'
<1>0. /\ calls \in [Actors -> Call] /\ calls[a].at = "check" /\ Left({})
      /\ UNCHANGED <<vms, markers, vmidOf>>
  BY QueuesLeft DEF TargetInv, TargetTypeOK, Check, At
<1>1. CASE DoneBefore(a) /\ Succeed(a)
  <2>1. GoesOn /\ calls' \in [Actors -> Call] /\ (\A b \in Actors : CallOK(b, calls[b])')
        /\ (\A b \in Actors : b # a => calls'[b] = calls[b]) /\ calls'[a].at \in {"idle", "check"}
    BY <1>0, <1>1, SucceedMoves
  <2> QED
    BY <1>0, <2>1, MoveKeepsInv DEF Actors
<1>2. CASE MayPost(a) /\ UNCHANGED progress
           /\ calls' = [calls EXCEPT ![a].at = "post", ![a].seen = markers[Id(a)]]
  <2>1. PICK c : c = [calls[a] EXCEPT !.at = "post", !.seen = markers[Id(a)]]
    OBVIOUS
  <2>2. markers[Id(a)] \subseteq Disks /\ calls[a] \in Call
    BY <1>0, OpenCall DEF TargetInv, TargetTypeOK
  <2>3. c \in Call /\ c.at = "post" /\ c.seen = markers[Id(a)] /\ c.op = Op(a)
        /\ c.plan = PlanOf(a) /\ c.disk = calls[a].disk
    BY <2>1, <2>2 DEF Call, Positions, Op, PlanOf
  <2>4. calls' = [calls EXCEPT ![a] = c]
    BY <1>0, <1>2, <2>1
  <2>5. Op(a) # "create" => Cluster!Ours(Id(a))
    BY <1>2, OpenCall, <1>0 DEF MayPost, Owned, Target, Cluster!Ours, Call, Operations, Op
  <2>6. CallOK(a, c)'
    <3>1. CallOK(a, calls[a]) /\ PlanOf(a) \in Plans /\ Id(a) \in Vmids
      BY <1>0, OpenCall
    <3>2. c.op = "import" => c.seen = 1..(c.disk - 1)
      BY <1>0, <1>2, <2>3, ImportsInOrder DEF At
    <3> QED
      BY <1>0, <1>2, <2>3, <2>5, <3>1, <3>2 DEF CallOK, Cluster!Ours, Op, PlanOf, Id
  <2>7. calls' \in [Actors -> Call] /\ \A b \in Actors : CallOK(b, calls[b])'
    BY <1>0, <1>2, <2>3, <2>4, <2>6, CallerMoves
  <2>8. calls'[a] = c /\ \A b \in Actors : b # a => calls'[b] = calls[b]
    BY <1>0, <2>4
  <2> QED
    BY <1>0, <1>2, <2>3, <2>7, <2>8, MoveKeepsInv DEF Actors, GoesOn
<1>3. CASE Fail(a)
  <2>1. calls' = [calls EXCEPT ![a] = NoCall] /\ UNCHANGED progress /\ NoCall.at = "idle"
    BY <1>3 DEF Fail, NoCall
  <2>2. calls' \in [Actors -> Call] /\ \A b \in Actors : CallOK(b, calls[b])'
    BY <1>0, <2>1, CallerMoves, NoCallOK
  <2>3. calls'[a] = NoCall /\ \A b \in Actors : b # a => calls'[b] = calls[b]
    BY <1>0, <2>1
  <2> QED
    BY <1>0, <2>1, <2>2, <2>3, MoveKeepsInv DEF Actors, GoesOn
<1> QED
  BY <1>1, <1>2, <1>3 DEF Check

(* A call that ends and leaves its tasks is fit for any state.             *)
LEMMA FailKeepsInv ==
  ASSUME TargetInv, NEW a \in Actors, Fail(a), UNCHANGED <<vms, markers, vmidOf>>,
         Leave(a) \/ (UNCHANGED tasks /\ calls[a].task # "open")
  PROVE  TargetInv'
<1>0. calls \in [Actors -> Call] /\ (Left({a}) \/ (Left({}) /\ calls[a].task # "open"))
  BY QueuesLeft DEF TargetInv, TargetTypeOK
<1>1. calls' = [calls EXCEPT ![a] = NoCall] /\ UNCHANGED progress /\ NoCall.at = "idle"
  BY DEF Fail, NoCall
<1>2. calls' \in [Actors -> Call] /\ \A b \in Actors : CallOK(b, calls[b])'
  BY <1>1, CallerMoves, NoCallOK
<1>3. calls'[a] = NoCall /\ \A b \in Actors : b # a => calls'[b] = calls[b]
  BY <1>0, <1>1
<1>4. GoesOn /\ (calls'["engine"].at \in {"wait", "verify"} => calls'["engine"] = calls["engine"])
  BY <1>1, <1>3 DEF GoesOn, Actors
<1>5. CASE Left({a})
  BY <1>2, <1>3, <1>4, <1>5, MoveKeepsInv
<1>6. CASE Left({}) /\ calls[a].task # "open"
  BY <1>2, <1>3, <1>4, <1>6, MoveKeepsInv
<1> QED
  BY <1>0, <1>5, <1>6

(* A task has ended, and its poster sees how.                              *)
LEMMA WaitKeepsInv ==
  ASSUME TargetInv, NEW a \in Actors, WaitTask(a)
  PROVE  TargetInv'
<1>0. /\ calls \in [Actors -> Call] /\ calls[a].at = "wait" /\ calls[a].task # "open"
      /\ Left({}) /\ UNCHANGED <<vms, markers, vmidOf, tasks>>
  BY QueuesLeft DEF TargetInv, TargetTypeOK, WaitTask, At
<1>1. CASE calls[a].task = "ok" /\ Goto(a, "verify") /\ UNCHANGED progress
  <2>1. PICK c : c = [calls[a] EXCEPT !.at = "verify"]
    OBVIOUS
  <2>2. calls' = [calls EXCEPT ![a] = c] /\ calls[a] \in Call
    BY <1>0, <1>1, <2>1 DEF Goto
  <2>3. c \in Call /\ c.at = "verify" /\ c.task = "ok" /\ c.op = calls[a].op
        /\ c.plan = calls[a].plan /\ c.disk = calls[a].disk
    BY <1>1, <2>1, <2>2 DEF Call, Positions
  <2>4. CallOK(a, c)'
    BY <1>0, <1>1, <2>3, OpenCall DEF CallOK
  <2>5. calls' \in [Actors -> Call] /\ \A b \in Actors : CallOK(b, calls[b])'
    BY <1>0, <1>1, <2>2, <2>3, <2>4, CallerMoves
  <2>6. calls'[a] = c /\ \A b \in Actors : b # a => calls'[b] = calls[b]
    BY <1>0, <2>2
  <2> QED
    BY <1>0, <1>1, <2>3, <2>5, <2>6, MoveKeepsInv DEF GoesOn, Actors
<1>2. CASE Fail(a)
  BY <1>0, <1>2, FailKeepsInv
<1> QED
  BY <1>1, <1>2 DEF WaitTask

(* An operation reads the cluster again.                                   *)
LEMMA VerifyKeepsInv ==
  ASSUME TargetInv, NEW a \in Actors, Verify(a)
  PROVE  TargetInv'
<1>0. /\ calls \in [Actors -> Call] /\ calls[a].at = "verify" /\ Leave(a) /\ Left({a})
      /\ UNCHANGED <<vms, markers, vmidOf>>
  BY QueuesLeft DEF TargetInv, TargetTypeOK, Verify, At
<1>1. CASE Verified(a) /\ Succeed(a)
  <2>1. GoesOn /\ calls' \in [Actors -> Call] /\ (\A b \in Actors : CallOK(b, calls[b])')
        /\ (\A b \in Actors : b # a => calls'[b] = calls[b]) /\ calls'[a].at \in {"idle", "check"}
    BY <1>0, <1>1, SucceedMoves DEF At
  <2> QED
    BY <1>0, <2>1, MoveKeepsInv DEF Actors
<1>2. CASE Fail(a)
  BY <1>0, <1>2, FailKeepsInv
<1> QED
  BY <1>1, <1>2 DEF Verify

(* The backend dies with all calls.                                        *)
LEMMA DeathKeepsInv == ASSUME TargetInv, BackendDies PROVE TargetInv'
<1>1. Left(Actors) /\ UNCHANGED <<vms, markers, vmidOf, progress>>
  BY QueuesLeft DEF BackendDies
<1>2. \A a \in Actors : calls'[a] = NoCall
  BY DEF BackendDies
<1>3. calls' \in [Actors -> Call] /\ NoCall.at = "idle"
  BY NoCallOK DEF BackendDies, NoCall
<1>4. \A a \in Actors : CallOK(a, calls[a])'
  BY <1>2, <1>3 DEF CallOK
<1> QED
  BY <1>1, <1>2, <1>3, <1>4, MoveKeepsInv DEF GoesOn, Actors

(* The engine takes the next operation of a plan, a handler a rollback.    *)
LEMMA BeginKeepsInv ==
  ASSUME TargetInv, NEW p \in Plans, Execute(p) \/ Rollback(p)
  PROVE  TargetInv'
<1>0. /\ calls \in [Actors -> Call] /\ Left({}) /\ UNCHANGED <<vms, markers, vmidOf, progress>>
      /\ progress[p] \in 0..Last /\ vmidOf[p] \in Vmids
  BY QueuesLeft DEF TargetInv, TargetTypeOK, Execute, Rollback
<1>1. PICK a \in Actors : /\ calls[a].at = "idle"
                          /\ \/ a = "engine" /\ Execute(p)
                             \/ a = "handler" /\ Rollback(p)
  BY DEF Execute, Rollback, Actors, At
<1>2. PICK c : c = IF a = "engine"
                   THEN [NoCall EXCEPT !.at = "check", !.op = OperationAt(progress[p]), !.plan = p,
                                       !.disk = IF progress[p] \in Disks THEN progress[p] ELSE 1]
                   ELSE [NoCall EXCEPT !.at = "check", !.op = "isolate", !.plan = p]
  OBVIOUS
<1>3. OperationAt(progress[p]) \in Operations /\ 1 \in Disks /\ NoCall \in Call
  BY EmptyTypes DEF OperationAt, Operations
<1>4. c \in Call /\ c.at = "check" /\ c.plan = p
  <2>1. CASE a = "engine"
    <3>1. PICK d \in Disks : d = IF progress[p] \in Disks THEN progress[p] ELSE 1
      BY <1>3
    <3> QED
      BY <1>2, <1>3, <2>1, <3>1 DEF NoCall, Call, Positions
  <2>2. CASE a # "engine"
    BY <1>2, <1>3, <2>2 DEF NoCall, Call, Positions, Operations
  <2> QED
    BY <2>1, <2>2
<1>5. CallOK(a, c)'
  <2>1. CASE a = "engine"
    <3>1. progress[p] < Last /\ c.op = OperationAt(progress[p])
          /\ c.disk = IF progress[p] \in Disks THEN progress[p] ELSE 1
      BY <1>1, <1>2, <2>1 DEF Execute, NoCall
    <3>2. OperationAt(progress[p]) = "import" => progress[p] \in Disks
      BY <1>0, TargetAssumption DEF OperationAt, Disks, Last
    <3> QED
      BY <1>0, <1>4, <2>1, <3>1, <3>2 DEF CallOK
  <2>2. CASE a = "handler"
    <3>1. c.op = "isolate"
      BY <1>2, <2>2 DEF NoCall
    <3> QED
      BY <1>0, <1>4, <2>2, <3>1 DEF CallOK
  <2> QED
    BY <1>1, <2>1, <2>2
<1>6. calls' = [calls EXCEPT ![a] = c]
  BY <1>1, <1>2 DEF Execute, Rollback
<1>7. calls' \in [Actors -> Call] /\ \A b \in Actors : CallOK(b, calls[b])'
  BY <1>0, <1>4, <1>5, <1>6, CallerMoves
<1>8. calls'[a] = c /\ \A b \in Actors : b # a => calls'[b] = calls[b]
  BY <1>0, <1>6
<1> QED
  BY <1>0, <1>1, <1>4, <1>7, <1>8, MoveKeepsInv DEF GoesOn, Actors

(* A plan reserves an id: it had no VM, no calls and no tasks before.      *)
LEMMA ReserveKeepsInv ==
  ASSUME TargetInv, NEW p \in Plans, ReserveVMID(p)
  PROVE  TargetInv'
<1>0. /\ calls["engine"].at = "idle" /\ vmidOf[p] = NoVmid /\ NoVmid \notin Vmids
      /\ UNCHANGED <<vms, markers, tasks, progress, calls>>
  BY TargetAssumption DEF ReserveVMID, At
<1>1. PICK k \in Vmids : vmidOf' = [vmidOf EXCEPT ![p] = k]
  BY DEF ReserveVMID
<1>2. /\ vmidOf' \in [Plans -> Vmids \cup {NoVmid}]
      /\ \A q \in Plans : vmidOf[q] \in Vmids => vmidOf'[q] = vmidOf[q]
  BY <1>0, <1>1 DEF TargetInv, TargetTypeOK
<1>3. TargetTypeOK'
  BY <1>0, <1>2 DEF TargetInv, TargetTypeOK
<1>4. VMsOK'
  <2>1. ASSUME NEW i \in Vmids, Cluster!Ours(i) PROVE vmidOf'[vms[i].owner] = vmidOf[vms[i].owner]
    BY <1>2, <2>1 DEF TargetInv, VMsOK, VMOK, Cluster!Ours
  <2> QED
    BY <1>0, <2>1 DEF TargetInv, VMsOK, VMOK, Cluster!Ours
<1>5. PlansOK'
  BY <1>0, <1>2 DEF TargetInv, PlansOK
<1>6. QueuesOK'
  <2>1. ASSUME NEW i \in Vmids, NEW n \in 1..Len(tasks[i])
        PROVE  PurposeOK(i, tasks[i][n])' /\ PosterOK(i, tasks[i][n])'
    <3>1. PICK t \in Task : t = tasks[i][n]
      BY ElementOfSeq DEF TargetInv, TargetTypeOK
    <3>2. PurposeOK(i, t) /\ PosterOK(i, t) /\ t.plan \in Plans /\ t.by \in Actors \cup {"nobody"}
      BY <3>1 DEF TargetInv, QueuesOK, Task
    <3>3. (PurposeOK(i, t))'
      BY <1>0, <1>2, <3>2 DEF PurposeOK, Cluster!Ours
    <3>4. (PosterOK(i, t))'
      <4>1. t.by # "nobody" => calls[t.by].at # "idle"
        BY <3>2 DEF PosterOK
      <4>2. t.by # "nobody" => PlanOf(t.by) \in Plans /\ vmidOf[PlanOf(t.by)] \in Vmids
        BY <3>2, <4>1, OpenCall DEF Id
      <4> QED
        BY <1>0, <1>2, <3>2, <4>2 DEF PosterOK, Id, PlanOf, Op
    <3> QED
      BY <1>0, <3>1, <3>3, <3>4 DEF PurposeOK, PosterOK
  <2> QED
    BY <1>0, <2>1 DEF QueuesOK, TargetInv, Before
<1>7. StartsOK'
  BY <1>0 DEF StartsOK
<1>8. ASSUME NEW a \in Actors PROVE CallOK(a, calls[a])'
  BY <1>0, <1>2 DEF TargetInv, CallOK, Cluster!Ours
<1> QED
  BY <1>3, <1>4, <1>5, <1>6, <1>7, <1>8 DEF TargetInv

-----------------------------------------------------------------------------
(* The queues                                                              *)

(* An operation posts its change.                                          *)
LEMMA PostKeepsInv ==
  ASSUME TargetInv, NEW a \in Actors, Post(a)
  PROVE  TargetInv'
<1> DEFINE i == Id(a)
           p == PlanOf(a)
<1>0. /\ calls \in [Actors -> Call] /\ calls[a] \in Call /\ calls[a].at = "post"
      /\ UNCHANGED <<vms, markers, vmidOf, progress>>
      /\ p \in Plans /\ i \in Vmids /\ i = vmidOf[p] /\ CallOK(a, calls[a])
      /\ tasks \in [Vmids -> Seq(Task)] /\ progress[p] \in 0..Last
  BY OpenCall DEF TargetInv, TargetTypeOK, Post, At, Id
<1>1. PICK t : t = [op |-> Op(a), plan |-> p, disk |-> calls[a].disk,
                    seen |-> calls[a].seen, by |-> a]
  OBVIOUS
<1>2. t \in Task /\ t.op = Op(a) /\ t.plan = p /\ t.disk = calls[a].disk
      /\ t.seen = calls[a].seen /\ t.by = a /\ a # "nobody"
  BY <1>0, <1>1 DEF Task, Call, Op, Actors
<1>3. PICK c : c = [calls[a] EXCEPT !.task = "open",
                                    !.at = IF Op(a) = "isolate" THEN "verify" ELSE "wait"]
  OBVIOUS
<1>4. c \in Call /\ c.at \in {"wait", "verify"} /\ c.task = "open" /\ c.op = Op(a)
      /\ c.plan = p /\ c.disk = calls[a].disk /\ (c.at = "verify" => c.op = "isolate")
  BY <1>0, <1>3 DEF Call, Positions, Outcomes, Op, PlanOf
<1>5. /\ tasks' = [tasks EXCEPT ![i] = Append(@, t)]
      /\ calls' = [calls EXCEPT ![a] = c]
  BY <1>0, <1>1, <1>3 DEF Post
<1>6. PICK s \in Seq(Task) : s = tasks[i] /\ Len(s) < MaxTasks
  BY <1>0 DEF Post
<1>7. /\ Append(s, t) \in Seq(Task) /\ Len(Append(s, t)) = Len(s) + 1 /\ Len(s) \in Nat
      /\ \A n \in 1..Len(s) : Append(s, t)[n] = s[n]
      /\ Append(s, t)[Len(s) + 1] = t
  BY <1>2, QueueAppend
<1>8. tasks'[i] = Append(s, t) /\ \A j \in Vmids : j # i => tasks'[j] = tasks[j]
  BY <1>0, <1>5, <1>6
<1>9. calls'[a] = c /\ \A b \in Actors : b # a => calls'[b] = calls[b]
  BY <1>0, <1>5
<1>10. CallOK(a, c)'
  BY <1>0, <1>4 DEF CallOK, Op, PlanOf
<1>11. calls' \in [Actors -> Call] /\ \A b \in Actors : CallOK(b, calls[b])'
  BY <1>0, <1>4, <1>5, <1>10, CallerMoves
<1>12. TargetTypeOK'
  <2>1. tasks' \in [Vmids -> Seq(Task)]
    BY <1>0, <1>5, <1>6, <1>7
  <2>2. ASSUME NEW j \in Vmids PROVE Len(tasks'[j]) <= MaxTasks
    <3>1. j # i => Len(tasks'[j]) <= MaxTasks
      BY <1>8 DEF TargetInv, TargetTypeOK
    <3>2. Len(s) + 1 <= MaxTasks
      BY <1>6, <1>7, TargetAssumption
    <3> QED
      BY <1>7, <1>8, <3>1, <3>2
  <2> QED
    BY <1>0, <1>11, <2>1, <2>2 DEF TargetInv, TargetTypeOK
<1>13. VMsOK' /\ PlansOK'
  BY <1>0 DEF TargetInv, VMsOK, VMOK, PlansOK, Cluster!Ours
<1>14. progress[p] > 0 => vms[i].owner = p
  BY <1>0 DEF TargetInv, PlansOK
<1>15. /\ t.op = "import" => t.disk = progress[p] /\ t.disk \in Nat \ {0} /\ a = "engine"
       /\ t.op = "start" => progress[p] = Last - 1 /\ a = "engine"
       /\ t.op # "create" => Cluster!Ours(i)
       /\ t.op = "import" => t.seen = 1..(t.disk - 1)
  <2>1. a = "engine" \/ Op(a) \in {"isolate", "stop"}
    BY <1>0 DEF CallOK, Actors, Op
  <2>2. a = "engine" => Op(a) = OperationAt(progress[p]) /\ (Op(a) = "import" => calls[a].disk = progress[p])
    BY <1>0 DEF CallOK, Op, PlanOf
  <2>3. a = "engine" => progress[p] < Last
    BY <1>0 DEF CallOK, PlanOf
  <2>4. a = "engine" /\ Op(a) = "start" => progress[p] = Last - 1
    BY <1>0, <2>2, <2>3, TargetAssumption DEF OperationAt, Last
  <2>5. calls[a].disk \in Nat \ {0}
    BY <1>0, TargetAssumption DEF Call, Disks
  <2> QED
    BY <1>0, <1>2, <2>1, <2>2, <2>4, <2>5 DEF CallOK, Op, PlanOf, Cluster!Ours
<1>16. PurposeOK(i, t)
  <2>1. t.op = "import" => \A d \in markers[i] : d <= t.disk
    BY <1>0, <1>14, <1>15 DEF TargetInv, VMsOK, VMOK, TargetTypeOK, Cluster!Ours
  <2>2. t.op = "start" => progress[vms[i].owner] = Last - 1
    BY <1>14, <1>15, EmptyTypes
  <2> QED
    BY <1>0, <1>2, <1>14, <1>15, <2>1, <2>2 DEF PurposeOK
<1>17. ASSUME NEW j \in Vmids, NEW n \in 1..Len(tasks[j]), NEW u, u = tasks[j][n]
       PROVE  u \in Task /\ PurposeOK(j, u) /\ PosterOK(j, u) /\ u.by # a
  <2>1. PurposeOK(j, u) /\ PosterOK(j, u) /\ u \in Task
    BY <1>0, <1>17, ElementOfSeq DEF TargetInv, QueuesOK
  <2> QED
    BY <1>0, <1>2, <2>1 DEF PosterOK
<1>18. ASSUME NEW j \in Vmids, NEW n \in 1..Len(tasks'[j]), NEW u, u = tasks'[j][n]
       PROVE  PurposeOK(j, u)' /\ PosterOK(j, u)'
  <2>1. CASE n \in 1..Len(tasks[j]) /\ u = tasks[j][n]
    <3>1. u \in Task /\ PurposeOK(j, u) /\ PosterOK(j, u) /\ u.by # a
      BY <1>17, <2>1
    <3>2. PurposeOK(j, u)'
      BY <1>0, <3>1 DEF PurposeOK, Cluster!Ours
    <3>3. u.by # "nobody" => calls'[u.by] = calls[u.by]
      BY <1>9, <3>1 DEF Task
    <3>4. PosterOK(j, u)'
      BY <1>0, <3>1, <3>3 DEF PosterOK, Id, PlanOf, Op
    <3> QED
      BY <3>2, <3>4
  <2>2. CASE j = i /\ u = t
    <3>1. PurposeOK(j, u)'
      BY <1>0, <1>16, <2>2 DEF PurposeOK, Cluster!Ours
    <3>2. PosterOK(j, u)'
      BY <1>0, <1>2, <1>4, <1>9, <2>2 DEF PosterOK, Id, PlanOf, Op
    <3> QED
      BY <3>1, <3>2
  <2>3. \/ n \in 1..Len(tasks[j]) /\ u = tasks[j][n]
        \/ j = i /\ u = t
    BY <1>6, <1>7, <1>8, <1>18
  <2> QED
    BY <2>1, <2>2, <2>3
<1>19. ASSUME NEW j \in Vmids, NEW m \in 1..Len(tasks'[j]), NEW n \in 1..Len(tasks'[j]), m < n
       PROVE  Before(tasks'[j][m], tasks'[j][n])
  <2>1. CASE n \in 1..Len(tasks[j]) /\ tasks'[j][n] = tasks[j][n] /\ tasks'[j][m] = tasks[j][m]
             /\ m \in 1..Len(tasks[j])
    BY <1>19, <2>1 DEF TargetInv, QueuesOK
  <2>2. CASE j = i /\ m \in 1..Len(s) /\ tasks'[j][m] = s[m] /\ tasks'[j][n] = t
    <3>1. PICK u : u = s[m]
      OBVIOUS
    <3>2. u \in Task /\ PurposeOK(i, u) /\ u.by # a
      BY <1>0, <1>6, <1>17, <2>2, <3>1
    <3>3. u.op = "import" /\ t.op = "import" => u.disk <= t.disk
      BY <1>14, <1>15, <3>2, EmptyTypes DEF PurposeOK
    <3>4. t.op = "start" => a = "engine"
      BY <1>15
    <3> QED
      BY <1>2, <2>2, <3>1, <3>2, <3>3, <3>4 DEF Before
  <2>3. \/ n \in 1..Len(tasks[j]) /\ tasks'[j][n] = tasks[j][n] /\ tasks'[j][m] = tasks[j][m]
           /\ m \in 1..Len(tasks[j])
        \/ j = i /\ m \in 1..Len(s) /\ tasks'[j][m] = s[m] /\ tasks'[j][n] = t
    BY <1>6, <1>7, <1>8, <1>19
  <2> QED
    BY <2>1, <2>2, <2>3
<1>20. QueuesOK'
  <2>1. ASSUME NEW j \in Vmids, NEW n \in 1..Len(tasks'[j])
        PROVE  (PurposeOK(j, tasks[j][n]) /\ PosterOK(j, tasks[j][n]))'
    <3>1. PICK u : u = tasks'[j][n]
      OBVIOUS
    <3>2. PurposeOK(j, u)' /\ PosterOK(j, u)'
      BY <1>18, <3>1
    <3> QED
      BY <3>1, <3>2 DEF PurposeOK, PosterOK
  <2>2. \A j \in Vmids : \A m, n \in 1..Len(tasks'[j]) : m < n => Before(tasks[j][m], tasks[j][n])'
    BY <1>19 DEF Before
  <2> QED
    BY <2>1, <2>2 DEF QueuesOK
<1>21. StartsOK'
  <2> SUFFICES ASSUME StartsOK!1' PROVE StartsOK!2'
    BY DEF StartsOK
  <2>1. a # "engine" /\ calls'["engine"] = calls["engine"]
    BY <1>4, <1>9 DEF Actors
  <2>2. Id("engine")' = Id("engine") /\ StartsOK!2 /\ Id("engine") \in Vmids
    BY <1>0, <2>1, OpenCall DEF StartsOK, Id, PlanOf, Op, TargetInv, Actors
  <2>3. t.op # "start"
    BY <1>15, <2>1
  <2>4. ASSUME NEW n \in 1..Len(tasks'[Id("engine")]) PROVE tasks'[Id("engine")][n].op # "start"
    <3>1. \/ n \in 1..Len(tasks[Id("engine")]) /\ tasks'[Id("engine")][n] = tasks[Id("engine")][n]
          \/ tasks'[Id("engine")][n] = t
      BY <1>6, <1>7, <1>8, <2>2, <2>4
    <3> QED
      BY <2>2, <2>3, <3>1
  <2> QED
    BY <2>2, <2>4
<1> QED
  BY <1>11, <1>12, <1>13, <1>20, <1>21 DEF TargetInv

-----------------------------------------------------------------------------
(* The cluster                                                             *)

(* One VM changes and keeps its plan.                                      *)
LEMMA OneVMChanges ==
  ASSUME TargetInv, NEW i \in Vmids, NEW vm \in VM, NEW ms \in SUBSET Disks,
         vms' = [vms EXCEPT ![i] = vm], markers' = [markers EXCEPT ![i] = ms],
         UNCHANGED <<vmidOf, progress>>, VMOK(i)',
         vms[i].owner = NoPlan \/ vm.owner = vms[i].owner
  PROVE  /\ vms' \in [Vmids -> VM] /\ markers' \in [Vmids -> SUBSET Disks]
         /\ VMsOK' /\ PlansOK'
         /\ \A j \in Vmids : Cluster!Ours(j) => Cluster!Ours(j)' /\ vms'[j].owner = vms[j].owner
<1>1. vms \in [Vmids -> VM] /\ markers \in [Vmids -> SUBSET Disks]
  BY DEF TargetInv, TargetTypeOK
<1>2. /\ vms' \in [Vmids -> VM] /\ markers' \in [Vmids -> SUBSET Disks]
      /\ vms'[i] = vm /\ markers'[i] = ms
      /\ \A j \in Vmids : j # i => vms'[j] = vms[j] /\ markers'[j] = markers[j]
  BY <1>1
<1>3. ASSUME NEW j \in Vmids PROVE VMOK(j)'
  <2>1. CASE j # i
    BY <1>2, <2>1 DEF TargetInv, VMsOK, VMOK, Cluster!Ours
  <2> QED
    BY <2>1
<1>4. PlansOK'
  BY <1>2, TargetAssumption DEF TargetInv, PlansOK
<1>5. \A j \in Vmids : Cluster!Ours(j) => Cluster!Ours(j)' /\ vms'[j].owner = vms[j].owner
  BY <1>2, TargetAssumption DEF Cluster!Ours
<1> QED
  BY <1>2, <1>3, <1>4, <1>5 DEF VMsOK

(* A change of the cluster beside the tasks.                               *)
LEMMA OutsideKeepsInv ==
  ASSUME TargetInv, NEW i \in Vmids, SomebodyCreates(i) \/ Connect(i)
  PROVE  TargetInv'
<1>0. /\ vms \in [Vmids -> VM] /\ markers \in [Vmids -> SUBSET Disks]
      /\ UNCHANGED <<markers, tasks, vmidOf, progress, calls>>
  BY DEF TargetInv, TargetTypeOK, SomebodyCreates, Connect
<1>1. PICK vm : vm = vms'[i]
  OBVIOUS
<1>2. /\ vms' = [vms EXCEPT ![i] = vm] /\ vm \in VM /\ VMOK(i)'
      /\ vms[i].owner = NoPlan \/ vm.owner = vms[i].owner
  <2>1. CASE SomebodyCreates(i)
    <3>1. vm = Cluster!OtherVM /\ vms' = [vms EXCEPT ![i] = vm] /\ vms[i].owner = NoPlan
      BY <1>0, <1>1, <2>1 DEF SomebodyCreates, Cluster!NoVM
    <3>2. vm.owner = Somebody
      BY <3>1 DEF Cluster!OtherVM, Cluster!NoVM
    <3> QED
      BY <1>1, <3>1, <3>2, EmptyTypes, TargetAssumption DEF VMOK, Cluster!Ours
  <2>2. CASE Connect(i)
    <3>1. vm = [vms[i] EXCEPT !.isolated = FALSE] /\ vms' = [vms EXCEPT ![i] = vm]
      BY <1>0, <1>1, <2>2 DEF Connect
    <3>2. /\ vm \in VM /\ vm.owner = vms[i].owner /\ vm.slots = vms[i].slots /\ vm.on = vms[i].on
          /\ vms[i].owner \in Plans /\ progress[vms[i].owner] = Last
      <4>1. PICK w \in VM : w = vms[i]
        BY <1>0
      <4>2. vm = [w EXCEPT !.isolated = FALSE]
        BY <3>1, <4>1
      <4>3. vm \in VM /\ vm.owner = w.owner /\ vm.slots = w.slots /\ vm.on = w.on
        BY <4>1, <4>2 DEF VM
      <4>4. vms[i].owner \in Plans /\ progress[vms[i].owner] = Last
        BY <2>2 DEF Connect
      <4> QED
        BY <4>1, <4>3, <4>4
    <3>3. VMOK(i)
      BY DEF TargetInv, VMsOK
    <3> QED
      BY <1>0, <1>1, <3>1, <3>2, <3>3, EmptyTypes, TargetAssumption DEF VMOK, Cluster!Ours
  <2> QED
    BY <2>1, <2>2
<1>3. PICK ms \in SUBSET Disks : markers' = [markers EXCEPT ![i] = ms]
  BY <1>0
<1>4. /\ vms' \in [Vmids -> VM] /\ markers' \in [Vmids -> SUBSET Disks]
      /\ VMsOK' /\ PlansOK'
      /\ \A j \in Vmids : Cluster!Ours(j) => Cluster!Ours(j)' /\ vms'[j].owner = vms[j].owner
  BY <1>0, <1>2, <1>3, OneVMChanges
<1>5. TargetTypeOK'
  BY <1>0, <1>4 DEF TargetInv, TargetTypeOK
<1>6. QueuesOK'
  <2>1. ASSUME NEW j \in Vmids, NEW n \in 1..Len(tasks[j])
        PROVE  (PurposeOK(j, tasks[j][n]) /\ PosterOK(j, tasks[j][n]))'
    <3>1. PICK t : t = tasks[j][n]
      OBVIOUS
    <3>2. PurposeOK(j, t) /\ PosterOK(j, t)
      BY <3>1 DEF TargetInv, QueuesOK
    <3>3. t.op = "start" => Cluster!Ours(j)
      BY <3>2 DEF PurposeOK
    <3> QED
      BY <1>0, <1>4, <3>1, <3>2, <3>3 DEF PurposeOK, PosterOK, Id, PlanOf, Op
  <2> QED
    BY <1>0, <2>1 DEF QueuesOK, TargetInv, Before
<1>7. StartsOK'
  BY <1>0 DEF TargetInv, StartsOK, Id, PlanOf, Op
<1>8. ASSUME NEW a \in Actors PROVE CallOK(a, calls[a])'
  BY <1>0, <1>4 DEF TargetInv, CallOK
<1> QED
  BY <1>4, <1>5, <1>6, <1>7, <1>8 DEF TargetInv

(* A task ends: the queue gets shorter, and its poster learns how.         *)
LEMMA EndKeepsInv ==
  ASSUME TargetInv, NEW i \in Vmids, tasks[i] # <<>>, NEW outcome \in {"ok", "failed"},
         TaskEnds(i, outcome), UNCHANGED <<vmidOf, progress>>,
         vms' \in [Vmids -> VM], markers' \in [Vmids -> SUBSET Disks], VMsOK', PlansOK',
         \A j \in Vmids : Cluster!Ours(j) => Cluster!Ours(j)',
         \A j \in Vmids, t \in Task :
           PurposeOK(j, t) /\ (j = i => Before(Head(tasks[i]), t)) => PurposeOK(j, t)'
  PROVE  TargetInv'
<1>0. tasks \in [Vmids -> Seq(Task)] /\ calls \in [Actors -> Call]
  BY DEF TargetInv, TargetTypeOK
<1>1. PICK s \in Seq(Task) : s = tasks[i] /\ s # <<>>
  BY <1>0
<1>2. /\ Tail(s) \in Seq(Task) /\ Len(s) \in Nat \ {0}
      /\ Head(s) = s[1] /\ s[1] \in Task /\ Len(Tail(s)) = Len(s) - 1
      /\ \A n \in 1..Len(Tail(s)) : n + 1 \in 1..Len(s) /\ Tail(s)[n] = s[n + 1]
  BY <1>1, QueueTail
<1>3. PICK h \in Task : h = Head(tasks[i]) /\ h = s[1]
  BY <1>1, <1>2
<1>4. tasks'[i] = Tail(s) /\ \A j \in Vmids : j # i => tasks'[j] = tasks[j]
  BY <1>0, <1>1 DEF TaskEnds
<1>5. calls' = [a \in Actors |-> IF h.by = a THEN [calls[a] EXCEPT !.task = outcome] ELSE calls[a]]
  BY <1>3 DEF TaskEnds
<1>6. ASSUME NEW a \in Actors
      PROVE  /\ calls'[a] \in Call /\ calls'[a].at = calls[a].at /\ calls'[a].op = calls[a].op
             /\ calls'[a].plan = calls[a].plan /\ calls'[a].disk = calls[a].disk
             /\ calls'[a].seen = calls[a].seen
             /\ calls'[a].task = IF h.by = a THEN outcome ELSE calls[a].task
  <2>1. PICK c \in Call : c = calls[a]
    BY <1>0
  <2>2. PICK e : e = calls'[a]
    OBVIOUS
  <2>3. e = IF h.by = a THEN [c EXCEPT !.task = outcome] ELSE c
    BY <1>5, <2>1, <2>2
  <2> QED
    BY <2>1, <2>2, <2>3 DEF Call, Outcomes
<1>7. calls' \in [Actors -> Call]
  BY <1>5, <1>6
<1>8. TargetTypeOK'
  <2>1. tasks' \in [Vmids -> Seq(Task)]
    BY <1>0, <1>1, <1>2 DEF TaskEnds
  <2>2. ASSUME NEW j \in Vmids PROVE Len(tasks'[j]) <= MaxTasks
    <3>1. Len(tasks[j]) <= MaxTasks
      BY DEF TargetInv, TargetTypeOK
    <3>2. j = i => Len(tasks'[j]) = Len(s) - 1 /\ Len(s) <= MaxTasks
      BY <1>1, <1>2, <1>4, <3>1
    <3>3. Len(s) \in Nat /\ MaxTasks \in Nat
      BY <1>2, TargetAssumption
    <3> QED
      BY <1>4, <3>1, <3>2, <3>3
  <2> QED
    BY <1>7, <2>1, <2>2 DEF TargetInv, TargetTypeOK
\* The tasks that remain are tasks of before, in the same order, and behind h.
<1>9. ASSUME NEW j \in Vmids, NEW n \in 1..Len(tasks'[j])
      PROVE  \E k \in 1..Len(tasks[j]) :
               /\ tasks'[j][n] = tasks[j][k] /\ tasks'[j][n] \in Task
               /\ k = (IF j = i THEN n + 1 ELSE n)
               /\ j = i => Before(h, tasks'[j][n])
  <2>1. CASE j = i
    <3>1. n \in 1..Len(Tail(s)) /\ n + 1 \in 1..Len(s) /\ 1 \in 1..Len(s) /\ 1 < n + 1
      BY <1>2, <1>4, <2>1
    <3>2. Before(s[1], s[n + 1])
      BY <1>1, <3>1, <2>1 DEF TargetInv, QueuesOK
    <3>3. s[n + 1] \in Task
      BY <1>1, <3>1, ElementOfSeq
    <3> QED
      BY <1>1, <1>2, <1>3, <1>4, <2>1, <3>1, <3>2, <3>3
  <2>2. CASE j # i
    <3>1. tasks[j][n] \in Task
      BY <1>0, <1>4, <2>2, ElementOfSeq
    <3> QED
      BY <1>4, <2>2, <3>1
  <2> QED
    BY <2>1, <2>2
<1>10. PosterOK(i, h)
  BY <1>1, <1>2, <1>3 DEF TargetInv, QueuesOK
<1>11. ASSUME NEW j \in Vmids, NEW n \in 1..Len(tasks'[j]), NEW u, u = tasks'[j][n]
       PROVE  PurposeOK(j, u)' /\ PosterOK(j, u)'
  <2>1. PICK k \in 1..Len(tasks[j]) : u = tasks[j][k] /\ u \in Task /\ (j = i => Before(h, u))
    BY <1>9, <1>11
  <2>2. PurposeOK(j, u) /\ PosterOK(j, u)
    BY <2>1 DEF TargetInv, QueuesOK
  <2>3. PurposeOK(j, u)'
    BY <1>3, <2>1, <2>2
  <2>4. u.by # "nobody" => u.by \in Actors /\ h.by # u.by
    BY <1>3, <1>10, <2>1, <2>2 DEF PosterOK, Before, Task
  <2>5. PosterOK(j, u)'
    BY <1>6, <2>2, <2>4 DEF PosterOK, Id, PlanOf, Op
  <2> QED
    BY <2>3, <2>5
<1>12. ASSUME NEW j \in Vmids, NEW m \in 1..Len(tasks'[j]), NEW n \in 1..Len(tasks'[j]), m < n
       PROVE  Before(tasks'[j][m], tasks'[j][n])
  <2>1. PICK k \in 1..Len(tasks[j]) : tasks'[j][m] = tasks[j][k] /\ k = (IF j = i THEN m + 1 ELSE m)
    BY <1>9
  <2>2. PICK l \in 1..Len(tasks[j]) : tasks'[j][n] = tasks[j][l] /\ l = (IF j = i THEN n + 1 ELSE n)
    BY <1>9
  <2>3. k < l
    BY <1>12, <2>1, <2>2
  <2> QED
    BY <2>1, <2>2, <2>3 DEF TargetInv, QueuesOK
<1>13. QueuesOK'
  <2>1. ASSUME NEW j \in Vmids, NEW n \in 1..Len(tasks'[j])
        PROVE  (PurposeOK(j, tasks[j][n]) /\ PosterOK(j, tasks[j][n]))'
    <3>1. PICK u : u = tasks'[j][n]
      OBVIOUS
    <3>2. PurposeOK(j, u)' /\ PosterOK(j, u)'
      BY <1>11, <3>1
    <3> QED
      BY <3>1, <3>2 DEF PurposeOK, PosterOK
  <2>2. \A j \in Vmids : \A m, n \in 1..Len(tasks'[j]) : m < n => Before(tasks[j][m], tasks[j][n])'
    BY <1>12 DEF Before
  <2> QED
    BY <2>1, <2>2 DEF QueuesOK
<1>14. StartsOK'
  <2> SUFFICES ASSUME StartsOK!1' PROVE StartsOK!2'
    BY DEF StartsOK
  <2>0. "engine" \in Actors
    BY DEF Actors
  <2>1. /\ calls["engine"].at \in {"wait", "verify"} /\ Op("engine") = "start"
        /\ Id("engine")' = Id("engine") /\ Id("engine") \in Vmids
    BY <1>6, <2>0, OpenCall DEF Op, Id, PlanOf
  <2>2. PICK j \in Vmids : j = Id("engine")
    BY <2>1
  <2>3. ASSUME NEW n \in 1..Len(tasks'[j]) PROVE tasks'[j][n].op # "start"
    <3>1. PICK k \in 1..Len(tasks[j]) : tasks'[j][n] = tasks[j][k] /\ (j = i => Before(h, tasks[j][k]))
      BY <1>9
    <3>2. CASE h.by = "engine"
      <4>1. j = i
        BY <1>10, <2>2, <3>2 DEF PosterOK
      <4> QED
        BY <3>1, <3>2, <4>1 DEF Before
    <3>3. CASE h.by # "engine"
      <4>1. calls["engine"].task # "open"
        BY <1>6, <2>0, <3>3
      <4> QED
        BY <2>1, <2>2, <3>1, <4>1 DEF TargetInv, StartsOK
    <3> QED
      BY <3>2, <3>3
  <2> QED
    BY <2>1, <2>2, <2>3
<1>15. ASSUME NEW a \in Actors PROVE CallOK(a, calls[a])'
  <2>1. CallOK(a, calls[a])
    BY DEF TargetInv
  <2>2. calls[a].at = "verify" /\ calls[a].op # "isolate" => h.by # a
    BY <1>10, <2>1 DEF CallOK, PosterOK, Actors
  <2> QED
    BY <1>6, <2>1, <2>2 DEF CallOK
<1> QED
  BY <1>8, <1>13, <1>14, <1>15 DEF TargetInv

(* A task that fails changes nothing.                                      *)
LEMMA FailureKeepsInv == ASSUME TargetInv, NEW i \in Vmids, TaskFails(i) PROVE TargetInv'
<1>1. /\ tasks[i] # <<>> /\ TaskEnds(i, "failed") /\ UNCHANGED <<vms, markers, vmidOf, progress>>
  BY DEF TaskFails
<1>2. vms' \in [Vmids -> VM] /\ markers' \in [Vmids -> SUBSET Disks] /\ VMsOK' /\ PlansOK'
  BY <1>1 DEF TargetInv, TargetTypeOK, VMsOK, VMOK, PlansOK, Cluster!Ours
<1>3. \A j \in Vmids : Cluster!Ours(j) => Cluster!Ours(j)'
  BY <1>1 DEF Cluster!Ours
<1>4. \A j \in Vmids, t \in Task : PurposeOK(j, t) => PurposeOK(j, t)'
  BY <1>1 DEF PurposeOK, Cluster!Ours
<1> QED
  BY <1>1, <1>2, <1>3, <1>4, EndKeepsInv

(* The task that ends next still has its purpose.                          *)
LEMMA HeadHasPurpose ==
  ASSUME TargetInv, NEW i \in Vmids, TaskDone(i)
  PROVE  \E h \in Task : /\ h = Head(tasks[i]) /\ PurposeOK(i, h) /\ Possible(i, h)
                         /\ vms' = [vms EXCEPT ![i] = Changed(i, h)]
<1>1. PICK s \in Seq(Task) : s = tasks[i] /\ s # <<>>
  BY DEF TaskDone, TargetInv, TargetTypeOK
<1>2. Head(s) = s[1] /\ s[1] \in Task /\ Len(s) \in Nat \ {0}
  BY <1>1, QueueTail
<1>3. PICK h \in Task : h = Head(tasks[i]) /\ h = s[1]
  BY <1>1, <1>2
<1>4. PurposeOK(i, h)
  BY <1>1, <1>2, <1>3 DEF TargetInv, QueuesOK
<1> QED
  BY <1>3, <1>4 DEF TaskDone

(* What a task of a purpose does to its VM.                                *)
LEMMA TaskChanges ==
  ASSUME TargetInv, NEW i \in Vmids, NEW h \in Task, PurposeOK(i, h), Possible(i, h),
         NEW vm, vm = Changed(i, h), NEW ms,
         ms = (IF h.op = "import" THEN h.seen \cup {h.disk} ELSE markers[i]),
         vms' = [vms EXCEPT ![i] = vm], markers' = [markers EXCEPT ![i] = ms],
         UNCHANGED <<vmidOf, progress>>
  PROVE  /\ vm \in VM /\ ms \in SUBSET Disks /\ VMOK(i)'
         /\ vms[i].owner = NoPlan \/ vm.owner = vms[i].owner
         /\ vms[i].owner = NoPlan => h.op = "create"
         /\ h.op # "create" => vm.owner = vms[i].owner
         /\ h.op = "import" => ms = 1..h.disk
         /\ h.op # "import" => ms = markers[i]
<1>0. /\ vms \in [Vmids -> VM] /\ markers \in [Vmids -> SUBSET Disks] /\ VMOK(i)
      /\ vms'[i] = vm /\ markers'[i] = ms /\ progress \in [Plans -> 0..Last]
  BY DEF TargetInv, TargetTypeOK, VMsOK
<1>1. PICK w \in VM : w = vms[i]
  BY <1>0
<1>2. /\ h.op \in Operations /\ h.plan \in Plans /\ h.disk \in Disks
      /\ Disks = 1..DiskCount /\ DiskCount \in Nat \ {0}
  BY TargetAssumption DEF Task, Disks
<1>3. CASE h.op = "create"
  <2>1. w.owner = NoPlan /\ markers[i] = {} /\ vmidOf[h.plan] = i
    BY <1>0, <1>1, <1>3 DEF Possible, VMOK, PurposeOK
  <2>2. vm = Cluster!NewVM(h.plan) /\ vm \in VM /\ ms = {}
    BY <1>2, <1>3, <2>1, EmptyTypes DEF Changed
  <2>3. vm.owner = h.plan /\ ~vm.on /\ vm.isolated /\ \A d \in Disks : vm.slots[d] = NoPlan
    BY <2>2 DEF Cluster!NewVM, Cluster!NoVM
  <2>4. progress[h.plan] = 0
    BY <1>0, <1>1, <1>2, <2>1, TargetAssumption DEF TargetInv, PlansOK
  <2>5. VMOK(i)'
    <3>1. vm.owner # NoPlan /\ \A d \in Disks : ~ (progress[h.plan] > d)
      BY <1>2, <2>3, <2>4, TargetAssumption
    <3>2. vms'[i] = vm /\ markers'[i] = {} /\ vmidOf'[h.plan] = i /\ progress' = progress
      BY <1>0, <2>1, <2>2
    <3> QED
      BY <2>3, <3>1, <3>2 DEF VMOK
  <2> QED
    BY <1>1, <1>3, <2>1, <2>2, <2>5
<1>4. CASE h.op # "create"
  <2>1. /\ w.owner \in Plans /\ vmidOf[w.owner] = i /\ progress[w.owner] \in 0..Last
        /\ progress[w.owner] < Last => w.isolated
        /\ w.on => markers[i] = Disks
        /\ \A d \in Disks : /\ w.slots[d] = IF d \in markers[i] THEN w.owner ELSE NoPlan
                            /\ d \in markers[i] => d <= progress[w.owner]
                            /\ progress[w.owner] > d => d \in markers[i]
    BY <1>0, <1>1, <1>4 DEF PurposeOK, VMOK, Cluster!Ours
  <2>2. CASE h.op = "import"
    <3>1. h.plan = w.owner /\ h.seen = 1..(h.disk - 1) /\ h.disk <= progress[w.owner]
          /\ \A d \in markers[i] : d <= h.disk
      BY <1>1, <2>2 DEF PurposeOK
    <3>2. ms = 1..h.disk /\ ms \in SUBSET Disks
      BY <1>2, <2>2, <3>1
    <3>3. vm = [w EXCEPT !.slots[h.disk] = w.owner]
      BY <1>1, <2>2, <3>1 DEF Changed
    <3>4. /\ vm \in VM /\ vm.owner = w.owner /\ vm.on = w.on /\ vm.isolated = w.isolated
          /\ \A d \in Disks : vm.slots[d] = IF d = h.disk THEN w.owner ELSE w.slots[d]
      <4>1. PICK new : new = [w.slots EXCEPT ![h.disk] = w.owner]
        OBVIOUS
      <4>2. w.slots \in [Disks -> Plans \cup {NoPlan}]
        BY DEF VM
      <4>3. /\ new \in [Disks -> Plans \cup {NoPlan}]
            /\ \A d \in Disks : new[d] = IF d = h.disk THEN w.owner ELSE w.slots[d]
        BY <1>2, <2>1, <4>1, <4>2
      <4>4. vm = [w EXCEPT !.slots = new]
        BY <3>3, <4>1
      <4> QED
        BY <4>3, <4>4 DEF VM
    <3>5. ASSUME NEW d \in Disks
          PROVE  /\ vm.slots[d] = IF d \in ms THEN vm.owner ELSE NoPlan
                 /\ d \in ms => d <= progress[vm.owner]
                 /\ progress[vm.owner] > d => d \in ms
      <4>1. d < h.disk => d \in markers[i]
        BY <1>2, <2>1, <3>1
      <4>2. d > h.disk => d \notin markers[i]
        BY <1>2, <3>1
      <4> QED
        BY <1>2, <2>1, <3>1, <3>2, <3>4, <4>1, <4>2
    <3>6. vm.on => ms = Disks
      <4>1. w.on => DiskCount <= h.disk
        BY <1>2, <2>1, <3>1
      <4>2. w.on => h.disk = DiskCount
        BY <1>2, <4>1
      <4> QED
        BY <1>2, <3>2, <3>4, <4>2
    <3>7. VMOK(i)'
      BY <1>0, <2>1, <3>4, <3>5, <3>6, TargetAssumption DEF VMOK, Cluster!Ours
    <3> QED
      BY <1>1, <2>1, <2>2, <3>2, <3>4, <3>7, TargetAssumption
  <2>3. CASE h.op = "start"
    <3>1. progress[w.owner] = Last - 1
      BY <1>1, <2>3 DEF PurposeOK
    <3>2. \A d \in Disks : d \in markers[i]
      BY <2>1, <3>1, EmptyTypes
    <3>3. markers[i] = Disks /\ ms = markers[i]
      BY <1>0, <2>3, <3>2
    <3>4. vm = [w EXCEPT !.on = TRUE]
      BY <1>1, <2>3 DEF Changed
    <3>5. vm \in VM /\ vm.owner = w.owner /\ vm.slots = w.slots /\ vm.isolated = w.isolated
      BY <3>4 DEF VM
    <3>6. VMOK(i)'
      BY <1>0, <2>1, <3>3, <3>5, TargetAssumption DEF VMOK, Cluster!Ours
    <3> QED
      BY <1>0, <1>1, <2>1, <2>3, <3>3, <3>5, <3>6, TargetAssumption
  <2>4. CASE h.op \in {"stop", "isolate"}
    <3>1. vm = [w EXCEPT !.on = FALSE] \/ vm = [w EXCEPT !.isolated = TRUE]
      BY <1>1, <2>4 DEF Changed
    <3>2. /\ vm \in VM /\ vm.owner = w.owner /\ vm.slots = w.slots
          /\ vm.on => w.on
          /\ w.isolated => vm.isolated
      BY <3>1 DEF VM
    <3>3. ms = markers[i]
      BY <2>4
    <3>4. VMOK(i)'
      BY <1>0, <2>1, <3>2, <3>3, TargetAssumption DEF VMOK, Cluster!Ours
    <3> QED
      BY <1>0, <1>1, <2>1, <2>4, <3>2, <3>3, <3>4, TargetAssumption
  <2> QED
    BY <1>2, <1>4, <2>2, <2>3, <2>4 DEF Operations
<1> QED
  BY <1>3, <1>4

(* A task is done, and those behind it keep their purposes.                *)
LEMMA DoneKeepsInv == ASSUME TargetInv, NEW i \in Vmids, TaskDone(i) PROVE TargetInv'
<1>0. /\ vms \in [Vmids -> VM] /\ markers \in [Vmids -> SUBSET Disks]
      /\ tasks[i] # <<>> /\ TaskEnds(i, "ok") /\ UNCHANGED <<vmidOf, progress>>
  BY DEF TaskDone, TargetInv, TargetTypeOK
<1>1. PICK h \in Task : h = Head(tasks[i]) /\ PurposeOK(i, h) /\ Possible(i, h)
  BY HeadHasPurpose
<1>2. PICK vm : vm = Changed(i, h)
  OBVIOUS
<1>3. PICK ms : ms = IF h.op = "import" THEN h.seen \cup {h.disk} ELSE markers[i]
  OBVIOUS
<1>4. vms' = [vms EXCEPT ![i] = vm] /\ markers' = [markers EXCEPT ![i] = ms]
  BY <1>0, <1>1, <1>2, <1>3 DEF TaskDone
<1>5. /\ vm \in VM /\ ms \in SUBSET Disks /\ VMOK(i)'
      /\ vms[i].owner = NoPlan \/ vm.owner = vms[i].owner
      /\ vms[i].owner = NoPlan => h.op = "create"
      /\ h.op # "create" => vm.owner = vms[i].owner
      /\ h.op = "import" => ms = 1..h.disk
      /\ h.op # "import" => ms = markers[i]
  <2>1. UNCHANGED <<vmidOf, progress>>
    BY <1>0
  <2> QED
    BY <1>1, <1>2, <1>3, <1>4, <2>1, TaskChanges, Zenon
<1>6. /\ vms' \in [Vmids -> VM] /\ markers' \in [Vmids -> SUBSET Disks]
      /\ VMsOK' /\ PlansOK'
      /\ \A j \in Vmids : Cluster!Ours(j) => Cluster!Ours(j)' /\ vms'[j].owner = vms[j].owner
  BY <1>0, <1>4, <1>5, OneVMChanges
<1>7. ASSUME NEW j \in Vmids, NEW t \in Task, PurposeOK(j, t), j = i => Before(Head(tasks[i]), t)
      PROVE  PurposeOK(j, t)'
  <2>1. t.op = "import" => \A d \in markers'[j] : d <= t.disk
    <3>1. CASE j = i /\ h.op = "import"
      <4>1. t.op = "import" => h.disk <= t.disk
        BY <1>1, <1>7, <3>1 DEF Before
      <4>2. t.disk \in Nat /\ h.disk \in Nat
        BY EmptyTypes DEF Task
      <4> QED
        BY <1>0, <1>4, <1>5, <3>1, <4>1, <4>2
    <3>2. CASE ~ (j = i /\ h.op = "import")
      BY <1>0, <1>4, <1>5, <1>7, <3>2 DEF PurposeOK
    <3> QED
      BY <3>1, <3>2
  <2>2. t.op # "create" => Cluster!Ours(j) /\ Cluster!Ours(j)' /\ vms'[j].owner = vms[j].owner
    BY <1>6, <1>7 DEF PurposeOK
  <2> QED
    BY <1>0, <1>7, <2>1, <2>2 DEF PurposeOK
<1> QED
  BY <1>0, <1>6, <1>7, EndKeepsInv

-----------------------------------------------------------------------------
(* The theorems                                                            *)

(* Every step keeps the invariant.                                         *)
LEMMA NextKeepsInv == TargetInv /\ [TargetNext]_targetVars => TargetInv'
<1> SUFFICES ASSUME TargetInv, [TargetNext]_targetVars PROVE TargetInv'
  OBVIOUS
<1>1. ASSUME NEW p \in Plans, ReserveVMID(p) \/ Execute(p) \/ Rollback(p) PROVE TargetInv'
  BY <1>1, ReserveKeepsInv, BeginKeepsInv
<1>2. ASSUME NEW a \in Actors, Operate(a) PROVE TargetInv'
  BY <1>2, CheckKeepsInv, PostKeepsInv, WaitKeepsInv, VerifyKeepsInv DEF Operate
<1>3. ASSUME NEW a \in Actors, Abandon(a) PROVE TargetInv'
  BY <1>3, FailKeepsInv DEF Abandon
<1>4. ASSUME NEW i \in Vmids, TaskDone(i) \/ TaskFails(i) PROVE TargetInv'
  BY <1>4, DoneKeepsInv, FailureKeepsInv
<1>5. ASSUME NEW i \in Vmids, SomebodyCreates(i) \/ Connect(i) PROVE TargetInv'
  BY <1>5, OutsideKeepsInv
<1>6. CASE BackendDies
  BY <1>6, DeathKeepsInv
<1>7. CASE UNCHANGED targetVars
  BY <1>7 DEF TargetInv, TargetTypeOK, VMsOK, VMOK, PlansOK, QueuesOK, PurposeOK, PosterOK,
              StartsOK, CallOK, Cluster!Ours, Id, PlanOf, Op, targetVars
<1> QED
  BY <1>1, <1>2, <1>3, <1>4, <1>5, <1>6, <1>7 DEF TargetNext

(* The tasks in the queues, the calls and the VMs fit together             *)
(* (target.go, import.go), for any number of plans, VM ids and disks.      *)
THEOREM TargetInvariance == TargetSpec => []TargetInv
<1> QED
  BY InitInv, NextKeepsInv, PTL DEF TargetSpec

(* An operation on the cluster that was answered has happened, on the VM   *)
(* of its plan, and is not undone by a task left behind (ExecutePlan skips *)
(* what was answered).                                                     *)
THEOREM AnswersStayDone == TargetSpec => []AnsweredStaysDone
<1>1. TargetInv => AnsweredStaysDone
  <2> SUFFICES ASSUME TargetInv, NEW p \in Plans, progress[p] > 0
               PROVE  /\ vms[vmidOf[p]].owner = p
                      /\ \A d \in Disks : progress[p] > d =>
                           vms[vmidOf[p]].slots[d] = p /\ d \in markers[vmidOf[p]]
    BY DEF AnsweredStaysDone
  <2>1. vmidOf[p] \in Vmids /\ vms[vmidOf[p]].owner = p
    BY DEF TargetInv, PlansOK
  <2> QED
    BY <2>1 DEF TargetInv, VMsOK, VMOK, Cluster!Ours
<1> QED
  BY <1>1, TargetInvariance, PTL

(* A VM of a plan runs only with all of its disks (StartVM, target.go).    *)
THEOREM RunningVMsAreComplete == TargetSpec => []RunningVMIsComplete
<1>1. TargetInv => RunningVMIsComplete
  BY DEF TargetInv, VMsOK, VMOK, RunningVMIsComplete
<1> QED
  BY <1>1, TargetInvariance, PTL

(* What a step does to the VMs: only tasks, operators and others change    *)
(* them.                                                                   *)
LEMMA WhoChangesVMs ==
  ASSUME [TargetNext]_targetVars
  PROVE  \/ UNCHANGED vms
         \/ \E i \in Vmids : TaskDone(i) \/ SomebodyCreates(i) \/ Connect(i)
BY DEF TargetNext, targetVars, ReserveVMID, Execute, Rollback, Operate, Check, Post, WaitTask,
       Verify, Abandon, TaskFails, BackendDies

(* The VM of somebody else is never touched (ownedVMNode).                 *)
THEOREM OthersStayUntouched == TargetSpec => OthersUntouched
<1>1. ASSUME TargetInv, [TargetNext]_targetVars, NEW i \in Vmids, vms[i].owner = Somebody
      PROVE  vms'[i] = vms[i]
  <2>0. vms[i].owner # NoPlan /\ ~Cluster!Ours(i) /\ vms \in [Vmids -> VM]
    BY <1>1, TargetAssumption DEF Cluster!Ours, TargetInv, TargetTypeOK
  <2>1. ASSUME NEW j \in Vmids, SomebodyCreates(j) \/ Connect(j) PROVE vms'[i] = vms[i]
    <3>1. j # i
      BY <2>0, <2>1 DEF SomebodyCreates, Connect, Cluster!NoVM, Cluster!Ours
    <3> QED
      BY <2>0, <2>1, <3>1 DEF SomebodyCreates, Connect
  <2>2. ASSUME NEW j \in Vmids, TaskDone(j) PROVE vms'[i] = vms[i]
    <3>1. PICK h \in Task : /\ PurposeOK(j, h) /\ Possible(j, h)
                            /\ vms' = [vms EXCEPT ![j] = Changed(j, h)]
      BY <1>1, <2>2, HeadHasPurpose
    <3>2. j # i
      BY <2>0, <3>1 DEF PurposeOK, Possible
    <3> QED
      BY <2>0, <3>1, <3>2
  <2> QED
    BY <1>1, <2>1, <2>2, WhoChangesVMs
<1>2. TargetInv /\ [TargetNext]_targetVars =>
        [\A i \in Vmids : vms[i].owner = Somebody => vms'[i] = vms[i]]_targetVars
  BY <1>1
<1> QED
  BY <1>2, TargetInvariance, PTL DEF TargetSpec, OthersUntouched

(* What an ended task does to the VMs is one of the steps of TargetVMs,    *)
(* or nothing.                                                             *)
LEMMA TaskIsAStep ==
  ASSUME TargetInv, NEW i \in Vmids, TaskDone(i)
  PROVE  Cluster!Next \/ UNCHANGED vms
<1>1. PICK h \in Task : /\ PurposeOK(i, h) /\ Possible(i, h)
                        /\ vms' = [vms EXCEPT ![i] = Changed(i, h)]
  BY HeadHasPurpose
<1>2. /\ vms \in [Vmids -> VM] /\ VMOK(i) /\ h.op \in Operations /\ h.plan \in Plans
      /\ h.disk \in Disks /\ progress \in [Plans -> 0..Last]
  BY DEF TargetInv, TargetTypeOK, VMsOK, Task
<1>3. PICK w \in VM : w = vms[i]
  BY <1>2
<1>4. Changed(i, h) = w => UNCHANGED vms
  BY <1>1, <1>2, <1>3
<1>5. CASE h.op = "create"
  <2>1. vms[i] = Cluster!NoVM /\ vms' = [vms EXCEPT ![i] = Cluster!NewVM(h.plan)]
    BY <1>1, <1>2, <1>5 DEF Possible, VMOK, Changed
  <2>2. Cluster!CreateVM(i)
    BY <1>2, <2>1 DEF Cluster!CreateVM
  <2> QED
    BY <2>2 DEF Cluster!Next
<1>6. ASSUME h.op # "create"
      PROVE  /\ Cluster!Ours(i) /\ w.owner \in Plans
             /\ progress[w.owner] < Last => w.isolated
             /\ w.on => markers[i] = Disks
             /\ \A d \in Disks : w.slots[d] = IF d \in markers[i] THEN w.owner ELSE NoPlan
             /\ \A d \in Disks : progress[w.owner] > d => d \in markers[i]
  BY <1>1, <1>2, <1>3, <1>6 DEF PurposeOK, VMOK, Cluster!Ours
<1>7. CASE h.op = "import"
  <2>1. h.plan = w.owner /\ Changed(i, h) = [w EXCEPT !.slots[h.disk] = w.owner]
    BY <1>1, <1>3, <1>7 DEF PurposeOK, Changed
  <2>2. CASE h.disk \in markers[i]
    <3>1. w.slots \in [Disks -> Plans \cup {NoPlan}] /\ w.slots[h.disk] = w.owner
      BY <1>2, <1>6, <1>7, <2>2 DEF VM
    <3>2. [w.slots EXCEPT ![h.disk] = w.owner] = w.slots
      BY <3>1
    <3>3. [w EXCEPT !.slots = [w.slots EXCEPT ![h.disk] = w.owner]] = w
      BY <3>2 DEF VM
    <3> QED
      BY <1>4, <2>1, <3>3
  <2>3. CASE h.disk \notin markers[i]
    <3>1. ~w.on /\ w.slots[h.disk] = NoPlan
      BY <1>2, <1>6, <1>7, <2>3
    <3>2. vms' = [vms EXCEPT ![i].slots[h.disk] = vms[i].owner]
      BY <1>1, <1>2, <1>3, <2>1
    <3>3. Cluster!AttachDisk(i, h.disk)
      BY <1>3, <1>6, <1>7, <3>1, <3>2 DEF Cluster!AttachDisk
    <3> QED
      BY <1>2, <3>3 DEF Cluster!Next
  <2> QED
    BY <2>2, <2>3
<1>8. CASE h.op = "isolate"
  <2>1. vms' = [vms EXCEPT ![i].isolated = TRUE]
    BY <1>1, <1>2, <1>8 DEF Changed
  <2>2. Cluster!SetNetwork(i)
    BY <1>6, <1>8, <2>1 DEF Cluster!SetNetwork
  <2> QED
    BY <2>2 DEF Cluster!Next
<1>9. CASE h.op = "start"
  <2>1. progress[w.owner] = Last - 1 /\ Changed(i, h) = [w EXCEPT !.on = TRUE]
    BY <1>1, <1>3, <1>9 DEF PurposeOK, Changed
  <2>2. w.isolated /\ \A d \in Disks : w.slots[d] = w.owner
    BY <1>6, <1>9, <2>1, EmptyTypes
  <2>3. CASE w.on
    BY <1>4, <2>1, <2>3 DEF VM
  <2>4. CASE ~w.on
    <3>1. vms' = [vms EXCEPT ![i].on = TRUE]
      BY <1>1, <1>2, <1>3, <2>1
    <3>2. Cluster!StartVM(i)
      BY <1>3, <1>6, <1>9, <2>2, <2>4, <3>1 DEF Cluster!StartVM
    <3> QED
      BY <3>2 DEF Cluster!Next
  <2> QED
    BY <2>3, <2>4 DEF VM
<1>10. CASE h.op = "stop"
  <2>1. Changed(i, h) = [w EXCEPT !.on = FALSE]
    BY <1>3, <1>10 DEF Changed
  <2>2. CASE ~w.on
    BY <1>4, <2>1, <2>2 DEF VM
  <2>3. CASE w.on
    <3>1. vms' = [vms EXCEPT ![i].on = FALSE]
      BY <1>1, <1>2, <1>3, <2>1
    <3>2. Cluster!StopVM(i)
      BY <1>3, <1>6, <1>10, <2>3, <3>1 DEF Cluster!StopVM
    <3> QED
      BY <3>2 DEF Cluster!Next
  <2> QED
    BY <2>2, <2>3 DEF VM
<1> QED
  BY <1>2, <1>5, <1>7, <1>8, <1>9, <1>10 DEF Operations

(* The operations of target.go and import.go, with what happens between    *)
(* their check, their change and its task, implement the single steps of   *)
(* TargetVMs that JobEngine takes them for.                                *)
THEOREM TargetRefinement == TargetSpec => ImplementsTargetVMs
<1>1. TargetInit => Cluster!Init
  BY DEF TargetInit, Cluster!Init, Cluster!NoVM
<1>2. TargetInv /\ [TargetNext]_targetVars => [Cluster!Next]_vms
  <2> SUFFICES ASSUME TargetInv, [TargetNext]_targetVars PROVE Cluster!Next \/ UNCHANGED vms
    OBVIOUS
  <2>1. ASSUME NEW i \in Vmids, SomebodyCreates(i) PROVE Cluster!Next
    <3>1. Cluster!CreateVM(i)
      BY <2>1 DEF SomebodyCreates, Cluster!CreateVM
    <3> QED
      BY <3>1 DEF Cluster!Next
  <2>2. ASSUME NEW i \in Vmids, Connect(i) PROVE Cluster!Next
    <3>1. Cluster!SetNetwork(i)
      BY <2>2 DEF Connect, Cluster!SetNetwork, Cluster!Ours
    <3> QED
      BY <3>1 DEF Cluster!Next
  <2> QED
    BY <2>1, <2>2, TaskIsAStep, WhoChangesVMs
<1> QED
  BY <1>1, <1>2, TargetInvariance, PTL DEF TargetSpec, ImplementsTargetVMs, Cluster!Spec

=============================================================================
