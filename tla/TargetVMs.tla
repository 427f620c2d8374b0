------------------------------ MODULE TargetVMs ------------------------------
(***************************************************************************)
(* The virtual machines of the target cluster as the migration engine      *)
(* takes them for (JobEngine, CreateVM to StartVM): each operation on one  *)
(* of them is a step, and its precondition holds in that step.             *)
(***************************************************************************)
CONSTANTS Plans, Vmids, Disks, NoPlan, Somebody

VARIABLE vms

NoVM == [owner |-> NoPlan, slots |-> [d \in Disks |-> NoPlan], on |-> FALSE,
         isolated |-> TRUE]
NewVM(p) == [NoVM EXCEPT !.owner = p]
OtherVM == [NoVM EXCEPT !.owner = Somebody, !.on = TRUE, !.isolated = FALSE]
Ours(i) == vms[i].owner \in Plans

Init == vms = [i \in Vmids |-> NoVM]

\* A plan, or somebody else, gets an id that is free.
CreateVM(i) ==
  /\ vms[i] = NoVM
  /\ \E vm \in {NewVM(p) : p \in Plans} \cup {OtherVM} : vms' = [vms EXCEPT ![i] = vm]

\* An empty slot of a stopped VM gets a disk of the plan that owns the VM.
AttachDisk(i, d) ==
  /\ Ours(i) /\ ~vms[i].on /\ vms[i].slots[d] = NoPlan
  /\ vms' = [vms EXCEPT ![i].slots[d] = vms[i].owner]

\* A VM is started with all its disks and without a network.
StartVM(i) ==
  /\ Ours(i) /\ ~vms[i].on /\ vms[i].isolated
  /\ \A d \in Disks : vms[i].slots[d] = vms[i].owner
  /\ vms' = [vms EXCEPT ![i].on = TRUE]

StopVM(i) == Ours(i) /\ vms[i].on /\ vms' = [vms EXCEPT ![i].on = FALSE]

\* Isolated by a handler, or connected by an operator.
SetNetwork(i) ==
  /\ Ours(i)
  /\ \E isolated \in BOOLEAN : vms' = [vms EXCEPT ![i].isolated = isolated]

Next ==
  \E i \in Vmids :
    CreateVM(i) \/ (\E d \in Disks : AttachDisk(i, d)) \/ StartVM(i) \/ StopVM(i) \/ SetNetwork(i)

Spec == Init /\ [][Next]_vms

=============================================================================
