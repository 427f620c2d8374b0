-------------------------- MODULE MCMigrationApi --------------------------
(***************************************************************************)
(* Finite instances of MigrationApi for TLC: one plan.                     *)
(***************************************************************************)
EXTENDS MigrationApi, TLC

CONSTANTS p1, v1

OnePlan == p1 :> v1

HandlersAreAlike == Permutations(Handlers)

(* A bound: the engine has not gone past the creation of the target VM.    *)
(* After that it neither reads nor writes a plan or the reference to it.   *)
PlansInUse == step <= CreateTargetVM

(* A view: nobody reads the events that the engine appends, and of the     *)
(* plan a rollback has read only the reference to the target, until the    *)
(* target is stopped.                                                      *)
ReadByRollback(h) ==
  [NoRow EXCEPT !.vmid =
     IF HandlerAt(h, "isolate") \/ HandlerAt(h, "stop") THEN TargetOf(h) ELSE NoVmid]

WhatIsRead ==
  <<plans, jobs, {e \in audit : e[1] \in {"approve", "approve_power_off"}},
    platform, execution,
    [h \in Handlers |->
       IF handlers[h].at \in {"isolate", "stop", "source", "save"}
         THEN [handlers[h] EXCEPT !.row = ReadByRollback(h)] ELSE handlers[h]]>>

=============================================================================
