--------------------------- MODULE JobLifecycle ---------------------------
(***************************************************************************)
(* What the engine promises about the stored jobs, with no requests, no    *)
(* mutex, no platform and no failures: a job is registered once, an        *)
(* execution may begin at any time, the steps succeed one at a time, in    *)
(* order and for good, and a job waits for the operator only when all of   *)
(* them have.                                                              *)
(***************************************************************************)
EXTENDS Naturals

CONSTANT Plans

Steps == 1..6

VARIABLES
  phase,  \* the state of each plan's job
  done    \* the steps of each job that have succeeded

vars == <<phase, done>>

Init ==
  /\ phase = [p \in Plans |-> "absent"]
  /\ done = [p \in Plans |-> {}]

Register(p) ==
  /\ phase[p] = "absent"
  /\ phase' = [phase EXCEPT ![p] = "pending"]
  /\ UNCHANGED done

Begin(p) ==
  /\ phase[p] \in {"pending", "failed"}
  /\ phase' = [phase EXCEPT ![p] = "running"]
  /\ UNCHANGED done

(* The next step succeeds: the first one that has not.                     *)
Advance(p, s) ==
  /\ phase[p] = "running"
  /\ done[p] = 1..(s - 1)
  /\ done' = [done EXCEPT ![p] = 1..s]
  /\ UNCHANGED phase

Abort(p) ==
  /\ phase[p] = "running"
  /\ phase' = [phase EXCEPT ![p] = "failed"]
  /\ UNCHANGED done

Await(p) ==
  /\ phase[p] = "running"
  /\ done[p] = Steps
  /\ phase' = [phase EXCEPT ![p] = "pending"]
  /\ UNCHANGED done

Next ==
  \E p \in Plans :
    \/ Register(p) \/ Begin(p) \/ Abort(p) \/ Await(p)
    \/ \E s \in Steps : Advance(p, s)

Spec == Init /\ [][Next]_vars

=============================================================================
