------------------------ MODULE JobEngineRefinement ------------------------
(***************************************************************************)
(* JobEngine implements JobLifecycle: the stored state of a job is its     *)
(* phase, and its succeeded steps are the steps done.                      *)
(***************************************************************************)
EXTENDS JobEngine

Lifecycle == INSTANCE JobLifecycle WITH
  phase <- [p \in Plans |-> jobs[p].state],
  done  <- [p \in Plans |-> {s \in Steps : jobs[p].steps[s] = "succeeded"}]

(* Whatever fails and however requests interleave, the stored jobs only    *)
(* ever go through the lifecycle: no save of ExecutePlan, runStep or fail  *)
(* takes back a succeeded step or skips one.                               *)
ImplementsLifecycle == Lifecycle!Spec

=============================================================================
