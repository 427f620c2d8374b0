--------------------------- MODULE MCJobEngine ---------------------------
(***************************************************************************)
(* Finite instances of JobEngine for TLC.  The refinement of JobLifecycle  *)
(* is stated in JobEngineRefinement.                                       *)
(***************************************************************************)
EXTENDS JobEngineRefinement, TLC

CONSTANTS p1, p2, v1, v2

OneSourceEach == p1 :> v1 @@ p2 :> v2
SharedSource == p1 :> v1 @@ p2 :> v1
OnePlan == p1 :> v1

\* Sound with SharedSource: no plan differs from another, no id either.
PlansAndIdsAreAlike == Permutations(Plans) \cup Permutations(Vmids)

=============================================================================
