--------------------------- MODULE MCProxmoxTarget ---------------------------
(***************************************************************************)
(* Finite instances of ProxmoxTarget for TLC.                              *)
(***************************************************************************)
EXTENDS ProxmoxTarget, TLC

PlansAndIdsAreAlike == Permutations(Plans) \cup Permutations(Vmids)

=============================================================================
