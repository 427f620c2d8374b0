--------------------------- MODULE MCConnections ---------------------------
(***************************************************************************)
(* A finite instance of Connections for TLC: two VMware endpoints, one of  *)
(* them after a change of its password, and a Proxmox endpoint.            *)
(***************************************************************************)
EXTENDS Connections, TLC

CONSTANTS v1, v2, x1, s1, s2

EachItsOwn == (v1 :> 1) @@ (v2 :> 2) @@ (x1 :> 3)
TwoOfTheFirst == {<<v1, s1>>, <<v1, s2>>, <<v2, s2>>}
ClientsAreAlike == Permutations(Clients)

=============================================================================
