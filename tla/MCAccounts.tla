---------------------------- MODULE MCAccounts ----------------------------
(***************************************************************************)
(* Finite instances of Accounts for TLC.                                   *)
(***************************************************************************)
EXTENDS Accounts, TLC

CONSTANTS u1, u2

FirstAdmin == {u1}
TwoAdmins == {u1, u2}

BackendsAndClientsAreAlike == Permutations(Backends) \cup Permutations(Clients)

(* A view: nobody looks at an account read by a creation, or at what the   *)
(* transaction read once it is committed; and once all versions are on     *)
(* record, and no backend is about to run one, it does not matter which    *)
(* backend has run which.                                                  *)
ReadOf(c) ==
  CASE At(c, "create")     -> [requests[c] EXCEPT !.read = NoAccount]
    [] At(c, "invalidate") -> [requests[c] EXCEPT !.read = NoAccount, !.admins = {}]
    [] OTHER               -> requests[c]

MigrationsAreOver ==
  /\ MigrationsApplyOnce
  /\ recorded = Versions
  /\ \A b \in Backends : phase[b] = "migrate" => seen[b] = Versions

WhatIsRead ==
  <<recorded, IF MigrationsAreOver THEN <<>> ELSE applied, phase, seen,
    accounts, sessions, [c \in Clients |-> ReadOf(c)], dropped>>

=============================================================================
