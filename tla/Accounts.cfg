\* Two backends on one database, two clients, an administrator and one
\* that is created later; backends may die anywhere.
SPECIFICATION AccountsSpec
CONSTANTS
  u1 = u1  u2 = u2
  Backends = {b1, b2}
  LastVersion = 3
  Clients = {c1, c2}
  Users = {u1, u2}
  Admins <- TwoAdmins
  Seed <- FirstAdmin
  MaxPassword = 1
  NoUser = NoUser
  NoBackend = NoBackend
INVARIANTS
  AccountsInv
  MigrationsApplyOnce
  AdministratorRemains
  ServedUsersExist
  
PROPERTIES
  AccountsMoveForward
VIEW WhatIsRead
SYMMETRY BackendsAndClientsAreAlike
