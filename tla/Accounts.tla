----------------------------- MODULE Accounts -----------------------------
(***************************************************************************)
(* Users and sessions (backend/internal/auth, store/postgres_users.go), on *)
(* top of the start of the backends that serve them.  Accounts are rows of *)
(* the shared database; sessions live in the memory of one backend.  A     *)
(* handler looks its session up, reads an account, spends a long time on a *)
(* password hash, and only then writes; sessions are dropped in a step of  *)
(* their own, after the transaction that made them invalid.                *)
(*                                                                         *)
(* A password is told apart by how often it was changed before.  Clients   *)
(* know the passwords they use: a wrong one changes nothing.  User names   *)
(* stand for user ids.  Mock mode, where each operation on the users is    *)
(* one step under one lock, has fewer behaviours and is left out.          *)
(***************************************************************************)
EXTENDS SchemaMigrations

CONSTANTS
  Clients,       \* browsers, each with at most one request and one cookie
  Users,
  Admins,        \* users whose roles include platform_admin
  Seed,          \* users in the bootstrap file
  MaxPassword,   \* a bound: changes of one user's password
  NoUser, NoBackend

ASSUME AccountsAssumption ==
  /\ Admins \subseteq Users /\ Seed \subseteq Users /\ IsFiniteSet(Seed)
  /\ MaxPassword \in Nat
  /\ NoUser \notin Users /\ NoBackend \notin Backends

VARIABLES
  accounts,      \* table auth_users
  sessions,      \* the session behind each client's cookie
  requests,      \* the request each client has open
  dropped        \* history: of whom each backend has dropped the sessions
                 \* after the account was deactivated

userVars == <<accounts, sessions, requests, dropped>>
accountsVars == <<schemaVars, userVars>>

Account == [state: {"absent", "active", "inactive"}, password: 0..MaxPassword]
NoAccount == [state |-> "absent", password |-> 0]
Fresh == [state |-> "active", password |-> 0]

(* late is history: the account was no longer active when the session was  *)
(* stored.                                                                 *)
Session == [at: Backends \cup {NoBackend}, user: Users \cup {NoUser},
            password: 0..MaxPassword, late: BOOLEAN]
NoSession == [at |-> NoBackend, user |-> NoUser, password |-> 0, late |-> FALSE]

Operations == {"idle", "login", "password", "create", "deactivate", "invalidate"}
Request == [op: Operations, at: Backends \cup {NoBackend}, user: Users \cup {NoUser},
            read: Account, admins: SUBSET Users]
NoCall == [op |-> "idle", at |-> NoBackend, user |-> NoUser,
           read |-> NoAccount, admins |-> {}]

Active(u) == accounts[u].state = "active"
NameIsFree(u) == accounts[u] = NoAccount
ActiveAdmins == {u \in Admins : Active(u)}
SignedIn(c) == sessions[c] # NoSession

Open(c, op, b, u, admins) ==
  /\ requests[c] = NoCall
  /\ requests' = [requests EXCEPT ![c] =
       [op |-> op, at |-> b, user |-> u, read |-> accounts[u], admins |-> admins]]

Respond(c) == requests' = [requests EXCEPT ![c] = NoCall]

At(c, op) == requests[c].op = op
UserOf(c) == requests[c].user

(* The transaction of c has committed: either its handler goes on to drop  *)
(* the sessions, or the answer is lost and the handler ends in an error.   *)
Committed(c) ==
  \/ requests' = [requests EXCEPT ![c].op = "invalidate"]
  \/ Respond(c)

-----------------------------------------------------------------------------
(* The first users *)

(* Mutation of CountUsers: the users are left to be imported by hand.      *)
CountUsersOnly(b) ==
  /\ Move(b, "count", "up")
  /\ UNCHANGED <<recorded, applied, seen, userVars>>

(* A table that has users is never imported into again.                    *)
CountUsers(b) ==
  /\ IF \A u \in Users : accounts[u] = NoAccount
       THEN Move(b, "count", "seed") ELSE Move(b, "count", "up")
  /\ UNCHANGED <<recorded, applied, seen, userVars>>

(* Mutation of BootstrapUsers: the count made before the lock is trusted.  *)
BootstrapAnyway(b) ==
  /\ Move(b, "seed", "up")
  /\ accounts' = [u \in Users |-> IF u \in Seed THEN Fresh ELSE accounts[u]]
  /\ UNCHANGED <<recorded, applied, seen, sessions, requests, dropped>>

(* The transaction locks the table and counts again; it refuses a seed     *)
(* without an active administrator, and the backend does not start.        *)
BootstrapUsers(b) ==
  /\ \/ /\ \A u \in Users : accounts[u] = NoAccount
        /\ Seed \cap Admins # {}
        /\ accounts' = [u \in Users |-> IF u \in Seed THEN Fresh ELSE NoAccount]
     \/ /\ \E u \in Users : accounts[u] # NoAccount
        /\ UNCHANGED accounts
  /\ Move(b, "seed", "up")
  /\ UNCHANGED <<recorded, applied, seen, sessions, requests, dropped>>

-----------------------------------------------------------------------------
(* Sessions *)

Login(c, b, u) ==
  /\ phase[b] = "up"
  /\ Open(c, "login", b, u, {})
  /\ UNCHANGED <<schemaVars, accounts, sessions, dropped>>

(* After the comparison: the account as it was read decides.               *)
StoreSession(c) ==
  /\ At(c, "login")
  /\ requests[c].read.state = "active"
  /\ sessions' = [sessions EXCEPT ![c] =
       [at |-> requests[c].at, user |-> UserOf(c),
        password |-> requests[c].read.password, late |-> ~Active(UserOf(c))]]
  /\ Respond(c)
  /\ UNCHANGED <<schemaVars, accounts, dropped>>

Forget(c) ==
  /\ sessions' = [sessions EXCEPT ![c] = NoSession]
  /\ UNCHANGED <<schemaVars, accounts, requests, dropped>>

(* A session lasts to a time fixed when it was stored, and nothing but the *)
(* next two actions ends it earlier: no request looks at the account again.*)
(* From that time on it is refused, and the first request deletes it.      *)
ExpireSession(c) ==
  /\ SignedIn(c)
  /\ Forget(c)

(* The handler of a logout is done with its session at once; a client may  *)
(* have another request open.                                              *)
Logout(c) ==
  /\ SignedIn(c) /\ phase[sessions[c].at] = "up"
  /\ Forget(c)

(* Mutation of InvalidateSessions: it is given the user who acts.          *)
DropOwnSessions(c) ==
  /\ At(c, "invalidate")
  /\ sessions' = [d \in Clients |->
       IF sessions[d].at = requests[c].at /\ sessions[d].user = sessions[c].user
         THEN NoSession ELSE sessions[d]]
  /\ dropped' = dropped \cup
       {d \in {<<requests[c].at, UserOf(c)>>} : accounts[d[2]].state = "inactive"}
  /\ Respond(c)
  /\ UNCHANGED <<schemaVars, accounts>>

(* All sessions of the user in the memory of this backend.                 *)
InvalidateSessions(c) ==
  /\ At(c, "invalidate")
  /\ sessions' = [d \in Clients |->
       IF sessions[d].at = requests[c].at /\ sessions[d].user = UserOf(c)
         THEN NoSession ELSE sessions[d]]
  /\ dropped' = dropped \cup
       {d \in {<<requests[c].at, UserOf(c)>>} : accounts[d[2]].state = "inactive"}
  /\ Respond(c)
  /\ UNCHANGED <<schemaVars, accounts>>

-----------------------------------------------------------------------------
(* Accounts: the session is checked when the request arrives, the handler  *)
(* keeps the user it found there.                                          *)

ChangePassword(c) ==
  /\ SignedIn(c)
  /\ Open(c, "password", sessions[c].at, sessions[c].user, {})
  /\ UNCHANGED <<schemaVars, accounts, sessions, dropped>>

(* The password given was compared with the account as it was read; the    *)
(* update is of one column, of an account that is active by now.           *)
UpdatePassword(c) ==
  /\ At(c, "password")
  /\ requests[c].read.state = "active"
  /\ Active(UserOf(c)) /\ accounts[UserOf(c)].password < MaxPassword
  /\ accounts' = [accounts EXCEPT ![UserOf(c)].password = @ + 1]
  /\ Committed(c)
  /\ UNCHANGED <<schemaVars, sessions, dropped>>

MayManageUsers(c) == sessions[c].user \in Admins

CreateUser(c, u) ==
  /\ MayManageUsers(c)
  /\ Open(c, "create", sessions[c].at, u, {})
  /\ UNCHANGED <<schemaVars, accounts, sessions, dropped>>

(* Mutation of InsertUser: the row of an existing name is replaced.        *)
UpsertUser(c) ==
  /\ At(c, "create")
  /\ accounts' = [accounts EXCEPT ![UserOf(c)] = Fresh]
  /\ Respond(c)
  /\ UNCHANGED <<schemaVars, sessions, dropped>>

(* The insert fails on a name that exists by now.                          *)
InsertUser(c) ==
  /\ At(c, "create")
  /\ NameIsFree(UserOf(c))
  /\ accounts' = [accounts EXCEPT ![UserOf(c)] = Fresh]
  /\ Respond(c)
  /\ UNCHANGED <<schemaVars, sessions, dropped>>

(* The transaction's first statement reads the account and takes the       *)
(* snapshot in which administrators are counted.                           *)
DeactivateUser(c, u) ==
  /\ MayManageUsers(c)
  /\ accounts[u] # NoAccount /\ u # sessions[c].user
  /\ Open(c, "deactivate", sessions[c].at, u, ActiveAdmins)
  /\ UNCHANGED <<schemaVars, accounts, sessions, dropped>>

(* Mutation of CommitDeactivation: the transaction is not serializable.    *)
CommitUnserialized(c) ==
  /\ At(c, "deactivate")
  /\ requests[c].read.state = "active"
  /\ UserOf(c) \in Admins => Cardinality(requests[c].admins) > 1
  /\ accounts' = [accounts EXCEPT ![UserOf(c)].state = "inactive"]
  /\ Committed(c)
  /\ UNCHANGED <<schemaVars, sessions, dropped>>

(* A serializable transaction commits only if nothing it has read was      *)
(* changed by another one: not the account, nor, when it counted them, an  *)
(* administrator.  An account that was inactive is answered as it is.      *)
CommitDeactivation(c) ==
  /\ At(c, "deactivate")
  /\ accounts[UserOf(c)] = requests[c].read
  /\ IF requests[c].read.state = "active"
       THEN /\ UserOf(c) \in Admins =>
                 /\ Cardinality(requests[c].admins) > 1
                 /\ requests[c].admins \subseteq ActiveAdmins
            /\ accounts' = [accounts EXCEPT ![UserOf(c)].state = "inactive"]
       ELSE UNCHANGED accounts
  /\ Committed(c)
  /\ UNCHANGED <<schemaVars, sessions, dropped>>

(* A request is refused, or a call of the store fails before its effect.   *)
Refuse(c) ==
  /\ requests[c] # NoCall /\ ~At(c, "invalidate")
  /\ Respond(c)
  /\ UNCHANGED <<schemaVars, accounts, sessions, dropped>>

-----------------------------------------------------------------------------
(* A backend dies, or gives up its start; its sessions die with it.        *)
Stop(b) ==
  /\ GoDown(b)
  /\ sessions' = [c \in Clients |-> IF sessions[c].at = b THEN NoSession ELSE sessions[c]]
  /\ requests' = [c \in Clients |-> IF requests[c].at = b THEN NoCall ELSE requests[c]]
  /\ UNCHANGED <<accounts, dropped>>

AccountsInit ==
  /\ SchemaInit
  /\ accounts = [u \in Users |-> NoAccount]
  /\ sessions = [c \in Clients |-> NoSession]
  /\ requests = [c \in Clients |-> NoCall]
  /\ dropped = {}

StartStep(b) == CountUsers(b) \/ BootstrapUsers(b) \/ (SchemaStep(b) /\ UNCHANGED userVars)

Finish(c) ==
  \/ StoreSession(c) \/ UpdatePassword(c) \/ InsertUser(c) \/ CommitDeactivation(c)
  \/ InvalidateSessions(c) \/ Refuse(c)

Arrive(c) ==
  \/ \E b \in Backends, u \in Users : Login(c, b, u)
  \/ ChangePassword(c)
  \/ \E u \in Users : CreateUser(c, u) \/ DeactivateUser(c, u)

AccountsNext ==
  \/ \E b \in Backends : StartStep(b) \/ Stop(b)
  \/ \E c \in Clients : Arrive(c) \/ Finish(c) \/ Logout(c) \/ ExpireSession(c)

AccountsSpec == AccountsInit /\ [][AccountsNext]_accountsVars

-----------------------------------------------------------------------------
(* Invariants *)

AccountsTypeOK ==
  /\ recorded \subseteq Versions
  /\ applied \in [Backends -> [Versions -> Nat]]
  /\ phase \in [Backends -> Phases]
  /\ seen \in [Backends -> SUBSET Versions]
  /\ accounts \in [Users -> Account]
  /\ sessions \in [Clients -> Session]
  /\ requests \in [Clients -> Request]
  /\ dropped \subseteq Backends \X Users

(* From the import on there is an active administrator: not even two who   *)
(* deactivate each other at the same time, through different backends,     *)
(* leave none.                                                             *)
AdministratorRemains ==
  (\E u \in Users : accounts[u] # NoAccount) => ActiveAdmins # {}

(* A backend answers requests only with users to sign in, and nobody holds *)
(* a session of a user who never had an account.                           *)
ServedUsersExist ==
  /\ \A b \in Backends : phase[b] = "up" => \E u \in Users : accounts[u] # NoAccount
  /\ \A c \in Clients : SignedIn(c) =>
       /\ phase[sessions[c].at] = "up"
       /\ accounts[sessions[c].user] # NoAccount
       /\ sessions[c].password <= accounts[sessions[c].user].password

(* Once a backend has dropped the sessions of a deactivated user, the only *)
(* sessions of the user there are of logins that had read the account      *)
(* before and stored their session after: the password of the user opens   *)
(* no session that begins later, and none from before is left.             *)
OnlyLateLoginsRemain ==
  \A c \in Clients :
    <<sessions[c].at, sessions[c].user>> \in dropped => sessions[c].late

(* What the documentation promises and the code does not keep: where the   *)
(* sessions of a deactivated user were dropped, the user has none. A late  *)
(* login, or a session at another backend, breaks it.                      *)
DeactivatedIsOut ==
  \A d \in dropped, c \in Clients : sessions[c].user # d[2]

-----------------------------------------------------------------------------
(* The inductive invariant *)

KnownUsers == {u \in Users : ~NameIsFree(u)}

(* An open request is served by a backend that is up, and what its handler *)
(* read of an account is not ahead of the table.                           *)
RequestsOK ==
  \A c \in Clients : requests[c] # NoCall =>
    /\ requests[c].at \in Backends /\ phase[requests[c].at] = "up"
    /\ UserOf(c) \in Users
    /\ requests[c].read.password <= accounts[UserOf(c)].password
    /\ requests[c].read.state = "active" => ~NameIsFree(UserOf(c))
    /\ IsFiniteSet(requests[c].admins)

SessionsOK ==
  \A c \in Clients : SignedIn(c) =>
    sessions[c].at \in Backends /\ sessions[c].user \in Users

DroppedAreInactive == \A d \in dropped : accounts[d[2]].state = "inactive"

(* What keeps an administrator, and the users of sessions, in the table:   *)
(* no handler is open at a backend that has not seen the users imported,   *)
(* and a handler's reading of an account may be old but not of an account  *)
(* that the table does not have.                                           *)
AccountsInv ==
  /\ AccountsTypeOK
  /\ MigrationsApplyOnce
  /\ OwnWorkIsSeen
  /\ AdministratorRemains
  /\ ServedUsersExist
  /\ IsFiniteSet(KnownUsers)
  /\ RequestsOK
  /\ SessionsOK
  /\ DroppedAreInactive
  /\ OnlyLateLoginsRemain

-----------------------------------------------------------------------------
(* Action properties *)

Rank == [absent |-> 0, active |-> 1, inactive |-> 2]

(* Accounts only move forward: whatever backends start, and whatever a     *)
(* handler read before, no account comes back to life, loses a changed     *)
(* password or is imported again.                                          *)
AccountsMoveForward ==
  [][\A u \in Users :
       /\ Rank[accounts[u].state] <= Rank[accounts'[u].state]
       /\ accounts[u].password <= accounts'[u].password]_accountsVars

=============================================================================
