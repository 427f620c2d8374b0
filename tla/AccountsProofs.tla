--------------------------- MODULE AccountsProofs ---------------------------
(***************************************************************************)
(* Theorems of Accounts and of the migrations it starts with, for any      *)
(* number of backends, versions, clients and users.                        *)
(***************************************************************************)
EXTENDS Accounts, NaturalLemmas, FiniteSetTheorems, TLAPS

-----------------------------------------------------------------------------
(* Lemmas about the operators *)

(* The version a backend applies next is missing in what it has seen, and  *)
(* all versions below it are not.                                          *)
LEMMA PendingIsLeast ==
  ASSUME NEW b \in Backends, Versions \ seen[b] # {}
  PROVE  /\ Pending(b) \in Versions \ seen[b]
         /\ \A v \in Versions : v < Pending(b) => v \in seen[b]
<1>1. Versions \ seen[b] \in SUBSET Nat
  BY SchemaAssumption DEF Versions
<1>2. \E v \in Versions \ seen[b] : \A w \in Versions \ seen[b] : v <= w
  BY <1>1, LeastNatural
<1>3. /\ Pending(b) \in Versions \ seen[b]
      /\ \A w \in Versions \ seen[b] : Pending(b) <= w
  BY <1>2 DEF Pending
<1> QED
  BY <1>1, <1>3

(* A finite set with more than one element has one that is not x.          *)
LEMMA AnotherElement ==
  ASSUME NEW S, NEW x, IsFiniteSet(S), Cardinality(S) > 1
  PROVE  \E y \in S : y # x
<1> SUFFICES ASSUME \A y \in S : y = x PROVE FALSE
  OBVIOUS
<1>1. CASE S = {}
  BY <1>1, FS_EmptySet
<1>2. CASE S = {x}
  BY <1>2, FS_Singleton
<1> QED
  BY <1>1, <1>2

-----------------------------------------------------------------------------
(* Types *)

LEMMA ConstantTypes ==
  NoAccount \in Account /\ Fresh \in Account /\ NoSession \in Session /\ NoCall \in Request
<1>1. NoAccount \in Account /\ Fresh \in Account
  BY AccountsAssumption DEF NoAccount, Fresh, Account
<1> QED
  BY <1>1, AccountsAssumption DEF NoSession, Session, NoCall, Request, Operations

(* What is stored of an account keeps its type.                            *)
LEMMA AccountUpdates ==
  ASSUME AccountsTypeOK, NEW u \in Users
  PROVE  /\ accounts[u].password < MaxPassword =>
              [accounts EXCEPT ![u].password = @ + 1] \in [Users -> Account]
         /\ [accounts EXCEPT ![u].state = "inactive"] \in [Users -> Account]
         /\ [accounts EXCEPT ![u] = Fresh] \in [Users -> Account]
BY ConstantTypes, AccountsAssumption DEF AccountsTypeOK, Account

(* A request that is opened for a user at a backend has its type.          *)
LEMMA OpenType ==
  ASSUME AccountsTypeOK, NEW c \in Clients, NEW op \in Operations, NEW b \in Backends,
         NEW u \in Users, NEW admins \in SUBSET Users, Open(c, op, b, u, admins)
  PROVE  requests' \in [Clients -> Request]
BY DEF Open, AccountsTypeOK, Request

LEMMA RespondType ==
  ASSUME AccountsTypeOK, NEW c \in Clients, Respond(c) \/ Committed(c)
  PROVE  requests' \in [Clients -> Request]
<1>1. CASE Respond(c)
  BY <1>1, ConstantTypes DEF Respond, AccountsTypeOK
<1>2. CASE requests' = [requests EXCEPT ![c].op = "invalidate"]
  BY <1>2 DEF AccountsTypeOK, Request, Operations
<1> QED
  BY <1>1, <1>2 DEF Committed

-----------------------------------------------------------------------------
(* Accounts move forward *)

MovesForward ==
  \A u \in Users :
    /\ Rank[accounts[u].state] <= Rank[accounts'[u].state]
    /\ accounts[u].password <= accounts'[u].password

LEMMA UnchangedMovesForward ==
  ASSUME AccountsTypeOK, UNCHANGED accounts
  PROVE  MovesForward
BY AccountsAssumption DEF AccountsTypeOK, Account, MovesForward, Rank

(* Whoever has an account keeps one.                                       *)
LEMMA KnownStayKnown ==
  ASSUME AccountsTypeOK, AccountsTypeOK', MovesForward, NEW u \in Users, ~NameIsFree(u)
  PROVE  accounts'[u] # NoAccount
<1> SUFFICES ASSUME accounts'[u] = NoAccount PROVE FALSE
  OBVIOUS
<1>1. /\ accounts[u] \in Account
      /\ accounts[u].password <= 0
      /\ Rank[accounts[u].state] <= Rank["absent"]
  BY DEF AccountsTypeOK, MovesForward, NoAccount
<1>2. accounts[u].state = "absent" /\ accounts[u].password = 0
  BY <1>1, AccountsAssumption DEF Account, Rank
<1> QED
  BY <1>1, <1>2 DEF Account, NoAccount, NameIsFree

LEMMA EachStepMovesForward ==
  ASSUME AccountsTypeOK, AccountsNext
  PROVE  MovesForward
<1>1. CASE UNCHANGED accounts
  BY <1>1, UnchangedMovesForward
<1>2. ASSUME NEW b \in Backends, BootstrapUsers(b) PROVE MovesForward
  <2>1. CASE UNCHANGED accounts
    BY <2>1, UnchangedMovesForward
  <2>2. CASE /\ \A u \in Users : accounts[u] = NoAccount
             /\ accounts' = [u \in Users |-> IF u \in Seed THEN Fresh ELSE NoAccount]
    BY <2>2 DEF MovesForward, Rank, Fresh, NoAccount
  <2> QED
    BY <1>2, <2>1, <2>2 DEF BootstrapUsers
<1>3. ASSUME NEW c \in Clients, UpdatePassword(c) PROVE MovesForward
  BY <1>3, AccountsAssumption
  DEF UpdatePassword, AccountsTypeOK, Account, MovesForward, Rank
<1>4. ASSUME NEW c \in Clients, InsertUser(c) PROVE MovesForward
  <2>1. \A u \in Users : u # UserOf(c) => accounts'[u] = accounts[u]
    BY <1>4 DEF InsertUser, AccountsTypeOK
  <2>2. UserOf(c) \in Users =>
           accounts[UserOf(c)] = NoAccount /\ accounts'[UserOf(c)] = Fresh
    BY <1>4 DEF InsertUser, AccountsTypeOK, NameIsFree
  <2> QED
    BY <2>1, <2>2, AccountsAssumption
    DEF AccountsTypeOK, Account, MovesForward, Rank, Fresh, NoAccount
<1>5. ASSUME NEW c \in Clients, CommitDeactivation(c) PROVE MovesForward
  <2>1. CASE UNCHANGED accounts
    BY <2>1, UnchangedMovesForward
  <2>2. CASE /\ requests[c].read.state = "active"
             /\ accounts[UserOf(c)] = requests[c].read
             /\ accounts' = [accounts EXCEPT ![UserOf(c)].state = "inactive"]
    BY <2>2, AccountsAssumption DEF AccountsTypeOK, Account, MovesForward, Rank
  <2> QED
    BY <1>5, <2>1, <2>2 DEF CommitDeactivation
<1> QED
  BY <1>1, <1>2, <1>3, <1>4, <1>5
  DEF AccountsNext, StartStep, SchemaStep, Arrive, Finish, CountUsers, Stop, Login,
      ChangePassword, CreateUser, DeactivateUser, StoreSession, InvalidateSessions,
      Refuse, Logout, ExpireSession, Forget, GoDown, userVars

-----------------------------------------------------------------------------
(* Steps of clients, on a schema that stays as it is *)

Leave(c) == Logout(c) \/ ExpireSession(c)

(* What a client step may do to requests and sessions: one may end, a      *)
(* transaction may have committed, and what is new is as it has to be.     *)
RequestMoves(c) ==
  \/ requests'[c] \in {requests[c], NoCall}
  \/ requests[c] # NoCall /\ requests'[c] = [requests[c] EXCEPT !.op = "invalidate"]
  \/ /\ requests'[c].at \in Backends /\ phase[requests'[c].at] = "up"
     /\ requests'[c].user \in Users
     /\ requests'[c].read = accounts[requests'[c].user]
     /\ IsFiniteSet(requests'[c].admins)

SessionMoves(c) ==
  \/ sessions'[c] \in {sessions[c], NoSession}
  \/ /\ requests[c] # NoCall /\ requests[c].read.state = "active"
     /\ sessions'[c].at = requests[c].at
     /\ sessions'[c].user = requests[c].user
     /\ sessions'[c].password = requests[c].read.password

LEMMA RequestsStayOK ==
  ASSUME AccountsInv, AccountsTypeOK', MovesForward,
         \A c \in Clients : requests'[c] # NoCall => phase'[requests'[c].at] = phase[requests'[c].at],
         \A c \in Clients : RequestMoves(c)
  PROVE  RequestsOK'
<1> USE DEF AccountsInv
<1> SUFFICES ASSUME NEW c \in Clients, requests'[c] # NoCall
             PROVE  /\ requests'[c].at \in Backends /\ phase'[requests'[c].at] = "up"
                    /\ requests'[c].user \in Users
                    /\ requests'[c].read.password <= accounts'[requests'[c].user].password
                    /\ requests'[c].read.state = "active" => accounts'[requests'[c].user] # NoAccount
                    /\ IsFiniteSet(requests'[c].admins)
  BY DEF RequestsOK, UserOf, NameIsFree
<1>1. CASE \/ requests'[c] = requests[c]
           \/ requests[c] # NoCall /\ requests'[c] = [requests[c] EXCEPT !.op = "invalidate"]
  <2>1. /\ requests'[c].at = requests[c].at /\ requests'[c].user = requests[c].user
        /\ requests'[c].read = requests[c].read /\ requests'[c].admins = requests[c].admins
        /\ requests[c] # NoCall
    BY <1>1 DEF AccountsTypeOK, Request
  <2>2. /\ requests[c].at \in Backends /\ phase[requests[c].at] = "up"
        /\ requests[c].user \in Users
        /\ requests[c].read.password <= accounts[requests[c].user].password
        /\ requests[c].read.state = "active" => ~NameIsFree(requests[c].user)
        /\ IsFiniteSet(requests[c].admins)
    BY <2>1 DEF RequestsOK, UserOf
  <2>3. requests[c].read.state = "active" => accounts'[requests[c].user] # NoAccount
    BY <2>2, KnownStayKnown
  <2>4. requests[c].read.password <= accounts'[requests[c].user].password
    <3>1. /\ accounts[requests[c].user] \in Account /\ accounts'[requests[c].user] \in Account
          /\ requests[c].read \in Account
          /\ accounts[requests[c].user].password <= accounts'[requests[c].user].password
      BY <2>2 DEF AccountsTypeOK, Request, MovesForward
    <3> QED
      BY <2>2, <3>1, AccountsAssumption DEF Account
  <2> QED
    BY <2>1, <2>2, <2>3, <2>4
<1>2. CASE /\ requests'[c].at \in Backends /\ phase[requests'[c].at] = "up"
           /\ requests'[c].user \in Users
           /\ requests'[c].read = accounts[requests'[c].user]
           /\ IsFiniteSet(requests'[c].admins)
  <2>1. requests'[c].read.state = "active" => ~NameIsFree(requests'[c].user)
    BY <1>2 DEF NameIsFree, NoAccount
  <2>2. requests'[c].read.state = "active" => accounts'[requests'[c].user] # NoAccount
    BY <1>2, <2>1, KnownStayKnown
  <2> QED
    BY <1>2, <2>2 DEF MovesForward
<1> QED
  BY <1>1, <1>2 DEF RequestMoves

(* A session that is stored is of a user the backend has read; it is at a  *)
(* backend that is up.                                                     *)
LEMMA SessionsStayOK ==
  ASSUME AccountsInv, AccountsTypeOK', MovesForward,
         \A c \in Clients : sessions'[c] # NoSession => phase'[sessions'[c].at] = phase[sessions'[c].at],
         \A c \in Clients : SessionMoves(c)
  PROVE  /\ SessionsOK'
         /\ \A c \in Clients : SignedIn(c)' =>
              /\ phase'[sessions'[c].at] = "up"
              /\ accounts'[sessions'[c].user] # NoAccount
              /\ sessions'[c].password <= accounts'[sessions'[c].user].password
<1> USE DEF AccountsInv
<1> SUFFICES ASSUME NEW c \in Clients, sessions'[c] # NoSession
             PROVE  /\ sessions'[c].at \in Backends /\ sessions'[c].user \in Users
                    /\ phase'[sessions'[c].at] = "up"
                    /\ accounts'[sessions'[c].user] # NoAccount
                    /\ sessions'[c].password <= accounts'[sessions'[c].user].password
  BY DEF SessionsOK, SignedIn
<1>1. /\ sessions'[c].at \in Backends /\ sessions'[c].user \in Users
      /\ phase[sessions'[c].at] = "up"
      /\ accounts[sessions'[c].user] # NoAccount
      /\ sessions'[c].password <= accounts[sessions'[c].user].password
  <2>1. CASE sessions'[c] = sessions[c]
    BY <2>1 DEF SessionsOK, SignedIn, ServedUsersExist
  <2>2. CASE /\ requests[c] # NoCall /\ requests[c].read.state = "active"
             /\ sessions'[c].at = requests[c].at
             /\ sessions'[c].user = requests[c].user
             /\ sessions'[c].password = requests[c].read.password
    BY <2>2 DEF RequestsOK, UserOf, NameIsFree
  <2> QED
    BY <2>1, <2>2 DEF SessionMoves
<1>2. accounts'[sessions'[c].user] # NoAccount
  BY <1>1, KnownStayKnown DEF NameIsFree
<1>3. sessions'[c].password <= accounts'[sessions'[c].user].password
  <2>1. /\ accounts[sessions'[c].user] \in Account /\ accounts'[sessions'[c].user] \in Account
        /\ sessions'[c] \in Session
        /\ accounts[sessions'[c].user].password <= accounts'[sessions'[c].user].password
    BY <1>1 DEF AccountsTypeOK, MovesForward
  <2> QED
    BY <1>1, <2>1, AccountsAssumption DEF Account, Session
<1> QED
  BY <1>1, <1>2, <1>3

(* A request that has just been opened.                                    *)
LEMMA OpenMoves ==
  ASSUME AccountsInv, NEW c \in Clients, NEW op \in Operations, NEW b \in Backends,
         NEW u \in Users, NEW admins \in SUBSET Users, IsFiniteSet(admins),
         phase[b] = "up", Open(c, op, b, u, admins),
         UNCHANGED <<schemaVars, accounts, sessions, dropped>>
  PROVE  /\ AccountsTypeOK'
         /\ \A d \in Clients : RequestMoves(d) /\ SessionMoves(d)
<1>1. AccountsTypeOK'
  BY OpenType DEF AccountsInv, AccountsTypeOK, schemaVars
<1>2. \A d \in Clients : RequestMoves(d)
  BY DEF AccountsInv, AccountsTypeOK, Open, RequestMoves
<1> QED
  BY <1>1, <1>2 DEF SessionMoves

(* The user of a request that arrives with a session.                      *)
LEMMA SignedInUser ==
  ASSUME AccountsInv, NEW c \in Clients, SignedIn(c) \/ MayManageUsers(c)
  PROVE  /\ sessions[c].at \in Backends /\ phase[sessions[c].at] = "up"
         /\ sessions[c].user \in Users
<1>1. SignedIn(c)
  BY AccountsAssumption DEF SignedIn, MayManageUsers, NoSession
<1> QED
  BY <1>1 DEF AccountsInv, SessionsOK, ServedUsersExist

LEMMA ArriveMoves ==
  ASSUME AccountsInv, NEW c \in Clients, Arrive(c)
  PROVE  /\ UNCHANGED <<schemaVars, accounts>> /\ AccountsTypeOK'
         /\ \A d \in Clients : RequestMoves(d) /\ SessionMoves(d)
<1> USE FS_EmptySet DEF Operations
<1>1. ASSUME NEW b \in Backends, NEW u \in Users, Login(c, b, u)
      PROVE  /\ UNCHANGED <<schemaVars, accounts>> /\ AccountsTypeOK'
             /\ \A d \in Clients : RequestMoves(d) /\ SessionMoves(d)
  BY <1>1, OpenMoves DEF Login
<1>2. CASE ChangePassword(c)
  BY <1>2, OpenMoves, SignedInUser DEF ChangePassword
<1>3. ASSUME NEW u \in Users, CreateUser(c, u)
      PROVE  /\ UNCHANGED <<schemaVars, accounts>> /\ AccountsTypeOK'
             /\ \A d \in Clients : RequestMoves(d) /\ SessionMoves(d)
  BY <1>3, OpenMoves, SignedInUser DEF CreateUser
<1>4. ASSUME NEW u \in Users, DeactivateUser(c, u)
      PROVE  /\ UNCHANGED <<schemaVars, accounts>> /\ AccountsTypeOK'
             /\ \A d \in Clients : RequestMoves(d) /\ SessionMoves(d)
  <2>1. ActiveAdmins \in SUBSET KnownUsers /\ ActiveAdmins \in SUBSET Users
    BY AccountsAssumption DEF ActiveAdmins, Active, KnownUsers, NameIsFree, NoAccount
  <2>2. IsFiniteSet(ActiveAdmins)
    BY <2>1, FS_Subset DEF AccountsInv
  <2> QED
    BY <1>4, <2>1, <2>2, OpenMoves, SignedInUser DEF DeactivateUser
<1> QED
  BY <1>1, <1>2, <1>3, <1>4 DEF Arrive

(* A request that ends, or whose transaction has committed.                *)
LEMMA RespondMoves ==
  ASSUME AccountsInv, NEW c \in Clients, requests[c] # NoCall, Respond(c) \/ Committed(c)
  PROVE  \A d \in Clients : RequestMoves(d)
BY DEF AccountsInv, AccountsTypeOK, Respond, Committed, RequestMoves

LEMMA FinishMoves ==
  ASSUME AccountsInv, NEW c \in Clients, Finish(c) \/ Leave(c)
  PROVE  /\ UNCHANGED schemaVars /\ AccountsTypeOK'
         /\ \A d \in Clients : RequestMoves(d) /\ SessionMoves(d)
<1> USE DEF AccountsInv
<1> DEFINE P == /\ UNCHANGED schemaVars /\ AccountsTypeOK'
                /\ \A d \in Clients : RequestMoves(d) /\ SessionMoves(d)
<1>0. /\ \A op \in Operations \ {"idle"} : At(c, op) => requests[c] # NoCall
      /\ requests[c] # NoCall => UserOf(c) \in Users /\ requests[c].at \in Backends
  <2>1. \A op \in Operations \ {"idle"} : At(c, op) => requests[c] # NoCall
    BY DEF At, NoCall
  <2> QED
    BY <2>1 DEF RequestsOK
<1>1. CASE StoreSession(c)
  <2>1. requests[c] # NoCall
    BY <1>0, <1>1 DEF StoreSession, Operations
  <2>2. sessions' \in [Clients -> Session]
    BY <1>0, <1>1, <2>1 DEF StoreSession, AccountsTypeOK, Session, Request, Account
  <2>3. AccountsTypeOK'
    BY <1>1, <2>2, RespondType DEF StoreSession, AccountsTypeOK, schemaVars
  <2>4. \A d \in Clients : SessionMoves(d)
    BY <1>1, <2>1 DEF StoreSession, SessionMoves, AccountsTypeOK, UserOf
  <2> QED
    BY <1>1, <2>1, <2>3, <2>4, RespondMoves DEF StoreSession
<1>2. CASE UpdatePassword(c) \/ InsertUser(c) \/ CommitDeactivation(c)
  <2>1. requests[c] # NoCall
    BY <1>0, <1>2 DEF UpdatePassword, InsertUser, CommitDeactivation, Operations
  <2>2. accounts' \in [Users -> Account]
    BY <1>0, <1>2, <2>1, AccountUpdates
    DEF UpdatePassword, InsertUser, CommitDeactivation, AccountsTypeOK
  <2>3. UNCHANGED <<schemaVars, sessions>> /\ (Respond(c) \/ Committed(c))
    BY <1>2 DEF UpdatePassword, InsertUser, CommitDeactivation
  <2>4. AccountsTypeOK'
    <3>1. requests' \in [Clients -> Request]
      BY <2>3, RespondType
    <3>2. dropped' = dropped
      BY <1>2 DEF UpdatePassword, InsertUser, CommitDeactivation
    <3> QED
      BY <2>2, <2>3, <3>1, <3>2 DEF AccountsTypeOK, schemaVars
  <2> QED
    BY <2>1, <2>3, <2>4, RespondMoves DEF SessionMoves
<1>3. CASE InvalidateSessions(c)
  <2>1. requests[c] # NoCall
    BY <1>0, <1>3 DEF InvalidateSessions, Operations
  <2>2. \A d \in Clients : SessionMoves(d)
    BY <1>3 DEF InvalidateSessions, SessionMoves
  <2>3. AccountsTypeOK'
    <3>1. requests' \in [Clients -> Request]
      BY <1>3, RespondType DEF InvalidateSessions
    <3>2. sessions' \in [Clients -> Session]
      BY <1>3, ConstantTypes DEF InvalidateSessions, AccountsTypeOK
    <3>3. requests[c].at \in Backends /\ UserOf(c) \in Users
      BY <1>0, <2>1
    <3>4. dropped' \in SUBSET (Backends \X Users)
      BY <1>3, <3>3 DEF InvalidateSessions, AccountsTypeOK
    <3> QED
      BY <1>3, <3>1, <3>2, <3>4 DEF InvalidateSessions, AccountsTypeOK, schemaVars
  <2> QED
    BY <1>3, <2>1, <2>2, <2>3, RespondMoves DEF InvalidateSessions
<1>4. CASE Refuse(c)
  <2>1. AccountsTypeOK'
    BY <1>4, RespondType DEF Refuse, AccountsTypeOK, schemaVars
  <2> QED
    BY <1>4, <2>1, RespondMoves DEF Refuse, SessionMoves
<1>5. CASE Leave(c)
  BY <1>5, ConstantTypes
  DEF Leave, Logout, ExpireSession, Forget, AccountsTypeOK, schemaVars, SessionMoves, RequestMoves
<1> QED
  BY <1>1, <1>2, <1>3, <1>4, <1>5 DEF Finish

-----------------------------------------------------------------------------
(* An administrator remains *)

(* A step that takes no active administrator away.                         *)
LEMMA AdministratorsKept ==
  ASSUME AccountsInv, \E u \in Users : accounts[u] # NoAccount,
         \A u \in ActiveAdmins : accounts'[u].state = "active"
  PROVE  AdministratorRemains'
BY DEF AccountsInv, AdministratorRemains, ActiveAdmins, Active

LEMMA AdministratorStays ==
  ASSUME AccountsInv, AccountsTypeOK', NEW c \in Clients, Arrive(c) \/ Finish(c) \/ Leave(c)
  PROVE  AdministratorRemains'
<1> USE DEF AccountsInv
<1>0. requests[c] # NoCall => \E u \in Users : accounts[u] # NoAccount
  BY DEF RequestsOK, ServedUsersExist
<1>1. CASE UNCHANGED accounts
  BY <1>1 DEF AdministratorRemains, ActiveAdmins, Active
<1>2. CASE UpdatePassword(c)
  <2>1. \A u \in Users : accounts'[u].state = accounts[u].state
    BY <1>2 DEF UpdatePassword, AccountsTypeOK, Account
  <2>2. requests[c] # NoCall
    BY <1>2 DEF UpdatePassword, At, NoCall
  <2> QED
    BY <1>0, <2>1, <2>2, AdministratorsKept, AccountsAssumption DEF ActiveAdmins, Active
<1>3. CASE InsertUser(c)
  <2>1. \A u \in Users : Active(u) => accounts'[u] = accounts[u]
    BY <1>3 DEF InsertUser, AccountsTypeOK, NameIsFree, Active, NoAccount
  <2>2. requests[c] # NoCall
    BY <1>3 DEF InsertUser, At, NoCall
  <2> QED
    BY <1>0, <2>1, <2>2, AdministratorsKept, AccountsAssumption DEF ActiveAdmins, Active
<1>4. CASE /\ CommitDeactivation(c)
           /\ requests[c].read.state = "active"
  <2>1. requests[c] # NoCall
    BY <1>4 DEF CommitDeactivation, At, NoCall
  <2>2. \A u \in Users : u # UserOf(c) => accounts'[u] = accounts[u]
    BY <1>4 DEF CommitDeactivation, AccountsTypeOK
  <2>3. CASE UserOf(c) \notin Admins
    BY <1>0, <2>1, <2>2, <2>3, AdministratorsKept, AccountsAssumption DEF ActiveAdmins, Active
  <2>4. CASE UserOf(c) \in Admins
    <3>1. /\ Cardinality(requests[c].admins) > 1 /\ IsFiniteSet(requests[c].admins)
          /\ requests[c].admins \subseteq ActiveAdmins
      BY <1>4, <2>1, <2>4 DEF CommitDeactivation, RequestsOK
    <3>2. PICK u \in requests[c].admins : u # UserOf(c)
      BY <3>1, AnotherElement
    <3>3. u \in ActiveAdmins'
      BY <2>2, <3>1, <3>2, AccountsAssumption DEF ActiveAdmins, Active
    <3> QED
      BY <3>3 DEF AdministratorRemains
  <2> QED
    BY <2>3, <2>4
<1> QED
  BY <1>1, <1>2, <1>3, <1>4
  DEF Arrive, Finish, Login, ChangePassword, CreateUser, DeactivateUser, StoreSession,
      CommitDeactivation, InvalidateSessions, Refuse, Leave, Logout, ExpireSession, Forget

-----------------------------------------------------------------------------
(* Sessions of the deactivated *)

(* A step that drops nothing and stores no session.                        *)
LEMMA DroppedStay ==
  ASSUME AccountsInv, AccountsTypeOK', MovesForward, dropped' = dropped,
         \A c \in Clients : sessions'[c] \in {sessions[c], NoSession}
  PROVE  DroppedAreInactive' /\ OnlyLateLoginsRemain'
<1>1. \A d \in dropped : d[1] \in Backends /\ d[2] \in Users
  BY DEF AccountsInv, AccountsTypeOK
<1>2. ASSUME NEW u \in Users, accounts[u].state = "inactive"
      PROVE  accounts'[u].state = "inactive"
  <2>1. accounts'[u].state \in {"absent", "active", "inactive"}
    BY DEF AccountsTypeOK, Account
  <2>2. Rank["inactive"] <= Rank[accounts'[u].state]
    BY <1>2 DEF MovesForward
  <2> QED
    BY <2>1, <2>2 DEF Rank
<1>3. DroppedAreInactive'
  BY <1>1, <1>2 DEF AccountsInv, DroppedAreInactive
<1>4. \A c \in Clients : <<NoSession.at, NoSession.user>> \notin dropped
  BY <1>1, AccountsAssumption DEF NoSession
<1> QED
  BY <1>3, <1>4 DEF AccountsInv, OnlyLateLoginsRemain

(* A login that has read the account before, and one whose sessions go.    *)
LEMMA StoredIsLate ==
  ASSUME AccountsInv, AccountsTypeOK', NEW c \in Clients, StoreSession(c)
  PROVE  DroppedAreInactive' /\ OnlyLateLoginsRemain'
<1>1. accounts' = accounts /\ dropped' = dropped
  BY DEF StoreSession
<1>2. \A d \in Clients : d # c => sessions'[d] = sessions[d]
  BY DEF StoreSession, AccountsInv, AccountsTypeOK
<1>3. /\ sessions'[c].user = UserOf(c)
      /\ sessions'[c].late = ~Active(UserOf(c))
  BY DEF StoreSession, AccountsInv, AccountsTypeOK
<1>4. <<sessions'[c].at, UserOf(c)>> \in dropped => ~Active(UserOf(c))
  BY DEF AccountsInv, DroppedAreInactive, Active
<1> QED
  BY <1>1, <1>2, <1>3, <1>4 DEF AccountsInv, DroppedAreInactive, OnlyLateLoginsRemain

LEMMA InvalidatedAreGone ==
  ASSUME AccountsInv, AccountsTypeOK', NEW c \in Clients, InvalidateSessions(c)
  PROVE  DroppedAreInactive' /\ OnlyLateLoginsRemain'
<1>1. requests[c].at \in Backends /\ UserOf(c) \in Users
  BY DEF InvalidateSessions, At, NoCall, AccountsInv, RequestsOK
<1>2. \A d \in dropped : d[1] \in Backends
  BY DEF AccountsInv, AccountsTypeOK
<1>3. \A d \in Clients :
        IF sessions[d].at = requests[c].at /\ sessions[d].user = UserOf(c)
          THEN sessions'[d] = NoSession ELSE sessions'[d] = sessions[d]
  BY DEF InvalidateSessions
<1>4. accounts' = accounts
  BY DEF InvalidateSessions
<1>5. CASE accounts[UserOf(c)].state # "inactive"
  <2>1. dropped' = dropped
    BY <1>5 DEF InvalidateSessions
  <2> QED
    BY <1>2, <1>3, <1>4, <2>1, AccountsAssumption
    DEF AccountsInv, DroppedAreInactive, OnlyLateLoginsRemain, NoSession
<1>6. CASE accounts[UserOf(c)].state = "inactive"
  <2>1. dropped' = dropped \cup {<<requests[c].at, UserOf(c)>>}
    BY <1>6 DEF InvalidateSessions
  <2>2. DroppedAreInactive'
    BY <1>4, <1>6, <2>1 DEF AccountsInv, DroppedAreInactive
  <2> QED
    BY <1>1, <1>2, <1>3, <2>1, <2>2, AccountsAssumption
    DEF AccountsInv, OnlyLateLoginsRemain, NoSession
<1> QED
  BY <1>5, <1>6

LEMMA ClientKeepsDropped ==
  ASSUME AccountsInv, AccountsTypeOK', MovesForward,
         NEW c \in Clients, Arrive(c) \/ Finish(c) \/ Leave(c)
  PROVE  DroppedAreInactive' /\ OnlyLateLoginsRemain'
<1>1. CASE StoreSession(c) \/ InvalidateSessions(c)
  BY <1>1, StoredIsLate, InvalidatedAreGone
<1>2. CASE ~(StoreSession(c) \/ InvalidateSessions(c))
  <2>1. \/ UNCHANGED <<sessions, dropped>>
        \/ dropped' = dropped /\ sessions' = [sessions EXCEPT ![c] = NoSession]
    BY <1>2 DEF Arrive, Finish, Leave, Login, ChangePassword, CreateUser, DeactivateUser,
                UpdatePassword, InsertUser, CommitDeactivation, Refuse, Logout, ExpireSession, Forget
  <2>2. \A d \in Clients : sessions'[d] \in {sessions[d], NoSession}
    BY <2>1 DEF AccountsInv, AccountsTypeOK
  <2> QED
    BY <2>1, <2>2, DroppedStay
<1> QED
  BY <1>1, <1>2

-----------------------------------------------------------------------------
(* The table stays finite *)

LEMMA KnownStayFinite ==
  ASSUME AccountsInv, AccountsTypeOK', NEW c \in Clients, Arrive(c) \/ Finish(c) \/ Leave(c)
  PROVE  IsFiniteSet(KnownUsers)'
<1>1. \A u \in Users : u # UserOf(c) => accounts'[u] = accounts[u]
  BY DEF AccountsInv, AccountsTypeOK, Arrive, Finish, Login, ChangePassword, CreateUser,
         DeactivateUser, StoreSession, UpdatePassword, InsertUser, CommitDeactivation,
         InvalidateSessions, Refuse, Leave, Logout, ExpireSession, Forget
<1>2. IsFiniteSet(KnownUsers \cup {UserOf(c)})
  BY FS_AddElement DEF AccountsInv
<1>3. KnownUsers' \in SUBSET (KnownUsers \cup {UserOf(c)})
  BY <1>1 DEF KnownUsers, NameIsFree
<1> QED
  BY <1>2, <1>3, FS_Subset

-----------------------------------------------------------------------------
(* The invariant *)

LEMMA InitInv == AccountsInit => AccountsInv
<1> SUFFICES ASSUME AccountsInit PROVE AccountsInv
  OBVIOUS
<1>1. AccountsTypeOK
  BY ConstantTypes DEF AccountsInit, SchemaInit, AccountsTypeOK, Phases
<1>2. IsFiniteSet(KnownUsers)
  <2>1. KnownUsers = {}
    BY DEF AccountsInit, KnownUsers, NameIsFree
  <2> QED
    BY <2>1, FS_EmptySet
<1> QED
  BY <1>1, <1>2
  DEF AccountsInit, SchemaInit, AccountsInv, MigrationsApplyOnce, AdministratorRemains,
      ServedUsersExist, RequestsOK, SessionsOK, SignedIn, OwnWorkIsSeen, DroppedAreInactive,
      OnlyLateLoginsRemain

LEMMA ClientStep ==
  ASSUME AccountsInv, AccountsNext, NEW c \in Clients, Arrive(c) \/ Finish(c) \/ Leave(c)
  PROVE  AccountsInv'
<1>1. /\ UNCHANGED schemaVars /\ AccountsTypeOK'
      /\ \A d \in Clients : RequestMoves(d) /\ SessionMoves(d)
  BY ArriveMoves, FinishMoves
<1>2. MovesForward
  BY EachStepMovesForward DEF AccountsInv
<1>3. RequestsOK'
  BY <1>1, <1>2, RequestsStayOK DEF schemaVars
<1>4. /\ SessionsOK'
      /\ \A d \in Clients : SignedIn(d)' =>
           /\ phase'[sessions'[d].at] = "up"
           /\ accounts'[sessions'[d].user] # NoAccount
           /\ sessions'[d].password <= accounts'[sessions'[d].user].password
  BY <1>1, <1>2, SessionsStayOK DEF schemaVars
<1>5. MigrationsApplyOnce' /\ OwnWorkIsSeen'
  BY <1>1 DEF AccountsInv, MigrationsApplyOnce, OwnWorkIsSeen, schemaVars
<1>6. \A b \in Backends : phase'[b] = "up" => \E u \in Users : accounts'[u] # NoAccount
  BY <1>1, <1>2, KnownStayKnown DEF AccountsInv, ServedUsersExist, schemaVars, NameIsFree
<1>7. ServedUsersExist'
  BY <1>4, <1>6 DEF ServedUsersExist, SignedIn
<1> QED
  BY <1>1, <1>2, <1>3, <1>4, <1>5, <1>7, AdministratorStays, KnownStayFinite, ClientKeepsDropped
  DEF AccountsInv

(* A backend applies migrations: users and their requests do not notice.   *)
LEMMA SchemaStepKeepsInv ==
  ASSUME AccountsInv, NEW b \in Backends, SchemaStep(b), UNCHANGED userVars
  PROVE  AccountsInv'
<1> USE DEF AccountsInv
<1>1. /\ recorded' \subseteq Versions /\ recorded \subseteq recorded'
      /\ phase' \in [Backends -> Phases] /\ seen' \in [Backends -> SUBSET Versions]
      /\ applied' \in [Backends -> [Versions -> Nat]]
  <2>1. CASE AppliedVersions(b)
    BY <2>1 DEF AppliedVersions, Move, AccountsTypeOK, Phases
  <2>2. CASE Apply(b)
    BY <2>2, PendingIsLeast DEF Apply, RunSQL, AccountsTypeOK
  <2>3. CASE SchemaReady(b)
    BY <2>3 DEF SchemaReady, Move, AccountsTypeOK, Phases
  <2> QED
    BY <2>1, <2>2, <2>3 DEF SchemaStep
<1>2. \A a \in Backends : phase[a] = "up" <=> phase'[a] = "up"
  BY DEF SchemaStep, AppliedVersions, Apply, SchemaReady, Move, AccountsTypeOK
<1>3. MigrationsApplyOnce'
  <2>1. CASE AppliedVersions(b)
    BY <2>1 DEF AppliedVersions, Move, AccountsTypeOK, MigrationsApplyOnce
  <2>2. CASE Apply(b)
    <3>1. \A v \in recorded' : 1..v \subseteq recorded'
      <4>1. Pending(b) \in Versions /\ recorded' = recorded \cup {Pending(b)}
        BY <2>2, PendingIsLeast DEF Apply
      <4>2. \A w \in 1..Pending(b) : w = Pending(b) \/ (w \in Versions /\ w < Pending(b))
        BY <4>1, SchemaAssumption DEF Versions
      <4>3. 1..Pending(b) \subseteq recorded'
        BY <2>2, <4>1, <4>2 DEF Apply
      <4> QED
        BY <4>1, <4>3 DEF MigrationsApplyOnce
    <3>2. \A a \in Backends : seen'[a] \subseteq recorded'
      BY <2>2 DEF Apply, AccountsTypeOK, MigrationsApplyOnce
    <3>3. /\ Pending(b) \in Versions /\ Pending(b) \notin seen[b]
          /\ recorded' = recorded \cup {Pending(b)}
          /\ applied' = [applied EXCEPT ![b][Pending(b)] = @ + 1]
      BY <2>2, PendingIsLeast DEF Apply, RunSQL
    <3>4. applied[b][Pending(b)] = 0
      <4>1. applied[b][Pending(b)] # 1
        BY <2>2, <3>3 DEF Apply, OwnWorkIsSeen
      <4>2. applied[b][Pending(b)] \in Nat /\ applied[b][Pending(b)] <= 1
        BY <3>3 DEF MigrationsApplyOnce, AccountsTypeOK
      <4> QED
        BY <4>1, <4>2
    <3>5. \A a \in Backends, v \in Versions :
            applied'[a][v] <= 1 /\ (applied'[a][v] = 1 => v \in recorded')
      <4> SUFFICES ASSUME NEW a \in Backends, NEW v \in Versions
                   PROVE  applied'[a][v] <= 1 /\ (applied'[a][v] = 1 => v \in recorded')
        OBVIOUS
      <4>1. CASE a = b /\ v = Pending(b)
        BY <3>3, <3>4, <4>1 DEF AccountsTypeOK
      <4>2. CASE ~(a = b /\ v = Pending(b))
        <5>1. applied'[a][v] = applied[a][v]
          BY <3>3, <4>2 DEF AccountsTypeOK
        <5> QED
          BY <3>3, <5>1 DEF MigrationsApplyOnce
      <4> QED
        BY <4>1, <4>2
    <3>6. \A a \in Backends : phase'[a] \in {"count", "seed", "up"} => recorded' = Versions
      BY <1>1, <2>2 DEF Apply, MigrationsApplyOnce
    <3> QED
      BY <3>1, <3>2, <3>5, <3>6 DEF MigrationsApplyOnce
  <2>3. CASE SchemaReady(b)
    BY <2>3 DEF SchemaReady, Move, AccountsTypeOK, MigrationsApplyOnce
  <2> QED
    BY <2>1, <2>2, <2>3 DEF SchemaStep
<1>4. OwnWorkIsSeen'
  <2> SUFFICES ASSUME NEW a \in Backends, NEW v \in Versions,
                      phase'[a] = "migrate", applied'[a][v] = 1
               PROVE  v \in seen'[a]
    BY DEF OwnWorkIsSeen
  <2>1. CASE AppliedVersions(b)
    BY <2>1 DEF AppliedVersions, Move, AccountsTypeOK, MigrationsApplyOnce, OwnWorkIsSeen
  <2>2. CASE Apply(b)
    <3>1. CASE a = b /\ v = Pending(b)
      BY <2>2, <3>1 DEF Apply, AccountsTypeOK
    <3>2. CASE ~(a = b /\ v = Pending(b))
      <4>1. applied'[a][v] = applied[a][v] /\ phase'[a] = phase[a]
        BY <2>2, <3>2 DEF Apply, RunSQL, AccountsTypeOK
      <4>2. seen[a] \subseteq seen'[a]
        BY <2>2 DEF Apply, AccountsTypeOK
      <4> QED
        BY <4>1, <4>2 DEF OwnWorkIsSeen
    <3> QED
      BY <3>1, <3>2
  <2>3. CASE SchemaReady(b)
    BY <2>3 DEF SchemaReady, Move, AccountsTypeOK, OwnWorkIsSeen
  <2> QED
    BY <2>1, <2>2, <2>3 DEF SchemaStep
<1>5. /\ UNCHANGED <<accounts, sessions, requests, dropped>>
      /\ AccountsTypeOK'
  BY <1>1 DEF userVars, AccountsTypeOK
<1>6. DroppedAreInactive' /\ OnlyLateLoginsRemain'
  BY <1>5 DEF DroppedAreInactive, OnlyLateLoginsRemain
<1>7. AdministratorRemains' /\ ServedUsersExist' /\ IsFiniteSet(KnownUsers)'
  BY <1>2, <1>5
  DEF AdministratorRemains, ActiveAdmins, Active, ServedUsersExist, SignedIn, SessionsOK,
      KnownUsers, NameIsFree
<1>8. RequestsOK' /\ SessionsOK'
  BY <1>2, <1>5 DEF RequestsOK, UserOf, NameIsFree, SessionsOK, SignedIn
<1> QED
  BY <1>3, <1>4, <1>5, <1>6, <1>7, <1>8

(* A backend looks for users, or imports them.                             *)
LEMMA FirstUsersKeepInv ==
  ASSUME AccountsInv, AccountsNext, NEW b \in Backends, CountUsers(b) \/ BootstrapUsers(b)
  PROVE  AccountsInv'
<1> USE DEF AccountsInv
<1>1. AccountsTypeOK' /\ UNCHANGED <<recorded, applied, seen, sessions, requests, dropped>>
  <2>1. CASE CountUsers(b)
    BY <2>1 DEF CountUsers, Move, AccountsTypeOK, Phases, userVars
  <2>2. CASE BootstrapUsers(b)
    BY <2>2, ConstantTypes DEF BootstrapUsers, Move, AccountsTypeOK, Phases
  <2> QED
    BY <2>1, <2>2
<1>2. \A a \in Backends : phase[a] = "up" => phase'[a] = "up"
  BY DEF CountUsers, BootstrapUsers, Move, AccountsTypeOK
<1>3. MigrationsApplyOnce' /\ OwnWorkIsSeen'
  BY <1>1 DEF MigrationsApplyOnce, OwnWorkIsSeen, CountUsers, BootstrapUsers, Move, AccountsTypeOK
<1>4. MovesForward
  BY EachStepMovesForward
<1>5. RequestsOK'
  <2>1. \A c \in Clients : RequestMoves(c)
    BY <1>1 DEF RequestMoves
  <2>2. \A c \in Clients : requests'[c] # NoCall => phase'[requests'[c].at] = phase[requests'[c].at]
    BY <1>1, <1>2 DEF RequestsOK
  <2> QED
    BY <1>1, <1>4, <2>1, <2>2, RequestsStayOK
<1>6. /\ SessionsOK'
      /\ \A c \in Clients : SignedIn(c)' =>
           /\ phase'[sessions'[c].at] = "up"
           /\ accounts'[sessions'[c].user] # NoAccount
           /\ sessions'[c].password <= accounts'[sessions'[c].user].password
  <2>1. \A c \in Clients : SessionMoves(c)
    BY <1>1 DEF SessionMoves
  <2>2. \A c \in Clients : sessions'[c] # NoSession => phase'[sessions'[c].at] = phase[sessions'[c].at]
    BY <1>1, <1>2 DEF SessionsOK, ServedUsersExist, SignedIn
  <2> QED
    BY <1>1, <1>4, <2>1, <2>2, SessionsStayOK
<1>7. /\ \A a \in Backends : phase'[a] = "up" => \E u \in Users : accounts'[u] # NoAccount
      /\ AdministratorRemains'
      /\ IsFiniteSet(KnownUsers)'
  <2>1. CASE UNCHANGED accounts
    <3>1. \A a \in Backends : phase'[a] = "up" /\ a # b => phase[a] = "up"
      BY DEF CountUsers, BootstrapUsers, Move, AccountsTypeOK
    <3>2. phase'[b] = "up" => \E u \in Users : accounts[u] # NoAccount
      <4>1. CASE CountUsers(b)
        BY <4>1 DEF CountUsers, Move, AccountsTypeOK
      <4>2. CASE BootstrapUsers(b)
        <5>1. CASE \E u \in Users : accounts[u] # NoAccount
          BY <5>1
        <5>2. CASE /\ Seed \cap Admins # {}
                   /\ accounts' = [u \in Users |-> IF u \in Seed THEN Fresh ELSE NoAccount]
          BY <2>1, <5>2, AccountsAssumption DEF Fresh, NoAccount
        <5> QED
          BY <4>2, <5>1, <5>2 DEF BootstrapUsers
      <4> QED
        BY <4>1, <4>2
    <3> QED
      BY <2>1, <3>1, <3>2
      DEF ServedUsersExist, AdministratorRemains, ActiveAdmins, Active, KnownUsers, NameIsFree
  <2>2. CASE /\ Seed \cap Admins # {}
             /\ accounts' = [u \in Users |-> IF u \in Seed THEN Fresh ELSE NoAccount]
    <3>1. PICK u \in Seed \cap Admins : accounts'[u] = Fresh
      BY <2>2, AccountsAssumption
    <3>2. KnownUsers' \in SUBSET Seed
      BY <2>2 DEF KnownUsers, NameIsFree
    <3> QED
      BY <3>1, <3>2, FS_Subset, AccountsAssumption
      DEF AdministratorRemains, ActiveAdmins, Active, Fresh, NoAccount
  <2> QED
    BY <2>1, <2>2 DEF CountUsers, BootstrapUsers, userVars
<1>8. DroppedAreInactive' /\ OnlyLateLoginsRemain'
  BY <1>1, <1>4, DroppedStay
<1> QED
  BY <1>1, <1>3, <1>5, <1>6, <1>7, <1>8 DEF ServedUsersExist, SignedIn

(* A backend dies: what is left is of other backends.                      *)
LEMMA StopKeepsInv ==
  ASSUME AccountsInv, NEW b \in Backends, Stop(b)
  PROVE  AccountsInv'
<1> USE DEF AccountsInv
<1>1. AccountsTypeOK'
  BY ConstantTypes DEF Stop, GoDown, AccountsTypeOK, Phases
<1>2. \A a \in Backends : a # b => phase'[a] = phase[a] /\ seen'[a] = seen[a]
  BY DEF Stop, GoDown, AccountsTypeOK
<1>3. phase'[b] = "down" /\ seen'[b] = {}
  BY DEF Stop, GoDown, AccountsTypeOK
<1>4. /\ \A c \in Clients : requests'[c] # NoCall => requests'[c] = requests[c] /\ requests[c].at # b
      /\ \A c \in Clients : sessions'[c] # NoSession => sessions'[c] = sessions[c] /\ sessions[c].at # b
  BY DEF Stop, GoDown
<1>5. MigrationsApplyOnce' /\ OwnWorkIsSeen'
  BY <1>2, <1>3 DEF Stop, GoDown, MigrationsApplyOnce, OwnWorkIsSeen
<1>6. RequestsOK' /\ SessionsOK'
  BY <1>2, <1>4 DEF Stop, GoDown, RequestsOK, SessionsOK, SignedIn, UserOf, NameIsFree
<1>7. ServedUsersExist'
  BY <1>2, <1>3, <1>4 DEF Stop, GoDown, ServedUsersExist, SessionsOK, SignedIn
<1>8. AdministratorRemains' /\ IsFiniteSet(KnownUsers)'
  BY DEF Stop, AdministratorRemains, ActiveAdmins, Active, KnownUsers, NameIsFree
<1>9. DroppedAreInactive' /\ OnlyLateLoginsRemain'
  <2>1. MovesForward
    BY UnchangedMovesForward DEF Stop
  <2> QED
    BY <1>1, <2>1, DroppedStay DEF Stop
<1> QED
  BY <1>1, <1>5, <1>6, <1>7, <1>8, <1>9

LEMMA NextKeepsInv == AccountsInv /\ [AccountsNext]_accountsVars => AccountsInv'
<1> SUFFICES ASSUME AccountsInv, [AccountsNext]_accountsVars PROVE AccountsInv'
  OBVIOUS
<1>1. ASSUME AccountsNext, NEW b \in Backends, StartStep(b) PROVE AccountsInv'
  BY <1>1, SchemaStepKeepsInv, FirstUsersKeepInv DEF StartStep
<1>2. ASSUME NEW b \in Backends, Stop(b) PROVE AccountsInv'
  BY <1>2, StopKeepsInv
<1>3. ASSUME AccountsNext, NEW c \in Clients, Arrive(c) \/ Finish(c) \/ Leave(c)
      PROVE  AccountsInv'
  BY <1>3, ClientStep
<1>4. CASE UNCHANGED accountsVars
  <2>1. UNCHANGED <<recorded, applied, phase, seen, accounts, sessions, requests, dropped>>
    BY <1>4 DEF accountsVars, schemaVars, userVars
  <2>2. AccountsTypeOK' /\ MigrationsApplyOnce' /\ OwnWorkIsSeen'
    BY <2>1 DEF AccountsInv, AccountsTypeOK, MigrationsApplyOnce, OwnWorkIsSeen
  <2>3. AdministratorRemains' /\ ServedUsersExist' /\ IsFiniteSet(KnownUsers)'
    BY <2>1
    DEF AccountsInv, AdministratorRemains, ActiveAdmins, Active, ServedUsersExist, SignedIn,
        KnownUsers, NameIsFree
  <2>4. RequestsOK' /\ SessionsOK' /\ DroppedAreInactive' /\ OnlyLateLoginsRemain'
    BY <2>1
    DEF AccountsInv, RequestsOK, UserOf, NameIsFree, SessionsOK, SignedIn, DroppedAreInactive,
        OnlyLateLoginsRemain
  <2> QED
    BY <2>2, <2>3, <2>4 DEF AccountsInv
<1> QED
  BY <1>1, <1>2, <1>3, <1>4 DEF AccountsNext, Leave

-----------------------------------------------------------------------------
(* Theorems *)

(* The inductive invariant holds, for any number of backends and clients.  *)
THEOREM AccountsInvariance == AccountsSpec => []AccountsInv
BY InitInv, NextKeepsInv, PTL DEF AccountsSpec

(* Whatever backends start, die and start again: none runs the SQL of a    *)
(* version twice, what ran is on record, the versions there have no gap,   *)
(* and the backends that have gone on have them all.                       *)
THEOREM SchemaComplete == AccountsSpec => []MigrationsApplyOnce
<1>1. AccountsInv => MigrationsApplyOnce
  BY DEF AccountsInv
<1> QED
  BY <1>1, AccountsInvariance, PTL

(* However many requests deactivate administrators at the same time, one   *)
(* is left.                                                                *)
THEOREM AdministratorSurvives == AccountsSpec => []AdministratorRemains
<1>1. AccountsInv => AdministratorRemains
  BY DEF AccountsInv
<1> QED
  BY <1>1, AccountsInvariance, PTL

(* Only a login that had read the account before leaves a deactivated user *)
(* with a session at a backend that dropped the sessions of the user.      *)
THEOREM DroppedForGood == AccountsSpec => []OnlyLateLoginsRemain
<1>1. AccountsInv => OnlyLateLoginsRemain
  BY DEF AccountsInv
<1> QED
  BY <1>1, AccountsInvariance, PTL

(* A backend that answers has users, a session one with an account.        *)
THEOREM SessionsHaveUsers == AccountsSpec => []ServedUsersExist
<1>1. AccountsInv => ServedUsersExist
  BY DEF AccountsInv
<1> QED
  BY <1>1, AccountsInvariance, PTL

(* No account comes back to life, is imported again or loses a password.   *)
THEOREM ForwardOnly == AccountsSpec => AccountsMoveForward
<1>1. AccountsInv /\ [AccountsNext]_accountsVars
        => [\A u \in Users :
              /\ Rank[accounts[u].state] <= Rank[accounts'[u].state]
              /\ accounts[u].password <= accounts'[u].password]_accountsVars
  BY EachStepMovesForward DEF AccountsInv, MovesForward
<1> QED
  BY <1>1, AccountsInvariance, PTL DEF AccountsSpec, AccountsMoveForward

=============================================================================
