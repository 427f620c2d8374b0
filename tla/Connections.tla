---------------------------- MODULE Connections ----------------------------
(***************************************************************************)
(* The registry of platform connections and the passwords that go with it  *)
(* (backend/internal/api/connections.go, mock/inventory.go and             *)
(* credential/memory.go) outside mock mode.  Registry and passwords are    *)
(* two stores, each with a lock of its own, and no handler holds both: a   *)
(* handler is one step per access.  Both live in memory only.  A delete    *)
(* may come between the entry and the password of a create: the model has  *)
(* that, and no property says that the two stores agree afterwards.        *)
(*                                                                         *)
(* An endpoint stands for the platform kind and the address a client       *)
(* gives.  A password stands for a user name and its password.  Requests   *)
(* with an empty or unknown field change nothing and are left out.         *)
(***************************************************************************)
EXTENDS Naturals, SequencesExt

CONSTANTS
  Clients,
  VMwareEndpoints, ProxmoxEndpoints,
  Ids,
  Slug,          \* the id made from an endpoint
  Passwords,
  Accepts,       \* the pairs of an endpoint and a password it accepts
  MaxEntries,    \* a bound: entries of the registry
  NoPassword, NoEndpoint, NoId

Endpoints == VMwareEndpoints \cup ProxmoxEndpoints

ASSUME ConnectionsAssumption ==
  /\ VMwareEndpoints \cap ProxmoxEndpoints = {}
  /\ Slug \in [Endpoints -> Ids]
  /\ Accepts \subseteq VMwareEndpoints \X Passwords
  /\ MaxEntries \in Nat
  /\ NoPassword \notin Passwords /\ NoEndpoint \notin Endpoints /\ NoId \notin Ids

VARIABLES
  connections,   \* the registry, a sequence of entries
  credentials,   \* the password kept for each id
  calls          \* the request each client has open

connectionsVars == <<connections, credentials, calls>>
stores == <<connections, credentials>>

(* by is history: whose request registered the entry.                      *)
Entry == [endpoint: Endpoints, by: Clients]

CallLabels == {"idle",
  "probe", "check", "append", "put",      \* createConnection
  "remove", "forget",                     \* deleteConnection
  "audit",                                \* the end of both
  "lookup", "password", "contact"}        \* getInventory, testConnection

Call == [at: CallLabels, id: Ids \cup {NoId}, endpoint: Endpoints \cup {NoEndpoint},
         password: Passwords \cup {NoPassword}]
NoCall == [at |-> "idle", id |-> NoId, endpoint |-> NoEndpoint, password |-> NoPassword]

At(c, l) == calls[c].at = l
Goto(c, l) == calls' = [calls EXCEPT ![c].at = l]
Respond(c) == calls' = [calls EXCEPT ![c] = NoCall]

Entries(id) == {i \in DOMAIN connections : Slug[connections[i].endpoint] = id}
Registered(id) == Entries(id) # {}
(* The loops over the registry end at the first entry of an id. *)
FirstEntry(id) == CHOOSE i \in Entries(id) : \A j \in Entries(id) : i <= j

-----------------------------------------------------------------------------
(* createConnection *)

Create(c, e, p) ==
  /\ calls[c] = NoCall
  /\ p = NoPassword <=> e \in ProxmoxEndpoints
  /\ calls' = [calls EXCEPT ![c] = [at |-> "probe", id |-> Slug[e], endpoint |-> e, password |-> p]]
  /\ UNCHANGED stores

(* Mutation of Probe: a live endpoint is not asked before it is saved.     *)
ProbeNothing(c) ==
  /\ At(c, "probe")
  /\ Goto(c, "check")
  /\ UNCHANGED stores

(* The endpoint is asked with the password of the request, and may be out  *)
(* of reach.                                                               *)
Probe(c) ==
  /\ At(c, "probe")
  /\ \/ /\ \/ <<calls[c].endpoint, calls[c].password>> \in Accepts
           \/ calls[c].endpoint \in ProxmoxEndpoints
        /\ Goto(c, "check")
     \/ Respond(c)
  /\ UNCHANGED stores

(* Mutation of CheckDuplicate: an id is compared with the last entry only. *)
CheckLast(c) ==
  /\ At(c, "check")
  /\ IF connections # <<>> /\ Slug[Last(connections).endpoint] = calls[c].id
       THEN Respond(c) ELSE Goto(c, "append")
  /\ UNCHANGED stores

(* The check and the append of Add each take the lock of their own.        *)
CheckDuplicate(c) ==
  /\ At(c, "check")
  /\ IF Registered(calls[c].id) THEN Respond(c) ELSE Goto(c, "append")
  /\ UNCHANGED stores

AppendEntry(c) ==
  /\ At(c, "append")
  /\ Len(connections) < MaxEntries
  /\ connections' = Append(connections, [endpoint |-> calls[c].endpoint, by |-> c])
  /\ Goto(c, IF calls[c].endpoint \in VMwareEndpoints THEN "put" ELSE "audit")
  /\ UNCHANGED credentials

PutCredentials(c) ==
  /\ At(c, "put")
  /\ credentials' = [credentials EXCEPT ![calls[c].id] = calls[c].password]
  /\ Goto(c, "audit")
  /\ UNCHANGED connections

(* The event is written or refused: the entry stays as it is.              *)
Audit(c) ==
  /\ At(c, "audit")
  /\ Respond(c)
  /\ UNCHANGED stores

-----------------------------------------------------------------------------
(* deleteConnection *)

Delete(c, id) ==
  /\ calls[c] = NoCall
  /\ calls' = [calls EXCEPT ![c] = [NoCall EXCEPT !.at = "remove", !.id = id]]
  /\ UNCHANGED stores

RemoveEntry(c) ==
  /\ At(c, "remove")
  /\ IF Registered(calls[c].id)
       THEN connections' = RemoveAt(connections, FirstEntry(calls[c].id)) /\ Goto(c, "forget")
       ELSE Respond(c) /\ UNCHANGED connections
  /\ UNCHANGED credentials

ForgetCredentials(c) ==
  /\ At(c, "forget")
  /\ credentials' = [credentials EXCEPT ![calls[c].id] = NoPassword]
  /\ Goto(c, "audit")
  /\ UNCHANGED connections

-----------------------------------------------------------------------------
(* getInventory and testConnection *)

Read(c, id) ==
  /\ calls[c] = NoCall
  /\ calls' = [calls EXCEPT ![c] = [NoCall EXCEPT !.at = "lookup", !.id = id]]
  /\ UNCHANGED stores

(* Connection copies the entry out of the registry.                        *)
Lookup(c) ==
  /\ At(c, "lookup")
  /\ IF Registered(calls[c].id)
       THEN LET e == connections[FirstEntry(calls[c].id)].endpoint IN
            calls' = [calls EXCEPT ![c].endpoint = e,
                        ![c].at = IF e \in VMwareEndpoints THEN "password" ELSE "contact"]
       ELSE Respond(c)
  /\ UNCHANGED stores

(* Mutation of GetCredentials: whether a password is there is not asked.   *)
GetAnyCredentials(c) ==
  /\ At(c, "password")
  /\ calls' = [calls EXCEPT ![c].at = "contact",
                           ![c].password = credentials[calls[c].id]]
  /\ UNCHANGED stores

(* A reader whose connection lost its password in between is refused.      *)
GetCredentials(c) ==
  /\ At(c, "password")
  /\ IF credentials[calls[c].id] = NoPassword
       THEN Respond(c)
       ELSE calls' = [calls EXCEPT ![c].at = "contact",
                                   ![c].password = credentials[calls[c].id]]
  /\ UNCHANGED stores

Contact(c) ==
  /\ At(c, "contact")
  /\ Respond(c)
  /\ UNCHANGED stores

-----------------------------------------------------------------------------

(* Nothing of the registry is stored: a backend starts without connections. *)
ConnectionsInit ==
  /\ connections = <<>>
  /\ credentials = [id \in Ids |-> NoPassword]
  /\ calls = [c \in Clients |-> NoCall]

(* The backend dies and starts again; its clients lose their requests.     *)
Restart ==
  /\ connections # <<>> \/ calls # [c \in Clients |-> NoCall]
  /\ connections' = <<>>
  /\ credentials' = [id \in Ids |-> NoPassword]
  /\ calls' = [c \in Clients |-> NoCall]

ConnectionStep(c) ==
  \/ Probe(c) \/ CheckDuplicate(c) \/ AppendEntry(c) \/ PutCredentials(c)
  \/ RemoveEntry(c) \/ ForgetCredentials(c) \/ Audit(c)
  \/ Lookup(c) \/ GetCredentials(c) \/ Contact(c)

ConnectionsNext ==
  \/ \E c \in Clients :
       \/ ConnectionStep(c)
       \/ \E e \in Endpoints, p \in Passwords \cup {NoPassword} : Create(c, e, p)
       \/ \E id \in Ids : Delete(c, id) \/ Read(c, id)
  \/ Restart

ConnectionsSpec == ConnectionsInit /\ [][ConnectionsNext]_connectionsVars

-----------------------------------------------------------------------------
(* Properties *)

(* Every variable keeps its type, and who contacts a VMware endpoint has a *)
(* password for it.                                                        *)
ConnectionsTypeOK ==
  /\ connections \in Seq(Entry) /\ Len(connections) <= MaxEntries
  /\ credentials \in [Ids -> Passwords \cup {NoPassword}]
  /\ calls \in [Clients -> Call]
  /\ \A c \in Clients : At(c, "contact") /\ calls[c].endpoint \in VMwareEndpoints
                       => calls[c].password # NoPassword

(* Add looks for the id and appends the entry under two locks.  No client  *)
(* registers a connection that it has registered before and that is still  *)
(* there, whatever requests of others, also of other ids, come in between: *)
(* two entries of one id are of two clients.                               *)
RegisteredOncePerClient ==
  \A id \in Ids : \A i, j \in Entries(id) :
    i # j => connections[i].by # connections[j].by

(* What the documentation promises and the code does not keep: an id has   *)
(* one entry. Two creates at once break it.                                *)
RegisteredOnce == \A id \in Ids : \A i, j \in Entries(id) : i = j

(* A reader takes the endpoint and the password in two steps, with deletes *)
(* and creates of any client in between: the password it sends was still   *)
(* accepted by an endpoint of the id it reads, which is the endpoint it is *)
(* sent to unless slugify gives two endpoints one id.                      *)
ContactsAreAccepted ==
  \A c \in Clients :
    At(c, "contact") /\ calls[c].endpoint \in VMwareEndpoints =>
      \E e \in VMwareEndpoints : Slug[e] = Slug[calls[c].endpoint] /\ <<e, calls[c].password>> \in Accepts

-----------------------------------------------------------------------------
(* The inductive invariant *)

(* The local variables of a request at each position of its handler.       *)
CallOK(c) ==
  LET call == calls[c]
      accepted == \E e \in VMwareEndpoints :
                    Slug[e] = call.id /\ <<e, call.password>> \in Accepts IN
  /\ call.at # "idle" => call.id \in Ids
  /\ call.at \in {"probe", "check", "append", "put", "password", "contact"} =>
       call.endpoint \in Endpoints /\ call.id = Slug[call.endpoint]
  /\ call.at = "append" => \A i \in Entries(call.id) : connections[i].by # c
  /\ call.at \in {"put", "password"} => call.endpoint \in VMwareEndpoints
  /\ call.at \in {"check", "append", "put", "contact"}
       /\ call.endpoint \in VMwareEndpoints => accepted

(* No password is kept that an endpoint of its id did not accept.          *)
CredentialsOK ==
  \A id \in Ids : credentials[id] # NoPassword =>
    \E e \in VMwareEndpoints : Slug[e] = id /\ <<e, credentials[id]>> \in Accepts

ConnectionsInv ==
  /\ ConnectionsTypeOK
  /\ RegisteredOncePerClient
  /\ \A c \in Clients : CallOK(c)
  /\ CredentialsOK

=============================================================================
