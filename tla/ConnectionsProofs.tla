------------------------- MODULE ConnectionsProofs -------------------------
(***************************************************************************)
(* Theorems of Connections, for any number of clients, endpoints, ids and  *)
(* passwords, whatever id slugify gives an endpoint and whatever passwords *)
(* an endpoint accepts.                                                    *)
(***************************************************************************)
EXTENDS Connections, NaturalLemmas, SequenceTheorems

-----------------------------------------------------------------------------
(* The registry *)

LEMMA EntriesAreNatural ==
  ASSUME connections \in Seq(Entry), NEW id
  PROVE  Entries(id) \subseteq 1..Len(connections)
BY DEF Entries

LEMMA FirstIsEntry ==
  ASSUME connections \in Seq(Entry), NEW id, Registered(id)
  PROVE  FirstEntry(id) \in Entries(id)
<1>1. \E i \in Entries(id) : \A j \in Entries(id) : i <= j
  <2>1. Entries(id) \in SUBSET Nat
    BY EntriesAreNatural
  <2> QED
    BY <2>1, LeastNatural DEF Registered
<1> QED
  BY <1>1 DEF FirstEntry

LEMMA RegistryAppended ==
  ASSUME connections \in Seq(Entry), NEW e \in Entry, connections' = Append(connections, e)
  PROVE  /\ connections' \in Seq(Entry) /\ Len(connections') = Len(connections) + 1
         /\ connections'[Len(connections) + 1] = e
         /\ \A id : \A i \in Entries(id)' :
              \/ i \in Entries(id) /\ connections'[i] = connections[i]
              \/ i = Len(connections) + 1 /\ id = Slug[e.endpoint]
<1>1. /\ connections' \in Seq(Entry) /\ Len(connections') = Len(connections) + 1
      /\ \A i \in 1..Len(connections) : connections'[i] = connections[i]
      /\ connections'[Len(connections) + 1] = e
      /\ Len(connections) \in Nat
  OBVIOUS
<1>2. ASSUME NEW id, NEW i \in Entries(id)'
      PROVE  \/ i \in Entries(id) /\ connections'[i] = connections[i]
             \/ i = Len(connections) + 1 /\ id = Slug[e.endpoint]
  <2>1. i \in 1..(Len(connections) + 1) /\ Slug[connections'[i].endpoint] = id
    BY <1>1 DEF Entries
  <2>2. CASE i \in 1..Len(connections)
    BY <1>1, <2>1, <2>2 DEF Entries
  <2>3. CASE i = Len(connections) + 1
    BY <1>1, <2>1, <2>3
  <2> QED
    BY <1>1, <2>1, <2>2, <2>3
<1> QED
  BY <1>1, <1>2

LEMMA RegistryShortened ==
  ASSUME connections \in Seq(Entry), NEW k \in 1..Len(connections),
         connections' = RemoveAt(connections, k)
  PROVE  /\ connections' \in Seq(Entry) /\ Len(connections') = Len(connections) - 1
         /\ \A i \in 1..Len(connections') :
              connections'[i] = IF i < k THEN connections[i] ELSE connections[i + 1]
<1> DEFINE n == Len(connections)
           a == SubSeq(connections, 1, k - 1)
           b == SubSeq(connections, k + 1, n)
<1>1. n \in Nat /\ \A i \in 1..n : connections[i] \in Entry
  OBVIOUS
<1>2. /\ a \in Seq(Entry) /\ Len(a) = k - 1
      /\ \A i \in 1..(k - 1) : a[i] = connections[i]
  <2>1. \A i \in 1..(k - 1) : connections[i] \in Entry
    BY <1>1
  <2>2. 1 \in Int /\ k - 1 \in Int /\ Len(a) = (IF 1 <= k - 1 THEN (k - 1) - 1 + 1 ELSE 0)
        /\ a \in Seq(Entry)
        /\ \A i \in 1..((k - 1) - 1 + 1) : a[i] = connections[1 + i - 1]
    BY <2>1, SubSeqProperties
  <2> QED
    BY <2>2
<1>3. /\ b \in Seq(Entry) /\ Len(b) = n - k
      /\ \A i \in 1..(n - k) : b[i] = connections[k + i]
  <2>1. \A i \in (k + 1)..n : connections[i] \in Entry
    BY <1>1
  <2>2. k + 1 \in Int /\ n \in Int /\ Len(b) = (IF k + 1 <= n THEN n - (k + 1) + 1 ELSE 0)
        /\ b \in Seq(Entry)
        /\ \A i \in 1..(n - (k + 1) + 1) : b[i] = connections[(k + 1) + i - 1]
    BY <1>1, <2>1, SubSeqProperties
  <2> QED
    BY <1>1, <2>2
<1>4. connections' = a \o b
  BY DEF RemoveAt
<1> HIDE DEF a, b
<1>5. /\ a \o b \in Seq(Entry) /\ Len(a \o b) = Len(a) + Len(b)
      /\ \A i \in 1..Len(a) + Len(b) :
           (a \o b)[i] = IF i <= Len(a) THEN a[i] ELSE b[i - Len(a)]
  BY <1>2, <1>3, ConcatProperties
<1>6. connections' \in Seq(Entry) /\ Len(connections') = n - 1
  BY <1>1, <1>2, <1>3, <1>4, <1>5
<1>7. ASSUME NEW i \in 1..(n - 1)
      PROVE  connections'[i] = IF i < k THEN connections[i] ELSE connections[i + 1]
  <2>1. connections'[i] = IF i <= k - 1 THEN a[i] ELSE b[i - (k - 1)]
    BY <1>1, <1>2, <1>3, <1>4, <1>5
  <2>2. CASE i < k
    BY <1>2, <2>1, <2>2
  <2>3. CASE ~(i < k)
    <3>1. i - (k - 1) \in 1..(n - k) /\ k + (i - (k - 1)) = i + 1
      BY <1>1, <2>3
    <3>2. b[i - (k - 1)] = connections[i + 1]
      BY <1>3, <3>1
    <3> QED
      BY <2>1, <2>3, <3>2
  <2> QED
    BY <2>2, <2>3
<1> QED
  BY <1>6, <1>7

(* What is in the registry after an entry went was there before.           *)
LEMMA EntryRemoved ==
  ASSUME connections \in Seq(Entry), NEW k \in 1..Len(connections),
         connections' = RemoveAt(connections, k), NEW id
  PROVE  /\ \A i \in Entries(id)' : \E m \in Entries(id) : connections'[i] = connections[m]
         /\ \A i, j \in Entries(id)' : i # j =>
              \E m, n \in Entries(id) :
                m # n /\ connections'[i] = connections[m] /\ connections'[j] = connections[n]
<1> DEFINE Old(i) == IF i < k THEN i ELSE i + 1
<1>1. \A i \in DOMAIN connections' :
        /\ Old(i) \in DOMAIN connections
        /\ connections'[i] = connections[Old(i)]
  BY RegistryShortened
<1>2. \A i, j \in DOMAIN connections' : Old(i) = Old(j) => i = j
  BY RegistryShortened
<1> HIDE DEF Old
<1>3. \A i \in Entries(id)' :
        /\ i \in DOMAIN connections' /\ Old(i) \in Entries(id)
        /\ connections'[i] = connections[Old(i)]
  BY <1>1 DEF Entries
<1> QED
  BY <1>2, <1>3

-----------------------------------------------------------------------------
(* The requests *)

LEMMA CallTypes == NoCall \in Call
BY DEF NoCall, Call, CallLabels

(* Entries are as before, or of the request of c.                          *)
RegisteredBy(c) ==
  \A id : \A i \in Entries(id)' :
    \/ connections'[i].by = c
    \/ \E j \in Entries(id) : connections'[i] = connections[j]

(* What a step of c has to show: a new entry of c is not one that another  *)
(* request has found missing.                                              *)
LEMMA StepKeepsInv ==
  ASSUME ConnectionsInv, NEW c \in Clients, NEW call \in Call,
         calls' = [calls EXCEPT ![c] = call], CallOK(c)',
         connections' \in Seq(Entry) /\ Len(connections') <= MaxEntries,
         credentials' \in [Ids -> Passwords \cup {NoPassword}],
         RegisteredBy(c), RegisteredOncePerClient', CredentialsOK'
  PROVE  ConnectionsInv'
<1>1. calls' \in [Clients -> Call] /\ calls'[c] = call
      /\ \A d \in Clients \ {c} : calls'[d] = calls[d]
  BY DEF ConnectionsInv, ConnectionsTypeOK
<1>2. ASSUME NEW d \in Clients \ {c} PROVE CallOK(d)'
  <2>1. CallOK(d) /\ calls'[d] = calls[d]
    BY <1>1 DEF ConnectionsInv
  <2>2. PICK own : own = calls[d].id
    OBVIOUS
  <2>3. calls[d].at = "append" => \A i \in Entries(own) : connections[i].by # d
    BY <2>1, <2>2 DEF CallOK
  <2>4. calls[d].at = "append" => \A i \in Entries(own)' : connections'[i].by # d
    BY <2>3 DEF RegisteredBy
  <2> QED
    BY <2>1, <2>2, <2>4 DEF CallOK
<1>3. ASSUME NEW d \in Clients, calls'[d].at = "contact",
             calls'[d].endpoint \in VMwareEndpoints
      PROVE  calls'[d].password # NoPassword
  <2>1. \E e \in VMwareEndpoints : <<e, calls'[d].password>> \in VMwareEndpoints \X Passwords
    BY <1>2, <1>3, ConnectionsAssumption DEF CallOK
  <2> QED
    BY <2>1, ConnectionsAssumption
<1>4. ConnectionsTypeOK'
  BY <1>1, <1>3 DEF ConnectionsTypeOK, At
<1> QED
  BY <1>2, <1>4 DEF ConnectionsInv

(* A request that touches neither store.                                   *)
LEMMA ReaderKeepsInv ==
  ASSUME ConnectionsInv, NEW c \in Clients, NEW call \in Call,
         calls' = [calls EXCEPT ![c] = call], CallOK(c)', UNCHANGED stores
  PROVE  ConnectionsInv'
<1>1. /\ RegisteredBy(c) /\ RegisteredOncePerClient' /\ CredentialsOK'
  BY DEF stores, ConnectionsInv, RegisteredBy, Entries, RegisteredOncePerClient, CredentialsOK
<1> QED
  BY <1>1, StepKeepsInv DEF stores, ConnectionsInv, ConnectionsTypeOK

LEMMA GotoMoves ==
  ASSUME ConnectionsInv, NEW c \in Clients, NEW l \in CallLabels, Goto(c, l)
  PROVE  \E call \in Call :
           /\ calls' = [calls EXCEPT ![c] = call] /\ calls'[c] = call
           /\ call.at = l /\ call.id = calls[c].id
           /\ call.endpoint = calls[c].endpoint /\ call.password = calls[c].password
<1> DEFINE call == [calls[c] EXCEPT !.at = l]
<1>1. calls[c] \in Call /\ calls \in [Clients -> Call]
  BY DEF ConnectionsInv, ConnectionsTypeOK
<1>2. call \in Call /\ call.at = l /\ call.id = calls[c].id
      /\ call.endpoint = calls[c].endpoint /\ call.password = calls[c].password
  BY <1>1 DEF Call
<1>3. calls' = [calls EXCEPT ![c] = call]
  BY <1>1 DEF Goto
<1> HIDE DEF call
<1> QED
  BY <1>1, <1>2, <1>3

LEMMA RespondKeepsInv ==
  ASSUME ConnectionsInv, NEW c \in Clients, Respond(c), UNCHANGED stores
  PROVE  ConnectionsInv'
<1>1. /\ NoCall \in Call /\ calls' = [calls EXCEPT ![c] = NoCall]
      /\ calls'[c] = NoCall /\ NoCall.at = "idle"
  BY CallTypes DEF Respond, ConnectionsInv, ConnectionsTypeOK, NoCall
<1>2. CallOK(c)'
  BY <1>1 DEF CallOK
<1> QED
  BY <1>1, <1>2, ReaderKeepsInv

-----------------------------------------------------------------------------
(* createConnection *)

LEMMA CreateKeepsInv ==
  ASSUME ConnectionsInv, NEW c \in Clients, NEW e \in Endpoints,
         NEW p \in Passwords \cup {NoPassword}, Create(c, e, p)
  PROVE  ConnectionsInv'
<1> DEFINE call == [at |-> "probe", id |-> Slug[e], endpoint |-> e, password |-> p]
<1>1. call \in Call /\ calls' = [calls EXCEPT ![c] = call] /\ calls'[c] = call
      /\ call.at = "probe" /\ call.endpoint = e /\ call.id = Slug[e] /\ Slug[e] \in Ids
  BY ConnectionsAssumption
  DEF Create, Call, CallLabels, ConnectionsInv, ConnectionsTypeOK
<1>2. UNCHANGED stores
  BY DEF Create
<1> HIDE DEF call
<1>3. CallOK(c)'
  BY <1>1 DEF CallOK
<1> QED
  BY <1>1, <1>2, <1>3, ReaderKeepsInv

LEMMA ProbeKeepsInv ==
  ASSUME ConnectionsInv, NEW c \in Clients, Probe(c)
  PROVE  ConnectionsInv'
<1>1. CASE Respond(c)
  BY <1>1, RespondKeepsInv DEF Probe
<1>2. CASE /\ \/ <<calls[c].endpoint, calls[c].password>> \in Accepts
              \/ calls[c].endpoint \in ProxmoxEndpoints
           /\ Goto(c, "check")
  <2>1. PICK call \in Call :
          /\ calls' = [calls EXCEPT ![c] = call] /\ calls'[c] = call
          /\ call.at = "check" /\ call.id = calls[c].id
          /\ call.endpoint = calls[c].endpoint /\ call.password = calls[c].password
    BY <1>2, GotoMoves DEF CallLabels
  <2>2. CallOK(c) /\ calls[c].at = "probe"
    BY DEF ConnectionsInv, Probe, At
  <2>3. CallOK(c)'
    <3>1. calls[c].endpoint \in VMwareEndpoints =>
            <<calls[c].endpoint, calls[c].password>> \in Accepts
      BY <1>2, ConnectionsAssumption
    <3> QED
      BY <2>1, <2>2, <3>1 DEF CallOK
  <2> QED
    BY <2>1, <2>3, ReaderKeepsInv DEF Probe
<1> QED
  BY <1>1, <1>2 DEF Probe

(* The id was found to have no entry, so that none is of this client.      *)
LEMMA CheckKeepsInv ==
  ASSUME ConnectionsInv, NEW c \in Clients, CheckDuplicate(c)
  PROVE  ConnectionsInv'
<1>1. CASE Respond(c)
  BY <1>1, RespondKeepsInv DEF CheckDuplicate
<1>2. CASE ~Registered(calls[c].id) /\ Goto(c, "append")
  <2>1. PICK call \in Call :
          /\ calls' = [calls EXCEPT ![c] = call] /\ calls'[c] = call
          /\ call.at = "append" /\ call.id = calls[c].id
          /\ call.endpoint = calls[c].endpoint /\ call.password = calls[c].password
    BY <1>2, GotoMoves DEF CallLabels
  <2>2. CallOK(c) /\ calls[c].at = "check" /\ UNCHANGED stores
    BY DEF ConnectionsInv, CheckDuplicate, At
  <2>3. (Entries(calls[c].id) = {})'
    BY <1>2, <2>1, <2>2 DEF Registered, Entries, stores
  <2>4. CallOK(c)'
    BY <2>1, <2>2, <2>3 DEF CallOK
  <2> QED
    BY <2>1, <2>2, <2>4, ReaderKeepsInv
<1> QED
  BY <1>1, <1>2 DEF CheckDuplicate

(* Others may have registered the id meanwhile, this client has not.       *)
LEMMA AppendKeepsInv ==
  ASSUME ConnectionsInv, NEW c \in Clients, AppendEntry(c)
  PROVE  ConnectionsInv'
<1> DEFINE e == calls[c].endpoint
           next == IF e \in VMwareEndpoints THEN "put" ELSE "audit"
           own == calls[c].id
           new == [endpoint |-> e, by |-> c]
<1>1. PICK call \in Call :
        /\ calls' = [calls EXCEPT ![c] = call] /\ calls'[c] = call
        /\ call.at = next /\ call.id = own
        /\ call.endpoint = e /\ call.password = calls[c].password
  BY GotoMoves DEF AppendEntry, CallLabels
<1>2. CallOK(c) /\ calls[c].at = "append"
  BY DEF ConnectionsInv, AppendEntry, At
<1>3. /\ e \in Endpoints /\ own = Slug[e] /\ own \in Ids
      /\ e \in VMwareEndpoints =>
           \E f \in VMwareEndpoints : Slug[f] = own /\ <<f, call.password>> \in Accepts
      /\ \A i \in Entries(own) : connections[i].by # c
  BY <1>1, <1>2 DEF CallOK
<1>4. UNCHANGED credentials /\ connections' = Append(connections, new)
      /\ connections \in Seq(Entry) /\ Len(connections) < MaxEntries
  BY DEF AppendEntry, ConnectionsInv, ConnectionsTypeOK
<1>5. new \in Entry /\ new.endpoint = e /\ new.by = c
  BY <1>3 DEF Entry
<1> HIDE DEF own, e, new
<1>6. CallOK(c)'
  BY <1>1, <1>3 DEF CallOK
<1>7. /\ connections' \in Seq(Entry) /\ Len(connections') = Len(connections) + 1
      /\ connections'[Len(connections) + 1] = new
      /\ \A id : \A i \in Entries(id)' :
           \/ i \in Entries(id) /\ connections'[i] = connections[i]
           \/ i = Len(connections) + 1 /\ id = own
  BY <1>3, <1>4, <1>5, RegistryAppended
<1>8. Len(connections') <= MaxEntries
  BY <1>4, <1>7, ConnectionsAssumption
<1>9. RegisteredBy(c)
  BY <1>5, <1>7 DEF RegisteredBy
<1>10. CredentialsOK'
  BY <1>4 DEF ConnectionsInv, CredentialsOK
<1>11. RegisteredOncePerClient'
  <2> SUFFICES ASSUME NEW id \in Ids, NEW i \in Entries(id)', NEW j \in Entries(id)', i # j
               PROVE  connections'[i].by # connections'[j].by
    BY DEF RegisteredOncePerClient
  <2>1. CASE i \in Entries(id) /\ connections'[i] = connections[i]
             /\ j \in Entries(id) /\ connections'[j] = connections[j]
    BY <2>1 DEF ConnectionsInv, RegisteredOncePerClient
  <2>2. CASE i = Len(connections) + 1 /\ id = own
             /\ j \in Entries(id) /\ connections'[j] = connections[j]
    BY <1>3, <1>5, <1>7, <2>2
  <2>3. CASE j = Len(connections) + 1 /\ id = own
             /\ i \in Entries(id) /\ connections'[i] = connections[i]
    BY <1>3, <1>5, <1>7, <2>3
  <2> QED
    BY <1>7, <2>1, <2>2, <2>3
<1> QED
  BY <1>1, <1>4, <1>6, <1>7, <1>8, <1>9, <1>10, <1>11, StepKeepsInv
  DEF ConnectionsInv, ConnectionsTypeOK

LEMMA PutKeepsInv ==
  ASSUME ConnectionsInv, NEW c \in Clients, PutCredentials(c)
  PROVE  ConnectionsInv'
<1> DEFINE own == calls[c].id
<1>1. PICK call \in Call :
        /\ calls' = [calls EXCEPT ![c] = call] /\ calls'[c] = call
        /\ call.at = "audit" /\ call.id = own
  BY GotoMoves DEF PutCredentials, CallLabels
<1>2. CallOK(c) /\ calls[c].at = "put"
  BY DEF ConnectionsInv, PutCredentials, At
<1>3. own \in Ids /\ \E f \in VMwareEndpoints : Slug[f] = own /\ <<f, calls[c].password>> \in Accepts
  BY <1>2 DEF CallOK
<1>4. UNCHANGED connections
      /\ credentials' = [credentials EXCEPT ![own] = calls[c].password]
  BY DEF PutCredentials
<1> HIDE DEF own
<1>5. calls[c].password \in Passwords
  BY <1>3, ConnectionsAssumption
<1>6. CallOK(c)'
  BY <1>1, <1>3 DEF CallOK
<1>7. credentials' \in [Ids -> Passwords \cup {NoPassword}]
      /\ \A id \in Ids : credentials'[id] =
           IF id = own THEN calls[c].password ELSE credentials[id]
  BY <1>3, <1>4, <1>5 DEF ConnectionsInv, ConnectionsTypeOK
<1>8. CredentialsOK'
  BY <1>3, <1>7 DEF ConnectionsInv, CredentialsOK
<1>9. RegisteredBy(c) /\ RegisteredOncePerClient'
  BY <1>4 DEF ConnectionsInv, RegisteredBy, Entries, RegisteredOncePerClient
<1> QED
  BY <1>1, <1>4, <1>6, <1>7, <1>8, <1>9, StepKeepsInv DEF ConnectionsInv, ConnectionsTypeOK

LEMMA AuditKeepsInv ==
  ASSUME ConnectionsInv, NEW c \in Clients, Audit(c)
  PROVE  ConnectionsInv'
BY RespondKeepsInv DEF Audit

-----------------------------------------------------------------------------
(* deleteConnection *)

LEMMA DeleteKeepsInv ==
  ASSUME ConnectionsInv, NEW c \in Clients, NEW own \in Ids, Delete(c, own)
  PROVE  ConnectionsInv'
<1> DEFINE call == [NoCall EXCEPT !.at = "remove", !.id = own]
<1>1. call \in Call /\ calls' = [calls EXCEPT ![c] = call] /\ calls'[c] = call
      /\ call.at = "remove" /\ call.id = own
  BY DEF Delete, NoCall, Call, CallLabels, ConnectionsInv, ConnectionsTypeOK
<1>2. UNCHANGED stores
  BY DEF Delete
<1> HIDE DEF call
<1>3. CallOK(c)'
  BY <1>1 DEF CallOK
<1> QED
  BY <1>1, <1>2, <1>3, ReaderKeepsInv

LEMMA RemoveKeepsInv ==
  ASSUME ConnectionsInv, NEW c \in Clients, RemoveEntry(c)
  PROVE  ConnectionsInv'
<1>1. CASE Respond(c) /\ UNCHANGED connections
  BY <1>1, RespondKeepsInv DEF RemoveEntry, stores
<1>2. CASE /\ Registered(calls[c].id)
           /\ connections' = RemoveAt(connections, FirstEntry(calls[c].id))
           /\ Goto(c, "forget")
  <2> DEFINE k == FirstEntry(calls[c].id)
  <2>1. PICK call \in Call :
          /\ calls' = [calls EXCEPT ![c] = call] /\ calls'[c] = call
          /\ call.at = "forget" /\ call.id = calls[c].id
    BY <1>2, GotoMoves DEF CallLabels
  <2>2. CallOK(c) /\ calls[c].at = "remove"
    BY DEF ConnectionsInv, RemoveEntry, At
  <2>3. UNCHANGED credentials /\ connections \in Seq(Entry)
        /\ connections' = RemoveAt(connections, k)
    BY <1>2 DEF RemoveEntry, ConnectionsInv, ConnectionsTypeOK
  <2>4. k \in 1..Len(connections)
    BY <1>2, <2>3, FirstIsEntry, EntriesAreNatural
  <2> HIDE DEF k
  <2>5. connections' \in Seq(Entry) /\ Len(connections') <= MaxEntries
    <3>1. connections' \in Seq(Entry) /\ Len(connections') = Len(connections) - 1
      BY <2>3, <2>4, RegistryShortened
    <3> QED
      BY <2>3, <3>1, ConnectionsAssumption DEF ConnectionsInv, ConnectionsTypeOK
  <2>6. CallOK(c)'
    BY <2>1, <2>2 DEF CallOK
  <2>7. RegisteredBy(c)
    BY <2>3, <2>4, EntryRemoved DEF RegisteredBy
  <2>8. RegisteredOncePerClient'
    <3> SUFFICES ASSUME NEW id \in Ids, NEW i \in Entries(id)', NEW j \in Entries(id)', i # j
                 PROVE  connections'[i].by # connections'[j].by
      BY DEF RegisteredOncePerClient
    <3>1. \E m, n \in Entries(id) :
            m # n /\ connections'[i] = connections[m] /\ connections'[j] = connections[n]
      BY <2>3, <2>4, EntryRemoved
    <3> QED
      BY <3>1 DEF ConnectionsInv, RegisteredOncePerClient
  <2>9. CredentialsOK'
    BY <2>3 DEF ConnectionsInv, CredentialsOK
  <2> QED
    BY <2>1, <2>3, <2>5, <2>6, <2>7, <2>8, <2>9, StepKeepsInv
    DEF ConnectionsInv, ConnectionsTypeOK
<1> QED
  BY <1>1, <1>2 DEF RemoveEntry

LEMMA ForgetKeepsInv ==
  ASSUME ConnectionsInv, NEW c \in Clients, ForgetCredentials(c)
  PROVE  ConnectionsInv'
<1> DEFINE own == calls[c].id
<1>1. PICK call \in Call :
        /\ calls' = [calls EXCEPT ![c] = call] /\ calls'[c] = call
        /\ call.at = "audit" /\ call.id = own
  BY GotoMoves DEF ForgetCredentials, CallLabels
<1>2. CallOK(c) /\ own \in Ids
  BY DEF ConnectionsInv, ForgetCredentials, At, CallOK
<1>3. UNCHANGED connections
      /\ credentials' = [credentials EXCEPT ![own] = NoPassword]
  BY DEF ForgetCredentials
<1> HIDE DEF own
<1>4. credentials' \in [Ids -> Passwords \cup {NoPassword}]
      /\ \A id \in Ids : credentials'[id] = IF id = own THEN NoPassword ELSE credentials[id]
  BY <1>2, <1>3 DEF ConnectionsInv, ConnectionsTypeOK
<1>5. CallOK(c)'
  BY <1>1, <1>2 DEF CallOK
<1>6. CredentialsOK'
  BY <1>4 DEF ConnectionsInv, CredentialsOK
<1>7. RegisteredBy(c) /\ RegisteredOncePerClient'
  BY <1>3 DEF ConnectionsInv, RegisteredBy, Entries, RegisteredOncePerClient
<1> QED
  BY <1>1, <1>3, <1>4, <1>5, <1>6, <1>7, StepKeepsInv DEF ConnectionsInv, ConnectionsTypeOK

-----------------------------------------------------------------------------
(* getInventory and testConnection *)

LEMMA ReadKeepsInv ==
  ASSUME ConnectionsInv, NEW c \in Clients, NEW id \in Ids, Read(c, id)
  PROVE  ConnectionsInv'
<1> DEFINE call == [NoCall EXCEPT !.at = "lookup", !.id = id]
<1>1. call \in Call /\ calls' = [calls EXCEPT ![c] = call] /\ calls'[c] = call
      /\ call.at = "lookup" /\ call.id = id
  BY DEF Read, NoCall, Call, CallLabels, ConnectionsInv, ConnectionsTypeOK
<1>2. UNCHANGED stores
  BY DEF Read
<1> HIDE DEF call
<1>3. CallOK(c)'
  BY <1>1 DEF CallOK
<1> QED
  BY <1>1, <1>2, <1>3, ReaderKeepsInv

LEMMA LookupKeepsInv ==
  ASSUME ConnectionsInv, NEW c \in Clients, Lookup(c)
  PROVE  ConnectionsInv'
<1> DEFINE e == connections[FirstEntry(calls[c].id)].endpoint
           next == IF e \in VMwareEndpoints THEN "password" ELSE "contact"
           call == [calls[c] EXCEPT !.endpoint = e, !.at = next]
<1>1. CASE Respond(c)
  BY <1>1, RespondKeepsInv DEF Lookup
<1>2. CASE /\ Registered(calls[c].id)
           /\ calls' = [calls EXCEPT ![c].endpoint = e, ![c].at = next]
  <2>1. calls \in [Clients -> Call] /\ calls[c] \in Call
    BY DEF ConnectionsInv, ConnectionsTypeOK
  <2>2. e \in Endpoints /\ Slug[e] = calls[c].id
    <3>1. connections \in Seq(Entry)
      BY DEF ConnectionsInv, ConnectionsTypeOK
    <3>2. FirstEntry(calls[c].id) \in Entries(calls[c].id)
      BY <1>2, <3>1, FirstIsEntry
    <3>3. connections[FirstEntry(calls[c].id)] \in Entry
      BY <3>1, <3>2 DEF Entries
    <3> QED
      BY <3>1, <3>2, <3>3 DEF Entries, Entry
  <2> HIDE DEF e
  <2>3. call \in Call /\ call.at = next /\ call.endpoint = e /\ call.id = calls[c].id
    BY <2>1, <2>2 DEF Call, CallLabels
  <2>4. calls' = [calls EXCEPT ![c] = call] /\ calls'[c] = call
    BY <1>2, <2>1
  <2>5. CallOK(c) /\ calls[c].at = "lookup" /\ UNCHANGED stores
    BY DEF ConnectionsInv, Lookup, At
  <2> HIDE DEF call
  <2>6. CallOK(c)'
    BY <2>2, <2>3, <2>4, <2>5 DEF CallOK
  <2> QED
    BY <2>3, <2>4, <2>5, <2>6, ReaderKeepsInv
<1> QED
  BY <1>1, <1>2 DEF Lookup

(* A password that is there was accepted by an endpoint of its id.         *)
LEMMA GetKeepsInv ==
  ASSUME ConnectionsInv, NEW c \in Clients, GetCredentials(c)
  PROVE  ConnectionsInv'
<1> DEFINE p == credentials[calls[c].id]
           call == [calls[c] EXCEPT !.at = "contact", !.password = p]
<1>1. CASE Respond(c)
  BY <1>1, RespondKeepsInv DEF GetCredentials
<1>2. CASE p # NoPassword /\ calls' = [calls EXCEPT ![c].at = "contact", ![c].password = p]
  <2>1. calls \in [Clients -> Call] /\ calls[c] \in Call
    BY DEF ConnectionsInv, ConnectionsTypeOK
  <2>2. CallOK(c) /\ calls[c].at = "password" /\ UNCHANGED stores
    BY DEF ConnectionsInv, GetCredentials, At
  <2>3. calls[c].id \in Ids /\ p \in Passwords \cup {NoPassword}
    BY <2>2 DEF ConnectionsInv, ConnectionsTypeOK, CallOK
  <2>4. \E e \in VMwareEndpoints : Slug[e] = calls[c].id /\ <<e, p>> \in Accepts
    BY <1>2, <2>3 DEF ConnectionsInv, CredentialsOK
  <2> HIDE DEF p
  <2>5. call \in Call /\ call.at = "contact" /\ call.endpoint = calls[c].endpoint
        /\ call.id = calls[c].id /\ call.password = p
    BY <2>1, <2>3 DEF Call, CallLabels
  <2>6. calls' = [calls EXCEPT ![c] = call] /\ calls'[c] = call
    BY <1>2, <2>1
  <2> HIDE DEF call
  <2>7. CallOK(c)'
    BY <2>2, <2>4, <2>5, <2>6 DEF CallOK
  <2> QED
    BY <2>2, <2>5, <2>6, <2>7, ReaderKeepsInv
<1> QED
  BY <1>1, <1>2 DEF GetCredentials

LEMMA ContactKeepsInv ==
  ASSUME ConnectionsInv, NEW c \in Clients, Contact(c)
  PROVE  ConnectionsInv'
BY RespondKeepsInv DEF Contact

-----------------------------------------------------------------------------
(* The theorems *)

LEMMA InitInv == ConnectionsInit => ConnectionsInv
<1> SUFFICES ASSUME ConnectionsInit PROVE ConnectionsInv
  OBVIOUS
<1>1. /\ connections = <<>>
      /\ calls \in [Clients -> Call] /\ \A c \in Clients : calls[c].at = "idle"
      /\ credentials = [id \in Ids |-> NoPassword]
  BY CallTypes DEF ConnectionsInit, NoCall
<1>2. /\ connections \in Seq(Entry) /\ Len(connections) = 0
      /\ \A id : Entries(id) = {}
  BY <1>1 DEF Entries
<1>3. ConnectionsTypeOK
  BY <1>1, <1>2, ConnectionsAssumption DEF ConnectionsTypeOK, At
<1>4. RegisteredOncePerClient /\ CredentialsOK
  BY <1>1, <1>2 DEF RegisteredOncePerClient, CredentialsOK
<1>5. \A c \in Clients : CallOK(c)
  BY <1>1 DEF CallOK
<1> QED
  BY <1>3, <1>4, <1>5 DEF ConnectionsInv

(* A backend that starts again knows nothing of the connections before.    *)
LEMMA RestartKeepsInv == Restart => ConnectionsInv'
<1>1. Restart => ConnectionsInit'
  BY DEF Restart, ConnectionsInit
<1> QED
  BY <1>1, InitInv, PTL

LEMMA StutterKeepsInv ==
  ASSUME ConnectionsInv, UNCHANGED connectionsVars
  PROVE  ConnectionsInv'
<1> USE DEF connectionsVars, stores
<1>1. ConnectionsTypeOK' /\ RegisteredOncePerClient' /\ CredentialsOK'
  BY DEF ConnectionsInv, ConnectionsTypeOK, At, RegisteredOncePerClient, Entries, CredentialsOK
<1>2. \A c \in Clients : CallOK(c)'
  BY DEF ConnectionsInv, CallOK, Entries
<1> QED
  BY <1>1, <1>2 DEF ConnectionsInv

-----------------------------------------------------------------------------
(* The theorems *)

(* The inductive invariant of registry, passwords and requests holds in    *)
(* every reachable state of a backend.                                     *)
THEOREM ConnectionsInvariance == ConnectionsSpec => []ConnectionsInv
<1>1. ConnectionsInit => ConnectionsInv
  BY InitInv
<1>2. ConnectionsInv /\ [ConnectionsNext]_connectionsVars => ConnectionsInv'
  <2> SUFFICES ASSUME ConnectionsInv, [ConnectionsNext]_connectionsVars
               PROVE  ConnectionsInv'
    OBVIOUS
  <2>1. ASSUME NEW c \in Clients, ConnectionStep(c) PROVE ConnectionsInv'
    BY <2>1, ProbeKeepsInv, CheckKeepsInv, AppendKeepsInv, PutKeepsInv, RemoveKeepsInv,
       ForgetKeepsInv, AuditKeepsInv, LookupKeepsInv, GetKeepsInv, ContactKeepsInv
    DEF ConnectionStep
  <2>2. ASSUME NEW c \in Clients, NEW e \in Endpoints,
               NEW p \in Passwords \cup {NoPassword}, Create(c, e, p)
        PROVE  ConnectionsInv'
    BY <2>2, CreateKeepsInv
  <2>3. ASSUME NEW c \in Clients, NEW id \in Ids, Delete(c, id) \/ Read(c, id)
        PROVE  ConnectionsInv'
    BY <2>3, DeleteKeepsInv, ReadKeepsInv
  <2> QED
    BY <2>1, <2>2, <2>3, RestartKeepsInv, StutterKeepsInv DEF ConnectionsNext
<1> QED
  BY <1>1, <1>2, PTL DEF ConnectionsSpec

(* However the requests of all clients interleave between the check and   *)
(* the append of Add, a client has one entry of an id.                     *)
THEOREM EntriesAreUnique == ConnectionsSpec => []RegisteredOncePerClient
<1>1. ConnectionsInv => RegisteredOncePerClient
  BY DEF ConnectionsInv
<1> QED
  BY <1>1, ConnectionsInvariance, PTL

(* A password is only sent to an endpoint of the id it was accepted for,   *)
(* whatever was deleted and created while it was looked up.                *)
THEOREM ContactsStayAccepted == ConnectionsSpec => []ContactsAreAccepted
<1>1. ConnectionsInv => ContactsAreAccepted
  BY DEF ConnectionsInv, ContactsAreAccepted, CallOK, At
<1> QED
  BY <1>1, ConnectionsInvariance, PTL

=============================================================================
