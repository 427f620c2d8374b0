------------------------- MODULE SchemaMigrations -------------------------
(***************************************************************************)
(* The start of a backend up to the point where its database has the       *)
(* schema it expects (backend/internal/store).  Several backends may start *)
(* on one database, and any of them may die or give up on the way.  What a *)
(* backend knows of the schema is what it read of schema_migrations when   *)
(* it started; nothing keeps two of them from running the same SQL.        *)
(***************************************************************************)
EXTENDS Naturals, FiniteSets

CONSTANTS
  Backends,      \* the backend processes that share the database
  LastVersion    \* the number of embedded migrations

ASSUME SchemaAssumption == LastVersion \in Nat \ {0}

Versions == 1..LastVersion

VARIABLES
  recorded,      \* the versions in schema_migrations
  applied,       \* history: how often each backend, over all its starts,
                 \* committed the SQL of each version
  phase,         \* how far the start of each backend is
  seen           \* the versions each backend takes for applied

schemaVars == <<recorded, applied, phase, seen>>

Phases == {"down", "migrate", "count", "seed", "up"}

Move(b, from, to) == phase[b] = from /\ phase' = [phase EXCEPT ![b] = to]

(* Load sorts the migrations: they are applied in the order of versions.   *)
Pending(b) == CHOOSE v \in Versions \ seen[b] : \A w \in Versions \ seen[b] : v <= w

AppliedVersions(b) ==
  /\ Move(b, "down", "migrate")
  /\ seen' = [seen EXCEPT ![b] = recorded]
  /\ UNCHANGED <<recorded, applied>>

RunSQL(b, v) == applied' = [applied EXCEPT ![b][v] = @ + 1]

(* Another backend may have applied the version meanwhile: the SQL creates *)
(* only what is absent, and a version that has its row is left alone.  The *)
(* SQL alters the tables of earlier versions, so these must be there.  SQL *)
(* and row are one transaction.                                            *)
Apply(b) ==
  /\ phase[b] = "migrate"
  /\ Versions \ seen[b] # {}
  /\ \A v \in Versions : v < Pending(b) => v \in recorded
  /\ RunSQL(b, Pending(b))
  /\ recorded' = recorded \cup {Pending(b)}
  /\ seen' = [seen EXCEPT ![b] = @ \cup {Pending(b)}]
  /\ UNCHANGED phase

SchemaReady(b) ==
  /\ seen[b] = Versions
  /\ Move(b, "migrate", "count")
  /\ UNCHANGED <<recorded, applied, seen>>

(* A backend dies, or gives up its start.                                  *)
GoDown(b) ==
  /\ phase[b] # "down"
  /\ phase' = [phase EXCEPT ![b] = "down"]
  /\ seen' = [seen EXCEPT ![b] = {}]
  /\ UNCHANGED <<recorded, applied>>

(* Mutation of SchemaStep: the row is written after the transaction of the *)
(* SQL, which a backend may not live to do.                                *)
ApplyThenRecord(b) ==
  \/ AppliedVersions(b) \/ Apply(b) \/ SchemaReady(b)
  \/ /\ phase[b] = "migrate" /\ Versions \ seen[b] # {}
     /\ RunSQL(b, Pending(b))
     /\ phase' = [phase EXCEPT ![b] = "down"]
     /\ seen' = [seen EXCEPT ![b] = {}]
     /\ UNCHANGED recorded

SchemaStep(b) == AppliedVersions(b) \/ Apply(b) \/ SchemaReady(b)

SchemaInit ==
  /\ recorded = {}
  /\ applied = [b \in Backends |-> [v \in Versions |-> 0]]
  /\ phase = [b \in Backends |-> "down"]
  /\ seen = [b \in Backends |-> {}]

SchemaSpec == SchemaInit /\ [][\E b \in Backends : SchemaStep(b) \/ GoDown(b)]_schemaVars

-----------------------------------------------------------------------------
(* Whichever backends start together, die and start again: no backend runs *)
(* the SQL of a version twice, and what ran is on record.  The versions on *)
(* record have no gap, no backend believes in one that is not there, and   *)
(* one that is past the migrations has them all.  (Two backends may run    *)
(* the same SQL, which then finds its tables and columns there.)           *)
MigrationsApplyOnce ==
  /\ \A b \in Backends, v \in Versions :
       applied[b][v] <= 1 /\ (applied[b][v] = 1 => v \in recorded)
  /\ \A v \in recorded : 1..v \subseteq recorded
  /\ \A b \in Backends : seen[b] \subseteq recorded
  /\ \A b \in Backends : phase[b] \in {"count", "seed", "up"} => recorded = Versions

(* While a backend is at the migrations it takes those it has run for      *)
(* applied: they were on record when it started, or it ran them since.     *)
OwnWorkIsSeen ==
  \A b \in Backends, v \in Versions :
    phase[b] = "migrate" /\ applied[b][v] = 1 => v \in seen[b]

=============================================================================
