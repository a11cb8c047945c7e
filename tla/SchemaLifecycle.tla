--------------------------- MODULE SchemaLifecycle ---------------------------
(***************************************************************************)
(* How a database comes to the current schema and a backend to serve it:   *)
(* roles and rights (app/db_admin/bootstrap_roles.py), the adoption of a   *)
(* database that was there before Alembic (app/db_admin/adopt_legacy.py),  *)
(* the migrations (backend/alembic/env.py), the startup guard              *)
(* (app/core/schema_check.py), in the order docker-compose.yml runs them.  *)
(*                                                                         *)
(* Compose runs the chain bootstrap, migrate, finalize, backend: each link *)
(* only after the one before it succeeded.  Bootstrap and finalize are the *)
(* same script of statements that commit one by one; a run of Alembic is   *)
(* one transaction.  An operator may run the adoption, by hand and at any  *)
(* time.  Each program may be interrupted between any two statements and   *)
(* is started again.  A backend of the previous release goes on serving    *)
(* until it is replaced.                                                   *)
(***************************************************************************)
EXTENDS SchemaIntrospection, Sequences

CONSTANTS
    Databases,      \* databases as they may be found at first
    MaxId,          \* bound: orders are placed up to this id
    MaxCrashes      \* bound: interruptions of programs and of the backend

Sequence == [owned : BOOLEAN, same : BOOLEAN, ordinary : BOOLEAN,
             last : 1 .. MaxId, called : BOOLEAN, maxId : 0 .. MaxId]

\* What a database under Alembic has when it is found: the tables of its revision
\* and a sequence ahead of its ids.  Ids need a table.  This release serves, if at
\* all, at its own revision.
ASSUME DatabasesAssumption ==
    \A d \in Databases :
        /\ DOMAIN d.tables = Tables /\ \A t \in Tables : WellFormed(d.tables[t])
        /\ d.version \in 0 .. Newest
        /\ d.seq \in Sequence
        /\ d.image \in {"none", "old", "new"}
        /\ d.version > 0 => ShapeFits(d.tables, d.version) /\ NextValue(d.seq) > d.seq.maxId
        /\ d.tables["applications"] = Absent => d.seq.maxId = 0
        /\ d.image = "new" => d.version = Newest

ASSUME BoundsAssumption == MaxId \in Nat \ {0} /\ MaxCrashes \in Nat

VARIABLES
    tables,     \* the shape of each table; Absent if it does not exist
    owner,      \* the role that owns each table
    version,    \* the revision in alembic_version; 0 if there is no such table
    seq,        \* ids and id sequence of applications
    access,     \* roles and what they may do
    chain,      \* where the Compose chain stands
    adoption,   \* where the adoption stands
    backend,    \* the image of the backend container, and whether it serves
    crashes     \* interruptions so far

lifecycleVars == <<tables, owner, version, seq, access, chain, adoption, backend,
                   crashes>>

Rights == {"tables", "sequences"}
VersionTable == "alembic_version"

\* Mutant: the revocation before the blanket grants.
ScriptRevokesFirst ==
    <<"migration role", "migration password", "app role", "app password",
      "open schema", "look", "revoke", "future tables", "future sequences",
      "grant tables", "grant sequences">>

\* bootstrap_roles, statement by statement.  The five grants that let the two
\* roles into the database and the schema are one: nothing reads them apart.
Script == <<"migration role", "migration password", "app role", "app password",
            "open schema", "future tables", "future sequences",
            "grant tables", "grant sequences", "look", "revoke">>

Access == [role : [{"migration", "app"} -> {"absent", "bare", "ready"}],
           opened : BOOLEAN, future : SUBSET Rights,
           crud : SUBSET (Tables \union {VersionTable}), draws : SUBSET Tables]

LifecycleTypeOK ==
    /\ DOMAIN tables = Tables
    /\ owner \in [Tables -> {"admin", "migration"}]
    /\ version \in 0 .. Newest
    /\ seq \in Sequence
    /\ access \in Access
    /\ chain \in [link : {"idle", "bootstrap", "migrate", "finalize", "start"},
                  at : 1 .. Len(Script)]
    /\ adoption \in [pc : {"idle", "check", "verify", "compare", "own", "stamp"},
                     todo : SUBSET LegacyNames, saw : Sequence]
    /\ backend \in [image : {"none", "old", "new"}, up : BOOLEAN]
    /\ crashes \in 0 .. MaxCrashes

NoAccess == [role |-> [r \in {"migration", "app"} |-> "absent"], opened |-> FALSE,
             future |-> {}, crud |-> {}, draws |-> {}]
FullAccess(to) ==
    [role |-> [r \in {"migration", "app"} |-> "ready"], opened |-> TRUE,
     future |-> Rights, crud |-> to, draws |-> to]

Resting == [pc |-> "idle", todo |-> {}, saw |-> FreshSequence]

LifecycleInit ==
    /\ \E d \in Databases :
          /\ tables = d.tables /\ version = d.version /\ seq = d.seq
          /\ backend = [image |-> d.image, up |-> d.image # "none"]
          /\ owner = [t \in Tables |-> IF d.version > 0 THEN "migration" ELSE "admin"]
          /\ access = IF d.version > 0 THEN FullAccess(Existing(d.tables)) ELSE NoAccess
    /\ chain = [link |-> "idle", at |-> 1]
    /\ adoption = Resting
    /\ crashes = 0

-----------------------------------------------------------------------------

\* docker compose up: the first link of the chain.
StartChain ==
    /\ chain.link = "idle"
    /\ chain' = [link |-> "bootstrap", at |-> 1]
    /\ UNCHANGED <<tables, owner, version, seq, access, adoption, backend, crashes>>

\* CREATE ROLE ... LOGIN has no password yet.
RoleCreated(a, r) ==
    [a EXCEPT !.role[r] = IF @ = "absent" THEN "bare" ELSE @]

\* What a statement of the script leaves.  ALL TABLES includes alembic_version.
After(statement, a) ==
    CASE statement = "migration role" -> RoleCreated(a, "migration")
      [] statement = "migration password" -> [a EXCEPT !.role["migration"] = "ready"]
      [] statement = "app role" -> RoleCreated(a, "app")
      [] statement = "app password" -> [a EXCEPT !.role["app"] = "ready"]
      [] statement = "open schema" -> [a EXCEPT !.opened = TRUE]
      [] statement = "future tables" -> [a EXCEPT !.future = @ \union {"tables"}]
      [] statement = "future sequences" -> [a EXCEPT !.future = @ \union {"sequences"}]
      [] statement = "grant tables" ->
            [a EXCEPT !.crud = @ \union Existing(tables)
                                 \union (IF version > 0 THEN {VersionTable} ELSE {})]
      [] statement = "grant sequences" -> [a EXCEPT !.draws = @ \union Existing(tables)]
      [] statement = "look" -> a
      [] statement = "revoke" -> [a EXCEPT !.crud = @ \ {VersionTable}]

\* The script ends early if it looks for alembic_version and finds none.
Ends == chain.at = Len(Script) \/ (Script[chain.at] = "look" /\ version = 0)

RunStatement ==
    /\ chain.link \in {"bootstrap", "finalize"}
    /\ access' = After(Script[chain.at], access)
    /\ chain' = IF Ends
                THEN [link |-> IF chain.link = "bootstrap" THEN "migrate" ELSE "start",
                      at |-> 1]
                ELSE [chain EXCEPT !.at = @ + 1]
    /\ UNCHANGED <<tables, owner, version, seq, adoption, backend, crashes>>

\* Mutant: no default privileges.
InheritedNothing(a, created) == a

\* What PostgreSQL gives the runtime role on the tables the migration role creates.
Inherited(a, created) ==
    [a EXCEPT !.crud = @ \union (IF "tables" \in a.future THEN created ELSE {}),
              !.draws = @ \union (IF "sequences" \in a.future
                                  THEN created \ {VersionTable} ELSE {})]

CanConnect(r) == access.role[r] = "ready" /\ access.opened

\* Tables that the migrations after revision v create.
Creates(v) == (IF v < 1 THEN LegacyNames ELSE {})
    \union (IF v < 2 THEN {"capabilities"} ELSE {}) \union (IF v < 3 THEN {"keys"} ELSE {})

\* They succeed together or not at all: what they create must not be there, and
\* what they alter must belong to the migration role.
Applies ==
    /\ Creates(version) \intersect Existing(tables) = {}
    /\ version \in 1 .. Newest - 1 => \A t \in LegacyNames : owner[t] = "migration"

CreatedByMigration(created) ==
    [t \in Tables |-> IF t \in created THEN "migration" ELSE owner[t]]

\* alembic upgrade head, one transaction for all revisions.
Migrate ==
    /\ chain.link = "migrate"
    /\ \/ /\ CanConnect("migration") /\ Applies
          /\ tables' = Upgraded(tables, version, Newest)
          /\ owner' = CreatedByMigration(Creates(version))
          /\ version' = Newest
          /\ access' = Inherited(access, Creates(version) \union
                                    (IF version = 0 THEN {VersionTable} ELSE {}))
          /\ chain' = [link |-> "finalize", at |-> 1]
       \/ /\ ~(CanConnect("migration") /\ Applies)
          /\ chain' = [link |-> "idle", at |-> 1]
          /\ UNCHANGED <<tables, owner, version, access>>
    /\ UNCHANGED <<seq, adoption, backend, crashes>>

-----------------------------------------------------------------------------

Go(pc, todo, saw) == adoption' = [pc |-> pc, todo |-> todo, saw |-> saw]

StartAdoption ==
    /\ adoption.pc = "idle"
    /\ Go("check", {}, FreshSequence)
    /\ UNCHANGED <<tables, owner, version, seq, access, chain, backend, crashes>>

\* Already adopted: nothing to do.
CheckAdopted ==
    /\ adoption.pc = "check"
    /\ IF version > 0 THEN adoption' = Resting ELSE Go("verify", {}, FreshSequence)
    /\ UNCHANGED <<tables, owner, version, seq, access, chain, backend, crashes>>

SequenceOf(t, s) == IF t = "applications" THEN s ELSE FreshSequence

\* Mutant: the tables are known by their names.
FingerprintByName(s) == LegacyNames \subseteq Existing(tables)

\* verify_legacy_fingerprint, with the sequence of applications in state `s`.
Fingerprint(s) ==
    /\ Existing(tables) = LegacyNames
    /\ \A t \in LegacyNames :
          TableProblems(tables[t], LegacyTables[t], SequenceOf(t, s)) = {}

\* Mutant: a table forgotten.
ToReassignShort == LegacyNames \ {"metrics"}

\* The tables that change hands.
ToReassign == LegacyNames

\* The state of the sequence is read before the largest id: two statements, and
\* the old backend may place an order between them.
VerifyShape ==
    /\ adoption.pc = "verify"
    /\ Go("compare", {}, seq)
    /\ UNCHANGED <<tables, owner, version, seq, access, chain, backend, crashes>>

VerifyIds ==
    /\ adoption.pc = "compare"
    /\ IF Fingerprint([adoption.saw EXCEPT !.maxId = seq.maxId])
       THEN Go("own", ToReassign, FreshSequence)
       ELSE adoption' = Resting
    /\ UNCHANGED <<tables, owner, version, seq, access, chain, backend, crashes>>

\* _reassign_ownership: one ALTER TABLE per table, in the order of a frozenset,
\* each committed at once.  There must be a role to give the table to.
Reassign ==
    /\ adoption.pc = "own" /\ adoption.todo # {}
    /\ \E t \in adoption.todo :
          IF access.role["migration"] = "absent"
          THEN adoption' = Resting /\ UNCHANGED owner
          ELSE /\ owner' = [owner EXCEPT ![t] = "migration"]
               /\ LET todo == adoption.todo \ {t} IN
                  Go(IF todo = {} THEN "stamp" ELSE "own", todo, FreshSequence)
    /\ UNCHANGED <<tables, version, seq, access, chain, backend, crashes>>

\* command.stamp as the migration role: creates alembic_version, one transaction.
Stamp ==
    /\ adoption.pc = "stamp"
    /\ IF CanConnect("migration")
       THEN /\ version' = 1
            /\ access' = Inherited(access, IF version = 0 THEN {VersionTable} ELSE {})
       ELSE UNCHANGED <<version, access>>
    /\ adoption' = Resting
    /\ UNCHANGED <<tables, owner, seq, chain, backend, crashes>>

-----------------------------------------------------------------------------

\* The last link: Compose replaces the container unless it runs the new image.
ReplaceBackend ==
    /\ chain.link = "start"
    /\ backend' = IF backend.image = "new" THEN backend
                  ELSE [image |-> "new", up |-> FALSE]
    /\ chain' = [link |-> "idle", at |-> 1]
    /\ UNCHANGED <<tables, owner, version, seq, access, adoption, crashes>>

\* docker compose up --no-deps backend: the container without the chain.
ReplaceEarly ==
    /\ backend.image # "new" /\ chain.link = "idle"
    /\ backend' = [image |-> "new", up |-> FALSE]
    /\ UNCHANGED <<tables, owner, version, seq, access, chain, adoption, crashes>>

\* Mutant: the guard looks for tables only.
DatabaseReadyByName == Existing(tables) = Tables

\* ensure_database_ready.
DatabaseReady ==
    /\ Tables \subseteq Existing(tables)
    /\ \A t \in Tables : TableProblems(tables[t], CurrentTables[t], seq) = {}

\* The lifespan of main.py; Docker starts a container that refused again.  The
\* previous release had no reason to refuse.
Boot ==
    /\ backend.image # "none" /\ ~backend.up
    /\ backend.image = "new" => CanConnect("app") /\ DatabaseReady
    /\ backend' = [backend EXCEPT !.up = TRUE]
    /\ UNCHANGED <<tables, owner, version, seq, access, chain, adoption, crashes>>

\* An order's INSERT: the sequence moves whether or not the id is taken.
PlaceOrder ==
    /\ backend.up /\ "applications" \in Existing(tables)
    /\ backend.image = "new" => {"applications"} \subseteq access.crud \intersect access.draws
    /\ NextValue(seq) <= MaxId
    /\ LET id == NextValue(seq) IN
       /\ seq' = [seq EXCEPT !.last = id, !.called = TRUE,
                             !.maxId = IF id > @ THEN id ELSE @]
    /\ UNCHANGED <<tables, owner, version, access, chain, adoption, backend, crashes>>

\* A program or the backend is interrupted; what it committed stays.
Interrupt ==
    /\ crashes < MaxCrashes
    /\ crashes' = crashes + 1
    /\ \/ /\ chain.link # "idle"
          /\ chain' = [link |-> "idle", at |-> 1]
          /\ UNCHANGED <<adoption, backend>>
       \/ /\ adoption.pc # "idle"
          /\ adoption' = Resting
          /\ UNCHANGED <<chain, backend>>
       \/ /\ backend.up
          /\ backend' = [backend EXCEPT !.up = FALSE]
          /\ UNCHANGED <<chain, adoption>>
    /\ UNCHANGED <<tables, owner, version, seq, access>>

ChainStep == RunStatement \/ Migrate \/ ReplaceBackend

AdoptionStep == CheckAdopted \/ VerifyShape \/ VerifyIds \/ Reassign \/ Stamp

LifecycleNext ==
    \/ StartChain \/ ChainStep
    \/ StartAdoption \/ AdoptionStep
    \/ ReplaceEarly \/ Boot \/ PlaceOrder \/ Interrupt

\* A program that has begun goes on, and operators start the chain and, while the
\* database has no version, the adoption again until they succeed.
LifecycleSpec ==
    /\ LifecycleInit /\ [][LifecycleNext]_lifecycleVars
    /\ WF_lifecycleVars(ChainStep)
    /\ WF_lifecycleVars(AdoptionStep)
    /\ WF_lifecycleVars(Boot)
    /\ WF_lifecycleVars(StartChain)
    /\ WF_lifecycleVars(version = 0 /\ StartAdoption)

-----------------------------------------------------------------------------

FitsRevision(v) == ShapeFits(tables, v)

(* alembic_version tells the truth: a database is stamped or migrated only   *)
(* if it has what the revision builds, whatever was interrupted and rerun    *)
(* (adopt_legacy_database, run_migrations_online).                           *)
VersionTellsSchema == version > 0 => FitsRevision(version)

(* A refused adoption changes nothing: tables of a database without version  *)
(* change hands only if it is the legacy one (adopt_legacy.py promises that  *)
(* its error is never raised after a mutation).                              *)
OnlyLegacyChangesHands ==
    (version = 0 /\ \E t \in Tables : owner[t] = "migration") =>
        Existing(tables) = LegacyNames /\ FitsRevision(1)

(* A database under Alembic never gives out an id that is taken: adoption    *)
(* refuses a sequence that is behind, though it reads the sequence and the   *)
(* ids one after the other while orders come in.                             *)
IdsStayFree == version > 0 => NextValue(seq) > seq.maxId

(* The next upgrade can always run: what it alters belongs to the migration  *)
(* role and what it creates is not there.                                    *)
UpgradeNeverBlocked == version > 0 => Applies

(* A backend of this release serves only on the full current schema, even if *)
(* it was started without the chain or on a database that was never stamped. *)
ServingMeansHead == (backend.up /\ backend.image = "new") => FitsRevision(Newest)

(* ... and on a database under Alembic it may read and write every table,     *)
(* before finalize has run as well as after: default privileges cover what   *)
(* the migrations created.  (On one that was never stamped the guard, which  *)
(* looks at shapes and not at rights, lets it serve before the grants.)      *)
ServingCanWrite ==
    (backend.up /\ backend.image = "new" /\ version > 0) =>
        Tables \subseteq access.crud \intersect access.draws

(* Every run of the chain that reaches the backend has taken alembic_version *)
(* away from the runtime role, whom default privileges gave it.              *)
FinalizeSeals ==
    [][(chain.link = "finalize" /\ chain'.link = "start")
          => VersionTable \notin access'.crud]_lifecycleVars

(* The revision never goes back, not even when an adoption that began early  *)
(* ends late.                                                                *)
VersionNeverFalls == [][version' >= version]_lifecycleVars

(* Rerunning converges: from an empty, a legacy or a managed database, with  *)
(* interruptions anywhere, a backend of this release serves in the end.      *)
Recoverable ==
    \/ version > 0
    \/ Existing(tables) = {}
    \/ Existing(tables) = LegacyNames /\ Fingerprint(seq)
RerunsConverge == Recoverable ~> (backend.up /\ backend.image = "new")
=============================================================================
