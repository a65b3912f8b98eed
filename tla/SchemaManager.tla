---------------------------- MODULE SchemaManager -----------------------------
(***************************************************************************)
(* infrastructure/schema_manager.py, in processes that share one database. *)
(*                                                                         *)
(* A statement may fail at any time: the connection breaks, the tables of  *)
(* another process get in the way (CREATE TABLE IF NOT EXISTS does raise   *)
(* when two run at once), or, in CockroachDB, the transaction cannot be    *)
(* serialized.  What is not committed, no other process sees, and it is    *)
(* gone when the connection is returned.                                   *)
(*                                                                         *)
(* The migrations a process has registered are a constant: tools register  *)
(* them at import, and two versions of the agent may register others.      *)
(***************************************************************************)
EXTENDS ConnectionPool, Integers

CONSTANTS
    Keys,        \* the keys of all migrations, numbered as they are sorted
    TableOf,     \* the table each one creates
    Registered,  \* the keys each process has registered
    RolledBack   \* the keys with a down_sql that someone may roll back

Tracking == "schema_migrations"
\* The tables of the migrations, and those that tools make themselves.
Tables == {Tracking, "resumes", "calculations"} \cup {TableOf[k] : k \in Keys}

ASSUME MigrationsAssumption ==
    /\ Keys \subseteq Nat /\ TableOf \in [Keys -> STRING]
    /\ \A k \in Keys : TableOf[k] # Tracking
    /\ \A k, l \in Keys : TableOf[k] = TableOf[l] => k = l
    /\ Registered \in [Processes -> SUBSET Keys] /\ RolledBack \subseteq Keys

VARIABLES
    tables,       \* the tables of the database
    records,      \* the keys in schema_migrations
    initialized,  \* the processes whose manager has _initialized set
    mig,          \* how far the call of initialize_schema of a process is
    undone,       \* history: keys rolled back or reset since it began
    crossed,      \* history: keys rolled back under an apply that found the table
    unverified,   \* history: keys whose verification failed in a process
    altered       \* history: tables renamed or written from outside (query_database)

schemaVars == <<tables, records, initialized, mig, undone, crossed, unverified, altered>>

NoMigration == [at |-> "idle", left |-> {}, applied |-> {}, made |-> FALSE]
MigrationSteps == {"idle", "tracking", "reading", "applying", "recording", "done"}

SchemaTypeOK ==
    /\ records \subseteq Keys /\ initialized \subseteq Processes
    /\ mig \in [Processes -> [at : MigrationSteps, left : SUBSET Keys,
                              applied : SUBSET Keys, made : BOOLEAN]]
    /\ tables \subseteq Tables
    /\ undone \in [Processes -> SUBSET Keys] /\ unverified \in [Processes -> SUBSET Keys]
    /\ crossed \subseteq Keys /\ altered \subseteq Tables

\* A database as it is before the first migration, or after all of them.
SchemaInit(migrated) ==
    /\ tables = IF migrated THEN {Tracking} \cup {TableOf[k] : k \in Keys} ELSE {}
    /\ records = IF migrated THEN Keys ELSE {}
    /\ initialized = {} /\ crossed = {} /\ altered = {}
    /\ mig = [p \in Processes |-> NoMigration]
    /\ undone = [p \in Processes |-> {}] /\ unverified = [p \in Processes |-> {}]

-----------------------------------------------------------------------------
(* initialize_schema.                                                      *)

Migrating(p) == mig[p].at # "idle"
Set(p, changes) == mig' = [mig EXCEPT ![p] = changes]

\* The keys of the loop that are at a step: the next one, or none.
AtKey(p, step) ==
    {k \in mig[p].left : mig[p].at = step /\ \A l \in mig[p].left : k <= l}

\* The short cut of a manager that is initialized, or the first statement.
Initialize(p) ==
    /\ ~Migrating(p)
    /\ IF p \in initialized
       THEN /\ Set(p, [mig[p] EXCEPT !.at = "done"])
            /\ UNCHANGED <<undone, unverified>>
       ELSE /\ Set(p, [mig[p] EXCEPT !.at = "tracking"])
            /\ undone' = [undone EXCEPT ![p] = {}]
            /\ unverified' = [unverified EXCEPT ![p] = {}]
    /\ UNCHANGED <<tables, records, initialized, crossed, altered>>

\* Mutant of GiveUp: a migration that fails is logged and not raised.
GoOn(p) == \E k \in AtKey(p, "recording") :
    /\ Set(p, [mig[p] EXCEPT !.at = "applying", !.left = @ \ {k}, !.made = FALSE])
    /\ UNCHANGED <<tables, records, initialized, undone, crossed, unverified, altered>>

\* An exception: initialize_schema returns False.
GiveUp(p) ==
    /\ \/ mig[p].at \in {"tracking", "reading", "recording"}
       \/ AtKey(p, "applying") \ mig[p].applied # {}
    /\ Set(p, [NoMigration EXCEPT !.at = "done"])
    /\ UNCHANGED <<tables, records, initialized, undone, crossed, unverified, altered>>

CreateTracking(p) ==
    /\ mig[p].at = "tracking"
    /\ tables' = tables \cup {Tracking}
    /\ Set(p, [mig[p] EXCEPT !.at = "reading"])
    /\ UNCHANGED <<records, initialized, undone, crossed, unverified, altered>>

\* The applied keys are read once, for the whole loop.
ReadApplied(p) ==
    /\ mig[p].at = "reading" /\ Tracking \in tables
    /\ Set(p, [at |-> "applying", applied |-> records, left |-> Registered[p], made |-> FALSE])
    /\ UNCHANGED <<tables, records, initialized, undone, crossed, unverified, altered>>

\* up_sql: CREATE TABLE IF NOT EXISTS, not yet committed.
ApplyUp(p) == \E k \in AtKey(p, "applying") \ mig[p].applied :
    /\ Set(p, [mig[p] EXCEPT !.at = "recording", !.made = TableOf[k] \notin tables])
    /\ UNCHANGED <<tables, records, initialized, undone, crossed, unverified, altered>>

\* The record and the commit.  The key is UNIQUE, and the table cannot be made
\* by two: either conflict raises (GiveUp).
RecordApplied(p) == \E k \in AtKey(p, "recording") :
    /\ k \notin records /\ Tracking \in tables
    /\ mig[p].made => TableOf[k] \notin tables
    /\ records' = records \cup {k}
    /\ tables' = IF mig[p].made THEN tables \cup {TableOf[k]} ELSE tables
    /\ crossed' = IF mig[p].made THEN crossed \ {k} ELSE crossed
    /\ Set(p, [mig[p] EXCEPT !.at = "applying", !.left = @ \ {k}, !.made = FALSE])
    /\ UNCHANGED <<initialized, undone, unverified, altered>>

\* A recorded migration is verified: its table is made again if it is missing.
Verify(p) == \E k \in AtKey(p, "applying") \cap mig[p].applied :
    /\ tables' = tables \cup {TableOf[k]}
    /\ crossed' = crossed \ {k}
    /\ Set(p, [mig[p] EXCEPT !.left = @ \ {k}])
    /\ UNCHANGED <<records, initialized, undone, unverified, altered>>

\* An error in the verification is logged, and the loop goes on.
VerifyFails(p) == \E k \in AtKey(p, "applying") \cap mig[p].applied :
    /\ unverified' = [unverified EXCEPT ![p] = @ \cup {k}]
    /\ Set(p, [mig[p] EXCEPT !.left = @ \ {k}])
    /\ UNCHANGED <<tables, records, initialized, undone, crossed, altered>>

Initialized(p) ==
    /\ mig[p].at = "applying" /\ mig[p].left = {}
    /\ initialized' = initialized \cup {p}
    /\ Set(p, [NoMigration EXCEPT !.at = "done"])
    /\ UNCHANGED <<tables, records, undone, crossed, unverified, altered>>

MigrationStep(p) ==
    \/ GiveUp(p) \/ CreateTracking(p) \/ ReadApplied(p) \/ ApplyUp(p) \/ RecordApplied(p)
    \/ Verify(p) \/ VerifyFails(p) \/ Initialized(p)

EndMigration(p) ==
    /\ mig[p].at = "done" /\ Set(p, NoMigration)
    /\ UNCHANGED <<tables, records, initialized, undone, crossed, unverified, altered>>

-----------------------------------------------------------------------------
(* rollback_migration and reset_migration: one commit, or nothing.         *)

Undo(k) == undone' = [p \in Processes |-> undone[p] \cup {k}]

RollbackMigration(p, k) ==
    /\ k \in Registered[p] \cap RolledBack /\ Tracking \in tables
    /\ tables' = tables \ {TableOf[k]}
    /\ records' = records \ {k}
    /\ Undo(k)
    /\ crossed' = IF \E q \in Processes : k \in AtKey(q, "recording") /\ ~mig[q].made
                  THEN crossed \cup {k} ELSE crossed
    /\ UNCHANGED <<initialized, mig, unverified, altered>>

ResetMigration(k) ==
    /\ Tracking \in tables
    /\ records' = records \ {k}
    /\ Undo(k)
    /\ UNCHANGED <<tables, initialized, mig, crossed, unverified, altered>>

\* A process ends: the manager is a new one in the next, the database stays.
ForgetMigrations(p) ==
    /\ Set(p, NoMigration)
    /\ initialized' = initialized \ {p}
    /\ UNCHANGED <<tables, records, undone, crossed, unverified, altered>>

-----------------------------------------------------------------------------
\* A recorded migration has its table, unless it was rolled back under another
\* process that had found the table and went on to record it; and when
\* initialize_schema has returned True, every registered migration that nobody
\* has undone since is recorded and, unless its verification failed, has its
\* table, however many processes initialize, fail and crash: all but the tables
\* that a statement of query_database has renamed or written.
SchemaSound ==
    /\ \A k \in records :
        TableOf[k] \in tables \/ k \in crossed \/ {TableOf[k], Tracking} \cap altered # {}
    /\ \A p \in initialized : \A k \in Registered[p] \ undone[p] :
        /\ k \in records \/ Tracking \in altered
        /\ TableOf[k] \in tables \/ k \in unverified[p] \/ TableOf[k] \in altered

=============================================================================
