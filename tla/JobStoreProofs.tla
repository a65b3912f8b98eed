---------------------------- MODULE JobStoreProofs ----------------------------
(***************************************************************************)
(* Theorems about JobStore, for any processes, connections, migrations,    *)
(* applications, jobs and crashes.                                         *)
(*                                                                         *)
(* A step of JobStore is a step of the pool, of the schema manager and of  *)
(* a tool at most, so each property is proved of its own component's steps *)
(* (PoolSteps, SchemaSteps, ToolSteps).                                    *)
(***************************************************************************)
EXTENDS JobStore, FiniteSetTheorems, TLAPS

-----------------------------------------------------------------------------
(* What a step of JobStore does to each component.                         *)

PoolStep(p) ==
    \/ StartProcess(p) \/ StopProcess(p) \/ TestConnection(p) \/ ClosePool(p)
    \/ \E c \in CallIds : Borrow(p, c) \/ GiveBack(p, c) \/ LoseSlot(p, c)

\* A tool makes its table.
MakeTable ==
    /\ \E t \in {"resumes", "calculations"} : tables' = tables \cup {t}
    /\ UNCHANGED <<records, initialized, mig, undone, crossed, unverified, altered>>

SchemaStep(p) ==
    \/ Initialize(p) \/ MigrationStep(p) \/ EndMigration(p) \/ ForgetMigrations(p) \/ MakeTable
    \/ QueryTables(p)
    \/ \E k \in Keys : RollbackMigration(p, k) \/ ResetMigration(k)

CallStep(p) ==
    \/ ToolStep(p) \/ QueryTables(p) \/ CommitSave(p) \/ EndCall(p) \/ ForgetCall(p)
    \/ \E op \in Ops : \E a \in Ids \cup {0} :
        (op \in {"send", "delete"} => a \in Ids) /\ StartCall(p, op, a)

\* Every step of the specification is a step of the connection pool, or leaves it.
LEMMA PoolSteps == [Next]_vars => UNCHANGED poolVars \/ \E p \in Processes : PoolStep(p)
<1> SUFFICES ASSUME [Next]_vars PROVE UNCHANGED poolVars \/ \E p \in Processes : PoolStep(p)
  OBVIOUS
<1>1. CASE UNCHANGED vars
  BY <1>1 DEF vars
<1>2. CASE \E p \in Processes : Start(p) \/ Crash(p)
  BY <1>2 DEF PoolStep, Start, Crash
<1>3. CASE \E p \in Processes : Ask(p)
  <2> PICK p \in Processes : Ask(p)
    BY <1>3
  <2>1. CASE \E op \in Ops : \E a \in Ids \cup {0} : CallTool(p, op, a)
    BY <2>1, ApplicationsAssumption DEF PoolStep, CallTool
  <2>2. CASE CallInitialize(p) \/ Test(p) \/ Close(p) \/ \E c \in CallIds : CallSlow(p, c)
    BY <2>2, ApplicationsAssumption DEF PoolStep, CallInitialize, Test, Close, CallSlow
  <2>3. CASE \E k \in Keys : Rollback(p, k) \/ Reset(p, k)
    BY <2>3 DEF Rollback, Reset
  <2> QED
    BY <2>1, <2>2, <2>3 DEF Ask, Ops
<1>4. CASE \E p \in Processes : Work(p)
  BY <1>4, ApplicationsAssumption
     DEF PoolStep, Work, UseTool, LeaveTool, Migrate, LeaveMigration, EndSlow, poolVars
<1> QED
  BY <1>1, <1>2, <1>3, <1>4 DEF Next

\* Every step of the specification is a step of the schema manager, or leaves it.
LEMMA SchemaSteps == [Next]_vars => UNCHANGED schemaVars \/ \E p \in Processes : SchemaStep(p)
<1> SUFFICES ASSUME [Next]_vars PROVE UNCHANGED schemaVars \/ \E p \in Processes : SchemaStep(p)
  OBVIOUS
<1>1. CASE UNCHANGED vars
  BY <1>1 DEF vars
<1>2. CASE \E p \in Processes : Start(p) \/ Crash(p)
  BY <1>2 DEF SchemaStep, Start, Crash
<1>3. CASE \E p \in Processes : Ask(p)
  BY <1>3 DEF SchemaStep, Ask, CallTool, CallInitialize, Test, Close, CallSlow, Rollback, Reset
<1>4. CASE \E p \in Processes : Work(p)
  <2> PICK p \in Processes : Work(p)
    BY <1>4
  <2>1. CASE UseTool(p)
    BY <2>1 DEF SchemaStep, UseTool, CommitSave, MakeTable, TableFor
  <2>2. CASE LeaveTool(p) \/ Migrate(p) \/ LeaveMigration(p) \/ \E c \in CallIds : EndSlow(p, c)
    BY <2>2 DEF SchemaStep, LeaveTool, Migrate, LeaveMigration, EndSlow
  <2> QED
    BY <2>1, <2>2 DEF Work
<1> QED
  BY <1>1, <1>2, <1>3, <1>4 DEF Next

\* But for a rollback, a table that goes is one that a query has renamed.
Keeps == tables \subseteq tables' \cup altered' /\ altered \subseteq altered'

\* Every step of the specification is a step of a tool call, drops the rows of a
\* table that is rolled back, or leaves the applications.
LEMMA ToolSteps ==
    [Next]_vars =>
        \/ Keeps /\ (UNCHANGED toolVars \/ \E p \in Processes : CallStep(p))
        \/ \E p \in Processes : \E k \in Keys : RollbackMigration(p, k) /\ ForgetRows(TableOf[k])
<1> USE DEF Keeps
<1> DEFINE G == \/ Keeps /\ (UNCHANGED toolVars \/ \E p \in Processes : CallStep(p))
                \/ \E p \in Processes : \E k \in Keys :
                    RollbackMigration(p, k) /\ ForgetRows(TableOf[k])
<1> SUFFICES ASSUME [Next]_vars PROVE G
  OBVIOUS
<1>1. CASE UNCHANGED vars
  BY <1>1 DEF vars, schemaVars
<1>2. CASE \E p \in Processes : Start(p) \/ Crash(p)
  BY <1>2 DEF CallStep, Start, Crash, schemaVars, ForgetMigrations
<1>3. CASE \E p \in Processes : Ask(p)
  <2> PICK p \in Processes : Ask(p)
    BY <1>3
  <2>1. CASE \E op \in Ops : \E a \in Ids \cup {0} :
                (op \in {"send", "delete"} => a \in Ids) /\ CallTool(p, op, a)
    BY <2>1 DEF CallStep, CallTool, schemaVars
  <2>2. CASE CallInitialize(p) \/ Test(p) \/ Close(p) \/ \E c \in CallIds : CallSlow(p, c)
    BY <2>2 DEF CallInitialize, Test, Close, CallSlow, schemaVars, Initialize
  <2>3. CASE \E k \in Keys : Rollback(p, k) \/ Reset(p, k)
    BY <2>3 DEF Rollback, Reset, ResetMigration
  <2> QED
    BY <2>1, <2>2, <2>3 DEF Ask, Ops
<1>4. CASE \E p \in Processes : Work(p)
  <2> PICK p \in Processes : Work(p)
    BY <1>4
  <2>1. CASE UseTool(p)
    BY <2>1 DEF CallStep, UseTool, QueryTables, CreateTable, RenameTable, WriteTable, CommitSave,
                schemaVars
  <2>2. CASE Migrate(p)
    BY <2>2 DEF Migrate, MigrationStep, GiveUp, CreateTracking, ReadApplied, ApplyUp,
                RecordApplied, Verify, VerifyFails, Initialized
  <2>3. CASE LeaveTool(p) \/ LeaveMigration(p) \/ \E c \in CallIds : EndSlow(p, c)
    BY <2>3 DEF CallStep, LeaveTool, LeaveMigration, EndMigration, EndSlow, schemaVars
  <2> QED
    BY <2>1, <2>2, <2>3 DEF Work
<1> QED
  BY <1>1, <1>2, <1>3, <1>4 DEF Next

-----------------------------------------------------------------------------
(* The connections.                                                        *)

\* The inductive invariant of the pool: what is out is what open calls hold, and a
\* process that does not run has neither, nor lost any.
PoolInv ==
    /\ PoolTypeOK
    /\ ConnectionsConserved
    /\ \A p \in Processes \ up : used[p] = {} /\ lost[p] = {} /\ conn[p] = NoCalls

\* One step of the pool of one process keeps its invariant.
LEMMA PoolKept == ASSUME PoolInv, NEW p \in Processes, PoolStep(p) PROVE PoolInv'
<1> USE DEF PoolInv, PoolTypeOK, ConnectionsConserved, NoCalls
<1>1. CASE StartProcess(p)
  BY <1>1, ConnsAssumption DEF StartProcess
<1>2. CASE StopProcess(p)
  BY <1>2 DEF StopProcess
<1>3. CASE TestConnection(p)
  <2>1. p \in up /\ used \in [Processes -> SUBSET Conns] /\ lost \in [Processes -> SUBSET Conns]
    BY <1>3 DEF TestConnection
  <2>2. CASE UNCHANGED <<used, lost>>
    BY <1>3, <2>2 DEF TestConnection
  <2>3. CASE \E k \in Conns \ used[p] : /\ used' = [used EXCEPT ![p] = @ \cup {k}]
                                       /\ lost' = [lost EXCEPT ![p] = @ \cup {k}]
    <3> PICK k \in Conns \ used[p] : /\ used' = [used EXCEPT ![p] = @ \cup {k}]
                                     /\ lost' = [lost EXCEPT ![p] = @ \cup {k}]
      BY <2>3
    <3>1. used'[p] = used[p] \cup {k} /\ lost'[p] = lost[p] \cup {k}
      BY <2>1
    <3>2. \A q \in Processes \ {p} : used'[q] = used[q] /\ lost'[q] = lost[q]
      OBVIOUS
    <3>3. PoolTypeOK'
      <4>1. UNCHANGED <<up, pool, conn>> /\ available' \subseteq Processes
        BY <1>3 DEF TestConnection
      <4>2. used' \in [Processes -> SUBSET Conns] /\ lost' \in [Processes -> SUBSET Conns]
        BY <2>1
      <4> QED
        BY <4>1, <4>2
    <3>4. ConnectionsConserved'
      BY <1>3, <2>1, <3>1, <3>2 DEF TestConnection
    <3> QED
      BY <1>3, <2>1, <3>2, <3>3, <3>4 DEF TestConnection
  <2> QED
    BY <1>3, <2>2, <2>3 DEF TestConnection
<1>4. CASE ClosePool(p)
  BY <1>4 DEF ClosePool
<1>5. ASSUME NEW c \in CallIds, Borrow(p, c) PROVE PoolInv'
  <2>1. CASE Lend(p, c)
    BY <1>5, <2>1, ConnsAssumption DEF Borrow, Lend, IsOpen
  <2>2. CASE Refuse(p, c)
    BY <1>5, <2>2, ConnsAssumption DEF Borrow, Refuse, IsOpen
  <2> QED
    BY <1>5, <2>1, <2>2 DEF Borrow
<1>6. ASSUME NEW c \in CallIds, GiveBack(p, c) PROVE PoolInv'
  BY <1>6, ConnsAssumption DEF GiveBack, IsOpen
<1>7. ASSUME NEW c \in CallIds, LoseSlot(p, c) PROVE PoolInv'
  BY <1>7, ConnsAssumption DEF LoseSlot, IsOpen
<1> QED
  BY <1>1, <1>2, <1>3, <1>4, <1>5, <1>6, <1>7 DEF PoolStep

\* The pool's invariant holds in every reachable state.
LEMMA PoolHolds == Spec => []PoolInv
<1>1. Init => PoolInv
  BY ConnsAssumption
     DEF Init, PoolInit, PoolInv, PoolTypeOK, ConnectionsConserved, NoCalls
<1>2. PoolInv /\ [Next]_vars => PoolInv'
  BY PoolSteps, PoolKept DEF poolVars, PoolInv, PoolTypeOK, ConnectionsConserved, NoCalls
<1> QED
  BY <1>1, <1>2, PTL DEF Spec

\* But for those whose return failed, no connection leaks, and none is held twice,
\* whatever pools, calls and crashes there are (db_pool.py, tool_executor.py).
THEOREM ConnectionConservation == Spec => []ConnectionsConserved
  BY PoolHolds, PTL DEF PoolInv

-----------------------------------------------------------------------------
(* The migrations.                                                         *)

\* What a migration under way has established: the keys behind it are recorded and
\* have their tables, those it has read as applied are recorded, all but what was
\* undone since and for tables that a query altered, and a table it found is there or
\* was dropped under it.
Progress(p) ==
    /\ mig[p].left \subseteq Registered[p]
    /\ \A k \in (Registered[p] \ mig[p].left) \ undone[p] :
        /\ k \in records \/ Tracking \in altered
        /\ TableOf[k] \in tables \/ k \in unverified[p] \/ TableOf[k] \in altered
    /\ \A k \in mig[p].applied \ undone[p] : k \in records \/ Tracking \in altered
    /\ ~mig[p].made => \A k \in AtKey(p, "recording") :
        TableOf[k] \in tables \cup altered \/ (k \in crossed /\ k \in undone[p])

SchemaInv ==
    /\ SchemaTypeOK
    /\ SchemaSound
    /\ \A p \in Processes :
        IF mig[p].at \in {"applying", "recording"} THEN Progress(p) ELSE mig[p].left = {}

MigStates == [at : MigrationSteps, left : SUBSET Keys, applied : SUBSET Keys, made : BOOLEAN]

\* What an update of the state of a migration is.
LEMMA StateTyped ==
  ASSUME NEW m \in MigStates, NEW s \in MigrationSteps, NEW K, NEW b \in BOOLEAN
  PROVE  /\ [m EXCEPT !.at = s] \in MigStates
         /\ [m EXCEPT !.left = @ \ K] \in MigStates
         /\ [m EXCEPT !.at = s, !.made = b] \in MigStates
         /\ [m EXCEPT !.at = s, !.left = @ \ K, !.made = b] \in MigStates
  BY DEF MigStates

LEMMA NoMigrationTyped ==
  NoMigration \in MigStates /\ [NoMigration EXCEPT !.at = "done"] \in MigStates
  BY DEF MigStates, MigrationSteps, NoMigration

\* A step that sets the state of one migration leaves the others.
LEMMA SetTyped ==
  ASSUME SchemaTypeOK, NEW p \in Processes, NEW m \in MigStates, Set(p, m)
  PROVE  /\ mig' \in [Processes -> MigStates] /\ mig'[p] = m
         /\ \A q \in Processes \ {p} : mig'[q] = mig[q]
  BY DEF SchemaTypeOK, MigStates, Set

\* The types of the schema manager hold after each of its steps.
LEMMA SchemaTypesKept ==
  ASSUME SchemaTypeOK, NEW p \in Processes, SchemaStep(p) PROVE SchemaTypeOK'
<1>0. mig[p] \in MigStates
  BY DEF SchemaTypeOK, MigStates
<1> DEFINE Rest == /\ records' \subseteq Keys /\ initialized' \subseteq Processes
                   /\ tables' \subseteq Tables /\ crossed' \subseteq Keys
                   /\ altered' \subseteq Tables
                   /\ undone' \in [Processes -> SUBSET Keys]
                   /\ unverified' \in [Processes -> SUBSET Keys]
<1>1. SUFFICES mig' \in [Processes -> MigStates] /\ Rest
  BY DEF SchemaTypeOK, MigStates
<1>2. CASE Initialize(p)
  <2>1. {"tracking", "done"} \subseteq MigrationSteps
    BY DEF MigrationSteps
  <2> QED
    BY <1>0, <1>2, <2>1, StateTyped, SetTyped DEF Initialize, SchemaTypeOK
<1>3. CASE GiveUp(p) \/ EndMigration(p) \/ ForgetMigrations(p)
  BY <1>3, NoMigrationTyped, SetTyped
     DEF GiveUp, EndMigration, ForgetMigrations, SchemaTypeOK
<1>4. CASE CreateTracking(p)
  BY <1>0, <1>4, StateTyped, SetTyped DEF CreateTracking, SchemaTypeOK, MigrationSteps, Tables
<1>5. CASE ReadApplied(p)
  <2>1. [at |-> "applying", applied |-> records, left |-> Registered[p], made |-> FALSE] \in MigStates
    BY MigrationsAssumption DEF MigStates, SchemaTypeOK, MigrationSteps
  <2> QED
    BY <1>5, <2>1, SetTyped DEF ReadApplied, SchemaTypeOK
<1>6. CASE ApplyUp(p)
  BY <1>0, <1>6, StateTyped, SetTyped DEF ApplyUp, SchemaTypeOK, MigrationSteps
<1>7. CASE RecordApplied(p)
  <2>1. PICK k \in AtKey(p, "recording") :
            /\ Set(p, [mig[p] EXCEPT !.at = "applying", !.left = @ \ {k}, !.made = FALSE])
            /\ records' = records \cup {k}
    BY <1>7 DEF RecordApplied
  <2>2. mig' \in [Processes -> MigStates]
    BY <1>0, <2>1, StateTyped, SetTyped DEF MigrationSteps
  <2>3. Rest
    BY <1>7, <2>1 DEF RecordApplied, AtKey, SchemaTypeOK, Tables
  <2> QED
    BY <2>2, <2>3
<1>8. CASE Verify(p)
  <2>1. PICK k \in AtKey(p, "applying") \cap mig[p].applied :
            Set(p, [mig[p] EXCEPT !.left = @ \ {k}])
    BY <1>8 DEF Verify
  <2>2. mig' \in [Processes -> MigStates]
    BY <1>0, <2>1, StateTyped, SetTyped, "idle" \in MigrationSteps DEF MigrationSteps
  <2>3. Rest
    BY <1>8, <2>1 DEF Verify, AtKey, SchemaTypeOK, Tables
  <2> QED
    BY <2>2, <2>3
<1>9. CASE VerifyFails(p)
  <2>1. PICK k \in AtKey(p, "applying") \cap mig[p].applied :
            Set(p, [mig[p] EXCEPT !.left = @ \ {k}])
    BY <1>9 DEF VerifyFails
  <2>2. mig' \in [Processes -> MigStates]
    BY <1>0, <2>1, StateTyped, SetTyped, "idle" \in MigrationSteps DEF MigrationSteps
  <2>3. Rest
    BY <1>9, <2>1 DEF VerifyFails, AtKey, SchemaTypeOK
  <2> QED
    BY <2>2, <2>3
<1>10. CASE Initialized(p)
  BY <1>10, NoMigrationTyped, SetTyped DEF Initialized, SchemaTypeOK
<1>11. CASE MakeTable
  BY <1>11 DEF MakeTable, SchemaTypeOK, MigStates, Tables
<1>12. ASSUME NEW k \in Keys, RollbackMigration(p, k) \/ ResetMigration(k)
       PROVE  mig' \in [Processes -> MigStates] /\ Rest
  BY <1>12 DEF RollbackMigration, ResetMigration, Undo, SchemaTypeOK, MigStates
<1>13. CASE QueryTables(p)
  BY <1>13 DEF QueryTables, CreateTable, RenameTable, WriteTable, SchemaTypeOK, MigStates
<1> QED
  BY <1>2, <1>3, <1>4, <1>5, <1>6, <1>7, <1>8, <1>9, <1>10, <1>11, <1>12, <1>13
     DEF SchemaStep, MigrationStep

\* What a step of one migration leaves to another: its state, and every fact it
\* rests on.
LEMMA ProgressKept ==
  ASSUME NEW q \in Processes, Progress(q), mig'[q] = mig[q],
         records \subseteq records' \/ Tracking \in altered',
         tables \subseteq tables' \cup altered', altered \subseteq altered',
         crossed \subseteq crossed' \/ (\A k \in crossed \ crossed' : TableOf[k] \in tables'),
         undone'[q] = undone[q], unverified[q] \subseteq unverified'[q]
  PROVE  Progress(q)'
  BY DEF Progress, AtKey

\* One step of the schema manager of one process keeps the invariant of all.
LEMMA SchemaKept ==
  ASSUME SchemaInv, NEW p \in Processes, SchemaStep(p) PROVE SchemaInv'
<1>0. SchemaTypeOK /\ SchemaTypeOK' /\ mig[p] \in MigStates
  BY SchemaTypesKept DEF SchemaInv, SchemaTypeOK, MigStates
<1> DEFINE Inside(q) == mig[q].at \in {"applying", "recording"}
           Fine(q) == IF Inside(q) THEN Progress(q) ELSE mig[q].left = {}
<1>1. SUFFICES SchemaSound' /\ \A q \in Processes : Fine(q)'
  BY <1>0 DEF SchemaInv
<1>2. SchemaSound /\ \A q \in Processes : Fine(q)
  BY DEF SchemaInv
<1> HIDE DEF Inside, Fine
<1>3. CASE Initialize(p)
  <2>1. PICK m \in MigStates : Set(p, m) /\ m.at \in {"tracking", "done"} /\ m.left = {}
    <3>1. mig[p].left = {} /\ mig[p].at = "idle"
      BY <1>2, <1>3 DEF Initialize, Migrating, Fine, Inside
    <3> QED
      <4>1. \A s \in MigrationSteps : LET m == [mig[p] EXCEPT !.at = s] IN
              m \in MigStates /\ m.at = s /\ m.left = {}
        BY <1>0, <3>1 DEF MigStates
      <4> QED
        BY <1>3, <4>1 DEF Initialize, MigrationSteps
  <2>2. Fine(p)'
    BY <1>0, <2>1, SetTyped DEF Fine, Inside
  <2>3. ASSUME NEW q \in Processes \ {p} PROVE Fine(q)'
    <3>1. mig'[q] = mig[q] /\ undone'[q] = undone[q] /\ unverified'[q] = unverified[q]
      BY <1>0, <1>3, <2>1, SetTyped DEF Initialize, SchemaTypeOK
    <3> QED
      BY <1>2, <1>3, <3>1, ProgressKept DEF Initialize, Fine, Inside
  <2>4. SchemaSound'
    BY <1>0, <1>2, <1>3 DEF SchemaSound, Initialize, SchemaTypeOK
  <2> QED
    BY <2>2, <2>3, <2>4
<1>4. CASE GiveUp(p) \/ EndMigration(p) \/ ForgetMigrations(p)
  <2>1. PICK m \in MigStates : Set(p, m) /\ m.at \in {"idle", "done"} /\ m.left = {}
    BY <1>4, NoMigrationTyped DEF GiveUp, EndMigration, ForgetMigrations, NoMigration, MigStates
  <2>2. Fine(p)'
    BY <1>0, <2>1, SetTyped DEF Fine, Inside
  <2>3. ASSUME NEW q \in Processes \ {p} PROVE Fine(q)'
    <3>1. mig'[q] = mig[q]
      BY <1>0, <2>1, SetTyped
    <3> QED
      BY <1>2, <1>4, <3>1, ProgressKept DEF GiveUp, EndMigration, ForgetMigrations, Fine, Inside
  <2>4. SchemaSound'
    BY <1>2, <1>4 DEF SchemaSound, GiveUp, EndMigration, ForgetMigrations
  <2> QED
    BY <2>2, <2>3, <2>4
<1>5. CASE CreateTracking(p)
  <2>1. mig[p].left = {}
    BY <1>2, <1>5 DEF CreateTracking, Fine, Inside
  <2>2. PICK m \in MigStates : Set(p, m) /\ m.at = "reading" /\ m.left = {}
    <3> DEFINE m == [mig[p] EXCEPT !.at = "reading"]
    <3>1. m \in MigStates
      BY <1>0, StateTyped DEF MigrationSteps
    <3>2. m.at = "reading" /\ m.left = {}
      BY <1>0, <2>1 DEF MigStates
    <3> QED
      BY <1>5, <3>1, <3>2 DEF CreateTracking
  <2>3. Fine(p)'
    BY <1>0, <2>2, SetTyped DEF Fine, Inside
  <2>4. ASSUME NEW q \in Processes \ {p} PROVE Fine(q)'
    <3>1. mig'[q] = mig[q]
      BY <1>0, <2>2, SetTyped
    <3> QED
      BY <1>2, <1>5, <3>1, ProgressKept DEF CreateTracking, Fine, Inside
  <2>5. SchemaSound'
    BY <1>2, <1>5 DEF SchemaSound, CreateTracking
  <2> QED
    BY <2>3, <2>4, <2>5
<1>6. CASE ReadApplied(p)
  <2> DEFINE m == [at |-> "applying", applied |-> records, left |-> Registered[p], made |-> FALSE]
  <2>1. m \in MigStates /\ Set(p, m)
    BY <1>0, <1>6, MigrationsAssumption DEF ReadApplied, MigStates, SchemaTypeOK, MigrationSteps
  <2>2. Fine(p)'
    BY <1>0, <1>6, <2>1, SetTyped DEF ReadApplied, Fine, Inside, Progress, AtKey
  <2>3. ASSUME NEW q \in Processes \ {p} PROVE Fine(q)'
    <3>1. mig'[q] = mig[q]
      BY <1>0, <2>1, SetTyped
    <3> QED
      BY <1>2, <1>6, <3>1, ProgressKept DEF ReadApplied, Fine, Inside
  <2>4. SchemaSound'
    BY <1>2, <1>6 DEF SchemaSound, ReadApplied
  <2> QED
    BY <2>2, <2>3, <2>4
<1>7. CASE ApplyUp(p)
  <2>1. PICK k \in AtKey(p, "applying") :
            Set(p, [mig[p] EXCEPT !.at = "recording", !.made = TableOf[k] \notin tables])
    BY <1>7 DEF ApplyUp
  <2> DEFINE m == [mig[p] EXCEPT !.at = "recording", !.made = TableOf[k] \notin tables]
  <2>2. m \in MigStates /\ m.at = "recording" /\ m.left = mig[p].left /\ m.applied = mig[p].applied
    <3>1. m \in MigStates
      BY <1>0, StateTyped DEF MigrationSteps
    <3>2. m.at = "recording" /\ m.left = mig[p].left /\ m.applied = mig[p].applied
      BY <1>0 DEF MigStates
    <3> QED
      BY <3>1, <3>2
  <2>3. mig'[p] = m /\ ~m.made => TableOf[k] \in tables
    BY <1>0, <2>1, <2>2, SetTyped DEF MigStates
  <2>4. Fine(p)'
    <3>1. Progress(p) /\ mig'[p] = m
      BY <1>0, <1>2, <2>1, <2>2, SetTyped DEF AtKey, Fine, Inside
    <3>2. \A l \in AtKey(p, "recording")' : l = k
      BY <1>0, <2>1, <2>2, <3>1, MigrationsAssumption DEF AtKey, MigStates
    <3> QED
      BY <1>7, <2>2, <2>3, <3>1, <3>2 DEF ApplyUp, Fine, Inside, Progress
  <2>5. ASSUME NEW q \in Processes \ {p} PROVE Fine(q)'
    <3>1. mig'[q] = mig[q]
      BY <1>0, <2>1, <2>2, SetTyped
    <3> QED
      BY <1>2, <1>7, <3>1, ProgressKept DEF ApplyUp, Fine, Inside
  <2>6. SchemaSound'
    BY <1>2, <1>7 DEF SchemaSound, ApplyUp
  <2> QED
    BY <2>4, <2>5, <2>6
<1>8. CASE RecordApplied(p)
  <2>1. PICK k \in AtKey(p, "recording") :
            /\ Set(p, [mig[p] EXCEPT !.at = "applying", !.left = @ \ {k}, !.made = FALSE])
            /\ records' = records \cup {k}
            /\ tables' = IF mig[p].made THEN tables \cup {TableOf[k]} ELSE tables
            /\ crossed' = IF mig[p].made THEN crossed \ {k} ELSE crossed
            /\ UNCHANGED <<initialized, undone, unverified, altered>>
    BY <1>8 DEF RecordApplied
  <2> DEFINE m == [mig[p] EXCEPT !.at = "applying", !.left = @ \ {k}, !.made = FALSE]
  <2>2. /\ m \in MigStates /\ m.at = "applying" /\ m.left = mig[p].left \ {k}
        /\ m.applied = mig[p].applied
    <3>1. m \in MigStates
      BY <1>0, StateTyped DEF MigrationSteps
    <3>2. m.at = "applying" /\ m.left = mig[p].left \ {k} /\ m.applied = mig[p].applied
      BY <1>0 DEF MigStates
    <3> QED
      BY <3>1, <3>2
  <2>3. Progress(p) /\ mig'[p] = m
    BY <1>0, <1>2, <2>1, <2>2, SetTyped DEF AtKey, Fine, Inside
  <2>4. TableOf[k] \in tables' \cup altered \/ (k \in crossed' /\ k \in undone[p])
    BY <2>1, <2>3 DEF Progress
  <2>5. Fine(p)'
    <3>1. AtKey(p, "recording")' = {}
      BY <2>2, <2>3 DEF AtKey
    <3> QED
      BY <2>1, <2>2, <2>3, <2>4, <3>1 DEF Fine, Inside, Progress
  <2>6. ASSUME NEW q \in Processes \ {p} PROVE Fine(q)'
    <3>1. mig'[q] = mig[q]
      BY <1>0, <2>1, <2>2, SetTyped
    <3> QED
      BY <1>2, <2>1, <3>1, ProgressKept DEF Fine, Inside
  <2>7. SchemaSound'
    BY <1>2, <2>1, <2>4 DEF SchemaSound
  <2> QED
    BY <2>5, <2>6, <2>7
<1>9. CASE Verify(p) \/ VerifyFails(p)
  <2>1. PICK k \in AtKey(p, "applying") \cap mig[p].applied :
            /\ Set(p, [mig[p] EXCEPT !.left = @ \ {k}])
            /\ UNCHANGED <<records, initialized, undone, altered>>
            /\ \/ /\ tables' = tables \cup {TableOf[k]} /\ crossed' = crossed \ {k}
                  /\ unverified' = unverified
               \/ /\ unverified' = [unverified EXCEPT ![p] = @ \cup {k}]
                  /\ UNCHANGED <<tables, crossed>>
    BY <1>9 DEF Verify, VerifyFails
  <2> DEFINE m == [mig[p] EXCEPT !.left = @ \ {k}]
  <2>2. /\ m \in MigStates /\ m.at = "applying" /\ m.left = mig[p].left \ {k}
        /\ m.applied = mig[p].applied
    <3>1. m \in MigStates
      BY <1>0, StateTyped, "idle" \in MigrationSteps DEF MigrationSteps
    <3>2. m.at = mig[p].at /\ m.left = mig[p].left \ {k} /\ m.applied = mig[p].applied
      BY <1>0 DEF MigStates
    <3> QED
      BY <2>1, <3>1, <3>2 DEF AtKey
  <2>3. Progress(p) /\ mig'[p] = m
    BY <1>0, <1>2, <2>1, <2>2, SetTyped DEF AtKey, Fine, Inside
  <2>4. k \notin undone[p] => k \in records \/ Tracking \in altered
    BY <2>1, <2>3 DEF Progress
  <2>5. TableOf[k] \in tables' \/ k \in unverified'[p]
    BY <1>0, <2>1 DEF SchemaTypeOK
  <2>6. \A q \in Processes : unverified[q] \subseteq unverified'[q]
    BY <1>0, <2>1 DEF SchemaTypeOK
  <2>7. Fine(p)'
    <3>1. AtKey(p, "recording")' = {}
      BY <2>2, <2>3 DEF AtKey
    <3> QED
      BY <2>1, <2>2, <2>3, <2>4, <2>5, <2>6, <3>1 DEF Fine, Inside, Progress
  <2>8. ASSUME NEW q \in Processes \ {p} PROVE Fine(q)'
    <3>1. mig'[q] = mig[q]
      BY <1>0, <2>1, <2>2, SetTyped
    <3> QED
      BY <1>2, <2>1, <2>6, <3>1, ProgressKept DEF Fine, Inside
  <2>9. SchemaSound'
    BY <1>0, <1>2, <2>1, <2>6 DEF SchemaSound, SchemaTypeOK
  <2> QED
    BY <2>7, <2>8, <2>9
<1>10. CASE Initialized(p)
  <2>1. mig[p].left = {} /\ Progress(p)
    BY <1>2, <1>10 DEF Initialized, Fine, Inside
  <2>2. PICK m \in MigStates : Set(p, m) /\ m.at = "done" /\ m.left = {}
    BY <1>10, NoMigrationTyped DEF Initialized, NoMigration, MigStates
  <2>3. Fine(p)'
    BY <1>0, <2>2, SetTyped DEF Fine, Inside
  <2>4. ASSUME NEW q \in Processes \ {p} PROVE Fine(q)'
    <3>1. mig'[q] = mig[q]
      BY <1>0, <2>2, SetTyped
    <3> QED
      BY <1>2, <1>10, <3>1, ProgressKept DEF Initialized, Fine, Inside
  <2>5. SchemaSound'
    BY <1>2, <1>10, <2>1 DEF SchemaSound, Initialized, Progress
  <2> QED
    BY <2>3, <2>4, <2>5
<1>11. CASE MakeTable
  <2>1. ASSUME NEW q \in Processes PROVE Fine(q)'
    BY <1>2, <1>11, ProgressKept DEF MakeTable, Fine, Inside
  <2> QED
    BY <1>2, <1>11, <2>1 DEF MakeTable, SchemaSound
<1>12. ASSUME NEW k \in Keys, RollbackMigration(p, k) \/ ResetMigration(k)
       PROVE  SchemaSound' /\ \A q \in Processes : Fine(q)'
  <2>1. /\ mig' = mig /\ initialized' = initialized /\ unverified' = unverified
        /\ records' = records \ {k} /\ crossed \subseteq crossed' /\ altered' = altered
        /\ \A q \in Processes : undone'[q] = undone[q] \cup {k}
    BY <1>12 DEF RollbackMigration, ResetMigration, Undo
  <2>2. \A l \in Keys \ {k} : TableOf[l] \in tables => TableOf[l] \in tables'
    BY <1>12, MigrationsAssumption DEF RollbackMigration, ResetMigration
  <2>3. ASSUME NEW q \in Processes, Inside(q) PROVE Progress(q)'
    <3>1. Progress(q) /\ mig[q].left \subseteq Keys /\ mig[q].applied \subseteq Keys
      BY <1>0, <1>2, <2>3 DEF Fine, SchemaTypeOK
    <3>2. \A l \in (Registered[q] \ mig[q].left) \ undone'[q] :
              /\ l \in records' \/ Tracking \in altered
              /\ TableOf[l] \in tables' \/ l \in unverified'[q] \/ TableOf[l] \in altered
      BY <2>1, <2>2, <3>1, MigrationsAssumption DEF Progress
    <3>3. ASSUME ~mig[q].made, NEW l \in AtKey(q, "recording")
          PROVE  TableOf[l] \in tables' \cup altered \/ (l \in crossed' /\ l \in undone'[q])
      <4>1. TableOf[l] \in tables \cup altered \/ (l \in crossed /\ l \in undone[q])
        BY <3>1, <3>3 DEF Progress
      <4>2. CASE l = k
        BY <1>12, <2>1, <3>3, <4>1, <4>2 DEF RollbackMigration, ResetMigration
      <4>3. CASE l # k
        BY <2>1, <2>2, <3>1, <4>1, <4>3 DEF AtKey
      <4> QED
        BY <4>2, <4>3
    <3> QED
      BY <2>1, <3>1, <3>2, <3>3 DEF Progress, AtKey
  <2>4. SchemaSound'
    BY <1>0, <1>2, <2>1, <2>2, MigrationsAssumption DEF SchemaSound, SchemaTypeOK
  <2> QED
    BY <1>2, <2>1, <2>3, <2>4 DEF Fine, Inside
<1>13. CASE QueryTables(p)
  <2>1. /\ UNCHANGED <<initialized, mig, undone, crossed, unverified>>
        /\ altered \subseteq altered' /\ tables \subseteq tables' \cup altered'
        /\ records' = records \/ Tracking \in altered'
    BY <1>13 DEF QueryTables, CreateTable, RenameTable, WriteTable
  <2>2. ASSUME NEW q \in Processes PROVE Fine(q)'
    BY <1>2, <2>1, ProgressKept DEF Fine, Inside
  <2>3. SchemaSound'
    BY <1>2, <2>1 DEF SchemaSound
  <2> QED
    BY <2>2, <2>3
<1> QED
  BY <1>3, <1>4, <1>5, <1>6, <1>7, <1>8, <1>9, <1>10, <1>11, <1>12, <1>13
     DEF SchemaStep, MigrationStep

\* The invariant of the migrations holds in every reachable state.
LEMMA SchemaHolds == Spec => []SchemaInv
<1>1. Init => SchemaInv
  <2> SUFFICES ASSUME Init PROVE SchemaInv
    OBVIOUS
  <2>1. SchemaTypeOK
    BY NoMigrationTyped DEF Init, SchemaInit, SchemaTypeOK, MigStates, Tables
  <2>2. SchemaSound
    BY DEF Init, SchemaInit, SchemaSound
  <2>3. \A p \in Processes : mig[p].at = "idle" /\ mig[p].left = {}
    BY DEF Init, SchemaInit, NoMigration
  <2> QED
    BY <2>1, <2>2, <2>3 DEF SchemaInv
<1>2. SchemaInv /\ UNCHANGED schemaVars => SchemaInv'
  BY DEF SchemaInv, schemaVars, SchemaTypeOK, SchemaSound, Progress, AtKey
<1>3. SchemaInv /\ [Next]_vars => SchemaInv'
  BY <1>2, SchemaSteps, SchemaKept
<1> QED
  BY <1>1, <1>3, PTL DEF Spec

\* However many processes initialize, fail and crash, roll back and reset, what
\* initialize_schema has reported is so (schema_manager.py).
THEOREM SchemaSoundness == Spec => []SchemaSound
  BY SchemaHolds, PTL DEF SchemaInv

-----------------------------------------------------------------------------
(* The calls of the tools.                                                 *)

CallStates == [op : Ops \cup {"none"}, app : Ids \cup {0}, tries : 0..Attempts - 1,
               made : BOOLEAN, at : {"idle", "begun", "checked", "ready", "open", "done"}]

\* A call moves on.
LEMMA Moved ==
  ASSUME ToolsTypeOK, NEW p \in Processes, NEW s \in {"begun", "checked", "ready"}, MoveTo(p, s)
  PROVE  /\ call' \in [Processes -> CallStates]
         /\ call'[p].at = s /\ call'[p].op = call[p].op /\ call'[p].app = call[p].app
         /\ \A q \in Processes \ {p} : call'[q] = call[q]
<1>1. call[p] \in CallStates
  BY DEF ToolsTypeOK, CallStates
<1>2. [call[p] EXCEPT !.at = s] \in CallStates
  BY <1>1 DEF CallStates
<1>3. call' = [call EXCEPT ![p] = [call[p] EXCEPT !.at = s]]
  BY DEF MoveTo
<1>4. [call[p] EXCEPT !.at = s].at = s /\ [call[p] EXCEPT !.at = s].op = call[p].op
      /\ [call[p] EXCEPT !.at = s].app = call[p].app
  BY <1>1 DEF CallStates
<1> QED
  BY <1>2, <1>3, <1>4 DEF ToolsTypeOK, CallStates

\* A call moves on and its attempts, or what it has found, are set.
LEMMA MovedWith ==
  ASSUME ToolsTypeOK, NEW p \in Processes, NEW s \in {"begun", "checked", "ready"},
         NEW n \in 0..Attempts - 1, NEW b \in BOOLEAN,
         \/ call' = [call EXCEPT ![p].at = s, ![p].tries = n]
         \/ call' = [call EXCEPT ![p].at = s, ![p].made = b]
         \/ call[p].at = s /\ call' = [call EXCEPT ![p].tries = n]
  PROVE  /\ call' \in [Processes -> CallStates]
         /\ call'[p].at = s /\ call'[p].op = call[p].op /\ call'[p].app = call[p].app
         /\ \A q \in Processes \ {p} : call'[q] = call[q]
<1> DEFINE c1 == [call[p] EXCEPT !.at = s, !.tries = n]
           c2 == [call[p] EXCEPT !.at = s, !.made = b]
           c3 == [call[p] EXCEPT !.tries = n]
<1>1. call[p] \in CallStates
  BY DEF ToolsTypeOK, CallStates
<1>2. c1 \in CallStates /\ c2 \in CallStates /\ c3 \in CallStates
  BY <1>1 DEF CallStates
<1>3. /\ c1.at = s /\ c1.op = call[p].op /\ c1.app = call[p].app
      /\ c2.at = s /\ c2.op = call[p].op /\ c2.app = call[p].app
      /\ c3.at = call[p].at /\ c3.op = call[p].op /\ c3.app = call[p].app
  BY <1>1 DEF CallStates
<1>4. \/ call' = [call EXCEPT ![p] = c1]
      \/ call' = [call EXCEPT ![p] = c2]
      \/ call[p].at = s /\ call' = [call EXCEPT ![p] = c3]
  BY DEF ToolsTypeOK
<1> HIDE DEF c1, c2, c3
<1>5. PICK c \in CallStates : /\ call' = [call EXCEPT ![p] = c]
                            /\ c.at = s /\ c.op = call[p].op /\ c.app = call[p].app
  BY <1>2, <1>3, <1>4
<1>6. call \in [Processes -> CallStates]
  BY DEF ToolsTypeOK, CallStates
<1> QED
  BY <1>5, <1>6

LEMMA NoCallTyped == NoCall \in CallStates
<1>1. 0 \in 0..Attempts - 1
  BY ApplicationsAssumption
<1>2. "none" \in Ops \cup {"none"}
  OBVIOUS
<1> QED
  BY <1>1, <1>2 DEF NoCall, CallStates

\* A call ends, is forgotten, or begins.
LEMMA Finished ==
  ASSUME ToolsTypeOK, NEW p \in Processes, NEW e \in {"open", "done"},
         Finish(p, e) \/ call' = [call EXCEPT ![p] = NoCall]
  PROVE  /\ call' \in [Processes -> CallStates]
         /\ call'[p].at \in {"open", "done", "idle"} /\ call'[p].op = "none"
         /\ Finish(p, e) => call'[p].at = e
         /\ \A q \in Processes \ {p} : call'[q] = call[q]
<1>1. NoCall \in CallStates
  BY NoCallTyped
<1> DEFINE c == [NoCall EXCEPT !.at = e]
<1>2. c \in CallStates
  BY <1>1 DEF CallStates
<1>3. c.at = e /\ c.op = "none" /\ NoCall.at = "idle" /\ NoCall.op = "none"
  BY DEF NoCall
<1>4. /\ call' = [call EXCEPT ![p] = c] \/ call' = [call EXCEPT ![p] = NoCall]
      /\ Finish(p, e) => call' = [call EXCEPT ![p] = c]
  BY DEF Finish
<1> HIDE DEF c
<1> QED
  BY <1>1, <1>2, <1>3, <1>4 DEF ToolsTypeOK, CallStates

LEMMA Begun ==
  ASSUME ToolsTypeOK, NEW p \in Processes, NEW op \in Ops, NEW a \in Ids \cup {0},
         StartCall(p, op, a)
  PROVE  /\ call' \in [Processes -> CallStates]
         /\ call'[p].at = "begun" /\ call'[p].op = op /\ call'[p].app = a
         /\ \A q \in Processes \ {p} : call'[q] = call[q]
<1> DEFINE c == [NoCall EXCEPT !.op = op, !.app = a, !.at = "begun"]
<1>1. c \in CallStates
  BY NoCallTyped DEF CallStates
<1>2. c.at = "begun" /\ c.op = op /\ c.app = a
  BY DEF NoCall
<1>3. call' = [call EXCEPT ![p] = c]
  BY DEF StartCall
<1> HIDE DEF c
<1> QED
  BY <1>1, <1>2, <1>3 DEF ToolsTypeOK, CallStates

\* The calls that name an application name one there can be.
Targets == \A p \in Processes : call[p].op \in {"send", "delete"} => call[p].app \in Ids

\* A step of a call leaves the other calls, and what it is a call of.
LEMMA CallKept ==
  ASSUME ToolsTypeOK, NEW p \in Processes, CallStep(p)
  PROVE  /\ call' \in [Processes -> CallStates]
         /\ \A q \in Processes \ {p} : call'[q] = call[q]
         /\ \/ call'[p].op = "none"
            \/ call'[p].op = call[p].op /\ call'[p].app = call[p].app
            \/ call'[p].at = "begun" /\ (call'[p].op \in {"send", "delete"} => call'[p].app \in Ids)
<1>1. CASE (\E e \in {"open", "done"} : Finish(p, e)) \/ call' = [call EXCEPT ![p] = NoCall]
  BY <1>1, Finished
<1>2. CASE \E s \in {"begun", "checked", "ready"} : MoveTo(p, s)
  BY <1>2, Moved
<1>3. CASE MailSent(p) \/ RetryMail(p) \/ AskModel(p)
  <2>0. call[p] \in CallStates
    BY DEF ToolsTypeOK, CallStates
  <2>1. call[p].tries \in 0..Attempts - 1
    BY <2>0 DEF CallStates
  <2>2. 0 \in 0..Attempts - 1 /\ (call[p].tries + 1 < Attempts => call[p].tries + 1 \in 0..Attempts - 1)
    BY <2>1, ApplicationsAssumption
  <2>3. \E n \in 0..Attempts - 1, s \in {"checked", "ready"} :
            \/ call' = [call EXCEPT ![p].at = s, ![p].tries = n]
            \/ call[p].at = s /\ call' = [call EXCEPT ![p].tries = n]
    BY <1>3, <2>2 DEF MailSent, RetryMail, AskModel, At
  <2> QED
    BY <2>3, MovedWith
<1>4. CASE CheckSave(p)
  <2>1. 0 \in 0..Attempts - 1
    BY ApplicationsAssumption
  <2>2. PICK b \in BOOLEAN : call' = [call EXCEPT ![p].at = "ready", ![p].made = b]
    BY <1>4 DEF CheckSave
  <2> QED
    BY <2>1, <2>2, MovedWith
<1>5. CASE \E op \in Ops : \E a \in Ids \cup {0} :
              (op \in {"send", "delete"} => a \in Ids) /\ StartCall(p, op, a)
  BY <1>5, Begun
<1> QED
  BY <1>1, <1>2, <1>3, <1>4, <1>5
     DEF CallStep, ToolStep, FailCall, CheckSend, MailFails, CommitSend, Succeed,
         CheckDelete, CommitDelete, CheckDraft, CommitDraft, InsertDraft, Look, ListApplications,
         ListResumes, QuerySelect, QueryInsert, QueryReturning, QueryApplications, QueryTables,
         ReadFile, UpToDate, Calculate, CommitSave, EndCall, ForgetCall

\* The types of the tools hold after each step of a call.
LEMMA ToolTypesKept ==
  ASSUME ToolsTypeOK, Targets, NEW p \in Processes, CallStep(p)
  PROVE  ToolsTypeOK' /\ Targets'
<1>1. Targets' /\ call' \in [Processes -> CallStates]
  BY CallKept DEF Targets
<1> DEFINE Rows == /\ apps' \in [Ids -> AppStatuses] /\ nextId' \in Nat \ {0}
                   /\ \A a \in Ids : apps'[a] # "none" => a < nextId'
           Rest == /\ filled' \subseteq {"resumes", "calculations"} /\ mails' \in [Ids -> 0..2]
                   /\ doubtful' \subseteq Ids /\ overlapped' \subseteq Ids /\ written' \subseteq Ids
                   /\ reported' \subseteq Ops \X (Ids \cup {0})
<1>2. SUFFICES Rows /\ Rest
  BY <1>1 DEF ToolsTypeOK, CallStates
<1>3. Ids \subseteq Nat \ {0} /\ Ids \subseteq Int
  BY ApplicationsAssumption
<1>4. InDoubt(p) \subseteq Ids
  BY DEF InDoubt, At, Targets
<1>5. At(p, "send", "begun") \/ At(p, "send", "checked") \/ At(p, "send", "ready")
      \/ At(p, "delete", "ready") => call[p].app \in Ids
  BY DEF At, Targets
<1>6. CASE CommitDraft(p) \/ QueryInsert(p)
  <2>1. InsertDraft(p) /\ call[p].op \in Ops
    BY <1>6 DEF CommitDraft, QueryInsert, At, Ops, Queries
  <2>2. Rows
    BY <1>3, <2>1 DEF InsertDraft, ToolsTypeOK, AppStatuses
  <2>3. Rest
    BY <2>1 DEF InsertDraft, Succeed, ToolsTypeOK
  <2> QED
    BY <2>2, <2>3
<1>7. CASE QueryReturning(p)
  <2>1. Rows
    BY <1>3, <1>7 DEF QueryReturning, ToolsTypeOK
  <2>2. Rest
    BY <1>7 DEF QueryReturning, Succeed, ToolsTypeOK, At, Ops, Queries
  <2> QED
    BY <2>1, <2>2
<1>8. CASE CommitSend(p) \/ CommitDelete(p)
  <2>1. call[p].app \in Ids /\ call[p].op \in Ops
    BY <1>5, <1>8 DEF CommitSend, CommitDelete, At, Ops
  <2>2. Rows
    BY <1>8, <2>1 DEF CommitSend, CommitDelete, ToolsTypeOK, AppStatuses
  <2>3. <<call[p].op, call[p].app>> \in Ops \X (Ids \cup {0})
    BY <2>1
  <2>4. UNCHANGED <<filled, mails, doubtful, overlapped, written>>
        /\ reported' = reported \cup {<<call[p].op, call[p].app>>}
    BY <1>8 DEF CommitSend, CommitDelete, Succeed
  <2>5. Rest
    BY <2>3, <2>4 DEF ToolsTypeOK
  <2> QED
    BY <2>2, <2>5
<1>9. CASE MailSent(p) \/ RetryMail(p) \/ MailFails(p)
  <2>1. call[p].app \in Ids /\ UNCHANGED <<apps, nextId, filled, overlapped, written, reported>>
    BY <1>5, <1>9 DEF MailSent, RetryMail, MailFails
  <2>2. Deliver(call[p].app) => mails' \in [Ids -> 0..2]
    BY <2>1 DEF Deliver, ToolsTypeOK
  <2>3. Rest
    BY <1>9, <2>1, <2>2 DEF MailSent, RetryMail, MailFails, MaybeDelivered, ToolsTypeOK
  <2> QED
    BY <2>1, <2>3 DEF ToolsTypeOK
<1>10. CASE FailCall(p) \/ ForgetCall(p)
  BY <1>4, <1>10 DEF FailCall, ForgetCall, outcomes, ToolsTypeOK
<1>11. CASE CheckSend(p)
  BY <1>5, <1>11 DEF CheckSend, ToolsTypeOK
<1>12. CASE CommitSave(p) \/ UpToDate(p)
  <2>1. call[p].op \in Ops
    BY <1>12 DEF CommitSave, UpToDate, CanSave, At, Ops, Savers
  <2>2. TableFor(call[p].op) \in {"resumes", "calculations"}
    BY DEF TableFor
  <2>3. <<call[p].op, 0>> \in Ops \X (Ids \cup {0})
    BY <2>1
  <2>4. /\ UNCHANGED <<apps, nextId, mails, doubtful, overlapped, written>>
        /\ reported' = reported \cup {<<call[p].op, 0>>}
        /\ filled' \subseteq filled \cup {"resumes", "calculations"}
    BY <1>12, <2>2 DEF CommitSave, UpToDate, Succeed, outcomes
  <2> QED
    BY <2>3, <2>4 DEF ToolsTypeOK
<1>13. CASE UNCHANGED <<outcomes, doubtful, reported>>
  BY <1>13 DEF outcomes, ToolsTypeOK
<1>14. CASE QueryApplications(p)
  <2>1. PICK a \in Ids, status \in {"draft", "sent", "gone"} :
            /\ apps[a] = "none" => a = nextId
            /\ apps' = [apps EXCEPT ![a] = status]
            /\ nextId' = IF a = nextId THEN nextId + 1 ELSE nextId
            /\ written' = written \cup {a}
    BY <1>14 DEF QueryApplications
  <2>2. Rows
    BY <1>3, <2>1 DEF ToolsTypeOK, AppStatuses
  <2>3. Rest
    BY <1>14, <2>1 DEF QueryApplications, ToolsTypeOK
  <2> QED
    BY <2>2, <2>3
<1>15. CASE QueryTables(p)
  <2>1. Rows
    BY <1>15 DEF QueryTables, CreateTable, RenameTable, WriteTable, DropRows, ToolsTypeOK, AppStatuses
  <2>2. Rest
    BY <1>15 DEF QueryTables, CreateTable, RenameTable, WriteTable, DropRows, ToolsTypeOK
  <2> QED
    BY <2>1, <2>2
<1> QED
  BY <1>6, <1>7, <1>8, <1>9, <1>10, <1>11, <1>12, <1>13, <1>14, <1>15
     DEF CallStep, ToolStep, CheckDelete, CheckDraft, AskModel, Look, ListApplications, ListResumes,
         QuerySelect, ReadFile, CheckSave, Calculate, EndCall, StartCall

\* The mails of an application, and the sends under way that account for them.
MailFine(a) ==
    /\ apps[a] = "none" => mails[a] = 0
    /\ apps[a] = "sent" => mails[a] > 0
    /\ mails[a] > 1 => a \in doubtful \cup overlapped
    /\ mails[a] > 0 /\ apps[a] = "draft" =>
        a \in doubtful \/ \E p \in Processes : Sending(p, a) /\ call[p].at = "ready"
    /\ \A p \in Processes : Sending(p, a) =>
        /\ apps[a] # "none"
        /\ call[p].at = "ready" => mails[a] > 0
        /\ call[p].at = "checked" /\ mails[a] > 0 => a \in doubtful \cup overlapped
    /\ \A p, q \in Processes : p # q /\ Sending(p, a) /\ Sending(q, a) => a \in overlapped

MailInv == \A a \in Ids \ written : MailFine(a)

\* A step that sends nothing: the process is not in a send afterwards, a send it
\* gave up is in doubt, and what no query writes is inserted and deleted at most.
LEMMA MailKeptByOthers ==
  ASSUME ToolsTypeOK, MailInv, NEW p \in Processes,
         \A q \in Processes \ {p} : call'[q] = call[q],
         \A a \in Ids : ~Sending(p, a)',
         mails' = mails, overlapped' = overlapped, doubtful \cup InDoubt(p) \subseteq doubtful',
         written \subseteq written',
         \A a \in Ids \ written' : \/ apps'[a] = apps[a]
                                   \/ apps[a] = "none" /\ apps'[a] = "draft"
                                   \/ apps[a] = "draft" /\ apps'[a] = "gone"
  PROVE  MailInv'
<1> SUFFICES ASSUME NEW a \in Ids \ written' PROVE MailFine(a)'
  BY DEF MailInv
<1>1. MailFine(a) /\ mails[a] \in 0..2
  BY DEF MailInv, ToolsTypeOK
<1>2. \A q \in Processes : Sending(q, a)' => q # p /\ Sending(q, a) /\ call'[q] = call[q]
  BY DEF Sending
<1>3. \A q \in Processes : Sending(q, a) /\ call[q].at = "ready" =>
          a \in doubtful' \/ (Sending(q, a)' /\ call'[q].at = "ready")
  BY DEF Sending, InDoubt, At
<1> HIDE DEF Sending
<1> QED
  BY <1>1, <1>2, <1>3 DEF MailFine

\* A step of one call keeps the invariant of the mails.
LEMMA MailKept ==
  ASSUME ToolsTypeOK, Targets, MailInv, NEW p \in Processes, CallStep(p)
  PROVE  MailInv'
<1>0. ToolsTypeOK' /\ Targets'
  BY ToolTypesKept
<1>1. \A q \in Processes \ {p} : call'[q] = call[q]
  BY CallKept
<1>2. \A a \in Ids : mails[a] \in 0..2 /\ mails'[a] \in 0..2
  BY <1>0 DEF ToolsTypeOK
<1> DEFINE b == call[p].app
<1>3. CASE CheckSend(p)
  <2>1. /\ b \in Ids /\ apps[b] = "draft" /\ UNCHANGED <<apps, mails, doubtful>>
        /\ overlapped \subseteq overlapped'
        /\ (\E q \in Processes : Sending(q, b)) => b \in overlapped'
    BY <1>3 DEF CheckSend, At, Targets
  <2>2. call'[p].at = "checked" /\ call'[p].op = "send" /\ call'[p].app = b /\ call[p].at = "begun"
    BY <1>3, Moved DEF CheckSend, At
  <2> SUFFICES ASSUME NEW a \in Ids \ written PROVE MailFine(a)'
    BY <1>3 DEF MailInv, CheckSend
  <2>3. MailFine(a) /\ mails[a] \in 0..2
    BY <1>2 DEF MailInv
  <2>4. \A q \in Processes : q # p => (Sending(q, a)' <=> Sending(q, a)) /\ call'[q] = call[q]
    BY <1>1 DEF Sending
  <2>5. ~Sending(p, a) /\ (Sending(p, a)' <=> a = b)
    BY <2>2 DEF Sending
  <2> QED
    BY <2>1, <2>2, <2>3, <2>4, <2>5 DEF MailFine
<1>4. CASE MailSent(p) \/ RetryMail(p)
  <2>1. b \in Ids /\ Sending(p, b) /\ call[p].at = "checked" /\ UNCHANGED <<apps, overlapped>>
    BY <1>4 DEF MailSent, RetryMail, At, Targets, Sending
  <2>2. \/ /\ MailSent(p) /\ call'[p].at = "ready"
           /\ mails'[b] > 0 /\ (mails'[b] > 1 <=> mails[b] > 0) /\ doubtful' = doubtful
        \/ /\ RetryMail(p) /\ call'[p].at = "checked"
           /\ mails'[b] >= mails[b] /\ doubtful \subseteq doubtful'
           /\ b \in doubtful' \/ mails' = mails
    <3>1. Deliver(b) => mails'[b] > 0 /\ (mails'[b] > 1 <=> mails[b] > 0) /\ mails'[b] >= mails[b]
      BY <1>2, <2>1 DEF Deliver, ToolsTypeOK
    <3>2. CASE MailSent(p)
      BY <2>1, <3>1, <3>2 DEF MailSent, ToolsTypeOK
    <3>3. CASE RetryMail(p)
      BY <1>2, <2>1, <3>1, <3>3 DEF RetryMail, MaybeDelivered, ToolsTypeOK
    <3> QED
      BY <1>4, <3>2, <3>3
  <2>3. call'[p].op = "send" /\ call'[p].app = b
    BY <1>4, <2>1 DEF MailSent, RetryMail, ToolsTypeOK, Sending
  <2>4. \A a \in Ids \ {b} : mails'[a] = mails[a]
    BY <1>4, <2>1 DEF MailSent, RetryMail, MaybeDelivered, Deliver, ToolsTypeOK
  <2> SUFFICES ASSUME NEW a \in Ids \ written PROVE MailFine(a)'
    BY <1>4 DEF MailInv, MailSent, RetryMail
  <2>5. MailFine(a) /\ mails[a] \in 0..2 /\ mails'[a] \in 0..2
    BY <1>2 DEF MailInv
  <2>6. \A q \in Processes : q # p => (Sending(q, a)' <=> Sending(q, a)) /\ call'[q] = call[q]
    BY <1>1 DEF Sending
  <2>7. Sending(p, a)' <=> a = b
    BY <2>2, <2>3 DEF Sending
  <2>8. Sending(p, a) <=> a = b
    BY <2>1 DEF Sending
  <2> HIDE DEF b
  <2>9. CASE a = b
    BY <2>1, <2>2, <2>5, <2>6, <2>7, <2>8, <2>9 DEF MailFine
  <2>10. CASE a # b
    BY <2>1, <2>2, <2>4, <2>5, <2>6, <2>7, <2>8, <2>10 DEF MailFine
  <2> QED
    BY <2>9, <2>10
<1>5. CASE MailFails(p) \/ CommitSend(p)
  <2>1. b \in Ids /\ Sending(p, b) /\ overlapped' = overlapped /\ call'[p].op = "none"
    BY <1>5, Finished DEF MailFails, CommitSend, Succeed, At, Targets, Sending
  <2>2. \/ /\ call[p].at = "checked" /\ apps' = apps /\ doubtful \subseteq doubtful'
           /\ mails'[b] >= mails[b] /\ (b \in doubtful' \/ mails' = mails)
        \/ /\ call[p].at = "ready" /\ mails' = mails /\ doubtful' = doubtful
           /\ apps'[b] = IF apps[b] = "draft" THEN "sent" ELSE apps[b]
    <3>1. Deliver(b) => mails'[b] >= mails[b]
      BY <1>2, <2>1 DEF Deliver, ToolsTypeOK
    <3>2. CASE MailFails(p)
      BY <1>2, <2>1, <3>1, <3>2 DEF MailFails, MaybeDelivered, At
    <3>3. CASE CommitSend(p)
      BY <2>1, <3>3 DEF CommitSend, At, ToolsTypeOK
    <3> QED
      BY <1>5, <3>2, <3>3
  <2>3. \A a \in Ids \ {b} : mails'[a] = mails[a] /\ apps'[a] = apps[a]
    BY <1>5, <2>1 DEF MailFails, CommitSend, MaybeDelivered, Deliver, ToolsTypeOK
  <2> SUFFICES ASSUME NEW a \in Ids \ written PROVE MailFine(a)'
    BY <1>5 DEF MailInv, MailFails, CommitSend
  <2>4. MailFine(a) /\ mails[a] \in 0..2 /\ mails'[a] \in 0..2
    BY <1>2 DEF MailInv
  <2>5. \A q \in Processes : q # p => (Sending(q, a)' <=> Sending(q, a)) /\ call'[q] = call[q]
    BY <1>1 DEF Sending
  <2>6. ~Sending(p, a)' /\ (Sending(p, a) <=> a = b)
    BY <2>1 DEF Sending
  <2> HIDE DEF b
  <2>7. CASE a = b
    <3>1. apps[b] \in AppStatuses
      BY <2>1 DEF ToolsTypeOK
    <3> QED
      BY <2>1, <2>2, <2>4, <2>5, <2>6, <2>7, <3>1 DEF MailFine, AppStatuses
  <2>8. CASE a # b
    BY <2>1, <2>2, <2>3, <2>4, <2>5, <2>6, <2>8 DEF MailFine
  <2> QED
    BY <2>7, <2>8
<1>6. CASE ~(CheckSend(p) \/ MailSent(p) \/ RetryMail(p) \/ MailFails(p) \/ CommitSend(p))
  <2>1. mails' = mails /\ overlapped' = overlapped
    BY <1>6 DEF CallStep, ToolStep, FailCall, CheckDelete, CommitDelete, CheckDraft, AskModel,
         CommitDraft, InsertDraft, Look, ListApplications, ListResumes, QuerySelect, QueryInsert,
         QueryReturning, QueryApplications, QueryTables, ReadFile, CheckSave, UpToDate, Calculate,
         CommitSave, EndCall, ForgetCall, StartCall, outcomes
  <2>0. \/ FailCall(p) \/ ForgetCall(p)
        \/ EndCall(p) \/ (call[p].at = "idle" /\ call'[p].at = "begun" /\ doubtful' = doubtful)
        \/ call[p].op # "send" /\ doubtful' = doubtful
    <3>1. CASE \E op \in Ops, a \in Ids \cup {0} : StartCall(p, op, a)
      BY <3>1, Begun DEF StartCall, InCall
    <3>2. CASE ToolStep(p) \/ QueryTables(p) \/ CommitSave(p)
      BY <1>6, <3>2 DEF ToolStep, CheckDelete, CommitDelete, CheckDraft, AskModel, CommitDraft,
         InsertDraft, Look, ListApplications, ListResumes, QuerySelect, QueryInsert, QueryReturning,
         QueryBegun, QueryApplications, QueryTables, ReadFile, CheckSave, CanSave, UpToDate, Calculate, CommitSave, Savers, At
    <3> QED
      BY <3>1, <3>2 DEF CallStep
  <2>2. call'[p].op # "send" \/ call'[p].at = "begun"
    <3>1. CASE FailCall(p) \/ ForgetCall(p) \/ EndCall(p)
      BY <3>1, Finished DEF FailCall, ForgetCall, EndCall
    <3> QED
      BY <2>0, <3>1, CallKept
  <2>3. doubtful \cup InDoubt(p) \subseteq doubtful'
    BY <2>0 DEF FailCall, ForgetCall, EndCall, InDoubt, At
  <2>4. written \subseteq written' /\ \A a \in Ids \ written' :
            \/ apps'[a] = apps[a]
            \/ apps[a] = "none" /\ apps'[a] = "draft"
            \/ apps[a] = "draft" /\ apps'[a] = "gone"
    <3>1. CASE InsertDraft(p)
      BY <3>1, ApplicationsAssumption DEF InsertDraft, ToolsTypeOK
    <3>2. CASE CommitDelete(p)
      BY <3>2 DEF CommitDelete, ToolsTypeOK
    <3>3. CASE UNCHANGED <<apps, written>>
      BY <3>3
    <3>4. CASE QueryApplications(p) \/ QueryTables(p)
      BY <3>4 DEF QueryApplications, QueryTables, CreateTable, RenameTable, WriteTable, ToolsTypeOK
    <3> QED
      BY <1>6, <3>1, <3>2, <3>3, <3>4
         DEF CallStep, ToolStep, FailCall, CheckDelete, CheckDraft, AskModel, CommitDraft, Look,
             ListApplications, ListResumes, QuerySelect, QueryInsert, QueryReturning, ReadFile,
             CheckSave, UpToDate, Calculate, CommitSave, EndCall, ForgetCall, StartCall, outcomes
  <2> QED
    <3>1. \A a \in Ids : ~Sending(p, a)'
      BY <2>2 DEF Sending
    <3> QED
      BY <1>1, <2>1, <2>3, <2>4, <3>1, MailKeptByOthers
<1> QED
  BY <1>3, <1>4, <1>5, <1>6

ToolInv == ToolsTypeOK /\ Targets /\ MailInv

\* The drop of a table by a rollback keeps the invariant of the tools.
LEMMA ToolKeptByRollback == ASSUME ToolInv, NEW t, ForgetRows(t) PROVE ToolInv'
<1>1. ToolsTypeOK'
  BY DEF ToolInv, ToolsTypeOK, ForgetRows, DropRows, AppStatuses
<1>2. Targets' /\ MailInv'
  <2>1. UNCHANGED <<call, mails, doubtful, overlapped, written>>
    BY DEF ForgetRows
  <2>2. \A a \in Ids : apps'[a] = apps[a] \/ (apps[a] # "none" /\ apps'[a] = "gone")
    BY DEF ForgetRows, DropRows, ToolInv, ToolsTypeOK
  <2>3. ASSUME NEW a \in Ids, MailFine(a) PROVE MailFine(a)'
    BY <2>1, <2>2, <2>3 DEF MailFine, Sending
  <2> QED
    BY <2>1, <2>3 DEF ToolInv, Targets, MailInv
<1> QED
  BY <1>1, <1>2 DEF ToolInv

\* The invariant of the tools holds in every reachable state.
LEMMA ToolHolds == Spec => []ToolInv
<1>1. Init => ToolInv
  <2> SUFFICES ASSUME Init PROVE ToolInv
    OBVIOUS
  <2> PICK j \in Jobs : job = j /\ ToolsInit(j.drafts)
    BY DEF Init
  <2>1. IsFiniteSet(j.drafts) /\ j.drafts \subseteq Ids /\ j.drafts = 1..Cardinality(j.drafts)
    BY JobsAssumption
  <2>2. Cardinality(j.drafts) \in Nat
    BY <2>1, FS_CardinalityType
  <2>3. call \in [Processes -> CallStates] /\ \A p \in Processes : call[p] = NoCall
    BY NoCallTyped DEF ToolsInit
  <2>4. NoCall.op = "none"
    BY DEF NoCall
  <2>5. ToolsTypeOK
    <3>1. nextId = 1 + Cardinality(j.drafts) /\ apps = [a \in Ids |-> IF a \in j.drafts THEN "draft" ELSE "none"]
      BY DEF ToolsInit
    <3>2. \A a \in Ids : apps[a] # "none" => a < nextId
      BY <2>1, <2>2, <3>1
    <3> QED
      BY <2>2, <2>3, <3>1, <3>2 DEF ToolsTypeOK, CallStates, ToolsInit, AppStatuses
  <2>6. Targets
    BY <2>3, <2>4 DEF Targets
  <2>7. MailInv
    BY <2>3, <2>4 DEF ToolsInit, MailInv, MailFine, Sending
  <2> QED
    BY <2>5, <2>6, <2>7 DEF ToolInv
<1>2. ToolInv /\ UNCHANGED toolVars => ToolInv'
  BY DEF ToolInv, toolVars, ToolsTypeOK, Targets, MailInv, MailFine, Sending
<1>3. ASSUME ToolInv, NEW p \in Processes, CallStep(p) PROVE ToolInv'
  BY <1>3, ToolTypesKept, MailKept DEF ToolInv
<1>4. ToolInv /\ [Next]_vars => ToolInv'
  BY <1>2, <1>3, ToolSteps, ToolKeptByRollback
<1> QED
  BY <1>1, <1>4, PTL DEF Spec

\* No mail is lost and none is sent twice, but for one that its send could not
\* confirm and for two sends of one application at once (tools/email/send_email.py).
THEOREM MailsOnceUnlessInDoubt == Spec => []ExactlyOnceUnlessInDoubt
<1>1. ToolInv => ExactlyOnceUnlessInDoubt
  BY DEF ToolInv, MailInv, MailFine, ExactlyOnceUnlessInDoubt
<1> QED
  BY <1>1, ToolHolds, PTL

\* An application that was sent or deleted changes in two ways only, whatever step
\* any process makes: its table is rolled back, or a statement of query_database
\* writes it (tools/email, tools/db_tool.py).
THEOREM SentAndDeletedAreFinal == Spec => ApplicationsFinal
<1> DEFINE A == \A a \in Ids : apps[a] \in {"sent", "gone"} /\ apps'[a] # apps[a] =>
                    \/ apps'[a] = "gone" /\ "applications" \notin tables'
                    \/ \E p \in Processes : At(p, "write", "begun") /\ call'[p].at = "done"
<1>1. ToolInv /\ [Next]_vars => [A]_apps
  <2> SUFFICES ASSUME ToolInv, [Next]_vars PROVE [A]_apps
    OBVIOUS
  <2>1. CASE UNCHANGED toolVars
    BY <2>1 DEF toolVars
  <2>2. ASSUME NEW p \in Processes, CallStep(p) PROVE [A]_apps
    <3>1. CASE InsertDraft(p)
      BY <3>1, ApplicationsAssumption DEF ToolInv, InsertDraft, ToolsTypeOK
    <3>2. CASE CommitDelete(p) \/ CommitSend(p)
      BY <3>2 DEF ToolInv, CommitDelete, CommitSend, ToolsTypeOK, Targets, At
    <3>3. CASE apps' = apps
      BY <3>3
    <3>4. CASE QueryApplications(p) \/ QueryTables(p)
      <4>1. At(p, "write", "begun") /\ Finish(p, "done")
        BY <3>4 DEF QueryApplications, QueryTables, QueryBegun
      <4> QED
        BY <4>1, Finished DEF ToolInv
    <3> QED
      BY <2>2, <3>1, <3>2, <3>3, <3>4
         DEF CallStep, ToolStep, FailCall, CheckSend, MailSent, RetryMail, MailFails, CheckDelete,
             CheckDraft, AskModel, CommitDraft, Look, ListApplications, ListResumes, QuerySelect,
             QueryInsert, QueryReturning, ReadFile, CheckSave, UpToDate, Calculate, CommitSave,
             EndCall, ForgetCall, StartCall, outcomes
  <2>3. ASSUME NEW p \in Processes, NEW k \in Keys, RollbackMigration(p, k), ForgetRows(TableOf[k])
        PROVE  [A]_apps
    <3> DEFINE gone == [a \in Ids |-> IF apps[a] = "none" THEN "none" ELSE "gone"]
    <3>1. \A a \in Ids :
              apps'[a] # apps[a] => apps'[a] = "gone" /\ TableOf[k] = "applications"
      <4>1. apps' = IF TableOf[k] = "applications" THEN gone ELSE apps
        BY <2>3 DEF ForgetRows, DropRows
      <4> QED
        BY <4>1
    <3>2. TableOf[k] = "applications" => "applications" \notin tables'
      BY <2>3 DEF RollbackMigration
    <3> QED
      BY <3>1, <3>2
  <2> QED
    BY <2>1, <2>2, <2>3, ToolSteps
<1> QED
  BY <1>1, ToolHolds, PTL DEF Spec, ApplicationsFinal

\* What has been reported of one call is so, unless a query has written it since.
ReportFine(r) ==
    /\ r[1] \notin Savers => r[2] \in Ids
    /\ r[1] \notin Savers /\ r[2] \notin written =>
        /\ r[1] = "send" => apps[r[2]] \in {"sent", "gone"}
        /\ r[1] = "delete" => apps[r[2]] = "gone" \/ (apps[r[2]] = "sent" /\ mails[r[2]] > 0)
        /\ r[1] \in {"draft", "insert"} => apps[r[2]] # "none"
    /\ r[1] \in Savers /\ TableFor(r[1]) \notin altered => TableFor(r[1]) \in tables \cap filled

\* The application a delete is about to commit is there.
DeleteFine(p) == At(p, "delete", "ready") => apps[call[p].app] # "none"

ReportsInv ==
    /\ \A r \in reported : ReportFine(r)
    /\ \A p \in Processes : DeleteFine(p)

\* What no step of a call takes back, but for a query.
LEMMA OutcomesKept ==
  ASSUME ToolInv, NEW p \in Processes, CallStep(p)
  PROVE  /\ filled \subseteq filled' \cup altered' /\ written \subseteq written'
         /\ \A a \in Ids :
             /\ mails[a] > 0 => mails'[a] > 0
             /\ apps[a] \in {"sent", "gone"} => apps'[a] = apps[a] \/ a \in written'
             /\ apps[a] # "none" => apps'[a] # "none"
<1>0. /\ ToolsTypeOK /\ Targets
      /\ \A a \in Ids : mails[a] \in 0..2
  BY DEF ToolInv, ToolsTypeOK
<1>1. CASE InsertDraft(p)
  BY <1>0, <1>1, ApplicationsAssumption DEF ToolsTypeOK, InsertDraft
<1>2. CASE CommitDelete(p) \/ CommitSend(p)
  BY <1>0, <1>2 DEF CommitDelete, CommitSend, ToolsTypeOK, Targets, At
<1>3. CASE MailSent(p) \/ RetryMail(p) \/ MailFails(p)
  <2>1. UNCHANGED <<apps, filled, written>>
    BY <1>3 DEF MailSent, RetryMail, MailFails
  <2>2. mails' = mails \/ Deliver(call[p].app)
    BY <1>3 DEF MailSent, RetryMail, MailFails, MaybeDelivered
  <2>3. call[p].app \in Ids
    BY <1>0, <1>3 DEF MailSent, RetryMail, MailFails, At, Targets
  <2>4. \A a \in Ids : mails[a] > 0 => mails'[a] > 0
    BY <1>0, <2>2, <2>3 DEF Deliver, ToolsTypeOK
  <2> QED
    BY <1>0, <2>1, <2>4
<1>4. CASE UNCHANGED <<apps, mails, written>> /\ filled \subseteq filled'
  BY <1>0, <1>4
<1>5. CASE QueryApplications(p)
  BY <1>0, <1>5 DEF QueryApplications, ToolsTypeOK
<1>6. CASE QueryTables(p)
  BY <1>0, <1>6 DEF QueryTables, CreateTable, RenameTable, WriteTable, DropRows, ToolsTypeOK
<1> QED
  BY <1>1, <1>2, <1>3, <1>4, <1>5, <1>6
     DEF CallStep, ToolStep, FailCall, CheckSend, CheckDelete, CheckDraft, AskModel, CommitDraft,
         Look, ListApplications, ListResumes, QuerySelect, QueryInsert, QueryReturning, ReadFile,
         CheckSave, UpToDate, Calculate, CommitSave, EndCall, ForgetCall, StartCall, outcomes

\* What is reported by a step of a call is so when it is reported.
LEMMA NewReportFine ==
  ASSUME ToolInv, ReportsInv, Keeps, NEW p \in Processes, CallStep(p),
         NEW r \in reported' \ reported
  PROVE  ReportFine(r)'
<1> DEFINE b == call[p].app
<1>0. ToolsTypeOK /\ Targets /\ MailInv
  BY DEF ToolInv
<1>1. CASE CommitSend(p)
  <2>1. r[1] = "send" /\ r[2] = b /\ b \in Ids /\ Sending(p, b)
    BY <1>0, <1>1 DEF CommitSend, Succeed, At, Targets, Sending
  <2>2. apps[b] \in AppStatuses /\ (b \notin written => apps[b] # "none")
    BY <1>0, <2>1 DEF ToolsTypeOK, MailInv, MailFine
  <2>3. b \notin written' => apps'[b] \in {"sent", "gone"}
    BY <1>0, <1>1, <2>1, <2>2 DEF CommitSend, ToolsTypeOK, AppStatuses
  <2> QED
    BY <2>1, <2>3 DEF ReportFine, Savers
<1>2. CASE CommitDelete(p)
  <2>1. r[1] = "delete" /\ r[2] = b /\ b \in Ids /\ apps[b] # "none"
    BY <1>0, <1>2 DEF CommitDelete, Succeed, At, Targets, ReportsInv, DeleteFine
  <2>2. apps[b] \in AppStatuses /\ (apps[b] = "sent" /\ b \notin written => mails[b] > 0)
    BY <1>0, <2>1 DEF ToolsTypeOK, MailInv, MailFine
  <2>3. b \notin written' => apps'[b] = "gone" \/ (apps'[b] = "sent" /\ mails'[b] > 0)
    BY <1>0, <1>2, <2>1, <2>2 DEF CommitDelete, ToolsTypeOK, AppStatuses
  <2> QED
    BY <2>1, <2>3 DEF ReportFine, Savers
<1>3. CASE CommitDraft(p) \/ QueryInsert(p)
  <2>1. r[1] \in {"draft", "insert"} /\ r[2] = nextId /\ nextId \in Ids
    BY <1>3 DEF CommitDraft, QueryInsert, InsertDraft, Succeed, At
  <2>2. apps'[nextId] # "none"
    BY <1>0, <1>3, <2>1 DEF CommitDraft, QueryInsert, InsertDraft, ToolsTypeOK
  <2> QED
    BY <2>1, <2>2 DEF ReportFine, Savers
<1>4. CASE QueryReturning(p)
  <2>1. r[1] = "returning" /\ r[2] \in Ids
    BY <1>4 DEF QueryReturning, Succeed, At
  <2> QED
    BY <2>1 DEF ReportFine, Savers
<1>5. CASE UpToDate(p)
  <2>1. r[1] \in Savers /\ r[1] # "calculate"
    BY <1>5 DEF UpToDate, Succeed, CanSave, At, Savers
  <2>2. "resumes" \in tables \cap filled /\ filled' = filled /\ tables \subseteq tables' \cup altered'
    BY <1>5 DEF UpToDate, outcomes, Keeps
  <2>3. TableFor(r[1]) = "resumes"
    BY <2>1 DEF TableFor
  <2> QED
    BY <2>1, <2>2, <2>3 DEF ReportFine, Savers
<1>6. CASE CommitSave(p)
  <2>1. r[1] = call[p].op /\ r[1] \in Savers /\ TableFor(r[1]) \in tables' \cap filled'
    BY <1>6 DEF CommitSave, Succeed
  <2> QED
    BY <2>1 DEF ReportFine, Savers
<1>7. CASE reported' = reported
  BY <1>7
<1> QED
  BY <1>1, <1>2, <1>3, <1>4, <1>5, <1>6, <1>7
     DEF CallStep, ToolStep, FailCall, CheckSend, MailSent, RetryMail, MailFails, CheckDelete,
         CheckDraft, AskModel, Look, ListApplications, ListResumes, QuerySelect, QueryApplications,
         QueryTables, ReadFile, CheckSave, Calculate, EndCall, ForgetCall, StartCall

\* A step of one call keeps what all have reported.
LEMMA ReportsKept ==
  ASSUME ToolInv, ReportsInv, Keeps, NEW p \in Processes, CallStep(p)
  PROVE  ReportsInv'
<1>0. ToolsTypeOK /\ Targets
  BY DEF ToolInv
<1>1. ASSUME NEW r \in reported PROVE ReportFine(r)'
  <2>1. ReportFine(r) /\ (r[1] \notin Savers => r[2] \in Ids)
    BY DEF ReportsInv, ReportFine
  <2>3. r[1] \in Savers => ReportFine(r)'
    BY <2>1, OutcomesKept DEF ReportFine, Keeps
  <2>4. ASSUME NEW a \in Ids, r[2] = a, r[1] \notin Savers PROVE ReportFine(r)'
    <3>1. /\ mails[a] > 0 => mails'[a] > 0
          /\ apps[a] \in {"sent", "gone"} => apps'[a] = apps[a] \/ a \in written'
          /\ apps[a] # "none" => apps'[a] # "none"
          /\ written \subseteq written'
      BY OutcomesKept
    <3> QED
      BY <2>1, <2>4, <3>1 DEF ReportFine
  <2>5. r[1] \notin Savers => ReportFine(r)'
    BY <2>1, <2>4
  <2> QED
    BY <2>3, <2>5
<1>2. ASSUME NEW q \in Processes PROVE DeleteFine(q)'
  <2>1. CASE CheckDelete(p) /\ q = p
    BY <1>0, <2>1, Moved DEF CheckDelete, At, DeleteFine, outcomes
  <2>2. CASE ~CheckDelete(p) /\ q = p
    <3>1. CASE (\E e \in {"open", "done"} : Finish(p, e)) \/ call' = [call EXCEPT ![p] = NoCall]
      BY <1>0, <2>2, <3>1, Finished DEF DeleteFine, At
    <3>2. CASE MoveTo(p, "checked")
      BY <1>0, <2>2, <3>2, Moved DEF DeleteFine, At
    <3>3. CASE call[p].op \notin {"delete", "none"}
      BY <1>0, <2>2, <3>3, CallKept DEF DeleteFine, At
    <3>4. CASE \E op \in Ops, a \in Ids \cup {0} : StartCall(p, op, a)
      BY <1>0, <2>2, <3>4, Begun DEF DeleteFine, At
    <3> QED
      BY <2>2, <3>1, <3>2, <3>3, <3>4
         DEF CallStep, ToolStep, FailCall, CheckSend, MailSent, RetryMail, MailFails, CommitSend,
             CommitDelete, CheckDraft, AskModel, CommitDraft, InsertDraft, Look, ListApplications,
             ListResumes, QuerySelect, QueryInsert, QueryReturning, QueryApplications, QueryTables,
             ReadFile, CheckSave, CanSave, UpToDate, Calculate, CommitSave, Savers, EndCall, ForgetCall, Succeed, At
  <2>3. CASE q # p
    <3>1. call'[q] = call[q]
      BY <1>0, <2>3, CallKept
    <3> QED
      BY <1>0, <3>1, OutcomesKept DEF ReportsInv, DeleteFine, At, Targets
  <2> QED
    BY <2>1, <2>2, <2>3
<1> QED
  BY <1>1, <1>2, NewReportFine DEF ReportsInv

\* A rollback takes the reports of the rows it drops, and no other.
LEMMA ReportsKeptByRollback ==
  ASSUME ToolInv, ReportsInv, NEW p, NEW k \in Keys, RollbackMigration(p, k), ForgetRows(TableOf[k])
  PROVE  ReportsInv'
<1>0. /\ UNCHANGED <<call, mails, written>>
      /\ \A a \in Ids : apps'[a] = apps[a] \/ (apps[a] # "none" /\ apps'[a] = "gone")
  BY DEF ForgetRows, DropRows, ToolInv, ToolsTypeOK
<1>1. ASSUME NEW r \in reported' PROVE ReportFine(r)'
  <2>1. r \in reported /\ (r[1] \in Savers => TableFor(r[1]) # TableOf[k])
    BY DEF ForgetRows
  <2>2. CASE r[1] \in Savers
    BY <2>1, <2>2 DEF ReportsInv, ReportFine, ForgetRows, DropRows, RollbackMigration
  <2>3. CASE r[1] \notin Savers
    BY <1>0, <2>1, <2>3 DEF ReportsInv, ReportFine
  <2> QED
    BY <2>2, <2>3
<1>2. ASSUME NEW q \in Processes PROVE DeleteFine(q)'
  BY <1>0 DEF ReportsInv, DeleteFine, At, ToolInv, Targets
<1> QED
  BY <1>1, <1>2 DEF ReportsInv

\* What a tool has told the agent of its own commit stays so: the application is
\* sent, gone or there, and the row saved, whatever other processes do, fail at and
\* roll back, until a statement of query_database writes it (tools/email,
\* tools/calculator.py, tools/db_tool.py).
THEOREM ReportsStay == Spec => []ReportsDurable
<1>1. Init => ReportsInv
  BY NoCallTyped DEF Init, ToolsInit, ReportsInv, DeleteFine, At, NoCall
<1>2. ReportsInv /\ UNCHANGED toolVars /\ Keeps => ReportsInv'
  BY DEF Keeps, ReportsInv, ReportFine, DeleteFine, At, toolVars
<1>3. ToolInv /\ ReportsInv /\ [Next]_vars => ReportsInv'
  BY <1>2, ToolSteps, ReportsKept, ReportsKeptByRollback
<1>4. ReportsInv => ReportsDurable
  BY DEF ReportsInv, ReportFine, ReportsDurable, Savers
<1> QED
  BY <1>1, <1>3, <1>4, ToolHolds, PTL DEF Spec

-----------------------------------------------------------------------------
(* Types, and the connection of the one synchronous call of a process.     *)

\* A step of one process leaves the connections and the migration of the others.
LEMMA OthersKept ==
  ASSUME PoolTypeOK, SchemaTypeOK, NEW p \in Processes, NEW q \in Processes \ {p}
  PROVE  /\ PoolStep(p) => conn'[q] = conn[q]
         /\ SchemaStep(p) => mig'[q] = mig[q]
<1>1. PoolStep(p) => conn'[q] = conn[q]
  BY DEF PoolTypeOK, PoolStep, StartProcess, StopProcess, Borrow, Lend, Refuse, GiveBack,
         LoseSlot, TestConnection, ClosePool
<1>2. SchemaStep(p) => mig'[q] = mig[q]
  BY DEF SchemaTypeOK, SchemaStep, Initialize, MigrationStep, EndMigration, ForgetMigrations,
         MakeTable, QueryTables, RollbackMigration, ResetMigration, GiveUp, CreateTracking, ReadApplied, ApplyUp,
         RecordApplied, Verify, VerifyFails, Initialized, Set
<1> QED
  BY <1>1, <1>2

\* A step within a call, or within a migration, neither begins nor ends it.
LEMMA CallGoesOn ==
  ASSUME ToolsTypeOK, NEW p \in Processes, ToolStep(p) \/ QueryTables(p) \/ CommitSave(p)
  PROVE  InCall(p) /\ InCall(p)'
<1>1. InCall(p)
  BY DEF InCall, ToolStep, FailCall, CheckSend, MailSent, RetryMail, MailFails, CommitSend,
         CheckDelete, CommitDelete, CheckDraft, AskModel, CommitDraft, Look, ListApplications,
         ListResumes, QuerySelect, QueryInsert, QueryReturning, QueryBegun, QueryApplications,
         QueryTables, ReadFile, CheckSave, CanSave, UpToDate, Calculate, CommitSave, At
<1>2. CASE \E e \in {"open", "done"} : Finish(p, e)
  BY <1>1, <1>2, Finished DEF InCall
<1>3. CASE \E s \in {"begun", "checked", "ready"} : MoveTo(p, s)
  BY <1>1, <1>3, Moved DEF InCall
<1>4. CASE MailSent(p) \/ RetryMail(p) \/ AskModel(p) \/ CheckSave(p)
  <2>1. call[p] \in CallStates
    BY DEF ToolsTypeOK, CallStates
  <2> QED
    BY <1>1, <1>4, <2>1
       DEF MailSent, RetryMail, AskModel, CheckSave, InCall, ToolsTypeOK, CallStates
<1> QED
  BY <1>1, <1>2, <1>3, <1>4
     DEF ToolStep, FailCall, CheckSend, MailFails, CommitSend, Succeed, CheckDelete, CommitDelete,
         CheckDraft, CommitDraft, InsertDraft, Look, ListApplications, ListResumes, QuerySelect,
         QueryInsert, QueryReturning, QueryApplications, QueryTables, ReadFile, UpToDate, Calculate,
         CommitSave

LEMMA MigrationGoesOn ==
  ASSUME SchemaTypeOK, NEW p \in Processes
  PROVE  /\ MigrationStep(p) => Migrating(p) /\ Migrating(p)'
         /\ Initialize(p) => Migrating(p)'
<1>0. mig[p] \in MigStates /\ \A m : Set(p, m) => mig'[p] = m
  BY DEF SchemaTypeOK, MigStates, Set
<1>1. MigrationStep(p) => Migrating(p)
  BY DEF MigrationStep, Migrating, GiveUp, CreateTracking, ReadApplied, ApplyUp, RecordApplied,
         Verify, VerifyFails, Initialized, AtKey
<1>2. GiveUp(p) \/ Initialized(p) => mig'[p].at = "done"
  BY <1>0 DEF GiveUp, Initialized, NoMigration
<1>3. CreateTracking(p) => mig'[p].at = "reading"
  BY <1>0 DEF CreateTracking, MigStates
<1>4. ReadApplied(p) => mig'[p].at = "applying"
  BY <1>0 DEF ReadApplied
<1>5. ApplyUp(p) => mig'[p].at = "recording"
  BY <1>0 DEF ApplyUp, MigStates
<1>6. RecordApplied(p) => mig'[p].at = "applying"
  BY <1>0 DEF RecordApplied, MigStates
<1>7. Verify(p) \/ VerifyFails(p) => mig'[p].at = "applying"
  <2> SUFFICES ASSUME Verify(p) \/ VerifyFails(p) PROVE mig'[p].at = "applying"
    OBVIOUS
  <2>1. PICK k \in mig[p].left : mig[p].at = "applying" /\ Set(p, [mig[p] EXCEPT !.left = @ \ {k}])
    BY DEF Verify, VerifyFails, AtKey
  <2> QED
    BY <1>0, <2>1 DEF MigStates
<1>8. Initialize(p) => mig'[p].at \in {"done", "tracking"}
  BY <1>0 DEF Initialize, MigStates
<1> QED
  BY <1>1, <1>2, <1>3, <1>4, <1>5, <1>6, <1>7, <1>8 DEF MigrationStep, Migrating

\* A process has a connection, or was refused one, exactly while it is in a call, of
\* a tool or of the schema manager and never of both.
Busy(p) ==
    /\ IsOpen(p, Sync) <=> InCall(p) \/ Migrating(p)
    /\ ~(InCall(p) /\ Migrating(p))

Counters == job \in Jobs /\ calls \in [Processes -> 0..job.calls] /\ crashes \in 0..MaxCrashes

\* A step of a process keeps what it holds and what it does in step.
LEMMA BusyKept ==
  ASSUME PoolInv, SchemaInv, ToolInv, NEW p \in Processes, Busy(p),
         Start(p) \/ Ask(p) \/ Work(p) \/ Crash(p)
  PROVE  Busy(p)'
<1>0. PoolTypeOK /\ SchemaTypeOK /\ ToolsTypeOK /\ Sync \in CallIds
  BY ApplicationsAssumption DEF PoolInv, SchemaInv, ToolInv
<1>1. CASE Start(p)
  BY <1>1 DEF Start, StartProcess, Busy, IsOpen, InCall, Migrating, schemaVars, toolVars
<1>2. CASE \E op \in Ops, a \in Ids \cup {0} : CallTool(p, op, a)
  <2>1. Borrow(p, Sync) /\ mig' = mig /\ ~Migrating(p)
    BY <1>2 DEF CallTool, schemaVars, Asked, Free
  <2>2. IsOpen(p, Sync)'
    BY <1>0, <2>1, ConnsAssumption DEF Borrow, Lend, Refuse, IsOpen, PoolTypeOK
  <2>3. InCall(p)'
    BY <1>0, <1>2, Begun DEF CallTool, InCall
  <2> QED
    BY <2>1, <2>2, <2>3 DEF Busy, Migrating
<1>3. CASE CallInitialize(p)
  <2>1. Borrow(p, Sync) /\ Initialize(p) /\ call' = call /\ ~InCall(p)
    BY <1>3 DEF CallInitialize, toolVars, Asked, Free
  <2>2. IsOpen(p, Sync)'
    BY <1>0, <2>1, ConnsAssumption DEF Borrow, Lend, Refuse, IsOpen, PoolTypeOK
  <2> QED
    BY <1>0, <2>1, <2>2, MigrationGoesOn DEF Busy, InCall
<1>4. CASE Test(p) \/ Close(p) \/ \E k \in Keys : Rollback(p, k) \/ Reset(p, k)
  <2>1. conn' = conn /\ mig' = mig /\ call' = call
    BY <1>4 DEF Test, Close, TestConnection, ClosePool, Rollback, Reset, RollbackMigration,
                ResetMigration, ForgetRows, poolVars, schemaVars, toolVars
  <2> QED
    BY <2>1 DEF Busy, IsOpen, InCall, Migrating
<1>5. ASSUME NEW c \in CallIds, CallSlow(p, c) \/ EndSlow(p, c) PROVE Busy(p)'
  <2>1. mig' = mig /\ call' = call
    BY <1>5 DEF CallSlow, EndSlow, schemaVars, toolVars
  <2>2. conn'[p][Sync] = conn[p][Sync]
    BY <1>0, <1>5 DEF CallSlow, EndSlow, Borrow, Lend, Refuse, GiveBack, LoseSlot, PoolTypeOK
  <2> QED
    BY <2>1, <2>2 DEF Busy, IsOpen, InCall, Migrating
<1>6. CASE UseTool(p)
  <2>1. conn' = conn /\ mig' = mig
    BY <1>6 DEF UseTool, QueryTables, poolVars, schemaVars
  <2>2. InCall(p) /\ InCall(p)'
    BY <1>0, <1>6, CallGoesOn DEF UseTool
  <2> QED
    BY <2>1, <2>2 DEF Busy, IsOpen, Migrating
<1>7. CASE LeaveTool(p)
  <2>1. (GiveBack(p, Sync) \/ LoseSlot(p, Sync)) /\ mig' = mig /\ InCall(p) /\ call' = [call EXCEPT ![p] = NoCall]
    BY <1>7 DEF LeaveTool, EndCall, schemaVars, InCall
  <2>2. ~IsOpen(p, Sync)'
    BY <1>0, <2>1 DEF GiveBack, LoseSlot, IsOpen, PoolTypeOK
  <2>3. ~InCall(p)'
    BY <1>0, <2>1 DEF InCall, ToolsTypeOK, NoCall
  <2> QED
    BY <2>1, <2>2, <2>3 DEF Busy, Migrating
<1>8. CASE Migrate(p)
  <2>1. conn' = conn /\ call' = call /\ MigrationStep(p)
    BY <1>8 DEF Migrate, poolVars, toolVars
  <2> QED
    BY <1>0, <2>1, MigrationGoesOn DEF Busy, IsOpen, InCall
<1>9. CASE LeaveMigration(p)
  <2>1. (GiveBack(p, Sync) \/ LoseSlot(p, Sync)) /\ call' = call /\ Migrating(p) /\ Set(p, NoMigration)
    BY <1>9 DEF LeaveMigration, EndMigration, toolVars, Migrating
  <2>2. ~IsOpen(p, Sync)'
    BY <1>0, <2>1 DEF GiveBack, LoseSlot, IsOpen, PoolTypeOK
  <2>3. ~Migrating(p)'
    BY <1>0, <2>1 DEF Migrating, SchemaTypeOK, NoMigration, Set
  <2> QED
    BY <2>1, <2>2, <2>3 DEF Busy, InCall
<1>10. CASE Crash(p)
  <2>1. ~IsOpen(p, Sync)'
    BY <1>0, <1>10 DEF Crash, StopProcess, NoCalls, IsOpen, PoolTypeOK
  <2>2. ~Migrating(p)'
    BY <1>0, <1>10 DEF Crash, ForgetMigrations, Migrating, SchemaTypeOK, NoMigration, Set
  <2>3. ~InCall(p)'
    BY <1>0, <1>10 DEF Crash, ForgetCall, InCall, ToolsTypeOK, NoCall
  <2> QED
    BY <2>1, <2>2, <2>3 DEF Busy
<1> QED
  BY <1>1, <1>2, <1>3, <1>4, <1>5, <1>6, <1>7, <1>8, <1>9, <1>10 DEF Ask, Work, Ops

\* The bounds on what is asked are kept.
LEMMA CountersKept == ASSUME Counters, [Next]_vars PROVE Counters'
<1>1. CASE UNCHANGED <<job, calls, crashes>>
  BY <1>1 DEF Counters
<1>2. ASSUME NEW p \in Processes, calls[p] < job.calls, calls' = [calls EXCEPT ![p] = @ + 1],
             UNCHANGED <<job, crashes>>
      PROVE  Counters'
  <2>1. job.calls \in Nat
    BY JobsAssumption DEF Counters
  <2>2. calls[p] + 1 \in 0..job.calls
    BY <1>2, <2>1 DEF Counters
  <2> QED
    BY <1>2, <2>2 DEF Counters
<1>3. ASSUME NEW p \in Processes, Crash(p) PROVE Counters'
  BY <1>3, JobsAssumption DEF Crash, Counters
<1>4. ASSUME NEW p \in Processes, Ask(p)
      PROVE  /\ calls[p] < job.calls /\ calls' = [calls EXCEPT ![p] = @ + 1]
             /\ UNCHANGED <<job, crashes>>
  BY <1>4 DEF Ask, CallTool, CallInitialize, Test, Close, Rollback, Reset, CallSlow, Asked
<1>5. ASSUME NEW p \in Processes, Start(p) \/ Work(p) PROVE UNCHANGED <<job, calls, crashes>>
  BY <1>5 DEF Start, Work, UseTool, LeaveTool, Migrate, LeaveMigration, EndSlow
<1> QED
  BY <1>1, <1>2, <1>3, <1>4, <1>5 DEF Next, vars

\* A step is one of one process in every component.
LEMMA OthersStay ==
  ASSUME PoolTypeOK, SchemaTypeOK, ToolsTypeOK, NEW p \in Processes, NEW q \in Processes \ {p},
         Start(p) \/ Ask(p) \/ Work(p) \/ Crash(p)
  PROVE  UNCHANGED <<conn[q], mig[q], call[q]>>
<1>0. Sync \in CallIds
  BY ApplicationsAssumption
<1>1. CASE Start(p)
  BY <1>1, OthersKept DEF Start, PoolStep, schemaVars, toolVars
<1>2. CASE Crash(p)
  BY <1>2, OthersKept, CallKept DEF Crash, PoolStep, SchemaStep, CallStep
<1>3. ASSUME NEW op \in Ops, NEW a \in Ids \cup {0}, CallTool(p, op, a)
      PROVE  UNCHANGED <<conn[q], mig[q], call[q]>>
  BY <1>0, <1>3, OthersKept, Begun DEF CallTool, PoolStep, schemaVars
<1>4. CASE CallInitialize(p)
  BY <1>0, <1>4, OthersKept DEF CallInitialize, PoolStep, SchemaStep, toolVars
<1>5. CASE Test(p) \/ Close(p) \/ \E k \in Keys : Rollback(p, k) \/ Reset(p, k)
  BY <1>5 DEF Test, Close, TestConnection, ClosePool, Rollback, Reset, RollbackMigration,
              ResetMigration, ForgetRows, poolVars, schemaVars, toolVars
<1>6. CASE \E c \in CallIds : CallSlow(p, c) \/ EndSlow(p, c)
  BY <1>6, OthersKept DEF CallSlow, EndSlow, PoolStep, schemaVars, toolVars
<1>7. CASE UseTool(p)
  BY <1>7, CallKept DEF UseTool, CallStep, QueryTables, poolVars, schemaVars
<1>8. CASE LeaveTool(p)
  BY <1>0, <1>8, OthersKept, CallKept DEF LeaveTool, PoolStep, CallStep, schemaVars
<1>9. CASE Migrate(p)
  BY <1>9, OthersKept DEF Migrate, SchemaStep, poolVars, toolVars
<1>10. CASE LeaveMigration(p)
  BY <1>0, <1>10, OthersKept DEF LeaveMigration, PoolStep, SchemaStep, toolVars
<1> QED
  BY <1>1, <1>2, <1>3, <1>4, <1>5, <1>6, <1>7, <1>8, <1>9, <1>10 DEF Ask, Work, Ops

\* Types, and a connection for each call (db_pool.py, tool_executor.py,
\* schema_manager.py, tools).
THEOREM JobStoreTypes == Spec => []TypeOK
<1> DEFINE Inv == Counters /\ \A p \in Processes : Busy(p)
           Others == PoolInv /\ SchemaInv /\ ToolInv
<1>1. Init => Inv
  <2> SUFFICES ASSUME Init PROVE Inv
    OBVIOUS
  <2>1. Counters
    BY JobsAssumption DEF Init, Counters
  <2>2. \A p \in Processes : conn[p] = NoCalls /\ mig[p] = NoMigration /\ call[p] = NoCall
    BY DEF Init, PoolInit, SchemaInit, ToolsInit
  <2> QED
    BY <2>1, <2>2, ApplicationsAssumption
       DEF Busy, IsOpen, NoCalls, InCall, NoCall, Migrating, NoMigration
<1>2. Others /\ Inv /\ [Next]_vars => Inv'
  <2> SUFFICES ASSUME Others, Inv, [Next]_vars PROVE Inv'
    OBVIOUS
  <2>1. Counters'
    BY CountersKept
  <2>2. CASE UNCHANGED vars
    BY <2>1, <2>2 DEF vars, poolVars, schemaVars, toolVars, Busy, IsOpen, InCall, Migrating
  <2>3. ASSUME NEW p \in Processes, Start(p) \/ Ask(p) \/ Work(p) \/ Crash(p),
               NEW q \in Processes \ {p}
        PROVE  Busy(q)'
    <3>1. UNCHANGED <<conn[q], mig[q], call[q]>>
      BY <2>3, OthersStay DEF PoolInv, SchemaInv, ToolInv
    <3> QED
      BY <3>1 DEF Busy, IsOpen, InCall, Migrating
  <2> QED
    BY <2>1, <2>2, <2>3, BusyKept DEF Next
<1>3. Others /\ Inv => TypeOK
  BY DEF TypeOK, PoolInv, SchemaInv, ToolInv, Counters, Busy
<1> QED
  BY <1>1, <1>2, <1>3, PoolHolds, SchemaHolds, ToolHolds, PTL DEF Spec

=============================================================================
