------------------------------- MODULE JobStore -------------------------------
(***************************************************************************)
(* The agent processes that share one database: the pool of each, the      *)
(* calls of its tools, its schema manager, and crashes between any two     *)
(* statements.  A process has one synchronous call at a time, of a tool or *)
(* of the schema manager, and meanwhile does nothing else.                 *)
(***************************************************************************)
EXTENDS Applications

CONSTANTS
    Jobs,        \* what the processes are asked to do in a behaviour, and how often
    MaxCrashes   \* bound on the crashes of all

VARIABLES
    job,      \* the job of this behaviour
    calls,    \* how many calls each process has begun
    crashes   \* how many crashes there were

vars == <<poolVars, schemaVars, toolVars, job, calls, crashes>>

\* The operations asked of each process, and the database it finds.
SchemaOps == {"initialize", "rollback", "reset"}
PoolOps == {"slow", "test", "close"}

ASSUME JobsAssumption ==
    /\ \A j \in Jobs : /\ j.ops \in [Processes -> SUBSET (Ops \cup SchemaOps \cup PoolOps)]
                       /\ j.calls \in Nat  \* bound on the calls of one process
                       /\ j.migrated \in BOOLEAN
                       /\ j.drafts \subseteq Ids /\ IsFiniteSet(j.drafts)
                       /\ j.drafts = 1..Cardinality(j.drafts)
    /\ MaxCrashes \in Nat

Init ==
    /\ job \in Jobs
    /\ calls = [p \in Processes |-> 0] /\ crashes = 0
    /\ PoolInit /\ SchemaInit(job.migrated) /\ ToolsInit(job.drafts)

\* The event loop of the process is free.
Free(p) == p \in up /\ ~InCall(p) /\ ~Migrating(p)

Asked(p, op) ==
    /\ Free(p) /\ op \in job.ops[p]
    /\ calls[p] < job.calls /\ calls' = [calls EXCEPT ![p] = @ + 1]
    /\ UNCHANGED <<job, crashes>>

Start(p) ==
    /\ StartProcess(p)
    /\ UNCHANGED <<schemaVars, toolVars, job, calls, crashes>>

\* execute_tool begins: the connection first.
CallTool(p, op, a) ==
    /\ Asked(p, op)
    /\ Borrow(p, Sync) /\ StartCall(p, op, a)
    /\ UNCHANGED schemaVars

CallSlow(p, c) ==
    /\ Asked(p, "slow")
    /\ c # Sync /\ Borrow(p, c)
    /\ UNCHANGED <<schemaVars, toolVars>>

EndSlow(p, c) ==
    /\ Free(p)
    /\ c # Sync /\ (GiveBack(p, c) \/ LoseSlot(p, c))
    /\ UNCHANGED <<schemaVars, toolVars, job, calls, crashes>>

UseTool(p) ==
    /\ \/ ToolStep(p) /\ UNCHANGED schemaVars
       \/ QueryTables(p)
       \/ /\ CommitSave(p)
          /\ UNCHANGED <<records, initialized, mig, undone, crossed, unverified, altered>>
    /\ UNCHANGED <<poolVars, job, calls, crashes>>

LeaveTool(p) ==
    /\ EndCall(p)
    /\ GiveBack(p, Sync) \/ (call[p].at = "open" /\ LoseSlot(p, Sync))
    /\ UNCHANGED <<schemaVars, job, calls, crashes>>

\* The schema manager is given a connection that its caller has borrowed.
CallInitialize(p) ==
    /\ Asked(p, "initialize")
    /\ Borrow(p, Sync) /\ conn'[p][Sync] # NoConn
    /\ Initialize(p)
    /\ UNCHANGED toolVars

Migrate(p) ==
    /\ MigrationStep(p)
    /\ UNCHANGED <<poolVars, toolVars, job, calls, crashes>>

LeaveMigration(p) ==
    /\ EndMigration(p) /\ (GiveBack(p, Sync) \/ LoseSlot(p, Sync))
    /\ UNCHANGED <<toolVars, job, calls, crashes>>

Rollback(p, k) ==
    /\ Asked(p, "rollback") /\ p \in pool /\ used[p] # Conns
    /\ RollbackMigration(p, k) /\ ForgetRows(TableOf[k])
    /\ UNCHANGED poolVars

Reset(p, k) ==
    /\ Asked(p, "reset") /\ p \in pool /\ used[p] # Conns
    /\ ResetMigration(k)
    /\ UNCHANGED <<poolVars, toolVars>>

Test(p) == Asked(p, "test") /\ TestConnection(p) /\ UNCHANGED <<schemaVars, toolVars>>
Close(p) == Asked(p, "close") /\ ClosePool(p) /\ UNCHANGED <<schemaVars, toolVars>>

\* Uncommitted work is gone with the connections; the database keeps the rest.
Crash(p) ==
    /\ crashes < MaxCrashes /\ crashes' = crashes + 1
    /\ StopProcess(p) /\ ForgetMigrations(p) /\ ForgetCall(p)
    /\ UNCHANGED <<job, calls>>

-----------------------------------------------------------------------------
Ask(p) ==
    \/ \E op \in {"send", "delete"} : \E a \in Ids : CallTool(p, op, a)
    \/ \E op \in Ops \ {"send", "delete"} : CallTool(p, op, 0)
    \/ CallInitialize(p) \/ Test(p) \/ Close(p)
    \/ \E k \in Keys : Rollback(p, k) \/ Reset(p, k)
    \/ \E c \in CallIds : CallSlow(p, c)

Work(p) ==
    \/ UseTool(p) \/ LeaveTool(p) \/ Migrate(p) \/ LeaveMigration(p)
    \/ \E c \in CallIds : EndSlow(p, c)

Next == \E p \in Processes : Start(p) \/ Ask(p) \/ Work(p) \/ Crash(p)

Spec == Init /\ [][Next]_vars

\* A process that has a call goes on with it, and a coroutine ends.
FairSpec == Spec /\ \A p \in Processes : WF_vars(Work(p))

-----------------------------------------------------------------------------
TypeOK ==
    /\ job \in Jobs
    /\ calls \in [Processes -> 0..job.calls] /\ crashes \in 0..MaxCrashes
    /\ PoolTypeOK /\ SchemaTypeOK /\ ToolsTypeOK
    /\ \A p \in Processes : IsOpen(p, Sync) <=> InCall(p) \/ Migrating(p)

\* Every call ends, whatever fails, is retried or crashes: time and again no call
\* is open and no connection out but those whose return failed.
CallsEnd == []<>(\A p \in Processes : used[p] = lost[p] /\ conn[p] = NoCalls)

=============================================================================
