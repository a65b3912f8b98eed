---------------------------- MODULE ConnectionPool ----------------------------
(***************************************************************************)
(* The connection pool of each agent process (infrastructure/db_pool.py)   *)
(* and the tool executor that borrows from it (runtime/execution).         *)
(*                                                                         *)
(* execute_tool borrows a connection for every call, whether the tool uses *)
(* it or not, and holds it while the call lasts.  A tool of this           *)
(* repository is synchronous and blocks its process; a tool may also be a  *)
(* coroutine (core/interfaces/tool.py), and then other calls start while   *)
(* it holds its connection.                                                *)
(***************************************************************************)
CONSTANTS
    Processes,
    Conns,    \* the connections of one pool: maxconn of them
    CallIds,  \* the calls that may be open at a time in a process
    NoConn,   \* a call that got no connection: db_conn is None
    NotOpen   \* no such call

ASSUME ConnsAssumption == {NoConn, NotOpen} \cap Conns = {} /\ NoConn # NotOpen

VARIABLES
    up,         \* the processes that run
    pool,       \* those with a connection pool: _db_pool is not None
    available,  \* those whose _db_available is set
    used,       \* the connections a pool has handed out and not seen again
    lost,       \* history: those of them whose return failed
    conn        \* the connection each call holds

poolVars == <<up, pool, available, used, lost, conn>>

PoolTypeOK ==
    /\ up \subseteq Processes /\ pool \subseteq up /\ available \subseteq Processes
    /\ used \in [Processes -> SUBSET Conns] /\ lost \in [Processes -> SUBSET Conns]
    /\ conn \in [Processes -> [CallIds -> Conns \cup {NoConn, NotOpen}]]

NoCalls == [c \in CallIds |-> NotOpen]
IsOpen(p, c) == conn[p][c] # NotOpen

PoolInit ==
    /\ up = {} /\ pool = {} /\ available = Processes
    /\ used = [p \in Processes |-> {}] /\ lost = [p \in Processes |-> {}]
    /\ conn = [p \in Processes |-> NoCalls]

-----------------------------------------------------------------------------
\* The command line starts: init_db_pool succeeds, has failed max_retries times,
\* or is not called for want of a URL.
StartProcess(p) ==
    /\ p \notin up /\ up' = up \cup {p}
    /\ \/ pool' = pool \cup {p} /\ available' = available \cup {p}
       \/ pool' = pool /\ available' \in {available \cup {p}, available \ {p}}
    /\ UNCHANGED <<used, lost, conn>>

\* The process ends: its connections are closed with it.
StopProcess(p) ==
    /\ p \in up /\ up' = up \ {p}
    /\ pool' = pool \ {p} /\ available' = available \cup {p}
    /\ used' = [used EXCEPT ![p] = {}] /\ lost' = [lost EXCEPT ![p] = {}]
    /\ conn' = [conn EXCEPT ![p] = NoCalls]

\* get_connection succeeds.
Lend(p, c) ==
    /\ p \in pool
    /\ \E k \in Conns \ used[p] :
        /\ used' = [used EXCEPT ![p] = @ \cup {k}]
        /\ conn' = [conn EXCEPT ![p][c] = k]
    /\ UNCHANGED available

\* It raises, as there is no pool, the pool is exhausted or the server gone, and
\* the executor goes on without.  Nothing sets the flag again.
Refuse(p, c) ==
    /\ available' = IF p \in pool THEN available \ {p} ELSE available
    /\ conn' = [conn EXCEPT ![p][c] = NoConn]
    /\ UNCHANGED used

Borrow(p, c) ==
    /\ p \in up /\ ~IsOpen(p, c)
    /\ Lend(p, c) \/ Refuse(p, c)
    /\ UNCHANGED <<up, pool, lost>>

\* Mutant of GiveBack: only a call that succeeded returns its connection.
KeepConnection(p, c) ==
    /\ conn' = [conn EXCEPT ![p][c] = NotOpen]
    /\ UNCHANGED <<up, pool, available, used, lost>>

\* The finally clause of execute_tool, whatever the tool did: putconn takes the
\* connection back, rolls back what it left open, and frees its slot.
GiveBack(p, c) ==
    /\ IsOpen(p, c)
    /\ conn' = [conn EXCEPT ![p][c] = NotOpen]
    /\ used' = IF p \in pool THEN [used EXCEPT ![p] = @ \ {conn[p][c]}] ELSE used
    /\ UNCHANGED <<up, pool, available, lost>>

\* putconn raises, as the connection was lost with a transaction open on it and
\* cannot be rolled back: return_connection logs that, and the slot stays taken.
LoseSlot(p, c) ==
    /\ IsOpen(p, c)
    /\ p \in pool /\ conn[p][c] \in Conns
    /\ lost' = [lost EXCEPT ![p] = @ \cup {conn[p][c]}]
    /\ conn' = [conn EXCEPT ![p][c] = NotOpen]
    /\ UNCHANGED <<up, pool, available, used>>

\* test_connection: a connection is borrowed, tried and returned, or lost so.
TestConnection(p) ==
    /\ p \in pool
    /\ \/ used[p] # Conns /\ UNCHANGED <<available, used, lost>>
       \/ available' = available \ {p} /\ UNCHANGED <<used, lost>>
       \/ \E k \in Conns \ used[p] :
            /\ used' = [used EXCEPT ![p] = @ \cup {k}]
            /\ lost' = [lost EXCEPT ![p] = @ \cup {k}]
            /\ available' \in {available, available \ {p}}
    /\ UNCHANGED <<up, pool, conn>>

\* close_pool, with calls that may still hold connections.
ClosePool(p) ==
    /\ p \in pool /\ pool' = pool \ {p}
    /\ available' = available \ {p}
    /\ used' = [used EXCEPT ![p] = {}] /\ lost' = [lost EXCEPT ![p] = {}]
    /\ UNCHANGED <<up, conn>>

-----------------------------------------------------------------------------
\* The pool and the calls agree: a connection is out exactly while one open call
\* holds it, or for good once its return has failed.  So nothing a tool does leaks
\* one, and an exhausted pool recovers when its calls end, up to those lost so.
ConnectionsConserved ==
    \A p \in pool :
        LET held == {conn[p][c] : c \in CallIds} \cap Conns
        IN /\ used[p] = held \cup lost[p] /\ held \cap lost[p] = {}
           /\ \A c, d \in CallIds : conn[p][c] = conn[p][d] /\ conn[p][c] \in held => c = d

=============================================================================
