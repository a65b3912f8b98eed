-------------------------- MODULE TaskManagerProofs --------------------------
(* What TaskManager does for every set of tasks and callers. *)
EXTENDS TaskManager, TLAPS

USE NoTaskAssumption

-----------------------------------------------------------------------------
(* The inductive invariant.                                                *)

Types ==
    /\ at \in [Tasks -> Positions]
    /\ record \in [Tasks -> {"none", "running"} \cup Outcomes]
    /\ requested \subseteq Tasks
    /\ events \in [Tasks -> Seq(EventKinds)]
    /\ outcome \in [Tasks -> {"none"} \cup Outcomes]
    /\ awaiting \in [Callers -> Tasks \cup {NoTask}]
    /\ answered \subseteq Tasks

\* The record of a task is the outcome it is heading for: "cancelled" while a
\* cancellation has to be delivered, the status it publishes otherwise.
Recorded(t) ==
    /\ t \in requested => at[t] \in {"created", "working"} \cup Publishing
    /\ t \in requested => record[t] = "cancelled"
    /\ at[t] \in Publishing /\ t \notin requested => record[t] = at[t]
    /\ at[t] = "done" => record[t] = outcome[t] /\ outcome[t] \in Outcomes

\* What has been published of a task, by where it is.
Published(t) ==
    LET n == Len(events[t]) IN
    /\ at[t] = "absent" => n = 0
    /\ at[t] \in {"announced", "created", "working"} => n = 1 /\ events[t][n] = "TaskCreated"
    /\ at[t] \in {"completed", "failed"} => n = 2
    /\ at[t] = "cancelled" => n \in 2..3
    /\ at[t] \in Publishing => events[t][n] = EventOf(at[t])
    /\ at[t] = "done" =>
         /\ n \in 1..3
         /\ events[t][n] = "TaskCompleted" <=> outcome[t] = "completed"
         /\ events[t][n] = "TaskCancelled" => outcome[t] = "cancelled"
         /\ outcome[t] = "failed" => events[t][n] = "TaskFailed"

Inv ==
    /\ Types
    /\ \A t \in Tasks : Recorded(t) /\ Published(t)
    /\ AnsweredHasEnded

\* A step leaves task t alone.
Untouched(t) ==
    /\ at'[t] = at[t] /\ record'[t] = record[t] /\ events'[t] = events[t]
    /\ outcome'[t] = outcome[t] /\ (t \in requested' <=> t \in requested)

LEMMA UntouchedKeeps ==
  ASSUME NEW t \in Tasks, Recorded(t), Published(t), Untouched(t)
  PROVE  Recorded(t)' /\ Published(t)'
<1>1. Recorded(t)'
  BY DEF Recorded, Untouched
<1>2. Published(t)'
  BY DEF Published, Untouched
<1> QED BY <1>1, <1>2

\* A step that touches only a task that is not done keeps what has been answered.
LEMMA AnswersKept ==
  ASSUME Inv, NEW t \in Tasks, at[t] # "done", answered' = answered,
         \A u \in Tasks \ {t} : Untouched(u)
  PROVE  AnsweredHasEnded'
<1> SUFFICES ASSUME NEW u \in answered
             PROVE  at'[u] = "done" /\ outcome'[u] \in {"completed", "cancelled"}
  BY DEF AnsweredHasEnded
<1>1. u \in Tasks /\ at[u] = "done" /\ outcome[u] \in {"completed", "cancelled"}
  BY DEF Inv, Types, AnsweredHasEnded
<1> QED BY <1>1 DEF Untouched

\* Publishing one more event.
LEMMA OneMoreEvent ==
  ASSUME Types, NEW t \in Tasks, NEW e \in EventKinds,
         events' = [events EXCEPT ![t] = Append(@, e)]
  PROVE  /\ events' \in [Tasks -> Seq(EventKinds)]
         /\ Len(events'[t]) = Len(events[t]) + 1
         /\ events'[t][Len(events'[t])] = e
         /\ \A u \in Tasks \ {t} : events'[u] = events[u]
         /\ Len(events[t]) \in Nat
BY DEF Types

-----------------------------------------------------------------------------
(* The steps.                                                              *)

\* A wrapper that reports a status keeps the invariant.
LEMMA ReportKeeps ==
  ASSUME Inv, NEW t \in Tasks, NEW status \in Outcomes, Report(t, status),
         at[t] = "working" \/ (at[t] = "completed" /\ status = "cancelled")
  PROVE  Inv'
<1>1. EventOf(status) \in EventKinds
  BY DEF EventOf, Outcomes, EventKinds
<1>2. /\ events' \in [Tasks -> Seq(EventKinds)]
      /\ Len(events'[t]) = Len(events[t]) + 1
      /\ events'[t][Len(events'[t])] = EventOf(status)
      /\ \A u \in Tasks \ {t} : events'[u] = events[u]
  BY <1>1, OneMoreEvent DEF Inv, Report
<1>3. /\ at'[t] = status /\ record'[t] = status /\ t \notin requested'
      /\ outcome' = outcome /\ answered' = answered
  BY DEF Inv, Types, Report, callVars
<1>4. Types'
  BY <1>2 DEF Inv, Types, Report, callVars, Positions, Publishing
<1>5. \A u \in Tasks \ {t} : Untouched(u)
  BY <1>2 DEF Inv, Types, Report, Untouched, callVars
<1>6. Recorded(t)'
  BY <1>3 DEF Recorded, Publishing, Outcomes
<1>7. Published(t)'
  <2>1. Len(events[t]) \in 1..2 /\ (status # "cancelled" => Len(events[t]) = 1)
    BY DEF Inv, Published
  <2> DEFINE n == Len(events[t])
             m == Len(events'[t])
  <2>2. m \in 2..3 /\ (status # "cancelled" => m = 2)
    <3>1. m = n + 1 /\ n \in 1..2 /\ (status # "cancelled" => n = 1)
      BY <1>2, <2>1
    <3> HIDE DEF n, m
    <3> QED BY <3>1
  <2> QED BY <1>2, <1>3, <2>2 DEF Published, Publishing, Outcomes
<1>8. AnsweredHasEnded'
  BY <1>3, <1>5, AnswersKept
<1> QED BY <1>4, <1>5, <1>6, <1>7, <1>8, UntouchedKeeps DEF Inv

\* A task that ends as its record says keeps the invariant.
LEMMA EndKeeps ==
  ASSUME Inv, NEW t \in Tasks, NEW result \in Outcomes, End(t, result),
         record[t] = result,
         \/ at[t] = "created" /\ result = "cancelled"
         \/ at[t] \in Publishing /\ result = at[t]
         \/ at[t] \in {"cancelled", "failed"} /\ result = "cancelled"
  PROVE  Inv'
<1>1. /\ at'[t] = "done" /\ record'[t] = result /\ t \notin requested'
      /\ outcome'[t] = result /\ events' = events /\ answered' = answered
  BY DEF Inv, Types, End, callVars
<1>2. Types'
  BY DEF Inv, Types, End, callVars, Positions
<1>3. \A u \in Tasks \ {t} : Untouched(u)
  BY DEF Inv, Types, End, Untouched, callVars
<1>4. Recorded(t)'
  BY <1>1 DEF Recorded, Publishing, Outcomes
<1>5. Published(t)'
  BY <1>1 DEF Inv, Published, Publishing, Outcomes, EventOf
<1>6. at[t] # "done"
  BY DEF Publishing, Outcomes
<1>7. AnsweredHasEnded'
  BY <1>1, <1>3, <1>6, AnswersKept
<1> QED BY <1>2, <1>3, <1>4, <1>5, <1>7, UntouchedKeeps DEF Inv

\* The invariant is inductive.
LEMMA InvStep == Inv /\ [Next]_vars => Inv'
<1> SUFFICES ASSUME Inv, [Next]_vars PROVE Inv'
  OBVIOUS
<1> USE DEF callVars
<1>1. ASSUME NEW t \in Tasks, Spawn(t) PROVE Inv'
  <2>1. "TaskCreated" \in EventKinds
    BY DEF EventKinds
  <2>2. /\ events' \in [Tasks -> Seq(EventKinds)]
        /\ Len(events'[t]) = Len(events[t]) + 1
        /\ events'[t][Len(events'[t])] = "TaskCreated"
        /\ \A u \in Tasks \ {t} : events'[u] = events[u]
    BY <1>1, <2>1, OneMoreEvent DEF Inv, Spawn
  <2>3. Types'
    BY <1>1, <2>2 DEF Inv, Types, Spawn, Positions
  <2>4. \A u \in Tasks \ {t} : Untouched(u)
    BY <1>1, <2>2 DEF Inv, Types, Spawn, Untouched
  <2>5. /\ at[t] = "absent" /\ at'[t] = "announced" /\ t \notin requested'
        /\ answered' = answered
    BY <1>1 DEF Inv, Types, Recorded, Spawn, Publishing, Outcomes
  <2>6. Recorded(t)'
    BY <2>5 DEF Recorded, Publishing, Outcomes
  <2>7. Published(t)'
    BY <2>2, <2>5 DEF Inv, Published, Publishing, Outcomes
  <2>8. AnsweredHasEnded'
    BY <2>4, <2>5, AnswersKept
  <2> QED BY <2>3, <2>4, <2>6, <2>7, <2>8, UntouchedKeeps DEF Inv
<1>2. ASSUME NEW t \in Tasks, CreateTask(t) \/ Start(t) PROVE Inv'
  <2>1. Types'
    BY <1>2 DEF Inv, Types, CreateTask, Start, Positions
  <2>2. \A u \in Tasks \ {t} : Untouched(u)
    BY <1>2 DEF Inv, Types, CreateTask, Start, Untouched
  <2>3. /\ at[t] \in {"announced", "created"} /\ at'[t] \in {"created", "working"}
        /\ t \notin requested' /\ events' = events /\ answered' = answered
    BY <1>2 DEF Inv, Types, Recorded, CreateTask, Start, Publishing, Outcomes
  <2>4. Recorded(t)' /\ Published(t)'
    BY <2>3 DEF Inv, Recorded, Published, Publishing, Outcomes
  <2>5. AnsweredHasEnded'
    BY <2>2, <2>3, AnswersKept
  <2> QED BY <2>1, <2>2, <2>4, <2>5, UntouchedKeeps DEF Inv
<1>3. ASSUME NEW t \in Tasks, Resist(t) PROVE Inv'
  <2>1. Types' /\ AnsweredHasEnded'
    BY <1>3 DEF Inv, Types, AnsweredHasEnded, Resist
  <2>2. \A u \in Tasks \ {t} : Untouched(u)
    BY <1>3 DEF Inv, Types, Resist, Untouched
  <2>3. Recorded(t)' /\ Published(t)'
    BY <1>3 DEF Inv, Recorded, Published, Resist, Publishing, Outcomes
  <2> QED BY <2>1, <2>2, <2>3, UntouchedKeeps DEF Inv
<1>4. ASSUME NEW t \in Tasks, NEW status \in Outcomes, CoroEnds(t, status) PROVE Inv'
  BY <1>4, ReportKeeps DEF CoroEnds
<1>5. ASSUME NEW t \in Tasks, InterruptCompleted(t) PROVE Inv'
  BY <1>5, ReportKeeps DEF InterruptCompleted, Outcomes
<1>6. ASSUME NEW t \in Tasks, CancelUnstarted(t) PROVE Inv'
  BY <1>6, EndKeeps DEF Inv, Recorded, CancelUnstarted, Outcomes
<1>7. ASSUME NEW t \in Tasks, EndPublish(t) PROVE Inv'
  BY <1>7, EndKeeps DEF Inv, Recorded, EndPublish, Publishing
<1>8. ASSUME NEW t \in Tasks, InterruptHandler(t) PROVE Inv'
  BY <1>8, EndKeeps DEF Inv, Recorded, InterruptHandler, Outcomes
<1>9. ASSUME NEW c \in Callers, NEW t \in Tasks, CancelTask(c, t) PROVE Inv'
  <2>1. Types'
    BY <1>9 DEF Inv, Types, CancelTask, Outcomes
  <2>2. \A u \in Tasks \ {t} : Untouched(u)
    BY <1>9 DEF Inv, Types, CancelTask, Untouched
  <2>3. /\ at[t] \in {"created", "working"} \cup Publishing /\ at' = at
        /\ t \in requested' /\ record'[t] = "cancelled" /\ outcome' = outcome
        /\ events' = events /\ answered' = answered
    BY <1>9 DEF Inv, Types, CancelTask, Live
  <2>4. Recorded(t)' /\ Published(t)'
    BY <2>3 DEF Inv, Recorded, Published, Publishing, Outcomes
  <2>5. AnsweredHasEnded'
    BY <2>3 DEF Inv, AnsweredHasEnded
  <2> QED BY <2>1, <2>2, <2>4, <2>5, UntouchedKeeps DEF Inv
<1>10. ASSUME NEW c \in Callers, CancelReturns(c) PROVE Inv'
  <2>1. awaiting[c] \in Tasks /\ at[awaiting[c]] = "done" /\ outcome[awaiting[c]] \in Outcomes
    BY <1>10 DEF Inv, Types, Recorded, CancelReturns, Awaited
  <2>2. Types'
    BY <1>10, <2>1 DEF Inv, Types, CancelReturns
  <2>3. AnsweredHasEnded'
    BY <1>10, <2>1 DEF Inv, AnsweredHasEnded, CancelReturns, Outcomes
  <2>4. \A u \in Tasks : Untouched(u)
    BY <1>10 DEF Untouched, CancelReturns
  <2> QED BY <2>2, <2>3, <2>4, UntouchedKeeps DEF Inv
<1>11. CASE UNCHANGED vars
  <2>1. Types' /\ AnsweredHasEnded' /\ \A u \in Tasks : Untouched(u)
    BY <1>11 DEF Inv, Types, AnsweredHasEnded, Untouched, vars
  <2> QED BY <2>1, UntouchedKeeps DEF Inv
<1> QED BY <1>1, <1>2, <1>3, <1>4, <1>5, <1>6, <1>7, <1>8, <1>9, <1>10, <1>11
        DEF Next, RunTask

\* Records, events and answers stay consistent, whatever the tasks do and
\* whenever they are cancelled.
THEOREM InvariantHolds == Spec => []Inv
<1>1. Init => Inv
  <2> SUFFICES ASSUME Init PROVE Inv
    OBVIOUS
  <2>1. Types /\ AnsweredHasEnded
    BY DEF Init, Types, AnsweredHasEnded, Positions
  <2>2. \A t \in Tasks : Recorded(t) /\ Published(t)
    BY DEF Init, Recorded, Published, Publishing, Outcomes
  <2> QED BY <2>1, <2>2 DEF Inv
<1> QED BY <1>1, InvStep, PTL DEF Spec

\* The variables of the task manager keep their types; a task publishes at most
\* three events.
THEOREM Typing == Spec => []TypeOK
<1>1. Inv => TypeOK
  <2> SUFFICES ASSUME Inv PROVE TypeOK
    OBVIOUS
  <2>1. requested \subseteq Live
    BY DEF Inv, Types, Recorded, Live
  <2>2. ASSUME NEW t \in Tasks PROVE Len(events[t]) <= 3
    <3>1. Published(t) /\ at[t] \in Positions
      BY DEF Inv, Types
    <3> DEFINE n == Len(events[t])
    <3>2. n \in 0..3
      BY <3>1 DEF Published, Positions, Publishing, Outcomes
    <3> HIDE DEF n
    <3>3. n <= 3
      BY <3>2
    <3> QED BY <3>3 DEF n
  <2> QED BY <2>1, <2>2 DEF Inv, Types, TypeOK
<1> QED BY <1>1, InvariantHolds, PTL

\* The record of a task that is done tells how it ended (_wrapper and
\* cancel_task write it at every interleaving).
THEOREM RecordsTruthful == Spec => []RecordTellsOutcome
<1>1. Inv => RecordTellsOutcome
  BY DEF Inv, Recorded, RecordTellsOutcome
<1> QED BY <1>1, InvariantHolds, PTL

\* The last event of a task that is done tells no wrong outcome.
THEOREM EventsTruthful == Spec => []EventsTellOutcome
<1>1. Inv => EventsTellOutcome
  BY DEF Inv, Published, EventsTellOutcome, Last
<1> QED BY <1>1, InvariantHolds, PTL

\* When cancel_task has returned True the task is done and did not fail.
THEOREM AnswersTruthful == Spec => []AnsweredHasEnded
<1>1. Inv => AnsweredHasEnded
  BY DEF Inv
<1> QED BY <1>1, InvariantHolds, PTL
=============================================================================
