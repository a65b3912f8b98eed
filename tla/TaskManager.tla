----------------------------- MODULE TaskManager -----------------------------
(***************************************************************************)
(* runtime/tasks/task_manager.py: background tasks, their records, their   *)
(* events, and the callers that cancel them.                               *)
(*                                                                         *)
(* An action is the code from one suspension to the next; each publish is  *)
(* one.  A cancellation (task.cancel) is delivered when the task resumes,  *)
(* as a CancelledError at the await it is suspended in.  The bus does not  *)
(* contain a CancelledError (it is no Exception) and no subscriber catches *)
(* it.  The coroutine of a task is external: it may return, raise, or      *)
(* catch the CancelledError and do any of these.  There is an event bus,   *)
(* as in the agent the builder makes.                                      *)
(***************************************************************************)
EXTENDS Naturals, Sequences, SequencesExt

CONSTANTS
    Tasks,      \* the tasks that may be spawned
    Callers,    \* those who call cancel_task, one call at a time
    NoTask      \* what a caller that is not in cancel_task awaits

ASSUME NoTaskAssumption == NoTask \notin Tasks

VARIABLES
    at,         \* where spawn_task, then the task, is
    record,     \* _metadata[t]["status"]
    requested,  \* tasks with a cancellation to deliver
    events,     \* history: the events published of each task
    outcome,    \* how the task has ended
    awaiting,   \* the task a caller awaits in cancel_task
    answered    \* history: tasks for which cancel_task has returned True

vars == <<at, record, requested, events, outcome, awaiting, answered>>

Outcomes == {"completed", "cancelled", "failed"}
EventKinds == {"TaskCreated", "TaskCompleted", "TaskCancelled", "TaskFailed"}

\* The status recorded when the wrapper publishes its last event.
Publishing == Outcomes
Positions == {"absent", "announced", "created", "working", "done"} \cup Publishing

\* The tasks of _tasks that are not done.
Live == {t \in Tasks : at[t] \in {"created", "working"} \cup Publishing}

EventOf(status) ==
    CASE status = "completed" -> "TaskCompleted"
      [] status = "cancelled" -> "TaskCancelled"
      [] status = "failed" -> "TaskFailed"

Init ==
    /\ at = [t \in Tasks |-> "absent"]
    /\ record = [t \in Tasks |-> "none"]
    /\ requested = {}
    /\ events = [t \in Tasks |-> <<>>]
    /\ outcome = [t \in Tasks |-> "none"]
    /\ awaiting = [c \in Callers |-> NoTask]
    /\ answered = {}

callVars == <<awaiting, answered>>

-----------------------------------------------------------------------------
(* spawn_task.                                                             *)

\* The record is made and TaskCreated published; there is no task to cancel
\* until the publish returns.
Spawn(t) ==
    /\ at[t] = "absent"
    /\ at' = [at EXCEPT ![t] = "announced"]
    /\ record' = [record EXCEPT ![t] = "running"]
    /\ events' = [events EXCEPT ![t] = Append(@, "TaskCreated")]
    /\ UNCHANGED <<requested, outcome, callVars>>

CreateTask(t) ==
    /\ at[t] = "announced"
    /\ at' = [at EXCEPT ![t] = "created"]
    /\ UNCHANGED <<record, requested, events, outcome, callVars>>

-----------------------------------------------------------------------------
(* _wrapper.                                                               *)

\* The task starts, and awaits the coroutine.
Start(t) ==
    /\ at[t] = "created" /\ t \notin requested
    /\ at' = [at EXCEPT ![t] = "working"]
    /\ UNCHANGED <<record, requested, events, outcome, callVars>>

\* The wrapper records a status and publishes its event.
Report(t, status) ==
    /\ at' = [at EXCEPT ![t] = status]
    /\ record' = [record EXCEPT ![t] = status]
    /\ events' = [events EXCEPT ![t] = Append(@, EventOf(status))]
    /\ requested' = requested \ {t}
    /\ UNCHANGED <<outcome, callVars>>

\* The task ends.
End(t, result) ==
    /\ at' = [at EXCEPT ![t] = "done"]
    /\ outcome' = [outcome EXCEPT ![t] = result]
    /\ requested' = requested \ {t}
    /\ UNCHANGED <<record, events, callVars>>

\* The coroutine returns, ends with a CancelledError or raises another
\* exception, on its own or because it is cancelled.
CoroEnds(t, status) == at[t] = "working" /\ Report(t, status)

\* The coroutine catches the CancelledError and goes on.
Resist(t) ==
    /\ at[t] = "working" /\ t \in requested
    /\ requested' = requested \ {t}
    /\ UNCHANGED <<at, record, events, outcome, callVars>>

\* Cancelled before its first step, a task ends without entering its wrapper.
CancelUnstarted(t) == at[t] = "created" /\ t \in requested /\ End(t, "cancelled")

\* The publish returns, and the wrapper returns or raises.
EndPublish(t) == at[t] \in Publishing /\ t \notin requested /\ End(t, at[t])

\* Mutant of InterruptCompleted: TaskCompleted is published after the try.
InterruptUncaught(t) == at[t] = "completed" /\ t \in requested /\ End(t, "cancelled")

\* A cancellation during publish(TaskCompleted) is still in the try.
InterruptCompleted(t) == at[t] = "completed" /\ t \in requested /\ Report(t, "cancelled")

\* Mutant of InterruptHandler: the handlers are in the try too.
InterruptReporting(t) ==
    at[t] \in {"cancelled", "failed"} /\ t \in requested /\ Report(t, "cancelled")

\* During the publish of an except clause it is not: the task ends cancelled.
InterruptHandler(t) ==
    at[t] \in {"cancelled", "failed"} /\ t \in requested /\ End(t, "cancelled")

-----------------------------------------------------------------------------
(* cancel_task.  For a task that is absent or done it returns False and    *)
(* changes nothing.                                                        *)

\* Mutant of CancelTask: the record is left to the wrapper.
CancelUnrecorded(c, t) ==
    /\ awaiting[c] = NoTask
    /\ t \in Live
    /\ requested' = requested \cup {t}
    /\ awaiting' = [awaiting EXCEPT ![c] = t]
    /\ UNCHANGED <<at, record, events, outcome, answered>>

CancelTask(c, t) ==
    /\ awaiting[c] = NoTask
    /\ t \in Live
    /\ record' = [record EXCEPT ![t] = "cancelled"]
    /\ requested' = requested \cup {t}
    /\ awaiting' = [awaiting EXCEPT ![c] = t]
    /\ UNCHANGED <<at, events, outcome, answered>>

\* Mutant of Awaited: cancel_task does not await the task.
NotAwaited(c) == awaiting[c] # NoTask

\* Mutant of Awaited: only a cancelled task is waited for.
AwaitedCancelled(c) ==
    awaiting[c] # NoTask /\ outcome[awaiting[c]] = "cancelled"

Awaited(c) == awaiting[c] # NoTask /\ at[awaiting[c]] = "done"

\* The task has ended: cancel_task returns True, or raises what the task did.
CancelReturns(c) ==
    /\ Awaited(c)
    /\ awaiting' = [awaiting EXCEPT ![c] = NoTask]
    /\ answered' = IF outcome[awaiting[c]] = "failed" THEN answered
                   ELSE answered \cup {awaiting[c]}
    /\ UNCHANGED <<at, record, requested, events, outcome>>

-----------------------------------------------------------------------------
RunTask(t) ==
    \/ CreateTask(t) \/ Start(t) \/ Resist(t)
    \/ \E status \in Outcomes : CoroEnds(t, status)
    \/ CancelUnstarted(t) \/ EndPublish(t)
    \/ InterruptCompleted(t) \/ InterruptHandler(t)

Next ==
    \/ \E t \in Tasks : Spawn(t) \/ RunTask(t)
    \/ \E c \in Callers : CancelReturns(c) \/ \E t \in Tasks : CancelTask(c, t)

Spec == Init /\ [][Next]_vars

\* The event loop resumes what can go on, subscribers return, and so do
\* coroutines: cancel_task has no timeout.
FairSpec ==
    /\ Spec
    /\ \A t \in Tasks : WF_vars(RunTask(t))
    /\ \A c \in Callers : WF_vars(CancelReturns(c))

-----------------------------------------------------------------------------
(* Properties.                                                             *)

\* The values of the variables; a task publishes at most three events.
TypeOK ==
    /\ at \in [Tasks -> Positions]
    /\ record \in [Tasks -> {"none", "running"} \cup Outcomes]
    /\ requested \subseteq Live
    /\ events \in [Tasks -> Seq(EventKinds)]
    /\ \A t \in Tasks : Len(events[t]) <= 3
    /\ outcome \in [Tasks -> {"none"} \cup Outcomes]
    /\ awaiting \in [Callers -> Tasks \cup {NoTask}]
    /\ answered \subseteq Tasks

\* However its end and its cancellations interleave, the record of a task that
\* is done says how it ended.
RecordTellsOutcome ==
    \A t \in Tasks : at[t] = "done" => record[t] = outcome[t]

\* A subscriber that goes by the last event of a task learns no wrong outcome:
\* TaskCompleted and TaskCancelled come last only of a task that ended so, and
\* a task that completed or failed has published it last.
EventsTellOutcome ==
    \A t \in Tasks : at[t] = "done" =>
        /\ Last(events[t]) = "TaskCompleted" <=> outcome[t] = "completed"
        /\ Last(events[t]) = "TaskCancelled" => outcome[t] = "cancelled"
        /\ outcome[t] = "failed" => Last(events[t]) = "TaskFailed"

\* When cancel_task has returned True the task works no more, and has not
\* failed.
AnsweredHasEnded ==
    \A t \in answered : at[t] = "done" /\ outcome[t] \in {"completed", "cancelled"}

\* cancel_task ends.
CancelTaskReturns == \A c \in Callers : awaiting[c] # NoTask ~> awaiting[c] = NoTask

\* A task for which cancel_task has returned True is recorded as cancelled.
AnsweredIsCancelled == \A t \in answered : record[t] = "cancelled"
=============================================================================
