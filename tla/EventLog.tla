------------------------------- MODULE EventLog -------------------------------
(***************************************************************************)
(* The events of the runs of one agent: the bus (runtime/events), the      *)
(* state store and its reducer (runtime/state), and a recorder with the    *)
(* replay of its record (runtime/recording).                               *)
(*                                                                         *)
(* Producers: the coroutine of a run, <<r, 0>>, and the task of a step of  *)
(* its plan, <<r, s>>; which step may start when is DAGScheduler's matter, *)
(* here any pending one.  Runs follow each other, as in the command line.  *)
(*                                                                         *)
(* On the bus are the store, subscribed first, subscribers that may        *)
(* suspend or raise, and behind them the recorder, once per start().  The  *)
(* store does not suspend, so an event reaches it in the action that       *)
(* publishes it; the recorder gets it when the producer goes on.  A task   *)
(* cancelled in between never delivers the event: the bus contains         *)
(* Exceptions, which CancelledError is not.                                *)
(***************************************************************************)
EXTENDS Naturals, Sequences, FiniteSets

CONSTANTS
    Runs,
    Steps,      \* step ids
    Sessions,   \* what the user may do, see SessionsAssumption
    Recalling,  \* the runs for whose message the memory finds something
    Unbound,    \* the run id of a recorder of all runs, and "no run"
    MaxStarts   \* bound on the calls of start()

ASSUME UnboundAssumption == Unbound \notin Runs
ASSUME StepsAssumption == IsFiniteSet(Runs) /\ IsFiniteSet(Steps) /\ 0 \notin Steps
ASSUME RecallingAssumption == Recalling \subseteq Runs
\* The runs that are started, with the steps of their plans, and those that are
\* not the first; what a recorder may be bound to; how many events are reduced
\* before it is stopped and started for the last time; the steps that have a tool,
\* the others ask the model or do nothing; the runs that may be cancelled, those in
\* which tools and steps may fail, and those whose plans may deadlock.
ASSUME SessionsAssumption ==
    \A x \in Sessions :
        /\ DOMAIN x.plans \subseteq Runs /\ \A r \in DOMAIN x.plans : x.plans[r] \subseteq Steps
        /\ x.later \subseteq Runs /\ x.bounds \subseteq Runs \cup {Unbound}
        /\ x.restarts \in Nat /\ x.tools \subseteq Runs \X Steps
        /\ x.cancels \subseteq Runs /\ x.fails \subseteq Runs /\ x.stuck \subseteq Runs
ASSUME BoundsAssumption == MaxStarts \in Nat

VARIABLES
    session,     \* what the user does in this behaviour
    main,        \* where the coroutine of a run is
    task,        \* where the task of a step is
    live,        \* the statuses in the plan object the scheduler works on
    token,       \* the runs whose cancellation is requested
    doomed,      \* step tasks with a cancellation to deliver
    interrupted, \* history: the tasks cancelled inside a publish
    pub,         \* the event each producer is publishing
    snapshot,    \* the store's current StateSnapshot
    shared,      \* its active_plan is the scheduler's own plan object
    bound,       \* the recorder's run_id
    recording,   \* its _subscribed flag
    recorders,   \* its subscriptions on the bus
    recorded     \* recorded_events

runVars == <<session, main, task, token, doomed, interrupted>>
recorderVars == <<bound, recording, recorders>>
vars == <<runVars, live, pub, snapshot, shared, recorderVars, recorded>>

StepsOf == Runs \X Steps
Producers == Runs \X (Steps \cup {0})
PlanSteps(r) == IF r \in DOMAIN session.plans THEN session.plans[r] ELSE {}

Statuses == {"pending", "running", "completed", "failed", "cancelled"}
Resolved == {"completed", "failed", "cancelled"}

-----------------------------------------------------------------------------
(* Events.  RuntimeStopped with reason "error" is RuntimeFailed here.      *)

\* Published without a context.
StepKinds == {"StepScheduled", "StepStarted", "StepFinished", "StepFailed", "StepCancelled"}
\* Mutant of ReplayKinds: StepCancelled is forgotten.
KindsButCancelled ==
    (StepKinds \ {"StepCancelled"}) \cup
        {"RuntimeStarted", "MessageReceived", "PlanCreated", "ToolStarted", "ToolFinished",
         "ToolFailed", "MessageSent", "RuntimeStopped", "RuntimeFailed"}
\* In the replay's EVENT_CLASS_MAP.
ReplayKinds ==
    StepKinds \cup {"RuntimeStarted", "MessageReceived", "PlanCreated", "ToolStarted",
                    "ToolFinished", "ToolFailed", "MessageSent", "RuntimeStopped",
                    "RuntimeFailed"}
Kinds == ReplayKinds \cup {"MemoryRetrieved"}

\* The run and step an event comes from; an event of StepKinds names no run.
Events == [kind : Kinds, run : Runs, step : Steps \cup {0}]
Event(k, r, s) == [kind |-> k, run |-> r, step |-> s]
NoEvent == [event |-> Event("none", Unbound, 0), copies |-> 0]

-----------------------------------------------------------------------------
(* reduce_state.                                                           *)

NoPlan == [owner |-> Unbound, status |-> <<>>]
PlanOf(r) == [owner |-> r, status |-> [s \in PlanSteps(r) |-> "pending"]]
\* The plans that the PlanCreated events carry.
Plans == [r \in Runs |-> PlanOf(r)]

InitialState ==
    [sequence |-> 0, run |-> Unbound, status |-> "idle", messages |-> <<>>,
     plan |-> NoPlan, calls |-> 0, succeeded |-> 0, failed |-> 0, current |-> 0]

\* A step event finds its step by step_id alone, whatever plan is active.
Mark(plan, s, status) ==
    IF s \in DOMAIN plan.status THEN [plan EXCEPT !.status[s] = status] ELSE plan

Reduce(plans, st, e) ==
    LET next == [st EXCEPT !.sequence = @ + 1,
                           !.run = IF e.kind \in StepKinds THEN @ ELSE e.run]
    IN CASE e.kind \in {"MessageReceived", "MessageSent"} ->
                [next EXCEPT !.messages = Append(@, <<e.kind, e.run>>)]
         [] e.kind = "PlanCreated" -> [next EXCEPT !.plan = plans[e.run]]
         [] e.kind = "ToolStarted" -> [next EXCEPT !.calls = @ + 1, !.current = e.step]
         [] e.kind = "ToolFinished" -> [next EXCEPT !.succeeded = @ + 1, !.current = 0]
         [] e.kind = "ToolFailed" -> [next EXCEPT !.failed = @ + 1, !.current = 0]
         [] e.kind = "RuntimeStarted" -> [next EXCEPT !.status = "running"]
         [] e.kind = "RuntimeStopped" -> [next EXCEPT !.status = "completed"]
         [] e.kind = "RuntimeFailed" -> [next EXCEPT !.status = "failed"]
         [] e.kind = "StepStarted" ->
                [next EXCEPT !.current = e.step, !.plan = Mark(@, e.step, "running")]
         [] e.kind = "StepFinished" ->
                [next EXCEPT !.current = 0, !.plan = Mark(@, e.step, "completed")]
         [] e.kind = "StepFailed" ->
                [next EXCEPT !.current = 0, !.plan = Mark(@, e.step, "failed")]
         [] e.kind = "StepCancelled" ->
                [next EXCEPT !.current = 0, !.plan = Mark(@, e.step, "cancelled")]
         [] OTHER -> next

-----------------------------------------------------------------------------
(* Store, recorder and bus.                                                *)

\* What the store shows.  After PlanCreated its plan is the object that the
\* scheduler changes, until the next event copies it.
Shown(plans) ==
    IF shared THEN [snapshot EXCEPT !.plan.status = plans[snapshot.plan.owner]] ELSE snapshot
View == Shown(live)

\* Mutant of InScope: the run id is not looked at.
InScopeAlways(e) == TRUE

\* The recorder's scoping: an event without a run id is everybody's.
InScope(e) == bound = Unbound \/ e.kind \in StepKinds \/ e.run = bound

\* The record once the subscribers behind the suspended one have run.
RecordedAfter(p) ==
    IF recording /\ InScope(pub[p].event)
    THEN recorded \o [i \in 1..pub[p].copies |-> pub[p].event]
    ELSE recorded

\* A producer goes on after its last publish, if any, changes the plan and
\* publishes e: to the store at once, to the others when it goes on again.
Publish(p, e, plans) ==
    /\ live' = plans
    /\ recorded' = RecordedAfter(p)
    /\ pub' = [pub EXCEPT ![p] = [event |-> e, copies |-> recorders]]
    /\ snapshot' = Reduce(Plans, Shown(plans), e)
    /\ shared' = (e.kind = "PlanCreated")
    /\ UNCHANGED recorderVars

\* Mutants of Return: the subscribers behind the suspended one are forgotten,
\* or run a second time at the next publish.
ReturnUnrecorded(p) ==
    /\ pub' = [pub EXCEPT ![p] = NoEvent]
    /\ UNCHANGED <<live, snapshot, shared, recorderVars, recorded>>
ReturnAgain(p) ==
    /\ recorded' = RecordedAfter(p) \o (IF recording THEN <<pub[p].event>> ELSE <<>>)
    /\ pub' = [pub EXCEPT ![p] = NoEvent]
    /\ UNCHANGED <<live, snapshot, shared, recorderVars>>

\* A producer goes on and publishes nothing more.
Return(p) ==
    /\ recorded' = RecordedAfter(p)
    /\ pub' = [pub EXCEPT ![p] = NoEvent]
    /\ UNCHANGED <<live, snapshot, shared, recorderVars>>

Init ==
    /\ session \in Sessions
    /\ main = [r \in Runs |-> "new"]
    /\ task = [t \in StepsOf |-> "none"]
    /\ live = [r \in Runs |-> PlanOf(r).status]
    /\ token = {} /\ doomed = {} /\ interrupted = {}
    /\ pub = [p \in Producers |-> NoEvent]
    /\ snapshot = InitialState /\ shared = FALSE
    /\ bound \in session.bounds
    /\ recording = TRUE /\ recorders = 1 /\ recorded = <<>>

-----------------------------------------------------------------------------
(* RuntimeEngine.run, as a producer of events.                             *)

MainPublishes(r, kind, next) ==
    /\ Publish(<<r, 0>>, Event(kind, r, 0), live)
    /\ main' = [main EXCEPT ![r] = next]
    /\ UNCHANGED <<session, task, token, doomed, interrupted>>

Begin(r) ==
    /\ r \in DOMAIN session.plans /\ main[r] = "new"
    /\ \A q \in Runs : main[q] \in {"new", "ended"}
    /\ r \in session.later => \E q \in Runs : main[q] = "ended"
    /\ MainPublishes(r, "RuntimeStarted", "started")

Receive(r) == main[r] = "started" /\ MainPublishes(r, "MessageReceived", "asked")

Recall(r) ==
    /\ main[r] = "asked" /\ r \in Recalling
    /\ MainPublishes(r, "MemoryRetrieved", "recalled")

Recollected(r) == main[r] = IF r \in Recalling THEN "recalled" ELSE "asked"

CreatePlan(r) ==
    /\ Recollected(r)
    /\ MainPublishes(r, "PlanCreated", "loop")

-----------------------------------------------------------------------------
(* DAGScheduler.execute_plan, as a producer of events.                     *)

Publishing(r) == pub[<<r, 0>>].event.kind
SomeTaskDone(r) == \E s \in PlanSteps(r) : task[<<r, s>>] = "done"
AllTasksDone(r) == \A s \in PlanSteps(r) : task[<<r, s>>] \in {"none", "done"}
PlanResolved(r) == \A s \in PlanSteps(r) : live[r][s] \in Resolved

\* Mutant of AtTop: nothing wakes the loop once it waits.
AtTopOnce(r) ==
    /\ main[r] = "loop"
    /\ \/ Publishing(r) = "PlanCreated"
       \/ Publishing(r) = "StepCancelled" /\ AllTasksDone(r)

\* At the top of the loop: first, when a wait has returned, or with no task.
AtTop(r) ==
    /\ main[r] = "loop"
    /\ \/ Publishing(r) = "PlanCreated"
       \/ Publishing(r) = "none" /\ SomeTaskDone(r)
       \/ Publishing(r) = "StepCancelled" /\ AllTasksDone(r)

\* The task whose StepScheduled was published is created when that returns.
Created(r) == [t \in StepsOf |-> IF t[1] = r /\ task[t] = "scheduled" THEN "created" ELSE task[t]]

\* Mutant of PublishStep: the event alone carries the new status.
PublishOnly(p, kind, r, s, status) == Publish(p, Event(kind, r, s), live)

PublishStep(p, kind, r, s, status) ==
    Publish(p, Event(kind, r, s), [live EXCEPT ![r][s] = status])

\* Mutant of Launch: the task is created before StepScheduled is published.
LaunchAtOnce(r, s) ==
    /\ live[r][s] = "pending"
    /\ \/ AtTop(r) /\ r \notin token
       \/ main[r] = "loop" /\ Publishing(r) \in {"StepScheduled", "StepCancelled"}
    /\ PublishStep(<<r, 0>>, "StepScheduled", r, s, "running")
    /\ task' = [Created(r) EXCEPT ![<<r, s>>] = "created"]
    /\ UNCHANGED <<session, main, token, doomed, interrupted>>

Launch(r, s) ==
    /\ live[r][s] = "pending"
    /\ \/ AtTop(r) /\ r \notin token
       \/ main[r] = "loop" /\ Publishing(r) \in {"StepScheduled", "StepCancelled"}
    /\ PublishStep(<<r, 0>>, "StepScheduled", r, s, "running")
    /\ task' = [Created(r) EXCEPT ![<<r, s>>] = "scheduled"]
    /\ UNCHANGED <<session, main, token, doomed, interrupted>>

Wait(r) ==
    /\ main[r] = "loop" /\ Publishing(r) \in {"StepScheduled", "StepCancelled"}
    /\ Return(<<r, 0>>)
    /\ task' = Created(r)
    /\ UNCHANGED <<session, main, token, doomed, interrupted>>

\* A step whose prerequisites have failed.
Skip(r, s) ==
    /\ live[r][s] = "pending"
    /\ \E d \in PlanSteps(r) : live[r][d] \in {"failed", "cancelled"}
    /\ AtTop(r) /\ r \notin token
    /\ PublishStep(<<r, 0>>, "StepCancelled", r, s, "cancelled")
    /\ UNCHANGED runVars

\* No step is ready and no task runs: every pending step fails, without another look
\* at the token.
FailDeadlocked(r, s) ==
    /\ live[r][s] = "pending"
    /\ \/ /\ main[r] = "loop" /\ r \in session.stuck /\ AllTasksDone(r)
          /\ (AtTop(r) /\ r \notin token) \/ Publishing(r) = "StepCancelled"
       \/ main[r] = "deadlocked"
    /\ PublishStep(<<r, 0>>, "StepFailed", r, s, "failed")
    /\ main' = [main EXCEPT ![r] = "deadlocked"]
    /\ UNCHANGED <<session, task, token, doomed, interrupted>>

\* Mutant of CancelStep: whatever the task of a step is, it is cancelled.
CancelEvery(r, s) ==
    /\ (AtTop(r) /\ r \in token) \/ main[r] = "cancelling"
    /\ live[r][s] \in {"pending", "running"}
    /\ PublishStep(<<r, 0>>, "StepCancelled", r, s, "cancelled")
    /\ main' = [main EXCEPT ![r] = "cancelling"]
    /\ doomed' = doomed \cup {t \in StepsOf : t[1] = r}
    /\ UNCHANGED <<session, task, token, interrupted>>

\* The token is set: the tasks are cancelled, then the open steps.
CancelStep(r, s) ==
    /\ (AtTop(r) /\ r \in token) \/ main[r] = "cancelling"
    /\ live[r][s] \in {"pending", "running"}
    /\ PublishStep(<<r, 0>>, "StepCancelled", r, s, "cancelled")
    /\ main' = [main EXCEPT ![r] = "cancelling"]
    /\ doomed' = doomed \cup {t \in StepsOf : t[1] = r /\ task[t] \notin {"none", "done"}}
    /\ UNCHANGED <<session, task, token, interrupted>>

-----------------------------------------------------------------------------
(* RuntimeEngine.run again, once the planner has failed or the plan has    *)
(* been executed: the loop over the LLM, without the tool calls it asks    *)
(* for itself and with one message at most, or _finalize_single_pass.      *)

ReadyToAnswer(r) ==
    \/ Recollected(r)
    \/ main[r] \in {"cancelling", "deadlocked"} /\ PlanResolved(r)
    \/ AtTop(r) /\ PlanResolved(r)

\* A single-pass plan that is completed is answered without a look at the token.
SinglePass(r) ==
    /\ main[r] = "loop" /\ PlanSteps(r) # {}
    /\ \A s \in PlanSteps(r) : live[r][s] = "completed"

Answer(r) ==
    /\ ReadyToAnswer(r) /\ (r \notin token \/ SinglePass(r))
    /\ MainPublishes(r, "MessageSent", "answered")

\* The end of the run: normal, with or without a message, or cancelled; or with an
\* exception of the LLM, whatever was answered before.
Close(r) ==
    /\ ReadyToAnswer(r) \/ main[r] = "answered"
    /\ \/ MainPublishes(r, "RuntimeStopped", "closing")
       \/ r \notin token /\ MainPublishes(r, "RuntimeFailed", "closing")

End(r) ==
    /\ main[r] = "closing"
    /\ Return(<<r, 0>>)
    /\ main' = [main EXCEPT ![r] = "ended"]
    /\ UNCHANGED <<session, task, token, doomed, interrupted>>

-----------------------------------------------------------------------------
(* DAGScheduler._run_step, as a producer of events.                        *)

HasTool(r, s) == <<r, s>> \in session.tools

TaskMoves(t, from, to) ==
    /\ task[t] = from /\ t \notin doomed
    /\ task' = [task EXCEPT ![t] = to]
    /\ UNCHANGED <<session, main, token, doomed, interrupted>>

Start(r, s) ==
    /\ r \notin token
    /\ TaskMoves(<<r, s>>, "created", "started")
    /\ PublishStep(<<r, s>>, "StepStarted", r, s, live[r][s])

Abort(r, s) ==
    /\ r \in token
    /\ TaskMoves(<<r, s>>, "created", "ending")
    /\ PublishStep(<<r, s>>, "StepCancelled", r, s, "cancelled")

CallTool(r, s) ==
    /\ HasTool(r, s)
    /\ TaskMoves(<<r, s>>, "started", "calling")
    /\ PublishStep(<<r, s>>, "ToolStarted", r, s, live[r][s])

\* Where the work of a step begins: the call of its tool or of the model, or nothing.
WorkFrom(r, s) == IF HasTool(r, s) THEN "calling" ELSE "started"

\* The work suspends.
Execute(r, s) == TaskMoves(<<r, s>>, WorkFrom(r, s), "executing") /\ Return(<<r, s>>)

ToolEnds(r, s) ==
    /\ HasTool(r, s)
    /\ \/ /\ TaskMoves(<<r, s>>, "executing", "succeeded")
          /\ PublishStep(<<r, s>>, "ToolFinished", r, s, live[r][s])
       \/ /\ r \in session.fails
          /\ TaskMoves(<<r, s>>, "executing", "failed")
          /\ PublishStep(<<r, s>>, "ToolFailed", r, s, live[r][s])

FinishStep(r, s) ==
    /\ \/ TaskMoves(<<r, s>>, "succeeded", "ending")
       \/ ~HasTool(r, s) /\ \E at \in {"started", "executing"} : TaskMoves(<<r, s>>, at, "ending")
    /\ PublishStep(<<r, s>>, "StepFinished", r, s, "completed")

\* The tool has failed, or an exception came out of the work.
FailStep(r, s) ==
    /\ r \in session.fails
    /\ \E at \in {"failed", "executing", WorkFrom(r, s)} : TaskMoves(<<r, s>>, at, "ending")
    /\ PublishStep(<<r, s>>, "StepFailed", r, s, "failed")

Leave(r, s) == TaskMoves(<<r, s>>, "ending", "done") /\ Return(<<r, s>>)

\* A CancelledError: before the first step, in the tool, or in a publish, which
\* then loses the event.
Interrupt(r, s) ==
    LET t == <<r, s>> IN
    /\ t \in doomed /\ task[t] # "done"
    /\ task' = [task EXCEPT ![t] = "done"]
    /\ pub' = [pub EXCEPT ![t] = NoEvent]
    /\ interrupted' = IF pub[t] = NoEvent THEN interrupted ELSE interrupted \cup {t}
    /\ UNCHANGED <<session, main, live, token, doomed, snapshot, shared, recorderVars, recorded>>

-----------------------------------------------------------------------------
(* The user, and the owner of the recorder.                                *)

RequestCancellation(r) ==
    /\ main[r] \notin {"new", "ended"} /\ r \in session.cancels \ token
    /\ token' = token \cup {r}
    /\ UNCHANGED <<session, main, task, live, doomed, interrupted, pub, snapshot, shared,
                   recorderVars, recorded>>

StopRecording ==
    /\ recording /\ recording' = FALSE
    /\ snapshot.sequence < session.restarts
    /\ UNCHANGED <<runVars, live, pub, snapshot, shared, bound, recorders, recorded>>

\* start() subscribes again; stop() has not unsubscribed.
StartRecording ==
    /\ ~recording /\ recording' = TRUE
    /\ snapshot.sequence < session.restarts
    /\ recorders < MaxStarts /\ recorders' = recorders + 1
    /\ UNCHANGED <<runVars, live, pub, snapshot, shared, bound, recorded>>

-----------------------------------------------------------------------------
RunMain(r) ==
    \/ Receive(r) \/ Recall(r) \/ CreatePlan(r) \/ Wait(r)
    \/ \E s \in PlanSteps(r) : Launch(r, s) \/ Skip(r, s) \/ FailDeadlocked(r, s) \/ CancelStep(r, s)
    \/ Answer(r) \/ Close(r) \/ End(r)

RunTask(r, s) ==
    \/ Start(r, s) \/ Abort(r, s) \/ CallTool(r, s) \/ Execute(r, s)
    \/ ToolEnds(r, s) \/ FinishStep(r, s) \/ FailStep(r, s) \/ Leave(r, s)
    \/ Interrupt(r, s)

Next ==
    \/ \E r \in Runs : Begin(r) \/ RunMain(r) \/ RequestCancellation(r)
    \/ \E r \in Runs : \E s \in Steps : RunTask(r, s)
    \/ StopRecording \/ StartRecording

Spec == Init /\ [][Next]_vars

FairSpec ==
    /\ Spec
    /\ \A r \in Runs : WF_vars(RunMain(r))
    /\ \A r \in Runs : \A s \in Steps : WF_vars(RunTask(r, s))

-----------------------------------------------------------------------------
(* ReplayPlayer.replay and ExecutionRecorder.get_record.                   *)

ReplayEvent(plans, st, e) == IF e.kind \in ReplayKinds THEN Reduce(plans, st, e) ELSE st

ReplayOf(plans, log) ==
    LET state[n \in 0..Len(log)] ==
            IF n = 0 THEN InitialState ELSE ReplayEvent(plans, state[n - 1], log[n])
    IN state[Len(log)]

Replay == ReplayOf(Plans, recorded)

\* The plan of the record: the last one recorded, or else the store's.
PlansRecorded == {i \in DOMAIN recorded : recorded[i].kind = "PlanCreated"}
RecordedPlanOwner ==
    IF PlansRecorded = {} THEN snapshot.plan.owner
    ELSE recorded[CHOOSE i \in PlansRecorded : \A j \in PlansRecorded : j <= i].run

-----------------------------------------------------------------------------
(* Properties.                                                             *)

\* The values of the variables; only tasks that exist are cancelled, only
\* cancelled ones interrupted, and the plan the store shows is some run's.
TypeOK ==
    /\ session \in Sessions
    /\ main \in [Runs -> {"new", "started", "asked", "recalled", "loop", "cancelling",
                          "deadlocked", "answered", "closing", "ended"}]
    /\ task \in [StepsOf -> {"none", "scheduled", "created", "started", "calling",
                             "executing", "succeeded", "failed", "ending", "done"}]
    /\ \A r \in Runs : live[r] \in [PlanSteps(r) -> Statuses]
    /\ token \subseteq Runs
    /\ doomed \subseteq {t \in StepsOf : task[t] \notin {"none", "scheduled"}}
    /\ interrupted \subseteq doomed
    /\ DOMAIN pub = Producers
    /\ \A p \in Producers : pub[p] = NoEvent \/ pub[p].event \in Events
    /\ shared \in BOOLEAN /\ recording \in BOOLEAN
    /\ snapshot.plan = NoPlan \/ snapshot.plan.owner \in Runs
    /\ View.plan = NoPlan \/ View.plan.status \in [PlanSteps(View.plan.owner) -> Statuses]
    /\ bound \in Runs \cup {Unbound}
    /\ recorders \in Nat
    /\ recorded \in Seq(Events)

\* No run is open and every task has ended.
Quiet ==
    /\ \A r \in Runs : main[r] \in {"new", "ended"}
    /\ \A t \in StepsOf : task[t] \in {"none", "done"}

\* The recorder has never been stopped.
Whole == recording /\ recorders = 1

\* The store is the single source of truth of a plan it was only told about by
\* events: at every moment it shows the statuses the scheduler works on, except
\* that a step whose task has not started, or is cancelled before it could, may
\* still be shown as pending.
StoreFollowsPlan ==
    View.plan # NoPlan =>
        LET r == View.plan.owner IN
        \A s \in PlanSteps(r) :
            \/ View.plan.status[s] = live[r][s]
            \/ /\ View.plan.status[s] = "pending" /\ live[r][s] = "running"
               /\ task[<<r, s>>] \in {"scheduled", "created"} \/ <<r, s>> \in doomed

\* The steps of a run whose step_id an event of another run, recorded behind its
\* plan, has too: its last task may still publish when the run is over.
Overtaken(r) ==
    {s \in PlanSteps(r) : \E i, j \in DOMAIN recorded :
        /\ i < j /\ recorded[i].kind = "PlanCreated" /\ recorded[i].run = r
        /\ recorded[j].step = s /\ recorded[j].run # r}

\* Once the runs are over, a replay of the record rebuilds what the store holds,
\* although the recorder got the events of concurrent tasks in another order:
\* conversation, run and current step always; the status of a step unless its task
\* was cancelled inside a publish or a late event of another run has its step_id;
\* the counts of tool calls when no task was cancelled so.
ReplayAgrees ==
    bound = Unbound /\ Whole /\ Quiet =>
        LET got == Replay
            want == View
        IN /\ got.messages = want.messages /\ got.status = want.status /\ got.run = want.run
           /\ got.current = want.current /\ got.plan.owner = want.plan.owner
           /\ \A s \in DOMAIN want.plan.status \ Overtaken(want.plan.owner) :
                <<want.plan.owner, s>> \notin interrupted =>
                    got.plan.status[s] = want.plan.status[s]
           /\ interrupted = {} =>
                /\ got.calls = want.calls
                /\ got.succeeded = want.succeeded /\ got.failed = want.failed

\* Every event the store has reduced is recorded once, is on its way to the
\* recorder, or was lost by the one publish its task was cancelled in.
EventsConserved ==
    bound = Unbound /\ Whole =>
        snapshot.sequence =
            Len(recorded) + Cardinality({p \in Producers : pub[p] # NoEvent})
                          + Cardinality(interrupted)

\* What may come before an event in the life of its step: with or without a tool,
\* with an exception, or nothing, if the step fails with a plan that deadlocks.
Before(r, s) ==
    LET begun == {"StepScheduled", "StepStarted"}
        called == IF HasTool(r, s) THEN begun \cup {"ToolStarted"} ELSE begun
        Ended(kind) == IF HasTool(r, s) THEN called \cup {kind} ELSE called
    IN [StepScheduled |-> {{}}, StepStarted |-> {{"StepScheduled"}},
        ToolStarted |-> {begun}, ToolFinished |-> {called}, ToolFailed |-> {called},
        StepFinished |-> {Ended("ToolFinished")},
        StepFailed |-> {called, Ended("ToolFailed")} \cup IF r \in session.stuck THEN {{}} ELSE {}]

\* The kinds of the events of a step among the first n of a record.
KindsOf(log, n, r, s) == {log[j].kind : j \in {i \in 1..n : log[i].run = r /\ log[i].step = s}}

\* An event of a step comes behind those of the other kinds that the recorder has of
\* the step: a whole history of it, or what there is of one when it is cancelled.
InTurn(e, earlier) ==
    LET Heard(kinds) == {k \in kinds : InScope(Event(k, e.run, e.step))} IN
    IF e.kind = "StepCancelled"
    THEN earlier \cap {"StepFinished", "StepFailed", "StepCancelled"} = {}
    ELSE /\ \E kinds \in Before(e.run, e.step)[e.kind] : earlier = Heard(kinds)
         /\ e.kind \in {"ToolStarted", "ToolFinished", "ToolFailed"} => HasTool(e.run, e.step)

\* The events of a step are recorded in the order of its life, each once, none
\* before those that precede it, none behind its end, and those of a tool only if it
\* has one; its cancellation ends it anywhere.  Of another run, a bound recorder has
\* the step events.
StepsInOrder ==
    Whole => \A i \in DOMAIN recorded :
        LET e == recorded[i]
        IN e.step # 0 => InTurn(e, KindsOf(recorded, i - 1, e.run, e.step))

\* The messages of a run.
MessagesOf(log, r) ==
    LET of[n \in 0..Len(log)] ==
            IF n = 0 THEN <<>>
            ELSE IF log[n][2] = r THEN Append(of[n - 1], log[n]) ELSE of[n - 1]
    IN of[Len(log)]

\* A recorder bound to a run records that run: a replay has its messages and its
\* plan and no others', the record carries its plan, and the outcome of each step
\* that was not cancelled in a publish, unless a step of another run has its id.
BoundRecordIsTheRun ==
    bound \in Runs /\ Whole /\ Quiet /\ main[bound] = "ended" =>
        LET got == Replay
            planned == got.plan # NoPlan
        IN /\ got.messages = MessagesOf(snapshot.messages, bound)
           /\ got.status \in {"completed", "failed"}
           /\ planned =>
                /\ got.plan.owner = bound /\ RecordedPlanOwner = bound
                /\ \A s \in PlanSteps(bound) \ Overtaken(bound) :
                    <<bound, s>> \notin interrupted => got.plan.status[s] = live[bound][s]

\* However often it is stopped and started, a recorder records an event at most
\* once for each time it was started.
RecordedPerStart ==
    \A i \in DOMAIN recorded :
        Cardinality({j \in DOMAIN recorded : recorded[j] = recorded[i]}) <= recorders

\* Every run that has begun is closed, whatever fails or is cancelled, and its
\* tasks end: time and again no run is open and no task left.
RunsClose == []<>Quiet

=============================================================================
