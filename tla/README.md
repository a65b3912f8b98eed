# c-db-agent: specifications, model checking and proofs

c-db-agent is an asyncio agent: a conversation engine lets an LLM call tools, a
planner turns work into a DAG of steps, a scheduler runs the steps concurrently,
and events carry what happens to reducers, recorders and subscribers. Some tools
keep job applications and resumes in PostgreSQL and send mail.

This directory holds the TLA+ modules that model it, the TLC configurations that
check them and the TLAPS proofs about them. `PROJECT.json` maps every definition
to the lines it models. Section 9 lists what is not modelled.

## 1. Inventory

| Component | State | Operations | What is hard |
|---|---|---|---|
| Plan (`core/models/planning.py`) | steps: status, error, result, depends_on, policy | get_ready_steps, is_complete, get_checkpoint | three policies, failures that propagate |
| DAG scheduler (`runtime/scheduler/dag_scheduler.py`) | results, running_tasks, semaphore, concurrency tracker, timings | execute_plan, _run_step | one coroutine and a task per step, interleaved at every await; cancellation at any of them; resumption |
| Cancellation token (`core/models/context.py`) | one flag | request_cancellation, check_cancelled | polled at two places |
| Runtime engine (`runtime/engine/runtime_engine.py`) | conversation messages, turn | run, plan delegation, tool dispatch | tool calls gathered concurrently, errors of one of them, message order |
| Middleware (`runtime/middleware/`) | deduplication cache, keyed by run, tool and arguments; start times | before_tool, after_tool | check and store are separated by the execution |
| Tool executor (`runtime/execution/tool_executor.py`) | none; borrows a connection for every call | execute_tool | connection returned on every path; a tool may be a coroutine |
| Task manager (`runtime/tasks/task_manager.py`) | records and asyncio tasks by id | spawn, cancel, list_tasks | cancellation before the first step, during a publish, after the end |
| Event bus (`runtime/events/bus.py`) | subscriptions | subscribe, publish (by priority, then in order) | handlers may suspend, raise, or publish themselves |
| State reducer and store (`runtime/state/`) | current snapshot, its predecessors | reduce_state, handle_event, get_snapshot | one slot for several running steps, shared plan object |
| Recorder, replayer (`runtime/recording/`) | recorded events of a run | start, stop, handle_event, get_record, replay | which events belong to a run, restart, unknown events |
| Database pool (`infrastructure/db_pool.py`) | pool, availability flag | init_db_pool, get_connection, return_connection, test_connection, close_pool | smaller than the concurrency, exhaustion, close while borrowed |
| Schema manager (`infrastructure/schema_manager.py`) | registered migrations, initialized flag; the tracking table | initialize_schema, rollback_migration, reset_migration | several processes, a migration that fails half-way, a roll-back meanwhile |
| Database tool (`tools/db_tool.py`) | the database | is_safe_query, execute | it commits whatever the kind of a statement lets through; which path commits |
| Email tools (`tools/email/`) | applications, resumes | draft, send, delete, store, load, list | check, send with retries and update are three steps |
| Calculator (`tools/calculator.py`) | its results, in a table it makes itself | execute | makes a table and a row outside the migrations |
| Registry (`tools/registry.py`) | tools by name | register, discover | import time only |
| Memory, direct planner, LLM provider, exporter, other tools, subscribers, assembly | little or none | | no protocol between actors |

Interactions: the engine calls planner, scheduler, executor and middleware; all
publish to the bus; the bus calls reducer/store, recorder and subscribers in
subscription order, within the publisher's await; the executor borrows
connections from the pool for the tools.

What each component must guarantee: the scheduler, that a step runs only when
its policy allows, once, within the concurrency limit, that outcomes are final
and every call ends with the plan resolved; the engine, that each tool call is
answered by one message in order; the task manager, that a record tells how its
task ended; the event log, that no event is lost or doubled and a replay rebuilds
the recorded state; pool and executor, that a connection is out only while a call
holds it, or for good once its return has failed; email, that a sent application was
mailed, once unless a send cannot know; the schema manager, that what it reports as
initialized is in the database.

## 2. Plan of the modules

1. `Plan`, `DAGScheduler`, `PlanRun` and their proofs: **done** (section 3 on).
2. `RuntimeEngine`: the conversation loop, its gathered tool calls and the
   deduplication middleware, with its proofs: **done** (section 5).
3. `TaskManager`: spawn, cancel and the wrapper of a task, with its proofs:
   **done** (section 6).
4. `EventLog`: bus, store, recorder and replay under the events of an engine run
   and the step tasks of its plan, with its proofs: **done** (section 7).
5. `ConnectionPool`, `SchemaManager` and `Applications`, composed in `JobStore`:
   processes that share one database, with crashes, and its proofs: **done**
   (section 8).

Type and safety invariants are proved for every value of the constants where the
provers can reach them, liveness is left to TLC.

## 3. The scheduler

`Plan` holds the shape of a plan (dependencies, policy, branch of `_run_step`)
and the operators of `planning.py`. `DAGScheduler` has one variable per piece of
state that the code keeps (`status`, `error`, `results`, `running_tasks`,
`permits`, `active`/`peak`, `token`) and two kinds of control state: `main`, the
await at which `execute_plan` is, with `cursor` and `batch` for its loops, and
`task[s]`, the await at which the task of step `s` is.

**Grain.** asyncio runs the code between two suspensions atomically, so an
action is such a segment. Every `await publish` counts as a suspension: the bus
awaits its handlers and a handler may suspend. `metrics_lock` does not: its
holders never suspend. When a subscriber does not suspend, two segments run as
one, which is one of the interleavings checked. `Wake` is separate from the top
of the loop although no suspension is between them; the extra interleavings can
only let a task proceed, which it could have done before.

| Code | Actions |
|---|---|
| execute_plan to line 69 | `Call` (recover results, reset cancelled steps, fresh locals) |
| loop, token set (73-87) | `CancelOpen` per step, `Return` |
| loop, failed prerequisites (90-111) | `CancelDependent` per step cancelled |
| loop, ready steps (114-146) | `LaunchFirst`, `LaunchNext`, `LaunchDone` |
| loop, deadlock (149-159) | `FailDeadlocked` per step, `Return` |
| asyncio.wait (162-165) | `Await`, `Wake` |
| _run_step | `StartStep`, `AbortStep`, `LeaveAborted`, `Announce`, `Execute`, `ToolReturns`, `Complete`, `Fail`, `Finish` |
| CancelledError at an await of _run_step | `Unwind` |
| request_cancellation | `RequestCancellation` |
| get_checkpoint and a new process | `Restore` |

A cancelled task (`cancelReq`) takes no step but `Unwind`: asyncio raises
CancelledError at its next resumption, and no except clause on the way catches
it (`except Exception` does not). A plan is resumed by the same process only when
the tasks of the previous call have ended, with a new token.

**PlanRun** is what the owner of a plan may rely on: the life of the statuses
without coroutines, tasks or permits. A step starts only when its policy is met,
is skipped only when its prerequisites rule it out, is cancelled only on request,
is given up only when nothing runs and nothing can start; a call closes with all
steps resolved, and a resumed call retries the cancelled ones only.

### Runs

| Run | Bounds | Shows |
|---|---|---|
| `dag_plans` | 4 steps, limit 2, 2 calls, 35 plans with two racing roots | the safety properties, stability of outcomes, and `ImplementsPlanRun` |
| `dag_resume` | 3 steps, limit 2, 2 calls, every ordered plan, cyclic, dangling, misordered and unknown-policy ones, the llm and plain branches; checkpoints mid-run | the safety that survives such a checkpoint; `CallReturns`, `TasksEnd` |
| `dag_misordered` | 4 steps in reverse order, 1 call | finding: `IgnoreFailuresRuns` |
| `dag_peak` | 3 steps, limit 1, 1 call | finding: `PeakWithinLimit` |
| `dag_checkpoint` | 3 steps, 2 calls, checkpoints mid-run | finding: `ResolvedOnReturn` |

The bounds are enough for the cases that matter: four steps give two racing
prerequisites, a step whose fate they decide and one behind it (a failure that
propagates over two levels while a task still ends); a limit of two under three
or more steps makes tasks wait for the semaphore and be cancelled there; two
calls give cancellation, then resumption. `MaxCalls` is the only counter bound.
Deadlock checking is off because nothing is left to do after the last call.

**Fairness.** `FairSpec` assumes weak fairness of `execute_plan` and of each task:
the event loop resumes every coroutine that can go on, and tools, subscribers and
the LLM return (the executor has no timeout of its own). The caller's
actions are not fair. No strong fairness is needed for the semaphore: a permit
that is given back stays available to the finitely many tasks that wait.

### Findings

* `IgnoreFailuresRuns`: in an acyclic plan that lists steps before their
  prerequisites one failure cancels one dependent per pass of the loop; the pass
  after which nothing runs ends in the deadlock branch, and a step with policy
  `ignore_failures` is failed although ADR-006 (line 18) says it executes.
* `PeakWithinLimit`: the early return of line 271 skips the decrement, so after a
  cancellation the reported `peak_concurrency` can exceed the limit.
* `ResolvedOnReturn` with mid-run checkpoints: a step checkpointed as `running`
  is neither recovered nor reset; the call returns and leaves it running.

## 4. Proofs of the scheduler

`DAGSchedulerProofs` and `DAGSchedulerRefinement` hold for every number of steps,
every set of plans, every limit and number of calls; the assumptions are those
the constants need to make sense (`NAssumption`, `PlansAssumption`,
`MaxConcurrentAssumption`, `MaxCallsAssumption`, `CheckpointsAssumption`).

The safety invariants are not inductive: that a task ends well depends on its
status, which depends on whether it was cancelled, which depends on where
`execute_plan` is. `IInv` states that relation in four parts: `TaskStatus` (what
a task's position says about its step), `Tracking` (running_tasks holds every
live task; after a cancellation only cancelled ones), `Launching` (the batch not
launched yet is pending) and `Closing` (what the cancellation and deadlock loops
have dealt with). On it rest:

* `TerminalStability`, `SlotConservation` (a cardinality argument over the tasks
  past the semaphore), `ResultsAgreement`, `QuietAfterReturn`;
* `PolicySafety`: policies are monotone in final outcomes, so a policy met when
  the batch was computed is met when its last member is launched;
* `Resolution`: a running step has a task (`Accounting`), so the loop cannot end
  without it;
* `DeadlockFreedom`: with no task left, the pass leaves no pending step with a
  failed prerequisite (`ScanComplete`), so the first pending step of a plan
  listed in order is ready or cancelled;
* `Outcomes`: executed steps had their policy met and skipped ones are ruled out
  by their prerequisites (`Deserved`), also across cancelled calls;
* `Refinement`: every segment maps to a step of PlanRun or a stutter.

`Resolution`, `DeadlockFreedom`, `Outcomes` and `Refinement` assume that
checkpoints are taken while no step is running; `dag_checkpoint` shows why.
Liveness (`CallReturns`, `TasksEnd`) is model-checked only.

## 5. The runtime engine

`RuntimeEngine` models the runs of one agent, one after the other. `phase` is the
await at which `run` is, `call[i]` the await at which the task of the `i`-th tool
call of the current answer is. `stored` is `session.messages` of the state store,
which outlives a run, and `conv` the conversation a run builds from it; `cache` is
the part of `_executed_cache` that the current run can reach, because the key
holds the run id; `executed` is a history variable. The LLM, the planner and the
tools are external and may answer anything.

| Code | Actions |
|---|---|
| run to line 76 | `Begin`, `Receive`, `BuildHistory` |
| planner and scheduler (102-152) | `PlanNothing`, `PlanCompleted` |
| `_finalize_single_pass` | `AddStepResult` per reported step, `FinalizeSinglePass`, `Return` |
| top of the loop (157-176) | `StopEarly`, `AskLLM` |
| the answer (172-202) | `LLMSilent`, `LLMAnswers`, `LLMRequests`, `StopAnswered`, `Return` |
| gather and replies (206-220) | `GatherTools`, `GatherDone`, `AddToolResult` per call, `EndTurn` |
| `_execute_single_tool` | `Intercept`, or `StartCall`, `ExecuteCall`, `ReturnCall`, `EndCall` |
| request_cancellation | `RequestCancellation` |

| Run | Bounds | Shows |
|---|---|---|
| `engine_runs` | 2 runs, 3 turns, 2 calls an answer, 2 keys, plans with 0 to 2 reported steps | the histories and deduplication; `RunReturns` |
| `engine_duplicates` | 1 run, 2 turns | finding: `SuppressedWithinRun` |
| `engine_single_pass` | 2 runs, 2 turns | finding: `HistoryOnlyAnswersCalls` |

Two calls in an answer are enough to race, two keys make them equal or different,
a third turn follows one in which a duplicate was intercepted, and the second run
starts from whatever history the first has left. `FairSpec` assumes weak fairness
of `run` and of each tool task, as for the scheduler; cancellation is not fair.

Findings. `SuppressedWithinRun`: README.md (line 22) promises that duplicates are
suppressed within a run, but the lookup and the store of the cache are separated
by the execution, so two equal calls of one answer both run. Across turns they
are suppressed (`SuppressedAcrossTurns`, proved). `HistoryOnlyAnswersCalls`: the
comment on line 251 wants single-pass steps recorded as if the LLM loop had
produced them, but no assistant message with the calls is published, so a later
run sends the LLM tool messages that answer no call.

`RuntimeEngineProofs` holds for any keys, turns, calls and runs. `Deduplicated`
strengthens the two deduplication properties: an executed key is in the cache
unless its call is in flight in this turn, and a call past the lookup had its
key executed in no earlier turn. `History` strengthens `CallsAnsweredInOrder`: the
conversation, which is also the stored history once the prompt has been read, is
answered up to the message under reply, and the `replies` tool messages at its
end answer that one so far. Liveness (`RunReturns`) is model-checked only.

## 6. The task manager

`TaskManager` has, for each task, where `spawn_task` or the wrapper is (`at`), the
status of its record, whether a cancellation waits to be delivered (`requested`),
the events published and how the task ended; for each caller of `cancel_task`,
the task it awaits. `Spawn` and `CreateTask` are `spawn_task` before and after its
publish; `Start`, `CoroEnds`, `Resist`, `EndPublish` and `InterruptCompleted` are
the try block of `_wrapper`, `InterruptHandler` its except clauses;
`CancelUnstarted` is what asyncio does with a task cancelled before its first
step (the wrapper and the coroutine never run); `CancelTask` and `CancelReturns`
are `cancel_task` before and after its await. The coroutine is external and may
return, raise, or catch the CancelledError and do any of these.

`task_manager` (two tasks, two callers) checks that records, last events and
answers agree with how each task ended, and that `cancel_task` returns. Two
callers are needed to cancel one task twice, once in its work and once in the
publish of its end; tasks do not interact except through a caller, so two are
enough. `FairSpec` assumes that the event loop resumes what can go on and that
coroutines and subscribers return in the end: `cancel_task` has no timeout, so
without that it would not return either.

Finding (`task_cancel`): a coroutine that catches the CancelledError and returns
is recorded as completed although `cancel_task` returns True, contrary to what
`test_architecture.py` (lines 199-203) asserts of such a coroutine; the test
passes because it cancels the task before its first step.

`TaskManagerProofs` proves the four safety properties for any tasks and callers.
`Inv` adds what makes them inductive: a task with a cancellation to deliver is
recorded as cancelled, one without is recorded as what it publishes (`Recorded`),
and the number and the last of its events follow from where it is (`Published`).
Liveness is model-checked only.

## 7. The event log

`EventLog` composes the bus, the state store with its reducer, and a recorder with
the replay of its record, under the events of the runs of one agent and of the
step tasks of their plans. A producer is `<<r, 0>>`, the coroutine of run `r`, or
`<<r, s>>`, the task of its step `s`; `pub[p]` is the event it is publishing. The
store is subscribed first and does not suspend, so an event reaches it in the
action that publishes it (`Publish`). Subscribers that may suspend come next, the
recorder last, so it gets the event when the producer goes on (`RecordedAfter`, in
the producer's next `Publish` or in `Return`). A task cancelled in between
(`Interrupt`) never delivers the event: the bus contains an `Exception`, and a
CancelledError is none. `live` is the plan object the scheduler works on; after
PlanCreated the snapshot holds that very object (`shared`) until the next event
copies it, and `View` is what the store shows at any moment.

| Code | Actions and operators |
|---|---|
| RuntimeEngine.run | `Begin`, `Receive`, `Recall`, `CreatePlan`, `ReadyToAnswer`, `SinglePass`, `Answer`, `Close`, `End` |
| execute_plan | `Launch`, `Wait`, `Skip`, `FailDeadlocked`, `CancelStep` |
| _run_step | `Start`, `Abort`, `CallTool`, `Execute`, `ToolEnds`, `FinishStep`, `FailStep`, `Leave`, `Interrupt` |
| EventBus.publish | `Publish`, `Return`, `RecordedAfter` |
| reduce_state, StateStore | `Reduce`, `Mark`, `View` |
| ExecutionRecorder | `InScope`, `StartRecording`, `StopRecording`, `RecordedPlanOwner` |
| ReplayPlayer.replay | `ReplayKinds`, `ReplayEvent`, `ReplayOf`, `Replay` |
| get_record, the plan of a record | `PlansRecorded`, `RecordedPlanOwner` |

A step with a tool (`HasTool`) publishes ToolStarted and the end of the tool; any
other, of the llm branch or of none (a custom type, or no executor), goes from
StepStarted to its own end. An exception out of the work is `FailStep`, which
publishes no end of a tool. Pending steps of a plan that deadlocks are failed by
`execute_plan` itself (lines 149-159): StepFailed is all that is published of them.

What the user does in a behaviour is drawn at its beginning from `Sessions`: the runs
that are started with the steps of their plans, those that are not the first
(`later`), what the recorder may be bound to, how long it may be stopped and started
again, which steps have a tool (`tools`), which runs may be cancelled, whose tools and
steps may fail, and whose plans may deadlock (`stuck`). `event_log` has four.
In three (`Busy`) everything may be cancelled, fail and deadlock, and the recorder is
stopped and started within the first event (`MaxStarts` = 2 subscriptions, which is
enough because they stay for good): a run with two concurrent steps, one with a tool
and one without; two runs of one step each, the first with a tool; a run with a step
and one whose planner returns nothing. In the fourth (`Calm`) a run with two steps is
followed by one with a step, undisturbed, and one of the two steps has no tool. Two steps
give every order of two events and a cancellation that catches one task in a publish
and the other outside; the second run gives a bound recorder events of another run,
and the calm session a run whose last task still publishes when the next one has
begun. Dependencies are `DAGScheduler`'s matter: any pending step may be launched, and
a plan of `stuck` may deadlock whenever no task runs.

After its plan a run publishes here at most one MessageSent: of the loop over the LLM
the ToolStarted and ToolFinished of the calls it gathers itself and all messages but
one are left out (`RuntimeEngine` has that loop, without events), and the messages of
`_finalize_single_pass` are one. No property tells these apart: they carry no step,
and the run is the only producer of them.

What it shows: the store is never behind the plan but for a step whose task has not
started (`StoreFollowsPlan`); an event is recorded, on its way, or lost by one
interrupted publish (`EventsConserved`); the events of a step are recorded in the
order of its life, each once, with all that precede it there and none behind its end,
and those of a tool only if it has one (`StepsInOrder`: a life with a tool, without, cut
short by an exception or a cancellation, or a StepFailed alone in a plan that
deadlocks); at most once per start() (`RecordedPerStart`); the replay of a whole
record rebuilds the store, up to the steps interrupted in a publish or `Overtaken`
(`ReplayAgrees`); a recorder bound to a run yields its conversation, outcome, plan and
steps (`BoundRecordIsTheRun`). `RunsClose` needs the fairness of section 3.

**Late events.** The loop of `execute_plan` ends as soon as every status is resolved
(`dag_scheduler.py`, line 71), and `_run_step` resolves the status before it
publishes StepFinished: the run may answer and close, and another begin, while the
task still waits in that publish. Its event then reaches the recorder behind the
PlanCreated of the next run, and a replay, which finds a step by its id alone, marks
the step of the wrong plan. The store is not affected, as it was told first.
`Overtaken` names the steps a record may get wrong so; `ReplayAgrees` was stated
without it until the attempt to prove it met that case.

Observed while modelling, and stated by the properties as far as they go:

* Snapshots are not immutable as `reducer.py` and `store.py` say: PlanCreated's
  holds the live plan object.
* A recorder bound to a run records the step events of every run, since those carry
  no run id (the docstring of `recorder.py` says it is scoped), and `get_record`
  falls back to the store's active plan, which may be another run's.
* Memory and Task events are recorded and are not replayed, so the metadata a
  snapshot derives from them is not rebuilt.
* A cancelled run is reduced to `completed`, as RuntimeStopped carries no status.

### Proofs

Every safety property of `event_log` is proved, for any runs, plans, sessions,
recorders and bounds, in three modules that extend each other. `RunsClose` (liveness)
is model-checked only.

`EventLogProofs`: `TypeOK`, `StoreFollowsPlan`, `EventsConserved`. `Flow` is the heart
of it: one run is open at a time and the store holds its plan while it executes; a
task that works belongs to a run in its scheduling loop and to a running step; a
cancelled one to a run that executes no more; an interrupted one is done. So an
event of a step always finds the plan of its own run in the store, though
reduce_state looks only for the step id. `Follows` is `StoreFollowsPlan` without
the shared plan object, `Conserved` adds to `EventsConserved` how many copies of an
event are on their way. The attempt refuted the first form of `StoreFollowsPlan`,
which two steps to a plan satisfy: with three, a task that is cancelled before its
first step can end while the cancellation of another step is published, and its own
step is still shown as pending though its task is over. The property now says so.

`EventRecordProofs`: `RecordedPerStart`, `StepsInOrder`. `Bus` says what each
producer is publishing where it is, `Past` which events have been published or never
will be; `Fresh`, that only past events are on their way or recorded and no event is
both. A step that publishes makes a new event past (`Ages`), so no event comes twice.
`Trail` says, by the state of a task, the status of its step and whether it has a tool,
exactly which kinds of its events are recorded; the next one is then in its turn. Of a
step that no task ever had, a deadlock leaves StepFailed and nothing else.

`EventReplayProofs`: `ReplayAgrees`, `BoundRecordIsTheRun`. A replay is a fold of the
record and a run's messages one of the conversation. The library's induction theorems
take an operator, so `Least` (a set of numbers has a least element) stands for
induction: two computations along sequences agree as far as the sequences do, hence
`ReplayOfMore`, one event more is one reduction more. `Lag` says how far the replay is
behind the store at any moment, field by field: conversation, outcome and owner of the
plan by the one event of the open run's coroutine that is on its way (`Due`); the
counts by the tasks with such an event (`Pending`); the current step not at all once
no step is at work and the end of none is on its way; the status of a step unless its
last event is on its way (`Resolving`). It is inductive because a step that goes on records exactly the event
it had published, and when all is quiet nothing is on its way. `Moves` reduces every
action to a coroutine that goes on, a task that goes on, an interrupted task, or a
step that concerns nobody. TLC checked `Lag` on the states of `event_log` before.

## 8. The shared database

Four modules build on each other: `ConnectionPool` (the pool of a process and the
executor that borrows from it for every call), `SchemaManager` (migrations),
`Applications` (the tools that work on the database) and `JobStore`, which composes
them into agent processes that share one database, with crashes.

An action is one statement, one mail, one answer of a model or one commit:
processes meet in the database between any two of these. What is not committed
stays in the process (`mig[p]`, `call[p]`), is visible to no other and is gone with
the connection; a commit publishes it. Within a process a tool of the repository is
synchronous and blocks the event loop, so there is one such call (`Sync`) at a time;
a tool that is a coroutine (`slow`) holds its connection while other calls start.

| Code | Actions |
|---|---|
| init_db_pool, end of the process | `Start`, `Crash` |
| execute_tool: get_connection, the tool, the finally clause | `CallTool`, `CallSlow`; `UseTool`; `LeaveTool`, `EndSlow` |
| return_connection, and its failure | `GiveBack`, `LoseSlot` |
| test_connection, close_pool | `Test`, `Close` |
| initialize_schema | `CallInitialize`, `CreateTracking`, `ReadApplied`, `ApplyUp`, `RecordApplied`, `Verify`, `VerifyFails`, `Initialized`, `GiveUp`, `LeaveMigration` |
| rollback_migration, reset_migration | `Rollback`, `Reset` |
| send_email | `CheckSend`, `MailSent`, `RetryMail`, `MailFails`, `CommitSend` |
| delete_draft, draft_application | `CheckDelete`, `CommitDelete`; `CheckDraft`, `AskModel`, `CommitDraft` |
| query_database | `QuerySelect`, `QueryInsert`, `QueryReturning`; `QueryApplications`, `QueryTables` |
| store_resume, load_resume_from_pdf, calculate | `ReadFile`, `CheckSave`, `UpToDate`, `CommitSave`, `Calculate` |
| list_applications, list_resumes | `ListApplications`, `ListResumes` |
| the except clause of any tool | `FailCall` |

A connection is returned in `LeaveTool`, `EndSlow`, `LeaveMigration` and `Test`. Where
a transaction may be open, `putconn` rolls it back first and raises when the connection
is lost: `return_connection` (`db_pool.py`, lines 106-111) logs that, and psycopg2 keeps
the connection among those handed out. `LoseSlot` is that, and `lost` remembers it.

`is_safe_query` looks at the kind of the whole statement. So INSERT ... ON CONFLICT DO
UPDATE, an INSERT that names its id or status, data-modifying WITH clauses, CREATE and
ALTER pass (`db_tool.py`, line 116) and are committed (line 231). `QueryApplications`
gives any row of the applications any status, or deletes it; `QueryTables` makes a
table, renames it away or writes it, the tracking table included. `written` and
`altered` remember what was touched so.

`job_store` has two processes with a pool of one connection, two call ids, two
applications, two attempts, one crash, and eight jobs of two or three calls a process:
send and delete of one draft; drafting, sending and queries; migration against migration
with rollback, and with reset; saving and drafting against migration; coroutines, the calculator, test and
close against an exhausted pool; writes of query_database against send and rollback;
and such writes with saves against migration. Both migrations may be rolled back
(`RolledBack`). Two processes are enough because a conflict is between a check and a
commit of one and a commit of another; a second call of each retries what the first has
left, and one crash falls between any two statements. `mails` counts to two, standing
for "more than once".

What `job_store` shows:

* `ConnectionsConserved`: connections out are those that open calls hold and those
  whose return failed, each one or the other, with exhaustion, failed borrows, close
  and crash.
* `SchemaSound`: after initialize_schema has returned True the registered migrations
  are recorded and have their tables, up to keys rolled back or reset since, tables a
  query has renamed or written, and verifications that failed (their error is only
  logged).
* `ExactlyOnceUnlessInDoubt`: sent means mailed; mailed means sent and mailed once,
  unless a send could not learn what became of its mail, or two overlapped. Of an
  application a query has written, none of this can be said.
* `ReportsDurable`: what a send, a delete, a draft, a plain INSERT or a save has reported
  stays in the database whatever the other process does, until a query writes that row
  or table. What an INSERT with RETURNING reports is excepted, as it is never so (below).
* `ApplicationsFinal`: an application that is sent or deleted changes in two ways only,
  its table dropped in a rollback or a committed statement of query_database; no send,
  delete, draft, retry or crash does it. That the tool can is in the property and in the
  theorem.
* `CallsEnd`: every call ends and returns its connection or loses it as above, under
  weak fairness of the work of each process. The code justifies it: retries are bounded
  (stop_after_attempt), mail and model have timeouts, tools are synchronous.
  Deadlock checking is off: after the last call nothing is left to do.

Over-approximations: any statement may fail at any time, which covers a lost
connection, a conflict and CockroachDB's serialization errors; a table may be
dropped under an open transaction; a statement of query_database may do anything to
its row. Restrictions: it touches one row of the applications or one table; an id is
never used twice but by such a statement that names it (unique_rowid); the registered
migrations are a constant. No code in the repository calls initialize_schema, the
rollbacks, close_pool or test_connection; their callers are applications built on the
framework (`docs/TOOL_DEVELOPMENT.md`).

Observed while modelling:

* `query_database` does not commit an INSERT with RETURNING (`QueryReturning`). The cursor
  has a description, so the branch that fetches rows (`db_tool.py`, line 206) is taken and
  only the other one commits: success and the new row are reported, and the row is rolled
  back when the connection is returned. Line 167 offers
  "Allowed: SELECT, INSERT, CREATE TABLE, CREATE INDEX, ALTER TABLE". A single call shows
  it, so it is stated here and has no run of its own.
* A pool that has lost all its connections on their return lends none until the process
  ends or closes it.
* A delete reports success although the application was sent meanwhile, and a send
  reports success although the draft was deleted meanwhile.
* After one failed borrow `_db_available` stays False although the pool lends
  connections again; only `is_db_available` reads it.
* `reset_migration` has no effect in a process that is initialized: the short cut of
  initialize_schema skips the key that should be reapplied.
* A recorded migration whose verification fails leaves the manager initialized over
  a missing table.

### Proofs

`JobStoreProofs` proves every safety property of `job_store` for any processes,
pool sizes, calls, applications, migrations and attempts; `CallsEnd` is
model-checked only. `PoolSteps`, `SchemaSteps` and `ToolSteps` say what a step of
the composition does to the variables of one component, so that each component has
an invariant of its own:

* `PoolInv`: the property, inductive once it is known that a process that does not
  run has no connection out, none lost and no call open. A connection whose return fails
  goes from the held to the lost ones, which the pool does not lend.
* `SchemaInv` adds `Progress`: where a migration is tells which keys it has applied,
  recorded or still to do, and what it has read stays true but for the keys that
  another process rolls back or resets meanwhile (`undone`) and the tables a query
  writes or renames (`altered`).
* `ToolInv` adds `Targets`, that a send or a delete has an application to work on,
  and `MailInv`: a draft that was mailed has a send that still has to commit, or its
  mail is in doubt, and only doubtful or overlapping sends mail twice. `ReportsInv`
  (on what each report rests) and `Busy` (the one synchronous call of a process keeps
  it from anything else) carry the reports and the types.

## 9. Abstractions, limits and what is not modelled

* Timings and the metrics computed from them are left out, except the
  concurrency tracker.
* Step ids are unique and `max_concurrent_tasks` is at least 1; with 0 every step
  would wait for ever.
* The semaphore may wake any waiter (asyncio is FIFO): more interleavings.
* A tool, the LLM or a subscriber may take any time and returns in the end. A
  CancelledError raised by a tool itself and the cancellation of the task that
  awaits `execute_plan` are not modelled.
* Publishing never raises: the bus contains the exceptions of its handlers.
* Runs of one agent are sequential, as the command line runs them; the store is
  the first subscriber, as the builder subscribes it. System messages (prompt,
  memories) are left out, as are middlewares that veto a call or raise: the
  repository has none.
* Record and database hold what the properties tell apart: kinds, runs and steps of
  events, statuses and counts, not contents.

Not modelled:

* The tool registry is filled by imports before anything runs; lookups only read it.
* The direct planner builds a plan of one step from the words of a goal and keeps
  nothing; the models take any plan.
* The memory is a list that a search reads and that nothing writes at run time.
* The LLM provider, the web search and the weather tool are one request to a service
  each; the models let the service answer or fail.
* Subscribers print and log; for the bus they are handlers that may suspend or raise.
* The plan exporter formats text. Metrics and the critical path are computed from
  wall-clock times, which the models do not have.
* Of the assembly, the start and the end of a process are modelled; construction and
  configuration happen before anything runs.
* Priorities of events and subscriptions: every one in the repository is above the
  minimum, and every subscription has the default.
* Restarting a recorder from a file, the recorder's list of tool calls, and the list
  of past snapshots only copy what is modelled.

Observed besides: the llm branch of `_run_step` calls `services.llm.generate`
(`dag_scheduler.py`, line 279), which the LLM interface does not have
(`generate_response`); with the repository's provider such a step always fails, an
outcome the scheduler's model includes.
