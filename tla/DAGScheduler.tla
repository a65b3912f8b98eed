---------------------------- MODULE DAGScheduler ----------------------------
(***************************************************************************)
(* runtime/scheduler/dag_scheduler.py: execute_plan and the tasks it       *)
(* creates, one per launched step, each running _run_step.                 *)
(*                                                                         *)
(* asyncio runs code between two suspensions atomically, so an action is   *)
(* the code from one suspension point to the next.  Every `await publish`  *)
(* is a suspension point, because a subscriber may itself suspend; a       *)
(* `main` or `task` state therefore names the await the coroutine is at.   *)
(* The awaits of metrics_lock are not: its holders never suspend.          *)
(***************************************************************************)
EXTENDS Plan, Integers, FiniteSets

CONSTANTS
    Plans,             \* the plan shapes considered
    MaxConcurrent,     \* max_concurrent_tasks
    MaxCalls,          \* bound: calls of execute_plan on the plan
    MidRunCheckpoints  \* may a checkpoint be taken while a step is running?

ASSUME PlansAssumption == Plans \subseteq PlanShapes
ASSUME MaxConcurrentAssumption == MaxConcurrent \in Nat \ {0}
ASSUME MaxCallsAssumption == MaxCalls \in Nat
ASSUME CheckpointsAssumption == MidRunCheckpoints \in BOOLEAN

VARIABLES
    plan,           \* shape of the plan, fixed by the planner
    status,         \* step.status
    error,          \* step.error, by its cause
    results,        \* the results dict: none, or the success of the ToolResult
    main,           \* where execute_plan is
    cursor,         \* the step its current `for` loop last published about
    batch,          \* the part of ready_steps not launched yet
    running_tasks,  \* the steps whose task is in running_tasks
    task,           \* where the task of each step is
    cancelReq,      \* the steps whose task got task.cancel()
    permits,        \* value of the semaphore
    active, peak,   \* concurrency_tracker
    token,          \* the cancellation token is set
    calls           \* calls of execute_plan so far

planVars == <<plan, status, error>>
mainVars == <<main, cursor, batch, running_tasks, cancelReq>>
slotVars == <<permits, active, peak>>
vars == <<plan, status, error, results, main, cursor, batch, running_tasks,
          task, cancelReq, permits, active, peak, token, calls>>

MainStates == {"idle", "top", "scan", "cancel", "launch", "deadlock", "wait",
               "returned"}

\* launched   created, or waiting for the semaphore
\* aborting   publishing StepCancelled after the re-check of the token
\* starting   publishing StepStarted
\* announcing publishing ToolStarted
\* executing  in execute_tool or llm.generate
\* succeeded  publishing ToolFinished;  errored  publishing ToolFailed
\* reporting  publishing StepFinished or StepFailed
TaskStates == {"none", "launched", "aborting", "starting", "announcing",
               "executing", "succeeded", "errored", "reporting", "done"}
InTry == {"announcing", "executing", "succeeded", "errored", "reporting"}
InSemaphore == InTry \cup {"aborting", "starting"}

Ended(s) == task[s] \in {"none", "done"}
Holders == {s \in Steps : task[s] \in InSemaphore}

\* s is the least step of S: the one a `for step in plan.steps` reaches first.
IsFirst(s, S) == s \in S /\ \A t \in S : s <= t
Later(S) == {s \in S : s > cursor}
Pending == {s \in Steps : status[s] = "pending"}
\* Mutant of Open: the cancellation forgets the running steps.
OpenWithoutRunning == {s \in Steps : status[s] = "pending"}
Open == {s \in Steps : status[s] \in {"pending", "running"}}
Ready == GetReadySteps(plan, status)

Init ==
    /\ plan \in Plans
    /\ status = [s \in Steps |-> "pending"]
    /\ error = [s \in Steps |-> "none"]
    /\ results = [s \in Steps |-> "none"]
    /\ main = "idle" /\ cursor = 0 /\ batch = {}
    /\ running_tasks = {} /\ cancelReq = {}
    /\ task = [s \in Steps |-> "none"]
    /\ permits = MaxConcurrent /\ active = 0 /\ peak = 0
    /\ token = FALSE /\ calls = 0

-----------------------------------------------------------------------------
(* The caller.                                                             *)

\* No task of an earlier call is left, and the locals are as lines 39-48 and
\* 69 set them.
FreshLocals ==
    /\ cursor' = 0 /\ batch' = {} /\ running_tasks' = {} /\ cancelReq' = {}
    /\ task' = [s \in Steps |-> "none"]
    /\ permits' = MaxConcurrent /\ active' = 0 /\ peak' = 0
    /\ token' = FALSE

\* execute_plan up to its loop: recover the results of earlier calls and make
\* cancelled steps pending again.  A plan is resumed with a new token, once
\* the tasks of the call before have ended.
Call ==
    /\ main \in {"idle", "returned"}
    /\ \A s \in Steps : Ended(s)
    /\ calls < MaxCalls
    /\ calls' = calls + 1
    /\ main' = "top"
    /\ FreshLocals
    /\ results' = [s \in Steps |-> CASE status[s] = "completed" -> "ok"
                                     [] status[s] = "failed" -> "failed"
                                     [] OTHER -> "none"]
    /\ status' = [s \in Steps |-> IF status[s] = "cancelled" THEN "pending"
                                                             ELSE status[s]]
    /\ error' = [s \in Steps |-> IF status[s] = "cancelled" THEN "none"
                                                            ELSE error[s]]
    /\ UNCHANGED plan

\* get_checkpoint, and a process that starts again from it: the plan is as it
\* was, the call and its tasks are gone.
Restore ==
    /\ main # "idle"
    /\ MidRunCheckpoints \/ \A s \in Steps : status[s] # "running"
    /\ calls < MaxCalls
    /\ main' = "idle"
    /\ FreshLocals
    /\ results' = [s \in Steps |-> "none"]
    /\ UNCHANGED <<planVars, calls>>

\* CancellationToken.request_cancellation
RequestCancellation ==
    /\ main \notin {"idle", "returned"}
    /\ ~token
    /\ token' = TRUE
    /\ UNCHANGED <<planVars, results, mainVars, task, slotVars, calls>>

-----------------------------------------------------------------------------
(* execute_plan.                                                           *)

Caller == UNCHANGED <<plan, token, calls>>
SetStatus(s, st, err) ==
    /\ status' = [status EXCEPT ![s] = st]
    /\ error' = [error EXCEPT ![s] = err]

\* Mutant of CancelOpen: the tasks are not cancelled.
CancelOpenKeepingTasks(s) ==
    /\ \/ main = "top" /\ ~IsComplete(status) /\ token /\ IsFirst(s, Open)
       \/ main = "cancel" /\ IsFirst(s, Later(Open))
    /\ SetStatus(s, "cancelled", error[s])
    /\ main' = "cancel" /\ cursor' = s
    /\ UNCHANGED <<batch, running_tasks, cancelReq, results, task, slotVars>>
    /\ Caller

\* The loop finds the token set: cancel every task, then mark the open steps
\* one by one, publishing StepCancelled for each.
CancelOpen(s) ==
    /\ \/ /\ main = "top" /\ ~IsComplete(status) /\ token
          /\ IsFirst(s, Open)
          /\ cancelReq' = running_tasks
       \/ /\ main = "cancel"
          /\ IsFirst(s, Later(Open))
          /\ UNCHANGED cancelReq
    /\ SetStatus(s, "cancelled", error[s])
    /\ main' = "cancel" /\ cursor' = s
    /\ UNCHANGED <<batch, running_tasks, results, task, slotVars>> /\ Caller

\* The pass over plan.steps in list order that cancels steps whose
\* prerequisites have failed; it is at steps after cursor.
Scanning == \/ main = "top" /\ ~IsComplete(status) /\ ~token
            \/ main = "scan"
\* Mutant of ToCancel: it looks at the prerequisites and not at the policy.
ToCancelWhateverPolicy ==
    {s \in Later(Pending) : \E d \in Prereqs(plan, s) : status[d] \in Unsuccessful}
ToCancel == {s \in Later(Pending) : PrerequisitesFailed(plan, status, s)}

CancelDependent(s) ==
    /\ Scanning
    /\ IsFirst(s, ToCancel)
    /\ SetStatus(s, "cancelled", "prerequisite")
    /\ main' = "scan" /\ cursor' = s
    /\ UNCHANGED <<batch, running_tasks, cancelReq, results, task, slotVars>>
    /\ Caller

\* The pass has reached the end of the list; what follows runs in the same
\* segment.
PassOver == Scanning /\ ToCancel = {}

\* get_ready_steps, and its first step: running, StepScheduled published.
LaunchFirst(s) ==
    /\ PassOver
    /\ IsFirst(s, Ready)
    /\ SetStatus(s, "running", error[s])
    /\ batch' = Ready \ {s}
    /\ main' = "launch" /\ cursor' = s
    /\ UNCHANGED <<running_tasks, cancelReq, results, task, slotVars>> /\ Caller

\* StepScheduled is published: create the task.
CreateTask ==
    /\ main = "launch"
    /\ task' = [task EXCEPT ![cursor] = "launched"]
    /\ running_tasks' = running_tasks \cup {cursor}
    /\ UNCHANGED <<cancelReq, results, slotVars>> /\ Caller

LaunchNext(s) ==
    /\ CreateTask
    /\ IsFirst(s, batch)
    /\ SetStatus(s, "running", error[s])
    /\ batch' = batch \ {s}
    /\ cursor' = s
    /\ UNCHANGED main

LaunchDone ==
    /\ CreateTask
    /\ batch = {}
    /\ main' = "wait" /\ cursor' = 0
    /\ UNCHANGED <<status, error, batch>>

\* Nothing to launch: wait for the tasks there are, ...
Await ==
    /\ PassOver
    /\ Ready = {} /\ running_tasks # {}
    /\ main' = "wait" /\ cursor' = 0
    /\ UNCHANGED <<planVars, results, batch, running_tasks, cancelReq, task,
                   slotVars, token, calls>>

\* Mutant of NothingToDo: live tasks are counted instead of running_tasks.
NothingToDoByTasks == PassOver /\ Ready = {} /\ \A s \in Steps : Ended(s)

\* ... or, with no task either, call the steps still pending deadlocked.
NothingToDo == PassOver /\ Ready = {} /\ running_tasks = {}

FailDeadlocked(s) ==
    /\ \/ /\ NothingToDo
          /\ IsFirst(s, Pending)
       \/ /\ main = "deadlock"
          /\ IsFirst(s, Later(Pending))
    /\ SetStatus(s, "failed", "deadlock")
    /\ main' = "deadlock" /\ cursor' = s
    /\ UNCHANGED <<batch, running_tasks, cancelReq, results, task, slotVars>>
    /\ Caller

\* asyncio.wait(FIRST_COMPLETED) resumes: finished tasks leave running_tasks.
Wake ==
    /\ main = "wait"
    /\ \E s \in running_tasks : task[s] = "done"
    /\ running_tasks' = {s \in running_tasks : task[s] # "done"}
    /\ main' = "top"
    /\ UNCHANGED <<planVars, results, cursor, batch, cancelReq, task, slotVars,
                   token, calls>>

\* The loop ends, by its condition or by one of the two breaks.  The metrics
\* computed here change no state of the execution.
Return ==
    /\ \/ main = "top" /\ IsComplete(status)
       \/ NothingToDo /\ Pending = {}
       \/ main = "cancel" /\ Later(Open) = {}
       \/ main = "deadlock" /\ Later(Pending) = {}
    /\ main' = "returned" /\ cursor' = 0
    /\ UNCHANGED <<planVars, results, batch, running_tasks, cancelReq, task,
                   slotVars, token, calls>>

-----------------------------------------------------------------------------
(* _run_step, as the task of step s.                                       *)

\* The task of s goes from one await to the next; a task that has been told
\* to cancel does not.
Step(s, from, to) ==
    /\ task[s] = from /\ s \notin cancelReq
    /\ task' = [task EXCEPT ![s] = to]
    /\ UNCHANGED <<plan, mainVars, token, calls>>

\* The semaphore is acquired and the step counted as active; then the token is
\* looked at again.
\* Mutant of Acquire: the step does not wait for the semaphore.
AcquireUnguarded ==
    /\ permits' = permits - 1
    /\ active' = active + 1
    /\ peak' = IF active' > peak THEN active' ELSE peak
Acquire ==
    /\ permits > 0
    /\ permits' = permits - 1
    /\ active' = active + 1
    /\ peak' = IF active' > peak THEN active' ELSE peak

StartStep(s) ==
    /\ Step(s, "launched", "starting")
    /\ ~token
    /\ Acquire
    /\ UNCHANGED <<status, error, results>>

AbortStep(s) ==
    /\ Step(s, "launched", "aborting")
    /\ token
    /\ Acquire
    /\ SetStatus(s, "cancelled", error[s])
    /\ UNCHANGED results

\* Mutant of LeaveAborted: the early return keeps the semaphore.
LeaveAbortedLeaking(s) ==
    Step(s, "aborting", "done") /\ UNCHANGED <<status, error, results, slotVars>>

\* The early return: it leaves the semaphore, but its `return` is before the
\* try whose finally counts the step out.
LeaveAborted(s) ==
    /\ Step(s, "aborting", "done")
    /\ permits' = permits + 1
    /\ UNCHANGED <<status, error, results, active, peak>>

Announce(s) ==
    /\ plan.kind[s] = "tool"
    /\ Step(s, "starting", "announcing")
    /\ UNCHANGED <<status, error, results, slotVars>>

Execute(s) ==
    /\ \/ plan.kind[s] = "llm" /\ Step(s, "starting", "executing")
       \/ Step(s, "announcing", "executing")
    /\ UNCHANGED <<status, error, results, slotVars>>

\* Mutant of ToolReturns: the result is stored before ToolFinished is published.
ToolReturnsStoring(s) ==
    /\ plan.kind[s] = "tool"
    /\ \/ Step(s, "executing", "succeeded") /\ results' = [results EXCEPT ![s] = "ok"]
       \/ Step(s, "executing", "errored") /\ results' = [results EXCEPT ![s] = "failed"]
    /\ UNCHANGED <<status, error, slotVars>>

\* execute_tool never raises: it reports a failure in its ToolResult.
ToolReturns(s) ==
    /\ plan.kind[s] = "tool"
    /\ \/ Step(s, "executing", "succeeded")
       \/ Step(s, "executing", "errored")
    /\ UNCHANGED <<status, error, results, slotVars>>

Complete(s) ==
    /\ \/ plan.kind[s] = "custom" /\ Step(s, "starting", "reporting")
       \/ plan.kind[s] = "llm" /\ Step(s, "executing", "reporting")
       \/ Step(s, "succeeded", "reporting")
    /\ SetStatus(s, "completed", error[s])
    /\ results' = [results EXCEPT ![s] = "ok"]
    /\ UNCHANGED slotVars

\* The ToolResult is a failure, or llm.generate raised.
Fail(s) ==
    /\ \/ plan.kind[s] = "llm" /\ Step(s, "executing", "reporting")
       \/ Step(s, "errored", "reporting")
    /\ SetStatus(s, "failed", "execution")
    /\ results' = [results EXCEPT ![s] = "failed"]
    /\ UNCHANGED slotVars

\* Mutant of Finish: the semaphore is not left.
FinishLeaking(s) ==
    /\ Step(s, "reporting", "done")
    /\ active' = active - 1
    /\ UNCHANGED <<status, error, results, permits, peak>>

\* The finally clause, and the semaphore is left.
Finish(s) ==
    /\ Step(s, "reporting", "done")
    /\ permits' = permits + 1
    /\ active' = active - 1
    /\ UNCHANGED <<status, error, results, peak>>

\* Mutant of Unwind: the except clause catches CancelledError too.
UnwindAsFailure(s) ==
    /\ s \in cancelReq /\ ~Ended(s)
    /\ task' = [task EXCEPT ![s] = "done"]
    /\ permits' = IF task[s] \in InSemaphore THEN permits + 1 ELSE permits
    /\ active' = IF task[s] \in InTry THEN active - 1 ELSE active
    /\ IF task[s] \in InTry THEN SetStatus(s, "failed", "execution")
                            ELSE UNCHANGED <<status, error>>
    /\ UNCHANGED <<plan, results, mainVars, peak, token, calls>>

\* Mutant of Unwind: a task that waits for the semaphore is not cancelled.
UnwindHolders(s) ==
    /\ s \in cancelReq /\ task[s] \in InSemaphore
    /\ task' = [task EXCEPT ![s] = "done"]
    /\ permits' = permits + 1
    /\ active' = IF task[s] \in InTry THEN active - 1 ELSE active
    /\ UNCHANGED <<planVars, results, mainVars, peak, token, calls>>

\* CancelledError is raised at the await the task is at.  No except clause
\* catches it; inside the try the finally runs.
Unwind(s) ==
    /\ s \in cancelReq /\ ~Ended(s)
    /\ task' = [task EXCEPT ![s] = "done"]
    /\ permits' = IF task[s] \in InSemaphore THEN permits + 1 ELSE permits
    /\ active' = IF task[s] \in InTry THEN active - 1 ELSE active
    /\ UNCHANGED <<planVars, results, mainVars, peak, token, calls>>

-----------------------------------------------------------------------------
ExecutePlan ==
    \/ \E s \in Steps : \/ CancelOpen(s) \/ CancelDependent(s)
                        \/ LaunchFirst(s) \/ LaunchNext(s) \/ FailDeadlocked(s)
    \/ LaunchDone \/ Await \/ Wake \/ Return

RunStep(s) ==
    \/ StartStep(s) \/ AbortStep(s) \/ LeaveAborted(s)
    \/ Announce(s) \/ Execute(s) \/ ToolReturns(s)
    \/ Complete(s) \/ Fail(s) \/ Finish(s) \/ Unwind(s)

Next ==
    \/ Call \/ Restore \/ RequestCancellation
    \/ ExecutePlan
    \/ \E s \in Steps : RunStep(s)

Spec == Init /\ [][Next]_vars

\* The event loop resumes every coroutine that can go on, a permit that is
\* free is given to a task that waits for one, and subscribers, tools and the
\* LLM return.
FairSpec ==
    /\ Spec
    /\ WF_vars(ExecutePlan)
    /\ \A s \in Steps : WF_vars(RunStep(s))

-----------------------------------------------------------------------------
(* Properties.                                                             *)

\* The values of the variables; a scan or launch is always about some step.
TypeOK ==
    /\ plan \in Plans
    /\ status \in [Steps -> Statuses]
    /\ error \in [Steps -> {"none", "prerequisite", "deadlock", "execution"}]
    /\ results \in [Steps -> {"none", "ok", "failed"}]
    /\ main \in MainStates
    /\ cursor \in StepIds /\ (main \in {"scan", "launch"} => cursor \in Steps)
    /\ batch \subseteq Steps /\ running_tasks \subseteq Steps
    /\ task \in [Steps -> TaskStates]
    /\ cancelReq \subseteq Steps
    /\ permits \in Nat /\ active \in Int /\ peak \in Nat
    /\ token \in BOOLEAN
    /\ calls \in 0..MaxCalls

\* A step is launched only when its dependency policy is met, and the policy
\* stays met while it runs: no prerequisite is taken back under it.
PolicyRespected ==
    \A s \in Steps : task[s] # "none" => PolicyMet(plan, status, s)

\* Every way out of _run_step (return, exception, cancellation at any of its
\* awaits) gives back the permit it holds, and at most max_concurrent_tasks
\* steps are past the semaphore.
SlotsConserved == permits + Cardinality(Holders) = MaxConcurrent

\* A call that returns leaves no step pending or running.
ResolvedOnReturn == main = "returned" => IsComplete(status)

\* The results dict holds a success exactly for the completed steps, and a
\* failure only for failed ones: a step cancelled while its tool was returning
\* has no result, and no late task writes one.
ResultsAgree ==
    main # "idle" =>
        \A s \in Steps : /\ results[s] = "ok" <=> status[s] = "completed"
                         /\ results[s] = "failed" => status[s] = "failed"
                         /\ error[s] = "execution" => results[s] = "failed"

\* The deadlock branch never fires on a plan that lists steps after their
\* prerequisites, whichever of them fail or are cancelled.
NoFalseDeadlock ==
    WellFormed(plan) => \A s \in Steps : error[s] # "deadlock"

\* When a call that was not cancelled returns, exactly the steps whose policy
\* the final statuses satisfy have been executed: neither the order in which
\* tasks end nor an earlier, cancelled or interrupted call matters.
OutcomesFollowPolicy ==
    main = "returned" /\ ~token /\ WellFormed(plan) =>
        \A s \in Steps : status[s] \in {"completed", "failed"}
                            <=> PolicyMet(plan, status, s)

\* When execute_plan has returned, a task that was not cancelled is at most
\* publishing the last event of its step: it executes nothing any more.
NothingRunsAfterReturn ==
    main = "returned" =>
        \A s \in Steps \ cancelReq :
            task[s] \in {"none", "aborting", "reporting", "done"}

\* A resolved step is not touched again: a task that ends late does not
\* overwrite a cancellation, a cancellation not an outcome, and a resumed call
\* keeps completed and failed steps; it retries only cancelled ones.
TerminalStable ==
    [][\A s \in Steps :
          /\ status[s] \in {"completed", "failed"} => status'[s] = status[s]
          /\ status[s] = "cancelled" =>
                status'[s] = "cancelled" \/ calls' > calls]_vars

\* The status of the steps moves as PlanRun says.
Abstract == INSTANCE PlanRun
                WITH open <- main \notin {"idle", "returned"},
                     requested <- token,
                     stuck <- main = "deadlock"
ImplementsPlanRun == Abstract!Spec

\* execute_plan returns, unless the process stops.
CallReturns == main \notin {"idle", "returned"} ~> main \in {"idle", "returned"}

\* Once execute_plan has returned, every task it created ends and gives its
\* permit back: a cancellation at any await strands neither.
TasksEnd ==
    main = "returned" ~>
        \/ main # "returned"
        \/ permits = MaxConcurrent /\ \A s \in Steps : Ended(s)

\* A step with policy ignore_failures "executes as long as all prerequisite
\* steps finish" (ADR-006): in a plan without cycle or dangling dependency it
\* has been executed when an uncancelled call returns.
IgnoreFailuresRuns ==
    main = "returned" /\ ~token /\ Acyclic(plan) =>
        \A s \in Steps :
            plan.policy[s] = "ignore_failures" => results[s] # "none"

\* The concurrency the metrics report never exceeds the limit.
PeakWithinLimit == peak <= MaxConcurrent
=============================================================================
