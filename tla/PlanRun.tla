------------------------------ MODULE PlanRun -------------------------------
(***************************************************************************)
(* What a plan's owner may rely on while it is executed and resumed: the   *)
(* life of the step statuses, with no coroutine, task or semaphore in it.  *)
(* DAGScheduler implements it (core/interfaces/scheduler.py states the     *)
(* contract only as a signature; the rules are those of                    *)
(* runtime/scheduler/dag_scheduler.py and core/models/planning.py).        *)
(***************************************************************************)
EXTENDS Plan

CONSTANT Plans

VARIABLES
    plan,        \* shape of the plan
    status,      \* status of each step
    open,        \* a call of execute_plan is in progress
    requested,   \* its cancellation has been requested
    stuck        \* it has found that no step can make progress

vars == <<plan, status, open, requested, stuck>>

Init ==
    /\ plan \in Plans
    /\ status = [s \in Steps |-> "pending"]
    /\ open = FALSE /\ requested = FALSE /\ stuck = FALSE

Move(s, from, to) ==
    /\ open
    /\ status[s] \in from
    /\ status' = [status EXCEPT ![s] = to]
    /\ UNCHANGED <<plan, open, requested>>

\* A new call retries the cancelled steps and keeps what has an outcome.
Submit ==
    /\ ~open
    /\ open' = TRUE /\ requested' = FALSE
    /\ status' = [s \in Steps |-> IF status[s] = "cancelled" THEN "pending"
                                                             ELSE status[s]]
    /\ UNCHANGED <<plan, stuck>>

Request ==
    /\ open /\ requested' = TRUE
    /\ UNCHANGED <<plan, status, open, stuck>>

\* Only a step whose dependency policy is met starts.
Start(s) ==
    /\ ~stuck /\ PolicyMet(plan, status, s)
    /\ Move(s, {"pending"}, "running") /\ UNCHANGED stuck

Finish(s) ==
    /\ ~stuck
    /\ Move(s, {"running"}, "completed") \/ Move(s, {"running"}, "failed")
    /\ UNCHANGED stuck

\* Only a step whose prerequisites rule it out is skipped.
Skip(s) ==
    /\ ~stuck /\ PrerequisitesFailed(plan, status, s)
    /\ Move(s, {"pending"}, "cancelled") /\ UNCHANGED stuck

\* Other steps are cancelled only on request.
Cancel(s) ==
    /\ ~stuck /\ requested
    /\ Move(s, {"pending", "running"}, "cancelled") /\ UNCHANGED stuck

\* The run gives up only when nothing runs and no pending step can start.
GiveUp(s) ==
    /\ \/ stuck
       \/ \A t \in Steps : /\ status[t] # "running"
                           /\ t \notin GetReadySteps(plan, status)
    /\ Move(s, {"pending"}, "failed")
    /\ stuck' = TRUE

\* A call ends with every step resolved; ...
Close ==
    /\ open /\ IsComplete(status)
    /\ open' = FALSE /\ stuck' = FALSE
    /\ UNCHANGED <<plan, status, requested>>

\* ... or the process ends, and the plan is that of a checkpoint taken while
\* no step was running.
Interrupt ==
    /\ \A s \in Steps : status[s] # "running"
    /\ open' = FALSE /\ stuck' = FALSE /\ requested' = FALSE
    /\ UNCHANGED <<plan, status>>

Next ==
    \/ Submit \/ Request \/ Close \/ Interrupt
    \/ \E s \in Steps : \/ Start(s) \/ Finish(s) \/ Skip(s)
                        \/ Cancel(s) \/ GiveUp(s)

Spec == Init /\ [][Next]_vars
=============================================================================
