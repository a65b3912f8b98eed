----------------------- MODULE DAGSchedulerRefinement -----------------------
(* DAGScheduler implements PlanRun: every step of a coroutine or a task is  *)
(* one move of a step's status, or none.                                   *)
EXTENDS DAGSchedulerProofs

CancelOnRequest == main = "cancel" => token

AbstractOps == Abstract!vars

Simulates == Abstract!Next \/ UNCHANGED AbstractOps

\* Everything the simulation needs to know of a state.
Known ==
    /\ TypeOK /\ IInv /\ Accounting /\ LaunchPolicy /\ NothingRunsAfterReturn
    /\ CancelOnRequest

\* The cancellation loop runs only for a requested cancellation.
THEOREM CancelRequested == Spec => []CancelOnRequest
<1>1. Init => CancelOnRequest
  BY DEF Init, CancelOnRequest
<1>2. CancelOnRequest /\ [Next]_vars => CancelOnRequest'
  <2> SUFFICES ASSUME main = "cancel" => token, [Next]_vars, main' = "cancel"
               PROVE  token'
    BY DEF CancelOnRequest
  <2>1. ASSUME NEW s \in Steps, CancelOpen(s) PROVE token'
    BY <2>1 DEF CancelOpen, Caller
  <2>2. CASE RequestCancellation
    BY <2>2 DEF RequestCancellation
  <2>3. CASE UNCHANGED <<main, token>>
    BY <2>3
  <2>4. ASSUME NEW s \in Steps, RunStep(s) PROVE UNCHANGED <<main, token>>
    BY <2>4 DEF RunStep, StartStep, AbortStep, LeaveAborted, Announce, Execute,
         ToolReturns, Complete, Fail, Finish, Unwind, Step, mainVars
  <2> QED BY <2>1, <2>2, <2>3, <2>4
          DEF Next, Call, Restore, ExecutePlan, CancelDependent, LaunchFirst, LaunchNext,
              LaunchDone, CreateTask, FailDeadlocked, Await, Wake, Return, vars
<1> QED BY <1>1, <1>2, PTL DEF Spec

\* The caller of execute_plan takes steps of PlanRun, ...
LEMMA CallerSimulates ==
  ASSUME Known, MidRunCheckpoints = FALSE, Call \/ Restore \/ RequestCancellation
  PROVE  Simulates
<1> USE DEF Known, CancelOnRequest, Simulates, AbstractOps, Abstract!Next, Abstract!vars, planVars
<1>1. CASE Call
  <2>1. Abstract!Submit
    BY <1>1 DEF Call, FreshLocals, Abstract!Submit, Abstract!Steps, Steps
  <2> QED BY <2>1
<1>2. CASE Restore
  <2>1. Abstract!Interrupt
    BY <1>2 DEF Restore, FreshLocals, Abstract!Interrupt, Abstract!Steps, Steps
  <2> QED BY <2>1
<1>3. CASE RequestCancellation
  <2>1. Abstract!Request
    BY <1>3 DEF RequestCancellation, mainVars, Abstract!Request
  <2> QED BY <2>1
<1> QED BY <1>1, <1>2, <1>3

\* ... every segment of execute_plan is a step of PlanRun or a stutter, ...
LEMMA ExecutePlanSimulates ==
  ASSUME Known, MidRunCheckpoints = FALSE, ExecutePlan
  PROVE  Simulates
<1> USE DEF Known, CancelOnRequest, Simulates, AbstractOps, Abstract!Next, Abstract!vars, Abstract!Move,
    planVars, Caller, SetStatus, IsFirst, Later, Open, Pending, Scanning, PassOver,
    Abstract!Steps, Steps
<1>1. ASSUME NEW s \in Steps, CancelOpen(s) PROVE Simulates
  <2>1. Abstract!Cancel(s)
    BY <1>1 DEF CancelOpen, Abstract!Cancel
  <2> QED BY <2>1
<1>2. ASSUME NEW s \in Steps, CancelDependent(s) PROVE Simulates
  <2>1. Abstract!PrerequisitesFailed(plan, status, s)
    BY <1>2 DEF CancelDependent, ToCancel, PrerequisitesFailed, Prereqs, Unsuccessful,
                Abstract!PrerequisitesFailed, Abstract!Prereqs, Abstract!Unsuccessful
  <2>2. Abstract!Skip(s)
    BY <1>2, <2>1 DEF CancelDependent, ToCancel, Abstract!Skip
  <2> QED BY <2>2
<1>3. ASSUME NEW s \in Steps, LaunchFirst(s) \/ LaunchNext(s) PROVE Simulates
  <2>1. status[s] = "pending" /\ PolicyMet(plan, status, s)
    BY <1>3 DEF LaunchFirst, LaunchNext, Ready, GetReadySteps, LaunchPolicy, IInv, Launching
  <2>2. Abstract!PolicyMet(plan, status, s)
    BY <2>1 DEF PolicyMet, Terminal, Abstract!PolicyMet, Abstract!Terminal
  <2>3. Abstract!Start(s)
    BY <1>3, <2>1, <2>2 DEF LaunchFirst, LaunchNext, CreateTask, Abstract!Start
  <2> QED BY <2>3
<1>4. ASSUME NEW s \in Steps, FailDeadlocked(s) PROVE Simulates
  <2>1. CASE NothingToDo
    <3>1. \A t \in Steps : status[t] # "running"
      BY <2>1 DEF NothingToDo, Accounting, Accounted
    <3>2. Abstract!GetReadySteps(plan, status) = {}
      BY <2>1 DEF NothingToDo, Ready, GetReadySteps, PolicyMet, Terminal,
           Abstract!GetReadySteps, Abstract!PolicyMet, Abstract!Terminal
    <3>3. Abstract!GiveUp(s)
      BY <1>4, <2>1, <3>1, <3>2 DEF FailDeadlocked, NothingToDo, Abstract!GiveUp
    <3> QED BY <3>3
  <2>2. CASE main = "deadlock"
    <3>1. Abstract!GiveUp(s)
      BY <1>4, <2>2 DEF FailDeadlocked, NothingToDo, Abstract!GiveUp
    <3> QED BY <3>1
  <2> QED BY <1>4, <2>1, <2>2 DEF FailDeadlocked
<1>5. CASE LaunchDone \/ Await \/ Wake
  BY <1>5 DEF LaunchDone, CreateTask, Await, Wake
<1>6. CASE Return
  <2>1. IsComplete(status)
    BY <1>6, ReturnAccounting
       DEF Return, Accounting, ResolvedOnReturn
  <2>2. Abstract!Close
    BY <1>6, <2>1 DEF Return, NothingToDo, IsComplete, Terminal, Abstract!Close,
         Abstract!IsComplete, Abstract!Terminal
  <2> QED BY <2>2
<1> QED BY <1>1, <1>2, <1>3, <1>4, <1>5, <1>6 DEF ExecutePlan

\* ... and every segment of _run_step too.
LEMMA RunStepSimulates ==
  ASSUME Known, NEW s \in Steps, RunStep(s)
  PROVE  Simulates
<1> USE DEF Known, CancelOnRequest, Simulates, AbstractOps, Abstract!Next, Abstract!vars, Abstract!Move,
    planVars, mainVars, SetStatus, Step, Abstract!Steps, Steps
<1>1. s \notin cancelReq /\ task[s] \in Working =>
        status[s] = "running" /\ main \notin {"idle", "returned", "deadlock"}
  BY DEF IInv, TaskStatus, Tracking, Ended, Working, NothingRunsAfterReturn
<1>2. CASE AbortStep(s)
  <2>1. Abstract!Cancel(s)
    BY <1>1, <1>2 DEF AbortStep, Working, Abstract!Cancel
  <2> QED BY <2>1
<1>3. CASE Complete(s)
  <2>1. Abstract!Finish(s)
    BY <1>1, <1>3 DEF Complete, Working, Abstract!Finish
  <2> QED BY <2>1
<1>4. CASE Fail(s)
  <2>1. Abstract!Finish(s)
    BY <1>1, <1>4 DEF Fail, Working, Abstract!Finish
  <2> QED BY <2>1
<1>5. CASE UNCHANGED <<plan, status, main, token>>
  BY <1>5
<1> QED BY <1>2, <1>3, <1>4, <1>5
        DEF RunStep, StartStep, LeaveAborted, Announce, Execute, ToolReturns,
            Finish, Unwind

\* With checkpoints taken only between steps, the statuses of a plan move as
\* PlanRun says: steps start under their policy, are skipped or cancelled for
\* the stated reasons only, and a call ends with every step resolved.
THEOREM Refinement == MidRunCheckpoints = FALSE /\ Spec => ImplementsPlanRun
<1>1. Init => Abstract!Init
  BY DEF Init, Abstract!Init, Abstract!Steps, Steps
<1>2. CASE MidRunCheckpoints = FALSE
  <2>1. Known /\ [Next]_vars => [Abstract!Next]_Abstract!vars
    <3> SUFFICES ASSUME Known, [Next]_vars PROVE Simulates
      BY DEF Simulates, AbstractOps
    <3>1. CASE UNCHANGED vars
      BY <3>1 DEF vars, Simulates, AbstractOps, Abstract!vars
    <3> QED BY <1>2, <3>1, CallerSimulates, ExecutePlanSimulates, RunStepSimulates
            DEF Next
  <2>2. TypeOK /\ IInv /\ Accounting /\ LaunchPolicy /\ NothingRunsAfterReturn
          /\ CancelOnRequest => Known
    BY DEF Known
  <2> QED BY <1>1, <2>1, <2>2, Typing, InvariantHolds, AccountingHolds, LaunchPolicyHolds,
             QuietAfterReturn, CancelRequested, PTL
          DEF Spec, ImplementsPlanRun, Abstract!Spec
<1> QED BY <1>2
=============================================================================
