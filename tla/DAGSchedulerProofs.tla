------------------------- MODULE DAGSchedulerProofs -------------------------
(* What DAGScheduler does for every plan, limit and number of calls.       *)
EXTENDS DAGScheduler, FiniteSetTheorems, TLAPS

USE NAssumption, PlansAssumption, MaxConcurrentAssumption, MaxCallsAssumption,
    CheckpointsAssumption

-----------------------------------------------------------------------------
(* Helpers.                                                                *)

\* The steps are finitely many, and so are any of them.
LEMMA StepsFinite == IsFiniteSet(Steps)
  BY FS_Interval, NAssumption DEF Steps

\* The steps of the plan are natural numbers, and none of them is 0.
LEMMA StepsNat == Steps \subseteq Nat /\ 0 \notin Steps /\ Steps \subseteq StepIds
  BY DEF Steps, StepIds

\* A plan shape is made of what Plan says: a set of ids, a policy and a kind for
\* every step.
LEMMA ShapeTyping ==
  ASSUME plan \in Plans
  PROVE  /\ plan.deps \in [Steps -> SUBSET StepIds]
         /\ plan.policy \in [Steps -> Policies]
         /\ plan.kind \in [Steps -> Kinds]
  BY DEF PlanShapes

-----------------------------------------------------------------------------
(* Types.                                                                  *)

\* Every reachable state of execute_plan, its tasks and its caller has the
\* types of TypeOK.
THEOREM Typing == Spec => []TypeOK
<1>1. Init => TypeOK
  <2> SUFFICES ASSUME Init PROVE TypeOK
    OBVIOUS
  <2>1. token \in BOOLEAN
    BY DEF Init
  <2> QED
    BY <2>1 DEF Init, TypeOK, StepIds, Statuses, MainStates, TaskStates
<1>2. TypeOK /\ [Next]_vars => TypeOK'
  <2> SUFFICES ASSUME TypeOK, [Next]_vars PROVE TypeOK'
    OBVIOUS
  <2> USE DEF TypeOK, Statuses, MainStates, TaskStates
  <2>1. CASE Call
    <3>1. token' \in BOOLEAN
      BY <2>1 DEF Call, FreshLocals
    <3>2. /\ status' \in [Steps -> Statuses]
          /\ results' \in [Steps -> {"none", "ok", "failed"}]
          /\ error' \in [Steps -> {"none", "prerequisite", "deadlock", "execution"}]
      BY <2>1 DEF Call
    <3>3. calls' \in 0..MaxCalls
      BY <2>1 DEF Call
    <3> QED BY <2>1, <3>1, <3>2, <3>3 DEF Call, FreshLocals, StepIds
  <2>2. CASE Restore
    <3>1. token' \in BOOLEAN
      BY <2>2 DEF Restore, FreshLocals
    <3> QED BY <2>2, <3>1 DEF Restore, FreshLocals, StepIds, planVars
  <2>3. CASE RequestCancellation
    BY <2>3 DEF RequestCancellation, planVars, mainVars, slotVars
  <2>4. CASE ExecutePlan
    <3> USE StepsNat DEF Caller, SetStatus, slotVars, planVars
    <3>1. ASSUME NEW s \in Steps, CancelOpen(s) PROVE TypeOK'
      BY <3>1 DEF CancelOpen
    <3>2. ASSUME NEW s \in Steps, CancelDependent(s) PROVE TypeOK'
      BY <3>2 DEF CancelDependent
    <3>3. ASSUME NEW s \in Steps, LaunchFirst(s) PROVE TypeOK'
      BY <3>3 DEF LaunchFirst, Ready, GetReadySteps
    <3>4. ASSUME NEW s \in Steps, LaunchNext(s) PROVE TypeOK'
      BY <3>4 DEF LaunchNext, CreateTask
    <3>5. ASSUME NEW s \in Steps, FailDeadlocked(s) PROVE TypeOK'
      BY <3>5 DEF FailDeadlocked
    <3>6. CASE LaunchDone
      BY <3>6 DEF LaunchDone, CreateTask, StepIds
    <3>7. CASE Await
      BY <3>7 DEF Await, StepIds
    <3>8. CASE Wake
      BY <3>8 DEF Wake
    <3>9. CASE Return
      BY <3>9 DEF Return, StepIds
    <3> QED BY <2>4, <3>1, <3>2, <3>3, <3>4, <3>5, <3>6, <3>7, <3>8, <3>9
            DEF ExecutePlan
  <2>5. ASSUME NEW s \in Steps, RunStep(s) PROVE TypeOK'
    <3> USE DEF Step, SetStatus, slotVars, planVars, mainVars, Acquire
    <3>1. CASE StartStep(s)     BY <3>1 DEF StartStep
    <3>2. CASE AbortStep(s)     BY <3>2 DEF AbortStep
    <3>3. CASE LeaveAborted(s)  BY <3>3 DEF LeaveAborted
    <3>4. CASE Announce(s)      BY <3>4 DEF Announce
    <3>5. CASE Execute(s)       BY <3>5 DEF Execute
    <3>6. CASE ToolReturns(s)   BY <3>6 DEF ToolReturns
    <3>7. CASE Complete(s)      BY <3>7 DEF Complete
    <3>8. CASE Fail(s)          BY <3>8 DEF Fail
    <3>9. CASE Finish(s)        BY <3>9 DEF Finish
    <3>10. CASE Unwind(s)       BY <3>10 DEF Unwind
    <3> QED BY <2>5, <3>1, <3>2, <3>3, <3>4, <3>5, <3>6, <3>7, <3>8, <3>9,
               <3>10 DEF RunStep
  <2>6. CASE UNCHANGED vars
    BY <2>6 DEF vars
  <2> QED BY <2>1, <2>2, <2>3, <2>4, <2>5, <2>6 DEF Next
<1> QED BY <1>1, <1>2, PTL DEF Spec

-----------------------------------------------------------------------------
(* The inductive invariant.  It relates what the three records of a step's *)
(* progress say: its status, its task, and the sets execute_plan keeps.    *)

Working == {"launched", "starting", "announcing", "executing", "succeeded",
            "errored"}

\* What the task of a step says about its status.  A cancelled task may have
\* ended while its step still awaits its turn in the cancellation loop.
TaskStatus ==
    \A s \in Steps :
        /\ status[s] = "pending" => task[s] = "none"
        /\ task[s] = "aborting" => status[s] = "cancelled"
        /\ task[s] = "reporting" => status[s] \in {"completed", "failed"}
        /\ s \notin cancelReq /\ task[s] \in Working => status[s] = "running"
        /\ s \notin cancelReq /\ task[s] = "done" => status[s] \in Terminal

\* running_tasks holds every task that has not ended; once tasks have been
\* cancelled no other is left, and a deadlock is declared only without tasks.
Tracking ==
    /\ \A s \in Steps : ~Ended(s) => s \in running_tasks
    /\ \A s \in running_tasks : task[s] # "none"
    /\ cancelReq # {} => main \in {"cancel", "returned"}
    /\ main = "cancel" => running_tasks \subseteq cancelReq
    /\ main = "deadlock" => running_tasks = {}
    /\ main = "idle" => running_tasks = {}

\* The steps selected and not launched yet are pending; the one whose launch
\* is being published is running and has no task.
Launching ==
    /\ main = "launch" => task[cursor] = "none" /\ status[cursor] = "running"
    /\ main # "launch" => batch = {}
    /\ \A s \in batch : status[s] = "pending"

\* What the two closing loops have dealt with so far; between loops, nothing.
Closing ==
    /\ main \in {"idle", "top", "wait", "returned"} => cursor = 0
    /\ main = "cancel" => \A s \in Steps : s <= cursor => status[s] \in Terminal
    /\ main = "deadlock" => \A s \in Steps : s <= cursor => status[s] # "pending"

IInv == TaskStatus /\ Tracking /\ Launching /\ Closing

\* Without a checkpoint taken mid-run, a running step has a task.
Accounted ==
    MidRunCheckpoints = FALSE =>
        \A s \in Steps : status[s] = "running" =>
            s \in running_tasks \/ (main = "launch" /\ s = cursor)

LaunchPolicy ==
    /\ PolicyRespected
    /\ main = "launch" => PolicyMet(plan, status, cursor)
    /\ \A s \in batch : PolicyMet(plan, status, s)

\* A step that the pass has left pending although its prerequisites have
\* failed since is followed by another look at the plan.
ScanComplete ==
    WellFormed(plan) /\ main = "scan" /\ running_tasks = {} =>
        \A s \in Steps : s <= cursor /\ status[s] = "pending"
                            => ~PrerequisitesFailed(plan, status, s)

-----------------------------------------------------------------------------
(* The invariant is inductive.                                             *)

\* The invariant holds before the first call.
LEMMA InitIInv == Init => IInv
  BY DEF Init, IInv, TaskStatus, Tracking, Launching, Closing, Ended, Working

\* A new call, a restart from a checkpoint and a cancellation request keep the
\* invariant.
LEMMA CallerIInv ==
  ASSUME TypeOK, IInv, Call \/ Restore \/ RequestCancellation
  PROVE  IInv'
<1> USE DEF TypeOK, IInv, TaskStatus, Tracking, Launching, Closing, Ended, Working
<1>1. CASE Call
  BY <1>1 DEF Call, FreshLocals
<1>2. CASE Restore
  BY <1>2 DEF Restore, FreshLocals, planVars
<1>3. CASE RequestCancellation
  BY <1>3 DEF RequestCancellation, planVars, mainVars
<1> QED BY <1>1, <1>2, <1>3

\* Every segment of execute_plan keeps the invariant, ...
LEMMA ExecutePlanIInv ==
  ASSUME TypeOK, IInv, ExecutePlan
  PROVE  IInv'
<1> USE StepsNat DEF TypeOK, IInv, TaskStatus, Tracking, Launching, Closing, Ended,
    Working, Statuses, Terminal, IsFirst, Open, Later, Pending, Caller, SetStatus
<1>1. ASSUME NEW s \in Steps, CancelOpen(s) PROVE IInv'
  BY <1>1 DEF CancelOpen
<1>2. ASSUME NEW s \in Steps, CancelDependent(s) PROVE IInv'
  BY <1>2 DEF CancelDependent, ToCancel, Scanning
<1>3. ASSUME NEW s \in Steps, LaunchFirst(s) PROVE IInv'
  BY <1>3 DEF LaunchFirst, Ready, GetReadySteps, PassOver, Scanning
<1>4. ASSUME NEW s \in Steps, LaunchNext(s) PROVE IInv'
  BY <1>4 DEF LaunchNext, CreateTask
<1>5. ASSUME NEW s \in Steps, FailDeadlocked(s) PROVE IInv'
  BY <1>5 DEF FailDeadlocked, NothingToDo, PassOver, Scanning
<1>6. CASE LaunchDone
  BY <1>6 DEF LaunchDone, CreateTask
<1>7. CASE Await
  BY <1>7 DEF Await, planVars, PassOver, Scanning, NothingToDo
<1>8. CASE Wake
  BY <1>8 DEF Wake, planVars
<1>9. CASE Return
  BY <1>9 DEF Return, planVars, PassOver, Scanning, NothingToDo
<1> QED BY <1>1, <1>2, <1>3, <1>4, <1>5, <1>6, <1>7, <1>8, <1>9 DEF ExecutePlan

\* ... and so does every segment of _run_step.
LEMMA RunStepIInv ==
  ASSUME TypeOK, IInv, NEW s \in Steps, RunStep(s)
  PROVE  IInv'
<1> USE StepsNat DEF TypeOK, IInv, TaskStatus, Tracking, Launching, Closing, Ended,
    Working, Statuses, Terminal, TaskStates, Step, SetStatus, mainVars, planVars
<1>1. CASE StartStep(s)
  BY <1>1 DEF StartStep
<1>2. CASE AbortStep(s)
  BY <1>2 DEF AbortStep
<1>3. CASE LeaveAborted(s)
  BY <1>3 DEF LeaveAborted
<1>4. CASE Announce(s)
  BY <1>4 DEF Announce
<1>5. CASE Execute(s)
  <2>1. CASE Step(s, "starting", "executing")
    BY <1>5, <2>1 DEF Execute
  <2>2. CASE Step(s, "announcing", "executing")
    BY <1>5, <2>2 DEF Execute
  <2> QED BY <1>5, <2>1, <2>2 DEF Execute
<1>6. CASE ToolReturns(s)
  <2>1. CASE Step(s, "executing", "succeeded")
    BY <1>6, <2>1 DEF ToolReturns
  <2>2. CASE Step(s, "executing", "errored")
    BY <1>6, <2>2 DEF ToolReturns
  <2> QED BY <1>6, <2>1, <2>2 DEF ToolReturns
<1>7. CASE Complete(s)
  <2>1. CASE Step(s, "starting", "reporting")
    BY <1>7, <2>1 DEF Complete
  <2>2. CASE Step(s, "executing", "reporting")
    BY <1>7, <2>2 DEF Complete
  <2>3. CASE Step(s, "succeeded", "reporting")
    BY <1>7, <2>3 DEF Complete
  <2> QED BY <1>7, <2>1, <2>2, <2>3 DEF Complete
<1>8. CASE Fail(s)
  <2>1. CASE Step(s, "executing", "reporting")
    BY <1>8, <2>1 DEF Fail
  <2>2. CASE Step(s, "errored", "reporting")
    BY <1>8, <2>2 DEF Fail
  <2> QED BY <1>8, <2>1, <2>2 DEF Fail
<1>9. CASE Finish(s)
  BY <1>9 DEF Finish
<1>10. CASE Unwind(s)
  BY <1>10 DEF Unwind
<1> QED BY <1>1, <1>2, <1>3, <1>4, <1>5, <1>6, <1>7, <1>8, <1>9, <1>10 DEF RunStep

\* The three records of a step's progress agree in every reachable state.
THEOREM InvariantHolds == Spec => []IInv
<1>1. TypeOK /\ IInv /\ [Next]_vars => IInv'
  <2> SUFFICES ASSUME TypeOK, IInv, [Next]_vars PROVE IInv'
    OBVIOUS
  <2>1. CASE Next
    BY <2>1, CallerIInv, ExecutePlanIInv, RunStepIInv DEF Next
  <2>2. CASE UNCHANGED vars
    BY <2>2 DEF vars, IInv, TaskStatus, Tracking, Launching, Closing, Ended
  <2> QED BY <2>1, <2>2
<1> QED BY <1>1, InitIInv, Typing, PTL DEF Spec

-----------------------------------------------------------------------------
(* Outcomes are final.                                                     *)

KeepsOutcomes ==
    \A s \in Steps :
        /\ status[s] \in {"completed", "failed"} => status'[s] = status[s]
        /\ status[s] = "cancelled" => status'[s] = "cancelled" \/ calls' > calls

\* Within a call, a step that has an outcome or was cancelled stays so.
LEMMA ExecutionKeepsOutcomes ==
  ASSUME TypeOK, IInv, ExecutePlan \/ \E s \in Steps : RunStep(s)
  PROVE  \A s \in Steps : status[s] \in Terminal => status'[s] = status[s]
<1> USE DEF TypeOK, Terminal, SetStatus, planVars
<1>1. CASE ExecutePlan
  <2> USE DEF IsFirst, Open, Later, Pending
  <2>1. ASSUME NEW s \in Steps, CancelOpen(s)
        PROVE \A t \in Steps : status[t] \in Terminal => status'[t] = status[t]
    BY <2>1 DEF CancelOpen
  <2>2. ASSUME NEW s \in Steps, CancelDependent(s)
        PROVE \A t \in Steps : status[t] \in Terminal => status'[t] = status[t]
    BY <2>2 DEF CancelDependent, ToCancel
  <2>3. ASSUME NEW s \in Steps, LaunchFirst(s)
        PROVE \A t \in Steps : status[t] \in Terminal => status'[t] = status[t]
    BY <2>3 DEF LaunchFirst, Ready, GetReadySteps
  <2>4. ASSUME NEW s \in Steps, LaunchNext(s)
        PROVE \A t \in Steps : status[t] \in Terminal => status'[t] = status[t]
    BY <2>4 DEF LaunchNext, IInv, Launching
  <2>5. ASSUME NEW s \in Steps, FailDeadlocked(s)
        PROVE \A t \in Steps : status[t] \in Terminal => status'[t] = status[t]
    BY <2>5 DEF FailDeadlocked
  <2>6. CASE LaunchDone \/ Await \/ Wake \/ Return
    BY <2>6 DEF LaunchDone, Await, Wake, Return
  <2> QED BY <1>1, <2>1, <2>2, <2>3, <2>4, <2>5, <2>6 DEF ExecutePlan
<1>2. ASSUME NEW s \in Steps, RunStep(s)
      PROVE \A t \in Steps : status[t] \in Terminal => status'[t] = status[t]
  <2>1. task[s] \in Working /\ s \notin cancelReq => status[s] \notin Terminal
    BY DEF IInv, TaskStatus
  <2> USE <2>1 DEF Step, Working
  <2>2. CASE AbortStep(s)
    BY <2>2 DEF AbortStep
  <2>3. CASE Complete(s)
    BY <2>3 DEF Complete
  <2>4. CASE Fail(s)
    BY <2>4 DEF Fail
  <2>5. CASE UNCHANGED status
    BY <2>5
  <2> QED BY <1>2, <2>2, <2>3, <2>4, <2>5
          DEF RunStep, StartStep, LeaveAborted, Announce, Execute, ToolReturns,
              Finish, Unwind
<1> QED BY <1>1, <1>2

\* A task that ends late does not overwrite a cancellation, a cancellation does
\* not overwrite an outcome, and a resumed call retries only cancelled steps.
THEOREM TerminalStability == Spec => TerminalStable
<1>1. TypeOK /\ IInv /\ [Next]_vars => [KeepsOutcomes]_vars
  <2> SUFFICES ASSUME TypeOK, IInv, Next PROVE KeepsOutcomes
    OBVIOUS
  <2>1. CASE Call
    BY <2>1 DEF Call, KeepsOutcomes, TypeOK
  <2>2. CASE Restore \/ RequestCancellation
    BY <2>2 DEF Restore, RequestCancellation, planVars, KeepsOutcomes
  <2>3. CASE ExecutePlan \/ \E s \in Steps : RunStep(s)
    BY <2>3, ExecutionKeepsOutcomes DEF KeepsOutcomes, Terminal
  <2> QED BY <2>1, <2>2, <2>3 DEF Next
<1> QED BY <1>1, Typing, InvariantHolds, PTL DEF Spec, TerminalStable, KeepsOutcomes

-----------------------------------------------------------------------------
(* The semaphore.                                                          *)

\* The tasks past the semaphore can be counted.
LEMMA HoldersFinite == IsFiniteSet(Holders) /\ Cardinality(Holders) \in Nat
<1>1. Holders \subseteq Steps
  BY DEF Holders
<1> QED BY <1>1, StepsFinite, FS_Subset, FS_CardinalityType

\* A task that passes the semaphore adds itself to the holders, ...
LEMMA HolderEnters ==
  ASSUME TypeOK, NEW s \in Steps, NEW to \in InSemaphore,
         task[s] \notin InSemaphore, task' = [task EXCEPT ![s] = to]
  PROVE  Cardinality(Holders') = Cardinality(Holders) + 1
<1>1. Holders' = Holders \cup {s} /\ s \notin Holders
  BY DEF Holders, TypeOK
<1> QED BY <1>1, HoldersFinite, FS_AddElement

\* ... one that leaves it takes itself out, ...
LEMMA HolderLeaves ==
  ASSUME TypeOK, NEW s \in Steps, NEW to, to \notin InSemaphore,
         task[s] \in InSemaphore, task' = [task EXCEPT ![s] = to]
  PROVE  Cardinality(Holders') = Cardinality(Holders) - 1
<1>1. Holders' = Holders \ {s} /\ s \in Holders
  BY DEF Holders, TypeOK
<1> QED BY <1>1, HoldersFinite, FS_RemoveElement

\* ... and any other step leaves them alone.
LEMMA HoldersStay ==
  ASSUME TypeOK, NEW s \in Steps, NEW to,
         task[s] \in InSemaphore <=> to \in InSemaphore,
         task' = [task EXCEPT ![s] = to]
  PROVE  Holders' = Holders
BY DEF Holders, TypeOK

\* Whatever ends a task (return, failure, cancellation at any await), its
\* permit goes back, so permits and holders always add up to the limit.
THEOREM SlotConservation == Spec => []SlotsConserved
<1>1. Init => SlotsConserved
  <2> SUFFICES ASSUME Init PROVE SlotsConserved
    OBVIOUS
  <2>1. Holders = {}
    BY DEF Init, Holders, InSemaphore, InTry
  <2> QED BY <2>1, FS_EmptySet DEF Init, SlotsConserved
<1>2. TypeOK /\ IInv /\ SlotsConserved /\ [Next]_vars => SlotsConserved'
  <2> SUFFICES ASSUME TypeOK, IInv, SlotsConserved, [Next]_vars PROVE SlotsConserved'
    OBVIOUS
  <2> USE DEF SlotsConserved
  <2>1. CASE Call \/ Restore
    <3>1. permits' = MaxConcurrent /\ Holders' = {}
      BY <2>1 DEF Call, Restore, FreshLocals, Holders, InSemaphore, InTry
    <3> QED BY <3>1, FS_EmptySet
  <2>2. CASE RequestCancellation
    BY <2>2 DEF RequestCancellation, slotVars, Holders
  <2>3. CASE ExecutePlan
    <3>1. CASE permits' = permits /\ task' = task
      BY <3>1 DEF Holders
    <3>2. CASE CreateTask
      <4>1. cursor \in Steps /\ task[cursor] = "none"
        BY <3>2 DEF CreateTask, TypeOK, IInv, Launching
      <4>2. Holders' = Holders
        BY <3>2, <4>1, HoldersStay DEF CreateTask, InSemaphore, InTry
      <4> QED BY <3>2, <4>2 DEF CreateTask, slotVars
    <3> QED BY <2>3, <3>1, <3>2
            DEF ExecutePlan, CancelOpen, CancelDependent, LaunchFirst, LaunchNext,
                LaunchDone, FailDeadlocked, Await, Wake, Return, slotVars
  <2>4. ASSUME NEW s \in Steps, RunStep(s) PROVE SlotsConserved'
    <3> USE HoldersFinite DEF Step, slotVars, TypeOK
    <3>1. CASE StartStep(s)
      <4>1. Cardinality(Holders') = Cardinality(Holders) + 1
        BY <3>1, HolderEnters DEF StartStep, InSemaphore, InTry
      <4> QED BY <3>1, <4>1 DEF StartStep, Acquire
    <3>2. CASE AbortStep(s)
      <4>1. Cardinality(Holders') = Cardinality(Holders) + 1
        BY <3>2, HolderEnters DEF AbortStep, InSemaphore, InTry
      <4> QED BY <3>2, <4>1 DEF AbortStep, Acquire
    <3>3. CASE LeaveAborted(s)
      <4>1. Cardinality(Holders') = Cardinality(Holders) - 1
        BY <3>3, HolderLeaves DEF LeaveAborted, InSemaphore, InTry
      <4> QED BY <3>3, <4>1 DEF LeaveAborted
    <3>4. CASE Finish(s)
      <4>1. Cardinality(Holders') = Cardinality(Holders) - 1
        BY <3>4, HolderLeaves DEF Finish, InSemaphore, InTry
      <4> QED BY <3>4, <4>1 DEF Finish
    <3>5. CASE Unwind(s)
      <4>1. CASE task[s] \in InSemaphore
        <5>1. Cardinality(Holders') = Cardinality(Holders) - 1
          BY <3>5, <4>1, HolderLeaves DEF Unwind, InSemaphore, InTry
        <5> QED BY <3>5, <4>1, <5>1 DEF Unwind
      <4>2. CASE task[s] \notin InSemaphore
        <5>1. Holders' = Holders
          BY <3>5, <4>2, HoldersStay DEF Unwind, InSemaphore, InTry
        <5> QED BY <3>5, <4>2, <5>1 DEF Unwind
      <4> QED BY <4>1, <4>2
    <3>6. CASE Announce(s) \/ Execute(s) \/ ToolReturns(s) \/ Complete(s) \/ Fail(s)
      <4>1. \E to \in InSemaphore : task' = [task EXCEPT ![s] = to]
        BY <3>6 DEF Announce, Execute, ToolReturns, Complete, Fail, InSemaphore, InTry
      <4>2. task[s] \in InSemaphore /\ permits' = permits
        BY <3>6 DEF Announce, Execute, ToolReturns, Complete, Fail, InSemaphore, InTry
      <4>3. Holders' = Holders
        BY <4>1, <4>2, HoldersStay
      <4> QED BY <4>2, <4>3
    <3> QED BY <2>4, <3>1, <3>2, <3>3, <3>4, <3>5, <3>6 DEF RunStep
  <2>5. CASE UNCHANGED vars
    BY <2>5 DEF vars, Holders
  <2> QED BY <2>1, <2>2, <2>3, <2>4, <2>5 DEF Next
<1> QED BY <1>1, <1>2, Typing, InvariantHolds, PTL DEF Spec

-----------------------------------------------------------------------------
(* Dependency policies.                                                    *)

\* A policy that is met stays met while outcomes are final.
LEMMA PolicyStable ==
  ASSUME NEW p \in PlanShapes, NEW st, NEW st2, NEW s \in Steps,
         PolicyMet(p, st, s),
         \A d \in Steps : st[d] \in Terminal => st2[d] = st[d]
  PROVE  PolicyMet(p, st2, s)
BY DEF PolicyMet, Terminal, PlanShapes

\* In a call, the steps with a task, the one being launched and those selected
\* after it are all covered by their policy; no step joins them otherwise.
LEMMA LaunchPolicyStep ==
  ASSUME TypeOK, IInv, LaunchPolicy, ExecutePlan \/ \E s \in Steps : RunStep(s)
  PROVE  LaunchPolicy'
<1>1. plan \in PlanShapes /\ plan' = plan
  BY DEF TypeOK, ExecutePlan, RunStep, CancelOpen, CancelDependent, LaunchFirst,
         LaunchNext, LaunchDone, CreateTask, FailDeadlocked, Await, Wake, Return,
         Caller, planVars, StartStep, AbortStep, LeaveAborted, Announce, Execute,
         ToolReturns, Complete, Fail, Finish, Unwind, Step
<1>2. \A s \in Steps : PolicyMet(plan, status, s) => PolicyMet(plan, status, s)'
  BY <1>1, PolicyStable, ExecutionKeepsOutcomes
<1>3. \A s \in Steps : task'[s] # "none" => \/ task[s] # "none"
                                            \/ main = "launch" /\ s = cursor
  <2> USE DEF TypeOK
  <2>1. CASE ExecutePlan
    BY <2>1 DEF ExecutePlan, CancelOpen, CancelDependent, LaunchFirst, LaunchNext,
         LaunchDone, CreateTask, FailDeadlocked, Await, Wake, Return
  <2>2. ASSUME NEW s \in Steps, RunStep(s)
        PROVE task[s] # "none" /\ \E to : task' = [task EXCEPT ![s] = to]
    BY <2>2 DEF RunStep, StartStep, AbortStep, LeaveAborted, Announce, Execute,
         ToolReturns, Complete, Fail, Finish, Unwind, Step, Ended
  <2> QED BY <2>1, <2>2
<1>4. main' = "launch" => PolicyMet(plan, status, cursor)' /\ cursor' \in Steps
  <2> USE DEF TypeOK
  <2>1. ASSUME NEW s \in Steps, LaunchFirst(s)
        PROVE PolicyMet(plan, status, s) /\ cursor' = s
    BY <2>1 DEF LaunchFirst, IsFirst, Ready, GetReadySteps
  <2>2. ASSUME NEW s \in Steps, LaunchNext(s)
        PROVE PolicyMet(plan, status, s) /\ cursor' = s
    BY <2>2 DEF LaunchNext, IsFirst, LaunchPolicy
  <2>3. CASE main' = main /\ cursor' = cursor
    BY <2>3, <1>2 DEF LaunchPolicy
  <2> QED BY <1>2, <2>1, <2>2, <2>3
          DEF ExecutePlan, CancelOpen, CancelDependent, LaunchDone, FailDeadlocked,
              Await, Wake, Return, RunStep, StartStep, AbortStep, LeaveAborted,
              Announce, Execute, ToolReturns, Complete, Fail, Finish, Unwind, Step,
              mainVars
<1>5. \A s \in batch' : PolicyMet(plan, status, s) /\ s \in Steps
  <2> USE DEF TypeOK, LaunchPolicy
  <2>1. CASE batch' \subseteq batch
    BY <2>1
  <2>2. ASSUME NEW s \in Steps, LaunchFirst(s)
        PROVE \A t \in batch' : PolicyMet(plan, status, t) /\ t \in Steps
    BY <2>2 DEF LaunchFirst, Ready, GetReadySteps
  <2> QED BY <2>1, <2>2
          DEF ExecutePlan, CancelOpen, CancelDependent, LaunchNext, LaunchDone,
              FailDeadlocked, Await, Wake, Return, RunStep, StartStep, AbortStep,
              LeaveAborted, Announce, Execute, ToolReturns, Complete, Fail, Finish,
              Unwind, Step, mainVars
<1> QED BY <1>2, <1>3, <1>4, <1>5 DEF LaunchPolicy, PolicyRespected

\* What LaunchPolicyStep says of a step holds of every call and its resumption.
THEOREM LaunchPolicyHolds == Spec => []LaunchPolicy
<1>1. Init => LaunchPolicy
  BY DEF Init, LaunchPolicy, PolicyRespected
<1>2. TypeOK /\ IInv /\ LaunchPolicy /\ [Next]_vars => LaunchPolicy'
  <2> SUFFICES ASSUME TypeOK, IInv, LaunchPolicy, [Next]_vars PROVE LaunchPolicy'
    OBVIOUS
  <2>1. CASE Call \/ Restore
    BY <2>1 DEF Call, Restore, FreshLocals, LaunchPolicy, PolicyRespected
  <2>2. CASE RequestCancellation
    BY <2>2 DEF RequestCancellation, planVars, mainVars, LaunchPolicy,
                PolicyRespected
  <2>3. CASE UNCHANGED vars
    BY <2>3 DEF vars, LaunchPolicy, PolicyRespected
  <2> QED BY <2>1, <2>2, <2>3, LaunchPolicyStep DEF Next
<1> QED BY <1>1, <1>2, Typing, InvariantHolds, PTL DEF Spec

\* A step runs only when its dependency policy is met, and the policy stays
\* met while it runs.
THEOREM PolicySafety == Spec => []PolicyRespected
<1>1. LaunchPolicy => PolicyRespected
  BY DEF LaunchPolicy
<1> QED BY <1>1, LaunchPolicyHolds, PTL

-----------------------------------------------------------------------------
(* Results.                                                                *)

\* Only a step that failed carries an execution error.
ErrorsAgree == \A s \in Steps : error[s] = "execution" => status[s] = "failed"

\* execute_plan, which stores no result itself, keeps results and statuses in
\* agreement, ...
LEMMA ExecutePlanResults ==
  ASSUME TypeOK, IInv, ResultsAgree, ErrorsAgree, ExecutePlan
  PROVE  ResultsAgree' /\ ErrorsAgree'
<1> USE DEF TypeOK, ResultsAgree, ErrorsAgree, SetStatus, planVars, IsFirst, Open,
    Later, Pending, Scanning, PassOver
<1>1. results' = results /\ main # "idle"
  BY DEF ExecutePlan, CancelOpen, CancelDependent, LaunchFirst, LaunchNext,
         LaunchDone, CreateTask, FailDeadlocked, NothingToDo, Await, Wake, Return
<1>2. ASSUME NEW s \in Steps, CancelOpen(s) PROVE ResultsAgree' /\ ErrorsAgree'
  BY <1>1, <1>2 DEF CancelOpen
<1>3. ASSUME NEW s \in Steps, CancelDependent(s) PROVE ResultsAgree' /\ ErrorsAgree'
  BY <1>1, <1>3 DEF CancelDependent, ToCancel
<1>4. ASSUME NEW s \in Steps, LaunchFirst(s) PROVE ResultsAgree' /\ ErrorsAgree'
  BY <1>1, <1>4 DEF LaunchFirst, Ready, GetReadySteps
<1>5. ASSUME NEW s \in Steps, LaunchNext(s) PROVE ResultsAgree' /\ ErrorsAgree'
  BY <1>1, <1>5 DEF LaunchNext, IInv, Launching
<1>6. ASSUME NEW s \in Steps, FailDeadlocked(s) PROVE ResultsAgree' /\ ErrorsAgree'
  BY <1>1, <1>6 DEF FailDeadlocked
<1>7. CASE LaunchDone \/ Await \/ Wake \/ Return
  BY <1>1, <1>7 DEF LaunchDone, Await, Wake, Return
<1> QED BY <1>2, <1>3, <1>4, <1>5, <1>6, <1>7 DEF ExecutePlan

\* ... and a task of _run_step stores the result together with the status.
LEMMA RunStepResults ==
  ASSUME TypeOK, IInv, ResultsAgree, ErrorsAgree, NEW s \in Steps, RunStep(s)
  PROVE  ResultsAgree' /\ ErrorsAgree'
<1> USE DEF TypeOK, ResultsAgree, ErrorsAgree, SetStatus, planVars, mainVars, Step
<1>1. main' = main /\ main # "idle"
  BY DEF RunStep, StartStep, AbortStep, LeaveAborted, Announce, Execute, ToolReturns,
         Complete, Fail, Finish, Unwind, IInv, Tracking, Ended
<1>2. task[s] \in Working /\ s \notin cancelReq => status[s] = "running"
  BY DEF IInv, TaskStatus
<1>3. CASE AbortStep(s)
  BY <1>1, <1>2, <1>3 DEF AbortStep, Working
<1>4. CASE Complete(s)
  BY <1>1, <1>2, <1>4 DEF Complete, Working
<1>5. CASE Fail(s)
  BY <1>1, <1>2, <1>5 DEF Fail, Working
<1>6. CASE UNCHANGED <<status, error, results>>
  BY <1>1, <1>6
<1> QED BY <1>3, <1>4, <1>5, <1>6
        DEF RunStep, StartStep, LeaveAborted, Announce, Execute, ToolReturns,
            Finish, Unwind

\* The results dict and the statuses agree at every moment of a call: a step
\* cancelled while its tool was returning has no result.
THEOREM ResultsAgreement == Spec => []ResultsAgree
<1>1. Init => ResultsAgree /\ ErrorsAgree
  BY DEF Init, ResultsAgree, ErrorsAgree
<1>2. TypeOK /\ IInv /\ ResultsAgree /\ ErrorsAgree /\ [Next]_vars
        => ResultsAgree' /\ ErrorsAgree'
  <2> SUFFICES ASSUME TypeOK, IInv, ResultsAgree, ErrorsAgree, [Next]_vars
               PROVE  ResultsAgree' /\ ErrorsAgree'
    OBVIOUS
  <2>1. CASE Call
    BY <2>1 DEF Call, ResultsAgree, ErrorsAgree, TypeOK
  <2>2. CASE Restore \/ RequestCancellation \/ UNCHANGED vars
    BY <2>2 DEF Restore, RequestCancellation, vars, planVars, mainVars,
                ResultsAgree, ErrorsAgree
  <2> QED BY <2>1, <2>2, ExecutePlanResults, RunStepResults DEF Next
<1> QED BY <1>1, <1>2, Typing, InvariantHolds, PTL DEF Spec

-----------------------------------------------------------------------------
(* Returning.                                                              *)

Accounting == Accounted /\ (MidRunCheckpoints = FALSE => ResolvedOnReturn)

\* The accounting of unfinished steps starts right and survives the caller.
LEMMA CallAccounting ==
  ASSUME TypeOK, IInv, Accounting, MidRunCheckpoints = FALSE,
         Call \/ Restore \/ RequestCancellation
  PROVE  Accounting'
<1> USE DEF TypeOK, Accounting, Accounted, ResolvedOnReturn
<1>1. CASE Call
  <2>1. \A s \in Steps : status[s] # "running"
    BY <1>1 DEF Call, IInv, Tracking, IsComplete, Terminal
  <2> QED BY <1>1, <2>1 DEF Call
<1>2. CASE Restore
  BY <1>2 DEF Restore, planVars
<1>3. CASE RequestCancellation
  BY <1>3 DEF RequestCancellation, planVars, mainVars
<1> QED BY <1>1, <1>2, <1>3

\* Every step is resolved at each of the four ways execute_plan ends.
LEMMA ReturnAccounting ==
  ASSUME TypeOK, IInv, Accounting, MidRunCheckpoints = FALSE, Return
  PROVE  Accounting'
<1> USE DEF TypeOK, Statuses, Terminal, IsComplete, Accounting, Accounted,
    ResolvedOnReturn, Pending, Open, Later, IInv, Tracking, Closing
<1>1. status' = status /\ running_tasks' = running_tasks
  BY DEF Return, planVars
<1>2. IsComplete(status)
  <2>1. CASE main = "top" /\ IsComplete(status)
    BY <2>1
  <2>2. CASE NothingToDo /\ Pending = {}
    BY <2>2 DEF NothingToDo, PassOver, Scanning
  <2>3. CASE main = "cancel" /\ Later(Open) = {}
    BY <2>3, StepsNat DEF StepIds
  <2>4. CASE main = "deadlock" /\ Later(Pending) = {}
    BY <2>4, StepsNat DEF StepIds
  <2> QED BY <2>1, <2>2, <2>3, <2>4 DEF Return
<1> QED BY <1>1, <1>2 DEF Return

\* Every segment of execute_plan and _run_step keeps the accounting.
LEMMA ExecutionAccounting ==
  ASSUME TypeOK, IInv, Accounting, MidRunCheckpoints = FALSE,
         ExecutePlan \/ \E s \in Steps : RunStep(s)
  PROVE  Accounting'
<1>1. CASE ExecutePlan
  <2> USE DEF TypeOK, Accounting, Accounted, ResolvedOnReturn, SetStatus, planVars
  <2>1. ASSUME NEW s \in Steps,
               CancelOpen(s) \/ CancelDependent(s) \/ FailDeadlocked(s)
        PROVE  Accounting'
    BY <2>1 DEF CancelOpen, CancelDependent, FailDeadlocked, NothingToDo, PassOver,
                Scanning
  <2>2. ASSUME NEW s \in Steps, LaunchFirst(s) PROVE Accounting'
    BY <2>2 DEF LaunchFirst, PassOver, Scanning
  <2>3. ASSUME NEW s \in Steps, LaunchNext(s) PROVE Accounting'
    BY <2>3 DEF LaunchNext, CreateTask
  <2>4. CASE LaunchDone
    BY <2>4 DEF LaunchDone, CreateTask
  <2>5. CASE Await
    BY <2>5 DEF Await, PassOver, Scanning
  <2>6. CASE Wake
    BY <2>6 DEF Wake, IInv, TaskStatus, Tracking, Terminal
  <2>7. CASE Return
    BY <2>7, ReturnAccounting
  <2> QED BY <1>1, <2>1, <2>2, <2>3, <2>4, <2>5, <2>6, <2>7 DEF ExecutePlan
<1>2. ASSUME NEW s \in Steps, RunStep(s) PROVE Accounting'
  <2>1. UNCHANGED mainVars
    BY <1>2 DEF RunStep, StartStep, AbortStep, LeaveAborted, Announce, Execute,
         ToolReturns, Complete, Fail, Finish, Unwind, Step
  <2>2. \A t \in Steps : status'[t] = "running" => status[t] = "running"
    BY <1>2 DEF RunStep, StartStep, AbortStep, LeaveAborted, Announce, Execute,
         ToolReturns, Complete, Fail, Finish, Unwind, SetStatus, planVars, TypeOK
  <2>3. ResolvedOnReturn'
    BY <1>2, <2>1, ExecutionKeepsOutcomes
       DEF mainVars, Accounting, ResolvedOnReturn, IsComplete
  <2> QED BY <2>1, <2>2, <2>3 DEF Accounting, Accounted, mainVars
<1> QED BY <1>1, <1>2

\* No step is running without a task that execute_plan waits for, and a loop
\* that has passed a step has left it resolved.
THEOREM AccountingHolds == Spec => []Accounting
<1>1. Init => Accounting
  BY DEF Init, Accounting, Accounted, ResolvedOnReturn
<1>2. TypeOK /\ IInv /\ Accounting /\ [Next]_vars => Accounting'
  <2> SUFFICES ASSUME TypeOK, IInv, Accounting, [Next]_vars,
                      MidRunCheckpoints = FALSE
               PROVE  Accounting'
    BY DEF Accounting, Accounted
  <2>1. CASE UNCHANGED vars
    BY <2>1 DEF vars, Accounting, Accounted, ResolvedOnReturn, IsComplete
  <2> QED BY <2>1, CallAccounting, ExecutionAccounting DEF Next
<1> QED BY <1>1, <1>2, Typing, InvariantHolds, PTL DEF Spec

\* When checkpoints are taken only between steps, a call that returns leaves no
\* step pending or running: each status is an outcome or a cancellation.
THEOREM Resolution == MidRunCheckpoints = FALSE /\ Spec => []ResolvedOnReturn
<1>1. MidRunCheckpoints = FALSE /\ Accounting => ResolvedOnReturn
  BY DEF Accounting
<1>2. CASE MidRunCheckpoints = FALSE
  <2>1. Accounting => ResolvedOnReturn
    BY <1>1, <1>2
  <2> QED BY <2>1, AccountingHolds, PTL
<1> QED BY <1>2

\* When execute_plan has returned, a task that was not cancelled is at most
\* publishing the last event of its step.
THEOREM QuietAfterReturn == Spec => []NothingRunsAfterReturn
<1>1. Init => NothingRunsAfterReturn
  BY DEF Init, NothingRunsAfterReturn
<1>2. TypeOK /\ IInv /\ NothingRunsAfterReturn /\ [Next]_vars
        => NothingRunsAfterReturn'
  <2> SUFFICES ASSUME TypeOK, IInv, NothingRunsAfterReturn, [Next]_vars
               PROVE  NothingRunsAfterReturn'
    OBVIOUS
  <2> USE DEF NothingRunsAfterReturn
  <2>1. CASE Return
    <3>1. ASSUME NEW s \in Steps, s \notin cancelReq, task[s] \in Working
          PROVE  FALSE
      <4>1. status[s] = "running" /\ s \in running_tasks
        BY <3>1 DEF IInv, TaskStatus, Tracking, Ended, Working
      <4> QED BY <2>1, <3>1, <4>1
              DEF Return, IInv, Tracking, IsComplete, Terminal, NothingToDo
    <3> QED BY <2>1, <3>1 DEF Return, TypeOK, TaskStates, Working
  <2>2. CASE main' # "returned"
    BY <2>2
  <2>3. CASE main' = "returned" /\ ~Return
    <3>1. main = "returned" /\ cancelReq' = cancelReq
      BY <2>3 DEF Next, Call, Restore, RequestCancellation, ExecutePlan, CancelOpen,
           CancelDependent, LaunchFirst, LaunchNext, LaunchDone, CreateTask,
           FailDeadlocked, Await, Wake, RunStep, StartStep, AbortStep, LeaveAborted, Announce,
           Execute, ToolReturns, Complete, Fail, Finish, Unwind, Step, mainVars, vars
    <3>2. CASE UNCHANGED task
      BY <3>1, <3>2
    <3>3. ASSUME NEW s \in Steps, RunStep(s) PROVE NothingRunsAfterReturn'
      BY <3>1, <3>3 DEF RunStep, StartStep, AbortStep, LeaveAborted, Announce,
           Execute, ToolReturns, Complete, Fail, Finish, Unwind, Step, TypeOK
    <3> QED BY <2>3, <3>1, <3>2, <3>3
            DEF Next, Call, Restore, RequestCancellation, ExecutePlan, CancelOpen,
                CancelDependent, LaunchFirst, LaunchNext, LaunchDone, CreateTask,
                FailDeadlocked, Await, Wake, vars
  <2> QED BY <2>1, <2>2, <2>3
<1> QED BY <1>1, <1>2, Typing, InvariantHolds, PTL DEF Spec

-----------------------------------------------------------------------------
(* No false deadlock.                                                      *)

\* While no task is left, the pass over a plan listed in order leaves behind no
\* pending step whose prerequisites have failed: a step it cancels is a
\* prerequisite of later steps only.
LEMMA ScanStep ==
  ASSUME TypeOK, IInv, ScanComplete, [Next]_vars
  PROVE  ScanComplete'
<1> SUFFICES ASSUME WellFormed(plan)', main' = "scan", running_tasks' = {}
             PROVE  \A t \in Steps : t <= cursor' /\ status'[t] = "pending"
                                        => ~PrerequisitesFailed(plan, status, t)'
  BY DEF ScanComplete
<1>1. ASSUME NEW s \in Steps, CancelDependent(s)
      PROVE  \A t \in Steps : t <= cursor' /\ status'[t] = "pending"
                                  => ~PrerequisitesFailed(plan, status, t)'
  <2> SUFFICES ASSUME NEW t \in Steps, t <= s, status'[t] = "pending"
               PROVE  ~PrerequisitesFailed(plan, status', t)
    BY <1>1 DEF CancelDependent, Caller
  <2>1. status' = [status EXCEPT ![s] = "cancelled"] /\ plan' = plan
    BY <1>1 DEF CancelDependent, SetStatus, Caller
  <2>2. t < s /\ status[t] = "pending"
    BY <2>1, StepsNat DEF TypeOK
  <2>3. ~PrerequisitesFailed(plan, status, t)
    <3>1. CASE t <= cursor
      BY <1>1, <2>1, <2>2, <3>1, StepsNat
         DEF CancelDependent, Scanning, IInv, Closing, ScanComplete
    <3>2. CASE t > cursor
      BY <1>1, <2>2, <3>2, StepsNat
         DEF CancelDependent, IsFirst, ToCancel, Later, Pending
    <3> QED BY <3>1, <3>2, StepsNat DEF TypeOK, StepIds
  <2>4. \A d \in Prereqs(plan, t) : d \in Steps /\ status'[d] = status[d]
    BY <2>1, <2>2, StepsNat DEF Prereqs, WellFormed, TypeOK
  <2> QED BY <2>3, <2>4 DEF PrerequisitesFailed
<1>2. ASSUME NEW s \in Steps, RunStep(s) PROVE FALSE
  <2>1. ~Ended(s) /\ running_tasks' = running_tasks
    BY <1>2 DEF RunStep, StartStep, AbortStep, LeaveAborted, Announce, Execute,
         ToolReturns, Complete, Fail, Finish, Unwind, Step, mainVars, Ended
  <2> QED BY <2>1 DEF IInv, Tracking
<1>3. CASE RequestCancellation \/ UNCHANGED vars
  BY <1>3 DEF RequestCancellation, vars, planVars, mainVars, ScanComplete
<1> QED BY <1>1, <1>2, <1>3
        DEF Next, Call, Restore, ExecutePlan, CancelOpen, LaunchFirst, LaunchNext,
            LaunchDone, CreateTask, FailDeadlocked, Await, Wake, Return

\* The first pending step of a well-formed plan is ready, or has been cancelled,
\* once no task is left.
LEMMA FirstPendingReady ==
  ASSUME TypeOK, IInv, Accounting, ScanComplete, WellFormed(plan),
         MidRunCheckpoints = FALSE, NothingToDo, NEW s \in Steps, IsFirst(s, Pending)
  PROVE  FALSE
<1>1. status[s] = "pending" /\ main \in {"top", "scan"} /\ running_tasks = {}
  BY DEF IsFirst, Pending, NothingToDo, PassOver, Scanning
<1>2. plan.deps[s] \subseteq Steps /\ Prereqs(plan, s) = plan.deps[s]
  BY StepsNat DEF WellFormed, Prereqs, Steps
<1>3. \A d \in plan.deps[s] : status[d] \in Terminal
  <2> TAKE d \in plan.deps[s]
  <2>1. d \in Steps /\ d < s
    BY <1>2, StepsNat DEF WellFormed
  <2>2. status[d] # "pending"
    BY <2>1, StepsNat DEF IsFirst, Pending
  <2>3. status[d] # "running"
    BY <1>1, <2>1 DEF Accounting, Accounted
  <2> QED BY <2>1, <2>2, <2>3 DEF TypeOK, Statuses, Terminal
<1>4. ~PrerequisitesFailed(plan, status, s)
  <2>1. CASE s <= cursor
    BY <1>1, <2>1, StepsNat DEF ScanComplete, IInv, Closing
  <2>2. CASE s > cursor
    BY <1>1, <2>2 DEF NothingToDo, PassOver, ToCancel, Later, Pending
  <2> QED BY <2>1, <2>2, StepsNat DEF TypeOK, StepIds
<1>5. PolicyMet(plan, status, s)
  <2>1. plan.policy[s] \in {"all", "any", "ignore_failures"}
    BY ShapeTyping DEF WellFormed, TypeOK, Policies
  <2> QED BY <1>2, <1>3, <1>4, <2>1
          DEF PolicyMet, PrerequisitesFailed, Terminal, Unsuccessful
<1> QED BY <1>1, <1>5 DEF NothingToDo, Ready, GetReadySteps

NeverDeadlocked ==
    WellFormed(plan) =>
        main # "deadlock" /\ \A s \in Steps : error[s] # "deadlock"

\* No step of a well-formed plan is ever given up as deadlocked.
LEMMA DeadlockStep ==
  ASSUME TypeOK, IInv, Accounting, ScanComplete, NeverDeadlocked, [Next]_vars,
         MidRunCheckpoints = FALSE
  PROVE  NeverDeadlocked'
<1>1. plan' = plan
  BY DEF Next, Call, Restore, RequestCancellation, ExecutePlan, RunStep, CancelOpen,
         CancelDependent, LaunchFirst, LaunchNext, LaunchDone, CreateTask,
         FailDeadlocked, Await, Wake, Return, Caller, planVars, StartStep, AbortStep,
         LeaveAborted, Announce, Execute, ToolReturns, Complete, Fail, Finish,
         Unwind, Step, vars
<1> SUFFICES ASSUME WellFormed(plan)
             PROVE  main' # "deadlock" /\ \A s \in Steps : error'[s] # "deadlock"
  BY <1>1 DEF NeverDeadlocked
<1>2. ASSUME NEW s \in Steps, FailDeadlocked(s) PROVE FALSE
  BY <1>2, FirstPendingReady DEF FailDeadlocked, NeverDeadlocked
<1> USE DEF TypeOK, NeverDeadlocked, SetStatus, planVars, mainVars
<1>3. CASE Call \/ Restore \/ RequestCancellation \/ UNCHANGED vars
  BY <1>3 DEF Call, Restore, RequestCancellation, vars
<1>4. CASE ExecutePlan
  BY <1>2, <1>4 DEF ExecutePlan, CancelOpen, CancelDependent, LaunchFirst, LaunchNext,
         LaunchDone, CreateTask, Await, Wake, Return
<1>5. ASSUME NEW s \in Steps, RunStep(s)
      PROVE  main' # "deadlock" /\ \A t \in Steps : error'[t] # "deadlock"
  BY <1>5 DEF RunStep, StartStep, AbortStep, LeaveAborted, Announce, Execute,
         ToolReturns, Complete, Fail, Finish, Unwind, Step
<1> QED BY <1>3, <1>4, <1>5 DEF Next

\* What the pass over plan.steps has left behind has no prerequisite that failed,
\* in every reachable state.
THEOREM ScanHolds == Spec => []ScanComplete
<1>1. Init => ScanComplete
  BY DEF Init, ScanComplete
<1> QED BY <1>1, ScanStep, Typing, InvariantHolds, PTL DEF Spec

\* The deadlock branch never fires on a plan that lists steps after their
\* prerequisites, whichever of them fail or are cancelled and in whatever order
\* their tasks end.
THEOREM DeadlockFreedom == MidRunCheckpoints = FALSE /\ Spec => []NoFalseDeadlock
<1>1. Init => NeverDeadlocked
  BY DEF Init, NeverDeadlocked
<1>2. NeverDeadlocked => NoFalseDeadlock
  BY DEF NeverDeadlocked, NoFalseDeadlock
<1>3. CASE MidRunCheckpoints = FALSE
  <2>1. TypeOK /\ IInv /\ Accounting /\ ScanComplete /\ NeverDeadlocked /\ [Next]_vars
          => NeverDeadlocked'
    BY <1>3, DeadlockStep
  <2> QED BY <1>1, <1>2, <2>1, Typing, InvariantHolds, AccountingHolds, ScanHolds,
             PTL DEF Spec
<1> QED BY <1>3

-----------------------------------------------------------------------------
(* Which steps run.                                                        *)

\* The prerequisites of s have done what its policy asks of them; a resumed
\* call may have reopened those an ignore_failures step had waited for.
Earned(st, s) ==
    \/ plan.deps[s] = {}
    \/ plan.policy[s] = "all" /\ \A d \in plan.deps[s] : st[d] = "completed"
    \/ plan.policy[s] = "any" /\ \E d \in plan.deps[s] : st[d] = "completed"
    \/ plan.policy[s] = "ignore_failures"

\* Executed steps had their policy met; without a cancellation request, the
\* cancelled ones are those their prerequisites rule out.
Deserved ==
    /\ main = "cancel" => token
    /\ WellFormed(plan) =>
         /\ \A s \in Steps : status[s] \in {"completed", "failed"} => Earned(status, s)
         /\ main # "idle" /\ ~token =>
              \A s \in Steps : status[s] = "cancelled" =>
                                  PrerequisitesFailed(plan, status, s)

\* Both survive a step that keeps outcomes.
LEMMA OutcomesCarryOver ==
  ASSUME TypeOK, WellFormed(plan), NEW st, NEW s \in Steps,
         \A d \in Steps : status[d] \in Terminal => st[d] = status[d]
  PROVE  /\ Earned(status, s) => Earned(st, s)
         /\ PrerequisitesFailed(plan, status, s) => PrerequisitesFailed(plan, st, s)
<1>1. plan.deps[s] \subseteq Steps
  BY StepsNat DEF WellFormed, Steps
<1> QED BY <1>1 DEF Earned, PrerequisitesFailed, Prereqs, Terminal, Unsuccessful

\* Every segment of an execution keeps the account of why steps were executed
\* or skipped, ...
LEMMA DeservedExecution ==
  ASSUME TypeOK, IInv, PolicyRespected, NeverDeadlocked', Deserved,
         ExecutePlan \/ \E s \in Steps : RunStep(s)
  PROVE  Deserved'
<1>1. plan' = plan /\ token' = token /\ main # "idle"
  BY DEF ExecutePlan, RunStep, CancelOpen, CancelDependent, LaunchFirst, LaunchNext,
         LaunchDone, CreateTask, FailDeadlocked, NothingToDo, PassOver, Scanning,
         Await, Wake, Return, Caller, planVars, StartStep, AbortStep, LeaveAborted,
         Announce, Execute, ToolReturns, Complete, Fail, Finish, Unwind, Step, Ended,
         IInv, Tracking
<1>2. main' = "cancel" => token'
  BY <1>1 DEF Deserved, ExecutePlan, RunStep, CancelOpen, CancelDependent, LaunchFirst,
         LaunchNext, LaunchDone, CreateTask, FailDeadlocked, Await, Wake, Return,
         StartStep, AbortStep, LeaveAborted, Announce, Execute, ToolReturns, Complete,
         Fail, Finish, Unwind, Step, mainVars
<1>3. ASSUME WellFormed(plan), NEW s \in Steps,
             status'[s] \in {"completed", "failed"}
      PROVE  Earned(status, s)
  <2>1. CASE status[s] \in {"completed", "failed"}
    BY <1>3, <2>1 DEF Deserved
  <2>2. CASE status[s] \notin {"completed", "failed"}
    <3>1. ASSUME NEW t \in Steps, FailDeadlocked(t) PROVE FALSE
      BY <1>1, <1>3, <3>1 DEF FailDeadlocked, NeverDeadlocked
    <3>2. task[s] # "none"
      <4> USE DEF TypeOK, SetStatus, planVars
      <4>1. CASE ExecutePlan
        BY <1>3, <2>2, <3>1, <4>1 DEF ExecutePlan, CancelOpen, CancelDependent,
             LaunchFirst, LaunchNext, LaunchDone, Await, Wake, Return
      <4>2. ASSUME NEW t \in Steps, RunStep(t) PROVE task[s] # "none"
        BY <1>3, <2>2, <4>2 DEF RunStep, StartStep, AbortStep, LeaveAborted, Announce,
             Execute, ToolReturns, Complete, Fail, Finish, Unwind, Step, Ended
      <4> QED BY <4>1, <4>2
    <3> QED BY <3>2 DEF PolicyRespected, PolicyMet, Earned
  <2> QED BY <2>1, <2>2
<1>4. ASSUME WellFormed(plan), ~token, NEW s \in Steps, status'[s] = "cancelled"
      PROVE  PrerequisitesFailed(plan, status, s)
  <2>1. CASE status[s] = "cancelled"
    BY <1>1, <1>4, <2>1 DEF Deserved
  <2>2. CASE status[s] # "cancelled"
    <3> USE DEF TypeOK, SetStatus, planVars
    <3>1. CASE ExecutePlan
      BY <1>4, <2>2, <3>1 DEF ExecutePlan, CancelOpen, CancelDependent, IsFirst, ToCancel,
           LaunchFirst, LaunchNext, LaunchDone, FailDeadlocked, Await, Wake, Return,
           Deserved
    <3>2. ASSUME NEW t \in Steps, RunStep(t) PROVE FALSE
      BY <1>4, <2>2, <3>2 DEF RunStep, StartStep, AbortStep, LeaveAborted, Announce,
           Execute, ToolReturns, Complete, Fail, Finish, Unwind, Step
    <3> QED BY <3>1, <3>2
  <2> QED BY <2>1, <2>2
<1> QED BY <1>1, <1>2, <1>3, <1>4, OutcomesCarryOver, ExecutionKeepsOutcomes
        DEF Deserved, Earned

\* ... and so does every step of the caller.
LEMMA DeservedStep ==
  ASSUME TypeOK, IInv, PolicyRespected, NeverDeadlocked', Deserved, [Next]_vars
  PROVE  Deserved'
<1>1. CASE Call
  <2>1. /\ \A s \in Steps : status'[s] # "cancelled"
        /\ \A s \in Steps : status'[s] \in {"completed", "failed"}
                               => status[s] \in {"completed", "failed"}
        /\ \A s \in Steps : status[s] = "completed" => status'[s] = "completed"
        /\ plan' = plan /\ main' = "top"
    BY <1>1 DEF Call, TypeOK
  <2>2. WellFormed(plan) => \A s \in Steps : plan.deps[s] \subseteq Steps
    BY StepsNat DEF WellFormed, Steps
  <2> QED BY <2>1, <2>2 DEF Deserved, Earned
<1>2. CASE Restore
  BY <1>2 DEF Restore, planVars, Deserved, Earned
<1>3. CASE RequestCancellation
  BY <1>3 DEF RequestCancellation, planVars, mainVars, Deserved, Earned
<1>4. CASE UNCHANGED vars
  BY <1>4 DEF vars, Deserved, Earned
<1> QED BY <1>1, <1>2, <1>3, <1>4, DeservedExecution DEF Next

\* When an uncancelled call returns, exactly the steps whose policy the final
\* statuses satisfy have been executed, whatever the order in which tasks ended
\* and whatever calls were cancelled or interrupted before.
THEOREM Outcomes == MidRunCheckpoints = FALSE /\ Spec => []OutcomesFollowPolicy
<1>1. Init => Deserved /\ NeverDeadlocked
  BY DEF Init, Deserved, NeverDeadlocked
<1>2. ASSUME TypeOK, ResolvedOnReturn, Deserved PROVE OutcomesFollowPolicy
  <2> SUFFICES ASSUME main = "returned", ~token, WellFormed(plan), NEW s \in Steps
               PROVE  status[s] \in {"completed", "failed"}
                         <=> PolicyMet(plan, status, s)
    BY DEF OutcomesFollowPolicy
  <2>1. plan.deps[s] \subseteq Steps /\ Prereqs(plan, s) = plan.deps[s]
    BY StepsNat DEF WellFormed, Prereqs, Steps
  <2>2. \A d \in Steps : status[d] \in Terminal
    BY <1>2 DEF ResolvedOnReturn, IsComplete
  <2>3. status[s] \in {"completed", "failed"} => PolicyMet(plan, status, s)
    BY <1>2, <2>1, <2>2 DEF Deserved, Earned, PolicyMet
  <2>4. status[s] = "cancelled" => ~PolicyMet(plan, status, s)
    BY <1>2, <2>1, <2>2 DEF Deserved, PrerequisitesFailed, PolicyMet, Unsuccessful
  <2> QED BY <2>2, <2>3, <2>4 DEF Terminal
<1>3. CASE MidRunCheckpoints = FALSE
  <2>1. TypeOK /\ IInv /\ Accounting /\ ScanComplete /\ NeverDeadlocked /\ [Next]_vars
          => NeverDeadlocked'
    BY <1>3, DeadlockStep
  <2>2. TypeOK /\ IInv /\ PolicyRespected /\ NeverDeadlocked' /\ Deserved /\ [Next]_vars
          => Deserved'
    BY DeservedStep
  <2>3. TypeOK /\ Accounting /\ Deserved => OutcomesFollowPolicy
    BY <1>2, <1>3 DEF Accounting
  <2> QED BY <1>1, <2>1, <2>2, <2>3, Typing, InvariantHolds, AccountingHolds,
             ScanHolds, PolicySafety, PTL DEF Spec
<1> QED BY <1>3
=============================================================================
