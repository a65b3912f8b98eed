---------------------------- MODULE EventRecordProofs ----------------------------
(***************************************************************************)
(* Theorems about the record in EventLog: how often and in which order an  *)
(* event comes in it.                                                      *)
(***************************************************************************)
EXTENDS EventLogProofs, WellFoundedInduction

-----------------------------------------------------------------------------
(* What each producer is publishing.                                       *)

Said(p) == pub[p].event

\* The coroutine of a run.
MainBus(r) ==
    LET e == Said(<<r, 0>>) IN
    /\ main[r] \in Idle => pub[<<r, 0>>] = NoEvent
    /\ main[r] = "started" => e = Event("RuntimeStarted", r, 0)
    /\ main[r] = "asked" => e = Event("MessageReceived", r, 0)
    /\ main[r] = "recalled" => e = Event("MemoryRetrieved", r, 0)
    /\ main[r] = "loop" =>
        \/ pub[<<r, 0>>] = NoEvent
        \/ e = Event("PlanCreated", r, 0)
        \/ \E s \in PlanSteps(r) : e = Event("StepScheduled", r, s) /\ task[<<r, s>>] = "scheduled"
        \/ \E s \in PlanSteps(r) : e = Event("StepCancelled", r, s) /\ live[r][s] = "cancelled"
    /\ main[r] = "cancelling" =>
        \E s \in PlanSteps(r) : e = Event("StepCancelled", r, s) /\ live[r][s] = "cancelled"
    /\ main[r] = "deadlocked" =>
        /\ r \in session.stuck
        /\ \E s \in PlanSteps(r) :
            e = Event("StepFailed", r, s) /\ live[r][s] = "failed" /\ task[<<r, s>>] = "none"
    /\ main[r] = "answered" => e = Event("MessageSent", r, 0)
    /\ main[r] = "closing" => e \in {Event("RuntimeStopped", r, 0), Event("RuntimeFailed", r, 0)}

\* The task of a step.
TaskBus(r, s) ==
    LET e == Said(<<r, s>>)
        state == task[<<r, s>>]
    IN
    /\ state \in {"none", "scheduled", "created", "executing", "done"} => pub[<<r, s>>] = NoEvent
    /\ state \in {"calling", "succeeded", "failed"} => HasTool(r, s)
    /\ state = "started" => e = Event("StepStarted", r, s)
    /\ state = "calling" => e = Event("ToolStarted", r, s)
    /\ state = "succeeded" => e = Event("ToolFinished", r, s)
    /\ state = "failed" => e = Event("ToolFailed", r, s)
    /\ state = "ending" =>
        \/ e = Event("StepFinished", r, s) /\ live[r][s] = "completed"
        \/ e = Event("StepFailed", r, s) /\ live[r][s] = "failed"
        \/ e = Event("StepCancelled", r, s) /\ live[r][s] = "cancelled"

\* The statuses of the plan of a run.
PlanStatuses(r) ==
    /\ main[r] \in {"new", "started", "asked", "recalled"} \/ Publishing(r) = "PlanCreated" =>
        \A s \in PlanSteps(r) : live[r][s] = "pending"
    /\ main[r] \notin {"loop", "cancelling", "deadlocked"} =>
        \A s \in PlanSteps(r) : live[r][s] # "running"
    /\ \A s \in PlanSteps(r) : live[r][s] = "pending" => task[<<r, s>>] = "none"

BusOf(r) == MainBus(r) /\ PlanStatuses(r) /\ \A s \in Steps : TaskBus(r, s)
Bus == \A r \in Runs : BusOf(r)

\* What the coroutine of a run publishes, and when.
MainMove(r, k, n) ==
    \/ main[r] = "new" /\ k = "RuntimeStarted" /\ n = "started"
    \/ main[r] = "started" /\ k = "MessageReceived" /\ n = "asked"
    \/ main[r] = "asked" /\ k = "MemoryRetrieved" /\ n = "recalled"
    \/ main[r] \in {"asked", "recalled"} /\ k = "PlanCreated" /\ n = "loop"
    \/ main[r] \in {"asked", "recalled", "loop", "cancelling", "deadlocked"}
       /\ k = "MessageSent" /\ n = "answered"
    \/ main[r] \in {"asked", "recalled", "loop", "cancelling", "deadlocked", "answered"}
       /\ k \in {"RuntimeStopped", "RuntimeFailed"} /\ n = "closing"

LEMMA MainSays ==
  ASSUME RunTypes, LogTypes, Flow, NEW r \in Runs,
         Begin(r) \/ Receive(r) \/ Recall(r) \/ CreatePlan(r) \/ Answer(r) \/ Close(r)
  PROVE  /\ \E k \in Kinds, n \in MainStates :
              /\ MainMove(r, k, n)
              /\ main' = [main EXCEPT ![r] = n] /\ main'[r] = n
              /\ Event(k, r, 0) \in Events /\ Publish(<<r, 0>>, Event(k, r, 0), live)
              /\ pub' = [pub EXCEPT ![<<r, 0>>] = [event |-> Event(k, r, 0), copies |-> recorders]]
         /\ main[r] \in {"loop", "cancelling", "deadlocked"} => PlanResolved(r)
         /\ \A q \in Runs \ {r} : main'[q] = main[q] /\ main[q] \in Idle
         /\ live' = live /\ UNCHANGED <<session, task, token, doomed, interrupted>>
<1>1. \E k \in Kinds, n \in MainStates : MainMove(r, k, n) /\ MainPublishes(r, k, n)
  <2>1. /\ {"RuntimeStarted", "MessageReceived", "MemoryRetrieved", "PlanCreated", "MessageSent",
            "RuntimeStopped", "RuntimeFailed"} \subseteq Kinds
        /\ {"started", "asked", "recalled", "loop", "answered", "closing"} \subseteq MainStates
    BY DEF Kinds, ReplayKinds, StepKinds, MainStates
  <2>2. CASE Begin(r) \/ Receive(r) \/ Recall(r)
    BY <2>1, <2>2 DEF Begin, Receive, Recall, MainMove
  <2>3. CASE CreatePlan(r)
    BY <2>1, <2>3 DEF CreatePlan, Recollected, MainMove
  <2>4. ReadyToAnswer(r) => main[r] \in {"asked", "recalled", "loop", "cancelling", "deadlocked"}
    BY DEF ReadyToAnswer, Recollected, AtTop
  <2>5. CASE Answer(r)
    BY <2>1, <2>4, <2>5 DEF Answer, MainMove
  <2>6. CASE Close(r)
    BY <2>1, <2>4, <2>6 DEF Close, MainMove
  <2> QED
    BY <2>2, <2>3, <2>5, <2>6
<1>2. PICK k \in Kinds, n \in MainStates : MainMove(r, k, n) /\ MainPublishes(r, k, n)
  BY <1>1
<1>3. /\ main' = [main EXCEPT ![r] = n] /\ live' = live
      /\ UNCHANGED <<session, task, token, doomed, interrupted>>
      /\ Publish(<<r, 0>>, Event(k, r, 0), live)
  BY <1>2 DEF MainPublishes, Publish
<1>4. Event(k, r, 0) \in Events /\ <<r, 0>> \in Producers /\ AreLive(live)
  BY EventTyped DEF LogTypes, Producers
<1>5. pub' = [pub EXCEPT ![<<r, 0>>] = [event |-> Event(k, r, 0), copies |-> recorders]]
  BY <1>3, <1>4, Published
<1>6. main[r] \in {"loop", "cancelling", "deadlocked"} => PlanResolved(r)
  BY DEF Begin, Receive, Recall, CreatePlan, Answer, Close, ReadyToAnswer, Recollected
<1>7. main[r] \in Idle => Begin(r)
  BY DEF Begin, Receive, Recall, CreatePlan, Answer, Close, ReadyToAnswer, Recollected, AtTop, Idle
<1>8. \A q \in Runs \ {r} : main'[q] = main[q] /\ main[q] \in Idle
  BY <1>3, <1>7 DEF RunTypes, Flow, FlowOf, Begin, Idle
<1> QED
  BY <1>2, <1>3, <1>4, <1>5, <1>6, <1>8 DEF RunTypes

\* What the task of a step publishes, and the status of the step then.
TaskMove(r, s, k, x, n) ==
    LET state == task[<<r, s>>] IN
    \/ state = "created" /\ k = "StepStarted" /\ x = "running" /\ n = "started"
    \/ state = "created" /\ k = "StepCancelled" /\ x = "cancelled" /\ n = "ending"
    \/ /\ HasTool(r, s) /\ x = "running"
       /\ \/ state = "started" /\ k = "ToolStarted" /\ n = "calling"
          \/ state = "executing" /\ k = "ToolFinished" /\ n = "succeeded"
          \/ state = "executing" /\ k = "ToolFailed" /\ n = "failed"
    \/ /\ k = "StepFinished" /\ x = "completed" /\ n = "ending"
       /\ state = "succeeded" \/ (~HasTool(r, s) /\ state \in {"started", "executing"})
    \/ /\ k = "StepFailed" /\ x = "failed" /\ n = "ending"
       /\ state \in {"failed", "executing", WorkFrom(r, s)}

\* An event of a step of a run that is executed: what follows for the whole state.
StepSaid(p, k, r, s, x) ==
    /\ Event(k, r, s) \in Events
    /\ \E plans : AreLive(plans) /\ Publish(p, Event(k, r, s), plans)
    /\ pub' = [pub EXCEPT ![p] = [event |-> Event(k, r, s), copies |-> recorders]]
    /\ \A q \in Runs \ {r} : live'[q] = live[q]
    /\ \A u \in PlanSteps(r) : live'[r][u] = IF u = s THEN x ELSE live[r][u]

LEMMA StepSays ==
  ASSUME RunTypes, LogTypes, session' = session, NEW p \in Producers, NEW k \in Kinds,
         NEW r \in Runs, NEW s \in PlanSteps(r), NEW x \in Statuses, PublishStep(p, k, r, s, x)
  PROVE  StepSaid(p, k, r, s, x)
<1> DEFINE plans == [live EXCEPT ![r][s] = x]
<1>1. s \in Steps
  BY StepsArePlanned
<1>2. Event(k, r, s) \in Events /\ AreLive(plans) /\ Publish(p, Event(k, r, s), plans)
  BY <1>1, StepPublished
<1>3. live' = plans
  BY <1>2 DEF Publish
<1>4. DOMAIN live = Runs /\ live[r] \in [PlanSteps(r) -> Statuses]
  BY DEF LogTypes, AreLive
<1>5. /\ \A q \in Runs \ {r} : live'[q] = live[q]
      /\ \A u \in PlanSteps(r) : live'[r][u] = IF u = s THEN x ELSE live[r][u]
  BY <1>3, <1>4
<1> HIDE DEF plans
<1>6. pub' = [pub EXCEPT ![p] = [event |-> Event(k, r, s), copies |-> recorders]]
  BY <1>2, Published
<1> QED
  BY <1>2, <1>5, <1>6 DEF StepSaid

LEMMA TaskSays ==
  ASSUME RunTypes, LogTypes, Flow, NEW r \in Runs, NEW s \in Steps, Speaks(r, s)
  PROVE  /\ main[r] = "loop" /\ live[r][s] = "running" /\ s \in PlanSteps(r)
         /\ <<r, s>> \notin doomed /\ UNCHANGED <<session, main, token, doomed, interrupted>>
         /\ \E k \in Kinds, x \in Statuses, n \in TaskStates :
              /\ TaskMove(r, s, k, x, n) /\ StepSaid(<<r, s>>, k, r, s, x)
              /\ task' = [task EXCEPT ![<<r, s>>] = n] /\ task'[<<r, s>>] = n
<1>1. /\ main[r] = "loop" /\ live[r][s] = "running" /\ s \in PlanSteps(r)
      /\ <<r, s>> \notin doomed /\ UNCHANGED <<session, main, token, doomed, interrupted>>
  BY TaskPublishes
<1>2. /\ {"StepStarted", "StepCancelled", "ToolStarted", "ToolFinished", "ToolFailed", "StepFinished",
           "StepFailed"} \subseteq Kinds
      /\ {"started", "calling", "succeeded", "failed", "ending"} \subseteq TaskStates
      /\ {"running", "cancelled", "completed", "failed"} \subseteq Statuses
  BY DEF Kinds, ReplayKinds, StepKinds, TaskStates, Statuses
<1>3. \E k \in Kinds, x \in Statuses, n \in TaskStates :
          /\ TaskMove(r, s, k, x, n) /\ PublishStep(<<r, s>>, k, r, s, x)
          /\ task' = [task EXCEPT ![<<r, s>>] = n]
  <2>1. CASE Start(r, s) \/ Abort(r, s)
    BY <1>1, <1>2, <2>1 DEF Start, Abort, TaskMoves, TaskMove
  <2>2. CASE CallTool(r, s) \/ ToolEnds(r, s)
    BY <1>1, <1>2, <2>2 DEF CallTool, ToolEnds, TaskMoves, TaskMove
  <2>3. CASE FinishStep(r, s) \/ FailStep(r, s)
    BY <1>1, <1>2, <2>3 DEF FinishStep, FailStep, TaskMoves, TaskMove
  <2> QED
    BY <2>1, <2>2, <2>3 DEF Speaks
<1>4. <<r, s>> \in Producers /\ <<r, s>> \in StepsOf
  BY DEF Producers, StepsOf
<1>5. PICK k \in Kinds, x \in Statuses, n \in TaskStates :
          /\ TaskMove(r, s, k, x, n) /\ PublishStep(<<r, s>>, k, r, s, x)
          /\ task' = [task EXCEPT ![<<r, s>>] = n]
  BY <1>3
<1>6. StepSaid(<<r, s>>, k, r, s, x)
  BY <1>1, <1>4, <1>5, StepSays
<1>7. task'[<<r, s>>] = n
  BY <1>4, <1>5 DEF RunTypes
<1> QED
  BY <1>1, <1>5, <1>6, <1>7

\* What a step leaves to another run.
LEMMA BusOther ==
  ASSUME NEW q \in Runs, BusOf(q), session' = session, main'[q] = main[q], live'[q] = live[q],
         pub'[<<q, 0>>] = pub[<<q, 0>>],
         \A s \in Steps : pub'[<<q, s>>] = pub[<<q, s>>] /\ task'[<<q, s>>] = task[<<q, s>>],
         \A s \in PlanSteps(q) : s \in Steps
  PROVE  BusOf(q)'
<1>1. PlanSteps(q)' = PlanSteps(q) /\ \A s \in Steps : HasTool(q, s)' <=> HasTool(q, s)
  BY DEF PlanSteps, HasTool
<1>2. Said(<<q, 0>>)' = Said(<<q, 0>>) /\ \A s \in Steps : Said(<<q, s>>)' = Said(<<q, s>>)
  BY DEF Said
<1>3. MainBus(q)'
  BY <1>1, <1>2 DEF BusOf, Bus, MainBus
<1>4. PlanStatuses(q)'
  BY <1>1 DEF BusOf, Bus, PlanStatuses, Publishing
<1>5. \A s \in Steps : TaskBus(q, s)'
  BY <1>1, <1>2 DEF BusOf, Bus, TaskBus
<1> QED
  BY <1>3, <1>4, <1>5 DEF BusOf


\* The task of a step when step s of run r is launched.
TaskAfter(r, s, q, u) ==
    IF q = r /\ u = s THEN "scheduled"
    ELSE IF q = r /\ task[<<q, u>>] = "scheduled" THEN "created" ELSE task[<<q, u>>]

\* What the scheduler's loop does to a step.
LEMMA Launches ==
  ASSUME RunTypes, LogTypes, Flow, NEW r \in Runs, NEW s \in PlanSteps(r), Launch(r, s)
  PROVE  /\ StepSaid(<<r, 0>>, "StepScheduled", r, s, "running")
         /\ main[r] = "loop" /\ live[r][s] = "pending"
         /\ UNCHANGED <<session, main, token, doomed, interrupted>>
         /\ \A q \in Runs : \A u \in Steps : task'[<<q, u>>] =
              TaskAfter(r, s, q, u)
<1>1. /\ "StepScheduled" \in Kinds /\ "running" \in Statuses /\ <<r, 0>> \in Producers
      /\ s \in Steps
  BY StepsArePlanned DEF Kinds, ReplayKinds, StepKinds, Statuses, Producers
<1>2. StepSaid(<<r, 0>>, "StepScheduled", r, s, "running")
  BY <1>1, StepSays DEF Launch
<1>3. Created(r) \in [StepsOf -> TaskStates]
      /\ \A t \in StepsOf : Created(r)[t] = IF t[1] = r /\ task[t] = "scheduled" THEN "created" ELSE task[t]
  BY DEF Created, RunTypes, TaskStates
<1>4. task' = [Created(r) EXCEPT ![<<r, s>>] = "scheduled"]
  BY DEF Launch
<1>5. \A q \in Runs : \A u \in Steps : <<q, u>> \in StepsOf
  BY DEF StepsOf
<1>6. \A q \in Runs : \A u \in Steps : task'[<<q, u>>] =
              TaskAfter(r, s, q, u)
  BY <1>1, <1>3, <1>4, <1>5 DEF TaskAfter
<1> QED
  BY <1>2, <1>6 DEF Launch, AtTop

LEMMA Skips ==
  ASSUME RunTypes, LogTypes, Flow, NEW r \in Runs, NEW s \in PlanSteps(r), Skip(r, s)
  PROVE  /\ StepSaid(<<r, 0>>, "StepCancelled", r, s, "cancelled")
         /\ main[r] = "loop" /\ live[r][s] = "pending" /\ UNCHANGED runVars
         /\ \A u \in Steps : task[<<r, u>>] # "scheduled"
         /\ \E d \in PlanSteps(r) : live[r][d] # "pending"
<1>1. /\ "StepCancelled" \in Kinds /\ "cancelled" \in Statuses /\ <<r, 0>> \in Producers
  BY DEF Kinds, ReplayKinds, StepKinds, Statuses, Producers
<1>2. StepSaid(<<r, 0>>, "StepCancelled", r, s, "cancelled")
  BY <1>1, StepSays DEF Skip, runVars
<1>3. \A u \in Steps : task[<<r, u>>] # "scheduled"
  BY DEF Skip, AtTop, Flow, FlowOf
<1> QED
  BY <1>2, <1>3 DEF Skip, AtTop

LEMMA Fails ==
  ASSUME RunTypes, LogTypes, Flow, Bus, NEW r \in Runs, NEW s \in PlanSteps(r), FailDeadlocked(r, s)
  PROVE  /\ StepSaid(<<r, 0>>, "StepFailed", r, s, "failed")
         /\ main[r] \in {"loop", "deadlocked"} /\ live[r][s] = "pending" /\ task[<<r, s>>] = "none"
         /\ main' = [main EXCEPT ![r] = "deadlocked"] /\ main'[r] = "deadlocked"
         /\ r \in session.stuck
         /\ \A q \in Runs \ {r} : main'[q] = main[q] /\ main[q] \in Idle
         /\ UNCHANGED <<session, task, token, doomed, interrupted>>
         /\ \A u \in Steps : task[<<r, u>>] # "scheduled"
<1>1. /\ "StepFailed" \in Kinds /\ "failed" \in Statuses /\ <<r, 0>> \in Producers
  BY DEF Kinds, ReplayKinds, StepKinds, Statuses, Producers
<1>2. StepSaid(<<r, 0>>, "StepFailed", r, s, "failed")
  BY <1>1, StepSays DEF FailDeadlocked
<1>3. /\ main[r] \in {"loop", "deadlocked"} /\ r \in session.stuck
      /\ live[r][s] = "pending" /\ task[<<r, s>>] = "none"
  BY DEF FailDeadlocked, Bus, BusOf, MainBus, PlanStatuses
<1>4. ASSUME NEW u \in Steps PROVE task[<<r, u>>] # "scheduled"
  <2>1. task[<<r, u>>] = "scheduled" => main[r] = "loop" /\ u \in PlanSteps(r)
    BY DEF Flow, FlowOf, RunTypes
  <2> QED
    BY <2>1 DEF FailDeadlocked, AllTasksDone
<1>5. \A q \in Runs \ {r} : main'[q] = main[q] /\ main[q] \in Idle
  BY <1>3 DEF FailDeadlocked, RunTypes, Flow, FlowOf, Idle
<1> QED
  BY <1>2, <1>3, <1>4, <1>5 DEF FailDeadlocked, RunTypes

LEMMA Cancels ==
  ASSUME RunTypes, LogTypes, Flow, NEW r \in Runs, NEW s \in PlanSteps(r), CancelStep(r, s)
  PROVE  /\ StepSaid(<<r, 0>>, "StepCancelled", r, s, "cancelled")
         /\ main[r] \in {"loop", "cancelling"} /\ live[r][s] \in {"pending", "running"}
         /\ main' = [main EXCEPT ![r] = "cancelling"] /\ main'[r] = "cancelling"
         /\ \A q \in Runs \ {r} : main'[q] = main[q] /\ main[q] \in Idle
         /\ UNCHANGED <<session, task, token, interrupted>>
         /\ \A q \in Runs : \A u \in Steps : <<q, u>> \in doomed' <=>
              <<q, u>> \in doomed \/ (q = r /\ task[<<q, u>>] \notin {"none", "done"})
         /\ \A u \in Steps : task[<<r, u>>] # "scheduled"
<1>1. /\ "StepCancelled" \in Kinds /\ "cancelled" \in Statuses /\ <<r, 0>> \in Producers
  BY DEF Kinds, ReplayKinds, StepKinds, Statuses, Producers
<1>2. StepSaid(<<r, 0>>, "StepCancelled", r, s, "cancelled")
  BY <1>1, StepSays DEF CancelStep
<1>3. main[r] \in {"loop", "cancelling"} /\ \A u \in Steps : task[<<r, u>>] # "scheduled"
  BY DEF CancelStep, AtTop, Flow, FlowOf
<1>4. \A q \in Runs \ {r} : main'[q] = main[q] /\ main[q] \in Idle
  BY <1>3 DEF CancelStep, RunTypes, Flow, FlowOf, Idle
<1>5. \A q \in Runs : \A u \in Steps : <<q, u>> \in doomed' <=>
              <<q, u>> \in doomed \/ (q = r /\ task[<<q, u>>] \notin {"none", "done"})
  BY DEF CancelStep, StepsOf
<1> QED
  BY <1>2, <1>3, <1>4, <1>5 DEF CancelStep, RunTypes

\* The loop waits, the run ends, a task goes on without a word, ends or is cancelled.
LEMMA Waits ==
  ASSUME RunTypes, LogTypes, NEW r \in Runs, Wait(r)
  PROVE  /\ main[r] = "loop" /\ Publishing(r) \in {"StepScheduled", "StepCancelled"}
         /\ Return(<<r, 0>>) /\ <<r, 0>> \in Producers
         /\ UNCHANGED <<session, main, token, doomed, interrupted, live>>
         /\ \A q \in Runs : \A u \in Steps : task'[<<q, u>>] =
              IF q = r /\ task[<<q, u>>] = "scheduled" THEN "created" ELSE task[<<q, u>>]
  BY DEF Wait, Return, Created, StepsOf, Producers

LEMMA RunEnds ==
  ASSUME RunTypes, LogTypes, NEW r \in Runs, End(r)
  PROVE  /\ main[r] = "closing" /\ main'[r] = "ended" /\ Return(<<r, 0>>) /\ <<r, 0>> \in Producers
         /\ \A q \in Runs \ {r} : main'[q] = main[q]
         /\ UNCHANGED <<session, task, token, doomed, interrupted, live>>
  BY DEF End, Return, RunTypes, Producers

LEMMA TaskGoesOn ==
  ASSUME RunTypes, LogTypes, NEW r \in Runs, NEW s \in Steps, Execute(r, s) \/ Leave(r, s)
  PROVE  /\ Return(<<r, s>>) /\ <<r, s>> \in Producers /\ <<r, s>> \notin doomed
         /\ UNCHANGED <<session, main, token, doomed, interrupted, live>>
         /\ \/ task[<<r, s>>] = WorkFrom(r, s) /\ task' = [task EXCEPT ![<<r, s>>] = "executing"]
               /\ task'[<<r, s>>] = "executing"
            \/ task[<<r, s>>] = "ending" /\ task' = [task EXCEPT ![<<r, s>>] = "done"]
               /\ task'[<<r, s>>] = "done"
  BY DEF Execute, Leave, TaskMoves, Return, RunTypes, StepsOf, Producers

LEMMA TaskIsCancelled ==
  ASSUME RunTypes, LogTypes, NEW r \in Runs, NEW s \in Steps, Interrupt(r, s)
  PROVE  /\ <<r, s>> \in doomed /\ <<r, s>> \in Producers
         /\ task[<<r, s>>] # "done" /\ task' = [task EXCEPT ![<<r, s>>] = "done"]
         /\ task'[<<r, s>>] = "done" /\ pub' = [pub EXCEPT ![<<r, s>>] = NoEvent]
         /\ interrupted' = IF pub[<<r, s>>] = NoEvent THEN interrupted ELSE interrupted \cup {<<r, s>>}
         /\ UNCHANGED <<session, main, live, token, doomed, snapshot, shared, recorderVars, recorded>>
  BY DEF Interrupt, RunTypes, StepsOf, Producers

\* The bus after a publish or a return.
LEMMA SaidNow ==
  ASSUME LogTypes, NEW p \in Producers, NEW k, NEW r, NEW s,
         pub' = [pub EXCEPT ![p] = [event |-> Event(k, r, s), copies |-> recorders]]
  PROVE  /\ Said(p)' = Event(k, r, s) /\ Said(p)'.kind = k
         /\ \A o \in Producers \ {p} : pub'[o] = pub[o]
  BY DEF LogTypes, Said, Event

LEMMA SaysNothing ==
  ASSUME LogTypes, NEW p \in Producers, pub' = [pub EXCEPT ![p] = NoEvent]
  PROVE  pub'[p] = NoEvent /\ \A o \in Producers \ {p} : pub'[o] = pub[o]
  BY DEF LogTypes

\* What is published stays so.
LEMMA BusKept ==
  ASSUME RunTypes, LogTypes, Flow, Bus, [Next]_vars
  PROVE  Bus'
<1>1. \A q \in Runs : \A s \in PlanSteps(q) : s \in Steps
  BY StepsArePlanned
<1>2. \A q \in Runs : \A x \in Steps \cup {0} : <<q, x>> \in Producers
  BY DEF Producers
<1>3. 0 \notin Steps
  BY StepsAssumption
<1>4. \A q \in Runs : BusOf(q)
  BY DEF Bus
<1>5. ASSUME NEW r \in Runs,
             Begin(r) \/ Receive(r) \/ Recall(r) \/ CreatePlan(r) \/ Answer(r) \/ Close(r)
      PROVE  Bus'
  <2>1. PICK k \in Kinds, n \in MainStates :
              /\ MainMove(r, k, n) /\ main'[r] = n
              /\ Event(k, r, 0) \in Events
              /\ pub' = [pub EXCEPT ![<<r, 0>>] = [event |-> Event(k, r, 0), copies |-> recorders]]
    BY <1>5, MainSays
  <2>2. /\ main[r] \in {"loop", "cancelling", "deadlocked"} => PlanResolved(r)
        /\ \A q \in Runs \ {r} : main'[q] = main[q]
        /\ live' = live /\ UNCHANGED <<session, task>>
    BY <1>5, MainSays
  <2>3. /\ Said(<<r, 0>>)' = Event(k, r, 0) /\ Publishing(r)' = k
        /\ \A o \in Producers \ {<<r, 0>>} : pub'[o] = pub[o]
    BY <1>2, <2>1, SaidNow DEF Publishing, Said
  <2>4. PlanSteps(r)' = PlanSteps(r) /\ \A s \in Steps : HasTool(r, s)' <=> HasTool(r, s)
    BY <2>2 DEF PlanSteps, HasTool
  <2>5. MainBus(r)'
    BY <2>1, <2>3 DEF MainBus, MainMove, Idle
  <2>6. PlanStatuses(r)'
    BY <2>1, <2>2, <2>3, <2>4 DEF BusOf, Bus, PlanStatuses, MainMove, PlanResolved, Resolved
  <2>7. \A s \in Steps : TaskBus(r, s)'
    BY <1>2, <1>3, <2>2, <2>3, <2>4 DEF BusOf, Bus, TaskBus, Said
  <2>8. ASSUME NEW q \in Runs \ {r} PROVE BusOf(q)'
    BY <1>1, <1>2, <2>2, <2>3, BusOther DEF Bus
  <2> QED
    BY <2>5, <2>6, <2>7, <2>8 DEF BusOf, Bus
<1>6. ASSUME NEW r \in Runs, NEW s \in PlanSteps(r), Launch(r, s) PROVE Bus'
  <2>1. /\ main[r] = "loop" /\ live[r][s] = "pending" /\ main' = main /\ session' = session
        /\ \A q \in Runs : \A u \in Steps : task'[<<q, u>>] =
              TaskAfter(r, s, q, u)
    BY <1>6, Launches
  <2>2. /\ pub' = [pub EXCEPT ![<<r, 0>>] = [event |-> Event("StepScheduled", r, s), copies |-> recorders]]
        /\ \A q \in Runs \ {r} : live'[q] = live[q]
        /\ \A u \in PlanSteps(r) : live'[r][u] = IF u = s THEN "running" ELSE live[r][u]
    BY <1>6, Launches DEF StepSaid
  <2>3. /\ Said(<<r, 0>>)' = Event("StepScheduled", r, s) /\ Publishing(r)' = "StepScheduled"
        /\ \A o \in Producers \ {<<r, 0>>} : pub'[o] = pub[o]
    BY <1>2, <2>2, SaidNow DEF Publishing, Said
  <2>4. /\ PlanSteps(r)' = PlanSteps(r) /\ s \in Steps
        /\ \A u \in Steps : HasTool(r, u)' <=> HasTool(r, u)
    BY <1>1, <2>1 DEF PlanSteps, HasTool
  <2>5. MainBus(r)'
    BY <2>1, <2>3, <2>4 DEF MainBus, Idle, TaskAfter
  <2>6. PlanStatuses(r)'
    BY <1>1, <2>1, <2>2, <2>3, <2>4 DEF BusOf, Bus, PlanStatuses, TaskAfter
  <2>7. ASSUME NEW u \in Steps PROVE TaskBus(r, u)'
    <3>1. pub'[<<r, u>>] = pub[<<r, u>>] /\ Said(<<r, u>>)' = Said(<<r, u>>)
      BY <1>2, <1>3, <2>3 DEF Said
    <3>2. task[<<r, u>>] # "none" => u \in PlanSteps(r)
      BY DEF RunTypes
    <3>3. live[r][s] = "pending" => task[<<r, s>>] = "none"
      BY DEF BusOf, Bus, PlanStatuses
    <3> QED
      BY <2>1, <2>2, <2>4, <3>1, <3>2, <3>3 DEF BusOf, Bus, TaskBus, TaskAfter
  <2>8. ASSUME NEW q \in Runs \ {r} PROVE BusOf(q)'
    BY <1>1, <1>2, <2>1, <2>2, <2>3, BusOther DEF Bus, TaskAfter
  <2> QED
    BY <2>5, <2>6, <2>7, <2>8 DEF BusOf, Bus
<1>7. ASSUME NEW r \in Runs, NEW s \in PlanSteps(r), Skip(r, s) \/ CancelStep(r, s) PROVE Bus'
  <2>1. /\ main[r] \in {"loop", "cancelling"} /\ live[r][s] \in {"pending", "running"}
        /\ main'[r] \in {"loop", "cancelling"}
        /\ \A q \in Runs \ {r} : main'[q] = main[q]
        /\ UNCHANGED <<session, task>>
        /\ \A u \in Steps : task[<<r, u>>] # "scheduled"
    <3>1. CASE Skip(r, s)
      BY <3>1, Skips DEF runVars
    <3>2. CASE CancelStep(r, s)
      BY <3>2, Cancels
    <3> QED
      BY <1>7, <3>1, <3>2
  <2>2. /\ pub' = [pub EXCEPT ![<<r, 0>>] = [event |-> Event("StepCancelled", r, s), copies |-> recorders]]
        /\ \A q \in Runs \ {r} : live'[q] = live[q]
        /\ \A u \in PlanSteps(r) : live'[r][u] = IF u = s THEN "cancelled" ELSE live[r][u]
    BY <1>7, Skips, Cancels DEF StepSaid
  <2>3. /\ Said(<<r, 0>>)' = Event("StepCancelled", r, s) /\ Publishing(r)' = "StepCancelled"
        /\ \A o \in Producers \ {<<r, 0>>} : pub'[o] = pub[o]
    BY <1>2, <2>2, SaidNow DEF Publishing, Said
  <2>4. /\ PlanSteps(r)' = PlanSteps(r) /\ s \in Steps
        /\ \A u \in Steps : HasTool(r, u)' <=> HasTool(r, u)
    BY <1>1, <2>1 DEF PlanSteps, HasTool
  <2>5. MainBus(r)'
    BY <2>1, <2>2, <2>3, <2>4 DEF MainBus, Idle
  <2>6. PlanStatuses(r)'
    BY <1>1, <2>1, <2>2, <2>3, <2>4 DEF BusOf, Bus, PlanStatuses
  <2>7. ASSUME NEW u \in Steps PROVE TaskBus(r, u)'
    <3>1. pub'[<<r, u>>] = pub[<<r, u>>] /\ Said(<<r, u>>)' = Said(<<r, u>>)
      BY <1>2, <1>3, <2>3 DEF Said
    <3>2. task[<<r, u>>] # "none" => u \in PlanSteps(r)
      BY DEF RunTypes
    <3> QED
      BY <2>1, <2>2, <2>4, <3>1, <3>2 DEF BusOf, Bus, TaskBus
  <2>8. ASSUME NEW q \in Runs \ {r} PROVE BusOf(q)'
    BY <1>1, <1>2, <2>1, <2>2, <2>3, BusOther DEF Bus
  <2> QED
    BY <2>5, <2>6, <2>7, <2>8 DEF BusOf, Bus
<1>15. ASSUME NEW r \in Runs, NEW s \in PlanSteps(r), FailDeadlocked(r, s) PROVE Bus'
  <2>1. /\ main[r] \in {"loop", "deadlocked"} /\ live[r][s] = "pending" /\ task[<<r, s>>] = "none"
        /\ main'[r] = "deadlocked" /\ r \in session.stuck
        /\ \A q \in Runs \ {r} : main'[q] = main[q]
        /\ UNCHANGED <<session, task>>
    <3>1. /\ main[r] \in {"loop", "deadlocked"} /\ live[r][s] = "pending" /\ task[<<r, s>>] = "none"
          /\ main'[r] = "deadlocked" /\ r \in session.stuck /\ UNCHANGED <<session, task>>
      BY <1>15, Fails
    <3>2. main' = [main EXCEPT ![r] = "deadlocked"]
      BY <1>15, Fails
    <3> QED
      BY <3>1, <3>2 DEF RunTypes
  <2>2. /\ pub' = [pub EXCEPT ![<<r, 0>>] = [event |-> Event("StepFailed", r, s), copies |-> recorders]]
        /\ \A q \in Runs \ {r} : live'[q] = live[q]
        /\ \A u \in PlanSteps(r) : live'[r][u] = IF u = s THEN "failed" ELSE live[r][u]
    BY <1>15, Fails DEF StepSaid
  <2>3. /\ Said(<<r, 0>>)' = Event("StepFailed", r, s) /\ Publishing(r)' = "StepFailed"
        /\ \A o \in Producers \ {<<r, 0>>} : pub'[o] = pub[o]
    BY <1>2, <2>2, SaidNow DEF Publishing, Said
  <2>4. /\ PlanSteps(r)' = PlanSteps(r) /\ s \in Steps
        /\ \A u \in Steps : HasTool(r, u)' <=> HasTool(r, u)
    BY <1>1, <2>1 DEF PlanSteps, HasTool
  <2>5. MainBus(r)'
    BY <2>1, <2>2, <2>3, <2>4 DEF MainBus, Idle
  <2>6. PlanStatuses(r)'
    BY <1>1, <2>1, <2>2, <2>3, <2>4 DEF BusOf, Bus, PlanStatuses
  <2>7. ASSUME NEW u \in Steps PROVE TaskBus(r, u)'
    <3>1. pub'[<<r, u>>] = pub[<<r, u>>] /\ Said(<<r, u>>)' = Said(<<r, u>>)
      BY <1>2, <1>3, <2>3 DEF Said
    <3>2. task[<<r, u>>] # "none" => u \in PlanSteps(r)
      BY DEF RunTypes
    <3> QED
      BY <2>1, <2>2, <2>4, <3>1, <3>2 DEF BusOf, Bus, TaskBus
  <2>8. ASSUME NEW q \in Runs \ {r} PROVE BusOf(q)'
    BY <1>1, <1>2, <2>1, <2>2, <2>3, BusOther DEF Bus
  <2> QED
    BY <2>5, <2>6, <2>7, <2>8 DEF BusOf, Bus
<1>8. ASSUME NEW r \in Runs, Wait(r) \/ End(r) PROVE Bus'
  <2>1. pub' = [pub EXCEPT ![<<r, 0>>] = NoEvent] /\ UNCHANGED <<session, live>>
    BY <1>8 DEF Wait, End, Return
  <2>2. pub'[<<r, 0>>] = NoEvent /\ Publishing(r)' = "none"
        /\ \A o \in Producers \ {<<r, 0>>} : pub'[o] = pub[o]
    BY <1>2, <2>1, SaysNothing, NoEventApart DEF Publishing
  <2>3. PlanSteps(r)' = PlanSteps(r) /\ \A s \in Steps : HasTool(r, s)' <=> HasTool(r, s)
    BY <2>1 DEF PlanSteps, HasTool
  <2>4. CASE Wait(r)
    <3>1. /\ main[r] = "loop" /\ main' = main
          /\ \A q \in Runs : \A u \in Steps : task'[<<q, u>>] =
                IF q = r /\ task[<<q, u>>] = "scheduled" THEN "created" ELSE task[<<q, u>>]
      BY <2>4, Waits
    <3>2. MainBus(r)' /\ PlanStatuses(r)'
      <4>1. MainBus(r)'
        BY <2>2, <2>3, <3>1 DEF MainBus, Idle
      <4>2. PlanStatuses(r)
        BY DEF BusOf, Bus
      <4>3. PlanStatuses(r)'
        BY <1>1, <2>1, <2>2, <2>3, <3>1, <4>2 DEF PlanStatuses
      <4> QED
        BY <4>1, <4>3
    <3>3. \A u \in Steps : TaskBus(r, u)'
      BY <1>2, <1>3, <2>1, <2>2, <2>3, <3>1 DEF BusOf, Bus, TaskBus, Said
    <3>4. ASSUME NEW q \in Runs \ {r} PROVE BusOf(q)'
      BY <1>1, <1>2, <2>1, <2>2, <3>1, BusOther DEF Bus
    <3> QED
      BY <3>2, <3>3, <3>4 DEF BusOf, Bus
  <2>5. CASE End(r)
    <3>1. /\ main[r] = "closing" /\ main'[r] = "ended" /\ task' = task
          /\ \A q \in Runs \ {r} : main'[q] = main[q]
      BY <2>5, RunEnds
    <3>2. MainBus(r)' /\ PlanStatuses(r)'
      <4>1. MainBus(r)'
        BY <2>2, <2>3, <3>1 DEF MainBus, Idle
      <4>2. PlanStatuses(r)
        BY DEF BusOf, Bus
      <4>3. PlanStatuses(r)'
        BY <1>1, <2>1, <2>2, <2>3, <3>1, <4>2 DEF PlanStatuses
      <4> QED
        BY <4>1, <4>3
    <3>3. \A u \in Steps : TaskBus(r, u)'
      BY <1>2, <1>3, <2>1, <2>2, <2>3, <3>1 DEF BusOf, Bus, TaskBus, Said
    <3>4. ASSUME NEW q \in Runs \ {r} PROVE BusOf(q)'
      BY <1>1, <1>2, <2>1, <2>2, <3>1, BusOther DEF Bus
    <3> QED
      BY <3>2, <3>3, <3>4 DEF BusOf, Bus
  <2> QED
    BY <1>8, <2>4, <2>5
<1>9. ASSUME NEW r \in Runs, NEW s \in Steps, session' = session, main' = main,
             s \in PlanSteps(r) \/ UNCHANGED live,
             NEW n, task' = [task EXCEPT ![<<r, s>>] = n], n \notin {"none", "scheduled"},
             task[<<r, s>>] \notin {"none", "scheduled"},
             NEW e, pub' = [pub EXCEPT ![<<r, s>>] = e],
             \A q \in Runs \ {r} : live'[q] = live[q],
             \A u \in PlanSteps(r) \ {s} : live'[r][u] = live[r][u],
             live'[r][s] = live[r][s] \/ (live[r][s] = "running" /\ live'[r][s] \in Resolved),
             TaskBus(r, s)'
      PROVE  Bus'
  <2>1. <<r, s>> \in StepsOf /\ \A o \in Producers \ {<<r, s>>} : pub'[o] = pub[o]
    BY <1>2, <1>9 DEF StepsOf, LogTypes
  <2>2. \A q \in Runs : \A u \in Steps : q # r \/ u # s => task'[<<q, u>>] = task[<<q, u>>]
    BY <1>9 DEF RunTypes, StepsOf
  <2>3. task'[<<r, s>>] = n
    BY <1>9, <2>1 DEF RunTypes
  <2>4. PlanSteps(r)' = PlanSteps(r) /\ \A u \in Steps : HasTool(r, u)' <=> HasTool(r, u)
    BY <1>9 DEF PlanSteps, HasTool
  <2>5. pub'[<<r, 0>>] = pub[<<r, 0>>] /\ Said(<<r, 0>>)' = Said(<<r, 0>>) /\ Publishing(r)' = Publishing(r)
    BY <1>2, <1>3, <2>1 DEF Said, Publishing
  <2>6. s \in PlanSteps(r) => live[r][s] # "pending"
    BY <1>9 DEF BusOf, Bus, PlanStatuses
  <2>7. ASSUME NEW u \in PlanSteps(r), NEW k, Said(<<r, 0>>) = Event(k, r, u)
        PROVE  /\ live[r][u] = "cancelled" => live'[r][u] = "cancelled"
               /\ task[<<r, u>>] = "scheduled" => task'[<<r, u>>] = "scheduled"
               /\ live[r][u] = "failed" => live'[r][u] = "failed"
               /\ task[<<r, u>>] = "none" => task'[<<r, u>>] = "none"
    BY <1>1, <1>9, <2>2
  <2>8. MainBus(r)'
    <3>1. main'[r] = main[r] /\ MainBus(r)
      BY <1>4, <1>9 DEF BusOf
    <3>2. CASE main[r] = "loop"
      <4>1. SUFFICES
              \/ pub'[<<r, 0>>] = NoEvent
              \/ Said(<<r, 0>>)' = Event("PlanCreated", r, 0)
              \/ \E u \in PlanSteps(r) :
                    Said(<<r, 0>>)' = Event("StepScheduled", r, u) /\ task'[<<r, u>>] = "scheduled"
              \/ \E u \in PlanSteps(r) :
                    Said(<<r, 0>>)' = Event("StepCancelled", r, u) /\ live'[r][u] = "cancelled"
        BY <2>4, <3>1, <3>2 DEF MainBus, Idle
      <4>2. \/ pub[<<r, 0>>] = NoEvent
            \/ Said(<<r, 0>>) = Event("PlanCreated", r, 0)
            \/ \E u \in PlanSteps(r) :
                  Said(<<r, 0>>) = Event("StepScheduled", r, u) /\ task[<<r, u>>] = "scheduled"
            \/ \E u \in PlanSteps(r) :
                  Said(<<r, 0>>) = Event("StepCancelled", r, u) /\ live[r][u] = "cancelled"
        BY <3>1, <3>2 DEF MainBus
      <4> QED
        BY <2>5, <2>7, <4>2
    <3>3. CASE main[r] = "cancelling"
      BY <1>9, <2>4, <2>5, <2>7, <3>1, <3>3 DEF MainBus, Idle
    <3>4. CASE main[r] = "deadlocked"
      BY <1>9, <2>4, <2>5, <2>7, <3>1, <3>4 DEF MainBus, Idle
    <3>5. CASE main[r] \notin {"loop", "cancelling", "deadlocked"}
      BY <1>9, <2>4, <2>5, <3>1, <3>5 DEF MainBus, Idle
    <3> QED
      BY <3>2, <3>3, <3>4, <3>5
  <2>9. PlanStatuses(r)'
    BY <1>1, <1>9, <2>2, <2>4, <2>5, <2>6 DEF BusOf, Bus, PlanStatuses, Resolved
  <2>10. ASSUME NEW u \in Steps \ {s} PROVE TaskBus(r, u)'
    <3>1. pub'[<<r, u>>] = pub[<<r, u>>] /\ Said(<<r, u>>)' = Said(<<r, u>>) /\ task'[<<r, u>>] = task[<<r, u>>]
      BY <1>2, <2>1, <2>2 DEF Said
    <3>2. task[<<r, u>>] # "none" => live'[r][u] = live[r][u]
      BY <1>9 DEF RunTypes
    <3> QED
      BY <2>4, <3>1, <3>2 DEF BusOf, Bus, TaskBus
  <2>11. ASSUME NEW q \in Runs \ {r} PROVE BusOf(q)'
    BY <1>1, <1>2, <1>9, <2>1, <2>2, BusOther DEF Bus
  <2> QED
    BY <1>9, <2>8, <2>9, <2>10, <2>11 DEF BusOf, Bus
<1>10. ASSUME NEW r \in Runs, NEW s \in Steps, Speaks(r, s)
       PROVE  Bus'
  <2>1. main[r] = "loop" /\ live[r][s] = "running" /\ s \in PlanSteps(r) /\ UNCHANGED <<session, main>>
    BY <1>10, TaskSays
  <2>2. PICK k \in Kinds, x \in Statuses, n \in TaskStates :
            /\ TaskMove(r, s, k, x, n) /\ StepSaid(<<r, s>>, k, r, s, x)
            /\ task' = [task EXCEPT ![<<r, s>>] = n] /\ task'[<<r, s>>] = n
    BY <1>10, TaskSays
  <2>3. /\ \A q \in Runs \ {r} : live'[q] = live[q]
        /\ \A u \in PlanSteps(r) : live'[r][u] = IF u = s THEN x ELSE live[r][u]
    BY <2>2 DEF StepSaid
  <2>7. pub' = [pub EXCEPT ![<<r, s>>] = [event |-> Event(k, r, s), copies |-> recorders]]
    BY <2>2 DEF StepSaid
  <2>4. Said(<<r, s>>)' = Event(k, r, s)
    BY <1>2, <2>7, SaidNow
  <2>5. TaskBus(r, s)'
    <3>1. HasTool(r, s)' <=> HasTool(r, s)
      BY <2>1 DEF HasTool
    <3> QED
      BY <2>1, <2>2, <2>3, <2>4, <3>1 DEF TaskBus, TaskMove
  <2>6. /\ live'[r][s] = live[r][s] \/ (live[r][s] = "running" /\ live'[r][s] \in Resolved)
        /\ n \notin {"none", "scheduled"} /\ task[<<r, s>>] \notin {"none", "scheduled"}
    BY <2>1, <2>2, <2>3 DEF TaskMove, WorkFrom, Resolved
  <2> QED
    BY <1>9, <2>1, <2>2, <2>3, <2>5, <2>6, <2>7
<1>11. ASSUME NEW r \in Runs, NEW s \in Steps, Execute(r, s) \/ Leave(r, s) \/ Interrupt(r, s)
       PROVE  Bus'
  <2>1. PICK n \in {"executing", "done"} :
            /\ UNCHANGED <<session, main, live>> /\ task[<<r, s>>] \notin {"none", "scheduled"}
            /\ task' = [task EXCEPT ![<<r, s>>] = n] /\ pub' = [pub EXCEPT ![<<r, s>>] = NoEvent]
            /\ task'[<<r, s>>] = n
    <3>1. CASE Interrupt(r, s)
      BY <3>1, TaskIsCancelled DEF Flow, FlowOf
    <3>2. CASE Execute(r, s) \/ Leave(r, s)
      BY <3>2, TaskGoesOn DEF Return, WorkFrom
    <3> QED
      BY <1>11, <3>1, <3>2
  <2>2. pub'[<<r, s>>] = NoEvent
    BY <1>2, <2>1, SaysNothing
  <2>3. TaskBus(r, s)'
    BY <2>1, <2>2 DEF TaskBus
  <2> QED
    BY <1>9, <2>1, <2>3
<1>12. CASE UNCHANGED vars \/ StopRecording \/ StartRecording \/ \E r \in Runs : RequestCancellation(r)
  <2>1. UNCHANGED <<session, main, live, pub, task>>
    BY <1>12 DEF vars, runVars, StopRecording, StartRecording, RequestCancellation
  <2> QED
    BY <1>1, <2>1, BusOther DEF Bus
<1> QED
  BY <1>5, <1>6, <1>7, <1>8, <1>10, <1>11, <1>12, <1>15 DEF Next, RunMain, RunTask, Speaks

\* The events of steps that the coroutine of a run publishes.
MainSaysOf(r, s) ==
    \/ Said(<<r, 0>>) = Event("StepScheduled", r, s) /\ task[<<r, s>>] = "scheduled"
    \/ Said(<<r, 0>>) = Event("StepCancelled", r, s) /\ live[r][s] = "cancelled"
    \/ /\ Said(<<r, 0>>) = Event("StepFailed", r, s) /\ r \in session.stuck
       /\ live[r][s] = "failed" /\ task[<<r, s>>] = "none"

LEMMA MainSaid ==
  ASSUME RunTypes, Bus, NEW r \in Runs, pub[<<r, 0>>] # NoEvent, Said(<<r, 0>>).step # 0
  PROVE  \E s \in PlanSteps(r) : MainSaysOf(r, s)
<1>1. MainBus(r) /\ main[r] \in MainStates
  BY DEF Bus, BusOf, RunTypes
<1>2. \A k : Said(<<r, 0>>) # Event(k, r, 0)
  BY DEF Event
<1>3. main[r] \in {"loop", "cancelling", "deadlocked"}
  BY <1>1, <1>2 DEF MainBus, MainStates, Idle
<1>4. CASE main[r] = "loop"
  BY <1>1, <1>2, <1>4 DEF MainBus, MainSaysOf
<1>5. CASE main[r] = "cancelling"
  BY <1>1, <1>5 DEF MainBus, MainSaysOf
<1>6. CASE main[r] = "deadlocked"
  BY <1>1, <1>6 DEF MainBus, MainSaysOf
<1> QED
  BY <1>3, <1>4, <1>5, <1>6

LEMMA MainSaidOf ==
  ASSUME RunTypes, Bus, NEW r \in Runs, NEW k, NEW s \in PlanSteps(r), Said(<<r, 0>>) = Event(k, r, s)
  PROVE  MainSaysOf(r, s)
<1>1. \A j, u : Event(j, r, u).step = u
  BY DEF Event
<1>2. s # 0
  BY StepsArePlanned, StepsAssumption
<1>3. pub[<<r, 0>>] # NoEvent
  <2>1. Event(k, r, s) # Event("none", Unbound, 0)
    BY <1>2 DEF Event
  <2> QED
    BY <2>1 DEF Said, NoEvent
<1>4. PICK u \in PlanSteps(r) : MainSaysOf(r, u)
  BY <1>1, <1>2, <1>3, MainSaid
<1>5. Said(<<r, 0>>).step = u
  BY <1>1, <1>4 DEF MainSaysOf
<1> QED
  BY <1>1, <1>4, <1>5

-----------------------------------------------------------------------------
(* An event is published once.                                             *)

\* The events that have been published, or never will be.
PastMain(k, r) ==
    \/ k = "RuntimeStarted" /\ main[r] # "new"
    \/ k = "MessageReceived" /\ main[r] \notin {"new", "started"}
    \/ k = "MemoryRetrieved" /\ main[r] \notin {"new", "started", "asked"}
    \/ k = "PlanCreated" /\ main[r] \notin {"new", "started", "asked", "recalled"}
    \/ k = "MessageSent" /\ main[r] \in {"answered", "closing", "ended"}
    \/ k \in {"RuntimeStopped", "RuntimeFailed"} /\ main[r] \in {"closing", "ended"}
PastStep(k, r, s) ==
    LET state == task[<<r, s>>] IN
    /\ s \in PlanSteps(r)
    /\ \/ k = "StepScheduled" /\ live[r][s] # "pending"
       \/ k = "StepCancelled" /\ live[r][s] = "cancelled"
       \/ k = "StepStarted" /\ state \notin {"none", "scheduled", "created"}
       \/ k = "ToolStarted" /\ state \notin {"none", "scheduled", "created", "started"}
       \/ k = "ToolFinished" /\ state \in {"succeeded", "failed", "ending", "done"}
       \/ k = "ToolFailed" /\ state \in {"succeeded", "failed", "ending", "done"}
       \/ k = "StepFinished" /\ live[r][s] = "completed"
       \/ k = "StepFailed" /\ live[r][s] = "failed"
Past(e) == IF e.step = 0 THEN PastMain(e.kind, e.run) ELSE PastStep(e.kind, e.run, e.step)

\* A step takes no event back.
LEMMA PastSame ==
  ASSUME NEW e \in Events, session' = session, main'[e.run] = main[e.run],
         e.step # 0 => /\ task'[<<e.run, e.step>>] = task[<<e.run, e.step>>]
                       /\ live'[e.run][e.step] = live[e.run][e.step]
  PROVE  Past(e)' <=> Past(e)
<1>1. PlanSteps(e.run)' = PlanSteps(e.run)
  BY DEF PlanSteps
<1>2. CASE e.step = 0
  BY <1>2 DEF Past, PastMain
<1>3. CASE e.step # 0
  BY <1>1, <1>3 DEF Past, PastStep
<1> QED
  BY <1>2, <1>3

LEMMA MainMovesOn ==
  ASSUME NEW r \in Runs, NEW k, NEW n, MainMove(r, k, n), main'[r] = n
  PROVE  ~PastMain(k, r) /\ PastMain(k, r)' /\ \A j : PastMain(j, r) => PastMain(j, r)'
<1>1. ~PastMain(k, r) /\ PastMain(k, r)'
  BY DEF MainMove, PastMain
<1>2. ASSUME NEW j, PastMain(j, r) PROVE PastMain(j, r)'
  BY <1>2 DEF MainMove, PastMain
<1> QED
  BY <1>1, <1>2

LEMMA TaskMovesOn ==
  ASSUME session' = session, NEW r \in Runs, NEW s \in PlanSteps(r), NEW k, NEW x, NEW n,
         TaskMove(r, s, k, x, n), task'[<<r, s>>] = n,
         live[r][s] = "running", live'[r][s] = x
  PROVE  ~PastStep(k, r, s) /\ PastStep(k, r, s)' /\ \A j : PastStep(j, r, s) => PastStep(j, r, s)'
<1>1. PlanSteps(r)' = PlanSteps(r)
  BY DEF PlanSteps
<1>2. ~PastStep(k, r, s) /\ PastStep(k, r, s)'
  BY <1>1 DEF TaskMove, WorkFrom, PastStep
<1>3. ASSUME NEW j, PastStep(j, r, s) PROVE PastStep(j, r, s)'
  BY <1>1, <1>3 DEF TaskMove, WorkFrom, PastStep
<1> QED
  BY <1>2, <1>3

\* A task that is launched, created or done, and a status that is resolved, has no
\* more events before it than it had.
LEMMA StepMovesOn ==
  ASSUME session' = session, NEW r \in Runs, NEW s \in PlanSteps(r),
         \/ task'[<<r, s>>] = task[<<r, s>>] \/ task'[<<r, s>>] = "done"
         \/ task[<<r, s>>] \in {"none", "scheduled"}
         \/ task[<<r, s>>] \in {"started", "calling"} /\ task'[<<r, s>>] = "executing",
         \/ live'[r][s] = live[r][s] \/ live[r][s] = "pending"
         \/ live[r][s] = "running" /\ live'[r][s] # "pending"
  PROVE  \A j : PastStep(j, r, s) => PastStep(j, r, s)'
<1>1. PlanSteps(r)' = PlanSteps(r)
  BY DEF PlanSteps
<1>2. ASSUME NEW j, PastStep(j, r, s) PROVE PastStep(j, r, s)'
  BY <1>1, <1>2 DEF PastStep
<1> QED
  BY <1>2

\* The steps again: what is published is new, and past from then on.
PublishesNew == \E p \in Producers : \E e \in Events : \E plans :
    /\ AreLive(plans) /\ Publish(p, e, plans) /\ UNCHANGED <<session, interrupted>>
    /\ ~Past(e) /\ Past(e)'

LEMMA Ages ==
  ASSUME RunTypes, LogTypes, Flow, Bus, [Next]_vars
  PROVE  /\ \A e \in Events : Past(e) => Past(e)'
         /\ PublishesNew \/ Returns \/ Interrupts \/ StopRecording \/ StartRecording \/ LogStays
<1> DEFINE Kept == \A e \in Events : Past(e) => Past(e)'
<1>1. \A q \in Runs : \A s \in PlanSteps(q) : s \in Steps /\ s # 0
  BY StepsArePlanned, StepsAssumption
<1>2. \A q \in Runs : \A x \in Steps \cup {0} : <<q, x>> \in Producers
  BY DEF Producers
<1>3. \A e \in Events : e.run \in Runs /\ e.step \in Steps \cup {0} /\ e.kind \in Kinds
  BY DEF Events
<1>4. \A k, r, s : Event(k, r, s).kind = k /\ Event(k, r, s).run = r /\ Event(k, r, s).step = s
  BY DEF Event
<1>5. \A e \in Events : e.step \notin PlanSteps(e.run) /\ e.step # 0 => ~Past(e)
  BY DEF Past, PastStep
<1>6. ASSUME NEW r \in Runs, session' = session, \A q \in Runs \ {r} : main'[q] = main[q] /\ live'[q] = live[q],
             \A q \in Runs \ {r} : \A s \in Steps : task'[<<q, s>>] = task[<<q, s>>],
             \A j : PastMain(j, r) => PastMain(j, r)',
             \A s \in PlanSteps(r) : \A j : PastStep(j, r, s) => PastStep(j, r, s)'
      PROVE  Kept
  <2>1. SUFFICES ASSUME NEW e \in Events, Past(e) PROVE Past(e)'
    OBVIOUS
  <2>2. CASE e.run # r
    BY <1>3, <1>6, <2>1, <2>2, PastSame
  <2>3. CASE e.run = r /\ e.step = 0
    BY <1>6, <2>1, <2>3 DEF Past
  <2>4. CASE e.run = r /\ e.step # 0
    <3>1. e.step \in PlanSteps(r)
      BY <1>5, <2>1, <2>4
    <3> QED
      BY <1>6, <2>1, <2>4, <3>1 DEF Past
  <2> QED
    BY <2>2, <2>3, <2>4
<1>7. ASSUME NEW p \in Producers, NEW k \in Kinds, NEW r \in Runs, NEW s \in PlanSteps(r), NEW x,
             StepSaid(p, k, r, s, x), UNCHANGED <<session, interrupted>>,
             ~PastStep(k, r, s), PastStep(k, r, s)'
      PROVE  PublishesNew
  <2>1. ~Past(Event(k, r, s)) /\ Past(Event(k, r, s))'
    BY <1>1, <1>4, <1>7 DEF Past
  <2> QED
    BY <1>7, <2>1 DEF StepSaid, PublishesNew
<1> HIDE DEF Kept
<1>8. ASSUME NEW r \in Runs,
             Begin(r) \/ Receive(r) \/ Recall(r) \/ CreatePlan(r) \/ Answer(r) \/ Close(r)
      PROVE  Kept /\ PublishesNew
  <2>1. PICK k \in Kinds, n \in MainStates :
              /\ MainMove(r, k, n) /\ main'[r] = n
              /\ Event(k, r, 0) \in Events /\ Publish(<<r, 0>>, Event(k, r, 0), live)
    BY <1>8, MainSays
  <2>2. /\ \A q \in Runs \ {r} : main'[q] = main[q]
        /\ live' = live /\ UNCHANGED <<session, task, interrupted>>
    BY <1>8, MainSays
  <2>3. ~PastMain(k, r) /\ PastMain(k, r)' /\ \A j : PastMain(j, r) => PastMain(j, r)'
    BY <2>1, MainMovesOn
  <2>4. \A s \in PlanSteps(r) : \A j : PastStep(j, r, s) => PastStep(j, r, s)'
    BY <2>2, StepMovesOn
  <2>5. ~Past(Event(k, r, 0)) /\ Past(Event(k, r, 0))'
    BY <1>4, <2>3 DEF Past
  <2>6. PublishesNew
    <3>1. <<r, 0>> \in Producers /\ AreLive(live)
      BY <1>2 DEF LogTypes
    <3> QED
      BY <2>1, <2>2, <2>5, <3>1 DEF PublishesNew
  <2> QED
    BY <1>6, <2>2, <2>3, <2>4, <2>6
<1>9. ASSUME NEW r \in Runs, NEW s \in PlanSteps(r), Launch(r, s) PROVE Kept /\ PublishesNew
  <2>1. /\ StepSaid(<<r, 0>>, "StepScheduled", r, s, "running")
        /\ live[r][s] = "pending" /\ main' = main /\ UNCHANGED <<session, interrupted>>
        /\ \A q \in Runs : \A u \in Steps : task'[<<q, u>>] = TaskAfter(r, s, q, u)
    BY <1>9, Launches
  <2>2. /\ \A q \in Runs \ {r} : live'[q] = live[q]
        /\ \A u \in PlanSteps(r) : live'[r][u] = IF u = s THEN "running" ELSE live[r][u]
    BY <2>1 DEF StepSaid
  <2>3. ASSUME NEW u \in PlanSteps(r) PROVE \A j : PastStep(j, r, u) => PastStep(j, r, u)'
    <3>1. live[r][u] = "pending" => task[<<r, u>>] = "none"
      BY DEF Bus, BusOf, PlanStatuses
    <3> QED
      BY <1>1, <2>1, <2>2, <3>1, StepMovesOn DEF TaskAfter
  <2>4. ~PastStep("StepScheduled", r, s) /\ PastStep("StepScheduled", r, s)'
    BY <2>1, <2>2 DEF PastStep, PlanSteps
  <2>5. "StepScheduled" \in Kinds
    BY DEF Kinds, ReplayKinds, StepKinds
  <2>6. PublishesNew
    BY <1>2, <1>7, <2>1, <2>4, <2>5
  <2>7. \A j : PastMain(j, r) => PastMain(j, r)'
    BY <2>1 DEF PastMain
  <2>8. \A q \in Runs \ {r} : \A u \in Steps : task'[<<q, u>>] = task[<<q, u>>]
    BY <2>1 DEF TaskAfter
  <2> QED
    BY <1>6, <2>1, <2>2, <2>3, <2>6, <2>7, <2>8
<1>10. ASSUME NEW r \in Runs, NEW s \in PlanSteps(r), Skip(r, s) \/ CancelStep(r, s)
       PROVE  Kept /\ PublishesNew
  <2>1. /\ StepSaid(<<r, 0>>, "StepCancelled", r, s, "cancelled")
        /\ live[r][s] \in {"pending", "running"} /\ main[r] \in {"loop", "cancelling"}
        /\ main'[r] \in {"loop", "cancelling"} /\ UNCHANGED <<session, task, interrupted>>
        /\ \A q \in Runs \ {r} : main'[q] = main[q]
    <3>1. CASE Skip(r, s)
      BY <3>1, Skips DEF runVars
    <3>2. CASE CancelStep(r, s)
      BY <3>2, Cancels
    <3> QED
      BY <1>10, <3>1, <3>2
  <2>2. /\ \A q \in Runs \ {r} : live'[q] = live[q]
        /\ \A u \in PlanSteps(r) : live'[r][u] = IF u = s THEN "cancelled" ELSE live[r][u]
    BY <2>1 DEF StepSaid
  <2>3. ASSUME NEW u \in PlanSteps(r) PROVE \A j : PastStep(j, r, u) => PastStep(j, r, u)'
    BY <2>1, <2>2, StepMovesOn
  <2>4. ~PastStep("StepCancelled", r, s) /\ PastStep("StepCancelled", r, s)'
    BY <2>1, <2>2 DEF PastStep, PlanSteps
  <2>5. "StepCancelled" \in Kinds
    BY DEF Kinds, ReplayKinds, StepKinds
  <2>6. PublishesNew
    BY <1>2, <1>7, <2>1, <2>4, <2>5
  <2>7. \A j : PastMain(j, r) => PastMain(j, r)'
    BY <2>1 DEF PastMain
  <2> QED
    BY <1>6, <2>1, <2>2, <2>3, <2>6, <2>7
<1>15. ASSUME NEW r \in Runs, NEW s \in PlanSteps(r), FailDeadlocked(r, s)
       PROVE  Kept /\ PublishesNew
  <2>1. /\ StepSaid(<<r, 0>>, "StepFailed", r, s, "failed")
        /\ live[r][s] = "pending" /\ main[r] \in {"loop", "deadlocked"} /\ main'[r] = "deadlocked"
        /\ UNCHANGED <<session, task, interrupted>>
        /\ \A q \in Runs \ {r} : main'[q] = main[q]
    <3>1. /\ StepSaid(<<r, 0>>, "StepFailed", r, s, "failed")
          /\ main[r] \in {"loop", "deadlocked"} /\ live[r][s] = "pending" /\ main'[r] = "deadlocked"
      BY <1>15, Fails
    <3>2. UNCHANGED <<session, task, interrupted>>
      BY <1>15, Fails
    <3>3. main' = [main EXCEPT ![r] = "deadlocked"]
      BY <1>15, Fails
    <3> QED
      BY <3>1, <3>2, <3>3 DEF RunTypes
  <2>2. /\ \A q \in Runs \ {r} : live'[q] = live[q]
        /\ \A u \in PlanSteps(r) : live'[r][u] = IF u = s THEN "failed" ELSE live[r][u]
    BY <2>1 DEF StepSaid
  <2>3. ASSUME NEW u \in PlanSteps(r) PROVE \A j : PastStep(j, r, u) => PastStep(j, r, u)'
    BY <2>1, <2>2, StepMovesOn
  <2>4. ~PastStep("StepFailed", r, s) /\ PastStep("StepFailed", r, s)'
    BY <2>1, <2>2 DEF PastStep, PlanSteps
  <2>5. "StepFailed" \in Kinds
    BY DEF Kinds, ReplayKinds, StepKinds
  <2>6. PublishesNew
    BY <1>2, <1>7, <2>1, <2>4, <2>5
  <2>7. \A j : PastMain(j, r) => PastMain(j, r)'
    BY <2>1 DEF PastMain
  <2> QED
    BY <1>6, <2>1, <2>2, <2>3, <2>6, <2>7
<1>11. ASSUME NEW r \in Runs, Wait(r) \/ End(r) PROVE Kept /\ Returns
  <2>1. /\ Return(<<r, 0>>) /\ UNCHANGED <<session, interrupted, live>>
        /\ main'[r] = main[r] \/ (main[r] = "closing" /\ main'[r] = "ended")
        /\ \A q \in Runs \ {r} : main'[q] = main[q]
        /\ \A q \in Runs : \A u \in Steps : task'[<<q, u>>] =
              IF q = r /\ task[<<q, u>>] = "scheduled" /\ Wait(r) THEN "created" ELSE task[<<q, u>>]
    <3>1. CASE Wait(r)
      BY <3>1, Waits
    <3>2. CASE End(r)
      BY <3>2, RunEnds DEF End, Wait
    <3> QED
      BY <1>11, <3>1, <3>2
  <2>2. \A j : PastMain(j, r) => PastMain(j, r)'
    BY <2>1 DEF PastMain
  <2>3. \A u \in PlanSteps(r) : \A j : PastStep(j, r, u) => PastStep(j, r, u)'
    BY <1>1, <2>1, StepMovesOn
  <2> QED
    BY <1>2, <1>6, <2>1, <2>2, <2>3 DEF Returns
<1>12. ASSUME NEW r \in Runs, NEW s \in Steps, Speaks(r, s)
       PROVE  Kept /\ PublishesNew
  <2>1. /\ live[r][s] = "running" /\ s \in PlanSteps(r) /\ UNCHANGED <<session, main, interrupted>>
    BY <1>12, TaskSays
  <2>2. PICK k \in Kinds, x \in Statuses, n \in TaskStates :
            /\ TaskMove(r, s, k, x, n) /\ StepSaid(<<r, s>>, k, r, s, x)
            /\ task' = [task EXCEPT ![<<r, s>>] = n] /\ task'[<<r, s>>] = n
    BY <1>12, TaskSays
  <2>3. /\ \A q \in Runs \ {r} : live'[q] = live[q]
        /\ \A u \in PlanSteps(r) : live'[r][u] = IF u = s THEN x ELSE live[r][u]
    BY <2>2 DEF StepSaid
  <2>4. \A q \in Runs : \A u \in Steps : q # r \/ u # s => task'[<<q, u>>] = task[<<q, u>>]
    BY <2>2 DEF RunTypes, StepsOf
  <2>5. live'[r][s] = x
    BY <2>1, <2>3
  <2>6. ~PastStep(k, r, s) /\ PastStep(k, r, s)' /\ \A j : PastStep(j, r, s) => PastStep(j, r, s)'
    BY <2>1, <2>2, <2>5, TaskMovesOn
  <2>7. \A u \in PlanSteps(r) : \A j : PastStep(j, r, u) => PastStep(j, r, u)'
    BY <1>1, <2>1, <2>3, <2>4, <2>6, StepMovesOn
  <2>8. PublishesNew
    BY <1>2, <1>7, <2>1, <2>2, <2>6
  <2>9. \A j : PastMain(j, r) => PastMain(j, r)'
    BY <2>1 DEF PastMain
  <2> QED
    BY <1>6, <2>1, <2>3, <2>4, <2>7, <2>8, <2>9
<1>13. ASSUME NEW r \in Runs, NEW s \in Steps, Execute(r, s) \/ Leave(r, s) \/ Interrupt(r, s)
       PROVE  Kept /\ (Returns \/ Interrupts)
  <2>1. PICK n \in {"executing", "done"} :
            /\ UNCHANGED <<session, main, live>> /\ task' = [task EXCEPT ![<<r, s>>] = n]
            /\ task'[<<r, s>>] = n /\ n = "executing" => task[<<r, s>>] \in {"started", "calling"}
    <3>1. CASE Interrupt(r, s)
      BY <3>1, TaskIsCancelled
    <3>2. CASE Execute(r, s) \/ Leave(r, s)
      BY <3>2, TaskGoesOn DEF WorkFrom
    <3> QED
      BY <1>13, <3>1, <3>2
  <2>2. \A q \in Runs : \A u \in Steps : q # r \/ u # s => task'[<<q, u>>] = task[<<q, u>>]
    BY <2>1 DEF RunTypes, StepsOf
  <2>3. ASSUME NEW u \in PlanSteps(r) PROVE \A j : PastStep(j, r, u) => PastStep(j, r, u)'
    <3>1. session' = session /\ live'[r][u] = live[r][u] /\ u \in Steps
      BY <1>1, <2>1
    <3>2. CASE u = s
      BY <2>1, <3>1, <3>2, StepMovesOn
    <3>3. CASE u # s
      <4>1. task'[<<r, u>>] = task[<<r, u>>]
        BY <2>2, <3>1, <3>3
      <4> QED
        BY <3>1, <4>1, StepMovesOn
    <3> QED
      BY <3>2, <3>3
  <2>4. \A j : PastMain(j, r) => PastMain(j, r)'
    BY <2>1 DEF PastMain
  <2>5. Kept
    BY <1>6, <2>1, <2>2, <2>3, <2>4
  <2>6. Execute(r, s) \/ Leave(r, s) => Returns
    BY <1>2 DEF Execute, Leave, TaskMoves, Returns
  <2> QED
    BY <1>13, <2>5, <2>6 DEF Interrupts
<1>14. CASE UNCHANGED vars \/ StopRecording \/ StartRecording \/ \E r \in Runs : RequestCancellation(r)
  <2>1. UNCHANGED <<session, main, live, task>>
    BY <1>14 DEF vars, runVars, StopRecording, StartRecording, RequestCancellation
  <2>2. Kept
    BY <2>1, PastSame DEF Kept
  <2>3. StopRecording \/ StartRecording \/ LogStays
    BY <1>14 DEF vars, runVars, RequestCancellation, LogStays, recorderVars
  <2> QED
    BY <2>2, <2>3 DEF Kept
<1> QED
  BY <1>8, <1>9, <1>10, <1>11, <1>12, <1>13, <1>14, <1>15
     DEF Next, RunMain, RunTask, Speaks, Kept

Positions(log, e) == {i \in DOMAIN log : log[i] = e}

\* Only past events are on their way or recorded, each with one producer or in the
\* record, there at most once for each start().
Fresh ==
    /\ \A i \in DOMAIN recorded : Past(recorded[i])
    /\ \A p \in Carrying :
        /\ Past(Said(p)) /\ Positions(recorded, Said(p)) = {}
        /\ \A q \in Carrying : q # p => Said(q) # Said(p)
    /\ \A e \in Events : IsFiniteSet(Positions(recorded, e)) /\ Cardinality(Positions(recorded, e)) <= recorders

\* What is recorded when a producer goes on: nothing, or its event, as often as the
\* recorder was subscribed when it was published.
Copies(e, n) == [i \in 1..n |-> e]

Grows(log, new, d, n) ==
    /\ new \in Seq(Events) /\ DOMAIN new = 1..(Len(log) + n) /\ Len(new) = Len(log) + n
    /\ \A i \in DOMAIN log : i \in DOMAIN new /\ new[i] = log[i]
    /\ \A i \in DOMAIN new \ DOMAIN log : new[i] = d
    /\ \A x : Positions(new, x) =
         IF x = d THEN Positions(log, x) \cup (Len(log) + 1)..(Len(log) + n) ELSE Positions(log, x)

LEMMA Appended ==
  ASSUME NEW log \in Seq(Events), NEW d \in Events, NEW n \in Nat
  PROVE  Grows(log, log \o Copies(d, n), d, n)
<1> DEFINE new == log \o Copies(d, n)
<1>1. Copies(d, n) \in Seq(Events) /\ Len(Copies(d, n)) = n /\ \A i \in 1..n : Copies(d, n)[i] = d
  BY DEF Copies
<1>2. Len(log) \in Nat /\ DOMAIN log = 1..Len(log)
  BY LenProperties
<1>3. /\ new \in Seq(Events) /\ Len(new) = Len(log) + n
      /\ \A i \in 1..(Len(log) + n) : new[i] = IF i <= Len(log) THEN log[i] ELSE Copies(d, n)[i - Len(log)]
  BY <1>1, ConcatProperties
<1>4. DOMAIN new = 1..(Len(log) + n)
  BY <1>3, LenProperties
<1>5. \A i \in DOMAIN log : i \in DOMAIN new /\ new[i] = log[i]
  BY <1>2, <1>3, <1>4
<1>6. ASSUME NEW i \in DOMAIN new \ DOMAIN log PROVE new[i] = d
  <2>1. i \in 1..(Len(log) + n) /\ ~(i <= Len(log)) /\ i - Len(log) \in 1..n
    BY <1>2, <1>4, <1>6
  <2> QED
    BY <1>1, <1>3, <2>1
<1> HIDE DEF new
<1>7. DOMAIN new \ DOMAIN log = (Len(log) + 1)..(Len(log) + n)
  BY <1>2, <1>4
<1>8. ASSUME NEW x
      PROVE  Positions(new, x) =
              IF x = d THEN Positions(log, x) \cup (Len(log) + 1)..(Len(log) + n) ELSE Positions(log, x)
  BY <1>5, <1>6, <1>7 DEF Positions
<1> QED
  BY <1>3, <1>4, <1>5, <1>6, <1>8 DEF new, Grows

LEMMA Recorded ==
  ASSUME LogTypes, Conserved, NEW p \in Producers
  PROVE  /\ p \in Carrying => Said(p) \in Events /\ pub[p].copies \in 1..recorders
         /\ RecordedAfter(p) =
              IF p \in Carrying /\ recording /\ InScope(Said(p))
              THEN recorded \o Copies(Said(p), pub[p].copies) ELSE recorded
<1>1. CASE pub[p] = NoEvent
  <2>1. [i \in 1..0 |-> NoEvent.event] = <<>>
    OBVIOUS
  <2>2. recorded \o <<>> = recorded
    BY ConcatEmptySeq DEF LogTypes
  <2> QED
    BY <1>1, <2>1, <2>2, NoEventApart DEF RecordedAfter, Carrying
<1>2. CASE pub[p] # NoEvent
  BY <1>2 DEF RecordedAfter, Carrying, Conserved, LogTypes, PubStates, Copies, Said
<1> QED
  BY <1>1, <1>2

\* A producer goes on, with a new event or none.
LEMMA FreshGoesOn ==
  ASSUME LogTypes, Conserved, Fresh, NEW p \in Producers,
         \A e \in Events : Past(e) => Past(e)',
         recorders' = recorders, recorded' = RecordedAfter(p) \/ recorded' = recorded,
         \A q \in Producers \ {p} : pub'[q] = pub[q],
         \/ pub'[p] = NoEvent
         \/ \E e \in Events : Said(p)' = e /\ ~Past(e) /\ Past(e)'
  PROVE  Fresh'
<1>1. recorded \in Seq(Events) /\ recorders \in Nat /\ \A i \in DOMAIN recorded : recorded[i] \in Events
  BY DEF LogTypes
<1>2. /\ \A q \in Carrying : Said(q) \in Events /\ q \in Producers
      /\ \A q \in Carrying \ {p} : Said(q) # Said(p) \/ p \notin Carrying
  BY Recorded DEF Carrying, Fresh
<1>3. /\ \A i \in DOMAIN recorded : Past(recorded[i])
      /\ \A q \in Carrying : Past(Said(q)) /\ Positions(recorded, Said(q)) = {}
      /\ \A e \in Events : IsFiniteSet(Positions(recorded, e)) /\ Cardinality(Positions(recorded, e)) <= recorders
  BY DEF Fresh
<1>4. \A q \in Carrying' \ {p} : q \in Carrying /\ Said(q)' = Said(q)
  BY DEF Carrying, Said
<1>5. ASSUME p \in Carrying' PROVE \E e \in Events : Said(p)' = e /\ ~Past(e) /\ Past(e)'
  BY <1>5 DEF Carrying
<1>6. /\ \A i \in DOMAIN recorded' : recorded'[i] \in Events /\ Past(recorded'[i])
      /\ \A e \in Events : IsFiniteSet(Positions(recorded', e)) /\ Cardinality(Positions(recorded', e)) <= recorders
      /\ \A q \in Carrying \ {p} : Positions(recorded', Said(q)) = {}
  <2>1. CASE recorded' = recorded
    BY <1>1, <1>3, <2>1
  <2>2. CASE recorded' # recorded
    <3> DEFINE n == pub[p].copies
               d == Said(p)
               more == (Len(recorded) + 1)..(Len(recorded) + n)
    <3>1. p \in Carrying /\ recorded' = recorded \o Copies(d, n) /\ n \in 1..recorders /\ d \in Events
      BY <2>2, Recorded
    <3>2. n \in Nat /\ n <= recorders /\ Len(recorded) \in Nat
      BY <1>1, <3>1, LenProperties
    <3> HIDE DEF n, d
    <3>3. Grows(recorded, recorded', d, n)
      BY <1>1, <3>1, <3>2, Appended
    <3>4. /\ \A i \in DOMAIN recorded : recorded'[i] = recorded[i]
          /\ \A i \in DOMAIN recorded' \ DOMAIN recorded : recorded'[i] = d
          /\ \A x : Positions(recorded', x) = IF x = d THEN Positions(recorded, x) \cup more ELSE Positions(recorded, x)
      BY <3>3 DEF Grows
    <3>5. Past(d) /\ Positions(recorded, d) = {}
      BY <1>3, <3>1 DEF d
    <3>6. IsFiniteSet(more) /\ Cardinality(more) <= recorders
      <4>1. Len(recorded) + 1 \in Int /\ Len(recorded) + n \in Int
        BY <3>2
      <4>2. IsFiniteSet(more) /\ Cardinality(more) =
              IF Len(recorded) + 1 > Len(recorded) + n THEN 0 ELSE (Len(recorded) + n) - (Len(recorded) + 1) + 1
        BY <4>1, FS_Interval
      <4> QED
        BY <1>1, <3>2, <4>2
    <3> HIDE DEF more
    <3>7. ASSUME NEW e \in Events
          PROVE  IsFiniteSet(Positions(recorded', e)) /\ Cardinality(Positions(recorded', e)) <= recorders
      <4>1. CASE e = d
        <5>1. Positions(recorded', e) = more
          BY <3>4, <3>5, <4>1
        <5> QED
          BY <3>6, <5>1
      <4>2. CASE e # d
        BY <1>3, <3>4, <4>2
      <4> QED
        BY <4>1, <4>2
    <3>8. \A q \in Carrying \ {p} : Positions(recorded', Said(q)) = {}
      BY <1>2, <1>3, <3>1, <3>4 DEF d
    <3>9. \A i \in DOMAIN recorded' : recorded'[i] \in Events /\ Past(recorded'[i])
      BY <1>1, <1>3, <3>1, <3>4, <3>5
    <3> QED
      BY <3>7, <3>8, <3>9
  <2> QED
    BY <2>1, <2>2
<1>7. (\A i \in DOMAIN recorded : Past(recorded[i]))'
  <2>1. SUFFICES ASSUME NEW i \in DOMAIN recorded' PROVE Past(recorded[i])'
    OBVIOUS
  <2>2. PICK e \in Events : e = recorded'[i] /\ Past(e)
    BY <1>6
  <2>3. Past(e)'
    BY <2>2
  <2> QED
    BY <2>2, <2>3 DEF Past, PastMain, PastStep
<1>8. ASSUME NEW q \in Carrying'
      PROVE  /\ Past(Said(q))' /\ Positions(recorded', Said(q)') = {}
             /\ \A o \in Carrying' : o # q => Said(o)' # Said(q)'
  <2>1. CASE q = p
    <3>1. PICK e \in Events : Said(p)' = e /\ ~Past(e) /\ Past(e)'
      BY <1>5, <2>1
    <3>2. Past(Said(q))'
      BY <2>1, <3>1 DEF Past, PastMain, PastStep
    <3>3. Positions(recorded', Said(q)') = {}
      BY <1>6, <2>1, <3>1 DEF Positions
    <3>4. \A o \in Carrying' : o # q => Said(o)' # Said(q)'
      BY <1>3, <1>4, <2>1, <3>1
    <3> QED
      BY <3>2, <3>3, <3>4
  <2>2. CASE q # p
    <3>1. q \in Carrying /\ Said(q)' = Said(q) /\ Said(q) \in Events
      BY <1>2, <1>4, <2>2
    <3>2. PICK e \in Events : e = Said(q)' /\ Past(e)
      BY <1>3, <3>1
    <3>3. Past(Said(q))'
      <4>1. Past(e)'
        BY <3>2
      <4> QED
        BY <3>2, <4>1 DEF Past, PastMain, PastStep
    <3>4. Positions(recorded', Said(q)') = {}
      BY <1>6, <2>2, <3>1
    <3>5. \A o \in Carrying' : o # q => Said(o)' # Said(q)'
      <4>1. TAKE o \in Carrying'
      <4>2. CASE o = p
        BY <1>3, <1>5, <3>1, <4>2
      <4>3. CASE o # p
        BY <1>4, <3>1, <4>3 DEF Fresh
      <4> QED
        BY <4>2, <4>3
    <3> QED
      BY <3>3, <3>4, <3>5
  <2> QED
    BY <2>1, <2>2
<1>9. Events' = Events
  BY DEF Events
<1> QED
  BY <1>6, <1>7, <1>8, <1>9 DEF Fresh

LEMMA FreshKept ==
  ASSUME Inv, Bus, Fresh, [Next]_vars PROVE Fresh'
<1> USE DEF Inv
<1>1. \A e \in Events : Past(e) => Past(e)'
  BY Ages
<1>2. recorders \in Nat /\ \A e \in Events : Cardinality(Positions(recorded, e)) \in Nat
  BY FS_CardinalityType DEF LogTypes, Fresh
<1>3. CASE PublishesNew
  <2>1. PICK p \in Producers, e \in Events : \E plans :
            /\ AreLive(plans) /\ Publish(p, e, plans) /\ session' = session /\ ~Past(e) /\ Past(e)'
    BY <1>3 DEF PublishesNew
  <2>2. pub' = [pub EXCEPT ![p] = [event |-> e, copies |-> recorders]]
    BY <2>1, Published
  <2>3. recorders' = recorders /\ recorded' = RecordedAfter(p)
    BY <2>1 DEF Publish, recorderVars
  <2>4. (\A q \in Producers \ {p} : pub'[q] = pub[q]) /\ Said(p)' = e
    BY <2>2 DEF LogTypes, Said
  <2> QED
    BY <1>1, <2>1, <2>3, <2>4, FreshGoesOn
<1>4. CASE Returns \/ Interrupts
  <2>1. PICK p \in Producers : /\ pub' = [pub EXCEPT ![p] = NoEvent] /\ recorders' = recorders
                               /\ recorded' = RecordedAfter(p) \/ recorded' = recorded
    <3>1. CASE Returns
      BY <3>1 DEF Returns, Return, recorderVars
    <3>2. CASE Interrupts
      <4>1. PICK r \in Runs, s \in Steps : Interrupt(r, s)
        BY <3>2 DEF Interrupts
      <4> QED
        BY <4>1 DEF Interrupt, Producers, recorderVars
    <3> QED
      BY <1>4, <3>1, <3>2
  <2>2. pub'[p] = NoEvent /\ \A q \in Producers \ {p} : pub'[q] = pub[q]
    BY <2>1 DEF LogTypes
  <2> QED
    BY <1>1, <2>1, <2>2, FreshGoesOn
<1>5. CASE StopRecording \/ StartRecording \/ LogStays
  <2>1. UNCHANGED <<pub, recorded>> /\ recorders' \in {recorders, recorders + 1}
    BY <1>5 DEF StopRecording, StartRecording, LogStays, recorderVars
  <2>2. Carrying' = Carrying /\ \A p : Said(p)' = Said(p)
    BY <2>1 DEF Carrying, Said
  <2>3. /\ (\A i \in DOMAIN recorded : Past(recorded[i]))'
        /\ (\A p \in Carrying : Past(Said(p)))'
    <3>1. ASSUME NEW e \in Events, Past(e) PROVE Past(e)'
      BY <1>1, <3>1
    <3>2. \A i \in DOMAIN recorded : recorded[i] \in Events /\ Past(recorded[i])
      BY DEF LogTypes, Fresh
    <3>3. \A p \in Carrying : Said(p) \in Events /\ Past(Said(p))
      BY Recorded DEF Fresh, Carrying
    <3>4. ASSUME NEW i \in DOMAIN recorded' PROVE Past(recorded[i])'
      <4>1. PICK e \in Events : e = recorded[i] /\ Past(e)
        BY <2>1, <3>2
      <4> QED
        <5>1. e = recorded'[i] /\ Past(e)'
          BY <1>1, <2>1, <4>1
        <5> QED
          BY <5>1 DEF Past, PastMain, PastStep
    <3>5. ASSUME NEW p \in Carrying' PROVE Past(Said(p))'
      <4>1. PICK e \in Events : e = Said(p) /\ Past(e)
        BY <2>2, <3>3
      <4> QED
        <5>1. e = Said(p)' /\ Past(e)'
          BY <1>1, <2>2, <4>1
        <5> QED
          BY <5>1 DEF Past, PastMain, PastStep
    <3> QED
      BY <3>4, <3>5
  <2>4. \A e \in Events : Cardinality(Positions(recorded, e)) <= recorders'
    BY <1>2, <2>1 DEF Fresh
  <2> QED
    BY <2>1, <2>2, <2>3, <2>4 DEF Fresh, Events
<1> QED
  BY <1>3, <1>4, <1>5, Ages

-----------------------------------------------------------------------------
(* The order of the events of a step.                                      *)

Ends == {"StepFinished", "StepFailed", "StepCancelled"}
Seen(r, s) == KindsOf(recorded, Len(recorded), r, s)
Scope(r, s) == {k \in Kinds : InScope(Event(k, r, s))}
Begun == {"StepScheduled", "StepStarted"}
Called(r, s) == IF HasTool(r, s) THEN Begun \cup {"ToolStarted"} ELSE Begun
ToolEnded(r, s, kind) == IF HasTool(r, s) THEN Called(r, s) \cup {kind} ELSE Called(r, s)
Ended(r, s, status) ==
    IF status = "completed" THEN {ToolEnded(r, s, "ToolFinished")}
    ELSE IF status = "failed" THEN {Called(r, s), ToolEnded(r, s, "ToolFailed")}
    ELSE {{"StepScheduled"}}

\* What is recorded of a step, by the state of its task unless that is cancelled; as
\* long as its status is open it has not ended.
TrailOf(r, s) ==
    LET state == task[<<r, s>>]
        are(kinds) == Seen(r, s) = kinds \cap Scope(r, s)
    IN
    /\ live[r][s] = "pending" \/ state = "scheduled" => are({})
    /\ state = "scheduled" => Said(<<r, 0>>) = Event("StepScheduled", r, s)
    /\ <<r, s>> \notin doomed =>
        /\ state \in {"created", "started"} => are({"StepScheduled"})
        /\ state = "calling" => are(Begun)
        /\ state \in {"executing", "succeeded", "failed"} => are(Called(r, s))
        /\ state = "ending" => \E kinds \in Ended(r, s, live[r][s]) : are(kinds)
    /\ Said(<<r, 0>>) = Event("StepFailed", r, s) => are({})
    /\ live[r][s] = "running" \/ Said(<<r, 0>>) = Event("StepCancelled", r, s) =>
        Seen(r, s) \cap Ends = {}

Trail == Whole => \A r \in Runs : \A s \in PlanSteps(r) : TrailOf(r, s)

\* What is recorded of a step when a producer goes on.
Adds(p, r, s) ==
    {k \in {Said(p).kind} : p \in Carrying /\ Said(p).run = r /\ Said(p).step = s /\ InScope(Said(p))}

LEMMA SeenGrows ==
  ASSUME LogTypes, Conserved, Whole, NEW p \in Producers, recorded' = RecordedAfter(p), NEW r, NEW s
  PROVE  Seen(r, s)' = Seen(r, s) \cup Adds(p, r, s)
<1> DEFINE at(log) == {j \in DOMAIN log : log[j].run = r /\ log[j].step = s}
           seen(log) == {log[j].kind : j \in at(log)}
<1>1. recorded \in Seq(Events) /\ RecordedAfter(p) \in Seq(Events)
  BY RecordedAfterTyped DEF LogTypes
<1>2. Seen(r, s) = seen(recorded) /\ Seen(r, s)' = seen(recorded')
  <2>1. DOMAIN recorded = 1..Len(recorded) /\ DOMAIN recorded' = 1..Len(recorded')
    BY <1>1, LenProperties
  <2> QED
    BY <2>1 DEF Seen, KindsOf
<1>3. CASE p \in Carrying /\ InScope(Said(p))
  <2>1. Said(p) \in Events /\ pub[p].copies = 1
    BY <1>3, Recorded DEF Whole
  <2>2. Grows(recorded, recorded', Said(p), 1)
    BY <1>1, <1>3, <2>1, Recorded, Appended DEF Whole
  <2>3. Len(recorded) \in Nat /\ DOMAIN recorded = 1..Len(recorded) /\ DOMAIN recorded' = 1..(Len(recorded) + 1)
    BY <1>1, <2>2, LenProperties DEF Grows
  <2>4. /\ DOMAIN recorded' = DOMAIN recorded \cup {Len(recorded) + 1}
        /\ \A i \in DOMAIN recorded : recorded'[i] = recorded[i]
        /\ recorded'[Len(recorded) + 1] = Said(p)
    BY <2>2, <2>3 DEF Grows
  <2>5. Adds(p, r, s) = IF Said(p).run = r /\ Said(p).step = s THEN {Said(p).kind} ELSE {}
    BY <1>3 DEF Adds
  <2>6. ASSUME NEW k PROVE k \in seen(recorded') <=> k \in seen(recorded) \cup Adds(p, r, s)
    BY <2>4, <2>5
  <2> HIDE DEF seen
  <2> QED
    BY <1>2, <2>6
<1>4. CASE ~(p \in Carrying /\ InScope(Said(p)))
  <2>1. Adds(p, r, s) = {}
    BY <1>4 DEF Adds
  <2>2. recorded' = recorded
    BY <1>4, Recorded
  <2> QED
    BY <1>2, <2>1, <2>2
<1> QED
  BY <1>3, <1>4

\* Who publishes no event of a step adds nothing to it.
LEMMA AddsKind ==
  ASSUME NEW p \in Producers, NEW k \in Kinds, NEW r, NEW s, p \in Carrying, Said(p) = Event(k, r, s)
  PROVE  /\ Adds(p, r, s) = {k} \cap Scope(r, s)
         /\ \A q, u : q # r \/ u # s => Adds(p, q, u) = {}
  BY DEF Adds, Scope, Event

LEMMA AddsNothing ==
  ASSUME NEW p, p \notin Carrying PROVE \A q, u : Adds(p, q, u) = {}
  BY DEF Adds

\* The events without a run id reach every recorder.
LEMMA InEveryScope == ASSUME NEW r, NEW s PROVE StepKinds \subseteq Scope(r, s)
  BY DEF Scope, InScope, Kinds, ReplayKinds, StepKinds, Event

\* A recorder that has not been stopped had not been before.
LEMMA WholeBefore ==
  ASSUME RunTypes, LogTypes, Conserved, [Next]_vars, Whole'
  PROVE  /\ Whole /\ bound' = bound /\ recorders' = recorders
         /\ \A r, s : Scope(r, s)' = Scope(r, s)
<1>1. /\ bound' = bound
      /\ \/ recorders' = recorders /\ recording' = recording
         \/ recorders' = recorders + 1
         \/ recording' = FALSE
  <2>1. CASE Publishes \/ Returns
    BY <2>1 DEF Publishes, Returns, Publish, Return, recorderVars
  <2>2. CASE Interrupts
    BY <2>2 DEF Interrupts, Interrupt, recorderVars
  <2>3. CASE StopRecording \/ StartRecording \/ LogStays
    BY <2>3 DEF StopRecording, StartRecording, LogStays, recorderVars
  <2> QED
    BY <2>1, <2>2, <2>3, LogSteps
<1>2. Whole /\ recorders' = recorders
  <2>1. recorders' = 1 /\ recording'
    BY DEF Whole
  <2>2. recorders' # recorders + 1
    BY <2>1 DEF Conserved, LogTypes
  <2>3. recording /\ recorders' = recorders
    BY <1>1, <2>1, <2>2, Zenon DEF LogTypes
  <2> QED
    BY <2>1, <2>3 DEF Whole
<1>3. ASSUME NEW r, NEW s PROVE Scope(r, s)' = Scope(r, s)
  <2>1. \A k \in Kinds : InScope(Event(k, r, s))' <=> InScope(Event(k, r, s))
    BY <1>1 DEF InScope
  <2> QED
    BY <2>1 DEF Scope
<1> QED
  BY <1>1, <1>2, <1>3

\* An event comes in the record behind those that precede it.
Timely(e) == e.step # 0 => InTurn(e, Seen(e.run, e.step))

\* The kinds that may come before, as far as they reach the recorder.
LEMMA TimelyIf ==
  ASSUME NEW r, NEW s, NEW k \in DOMAIN Before(r, s), NEW kinds \in Before(r, s)[k],
         Seen(r, s) = kinds \cap Scope(r, s), k # "StepCancelled",
         k \in {"ToolStarted", "ToolFinished", "ToolFailed"} => HasTool(r, s)
  PROVE  Timely(Event(k, r, s))
<1>1. kinds \subseteq Kinds
  BY DEF Before, Kinds, ReplayKinds, StepKinds
<1>2. {x \in kinds : InScope(Event(x, r, s))} = kinds \cap Scope(r, s)
  BY <1>1 DEF Scope
<1>3. Event(k, r, s).kind = k /\ Event(k, r, s).run = r /\ Event(k, r, s).step = s
  BY DEF Event
<1> QED
  BY <1>2, <1>3 DEF Timely, InTurn

LEMMA TimelyCancelled ==
  ASSUME NEW r, NEW s, Seen(r, s) \cap Ends = {}
  PROVE  Timely(Event("StepCancelled", r, s))
<1>1. /\ Event("StepCancelled", r, s).kind = "StepCancelled"
      /\ Event("StepCancelled", r, s).run = r /\ Event("StepCancelled", r, s).step = s
  BY DEF Event
<1> QED
  BY <1>1 DEF Timely, InTurn, Ends

LEMMA Turns ==
  ASSUME RunTypes, LogTypes, Flow, Conserved, Bus, Trail, Whole, NEW p \in Carrying, p \notin doomed
  PROVE  Timely(Said(p))
<1>1. PICK r \in Runs, x \in Steps \cup {0} : p = <<r, x>>
  BY DEF Carrying, Producers
<1>2. \A s \in PlanSteps(r) : TrailOf(r, s)
  BY DEF Trail
<1>3. \A k, s : /\ Event(k, r, s).kind = k /\ Event(k, r, s).run = r /\ Event(k, r, s).step = s
  BY DEF Event
<1>4. MainBus(r) /\ (\A s \in Steps : TaskBus(r, s)) /\ pub[p] # NoEvent
  BY DEF Bus, BusOf, Carrying
<1>5. CASE x = 0
  <2>1. CASE Said(p).step = 0
    BY <2>1 DEF Timely
  <2>2. CASE Said(p).step # 0
    <3>1. \/ \E s \in PlanSteps(r) : Said(p) = Event("StepScheduled", r, s) /\ task[<<r, s>>] = "scheduled"
          \/ \E s \in PlanSteps(r) : Said(p) = Event("StepCancelled", r, s)
          \/ \E s \in PlanSteps(r) : Said(p) = Event("StepFailed", r, s) /\ r \in session.stuck
      BY <1>1, <1>4, <1>5, <2>2, MainSaid DEF MainSaysOf
    <3>2. ASSUME NEW s \in PlanSteps(r), Said(p) = Event("StepScheduled", r, s), task[<<r, s>>] = "scheduled"
          PROVE  Timely(Said(p))
      <4>1. /\ Seen(r, s) = {} \cap Scope(r, s)
            /\ "StepScheduled" \in DOMAIN Before(r, s) /\ {} \in Before(r, s)["StepScheduled"]
        BY <1>2, <3>2 DEF TrailOf, Before
      <4> QED
        BY <3>2, <4>1, TimelyIf
    <3>3. ASSUME NEW s \in PlanSteps(r), Said(p) = Event("StepCancelled", r, s)
          PROVE  Timely(Said(p))
      <4>1. Seen(r, s) \cap Ends = {}
        BY <1>1, <1>2, <1>5, <3>3 DEF TrailOf
      <4> QED
        BY <3>3, <4>1, TimelyCancelled
    <3>4. ASSUME NEW s \in PlanSteps(r), Said(p) = Event("StepFailed", r, s), r \in session.stuck
          PROVE  Timely(Said(p))
      <4>1. /\ Seen(r, s) = {} \cap Scope(r, s)
            /\ "StepFailed" \in DOMAIN Before(r, s) /\ {} \in Before(r, s)["StepFailed"]
        BY <1>1, <1>2, <1>5, <3>4 DEF TrailOf, Before
      <4> QED
        BY <3>4, <4>1, TimelyIf
    <3> QED
      BY <3>1, <3>2, <3>3, <3>4
  <2> QED
    BY <2>1, <2>2
<1>6. CASE x \in Steps
  <2> DEFINE state == task[<<r, x>>]
  <2>1. state \in {"started", "calling", "succeeded", "failed", "ending"} /\ x \in PlanSteps(r)
    BY <1>1, <1>4, <1>6 DEF TaskBus, RunTypes, TaskStates, StepsOf
  <2>2. TrailOf(r, x) /\ TaskBus(r, x)
    BY <1>2, <1>4, <1>6, <2>1
  <2>3. CASE state \in {"started", "calling", "succeeded", "failed"}
    <3>1. PICK k \in {"StepStarted", "ToolStarted", "ToolFinished", "ToolFailed"} :
              /\ Said(p) = Event(k, r, x)
              /\ k = "StepStarted" => Seen(r, x) = {"StepScheduled"} \cap Scope(r, x)
              /\ k = "ToolStarted" => Seen(r, x) = Begun \cap Scope(r, x)
              /\ k \in {"ToolFinished", "ToolFailed"} => Seen(r, x) = Called(r, x) \cap Scope(r, x)
              /\ k # "StepStarted" => HasTool(r, x)
      BY <1>1, <2>2, <2>3 DEF TrailOf, TaskBus
    <3>2. /\ k \in DOMAIN Before(r, x) /\ Before(r, x)["StepStarted"] = {{"StepScheduled"}} /\ Before(r, x)["ToolStarted"] = {Begun}
          /\ Before(r, x)["ToolFinished"] = {Called(r, x)} /\ Before(r, x)["ToolFailed"] = {Called(r, x)}
      BY DEF Before, Begun, Called
    <3>3. \E kinds \in Before(r, x)[k] : Seen(r, x) = kinds \cap Scope(r, x)
      BY <3>1, <3>2
    <3> QED
      BY <3>1, <3>2, <3>3, TimelyIf
  <2>4. CASE state = "ending"
    <3>1. PICK k \in Ends : /\ Said(p) = Event(k, r, x)
                            /\ live[r][x] = (IF k = "StepFinished" THEN "completed"
                                             ELSE IF k = "StepFailed" THEN "failed" ELSE "cancelled")
      BY <1>1, <2>2, <2>4 DEF TaskBus, Ends
    <3>2. PICK kinds \in Ended(r, x, live[r][x]) : Seen(r, x) = kinds \cap Scope(r, x)
      BY <1>1, <2>2, <2>4 DEF TrailOf
    <3>3. CASE k = "StepCancelled"
      <4>1. Seen(r, x) \cap Ends = {}
        BY <3>1, <3>2, <3>3 DEF Ended, Ends
      <4> QED
        BY <3>1, <3>3, <4>1, TimelyCancelled
    <3>4. CASE k # "StepCancelled"
      <4>1. k \in DOMAIN Before(r, x) /\ kinds \in Before(r, x)[k]
        BY <3>1, <3>2, <3>4 DEF Ended, Ends, Before, Begun, Called, ToolEnded
      <4> QED
        BY <3>1, <3>2, <3>4, <4>1, TimelyIf DEF Ends
    <3> QED
      BY <3>3, <3>4
  <2> QED
    BY <2>1, <2>3, <2>4
<1> QED
  BY <1>5, <1>6

\* A record in which each event comes in its turn, with one more event.
LEMMA OrderKept ==
  ASSUME LogTypes, Conserved, Whole, StepsInOrder, NEW p \in Producers, recorded' = RecordedAfter(p),
         p \in Carrying => Timely(Said(p)), session' = session, bound' = bound
  PROVE  StepsInOrder'
<1>1. recorded \in Seq(Events) /\ Len(recorded) \in Nat /\ DOMAIN recorded = 1..Len(recorded)
  BY LenProperties DEF LogTypes
<1> DEFINE Place(i) == InTurn(recorded'[i], KindsOf(recorded', i - 1, recorded'[i].run, recorded'[i].step))
<1>2. SUFFICES ASSUME NEW i \in DOMAIN recorded', recorded'[i].step # 0 PROVE Place(i)
  <2>1. /\ \A r, s : HasTool(r, s)' = HasTool(r, s) /\ Before(r, s)' = Before(r, s)
        /\ \A e, kinds : {k \in kinds : InScope(Event(k, e.run, e.step))'} =
                          {k \in kinds : InScope(Event(k, e.run, e.step))}
    BY DEF HasTool, Before, InScope
  <2> QED
    BY <2>1 DEF StepsInOrder, InTurn
<1>3. ASSUME i \in DOMAIN recorded, \A j \in 1..Len(recorded) : recorded'[j] = recorded[j]
      PROVE  Place(i)
  <2>1. recorded'[i] = recorded[i]
    BY <1>1, <1>3
  <2>2. ASSUME NEW r, NEW s PROVE KindsOf(recorded', i - 1, r, s) = KindsOf(recorded, i - 1, r, s)
    <3>1. \A j \in 1..(i - 1) : recorded'[j] = recorded[j]
      BY <1>1, <1>3
    <3>2. {j \in 1..(i - 1) : recorded'[j].run = r /\ recorded'[j].step = s} =
          {j \in 1..(i - 1) : recorded[j].run = r /\ recorded[j].step = s}
      BY <3>1
    <3> QED
      BY <3>1, <3>2 DEF KindsOf
  <2> QED
    BY <1>2, <1>3, <2>1, <2>2 DEF StepsInOrder
<1>4. CASE recorded' = recorded
  BY <1>1, <1>2, <1>3, <1>4
<1>5. CASE recorded' # recorded
  <2>1. p \in Carrying /\ Said(p) \in Events /\ pub[p].copies = 1 /\ recorded' = recorded \o Copies(Said(p), 1)
    <3>1. /\ p \in Carrying /\ Said(p) \in Events /\ pub[p].copies \in 1..recorders
          /\ recorded' = recorded \o Copies(Said(p), pub[p].copies)
      BY <1>5, Recorded
    <3>2. recorders = 1
      BY DEF Whole
    <3>3. pub[p].copies = 1
      BY <3>1, <3>2
    <3> QED
      BY <3>1, <3>3
  <2>2. Grows(recorded, recorded', Said(p), 1)
    BY <1>1, <2>1, Appended
  <2>3. /\ DOMAIN recorded' = 1..(Len(recorded) + 1)
        /\ \A j \in 1..Len(recorded) : recorded'[j] = recorded[j]
        /\ recorded'[Len(recorded) + 1] = Said(p)
    BY <1>1, <2>2 DEF Grows
  <2>4. CASE i = Len(recorded) + 1
    <3>1. i - 1 = Len(recorded) /\ recorded'[i] = Said(p)
      BY <1>1, <2>3, <2>4
    <3>2. \A r, s : KindsOf(recorded', i - 1, r, s) = Seen(r, s)
      BY <1>1, <2>3, <3>1 DEF KindsOf, Seen
    <3> QED
      BY <1>2, <2>1, <3>1, <3>2 DEF Timely
  <2> QED
    BY <1>1, <1>3, <2>3, <2>4
<1> QED
  BY <1>4, <1>5

\* The life of a step depends on its tool, which it keeps.
LEMMA SameLives ==
  ASSUME session' = session
  PROVE  \A r, s : /\ HasTool(r, s)' = HasTool(r, s) /\ Called(r, s)' = Called(r, s)
                   /\ \A k : ToolEnded(r, s, k)' = ToolEnded(r, s, k)
                   /\ \A x : x' = x => Ended(r, s, x)' = Ended(r, s, x)
                   /\ live'[r][s] = live[r][s] => Ended(r, s, live[r][s])' = Ended(r, s, live[r][s])
  BY DEF HasTool, Called, ToolEnded, Ended

\* What is recorded keeps to the order of the steps.
LEMMA TrailOther ==
  ASSUME NEW r \in Runs, NEW s, TrailOf(r, s),
         session' = session, task'[<<r, s>>] = task[<<r, s>>], live'[r][s] = live[r][s],
         Said(<<r, 0>>)' = Said(<<r, 0>>), <<r, s>> \in doomed => <<r, s>> \in doomed',
         Seen(r, s)' = Seen(r, s), Scope(r, s)' = Scope(r, s)
  PROVE  TrailOf(r, s)'
<1>1. Called(r, s)' = Called(r, s) /\ Ended(r, s, live[r][s])' = Ended(r, s, live[r][s])
  BY SameLives
<1> QED
  BY <1>1 DEF TrailOf

\* What the coroutine of a run adds to the record of a step when it goes on.
MainAdd(r, s) ==
    LET more == Adds(<<r, 0>>, r, s) IN
    \/ more = {} /\ task[<<r, s>>] # "scheduled"
    \/ more = {"StepScheduled"} /\ task[<<r, s>>] = "scheduled" /\ live[r][s] = "running"
    \/ /\ more = {"StepCancelled"} /\ live[r][s] = "cancelled" /\ task[<<r, s>>] # "scheduled"
       /\ <<r, s>> \notin doomed => task[<<r, s>>] \in {"none", "done"}
    \/ more = {"StepFailed"} /\ live[r][s] = "failed" /\ task[<<r, s>>] = "none"

LEMMA MainAdds ==
  ASSUME RunTypes, LogTypes, Flow, Bus, Fresh, NEW r \in Runs, NEW s \in PlanSteps(r), TrailOf(r, s)
  PROVE  MainAdd(r, s)
<1> DEFINE t == <<r, s>>
           m == <<r, 0>>
<1>1. /\ s \in Steps /\ s # 0 /\ t \in Producers /\ m \in Producers /\ t # m
      /\ {"StepScheduled", "StepCancelled", "StepFailed"} \subseteq Kinds
  BY StepsArePlanned, StepsAssumption DEF Producers, Kinds, ReplayKinds, StepKinds
<1>2. /\ task[t] = "scheduled" => Said(m) = Event("StepScheduled", r, s) /\ Publishing(r) = "StepScheduled"
      /\ Active(t) => live[r][s] = "running"
      /\ t \in doomed => task[t] # "scheduled"
  BY <1>1 DEF TrailOf, Flow, FlowOf
<1>3. MainBus(r) /\ TaskBus(r, s)
  BY <1>1 DEF Bus, BusOf
<1>4. Publishing(r) = Said(m).kind /\ \A k, u : Event(k, r, u).kind = k /\ Event(k, r, u).step = u
  BY DEF Publishing, Said, Event
<1>5. CASE m \in Carrying /\ Said(m) = Event("StepScheduled", r, s) /\ task[t] = "scheduled"
  <2>1. Adds(m, r, s) = {"StepScheduled"}
    BY <1>1, <1>5, AddsKind, InEveryScope DEF StepKinds
  <2>2. live[r][s] = "running"
    BY <1>2, <1>5 DEF Active
  <2> QED
    BY <1>5, <2>1, <2>2 DEF MainAdd
<1>6. CASE m \in Carrying /\ Said(m) = Event("StepCancelled", r, s) /\ live[r][s] = "cancelled"
  <2>1. Adds(m, r, s) = {"StepCancelled"}
    BY <1>1, <1>6, AddsKind, InEveryScope DEF StepKinds
  <2>2. task[t] # "scheduled"
    BY <1>2, <1>4, <1>6
  <2>3. ASSUME t \notin doomed PROVE task[t] \in {"none", "done"}
    <3>1. ~Active(t)
      BY <1>2, <1>6
    <3>2. task[t] \in TaskStates
      BY <1>1 DEF RunTypes, StepsOf
    <3>3. CASE task[t] = "ending"
      <4>1. Said(t) = Event("StepCancelled", r, s)
        BY <1>3, <1>6, <3>3 DEF TaskBus
      <4>2. t \in Carrying
        BY <1>1, <1>4, <4>1, NoEventApart DEF Carrying, Said
      <4> QED
        BY <1>1, <1>6, <4>1, <4>2 DEF Fresh
    <3> QED
      BY <2>3, <3>1, <3>2, <3>3 DEF Active, TaskStates
  <2> QED
    BY <1>6, <2>1, <2>2, <2>3 DEF MainAdd
<1>9. CASE m \in Carrying /\ Said(m) = Event("StepFailed", r, s) /\ live[r][s] = "failed" /\ task[t] = "none"
  <2>1. Adds(m, r, s) = {"StepFailed"}
    BY <1>1, <1>9, AddsKind, InEveryScope DEF StepKinds
  <2> QED
    BY <1>9, <2>1 DEF MainAdd
<1>7. CASE m \notin Carrying \/ Said(m).step # s
  <2>1. Adds(m, r, s) = {}
    BY <1>7 DEF Adds
  <2>2. task[t] # "scheduled"
    <3>1. SUFFICES ASSUME task[t] = "scheduled" PROVE FALSE
      OBVIOUS
    <3>2. Said(m).step = s /\ Said(m).kind = "StepScheduled"
      BY <1>2, <1>4, <3>1
    <3>3. m \in Carrying
      BY <1>1, <3>2, NoEventApart DEF Carrying, Said
    <3> QED
      BY <1>7, <3>2, <3>3
  <2> QED
    BY <2>1, <2>2 DEF MainAdd
<1>8. CASE m \in Carrying /\ Said(m).step = s
  <2>1. \/ \E u \in PlanSteps(r) : Said(m) = Event("StepScheduled", r, u) /\ task[<<r, u>>] = "scheduled"
        \/ \E u \in PlanSteps(r) : Said(m) = Event("StepCancelled", r, u) /\ live[r][u] = "cancelled"
        \/ \E u \in PlanSteps(r) : Said(m) = Event("StepFailed", r, u) /\ live[r][u] = "failed" /\ task[<<r, u>>] = "none"
    BY <1>1, <1>8, MainSaid DEF MainSaysOf, Carrying
  <2>2. \A k, u : Said(m) = Event(k, r, u) => u = s
    BY <1>4, <1>8
  <2> HIDE DEF m, t
  <2>3. CASE \E u \in PlanSteps(r) : Said(m) = Event("StepScheduled", r, u) /\ task[<<r, u>>] = "scheduled"
    BY <1>5, <1>8, <2>2, <2>3 DEF t
  <2>4. CASE \E u \in PlanSteps(r) : Said(m) = Event("StepCancelled", r, u) /\ live[r][u] = "cancelled"
    BY <1>6, <1>8, <2>2, <2>4
  <2>5. CASE \E u \in PlanSteps(r) : Said(m) = Event("StepFailed", r, u) /\ live[r][u] = "failed" /\ task[<<r, u>>] = "none"
    BY <1>8, <1>9, <2>2, <2>5 DEF t
  <2> QED
    BY <2>1, <2>3, <2>4, <2>5
<1> QED
  BY <1>7, <1>8

\* A step that the coroutine does not launch or cancel when it goes on.
LEMMA TrailMain ==
  ASSUME NEW r \in Runs, NEW s, TrailOf(r, s), MainAdd(r, s),
         Seen(r, s)' = Seen(r, s) \cup Adds(<<r, 0>>, r, s), Scope(r, s)' = Scope(r, s),
         live'[r][s] = live[r][s], <<r, s>> \in doomed => <<r, s>> \in doomed',
         task'[<<r, s>>] = IF task[<<r, s>>] = "scheduled" THEN "created" ELSE task[<<r, s>>],
         Said(<<r, 0>>)' \notin {Event("StepCancelled", r, s), Event("StepFailed", r, s)},
         session' = session
  PROVE  TrailOf(r, s)'
<1> DEFINE more == Adds(<<r, 0>>, r, s)
<1>5. Called(r, s)' = Called(r, s) /\ Ended(r, s, live[r][s])' = Ended(r, s, live[r][s])
  BY SameLives
<1>1. CASE more = {} /\ task[<<r, s>>] # "scheduled"
  BY <1>1, <1>5 DEF TrailOf
<1>2. CASE more = {"StepScheduled"} /\ task[<<r, s>>] = "scheduled" /\ live[r][s] = "running"
  <2>1. Seen(r, s)' = {"StepScheduled"} \cap Scope(r, s) /\ Seen(r, s)' \cap Ends = {}
    <3>1. Seen(r, s) = {}
      BY <1>2 DEF TrailOf
    <3> QED
      BY <1>2, <3>1, InEveryScope DEF StepKinds, Ends
  <2> QED
    BY <1>2, <2>1 DEF TrailOf
<1>3. CASE /\ more = {"StepCancelled"} /\ live[r][s] = "cancelled" /\ task[<<r, s>>] # "scheduled"
           /\ <<r, s>> \notin doomed => task[<<r, s>>] \in {"none", "done"}
  BY <1>3 DEF TrailOf
<1>4. CASE more = {"StepFailed"} /\ live[r][s] = "failed" /\ task[<<r, s>>] = "none"
  BY <1>4 DEF TrailOf
<1> QED
  BY <1>1, <1>2, <1>3, <1>4 DEF MainAdd

\* A producer publishes events of its own run, a task those of its step.
LEMMA AddsOwn ==
  ASSUME RunTypes, Bus, NEW r \in Runs, NEW x \in Steps \cup {0}
  PROVE  /\ \A q, u : q # r => Adds(<<r, x>>, q, u) = {}
         /\ x # 0 => \A u : u # x => Adds(<<r, x>>, r, u) = {}
<1>1. \A k, s : Event(k, r, s).run = r /\ Event(k, r, s).step = s
  BY DEF Event
<1>2. ASSUME <<r, x>> \in Carrying PROVE Said(<<r, x>>).run = r /\ (x # 0 => Said(<<r, x>>).step = x)
  <2>1. MainBus(r) /\ \A s \in Steps : TaskBus(r, s)
    BY DEF Bus, BusOf
  <2>2. main[r] \in MainStates /\ \A s \in Steps : task[<<r, s>>] \in TaskStates
    BY DEF RunTypes, StepsOf
  <2>3. CASE x = 0
    <3>1. pub[<<r, 0>>] # NoEvent
      BY <1>2, <2>3 DEF Carrying
    <3>2. \E k, s : Said(<<r, 0>>) = Event(k, r, s)
      <4>1. CASE main[r] \in {"loop", "cancelling", "deadlocked"}
        BY <2>1, <3>1, <4>1 DEF MainBus
      <4>2. CASE main[r] \notin {"loop", "cancelling", "deadlocked"}
        BY <2>1, <2>2, <3>1, <4>2 DEF MainBus, MainStates, Idle
      <4> QED
        BY <4>1, <4>2
    <3> QED
      BY <1>1, <2>3, <3>2
  <2>4. CASE x \in Steps
    BY <1>1, <1>2, <2>1, <2>2, <2>4 DEF TaskBus, TaskStates, Carrying
  <2> QED
    BY <2>3, <2>4
<1> QED
  BY <1>2 DEF Adds

\* What the task of a step adds to its record when it goes on, and what is recorded
\* of the step then.
LEMMA TaskAdds ==
  ASSUME RunTypes, LogTypes, Bus, NEW r \in Runs, NEW s \in PlanSteps(r), Trail, Whole, <<r, s>> \notin doomed
  PROVE  LET state == task[<<r, s>>]
             all == Seen(r, s) \cup Adds(<<r, s>>, r, s)
         IN /\ state = "created" => all = {"StepScheduled"} \cap Scope(r, s)
            /\ state = "started" => all = Begun \cap Scope(r, s)
            /\ state \in {"calling", "executing"} => all = Called(r, s) \cap Scope(r, s)
            /\ state = "succeeded" => all = ToolEnded(r, s, "ToolFinished") \cap Scope(r, s)
            /\ state = "failed" => all = ToolEnded(r, s, "ToolFailed") \cap Scope(r, s)
<1> DEFINE t == <<r, s>>
<1>1. s \in Steps /\ t \in Producers
  BY StepsArePlanned DEF Producers
<1>2. TrailOf(r, s) /\ TaskBus(r, s)
  BY <1>1 DEF Trail, Bus, BusOf
<1>3. ASSUME NEW k \in Kinds, Said(t) = Event(k, r, s) PROVE Adds(t, r, s) = {k} \cap Scope(r, s)
  <2>1. Said(t).kind = k
    BY <1>3 DEF Event
  <2>2. t \in Carrying
    BY <1>1, <2>1, NoEventApart DEF Carrying, Said, Kinds, ReplayKinds, StepKinds
  <2> QED
    BY <1>1, <1>3, <2>2, AddsKind
<1>4. pub[t] = NoEvent => Adds(t, r, s) = {}
  BY AddsNothing DEF Carrying
<1>5. {"StepStarted", "ToolStarted", "ToolFinished", "ToolFailed"} \subseteq Kinds
  BY DEF Kinds, ReplayKinds, StepKinds
<1>6. task[t] = "calling" => Called(r, s) = Begun \cup {"ToolStarted"}
  BY <1>2 DEF Called, TaskBus
<1> HIDE DEF t
<1>7. CASE task[t] \in {"created", "executing"}
  BY <1>2, <1>4, <1>7 DEF t, TrailOf, TaskBus
<1>8. CASE task[t] \in {"started", "calling"}
  <2>1. PICK k \in {"StepStarted", "ToolStarted"} :
            /\ Said(t) = Event(k, r, s)
            /\ task[t] = "started" => k = "StepStarted" /\ Seen(r, s) = {"StepScheduled"} \cap Scope(r, s)
            /\ task[t] = "calling" => k = "ToolStarted" /\ Seen(r, s) = Begun \cap Scope(r, s)
    BY <1>2, <1>8 DEF t, TrailOf, TaskBus
  <2>2. Adds(t, r, s) = {k} \cap Scope(r, s)
    BY <1>3, <1>5, <2>1
  <2> QED
    BY <1>6, <1>8, <2>1, <2>2 DEF t, Begun
<1>9. CASE task[t] \in {"succeeded", "failed"}
  <2>1. PICK k \in {"ToolFinished", "ToolFailed"} :
            /\ Said(t) = Event(k, r, s) /\ Seen(r, s) = Called(r, s) \cap Scope(r, s)
            /\ HasTool(r, s)
            /\ task[t] = "succeeded" => k = "ToolFinished"
            /\ task[t] = "failed" => k = "ToolFailed"
    BY <1>2, <1>9 DEF t, TrailOf, TaskBus
  <2>2. Adds(t, r, s) = {k} \cap Scope(r, s)
    BY <1>3, <1>5, <2>1
  <2> QED
    BY <1>9, <2>1, <2>2 DEF t, ToolEnded
<1> QED
  BY <1>7, <1>8, <1>9 DEF t

\* While the task of a step publishes or works, the coroutine neither cancels nor
\* fails the step.
LEMMA OneSpeaks ==
  ASSUME RunTypes, LogTypes, Flow, Bus, Fresh, NEW r \in Runs, NEW s \in PlanSteps(r),
         <<r, s>> \notin doomed, task[<<r, s>>] \notin {"none", "done"}
  PROVE  Said(<<r, 0>>) \notin {Event("StepCancelled", r, s), Event("StepFailed", r, s)}
<1>1. /\ s \in Steps /\ s # 0 /\ <<r, s>> \in Producers /\ <<r, 0>> \in Producers
  BY StepsArePlanned, StepsAssumption DEF Producers
<1>2. \A k : Event(k, r, s).kind = k
  BY DEF Event
<1>8. Said(<<r, 0>>) # Event("StepFailed", r, s)
  BY <1>2, MainSaidOf DEF MainSaysOf
<1> SUFFICES ASSUME Said(<<r, 0>>) = Event("StepCancelled", r, s) PROVE FALSE
  BY <1>8
<1>3. <<r, 0>> \in Carrying
  BY <1>1, <1>2, NoEventApart DEF Carrying, Said
<1>4. live[r][s] = "cancelled"
  BY <1>2, MainSaidOf DEF MainSaysOf
<1>5. task[<<r, s>>] = "ending"
  <2>1. ~Active(<<r, s>>) /\ task[<<r, s>>] \in TaskStates
    BY <1>1, <1>4 DEF Flow, FlowOf, RunTypes, StepsOf
  <2> QED
    BY <2>1 DEF Active, TaskStates
<1>6. Said(<<r, s>>) = Event("StepCancelled", r, s)
  BY <1>1, <1>4, <1>5 DEF Bus, BusOf, TaskBus
<1>7. <<r, s>> \in Carrying
  BY <1>1, <1>2, <1>6, NoEventApart DEF Carrying, Said
<1> QED
  BY <1>1, <1>3, <1>6, <1>7 DEF Fresh

LEMMA OrderIsKept ==
  ASSUME RunTypes, LogTypes, Flow, Conserved, Bus, Fresh, Trail, StepsInOrder, [Next]_vars
  PROVE  Trail' /\ StepsInOrder'
<1> SUFFICES ASSUME Whole' PROVE Trail' /\ StepsInOrder'
  BY DEF Trail, StepsInOrder
<1>1. /\ \A q \in Runs : \A s \in PlanSteps(q) : s \in Steps /\ s # 0 /\ TrailOf(q, s)
      /\ \A q \in Runs : \A x \in Steps \cup {0} : <<q, x>> \in Producers
      /\ \A q \in Runs : <<q, 0>> \notin doomed
  BY StepsArePlanned, StepsAssumption, WholeBefore DEF Trail, Producers, RunTypes, StepsOf
<1>2. Whole /\ bound' = bound /\ \A r, s : Scope(r, s)' = Scope(r, s)
  BY WholeBefore
<1>3. ASSUME NEW r \in Runs, NEW x \in Steps \cup {0}, <<r, x>> \notin doomed,
             recorded' = RecordedAfter(<<r, x>>), session' = session, doomed \subseteq doomed',
             \A q \in Runs \ {r} : /\ live'[q] = live[q] /\ pub'[<<q, 0>>] = pub[<<q, 0>>]
                                   /\ \A u \in Steps : task'[<<q, u>>] = task[<<q, u>>],
             \A u \in PlanSteps(r) : TrailOf(r, u)'
      PROVE  Trail' /\ StepsInOrder'
  <2>1. StepsInOrder'
    <3>1. <<r, x>> \in Carrying => Timely(Said(<<r, x>>))
      BY <1>2, <1>3, Turns
    <3> QED
      BY <1>1, <1>2, <1>3, <3>1, OrderKept
  <2>2. ASSUME NEW q \in Runs \ {r}, NEW u \in PlanSteps(q) PROVE TrailOf(q, u)'
    <3>1. Seen(q, u)' = Seen(q, u)
      <4>1. Seen(q, u)' = Seen(q, u) \cup Adds(<<r, x>>, q, u) /\ Adds(<<r, x>>, q, u) = {}
        BY <1>1, <1>2, <1>3, SeenGrows, AddsOwn
      <4> QED
        BY <4>1
    <3>2. Said(<<q, 0>>)' = Said(<<q, 0>>)
      BY <1>3 DEF Said
    <3> QED
      BY <1>1, <1>2, <1>3, <3>1, <3>2, TrailOther
  <2>3. \A q \in Runs : PlanSteps(q)' = PlanSteps(q)
    BY <1>3 DEF PlanSteps
  <2> QED
    BY <1>3, <2>1, <2>2, <2>3 DEF Trail
<1>4. ASSUME NEW r \in Runs, NEW u \in PlanSteps(r), recorded' = RecordedAfter(<<r, 0>>)
      PROVE  MainAdd(r, u) /\ Seen(r, u)' = Seen(r, u) \cup Adds(<<r, 0>>, r, u)
  BY <1>1, <1>2, <1>4, MainAdds, SeenGrows
<1>5. \A k, r, s : Event(k, r, s).kind = k /\ Event(k, r, s).run = r /\ Event(k, r, s).step = s
  BY DEF Event
<1>10. \A r \in Runs : <<r, 0>> \in Producers
  BY <1>1
<1>6. ASSUME NEW r \in Runs,
             Begin(r) \/ Receive(r) \/ Recall(r) \/ CreatePlan(r) \/ Answer(r) \/ Close(r)
      PROVE  Trail' /\ StepsInOrder'
  <2>1. PICK k \in Kinds, n \in MainStates :
              /\ MainMove(r, k, n) /\ Publish(<<r, 0>>, Event(k, r, 0), live)
              /\ pub' = [pub EXCEPT ![<<r, 0>>] = [event |-> Event(k, r, 0), copies |-> recorders]]
    BY <1>6, MainSays
  <2>2. /\ main[r] \in {"loop", "cancelling", "deadlocked"} => PlanResolved(r)
        /\ live' = live /\ UNCHANGED <<session, task, doomed>>
    BY <1>6, MainSays
  <2>3. /\ Said(<<r, 0>>)' = Event(k, r, 0) /\ recorded' = RecordedAfter(<<r, 0>>)
        /\ \A o \in Producers \ {<<r, 0>>} : pub'[o] = pub[o]
    BY <1>10, <2>1 DEF Publish, Said, LogTypes
  <2>4. ASSUME NEW u \in PlanSteps(r) PROVE TrailOf(r, u)'
    <3>1. task[<<r, u>>] # "scheduled"
      <4>1. task[<<r, u>>] = "scheduled" => main[r] = "loop" /\ live[r][u] = "running"
        BY <1>1 DEF Flow, FlowOf, Active
      <4> QED
        BY <2>2, <4>1 DEF PlanResolved, Resolved
    <3>2. Said(<<r, 0>>)' \notin {Event("StepCancelled", r, u), Event("StepFailed", r, u)}
      BY <1>1, <1>5, <2>3
    <3>3. MainAdd(r, u) /\ Seen(r, u)' = Seen(r, u) \cup Adds(<<r, 0>>, r, u)
      BY <1>4, <2>3
    <3> QED
      BY <1>1, <1>2, <2>2, <3>1, <3>2, <3>3, TrailMain
  <2>5. \A q \in Runs \ {r} : pub'[<<q, 0>>] = pub[<<q, 0>>]
    BY <1>1, <2>3
  <2> QED
    BY <1>1, <1>3, <2>2, <2>3, <2>4, <2>5
<1>7. ASSUME NEW r \in Runs, NEW s \in PlanSteps(r), Launch(r, s) PROVE Trail' /\ StepsInOrder'
  <2>1. /\ live[r][s] = "pending" /\ UNCHANGED <<session, doomed>>
        /\ \A q \in Runs : \A u \in Steps : task'[<<q, u>>] = TaskAfter(r, s, q, u)
    BY <1>7, Launches
  <2>2. /\ pub' = [pub EXCEPT ![<<r, 0>>] = [event |-> Event("StepScheduled", r, s), copies |-> recorders]]
        /\ \A q \in Runs \ {r} : live'[q] = live[q]
        /\ \A u \in PlanSteps(r) : live'[r][u] = IF u = s THEN "running" ELSE live[r][u]
    BY <1>7, Launches DEF StepSaid
  <2>3. /\ Said(<<r, 0>>)' = Event("StepScheduled", r, s)
        /\ \A o \in Producers \ {<<r, 0>>} : pub'[o] = pub[o]
    BY <1>10, <2>2 DEF Said, LogTypes
  <2>4. recorded' = RecordedAfter(<<r, 0>>)
    BY <1>7 DEF Launch, PublishStep, Publish
  <2>5. task[<<r, s>>] = "none"
    BY <2>1 DEF Bus, BusOf, PlanStatuses
  <2>6. ASSUME NEW u \in PlanSteps(r) PROVE TrailOf(r, u)'
    <3>1. MainAdd(r, u) /\ Seen(r, u)' = Seen(r, u) \cup Adds(<<r, 0>>, r, u)
      BY <1>4, <2>4
    <3>2. Said(<<r, 0>>)' \notin {Event("StepCancelled", r, u), Event("StepFailed", r, u)}
      BY <1>5, <2>3
    <3>3. CASE u # s
      <4>1. live'[r][u] = live[r][u]
        BY <2>2, <3>3
      <4>2. task'[<<r, u>>] = IF task[<<r, u>>] = "scheduled" THEN "created" ELSE task[<<r, u>>]
        BY <1>1, <2>1, <3>3 DEF TaskAfter
      <4> QED
        BY <1>1, <1>2, <2>1, <3>1, <3>2, <4>1, <4>2, TrailMain
    <3>4. CASE u = s
      <4>1. Adds(<<r, 0>>, r, s) = {}
        BY <2>1, <2>5, <3>1, <3>4 DEF MainAdd
      <4>2. Seen(r, s) = {}
        <5>1. TrailOf(r, s)
          BY <1>1
        <5>2. Seen(r, s) = {} \cap Scope(r, s)
          BY <2>1, <5>1 DEF TrailOf
        <5> QED
          BY <5>2
      <4>3. Seen(r, s)' = {} /\ task'[<<r, s>>] = "scheduled" /\ live'[r][s] = "running"
        BY <1>1, <2>1, <2>2, <3>1, <3>4, <4>1, <4>2 DEF TaskAfter
      <4> QED
        BY <2>3, <3>4, <4>3 DEF TrailOf
    <3> QED
      BY <3>3, <3>4
  <2>7. \A q \in Runs \ {r} : \A u \in Steps : task'[<<q, u>>] = task[<<q, u>>]
    BY <2>1 DEF TaskAfter
  <2>8. \A q \in Runs \ {r} : pub'[<<q, 0>>] = pub[<<q, 0>>]
    BY <1>1, <2>3
  <2> QED
    BY <1>1, <1>3, <2>1, <2>2, <2>4, <2>6, <2>7, <2>8
<1>8. ASSUME NEW r \in Runs, NEW s \in PlanSteps(r), Skip(r, s) \/ CancelStep(r, s)
      PROVE  Trail' /\ StepsInOrder'
  <2>1. /\ StepSaid(<<r, 0>>, "StepCancelled", r, s, "cancelled")
        /\ live[r][s] \in {"pending", "running"} /\ UNCHANGED <<session, task>>
        /\ \A u \in Steps : task[<<r, u>>] # "scheduled"
        /\ doomed \subseteq doomed'
        /\ task[<<r, s>>] \in {"none", "done"} \/ <<r, s>> \in doomed'
    <3>1. CASE Skip(r, s)
      <4>1. live[r][s] = "pending" => task[<<r, s>>] = "none"
        BY DEF Bus, BusOf, PlanStatuses
      <4> QED
        BY <3>1, <4>1, Skips DEF runVars
    <3>2. CASE CancelStep(r, s)
      <4>1. doomed \subseteq doomed'
        BY <3>2 DEF CancelStep
      <4>2. task[<<r, s>>] \in {"none", "done"} \/ <<r, s>> \in doomed'
        BY <1>1, <3>2, Cancels
      <4> QED
        BY <3>2, <4>1, <4>2, Cancels
    <3> QED
      BY <1>8, <3>1, <3>2
  <2>2. /\ pub' = [pub EXCEPT ![<<r, 0>>] = [event |-> Event("StepCancelled", r, s), copies |-> recorders]]
        /\ \A q \in Runs \ {r} : live'[q] = live[q]
        /\ \A u \in PlanSteps(r) : live'[r][u] = IF u = s THEN "cancelled" ELSE live[r][u]
    BY <2>1 DEF StepSaid
  <2>3. /\ Said(<<r, 0>>)' = Event("StepCancelled", r, s)
        /\ \A o \in Producers \ {<<r, 0>>} : pub'[o] = pub[o]
    BY <1>10, <2>2 DEF Said, LogTypes
  <2>4. recorded' = RecordedAfter(<<r, 0>>)
    BY <1>8 DEF Skip, CancelStep, PublishStep, Publish
  <2>5. ASSUME NEW u \in PlanSteps(r) PROVE TrailOf(r, u)'
    <3>1. MainAdd(r, u) /\ Seen(r, u)' = Seen(r, u) \cup Adds(<<r, 0>>, r, u)
      BY <1>4, <2>4
    <3>2. CASE u # s
      <4>1. live'[r][u] = live[r][u]
        BY <2>2, <3>2
      <4>2. Said(<<r, 0>>)' \notin {Event("StepCancelled", r, u), Event("StepFailed", r, u)}
        BY <1>5, <2>3, <3>2
      <4> QED
        BY <1>1, <1>2, <2>1, <3>1, <4>1, <4>2, TrailMain
    <3>3. CASE u = s
      <4>1. Adds(<<r, 0>>, r, s) = {}
        BY <1>1, <2>1, <3>1, <3>3 DEF MainAdd
      <4>2. Seen(r, s) \cap Ends = {}
        BY <1>1, <2>1 DEF TrailOf
      <4>3. Seen(r, s)' = Seen(r, s) /\ live'[r][s] = "cancelled" /\ task'[<<r, s>>] = task[<<r, s>>]
        BY <2>1, <2>2, <3>1, <3>3, <4>1
      <4>4. task[<<r, s>>] # "scheduled" /\ Said(<<r, 0>>)' # Event("StepFailed", r, s)
        BY <1>1, <1>5, <2>1, <2>3
      <4> QED
        BY <2>1, <3>3, <4>2, <4>3, <4>4 DEF TrailOf
    <3> QED
      BY <3>2, <3>3
  <2>6. \A q \in Runs \ {r} : pub'[<<q, 0>>] = pub[<<q, 0>>]
    BY <1>1, <2>3
  <2> QED
    BY <1>1, <1>3, <2>1, <2>2, <2>4, <2>5, <2>6
<1>18. ASSUME NEW r \in Runs, NEW s \in PlanSteps(r), FailDeadlocked(r, s)
       PROVE  Trail' /\ StepsInOrder'
  <2>1. /\ StepSaid(<<r, 0>>, "StepFailed", r, s, "failed")
        /\ live[r][s] = "pending" /\ task[<<r, s>>] = "none" /\ UNCHANGED <<session, task, doomed>>
        /\ \A u \in Steps : task[<<r, u>>] # "scheduled"
    BY <1>18, Fails
  <2>2. /\ pub' = [pub EXCEPT ![<<r, 0>>] = [event |-> Event("StepFailed", r, s), copies |-> recorders]]
        /\ \A q \in Runs \ {r} : live'[q] = live[q]
        /\ \A u \in PlanSteps(r) : live'[r][u] = IF u = s THEN "failed" ELSE live[r][u]
    BY <2>1 DEF StepSaid
  <2>3. /\ Said(<<r, 0>>)' = Event("StepFailed", r, s)
        /\ \A o \in Producers \ {<<r, 0>>} : pub'[o] = pub[o]
    BY <1>10, <2>2 DEF Said, LogTypes
  <2>4. recorded' = RecordedAfter(<<r, 0>>)
    BY <1>18 DEF FailDeadlocked, PublishStep, Publish
  <2>5. ASSUME NEW u \in PlanSteps(r) PROVE TrailOf(r, u)'
    <3>1. MainAdd(r, u) /\ Seen(r, u)' = Seen(r, u) \cup Adds(<<r, 0>>, r, u)
      BY <1>4, <2>4
    <3>2. CASE u # s
      <4>1. live'[r][u] = live[r][u]
        BY <2>2, <3>2
      <4>2. Said(<<r, 0>>)' \notin {Event("StepCancelled", r, u), Event("StepFailed", r, u)}
        BY <1>5, <2>3, <3>2
      <4> QED
        BY <1>1, <1>2, <2>1, <3>1, <4>1, <4>2, TrailMain
    <3>3. CASE u = s
      <4>1. Adds(<<r, 0>>, r, s) = {}
        BY <1>1, <2>1, <3>1, <3>3 DEF MainAdd
      <4>2. Seen(r, s) = {} \cap Scope(r, s)
        BY <1>1, <2>1 DEF TrailOf
      <4>3. Seen(r, s)' = {} /\ live'[r][s] = "failed" /\ task'[<<r, s>>] = "none"
        BY <2>1, <2>2, <3>1, <3>3, <4>1, <4>2
      <4>4. Said(<<r, 0>>)' # Event("StepCancelled", r, s)
        BY <1>5, <2>3
      <4> QED
        BY <3>3, <4>3, <4>4 DEF TrailOf
    <3> QED
      BY <3>2, <3>3
  <2>6. \A q \in Runs \ {r} : pub'[<<q, 0>>] = pub[<<q, 0>>]
    BY <1>1, <2>3
  <2> QED
    BY <1>1, <1>3, <2>1, <2>2, <2>4, <2>5, <2>6
<1>9. ASSUME NEW r \in Runs, Wait(r) \/ End(r) PROVE Trail' /\ StepsInOrder'
  <2>1. /\ Return(<<r, 0>>) /\ UNCHANGED <<session, live, doomed>>
        /\ \A q \in Runs \ {r} : \A u \in Steps : task'[<<q, u>>] = task[<<q, u>>]
        /\ \A u \in Steps : task'[<<r, u>>] = IF task[<<r, u>>] = "scheduled" THEN "created" ELSE task[<<r, u>>]
    <3>1. CASE Wait(r)
      BY <3>1, Waits
    <3>2. CASE End(r)
      <4>1. \A u \in Steps : task[<<r, u>>] # "scheduled"
        BY <3>2 DEF End, Flow, FlowOf
      <4> QED
        BY <3>2, <4>1, RunEnds
    <3> QED
      BY <1>9, <3>1, <3>2
  <2>2. recorded' = RecordedAfter(<<r, 0>>) /\ pub'[<<r, 0>>] = NoEvent
        /\ \A q \in Runs \ {r} : pub'[<<q, 0>>] = pub[<<q, 0>>]
    BY <1>1, <2>1 DEF Return, LogTypes
  <2>3. ASSUME NEW u \in PlanSteps(r) PROVE TrailOf(r, u)'
    <3>1. MainAdd(r, u) /\ Seen(r, u)' = Seen(r, u) \cup Adds(<<r, 0>>, r, u)
      BY <1>4, <2>2
    <3>2. Said(<<r, 0>>)' \notin {Event("StepCancelled", r, u), Event("StepFailed", r, u)}
      BY <1>5, <2>2, NoEventApart DEF Said
    <3>3. /\ task'[<<r, u>>] = IF task[<<r, u>>] = "scheduled" THEN "created" ELSE task[<<r, u>>]
          /\ live'[r][u] = live[r][u] /\ doomed' = doomed
      BY <1>1, <2>1
    <3> QED
      BY <1>1, <1>2, <2>1, <3>1, <3>2, <3>3, TrailMain
  <2> QED
    BY <1>1, <1>3, <2>1, <2>2, <2>3
<1>11. ASSUME NEW r \in Runs, NEW s \in Steps, s \in PlanSteps(r), recorded' = RecordedAfter(<<r, s>>),
              <<r, s>> \notin doomed, doomed' = doomed, session' = session,
              \A q \in Runs : \A u \in Steps : q # r \/ u # s => task'[<<q, u>>] = task[<<q, u>>],
              \A q \in Runs \ {r} : live'[q] = live[q],
              \A u \in PlanSteps(r) : u # s => live'[r][u] = live[r][u],
              \A q \in Runs : pub'[<<q, 0>>] = pub[<<q, 0>>],
              TrailOf(r, s)'
       PROVE  Trail' /\ StepsInOrder'
  <2>1. ASSUME NEW u \in PlanSteps(r), u # s PROVE TrailOf(r, u)'
    <3>1. Seen(r, u)' = Seen(r, u)
      <4>1. Seen(r, u)' = Seen(r, u) \cup Adds(<<r, s>>, r, u) /\ Adds(<<r, s>>, r, u) = {}
        BY <1>1, <1>2, <1>11, <2>1, SeenGrows, AddsOwn
      <4> QED
        BY <4>1
    <3>2. Said(<<r, 0>>)' = Said(<<r, 0>>) /\ task'[<<r, u>>] = task[<<r, u>>] /\ live'[r][u] = live[r][u]
      BY <1>1, <1>11, <2>1 DEF Said
    <3> QED
      BY <1>1, <1>2, <1>11, <3>1, <3>2, TrailOther
  <2>2. \A u \in PlanSteps(r) : TrailOf(r, u)'
    BY <1>11, <2>1
  <2>3. \A q \in Runs \ {r} : \A u \in Steps : task'[<<q, u>>] = task[<<q, u>>]
    BY <1>11
  <2> QED
    BY <1>3, <1>11, <2>2, <2>3
<1>12. ASSUME NEW r \in Runs, NEW s \in Steps, Speaks(r, s)
       PROVE  Trail' /\ StepsInOrder'
  <2>1. /\ live[r][s] = "running" /\ s \in PlanSteps(r) /\ <<r, s>> \notin doomed
        /\ UNCHANGED <<session, doomed>>
    BY <1>12, TaskSays
  <2>2. PICK k \in Kinds, x \in Statuses, n \in TaskStates :
            /\ TaskMove(r, s, k, x, n) /\ StepSaid(<<r, s>>, k, r, s, x)
            /\ task' = [task EXCEPT ![<<r, s>>] = n] /\ task'[<<r, s>>] = n
    BY <1>12, TaskSays
  <2>3. /\ \A q \in Runs \ {r} : live'[q] = live[q]
        /\ \A u \in PlanSteps(r) : live'[r][u] = IF u = s THEN x ELSE live[r][u]
        /\ recorded' = RecordedAfter(<<r, s>>)
    BY <2>2 DEF StepSaid, Publish
  <2>4. \A q \in Runs : pub'[<<q, 0>>] = pub[<<q, 0>>]
    BY <1>1, <2>1, <2>2 DEF StepSaid, LogTypes
  <2>5. \A q \in Runs : \A u \in Steps : q # r \/ u # s => task'[<<q, u>>] = task[<<q, u>>]
    BY <2>2 DEF RunTypes, StepsOf
  <2>6. task[<<r, s>>] \notin {"none", "done"}
    BY <2>2 DEF TaskMove, WorkFrom
  <2>7. TrailOf(r, s)'
    <3>1. Seen(r, s)' = Seen(r, s) \cup Adds(<<r, s>>, r, s)
      BY <1>1, <1>2, <2>1, <2>3, SeenGrows
    <3>2. Said(<<r, 0>>)' \notin {Event("StepCancelled", r, s), Event("StepFailed", r, s)}
      BY <2>1, <2>4, <2>6, OneSpeaks DEF Said
    <3>3. live'[r][s] = x /\ Scope(r, s)' = Scope(r, s)
      BY <1>2, <2>1, <2>3
    <3>9. /\ Called(r, s)' = Called(r, s) /\ \A j : ToolEnded(r, s, j)' = ToolEnded(r, s, j)
          /\ Ended(r, s, x)' = Ended(r, s, x)
      BY <2>1 DEF HasTool, Called, ToolEnded, Ended
    <3>4. CASE task[<<r, s>>] = "created"
      <4>1. Seen(r, s)' = {"StepScheduled"} \cap Scope(r, s) /\ Seen(r, s)' \cap Ends = {}
        BY <1>2, <2>1, <3>1, <3>4, TaskAdds DEF Ends
      <4> QED
        BY <2>2, <3>2, <3>3, <3>4, <4>1 DEF TrailOf, TaskMove, WorkFrom, Ended
    <3>5. CASE task[<<r, s>>] = "started"
      <4>1. Seen(r, s)' = Begun \cap Scope(r, s) /\ Seen(r, s)' \cap Ends = {}
        BY <1>2, <2>1, <3>1, <3>5, TaskAdds DEF Ends, Begun
      <4>2. ~HasTool(r, s) => Called(r, s) = Begun /\ \A j : ToolEnded(r, s, j) = Begun
        BY DEF Called, ToolEnded
      <4> QED
        BY <2>2, <3>2, <3>3, <3>5, <3>9, <4>1, <4>2 DEF TrailOf, TaskMove, WorkFrom, Ended
    <3>6. CASE task[<<r, s>>] = "executing"
      <4>1. Seen(r, s)' = Called(r, s) \cap Scope(r, s) /\ Seen(r, s)' \cap Ends = {}
        BY <1>2, <2>1, <3>1, <3>6, TaskAdds DEF Ends, Called, Begun
      <4>2. ~HasTool(r, s) => ToolEnded(r, s, "ToolFinished") = Called(r, s)
        BY DEF ToolEnded
      <4> QED
        BY <2>2, <3>2, <3>3, <3>6, <3>9, <4>1, <4>2 DEF TrailOf, TaskMove, WorkFrom, Ended
    <3>7. CASE task[<<r, s>>] = "succeeded"
      <4>1. Seen(r, s)' = ToolEnded(r, s, "ToolFinished") \cap Scope(r, s)
        BY <1>2, <2>1, <3>1, <3>7, TaskAdds
      <4> QED
        BY <2>2, <3>2, <3>3, <3>7, <3>9, <4>1 DEF TrailOf, TaskMove, WorkFrom, Ended
    <3>8. CASE task[<<r, s>>] = "failed"
      <4>1. Seen(r, s)' = ToolEnded(r, s, "ToolFailed") \cap Scope(r, s)
        BY <1>2, <2>1, <3>1, <3>8, TaskAdds
      <4> QED
        BY <2>2, <3>2, <3>3, <3>8, <3>9, <4>1 DEF TrailOf, TaskMove, WorkFrom, Ended
    <3>10. CASE task[<<r, s>>] = "calling"
      <4>1. Seen(r, s)' = Called(r, s) \cap Scope(r, s) /\ Seen(r, s)' \cap Ends = {}
        BY <1>2, <2>1, <3>1, <3>10, TaskAdds DEF Ends, Called, Begun
      <4> QED
        BY <2>2, <3>2, <3>3, <3>9, <3>10, <4>1 DEF TrailOf, TaskMove, WorkFrom, Ended
    <3> QED
      BY <2>2, <3>4, <3>5, <3>6, <3>7, <3>8, <3>10 DEF TaskMove, WorkFrom
  <2> QED
    BY <1>11, <2>1, <2>3, <2>4, <2>5, <2>7
<1>13. ASSUME NEW r \in Runs, NEW s \in Steps, Execute(r, s) \/ Leave(r, s) PROVE Trail' /\ StepsInOrder'
  <2>1. /\ Return(<<r, s>>) /\ <<r, s>> \notin doomed /\ UNCHANGED <<session, doomed, live>>
        /\ \/ task[<<r, s>>] = WorkFrom(r, s) /\ task'[<<r, s>>] = "executing"
           \/ task[<<r, s>>] = "ending" /\ task'[<<r, s>>] = "done"
        /\ \E n : task' = [task EXCEPT ![<<r, s>>] = n]
    BY <1>13, TaskGoesOn
  <2>2. s \in PlanSteps(r) /\ WorkFrom(r, s) \in {"started", "calling"}
    BY <2>1 DEF RunTypes, WorkFrom
  <2>3. recorded' = RecordedAfter(<<r, s>>) /\ \A q \in Runs : pub'[<<q, 0>>] = pub[<<q, 0>>]
    BY <1>1, <2>1, <2>2 DEF Return, LogTypes
  <2>4. \A q \in Runs : \A u \in Steps : q # r \/ u # s => task'[<<q, u>>] = task[<<q, u>>]
    BY <2>1 DEF RunTypes, StepsOf
  <2>5. TrailOf(r, s)'
    <3>1. Seen(r, s)' = Seen(r, s) \cup Adds(<<r, s>>, r, s) /\ Scope(r, s)' = Scope(r, s)
      BY <1>1, <1>2, <2>2, <2>3, SeenGrows
    <3>2. Said(<<r, 0>>)' \notin {Event("StepCancelled", r, s), Event("StepFailed", r, s)}
      BY <2>1, <2>2, <2>3, OneSpeaks DEF Said
    <3>3. live'[r][s] = live[r][s] /\ live[r][s] # "pending"
      <4>1. live[r][s] = "pending" => task[<<r, s>>] = "none"
        BY <2>2 DEF Bus, BusOf, PlanStatuses
      <4> QED
        BY <2>1, <2>2, <4>1
    <3>4. CASE task[<<r, s>>] = WorkFrom(r, s)
      <4>1. Seen(r, s)' = Called(r, s) \cap Scope(r, s) /\ Seen(r, s)' \cap Ends = {}
        BY <1>2, <2>1, <2>2, <3>1, <3>4, TaskAdds DEF Ends, Called, Begun, WorkFrom
      <4>2. Called(r, s)' = Called(r, s) /\ task'[<<r, s>>] = "executing"
        BY <2>1, <3>4 DEF Called, HasTool, WorkFrom
      <4> QED
        BY <2>1, <3>1, <3>2, <3>3, <4>1, <4>2 DEF TrailOf
    <3>5. CASE task[<<r, s>>] = "ending"
      <4>1. live[r][s] # "running"
        BY <3>5 DEF Bus, BusOf, TaskBus
      <4> QED
        BY <2>1, <2>2, <3>2, <3>3, <3>5, <4>1 DEF TrailOf
    <3> QED
      BY <2>1, <3>4, <3>5
  <2> QED
    BY <1>11, <2>1, <2>2, <2>3, <2>4, <2>5
<1>14. ASSUME recorded' = recorded, session' = session, live' = live, doomed' = doomed,
              \A q \in Runs : pub'[<<q, 0>>] = pub[<<q, 0>>],
              \A q \in Runs : \A u \in Steps :
                task'[<<q, u>>] = task[<<q, u>>] \/ (<<q, u>> \in doomed /\ task'[<<q, u>>] = "done")
       PROVE  Trail' /\ StepsInOrder'
  <2>1. StepsInOrder'
    <3>1. /\ \A r, s : HasTool(r, s)' = HasTool(r, s) /\ Before(r, s)' = Before(r, s)
          /\ \A e, kinds : {k \in kinds : InScope(Event(k, e.run, e.step))'} =
                            {k \in kinds : InScope(Event(k, e.run, e.step))}
      BY <1>2, <1>14 DEF HasTool, Before, InScope
    <3> QED
      BY <1>2, <1>14, <3>1 DEF StepsInOrder, InTurn
  <2>2. ASSUME NEW q \in Runs, NEW u \in PlanSteps(q) PROVE TrailOf(q, u)'
    <3>1. Seen(q, u)' = Seen(q, u) /\ Scope(q, u)' = Scope(q, u) /\ Said(<<q, 0>>)' = Said(<<q, 0>>)
      BY <1>2, <1>14 DEF Seen, Said
    <3>2. TrailOf(q, u) /\ live'[q][u] = live[q][u] /\ doomed' = doomed
      BY <1>1, <1>14
    <3>3. task'[<<q, u>>] = task[<<q, u>>] \/ (<<q, u>> \in doomed /\ task'[<<q, u>>] = "done")
      BY <1>1, <1>14
    <3>4. Called(q, u)' = Called(q, u) /\ Ended(q, u, live[q][u])' = Ended(q, u, live[q][u])
      BY <1>14, <3>2, SameLives
    <3> QED
      BY <3>1, <3>2, <3>3, <3>4 DEF TrailOf
  <2>3. \A q \in Runs : PlanSteps(q)' = PlanSteps(q)
    BY <1>14 DEF PlanSteps
  <2> QED
    BY <2>1, <2>2, <2>3 DEF Trail
<1>15. ASSUME NEW r \in Runs, NEW s \in Steps, Interrupt(r, s) PROVE Trail' /\ StepsInOrder'
  <2>1. /\ <<r, s>> \in doomed /\ task' = [task EXCEPT ![<<r, s>>] = "done"]
        /\ task'[<<r, s>>] = "done" /\ pub' = [pub EXCEPT ![<<r, s>>] = NoEvent]
        /\ UNCHANGED <<session, live, doomed, recorded>>
    BY <1>15, TaskIsCancelled
  <2>2. \A q \in Runs : pub'[<<q, 0>>] = pub[<<q, 0>>]
    BY <1>1, <2>1, StepsAssumption DEF LogTypes
  <2>3. \A q \in Runs : \A u \in Steps : <<q, u>> # <<r, s>> => task'[<<q, u>>] = task[<<q, u>>]
    BY <2>1 DEF RunTypes, StepsOf
  <2> QED
    BY <1>14, <2>1, <2>2, <2>3
<1>16. CASE UNCHANGED vars \/ \E r \in Runs : RequestCancellation(r)
  BY <1>14, <1>16 DEF vars, runVars, RequestCancellation
<1>17. ~StopRecording /\ ~StartRecording
  <2>1. StopRecording => ~Whole'
    BY DEF StopRecording, Whole
  <2>2. StartRecording => recorders' = recorders + 1
    BY DEF StartRecording
  <2>3. recorders' = recorders /\ recorders \in Nat
    BY WholeBefore DEF LogTypes
  <2> QED
    BY <2>1, <2>2, <2>3
<1> QED
  BY <1>6, <1>7, <1>8, <1>9, <1>12, <1>13, <1>15, <1>16, <1>17, <1>18 DEF Next, RunMain, RunTask, Speaks

-----------------------------------------------------------------------------
(* The theorems.                                                           *)

\* The invariant of the record.
RecordInv == Inv /\ Bus /\ Fresh /\ Trail /\ StepsInOrder

LEMMA RecordInit == ASSUME Init PROVE RecordInv
<1>1. Inv /\ \A r \in Runs : <<r, 0>> \in Producers /\ \A s \in Steps : <<r, s>> \in StepsOf /\ <<r, s>> \in Producers
  BY InitEstablishes DEF StepsOf, Producers
<1>2. Carrying = {} /\ recorded = <<>>
  BY DEF Carrying, Init
<1>3. \A r \in Runs : \A s \in PlanSteps(r) : live[r][s] = "pending" /\ s \in Steps
  BY <1>1, StepsArePlanned DEF Init, PlanOf, Inv
<1>4. ASSUME NEW r \in Runs PROVE BusOf(r)
  <2>2. main[r] = "new" /\ pub[<<r, 0>>] = NoEvent /\ \A s \in Steps : pub[<<r, s>>] = NoEvent /\ task[<<r, s>>] = "none"
    BY <1>1 DEF Init
  <2>3. MainBus(r)
    BY <2>2 DEF MainBus
  <2>4. PlanStatuses(r)
    BY <1>3, <2>2 DEF PlanStatuses
  <2>5. \A s \in Steps : TaskBus(r, s)
    BY <2>2 DEF TaskBus
  <2> QED
    BY <2>3, <2>4, <2>5 DEF BusOf
<1>5. Fresh
  <2>1. DOMAIN recorded = {}
    BY <1>2
  <2>2. \A e : Positions(recorded, e) = {}
    BY <2>1 DEF Positions
  <2>3. recorders = 1 /\ Cardinality({}) = 0 /\ IsFiniteSet({})
    BY FS_EmptySet DEF Init
  <2>4. 0 <= recorders
    BY <2>3
  <2>5. \A e : IsFiniteSet(Positions(recorded, e)) /\ Cardinality(Positions(recorded, e)) <= recorders
    BY <2>2, <2>3, <2>4, Zenon
  <2> QED
    BY <1>2, <2>1, <2>2, <2>5 DEF Fresh
<1>6. Trail
  <2>1. ASSUME NEW r \in Runs, NEW s \in PlanSteps(r) PROVE TrailOf(r, s)
    <3>1. Len(<<>>) = 0 /\ Seen(r, s) = {}
      BY <1>2 DEF Seen, KindsOf
    <3>2. task[<<r, s>>] = "none" /\ pub[<<r, 0>>] = NoEvent
      BY <1>1, <1>3 DEF Init
    <3>3. Said(<<r, 0>>) \notin {Event("StepCancelled", r, s), Event("StepFailed", r, s)}
      BY <3>2, NoEventApart DEF Said, Event
    <3> QED
      BY <3>1, <3>2, <3>3 DEF TrailOf
  <2> QED
    BY <2>1 DEF Trail
<1>7. StepsInOrder
  BY <1>2 DEF StepsInOrder
<1> QED
  BY <1>1, <1>4, <1>5, <1>6, <1>7 DEF RecordInv, Bus

LEMMA RecordInvariant == Spec => []RecordInv
<1>1. Init => RecordInv
  BY RecordInit
<1>2. RecordInv /\ [Next]_vars => RecordInv'
  BY LogTypesKept, FlowKept, FollowsKept, ConservedKept, BusKept, FreshKept, OrderIsKept
     DEF RecordInv, Inv
<1> QED
  BY <1>1, <1>2, PTL DEF Spec

\* An event is recorded at most once per subscription: start() of a stopped recorder
\* (ExecutionRecorder.start) multiplies what is published from then on and
\* nothing else does, whatever producers are suspended or cancelled in publish().
THEOREM RecordedOnce == Spec => []RecordedPerStart
<1>1. ASSUME RecordInv PROVE RecordedPerStart
  <2>1. \A i \in DOMAIN recorded : recorded[i] \in Events
    BY <1>1 DEF RecordInv, Inv, LogTypes
  <2> QED
    BY <1>1, <2>1 DEF RecordInv, Fresh, Positions, RecordedPerStart
<1> QED
  BY <1>1, RecordInvariant, PTL

\* Subscribers may suspend any publish() and tasks be cancelled in them: the record
\* has the events of a step in the order _run_step and the tool executor publish
\* them, each once, with all before it there and none behind the end of the step;
\* a step without a tool has none of a tool, one that an exception ends may lack the
\* tool's outcome, and one that fails with a deadlocked plan has its failure alone.
THEOREM RecordedInOrder == Spec => []StepsInOrder
<1>1. RecordInv => StepsInOrder
  BY DEF RecordInv
<1> QED
  BY <1>1, RecordInvariant, PTL

=============================================================================
