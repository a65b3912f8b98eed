---------------------------- MODULE EventLogProofs ----------------------------
(***************************************************************************)
(* Theorems about EventLog, for any runs, plans, cancellations, recorders  *)
(* and bounds: types, that the store follows the plan, and that no event   *)
(* is lost or doubled on its way to the recorder.                          *)
(***************************************************************************)
EXTENDS EventLog, FiniteSetTheorems, SequenceTheorems, TLAPS

-----------------------------------------------------------------------------
(* Types.                                                                  *)

MainStates == {"new", "started", "asked", "recalled", "loop", "cancelling",
               "deadlocked", "answered", "closing", "ended"}
TaskStates == {"none", "scheduled", "created", "started", "calling",
               "executing", "succeeded", "failed", "ending", "done"}
MessageKinds == {"MessageReceived", "MessageSent"}
PubStates == {NoEvent} \cup [event : Events, copies : Nat]

\* What the store holds: no plan, or the statuses of the plan of some run.
PlanViews == {NoPlan} \cup UNION {[owner : {r}, status : [PlanSteps(r) -> Statuses]] : r \in Runs}
States == [sequence : Nat, run : Runs \cup {Unbound},
           status : {"idle", "running", "completed", "failed"},
           messages : Seq(MessageKinds \X Runs), plan : PlanViews,
           calls : Nat, succeeded : Nat, failed : Nat, current : Steps \cup {0}]

AreLive(plans) == DOMAIN plans = Runs /\ \A r \in Runs : plans[r] \in [PlanSteps(r) -> Statuses]

RunTypes ==
    /\ session \in Sessions
    /\ main \in [Runs -> MainStates] /\ task \in [StepsOf -> TaskStates]
    /\ \A r \in Runs : \A s \in Steps : task[<<r, s>>] # "none" => s \in PlanSteps(r)
    /\ token \subseteq Runs /\ doomed \subseteq StepsOf /\ interrupted \subseteq doomed

LogTypes ==
    /\ AreLive(live)
    /\ pub \in [Producers -> PubStates]
    /\ snapshot \in States /\ shared \in BOOLEAN
    /\ shared => snapshot.plan.owner \in Runs
    /\ bound \in Runs \cup {Unbound} /\ recording \in BOOLEAN
    /\ recorders \in Nat /\ recorded \in Seq(Events)

\* The status an event gives its step, and what each field of the state is after it.
Marks(k) == IF k = "StepStarted" THEN "running" ELSE IF k = "StepFinished" THEN "completed"
            ELSE IF k = "StepFailed" THEN "failed" ELSE "cancelled"
Marking == {"StepStarted", "StepFinished", "StepFailed", "StepCancelled"}
PlanAfter(plan, e) ==
    IF e.kind = "PlanCreated" THEN PlanOf(e.run)
    ELSE IF e.kind \in Marking THEN Mark(plan, e.step, Marks(e.kind)) ELSE plan
RunAfter(run, e) == IF e.kind \in StepKinds THEN run ELSE e.run
MessagesAfter(messages, e) ==
    IF e.kind \in MessageKinds THEN Append(messages, <<e.kind, e.run>>) ELSE messages
StatusAfter(status, e) ==
    IF e.kind = "RuntimeStarted" THEN "running"
    ELSE IF e.kind = "RuntimeStopped" THEN "completed"
    ELSE IF e.kind = "RuntimeFailed" THEN "failed" ELSE status
CurrentAfter(current, e) ==
    IF e.kind \in {"StepStarted", "ToolStarted"} THEN e.step
    ELSE IF e.kind \in {"ToolFinished", "ToolFailed", "StepFinished", "StepFailed", "StepCancelled"}
    THEN 0 ELSE current
CountAfter(count, kind, e) == IF e.kind = kind THEN count + 1 ELSE count

LEMMA EventTyped ==
  ASSUME NEW k \in Kinds, NEW r \in Runs, NEW s \in Steps \cup {0}
  PROVE  /\ Event(k, r, s) \in Events
         /\ Event(k, r, s).kind = k /\ Event(k, r, s).run = r /\ Event(k, r, s).step = s
  BY DEF Event, Events

LEMMA NoEventApart ==
  /\ NoEvent.event \notin Events /\ NoEvent.event.kind = "none" /\ NoEvent.copies = 0
  /\ \A e \in Events : \A n : [event |-> e, copies |-> n] # NoEvent
  BY DEF NoEvent, Event, Events, Kinds, ReplayKinds, StepKinds

LEMMA NoPlanApart ==
  /\ NoPlan.owner \notin Runs /\ NoPlan.owner = Unbound
  /\ \A pl \in PlanViews \ {NoPlan} :
      /\ pl.owner \in Runs /\ pl.status \in [PlanSteps(pl.owner) -> Statuses]
      /\ pl = [owner |-> pl.owner, status |-> pl.status]
  /\ \A r \in Runs : \A f \in [PlanSteps(r) -> Statuses] :
      [owner |-> r, status |-> f] \in PlanViews
  /\ \A s \in Steps : Mark(NoPlan, s, "running") \in PlanViews
  BY UnboundAssumption DEF NoPlan, PlanViews, Mark

LEMMA PlanOfTyped == ASSUME NEW r \in Runs PROVE PlanOf(r) \in PlanViews /\ PlanOf(r).owner = r
  BY NoPlanApart DEF PlanOf, Statuses

LEMMA MarkTyped ==
  ASSUME NEW pl \in PlanViews, NEW s, NEW x \in Statuses
  PROVE  /\ Mark(pl, s, x) \in PlanViews
         /\ Mark(pl, s, x).owner = pl.owner
         /\ pl # NoPlan => \A t \in PlanSteps(pl.owner) :
              Mark(pl, s, x).status[t] = IF t = s THEN x ELSE pl.status[t]
         /\ pl = NoPlan => Mark(pl, s, x) = pl
<1>1. CASE pl = NoPlan
  <2>1. s \notin DOMAIN NoPlan.status
    BY DEF NoPlan
  <2> QED
    BY <1>1, <2>1 DEF Mark
<1>2. CASE pl # NoPlan
  <2>1. pl.owner \in Runs /\ pl.status \in [PlanSteps(pl.owner) -> Statuses]
        /\ pl = [owner |-> pl.owner, status |-> pl.status]
    BY <1>2, NoPlanApart
  <2>2. CASE s \notin DOMAIN pl.status
    BY <1>2, <2>1, <2>2 DEF Mark
  <2>3. CASE s \in DOMAIN pl.status
    <3> DEFINE f == [pl.status EXCEPT ![s] = x]
    <3>1. Mark(pl, s, x) = [owner |-> pl.owner, status |-> f]
      BY <2>1, <2>3 DEF Mark
    <3>2. f \in [PlanSteps(pl.owner) -> Statuses]
      BY <2>1
    <3>3. \A t \in PlanSteps(pl.owner) : f[t] = IF t = s THEN x ELSE pl.status[t]
      BY <2>1
    <3> HIDE DEF f
    <3> QED
      BY <1>2, <2>1, <3>1, <3>2, <3>3, NoPlanApart
  <2> QED
    BY <2>2, <2>3
<1> QED
  BY <1>1, <1>2

\* What reduce_state does to each field.
LEMMA Reduced ==
  ASSUME NEW st \in States, NEW e \in Events
  PROVE  LET next == Reduce(Plans, st, e) IN
         /\ next \in States
         /\ next.sequence = st.sequence + 1
         /\ next.run = RunAfter(st.run, e)
         /\ next.status = StatusAfter(st.status, e)
         /\ next.messages = MessagesAfter(st.messages, e)
         /\ next.plan = PlanAfter(st.plan, e)
         /\ next.calls = CountAfter(st.calls, "ToolStarted", e)
         /\ next.succeeded = CountAfter(st.succeeded, "ToolFinished", e)
         /\ next.failed = CountAfter(st.failed, "ToolFailed", e)
         /\ next.current = CurrentAfter(st.current, e)
<1> DEFINE next == [st EXCEPT !.sequence = @ + 1,
                              !.run = IF e.kind \in StepKinds THEN @ ELSE e.run]
           res == Reduce(Plans, st, e)
           seq == st.sequence + 1
           run == RunAfter(st.run, e)
           status == StatusAfter(st.status, e)
           messages == MessagesAfter(st.messages, e)
           plan == PlanAfter(st.plan, e)
           calls == CountAfter(st.calls, "ToolStarted", e)
           succeeded == CountAfter(st.succeeded, "ToolFinished", e)
           failed == CountAfter(st.failed, "ToolFailed", e)
           current == CurrentAfter(st.current, e)
           all == [sequence |-> seq, run |-> run, status |-> status, messages |-> messages,
                   plan |-> plan, calls |-> calls, succeeded |-> succeeded, failed |-> failed,
                   current |-> current]
<1>1. e.run \in Runs /\ e.step \in Steps \cup {0} /\ e.kind \in Kinds
  BY DEF Events
<1>2. Plans[e.run] = PlanOf(e.run) /\ PlanOf(e.run) \in PlanViews
  BY <1>1, PlanOfTyped DEF Plans
<1>3. /\ seq \in Nat /\ run \in Runs \cup {Unbound}
      /\ status \in {"idle", "running", "completed", "failed"}
      /\ calls \in Nat /\ succeeded \in Nat /\ failed \in Nat
      /\ current \in Steps \cup {0}
  BY <1>1 DEF States, RunAfter, StatusAfter, CountAfter, CurrentAfter
<1>4. messages \in Seq(MessageKinds \X Runs)
  BY <1>1 DEF States, MessagesAfter
<1>5. plan \in PlanViews
  <2>1. st.plan \in PlanViews /\ Marks(e.kind) \in Statuses
    BY DEF States, Marks, Statuses
  <2> QED
    BY <1>2, <2>1, MarkTyped DEF PlanAfter
<1>6. st = [sequence |-> st.sequence, run |-> st.run, status |-> st.status,
            messages |-> st.messages, plan |-> st.plan, calls |-> st.calls,
            succeeded |-> st.succeeded, failed |-> st.failed, current |-> st.current]
  BY DEF States
<1>7. next = [sequence |-> seq, run |-> run, status |-> st.status,
              messages |-> st.messages, plan |-> st.plan, calls |-> st.calls,
              succeeded |-> st.succeeded, failed |-> st.failed, current |-> st.current]
  <2>1. next = [st EXCEPT !.sequence = seq, !.run = run]
    BY DEF RunAfter
  <2> HIDE DEF next, seq, run
  <2> QED
    BY <1>6, <2>1
<1> HIDE DEF next
<1>8. res =
        CASE e.kind \in {"MessageReceived", "MessageSent"} ->
                [next EXCEPT !.messages = Append(@, <<e.kind, e.run>>)]
         [] e.kind = "PlanCreated" -> [next EXCEPT !.plan = Plans[e.run]]
         [] e.kind = "ToolStarted" -> [next EXCEPT !.calls = @ + 1, !.current = e.step]
         [] e.kind = "ToolFinished" -> [next EXCEPT !.succeeded = @ + 1, !.current = 0]
         [] e.kind = "ToolFailed" -> [next EXCEPT !.failed = @ + 1, !.current = 0]
         [] e.kind = "RuntimeStarted" -> [next EXCEPT !.status = "running"]
         [] e.kind = "RuntimeStopped" -> [next EXCEPT !.status = "completed"]
         [] e.kind = "RuntimeFailed" -> [next EXCEPT !.status = "failed"]
         [] e.kind = "StepStarted" ->
                [next EXCEPT !.current = e.step, !.plan = Mark(@, e.step, "running")]
         [] e.kind = "StepFinished" ->
                [next EXCEPT !.current = 0, !.plan = Mark(@, e.step, "completed")]
         [] e.kind = "StepFailed" ->
                [next EXCEPT !.current = 0, !.plan = Mark(@, e.step, "failed")]
         [] e.kind = "StepCancelled" ->
                [next EXCEPT !.current = 0, !.plan = Mark(@, e.step, "cancelled")]
         [] OTHER -> next
  BY DEF Reduce, next
<1> HIDE DEF res
<1>9. res = all
  <2>1. CASE e.kind \in MessageKinds
    BY <1>7, <1>8, <2>1 DEF MessageKinds, RunAfter, StatusAfter, MessagesAfter, PlanAfter, CountAfter, CurrentAfter, Marking
  <2>2. CASE e.kind = "PlanCreated"
    BY <1>2, <1>7, <1>8, <2>2 DEF MessageKinds, StatusAfter, MessagesAfter, PlanAfter, CountAfter, CurrentAfter
  <2>3. CASE e.kind \in {"ToolStarted", "ToolFinished", "ToolFailed"}
    BY <1>7, <1>8, <2>3 DEF MessageKinds, StatusAfter, MessagesAfter, PlanAfter, CountAfter, CurrentAfter, Marking
  <2>4. CASE e.kind \in {"RuntimeStarted", "RuntimeStopped", "RuntimeFailed"}
    BY <1>7, <1>8, <2>4 DEF MessageKinds, StatusAfter, MessagesAfter, PlanAfter, CountAfter, CurrentAfter, Marking
  <2>5. CASE e.kind \in Marking
    BY <1>7, <1>8, <2>5 DEF MessageKinds, StatusAfter, MessagesAfter, PlanAfter, CountAfter, CurrentAfter, Marking, Marks
  <2>6. CASE e.kind \in {"StepScheduled", "MemoryRetrieved"}
    BY <1>7, <1>8, <2>6 DEF MessageKinds, StatusAfter, MessagesAfter, PlanAfter, CountAfter, CurrentAfter, Marking
  <2> QED
    BY <1>1, <2>1, <2>2, <2>3, <2>4, <2>5, <2>6
       DEF Kinds, ReplayKinds, StepKinds, MessageKinds, Marking
<1>10. all \in States
  <2> HIDE DEF seq, run, status, messages, plan, calls, succeeded, failed, current
  <2> QED
    BY <1>3, <1>4, <1>5 DEF States
<1> QED
  BY <1>9, <1>10 DEF res, all

\* The recorder's share of an event is a sequence of copies of it.
LEMMA Copied ==
  ASSUME NEW e \in Events, NEW n \in Nat
  PROVE  [i \in 1..n |-> e] \in Seq(Events) /\ Len([i \in 1..n |-> e]) = n
  OBVIOUS

LEMMA RecordedAfterTyped ==
  ASSUME LogTypes, NEW p \in Producers
  PROVE  /\ RecordedAfter(p) \in Seq(Events)
         /\ recording /\ bound = Unbound => Len(RecordedAfter(p)) = Len(recorded) + pub[p].copies
<1>1. CASE pub[p] = NoEvent
  <2>1. [i \in 1..0 |-> NoEvent.event] = <<>>
    OBVIOUS
  <2>2. recorded \o <<>> = recorded /\ Len(recorded) \in Nat
    BY ConcatEmptySeq DEF LogTypes
  <2> QED
    BY <1>1, <2>1, <2>2, NoEventApart DEF RecordedAfter, LogTypes
<1>2. CASE pub[p] # NoEvent
  <2> DEFINE copies == [i \in 1..pub[p].copies |-> pub[p].event]
  <2>1. pub[p].event \in Events /\ pub[p].copies \in Nat
    BY <1>2 DEF LogTypes, PubStates
  <2>2. copies \in Seq(Events) /\ Len(copies) = pub[p].copies
    BY <2>1, Copied
  <2> HIDE DEF copies
  <2>3. recorded \o copies \in Seq(Events)
        /\ Len(recorded \o copies) = Len(recorded) + pub[p].copies
    BY <2>2, ConcatProperties DEF LogTypes
  <2>4. RecordedAfter(p) = IF recording /\ InScope(pub[p].event) THEN recorded \o copies ELSE recorded
    BY DEF RecordedAfter, copies
  <2> QED
    BY <2>3, <2>4 DEF InScope, LogTypes
<1> QED
  BY <1>1, <1>2

\* What the store shows is of the same type.
LEMMA ShownTyped ==
  ASSUME LogTypes, NEW plans, AreLive(plans)
  PROVE  /\ Shown(plans) \in States
         /\ Shown(plans).sequence = snapshot.sequence
         /\ Shown(plans).plan.owner = snapshot.plan.owner
         /\ Shown(plans).plan = NoPlan <=> snapshot.plan = NoPlan
         /\ \A s : Shown(plans).plan.status[s] =
              IF shared THEN plans[snapshot.plan.owner][s] ELSE snapshot.plan.status[s]
<1>1. CASE ~shared
  BY <1>1 DEF Shown, LogTypes
<1>2. CASE shared
  <2> DEFINE f == plans[snapshot.plan.owner]
             pl == [snapshot.plan EXCEPT !.status = f]
  <2>1. snapshot.plan \in PlanViews /\ snapshot.plan.owner \in Runs
    BY <1>2 DEF LogTypes, States
  <2>2. snapshot.plan # NoPlan
    BY <2>1, NoPlanApart
  <2>3. pl = [owner |-> snapshot.plan.owner, status |-> f]
    BY <2>1, <2>2, NoPlanApart
  <2>4. f \in [PlanSteps(snapshot.plan.owner) -> Statuses]
    BY <2>1 DEF AreLive
  <2>5. pl \in PlanViews /\ pl.owner = snapshot.plan.owner /\ pl.status = f /\ pl # NoPlan
    BY <2>1, <2>3, <2>4, NoPlanApart
  <2>6. Shown(plans) = [snapshot EXCEPT !.plan = pl]
    BY <1>2 DEF Shown
  <2> HIDE DEF f, pl
  <2>7. Shown(plans) \in States /\ Shown(plans).sequence = snapshot.sequence /\ Shown(plans).plan = pl
    BY <2>5, <2>6 DEF LogTypes, States
  <2> QED
    BY <1>2, <2>2, <2>5, <2>7 DEF f
<1> QED
  BY <1>1, <1>2 DEF LogTypes

-----------------------------------------------------------------------------
(* What a step does to the bus, the store and the recorder.                *)

\* A producer publishes.
LEMMA Published ==
  ASSUME LogTypes, session' = session, NEW p \in Producers, NEW e \in Events,
         NEW plans, AreLive(plans), Publish(p, e, plans)
  PROVE  /\ LogTypes'
         /\ pub' = [pub EXCEPT ![p] = [event |-> e, copies |-> recorders]] /\ pub'[p] # NoEvent
         /\ snapshot'.sequence = snapshot.sequence + 1
         /\ snapshot'.plan = PlanAfter(Shown(plans).plan, e)
<1>1. Shown(plans) \in States /\ Shown(plans).sequence = snapshot.sequence
  BY ShownTyped
<1>2. /\ snapshot' \in States /\ snapshot'.sequence = snapshot.sequence + 1
      /\ snapshot'.plan = PlanAfter(Shown(plans).plan, e)
  BY <1>1, Reduced DEF Publish
<1>3. AreLive(live)'
  BY DEF Publish, AreLive, PlanSteps
<1>4. [event |-> e, copies |-> recorders] \in PubStates /\ [event |-> e, copies |-> recorders] # NoEvent
  BY NoEventApart DEF PubStates, LogTypes
<1>5. pub' \in [Producers -> PubStates]
  BY <1>4 DEF Publish, LogTypes
<1>6. shared' => snapshot'.plan.owner \in Runs
  BY <1>2, PlanOfTyped DEF Publish, PlanAfter, Events
<1>7. recorded' \in Seq(Events)
  BY RecordedAfterTyped DEF Publish
<1>8. States' = States
  BY DEF States, PlanViews, PlanSteps
<1>9. bound' \in Runs \cup {Unbound} /\ recording' \in BOOLEAN /\ recorders' \in Nat /\ shared' \in BOOLEAN
  BY DEF Publish, LogTypes, recorderVars
<1>10. pub' = [pub EXCEPT ![p] = [event |-> e, copies |-> recorders]] /\ pub'[p] # NoEvent
  BY <1>4 DEF Publish, LogTypes
<1> QED
  BY <1>2, <1>3, <1>5, <1>6, <1>7, <1>8, <1>9, <1>10 DEF LogTypes

\* A producer goes on, or its task is cancelled.
LEMMA Returned ==
  ASSUME LogTypes, session' = session, NEW p \in Producers,
         \/ Return(p)
         \/ /\ pub' = [pub EXCEPT ![p] = NoEvent]
            /\ UNCHANGED <<live, snapshot, shared, recorderVars, recorded>>
  PROVE  LogTypes'
<1>1. recorded' \in Seq(Events)
  BY RecordedAfterTyped DEF Return, LogTypes
<1>2. pub' \in [Producers -> PubStates]
  BY DEF Return, LogTypes, PubStates
<1>3. UNCHANGED <<live, snapshot, shared, bound, recording, recorders>>
  BY DEF Return, recorderVars
<1> QED
  BY <1>1, <1>2, <1>3 DEF LogTypes, AreLive, PlanSteps, States, PlanViews

\* Every step publishes an event, lets a producer go on, cancels a task in a
\* publish, starts or stops the recorder, or leaves the log alone.
Publishes == \E p \in Producers : \E e \in Events : \E plans :
    AreLive(plans) /\ Publish(p, e, plans) /\ UNCHANGED <<session, interrupted>>
Returns == \E p \in Producers : Return(p) /\ UNCHANGED <<session, interrupted>>
Interrupts == \E r \in Runs : \E s \in Steps : Interrupt(r, s)
\* The task of a step publishes.
Speaks(r, s) ==
    \/ Start(r, s) \/ Abort(r, s) \/ CallTool(r, s) \/ ToolEnds(r, s)
    \/ FinishStep(r, s) \/ FailStep(r, s)
LogStays == UNCHANGED <<session, live, pub, snapshot, shared, recorderVars, recorded, interrupted>>

LEMMA StepsArePlanned ==
  ASSUME RunTypes, NEW r \in Runs, NEW s \in PlanSteps(r) PROVE s \in Steps
  BY SessionsAssumption DEF RunTypes, PlanSteps

\* An event of a step, with the status it gives the step in the plan.
LEMMA StepPublished ==
  ASSUME LogTypes, NEW p \in Producers, NEW k \in Kinds, NEW r \in Runs,
         NEW s \in Steps, NEW x \in Statuses \cup {live[r][s]}, PublishStep(p, k, r, s, x),
         s \in PlanSteps(r) \/ x = live[r][s]
  PROVE  /\ Event(k, r, s) \in Events
         /\ AreLive([live EXCEPT ![r][s] = x]) /\ Publish(p, Event(k, r, s), [live EXCEPT ![r][s] = x])
<1>1. live[r] \in [PlanSteps(r) -> Statuses] /\ DOMAIN live = Runs
  BY DEF LogTypes, AreLive
<1>2. [live[r] EXCEPT ![s] = x] \in [PlanSteps(r) -> Statuses]
  BY <1>1
<1>3. AreLive([live EXCEPT ![r][s] = x])
  BY <1>1, <1>2 DEF LogTypes, AreLive
<1> QED
  BY <1>3, EventTyped DEF PublishStep

LEMMA LogSteps ==
  ASSUME RunTypes, LogTypes, [Next]_vars
  PROVE  Publishes \/ Returns \/ Interrupts \/ StopRecording \/ StartRecording \/ LogStays
<1>1. ASSUME NEW r \in Runs, NEW k \in Kinds, NEW next, MainPublishes(r, k, next)
      PROVE  Publishes
  <2>1. Event(k, r, 0) \in Events /\ AreLive(live) /\ <<r, 0>> \in Producers
    BY EventTyped DEF LogTypes, Producers
  <2> QED
    BY <1>1, <2>1 DEF MainPublishes, Publishes
<1>2. ASSUME NEW p \in Producers, NEW k \in Kinds, NEW r \in Runs, NEW s \in Steps,
             NEW x \in Statuses \cup {live[r][s]}, PublishStep(p, k, r, s, x),
             s \in PlanSteps(r) \/ x = live[r][s], UNCHANGED <<session, interrupted>>
      PROVE  Publishes
  <2>1. /\ Event(k, r, s) \in Events /\ AreLive([live EXCEPT ![r][s] = x])
        /\ Publish(p, Event(k, r, s), [live EXCEPT ![r][s] = x])
    BY <1>2, StepPublished
  <2> QED
    BY <1>2, <2>1 DEF Publishes
<1> HIDE DEF Publishes
<1>3. \A r \in Runs : \A s \in Steps \cup {0} : <<r, s>> \in Producers
  BY DEF Producers
<1>4. ASSUME NEW r \in Runs, Begin(r) \/ Receive(r) \/ Recall(r) \/ CreatePlan(r) \/ Answer(r) \/ Close(r)
      PROVE  Publishes
  BY <1>1, <1>4
     DEF Begin, Receive, Recall, CreatePlan, Answer, Close, Kinds, ReplayKinds
<1>5. ASSUME NEW r \in Runs, NEW s \in PlanSteps(r),
             Launch(r, s) \/ Skip(r, s) \/ FailDeadlocked(r, s) \/ CancelStep(r, s)
      PROVE  Publishes
  BY <1>2, <1>3, <1>5, StepsArePlanned
     DEF Launch, Skip, FailDeadlocked, CancelStep, runVars, Kinds, ReplayKinds, StepKinds, Statuses
<1>6. ASSUME NEW r \in Runs, Wait(r) \/ End(r) PROVE Returns
  BY <1>3, <1>6 DEF Wait, End, Returns
<1>7. ASSUME NEW r \in Runs, NEW s \in Steps, RunTask(r, s) PROVE Publishes \/ Returns \/ Interrupts
  <2>2. CASE Speaks(r, s)
    <3>1. \E k \in Kinds, x \in Statuses \cup {live[r][s]} : PublishStep(<<r, s>>, k, r, s, x)
      BY <2>2 DEF Speaks, Start, Abort, CallTool, ToolEnds, FinishStep, FailStep, Kinds, ReplayKinds, StepKinds, Statuses
    <3>2. UNCHANGED <<session, interrupted>>
      BY <2>2 DEF Speaks, Start, Abort, CallTool, ToolEnds, FinishStep, FailStep, TaskMoves
    <3>3. s \in PlanSteps(r)
      BY <2>2 DEF RunTypes, Speaks, Start, Abort, CallTool, ToolEnds, FinishStep, FailStep,
                  WorkFrom, TaskMoves
    <3> QED
      BY <1>2, <1>3, <3>1, <3>2, <3>3
  <2>3. CASE Execute(r, s) \/ Leave(r, s)
    BY <1>3, <2>3 DEF Execute, Leave, TaskMoves, Returns
  <2> QED
    BY <1>7, <2>2, <2>3 DEF RunTask, Speaks, Interrupts
<1>8. CASE UNCHANGED vars \/ \E r \in Runs : RequestCancellation(r)
  BY <1>8 DEF vars, runVars, RequestCancellation, LogStays, recorderVars
<1> QED
  BY <1>4, <1>5, <1>6, <1>7, <1>8 DEF Next, RunMain

\* The log's types are kept.
LEMMA LogTypesKept == ASSUME RunTypes, LogTypes, [Next]_vars PROVE LogTypes'
<1>1. CASE Publishes
  BY <1>1, Published DEF Publishes
<1>2. CASE Returns
  BY <1>2, Returned DEF Returns
<1>3. ASSUME NEW r \in Runs, NEW s \in Steps, Interrupt(r, s) PROVE LogTypes'
  <2>1. /\ <<r, s>> \in Producers /\ session' = session /\ pub' = [pub EXCEPT ![<<r, s>>] = NoEvent]
        /\ UNCHANGED <<live, snapshot, shared, recorderVars, recorded>>
    BY <1>3 DEF Interrupt, Producers
  <2> QED
    BY <2>1, Returned
<1>4. CASE StopRecording \/ StartRecording \/ LogStays
  <2>1. /\ UNCHANGED <<session, live, pub, snapshot, shared, bound, recorded>>
        /\ recording' \in {recording, TRUE, FALSE} /\ recorders' \in {recorders, recorders + 1}
    BY <1>4 DEF StopRecording, StartRecording, LogStays, runVars, recorderVars
  <2>2. States' = States
    BY <2>1 DEF States, PlanViews, PlanSteps
  <2>3. AreLive(live)'
    BY <2>1 DEF LogTypes, AreLive, PlanSteps
  <2>4. recording' \in BOOLEAN
    BY <2>1 DEF LogTypes
  <2>5. recorders' \in Nat
    BY <2>1 DEF LogTypes
  <2> QED
    BY <2>1, <2>2, <2>3, <2>4, <2>5 DEF LogTypes
<1> QED
  BY <1>1, <1>2, <1>3, <1>4, LogSteps DEF Interrupts

-----------------------------------------------------------------------------
(* The runs and their tasks.                                               *)

Idle == {"new", "ended"}

\* A task that has not resolved its step and is not cancelled.
Active(t) ==
    /\ task[t] \in {"scheduled", "created", "started", "calling", "executing", "succeeded", "failed"}
    /\ t \notin doomed

\* One run is open at a time, and the store holds its plan while it executes it; a
\* task that works belongs to a run that executes its plan and to a running step,
\* and cancelled tasks to one that does no more.
FlowOf(r) ==
    /\ main[r] \notin Idle => \A q \in Runs \ {r} : main[q] \in Idle
    /\ main[r] \in {"loop", "cancelling", "deadlocked"} => snapshot.plan.owner = r
    /\ main[r] = "cancelling" => Publishing(r) = "StepCancelled"
    /\ main[r] = "deadlocked" => Publishing(r) = "StepFailed"
    /\ \A s \in Steps :
        /\ task[<<r, s>>] = "scheduled" => main[r] = "loop" /\ Publishing(r) = "StepScheduled"
        /\ Active(<<r, s>>) => main[r] = "loop" /\ live[r][s] = "running"
        /\ <<r, s>> \in doomed => /\ main[r] \in {"cancelling", "answered", "closing", "ended"}
                                 /\ task[<<r, s>>] \notin {"none", "scheduled"}
        /\ <<r, s>> \in interrupted => task[<<r, s>>] = "done"

Flow == \A r \in Runs : FlowOf(r)

\* What a step leaves to another run.
LEMMA FlowOther ==
  ASSUME NEW q \in Runs, FlowOf(q), main'[q] = main[q], pub'[<<q, 0>>] = pub[<<q, 0>>],
         live'[q] = live[q],
         \A s \in Steps : /\ task'[<<q, s>>] = task[<<q, s>>]
                          /\ <<q, s>> \in doomed' <=> <<q, s>> \in doomed
                          /\ <<q, s>> \in interrupted' => <<q, s>> \in interrupted,
         \/ main[q] \in Idle
         \/ /\ snapshot'.plan.owner = snapshot.plan.owner
            /\ \A u \in Runs \ {q} : main'[u] \in Idle
  PROVE  FlowOf(q)'
  BY DEF FlowOf, Publishing, Active, Idle

\* The store's plan after an event that does not bring one.
LEMMA StorePlan ==
  ASSUME LogTypes, session' = session, NEW p \in Producers, NEW e \in Events,
         NEW plans, AreLive(plans), Publish(p, e, plans), e.kind # "PlanCreated"
  PROVE  /\ ~shared'
         /\ snapshot'.plan.owner = snapshot.plan.owner
         /\ snapshot.plan.owner \in Runs => \A s \in PlanSteps(snapshot.plan.owner) :
              snapshot'.plan.status[s] =
                IF e.kind \in Marking /\ s = e.step THEN Marks(e.kind)
                ELSE IF shared THEN plans[snapshot.plan.owner][s] ELSE snapshot.plan.status[s]
<1> DEFINE pl == Shown(plans).plan
<1>1. /\ pl \in PlanViews /\ pl.owner = snapshot.plan.owner
      /\ \A s : pl.status[s] = IF shared THEN plans[snapshot.plan.owner][s] ELSE snapshot.plan.status[s]
  BY ShownTyped DEF States
<1>2. snapshot'.plan = PlanAfter(pl, e) /\ ~shared'
  BY Published DEF Publish
<1> HIDE DEF pl
<1>3. CASE e.kind \in Marking
  <2>1. snapshot'.plan = Mark(pl, e.step, Marks(e.kind)) /\ Marks(e.kind) \in Statuses
    BY <1>2, <1>3 DEF PlanAfter, Marks, Marking, Statuses
  <2>2. pl.owner \in Runs => pl # NoPlan
    BY NoPlanApart
  <2> QED
    BY <1>1, <1>2, <1>3, <2>1, <2>2, MarkTyped
<1>4. CASE e.kind \notin Marking
  BY <1>1, <1>2, <1>4 DEF PlanAfter, Marking
<1> QED
  BY <1>3, <1>4

\* An event of the coroutine of a run.
LEMMA MainFlow ==
  ASSUME RunTypes, LogTypes, Flow, NEW r \in Runs,
         Begin(r) \/ Receive(r) \/ Recall(r) \/ CreatePlan(r) \/ Answer(r) \/ Close(r)
  PROVE  RunTypes' /\ Flow'
<1>1. PICK k \in Kinds \ StepKinds, n \in MainStates :
          /\ MainPublishes(r, k, n)
          /\ k = "PlanCreated" <=> n = "loop"
          /\ n \in {"answered", "closing"} \/ main[r] \in {"new", "started", "asked", "recalled"}
          /\ n \notin {"new", "ended", "cancelling", "deadlocked"}
          /\ main[r] = "new" => \A q \in Runs : main[q] \in Idle
          /\ main[r] = "loop" => AtTop(r) /\ PlanResolved(r)
          /\ main[r] # "ended"
  <2>1. /\ {"RuntimeStarted", "MessageReceived", "MemoryRetrieved", "PlanCreated", "MessageSent",
            "RuntimeStopped", "RuntimeFailed"} \subseteq Kinds \ StepKinds
        /\ {"started", "asked", "recalled", "loop", "answered", "closing"} \subseteq MainStates
    BY DEF Kinds, ReplayKinds, StepKinds, MainStates
  <2>2. CASE Begin(r)
    BY <2>1, <2>2 DEF Begin, Idle
  <2>3. CASE Receive(r) \/ Recall(r)
    BY <2>1, <2>3 DEF Receive, Recall
  <2>4. CASE CreatePlan(r)
    BY <2>1, <2>4 DEF CreatePlan, Recollected
  <2>5. CASE Answer(r) \/ Close(r)
    <3>1. /\ ReadyToAnswer(r) \/ main[r] = "answered"
          /\ \E k \in Kinds \ StepKinds, n \in {"answered", "closing"} :
                MainPublishes(r, k, n) /\ k # "PlanCreated"
      BY <2>1, <2>5 DEF Answer, Close
    <3>2. ReadyToAnswer(r) => /\ main[r] \notin {"new", "ended"}
                              /\ main[r] = "loop" => AtTop(r) /\ PlanResolved(r)
      BY DEF ReadyToAnswer, Recollected, AtTop
    <3> QED
      BY <2>1, <3>1, <3>2
  <2> QED
    BY <2>2, <2>3, <2>4, <2>5
<1>2. /\ main' = [main EXCEPT ![r] = n] /\ live' = live /\ UNCHANGED <<session, task, token, doomed, interrupted>>
      /\ Publish(<<r, 0>>, Event(k, r, 0), live)
  BY <1>1 DEF MainPublishes, Publish
<1>3. /\ Event(k, r, 0) \in Events /\ Event(k, r, 0).kind = k /\ Event(k, r, 0).run = r
      /\ <<r, 0>> \in Producers /\ AreLive(live)
  BY EventTyped DEF LogTypes, Producers
<1>4. pub' = [pub EXCEPT ![<<r, 0>>] = [event |-> Event(k, r, 0), copies |-> recorders]]
      /\ snapshot'.plan = PlanAfter(Shown(live).plan, Event(k, r, 0))
  BY <1>2, <1>3, Published
<1>5. RunTypes'
  BY <1>2 DEF RunTypes, PlanSteps
<1>6. \A s \in Steps : task[<<r, s>>] # "scheduled" /\ ~Active(<<r, s>>)
  <2>1. CASE main[r] # "loop"
    BY <2>1 DEF Flow, FlowOf
  <2>2. CASE main[r] = "loop"
    <3>1. Publishing(r) # "StepScheduled" /\ \A s \in PlanSteps(r) : live[r][s] # "running"
      BY <1>1, <2>2 DEF AtTop, PlanResolved, Resolved
    <3>2. \A s \in Steps : task[<<r, s>>] # "none" => s \in PlanSteps(r)
      BY DEF RunTypes
    <3> QED
      BY <3>1, <3>2 DEF Flow, FlowOf, Active
  <2> QED
    BY <2>1, <2>2
<1>7. main'[r] = n
  BY <1>2 DEF RunTypes
<1>8. n = "loop" => snapshot'.plan.owner = r
  BY <1>1, <1>3, <1>4, PlanOfTyped DEF PlanAfter
<1>9. \A q \in Runs \ {r} : main'[q] = main[q] /\ main[q] \in Idle
  BY <1>1, <1>2 DEF RunTypes, Flow, FlowOf, Idle
<1>10. FlowOf(r)'
  BY <1>1, <1>2, <1>6, <1>7, <1>8, <1>9 DEF Flow, FlowOf, Active
<1>11. ASSUME NEW q \in Runs \ {r} PROVE FlowOf(q)'
  <2>1. pub'[<<q, 0>>] = pub[<<q, 0>>]
    BY <1>4 DEF LogTypes, Producers
  <2> QED
    BY <1>2, <1>9, <2>1, FlowOther DEF Flow
<1> QED
  BY <1>5, <1>10, <1>11 DEF Flow

\* The scheduler's loop launches, skips, fails or cancels a step, or waits.
LEMMA LoopFlow ==
  ASSUME RunTypes, LogTypes, Flow, NEW r \in Runs,
         \/ Wait(r)
         \/ \E s \in PlanSteps(r) :
              Launch(r, s) \/ Skip(r, s) \/ FailDeadlocked(r, s) \/ CancelStep(r, s)
  PROVE  RunTypes' /\ Flow'
<1>1. /\ main[r] \in {"loop", "cancelling", "deadlocked"}
      /\ UNCHANGED <<session, token, interrupted>>
      /\ \A q \in Runs \ {r} : main'[q] = main[q] /\ main[q] \in Idle
  <2>1. /\ main[r] \in {"loop", "cancelling", "deadlocked"}
        /\ UNCHANGED <<session, token, interrupted>>
    BY DEF Wait, Launch, Skip, FailDeadlocked, CancelStep, AtTop, runVars
  <2>2. main' = main \/ \E n \in {"cancelling", "deadlocked"} : main' = [main EXCEPT ![r] = n]
    BY DEF Wait, Launch, Skip, FailDeadlocked, CancelStep, runVars
  <2>3. \A q \in Runs \ {r} : main'[q] = main[q] /\ main[q] \in Idle
    BY <2>1, <2>2 DEF RunTypes, Flow, FlowOf, Idle
  <2> QED
    BY <2>1, <2>3
<1>2. <<r, 0>> \in Producers /\ live[r] \in [PlanSteps(r) -> Statuses] /\ DOMAIN live = Runs
  BY DEF Producers, LogTypes, AreLive
<1>3. \A t \in StepsOf : Created(r)[t] = IF t[1] = r /\ task[t] = "scheduled" THEN "created" ELSE task[t]
  BY DEF Created
<1>4. Created(r) \in [StepsOf -> TaskStates]
  BY DEF Created, RunTypes, TaskStates
<1>5. \A q \in Runs : \A s \in Steps : <<q, s>> \in StepsOf
  BY DEF StepsOf
<1>6. CASE Wait(r)
  <2>1. /\ main' = main /\ live' = live /\ doomed' = doomed /\ task' = Created(r)
        /\ snapshot' = snapshot /\ pub' = [pub EXCEPT ![<<r, 0>>] = NoEvent] /\ main[r] = "loop"
    BY <1>6 DEF Wait, Return
  <2>2. RunTypes'
    BY <1>1, <1>3, <1>4, <1>5, <2>1 DEF RunTypes, PlanSteps
  <2>3. FlowOf(r)'
    BY <1>1, <1>3, <1>5, <2>1 DEF Flow, FlowOf, Active, Idle
  <2>4. ASSUME NEW q \in Runs \ {r} PROVE FlowOf(q)'
    <3>1. pub'[<<q, 0>>] = pub[<<q, 0>>]
      BY <2>1 DEF LogTypes, Producers
    <3>2. \A s \in Steps : task'[<<q, s>>] = task[<<q, s>>]
      BY <1>3, <1>5, <2>1
    <3> QED
      BY <1>1, <2>1, <3>1, <3>2, FlowOther DEF Flow
  <2> QED
    BY <2>2, <2>3, <2>4 DEF Flow
<1>7. ASSUME NEW s \in PlanSteps(r),
             Launch(r, s) \/ Skip(r, s) \/ FailDeadlocked(r, s) \/ CancelStep(r, s)
      PROVE  RunTypes' /\ Flow'
  <2>1. s \in Steps
    BY StepsArePlanned
  <2>2. PICK k \in {"StepScheduled", "StepCancelled", "StepFailed"},
             x \in {"running", "cancelled", "failed"} :
            /\ PublishStep(<<r, 0>>, k, r, s, x)
            /\ \/ Launch(r, s) /\ k = "StepScheduled" /\ x = "running"
               \/ (Skip(r, s) \/ CancelStep(r, s)) /\ k = "StepCancelled" /\ x = "cancelled"
               \/ FailDeadlocked(r, s) /\ k = "StepFailed" /\ x = "failed"
    BY <1>7 DEF Launch, Skip, FailDeadlocked, CancelStep
  <2> DEFINE e == Event(k, r, s)
             plans == [live EXCEPT ![r][s] = x]
  <2>3. /\ e \in Events /\ e.kind = k /\ AreLive(plans) /\ Publish(<<r, 0>>, e, plans)
    <3>1. k \in Kinds /\ x \in Statuses
      BY DEF Kinds, ReplayKinds, StepKinds, Statuses
    <3>2. e \in Events /\ e.kind = k
      BY <2>1, <3>1, EventTyped
    <3> QED
      BY <1>2, <2>1, <2>2, <3>1, <3>2, StepPublished
  <2>4. live' = plans /\ pub' = [pub EXCEPT ![<<r, 0>>] = [event |-> e, copies |-> recorders]]
        /\ snapshot'.plan.owner = snapshot.plan.owner
    BY <1>1, <1>2, <2>3, StorePlan DEF Publish
  <2>5. /\ \A q \in Runs \ {r} : live'[q] = live[q] /\ pub'[<<q, 0>>] = pub[<<q, 0>>]
        /\ \A u \in PlanSteps(r) : live'[r][u] = IF u = s THEN x ELSE live[r][u]
    BY <1>2, <2>4 DEF LogTypes, Producers
  <2>6. Publishing(r)' = k
    BY <1>2, <2>3, <2>4 DEF Publishing, LogTypes
  <2>7. \A u \in Steps : task[<<r, u>>] # "none" => u \in PlanSteps(r)
    BY DEF RunTypes
  <2> HIDE DEF e, plans
  <2>8. CASE Launch(r, s) /\ k = "StepScheduled" /\ x = "running"
    <3>1. /\ main' = main /\ doomed' = doomed /\ task' = [Created(r) EXCEPT ![<<r, s>>] = "scheduled"]
          /\ main[r] = "loop" /\ live[r][s] = "pending"
      BY <2>8 DEF Launch, AtTop
    <3>2. \A q \in Runs : \A u \in Steps : task'[<<q, u>>] =
              IF q = r /\ u = s THEN "scheduled"
              ELSE IF q = r /\ task[<<q, u>>] = "scheduled" THEN "created" ELSE task[<<q, u>>]
      BY <1>3, <1>4, <1>5, <2>1, <3>1
    <3>3. RunTypes'
      <4>1. task' \in [StepsOf -> TaskStates]
        BY <1>4, <3>1 DEF TaskStates
      <4>2. \A q \in Runs : \A u \in Steps : task'[<<q, u>>] # "none" => u \in PlanSteps(q)
        BY <3>2 DEF RunTypes
      <4> QED
        BY <1>1, <3>1, <4>1, <4>2 DEF RunTypes, PlanSteps
    <3>4. FlowOf(r)'
      <4>1. \A u \in Steps : <<r, u>> \notin doomed /\ <<r, u>> \notin interrupted
        BY <3>1 DEF RunTypes, Flow, FlowOf
      <4>2. \A u \in Steps : task'[<<r, u>>] =
                IF u = s THEN "scheduled"
                ELSE IF task[<<r, u>>] = "scheduled" THEN "created" ELSE task[<<r, u>>]
        BY <3>2
      <4>3. ASSUME NEW u \in Steps, Active(<<r, u>>)' PROVE live'[r][u] = "running"
        BY <1>1, <2>1, <2>5, <2>7, <2>8, <3>1, <4>1, <4>2, <4>3 DEF Flow, FlowOf, Active
      <4> QED
        BY <1>1, <2>4, <2>6, <2>8, <3>1, <4>1, <4>3 DEF Flow, FlowOf, Idle
    <3>5. ASSUME NEW q \in Runs \ {r} PROVE FlowOf(q)'
      <4>1. \A u \in Steps : task'[<<q, u>>] = task[<<q, u>>]
        BY <3>2
      <4> QED
        BY <1>1, <2>5, <3>1, <4>1, FlowOther DEF Flow
    <3> QED
      BY <3>3, <3>4, <3>5 DEF Flow
  <2>9. CASE Skip(r, s) /\ k = "StepCancelled" /\ x = "cancelled"
    <3>1. UNCHANGED runVars /\ main[r] = "loop" /\ live[r][s] = "pending"
          /\ Publishing(r) # "StepScheduled"
      BY <2>9 DEF Skip, AtTop
    <3>2. RunTypes'
      BY <3>1 DEF RunTypes, runVars, PlanSteps
    <3>3. FlowOf(r)'
      BY <1>1, <2>1, <2>2, <2>4, <2>5, <2>6, <2>7, <2>9, <3>1 DEF Flow, FlowOf, Active, Idle, runVars
    <3>4. ASSUME NEW q \in Runs \ {r} PROVE FlowOf(q)'
      BY <1>1, <2>4, <2>5, <3>1, FlowOther DEF Flow, runVars
    <3> QED
      BY <3>2, <3>3, <3>4 DEF Flow
  <2>10. CASE CancelStep(r, s) /\ k = "StepCancelled" /\ x = "cancelled"
    <3>1. /\ main' = [main EXCEPT ![r] = "cancelling"] /\ task' = task
          /\ doomed' = doomed \cup {t \in StepsOf : t[1] = r /\ task[t] \notin {"none", "done"}}
          /\ main[r] = "loop" => Publishing(r) # "StepScheduled"
      BY <2>10 DEF CancelStep, AtTop
    <3>2. main'[r] = "cancelling" /\ \A u \in Steps : task[<<r, u>>] # "scheduled"
      BY <1>1, <3>1 DEF Flow, FlowOf, RunTypes
    <3>3. \A q \in Runs : \A u \in Steps : <<q, u>> \in doomed' <=>
              <<q, u>> \in doomed \/ (q = r /\ task[<<q, u>>] \notin {"none", "done"})
      BY <1>5, <3>1
    <3>4. RunTypes'
      BY <1>1, <3>1 DEF RunTypes, PlanSteps, MainStates
    <3>5. FlowOf(r)'
      BY <1>1, <2>2, <2>4, <2>6, <2>10, <3>1, <3>2, <3>3 DEF Flow, FlowOf, Active, Idle
    <3>6. ASSUME NEW q \in Runs \ {r} PROVE FlowOf(q)'
      BY <1>1, <2>4, <2>5, <3>1, <3>3, FlowOther DEF Flow
    <3> QED
      BY <3>4, <3>5, <3>6 DEF Flow
  <2>11. CASE FailDeadlocked(r, s) /\ k = "StepFailed" /\ x = "failed"
    <3>1. /\ main' = [main EXCEPT ![r] = "deadlocked"] /\ UNCHANGED <<task, doomed>>
          /\ main[r] \in {"loop", "deadlocked"}
          /\ main[r] = "loop" => \A u \in PlanSteps(r) : task[<<r, u>>] \in {"none", "done"}
      BY <2>11 DEF FailDeadlocked, AllTasksDone
    <3>2. /\ main'[r] = "deadlocked"
          /\ \A u \in Steps : /\ task[<<r, u>>] # "scheduled" /\ ~Active(<<r, u>>)
                               /\ <<r, u>> \notin doomed
      <4>1. ASSUME NEW u \in Steps, main[r] = "loop" PROVE task[<<r, u>>] \in {"none", "done"}
        BY <2>7, <3>1, <4>1
      <4> QED
        BY <3>1, <4>1 DEF Flow, FlowOf, Active, RunTypes
    <3>3. RunTypes'
      BY <1>1, <3>1 DEF RunTypes, PlanSteps, MainStates
    <3>4. FlowOf(r)'
      BY <1>1, <2>4, <2>6, <2>11, <3>1, <3>2 DEF Flow, FlowOf, Active, Idle
    <3>5. ASSUME NEW q \in Runs \ {r} PROVE FlowOf(q)'
      BY <1>1, <2>4, <2>5, <3>1, FlowOther DEF Flow
    <3> QED
      BY <3>3, <3>4, <3>5 DEF Flow
  <2> QED
    BY <2>2, <2>8, <2>9, <2>10, <2>11
<1> QED
  BY <1>6, <1>7

\* What the task of a step publishes, and when.
LEMMA TaskPublishes ==
  ASSUME RunTypes, LogTypes, Flow, NEW r \in Runs, NEW s \in Steps,
         Speaks(r, s)
  PROVE  /\ main[r] = "loop" /\ live[r][s] = "running" /\ s \in PlanSteps(r)
         /\ <<r, s>> \notin doomed /\ UNCHANGED <<session, main, token, doomed, interrupted>>
         /\ \E k \in Kinds \ {"PlanCreated"}, x \in Statuses, n \in TaskStates :
              /\ PublishStep(<<r, s>>, k, r, s, x)
              /\ task' = [task EXCEPT ![<<r, s>>] = n] /\ n \notin {"none", "scheduled", "created"}
              /\ x = "running" \/ n = "ending"
              /\ k \in Marking => Marks(k) = x
              /\ k \notin Marking => x = "running" /\ task[<<r, s>>] # "created"
<1>1. /\ Active(<<r, s>>) /\ task[<<r, s>>] # "none"
      /\ <<r, s>> \notin doomed /\ UNCHANGED <<session, main, token, doomed, interrupted>>
  BY DEF Speaks, Start, Abort, CallTool, ToolEnds, FinishStep, FailStep, WorkFrom, TaskMoves, Active
<1>2. main[r] = "loop" /\ live[r][s] = "running" /\ s \in PlanSteps(r)
  BY <1>1 DEF Flow, FlowOf, RunTypes
<1>3. /\ {"StepStarted", "StepCancelled", "ToolStarted", "ToolFinished", "ToolFailed", "StepFinished",
           "StepFailed"} \subseteq Kinds \ {"PlanCreated"}
      /\ {"running", "completed", "failed", "cancelled"} \subseteq Statuses
      /\ {"started", "ending", "calling", "succeeded", "failed"} \subseteq TaskStates
  BY DEF Kinds, ReplayKinds, StepKinds, Statuses, TaskStates
<1>4. CASE Start(r, s)
  BY <1>1, <1>2, <1>3, <1>4 DEF Start, TaskMoves, Marking, Marks
<1>5. CASE Abort(r, s)
  BY <1>1, <1>2, <1>3, <1>5 DEF Abort, TaskMoves, Marking, Marks
<1>6. CASE CallTool(r, s) \/ ToolEnds(r, s)
  BY <1>1, <1>2, <1>3, <1>6 DEF CallTool, ToolEnds, TaskMoves, Marking
<1>7. CASE FinishStep(r, s) \/ FailStep(r, s)
  BY <1>1, <1>2, <1>3, <1>7 DEF FinishStep, FailStep, TaskMoves, Marking, Marks
<1> QED
  BY <1>4, <1>5, <1>6, <1>7 DEF Speaks

\* A task publishes.
LEMMA TaskFlow ==
  ASSUME RunTypes, LogTypes, Flow, NEW r \in Runs, NEW s \in Steps,
         Speaks(r, s)
  PROVE  RunTypes' /\ Flow'
<1>1. /\ main[r] = "loop" /\ live[r][s] = "running" /\ s \in PlanSteps(r)
      /\ <<r, s>> \notin doomed /\ UNCHANGED <<session, main, token, doomed, interrupted>>
  BY TaskPublishes
<1>2. PICK k \in Kinds \ {"PlanCreated"}, x \in Statuses, n \in TaskStates :
          /\ PublishStep(<<r, s>>, k, r, s, x)
          /\ task' = [task EXCEPT ![<<r, s>>] = n] /\ n \notin {"none", "scheduled", "created"}
          /\ x = "running" \/ n = "ending"
  BY TaskPublishes
<1> DEFINE e == Event(k, r, s)
           plans == [live EXCEPT ![r][s] = x]
<1>3. <<r, s>> \in Producers /\ \A q \in Runs : <<q, 0>> \in Producers /\ <<q, 0>> # <<r, s>>
  BY StepsAssumption DEF Producers
<1>4. e \in Events /\ e.kind = k /\ AreLive(plans) /\ Publish(<<r, s>>, e, plans)
  BY <1>1, <1>2, <1>3, StepPublished, EventTyped
<1>5. /\ live' = plans /\ pub' = [pub EXCEPT ![<<r, s>>] = [event |-> e, copies |-> recorders]]
      /\ snapshot'.plan.owner = snapshot.plan.owner
  BY <1>1, <1>2, <1>3, <1>4, StorePlan DEF Publish
<1>6. /\ \A q \in Runs : pub'[<<q, 0>>] = pub[<<q, 0>>]
      /\ \A q \in Runs \ {r} : live'[q] = live[q]
      /\ \A u \in PlanSteps(r) : live'[r][u] = IF u = s THEN x ELSE live[r][u]
  BY <1>3, <1>5 DEF LogTypes, AreLive
<1>7. \A q \in Runs : \A u \in Steps : task'[<<q, u>>] =
          IF q = r /\ u = s THEN n ELSE task[<<q, u>>]
  BY <1>2 DEF RunTypes, StepsOf
<1>8. RunTypes'
  <2>1. task' \in [StepsOf -> TaskStates]
    BY <1>2 DEF RunTypes
  <2>2. \A q \in Runs : \A u \in Steps : task'[<<q, u>>] # "none" => u \in PlanSteps(q)
    BY <1>1, <1>7 DEF RunTypes
  <2> QED
    BY <1>1, <2>1, <2>2 DEF RunTypes, PlanSteps
<1>9. FlowOf(r)'
  <2>1. ASSUME NEW u \in Steps, Active(<<r, u>>)' PROVE live'[r][u] = "running"
    <3>1. u \in PlanSteps(r)
      BY <1>1, <1>7, <2>1 DEF RunTypes, Active
    <3> QED
      BY <1>1, <1>2, <1>6, <1>7, <2>1, <3>1 DEF Flow, FlowOf, Active
  <2>2. \A u \in Steps : <<r, u>> \notin interrupted
    BY <1>1 DEF RunTypes, Flow, FlowOf
  <2> QED
    BY <1>1, <1>2, <1>5, <1>6, <1>7, <2>1, <2>2 DEF Flow, FlowOf, Publishing
<1>10. ASSUME NEW q \in Runs \ {r} PROVE FlowOf(q)'
  <2>1. main[q] \in Idle
    BY <1>1 DEF Flow, FlowOf, Idle
  <2>2. \A u \in Steps : task'[<<q, u>>] = task[<<q, u>>]
    BY <1>7
  <2> QED
    BY <1>1, <1>6, <2>1, <2>2, FlowOther DEF Flow
<1> QED
  BY <1>8, <1>9, <1>10 DEF Flow

\* A task moves without publishing, or is cancelled.
LEMMA QuietTaskFlow ==
  ASSUME RunTypes, LogTypes, Flow, NEW r \in Runs, NEW s \in Steps,
         Execute(r, s) \/ Leave(r, s) \/ Interrupt(r, s)
  PROVE  RunTypes' /\ Flow'
<1>1. /\ UNCHANGED <<session, main, token, doomed, live, snapshot>>
      /\ pub' = [pub EXCEPT ![<<r, s>>] = NoEvent]
  BY DEF Execute, Leave, Interrupt, TaskMoves, Return
<1>2. \/ /\ interrupted' = interrupted /\ task[<<r, s>>] \in {"calling", "started"}
         /\ task' = [task EXCEPT ![<<r, s>>] = "executing"]
      \/ /\ interrupted' \in {interrupted, interrupted \cup {<<r, s>>}}
         /\ task' = [task EXCEPT ![<<r, s>>] = "done"]
         /\ <<r, s>> \in doomed \/ (interrupted' = interrupted /\ task[<<r, s>>] = "ending")
  BY DEF Execute, WorkFrom, Leave, Interrupt, TaskMoves
<1>3. \A q \in Runs : pub'[<<q, 0>>] = pub[<<q, 0>>]
  BY <1>1, StepsAssumption DEF LogTypes, Producers
<1>4. PICK n \in {"executing", "done"} : task' = [task EXCEPT ![<<r, s>>] = n]
          /\ (n = "executing" => task[<<r, s>>] \in {"calling", "started"})
          /\ (task[<<r, s>>] = "none" => <<r, s>> \in doomed)
          /\ (n = "executing" => interrupted' = interrupted)
          /\ interrupted' \subseteq interrupted \cup {<<r, s>>}
  BY <1>2
<1>5. \A q \in Runs : \A u \in Steps : task'[<<q, u>>] =
          IF q = r /\ u = s THEN n ELSE task[<<q, u>>]
  BY <1>4 DEF RunTypes, StepsOf
<1>6. task[<<r, s>>] # "none"
  BY <1>4 DEF Flow, FlowOf
<1>7. RunTypes'
  <2>1. task' \in [StepsOf -> TaskStates]
    BY <1>4 DEF RunTypes, TaskStates
  <2>2. \A q \in Runs : \A u \in Steps : task'[<<q, u>>] # "none" => u \in PlanSteps(q)
    BY <1>5, <1>6 DEF RunTypes
  <2>3. interrupted' \subseteq doomed
    BY <1>2 DEF RunTypes, Interrupt
  <2> QED
    BY <1>1, <2>1, <2>2, <2>3 DEF RunTypes, PlanSteps
<1>8. \A q \in Runs : \A u \in Steps : <<q, u>> \in interrupted' =>
          <<q, u>> \in interrupted \/ (q = r /\ u = s /\ n = "done")
  BY <1>4
<1>9. FlowOf(r)'
  BY <1>1, <1>3, <1>4, <1>5, <1>8 DEF Flow, FlowOf, Publishing, Active
<1>10. ASSUME NEW q \in Runs \ {r} PROVE FlowOf(q)'
  BY <1>1, <1>3, <1>5, <1>8 DEF Flow, FlowOf, Publishing, Active
<1> QED
  BY <1>7, <1>9, <1>10 DEF Flow

\* The invariant of the runs is kept by every step.
LEMMA FlowKept ==
  ASSUME RunTypes, LogTypes, Flow, [Next]_vars PROVE RunTypes' /\ Flow'
<1>1. ASSUME NEW r \in Runs, End(r) PROVE RunTypes' /\ Flow'
  <2>1. /\ main' = [main EXCEPT ![r] = "ended"] /\ main[r] = "closing"
        /\ pub' = [pub EXCEPT ![<<r, 0>>] = NoEvent]
        /\ UNCHANGED <<session, task, token, doomed, interrupted, live, snapshot>>
    BY <1>1 DEF End, Return
  <2>2. RunTypes'
    BY <2>1 DEF RunTypes, MainStates, PlanSteps
  <2>3. FlowOf(r)'
    BY <2>1 DEF RunTypes, Flow, FlowOf, Active, Idle
  <2>4. ASSUME NEW q \in Runs \ {r} PROVE FlowOf(q)'
    <3>1. main[q] \in Idle /\ pub'[<<q, 0>>] = pub[<<q, 0>>] /\ main'[q] = main[q]
      BY <2>1 DEF RunTypes, LogTypes, Producers, Flow, FlowOf, Idle
    <3> QED
      BY <2>1, <3>1, FlowOther DEF Flow
  <2> QED
    BY <2>2, <2>3, <2>4 DEF Flow
<1>2. ASSUME UNCHANGED <<session, main, task, doomed, interrupted, live, pub, snapshot>>,
             token' \subseteq Runs
      PROVE  RunTypes' /\ Flow'
  BY <1>2 DEF RunTypes, Flow, FlowOf, Publishing, Active, PlanSteps
<1>3. ASSUME NEW r \in Runs, RequestCancellation(r) PROVE RunTypes' /\ Flow'
  BY <1>2, <1>3 DEF RequestCancellation, RunTypes
<1>4. CASE StopRecording \/ StartRecording \/ UNCHANGED vars
  BY <1>2, <1>4 DEF StopRecording, StartRecording, vars, runVars, RunTypes
<1> QED
  BY <1>1, <1>3, <1>4, MainFlow, LoopFlow, TaskFlow, QuietTaskFlow DEF Next, RunMain, RunTask, Speaks

-----------------------------------------------------------------------------
(* The store follows the plan.                                             *)

\* How the store's plan may differ from the scheduler's.
NotStarted(t) == task[t] \in {"scheduled", "created"} \/ t \in doomed
Behind(r, s) ==
    \/ snapshot.plan.status[s] = live[r][s]
    \/ snapshot.plan.status[s] = "pending" /\ live[r][s] = "running" /\ NotStarted(<<r, s>>)
Follows ==
    snapshot.plan.owner \in Runs /\ ~shared =>
        \A s \in PlanSteps(snapshot.plan.owner) : Behind(snapshot.plan.owner, s)

\* An event that gives no step another status.
LEMMA SameStatuses ==
  ASSUME RunTypes, LogTypes, Follows, session' = session, NEW p \in Producers, NEW e \in Events,
         Publish(p, e, live), e.kind \notin Marking \cup {"PlanCreated"},
         \A t \in StepsOf : NotStarted(t) => NotStarted(t)'
  PROVE  Follows'
<1>1. AreLive(live) /\ live' = live
  BY DEF LogTypes, Publish
<1>2. /\ snapshot'.plan.owner = snapshot.plan.owner
      /\ snapshot.plan.owner \in Runs => \A s \in PlanSteps(snapshot.plan.owner) :
            snapshot'.plan.status[s] =
                IF shared THEN live[snapshot.plan.owner][s] ELSE snapshot.plan.status[s]
  BY <1>1, StorePlan
<1>3. SUFFICES ASSUME snapshot.plan.owner \in Runs, NEW s \in PlanSteps(snapshot.plan.owner)
               PROVE  Behind(snapshot.plan.owner, s)'
  BY <1>2 DEF Follows, Behind, PlanSteps
<1>4. <<snapshot.plan.owner, s>> \in StepsOf
  BY <1>3, StepsArePlanned DEF StepsOf
<1> QED
  BY <1>1, <1>2, <1>3, <1>4 DEF Follows, Behind

\* An event of a step: it gives the store the plan's new status, or the two have
\* agreed before, or it launches the step, which the store does not look at.
LEMMA StepFollows ==
  ASSUME RunTypes, LogTypes, Follows, session' = session, NEW p \in Producers,
         NEW r \in Runs, NEW s \in PlanSteps(r), NEW k \in Kinds \ {"PlanCreated"},
         NEW x \in Statuses, PublishStep(p, k, r, s, x), snapshot.plan.owner = r,
         \/ k \in Marking /\ Marks(k) = x
         \/ k \notin Marking /\ x = live[r][s] /\ ~NotStarted(<<r, s>>)
         \/ k \notin Marking /\ live[r][s] = "pending" /\ x = "running" /\ NotStarted(<<r, s>>)',
         \A u \in Steps \ {s} : NotStarted(<<r, u>>) => NotStarted(<<r, u>>)'
  PROVE  Follows'
<1> DEFINE e == Event(k, r, s)
           plans == [live EXCEPT ![r][s] = x]
<1>1. s \in Steps
  BY StepsArePlanned
<1>2. e \in Events /\ e.kind = k /\ e.step = s /\ AreLive(plans) /\ Publish(p, e, plans)
  BY <1>1, StepPublished, EventTyped
<1>3. /\ live' = plans /\ snapshot'.plan.owner = r
      /\ \A u \in PlanSteps(r) : snapshot'.plan.status[u] =
            IF k \in Marking /\ u = s THEN Marks(k)
            ELSE IF shared THEN plans[r][u] ELSE snapshot.plan.status[u]
  <2> HIDE DEF e, plans
  <2>1. live' = plans
    BY <1>2 DEF Publish
  <2>2. e.kind # "PlanCreated"
    BY <1>2
  <2>3. /\ snapshot'.plan.owner = snapshot.plan.owner
        /\ snapshot.plan.owner \in Runs => \A u \in PlanSteps(snapshot.plan.owner) :
            snapshot'.plan.status[u] =
                IF e.kind \in Marking /\ u = e.step THEN Marks(e.kind)
                ELSE IF shared THEN plans[snapshot.plan.owner][u] ELSE snapshot.plan.status[u]
    BY <1>2, <2>2, StorePlan
  <2> QED
    BY <1>2, <2>1, <2>3
<1>4. \A u \in PlanSteps(r) : plans[r][u] = IF u = s THEN x ELSE live[r][u]
  BY DEF LogTypes, AreLive
<1> HIDE DEF e, plans
<1>5. SUFFICES ASSUME NEW u \in PlanSteps(r) PROVE Behind(r, u)'
  BY <1>3 DEF Follows, Behind, PlanSteps
<1>6. CASE u # s
  BY <1>3, <1>4, <1>6, StepsArePlanned DEF Follows, Behind
<1>7. CASE u = s
  BY <1>3, <1>4, <1>7 DEF Follows, Behind
<1> QED
  BY <1>6, <1>7

\* A step that leaves the store and the plan alone.
LEMMA QuietFollows ==
  ASSUME RunTypes, Follows, UNCHANGED <<session, live, snapshot, shared>>,
         \A t \in StepsOf : NotStarted(t) => NotStarted(t)'
  PROVE  Follows'
<1>1. \A r \in Runs : \A s \in PlanSteps(r) : <<r, s>> \in StepsOf
  BY StepsArePlanned DEF StepsOf
<1> QED
  BY <1>1 DEF Follows, Behind, PlanSteps

LEMMA FollowsKept ==
  ASSUME RunTypes, LogTypes, Flow, Follows, [Next]_vars PROVE Follows'
<1>1. \A r \in Runs : \A s \in Steps : <<r, s>> \in StepsOf /\ <<r, s>> \in Producers
                                       /\ <<r, 0>> \in Producers
  BY DEF StepsOf, Producers
<1>2. ASSUME NEW r \in Runs,
             Begin(r) \/ Receive(r) \/ Recall(r) \/ CreatePlan(r) \/ Answer(r) \/ Close(r)
      PROVE  Follows'
  <2>1. PICK k \in Kinds \ Marking, n \in MainStates : MainPublishes(r, k, n)
    <3>1. {"RuntimeStarted", "MessageReceived", "MemoryRetrieved", "PlanCreated", "MessageSent",
           "RuntimeStopped", "RuntimeFailed"} \subseteq Kinds \ Marking
      BY DEF Kinds, ReplayKinds, StepKinds, Marking
    <3>2. {"started", "asked", "recalled", "loop", "answered", "closing"} \subseteq MainStates
      BY DEF MainStates
    <3> QED
      BY <1>2, <3>1, <3>2 DEF Begin, Receive, Recall, CreatePlan, Answer, Close
  <2>2. /\ Event(k, r, 0) \in Events /\ Event(k, r, 0).kind = k /\ <<r, 0>> \in Producers
        /\ Publish(<<r, 0>>, Event(k, r, 0), live) /\ UNCHANGED <<session, task, doomed>>
    BY <2>1, EventTyped DEF MainPublishes, Producers
  <2>3. CASE k = "PlanCreated"
    BY <2>2, <2>3 DEF Publish, Follows
  <2>4. CASE k # "PlanCreated"
    BY <2>2, <2>4, SameStatuses DEF NotStarted
  <2> QED
    BY <2>3, <2>4
<1>3. ASSUME NEW r \in Runs, NEW s \in PlanSteps(r), Launch(r, s) PROVE Follows'
  <2>1. /\ PublishStep(<<r, 0>>, "StepScheduled", r, s, "running") /\ live[r][s] = "pending"
        /\ task' = [Created(r) EXCEPT ![<<r, s>>] = "scheduled"] /\ main[r] = "loop"
        /\ UNCHANGED <<session, doomed>> /\ s \in Steps
    BY <1>3, StepsArePlanned DEF Launch, AtTop
  <2>2. \A u \in Steps : task'[<<r, u>>] =
            IF u = s THEN "scheduled"
            ELSE IF task[<<r, u>>] = "scheduled" THEN "created" ELSE task[<<r, u>>]
    BY <1>1, <2>1 DEF Created
  <2>3. snapshot.plan.owner = r
    BY <2>1 DEF Flow, FlowOf
  <2>4. "StepScheduled" \in Kinds \ {"PlanCreated"} /\ "running" \in Statuses
        /\ "StepScheduled" \notin Marking
    BY DEF Kinds, ReplayKinds, StepKinds, Statuses, Marking
  <2>5. /\ NotStarted(<<r, s>>)'
        /\ \A u \in Steps \ {s} : NotStarted(<<r, u>>) => NotStarted(<<r, u>>)'
    BY <2>1, <2>2 DEF NotStarted
  <2> QED
    BY <1>1, <2>1, <2>3, <2>4, <2>5, StepFollows
<1>4. ASSUME NEW r \in Runs, NEW s \in PlanSteps(r),
             Skip(r, s) \/ FailDeadlocked(r, s) \/ CancelStep(r, s)
      PROVE  Follows'
  <2>1. /\ \/ PublishStep(<<r, 0>>, "StepCancelled", r, s, "cancelled")
           \/ PublishStep(<<r, 0>>, "StepFailed", r, s, "failed")
        /\ main[r] \in {"loop", "cancelling", "deadlocked"} /\ UNCHANGED <<session, task>>
        /\ \A t \in StepsOf : t \in doomed => t \in doomed'
    BY <1>4 DEF Skip, FailDeadlocked, CancelStep, AtTop, runVars
  <2>2. snapshot.plan.owner = r
    BY <2>1 DEF Flow, FlowOf
  <2>3. /\ {"StepCancelled", "StepFailed"} \subseteq Kinds \ {"PlanCreated"}
        /\ {"StepCancelled", "StepFailed"} \subseteq Marking
        /\ {"cancelled", "failed"} \subseteq Statuses
        /\ Marks("StepCancelled") = "cancelled" /\ Marks("StepFailed") = "failed"
    BY DEF Kinds, ReplayKinds, StepKinds, Statuses, Marking, Marks
  <2>4. s \in Steps
    BY StepsArePlanned
  <2>5. \A u \in Steps \ {s} : NotStarted(<<r, u>>) => NotStarted(<<r, u>>)'
    BY <1>1, <2>1 DEF NotStarted
  <2> QED
    BY <1>1, <2>1, <2>2, <2>3, <2>4, <2>5, StepFollows
<1>5. ASSUME NEW r \in Runs, NEW s \in Steps, Speaks(r, s)
      PROVE  Follows'
  <2>1. /\ main[r] = "loop" /\ live[r][s] = "running" /\ s \in PlanSteps(r)
        /\ <<r, s>> \notin doomed /\ UNCHANGED <<session, doomed>>
    BY <1>5, TaskPublishes
  <2>2. PICK k \in Kinds \ {"PlanCreated"}, x \in Statuses, n \in TaskStates :
            /\ PublishStep(<<r, s>>, k, r, s, x) /\ task' = [task EXCEPT ![<<r, s>>] = n]
            /\ k \in Marking => Marks(k) = x
            /\ k \notin Marking => x = "running" /\ task[<<r, s>>] # "created"
    BY <1>5, TaskPublishes
  <2>3. task[<<r, s>>] # "scheduled"
    BY <1>5 DEF Speaks, Start, Abort, CallTool, ToolEnds, FinishStep, FailStep, WorkFrom, TaskMoves
  <2>4. \A u \in Steps \ {s} : NotStarted(<<r, u>>) => NotStarted(<<r, u>>)'
    BY <2>1, <2>2 DEF NotStarted, RunTypes, StepsOf
  <2>5. snapshot.plan.owner = r
    BY <2>1 DEF Flow, FlowOf
  <2>6. k \notin Marking => x = live[r][s] /\ ~NotStarted(<<r, s>>)
    BY <2>1, <2>2, <2>3 DEF NotStarted
  <2> QED
    BY <1>1, <2>1, <2>2, <2>4, <2>5, <2>6, StepFollows
<1>6. ASSUME NEW r \in Runs, Wait(r) PROVE Follows'
  <2>1. UNCHANGED <<session, live, snapshot, shared, doomed>> /\ task' = Created(r)
    BY <1>6 DEF Wait, Return
  <2>2. \A t \in StepsOf : NotStarted(t) => NotStarted(t)'
    BY <2>1 DEF NotStarted, Created
  <2> QED
    BY <2>1, <2>2, QuietFollows
<1>7. ASSUME NEW r \in Runs, NEW s \in Steps, Execute(r, s) \/ Leave(r, s) \/ Interrupt(r, s)
      PROVE  Follows'
  <2>1. PICK n : /\ UNCHANGED <<session, live, snapshot, shared, doomed>>
                 /\ task' = [task EXCEPT ![<<r, s>>] = n]
                 /\ task[<<r, s>>] \in {"calling", "started", "ending"} \/ <<r, s>> \in doomed
    BY <1>7 DEF Execute, WorkFrom, Leave, Interrupt, TaskMoves, Return
  <2>2. \A t \in StepsOf : NotStarted(t) => NotStarted(t)'
    BY <2>1 DEF NotStarted, RunTypes
  <2> QED
    BY <2>1, <2>2, QuietFollows
<1>8. CASE UNCHANGED vars \/ StopRecording \/ StartRecording
           \/ \E r \in Runs : End(r) \/ RequestCancellation(r)
  <2>1. UNCHANGED <<session, live, snapshot, shared, task, doomed>>
    BY <1>8 DEF vars, runVars, StopRecording, StartRecording, End, RequestCancellation, Return
  <2> QED
    BY <2>1, QuietFollows DEF NotStarted
<1> QED
  BY <1>2, <1>3, <1>4, <1>5, <1>6, <1>7, <1>8 DEF Next, RunMain, RunTask, Speaks

-----------------------------------------------------------------------------
(* No event is lost or doubled.                                            *)

\* The producers with an event that has not reached the recorder.
Carrying == {p \in Producers : pub[p] # NoEvent}

\* An event comes once for each subscription there was when it was published.
Conserved ==
    /\ recorders # 0
    /\ \A p \in Producers : pub[p] # NoEvent => pub[p].copies \in 1..recorders
    /\ EventsConserved

LEMMA Finite ==
  ASSUME RunTypes
  PROVE  /\ IsFiniteSet(Carrying) /\ IsFiniteSet(interrupted)
         /\ Cardinality(Carrying) \in Nat /\ Cardinality(interrupted) \in Nat
<1>1. IsFiniteSet(Steps \cup {0})
  BY StepsAssumption, FS_AddElement
<1>2. IsFiniteSet(Producers) /\ IsFiniteSet(StepsOf)
  BY <1>1, StepsAssumption, FS_Product DEF Producers, StepsOf
<1>3. Carrying \subseteq Producers /\ interrupted \subseteq StepsOf
  BY DEF Carrying, RunTypes
<1>4. IsFiniteSet(Carrying) /\ IsFiniteSet(interrupted)
  BY <1>2, <1>3, FS_Subset
<1> QED
  BY <1>4, FS_CardinalityType

LEMMA ConservedKept ==
  ASSUME RunTypes, LogTypes, Flow, Conserved, [Next]_vars PROVE Conserved'
<1>1. IsFiniteSet(Carrying) /\ Cardinality(Carrying) \in Nat
      /\ IsFiniteSet(interrupted) /\ Cardinality(interrupted) \in Nat
  BY Finite
<1>2. snapshot.sequence \in Nat /\ Len(recorded) \in Nat /\ recorders \in Nat
  BY LenProperties DEF LogTypes, States
<1>3. EventsConserved <=>
        (bound = Unbound /\ Whole =>
            snapshot.sequence = Len(recorded) + Cardinality(Carrying) + Cardinality(interrupted))
  BY DEF EventsConserved, Carrying
<1>4. EventsConserved' <=>
        ((bound = Unbound /\ Whole)' =>
            snapshot'.sequence = Len(recorded') + Cardinality(Carrying') + Cardinality(interrupted'))
  BY DEF EventsConserved, Carrying
<1>5. ASSUME NEW p \in Producers
      PROVE  /\ p \in Carrying <=> pub[p] # NoEvent
             /\ Whole /\ bound = Unbound =>
                  Len(RecordedAfter(p)) = Len(recorded) + (IF p \in Carrying THEN 1 ELSE 0)
  <2>1. Whole /\ bound = Unbound => Len(RecordedAfter(p)) = Len(recorded) + pub[p].copies
    BY RecordedAfterTyped DEF Whole
  <2>2. Whole => pub[p].copies = IF p \in Carrying THEN 1 ELSE 0
    BY NoEventApart DEF Conserved, Carrying, Whole
  <2> QED
    BY <2>1, <2>2 DEF Carrying
<1>6. \A p \in Carrying : Cardinality(Carrying \ {p}) = Cardinality(Carrying) - 1
  BY <1>1, FS_RemoveElement
<1>7. \A p : p \notin Carrying => Cardinality(Carrying \cup {p}) = Cardinality(Carrying) + 1
  BY <1>1, FS_AddElement
<1>8. ASSUME NEW p \in Producers, NEW e \in Events, NEW plans, AreLive(plans),
             Publish(p, e, plans), UNCHANGED <<session, interrupted>>
      PROVE  Conserved'
  <2>1. /\ pub' = [pub EXCEPT ![p] = [event |-> e, copies |-> recorders]] /\ pub'[p] # NoEvent
        /\ snapshot'.sequence = snapshot.sequence + 1
    BY <1>8, Published
  <2>2. recorded' = RecordedAfter(p) /\ UNCHANGED <<bound, recording, recorders>>
    BY <1>8 DEF Publish, recorderVars
  <2>3. Carrying' = Carrying \cup {p}
    BY <2>1 DEF Carrying, LogTypes
  <2>4. Carrying' = IF p \in Carrying THEN Carrying ELSE Carrying \cup {p}
    BY <2>3
  <2>5. EventsConserved'
    <3>1. SUFFICES ASSUME bound = Unbound /\ Whole
                   PROVE  snapshot'.sequence =
                            Len(recorded') + Cardinality(Carrying') + Cardinality(interrupted')
      BY <1>4, <2>2 DEF Whole
    <3>2. snapshot.sequence = Len(recorded) + Cardinality(Carrying) + Cardinality(interrupted)
      BY <1>3, <3>1 DEF Conserved
    <3>3. /\ Len(recorded') = Len(recorded) + (IF p \in Carrying THEN 1 ELSE 0)
          /\ Cardinality(Carrying') = Cardinality(Carrying) + (IF p \in Carrying THEN 0 ELSE 1)
      BY <1>1, <1>5, <1>7, <2>2, <2>4, <3>1
    <3> QED
      BY <1>1, <1>2, <1>8, <2>1, <3>2, <3>3
  <2>6. \A q \in Producers : pub'[q] # NoEvent => pub'[q].copies \in 1..recorders'
    BY <1>2, <2>1, <2>2 DEF Conserved, LogTypes
  <2> QED
    BY <2>2, <2>5, <2>6 DEF Conserved
<1>9. ASSUME NEW p \in Producers, pub' = [pub EXCEPT ![p] = NoEvent]
      PROVE  /\ Carrying' = IF p \in Carrying THEN Carrying \ {p} ELSE Carrying
             /\ UNCHANGED recorders =>
                  \A q \in Producers : pub'[q] # NoEvent => pub'[q].copies \in 1..recorders'
  BY <1>9 DEF Carrying, LogTypes, Conserved
<1>10. ASSUME NEW p \in Producers, Return(p), UNCHANGED <<session, interrupted>> PROVE Conserved'
  <2>1. /\ pub' = [pub EXCEPT ![p] = NoEvent] /\ recorded' = RecordedAfter(p)
        /\ UNCHANGED <<snapshot, bound, recording, recorders>>
    BY <1>10 DEF Return, recorderVars
  <2>2. EventsConserved'
    <3>1. SUFFICES ASSUME bound = Unbound /\ Whole
                   PROVE  snapshot'.sequence =
                            Len(recorded') + Cardinality(Carrying') + Cardinality(interrupted')
      BY <1>4, <2>1 DEF Whole
    <3>2. snapshot.sequence = Len(recorded) + Cardinality(Carrying) + Cardinality(interrupted)
      BY <1>3, <3>1 DEF Conserved
    <3>3. /\ Len(recorded') = Len(recorded) + (IF p \in Carrying THEN 1 ELSE 0)
          /\ Cardinality(Carrying') = Cardinality(Carrying) - (IF p \in Carrying THEN 1 ELSE 0)
      <4>1. Carrying' = IF p \in Carrying THEN Carrying \ {p} ELSE Carrying
        BY <1>9, <2>1
      <4>2. CASE p \in Carrying
        BY <1>5, <1>6, <2>1, <3>1, <4>1, <4>2
      <4>3. CASE p \notin Carrying
        BY <1>1, <1>5, <2>1, <3>1, <4>1, <4>3
      <4> QED
        BY <4>2, <4>3
    <3> QED
      BY <1>1, <1>2, <1>10, <2>1, <3>2, <3>3
  <2> QED
    BY <1>9, <2>1, <2>2 DEF Conserved
<1>11. ASSUME NEW r \in Runs, NEW s \in Steps, Interrupt(r, s) PROVE Conserved'
  <2> DEFINE t == <<r, s>>
  <2>1. /\ pub' = [pub EXCEPT ![t] = NoEvent] /\ t \in Producers
        /\ UNCHANGED <<snapshot, recorded, bound, recording, recorders>>
        /\ interrupted' = IF t \in Carrying THEN interrupted \cup {t} ELSE interrupted
    BY <1>11 DEF Interrupt, Producers, recorderVars, Carrying
  <2>2. t \notin interrupted
    BY <1>11 DEF Interrupt, Flow, FlowOf
  <2>3. Cardinality(interrupted \cup {t}) = Cardinality(interrupted) + 1
    BY <1>1, <2>2, FS_AddElement
  <2> HIDE DEF t
  <2>4. EventsConserved'
    <3>1. SUFFICES ASSUME bound = Unbound /\ Whole
                   PROVE  snapshot'.sequence =
                            Len(recorded') + Cardinality(Carrying') + Cardinality(interrupted')
      BY <1>4, <2>1 DEF Whole
    <3>2. snapshot.sequence = Len(recorded) + Cardinality(Carrying) + Cardinality(interrupted)
      BY <1>3, <3>1 DEF Conserved
    <3>3. /\ Cardinality(Carrying') = Cardinality(Carrying) - (IF t \in Carrying THEN 1 ELSE 0)
          /\ Cardinality(interrupted') = Cardinality(interrupted) + (IF t \in Carrying THEN 1 ELSE 0)
      <4>1. Carrying' = IF t \in Carrying THEN Carrying \ {t} ELSE Carrying
        BY <1>9, <2>1
      <4>2. CASE t \in Carrying
        BY <1>6, <2>1, <2>3, <4>1, <4>2
      <4>3. CASE t \notin Carrying
        BY <1>1, <2>1, <4>1, <4>3
      <4> QED
        BY <4>2, <4>3
    <3> QED
      BY <1>1, <1>2, <2>1, <3>2, <3>3
  <2> QED
    BY <1>9, <2>1, <2>4 DEF Conserved
<1>12. CASE StopRecording
  BY <1>4, <1>12 DEF StopRecording, Conserved, Whole
<1>13. CASE StartRecording
  <2>1. recorders' = recorders + 1 /\ pub' = pub
    BY <1>13 DEF StartRecording
  <2> QED
    BY <1>2, <1>4, <2>1 DEF Conserved, Whole
<1>14. CASE LogStays
  BY <1>14 DEF LogStays, Conserved, EventsConserved, Whole, recorderVars
<1> QED
  BY <1>8, <1>10, <1>11, <1>12, <1>13, <1>14, LogSteps DEF Publishes, Returns, Interrupts

-----------------------------------------------------------------------------
(* The theorems.                                                           *)

Inv == RunTypes /\ LogTypes /\ Flow /\ Follows /\ Conserved

LEMMA InitEstablishes == ASSUME Init PROVE Inv
<1>2. session.bounds \subseteq Runs \cup {Unbound} /\ session \in Sessions
  BY SessionsAssumption DEF Init
<1>3. /\ task = [t \in StepsOf |-> "none"] /\ main = [r \in Runs |-> "new"]
      /\ token = {} /\ doomed = {} /\ interrupted = {} /\ pub = [p \in Producers |-> NoEvent]
  BY DEF Init
<1>4. \A r \in Runs : \A s \in Steps : <<r, s>> \in StepsOf /\ <<r, 0>> \in Producers
  BY DEF StepsOf, Producers
<1>5. RunTypes
  BY <1>2, <1>3, <1>4 DEF RunTypes, MainStates, TaskStates
<1>6. snapshot = InitialState /\ snapshot.plan = NoPlan /\ snapshot.sequence = 0
      /\ snapshot.plan.owner \notin Runs /\ shared = FALSE
  BY NoPlanApart DEF Init, InitialState
<1>7. snapshot \in States
  BY <1>6 DEF InitialState, States, PlanViews
<1>8. AreLive(live)
  <2>1. \A r \in Runs : PlanOf(r).status \in [PlanSteps(r) -> Statuses]
    BY DEF PlanOf, Statuses
  <2> QED
    BY <2>1 DEF Init, AreLive
<1>9. LogTypes
  <2>1. pub \in [Producers -> PubStates]
    BY <1>3 DEF PubStates
  <2>2. /\ bound \in Runs \cup {Unbound} /\ recording \in BOOLEAN
        /\ recorders \in Nat /\ recorded \in Seq(Events)
    BY <1>2, EmptySeq DEF Init
  <2> QED
    BY <1>6, <1>7, <1>8, <2>1, <2>2 DEF LogTypes
<1>10. Flow
  BY <1>3, <1>4 DEF Flow, FlowOf, Idle, Active
<1>11. Follows
  BY <1>6 DEF Follows
<1>12. Conserved
  <2>1. Carrying = {}
    BY <1>3 DEF Carrying
  <2>2. Cardinality({}) = 0
    BY FS_EmptySet
  <2>3. recorded = <<>> /\ Len(recorded) = 0 /\ recorders = 1
    BY DEF Init
  <2>4. Cardinality({p \in Producers : pub[p] # NoEvent}) = 0 /\ Cardinality(interrupted) = 0
    BY <1>3, <2>1, <2>2 DEF Carrying
  <2>5. EventsConserved
    BY <1>6, <2>3, <2>4 DEF EventsConserved
  <2> QED
    BY <1>3, <2>3, <2>5 DEF Conserved
<1> QED
  BY <1>5, <1>9, <1>10, <1>11, <1>12 DEF Inv

LEMMA Invariant == Spec => []Inv
<1>1. Init => Inv
  BY InitEstablishes
<1>2. Inv /\ [Next]_vars => Inv'
  BY LogTypesKept, FlowKept, FollowsKept, ConservedKept DEF Inv
<1> QED
  BY <1>1, <1>2, PTL DEF Spec

\* Type correctness: only tasks that exist are cancelled and only cancelled ones
\* interrupted (DAGScheduler.execute_plan), and the plan the store shows is the
\* one of a run, with all its steps (reduce_state).
THEOREM EventLogTypes == Spec => []TypeOK
<1>1. ASSUME Inv PROVE TypeOK
  <2> USE <1>1 DEF Inv
  <2>1. doomed \subseteq {t \in StepsOf : task[t] \notin {"none", "scheduled"}}
    BY DEF RunTypes, Flow, FlowOf, StepsOf
  <2>2. \A p \in Producers : pub[p] = NoEvent \/ pub[p].event \in Events
    BY DEF LogTypes, PubStates
  <2>3. /\ snapshot.plan \in PlanViews /\ View.plan \in PlanViews
    BY ShownTyped DEF LogTypes, States, View
  <2>4. /\ snapshot.plan = NoPlan \/ snapshot.plan.owner \in Runs
        /\ View.plan = NoPlan \/ View.plan.status \in [PlanSteps(View.plan.owner) -> Statuses]
    BY <2>3, NoPlanApart
  <2> QED
    BY <2>1, <2>2, <2>4 DEF TypeOK, RunTypes, LogTypes, AreLive, MainStates, TaskStates
<1> QED
  BY <1>1, Invariant, PTL

\* The store shows the plan as the scheduler has it, though reduce_state hears of
\* it in events only, however many steps run, fail, are skipped or cancelled in
\* whatever order; a step launched but not started may still be shown pending.
THEOREM StoreIsTruth == Spec => []StoreFollowsPlan
<1>1. ASSUME Inv PROVE StoreFollowsPlan
  <2> USE <1>1 DEF Inv
  <2>1. /\ View.plan.owner = snapshot.plan.owner
        /\ View.plan = NoPlan <=> snapshot.plan = NoPlan
        /\ \A s : View.plan.status[s] =
             IF shared THEN live[snapshot.plan.owner][s] ELSE snapshot.plan.status[s]
    BY ShownTyped DEF LogTypes, View
  <2>2. snapshot.plan # NoPlan => snapshot.plan.owner \in Runs
    BY NoPlanApart DEF LogTypes, States
  <2> QED
    BY <2>1, <2>2 DEF StoreFollowsPlan, Follows, Behind, NotStarted
<1> QED
  BY <1>1, Invariant, PTL

\* Every event the store has reduced (RuntimeEventBus.publish) is in the record
\* once, is held by a suspended publish, or was lost with the task cancelled in it.
THEOREM NoEventIsLost == Spec => []EventsConserved
<1>1. Inv => EventsConserved
  BY DEF Inv, Conserved
<1> QED
  BY <1>1, Invariant, PTL

=============================================================================
