--------------------------- MODULE EventReplayProofs ---------------------------
(***************************************************************************)
(* Theorems about the replay of a record in EventLog: how far it is behind *)
(* the store, and that it catches up when the runs are over.               *)
(***************************************************************************)
EXTENDS EventRecordProofs

-----------------------------------------------------------------------------
(* What is computed along a sequence.                                      *)

LEMMA Least ==
  ASSUME NEW T \in SUBSET Nat, T # {} PROVE \E x \in T : \A y \in T : ~(y < x)
<1>1. IsWellFoundedOn(OpToRel(<, Nat), Nat)
  BY NatLessThanWellFounded
<1>2. \E x \in T : \A y \in T : ~(<<y, x>> \in OpToRel(<, Nat))
  BY <1>1, WFMin
<1>3. \A x, y \in Nat : <<y, x>> \in OpToRel(<, Nat) <=> y < x
  BY DEF OpToRel
<1> QED
  BY <1>2, <1>3

\* The states of a replay of the first n events.
ReplayStates(f, plans, log, n) ==
    f = [i \in 0..n |-> IF i = 0 THEN InitialState ELSE ReplayEvent(plans, f[i - 1], log[i])]

\* The messages of a run among the first n.
OneMore(messages, m, r) == IF m[2] = r THEN Append(messages, m) ELSE messages
MessageStates(f, log, r, n) ==
    f = [i \in 0..n |-> IF i = 0 THEN <<>> ELSE OneMore(f[i - 1], log[i], r)]

LEMMA ReplayExists ==
  ASSUME NEW plans, NEW log, NEW n \in Nat PROVE \E f : ReplayStates(f, plans, log, n)
<1> DEFINE T == {m \in Nat : ~\E f : ReplayStates(f, plans, log, m)}
<1>1. SUFFICES ASSUME T # {} PROVE FALSE
  OBVIOUS
<1>2. PICK m \in T : \A k \in T : ~(k < m)
  BY <1>1, Least
<1>3. m # 0
  <2>1. ReplayStates([i \in 0..0 |-> InitialState], plans, log, 0)
    BY DEF ReplayStates
  <2> QED
    BY <1>2, <2>1
<1>4. PICK f : ReplayStates(f, plans, log, m - 1)
  BY <1>2, <1>3
<1> DEFINE g == [i \in 0..m |-> IF i = m THEN ReplayEvent(plans, f[m - 1], log[m]) ELSE f[i]]
<1>5. ASSUME NEW i \in 0..m
      PROVE  g[i] = IF i = 0 THEN InitialState ELSE ReplayEvent(plans, g[i - 1], log[i])
  <2>1. CASE i = m
    BY <1>2, <1>3, <2>1
  <2>2. CASE i # m
    <3>1. i \in 0..(m - 1) /\ i <= m - 1 /\ (i # 0 => i - 1 \in 0..m /\ i - 1 # m)
      BY <1>2, <1>3, <2>2
    <3>2. f[i] = IF i = 0 THEN InitialState ELSE ReplayEvent(plans, f[i - 1], log[i])
      BY <1>4, <3>1 DEF ReplayStates
    <3> QED
      BY <2>2, <3>1, <3>2
  <2> QED
    BY <2>1, <2>2
<1>6. g = [i \in 0..m |-> g[i]]
  OBVIOUS
<1> HIDE DEF g
<1>7. ReplayStates(g, plans, log, m)
  BY <1>5, <1>6 DEF ReplayStates
<1> QED
  BY <1>2, <1>7

\* Two computations agree as far as the sequences do.
LEMMA ReplaysAgree ==
  ASSUME NEW plans, NEW log, NEW new, NEW n \in Nat, NEW k \in Nat, n <= k,
         \A i \in 1..n : new[i] = log[i],
         NEW f, ReplayStates(f, plans, log, n), NEW g, ReplayStates(g, plans, new, k)
  PROVE  g[n] = f[n]
<1> DEFINE T == {i \in Nat : i <= n /\ g[i] # f[i]}
<1>1. SUFFICES ASSUME T # {} PROVE FALSE
  OBVIOUS
<1>2. PICK i \in T : \A j \in T : ~(j < i)
  BY <1>1, Least
<1>3. i \in 0..n /\ i \in 0..k
  BY <1>2
<1>4. /\ f[i] = IF i = 0 THEN InitialState ELSE ReplayEvent(plans, f[i - 1], log[i])
      /\ g[i] = IF i = 0 THEN InitialState ELSE ReplayEvent(plans, g[i - 1], new[i])
  BY <1>3 DEF ReplayStates
<1>5. CASE i = 0
  BY <1>2, <1>4, <1>5
<1>6. CASE i # 0
  <2>1. i - 1 \in Nat /\ i - 1 < i /\ i - 1 <= n /\ i \in 1..n
    BY <1>2, <1>6
  <2>2. g[i - 1] = f[i - 1]
    BY <1>2, <2>1
  <2> QED
    BY <1>2, <1>4, <1>6, <2>1, <2>2
<1> QED
  BY <1>5, <1>6

LEMMA ReplayIs ==
  ASSUME NEW plans, NEW log, Len(log) \in Nat, NEW f, ReplayStates(f, plans, log, Len(log))
  PROVE  ReplayOf(plans, log) = f[Len(log)]
<1> DEFINE F == CHOOSE state : state = [n \in 0..Len(log) |->
                    IF n = 0 THEN InitialState ELSE ReplayEvent(plans, state[n - 1], log[n])]
<1>1. ReplayOf(plans, log) = F[Len(log)]
  BY Zenon DEF ReplayOf
<1>2. F = [n \in 0..Len(log) |-> IF n = 0 THEN InitialState ELSE ReplayEvent(plans, F[n - 1], log[n])]
  BY Zenon DEF ReplayStates
<1> HIDE DEF F
<1>3. ReplayStates(F, plans, log, Len(log))
  BY <1>2 DEF ReplayStates
<1>4. Len(log) <= Len(log)
  OBVIOUS
<1>5. F[Len(log)] = f[Len(log)]
  BY <1>3, <1>4, ReplaysAgree
<1> QED
  BY <1>1, <1>5

\* A replay of no event, and of one more.
LEMMA ReplayOfNone == ASSUME NEW plans PROVE ReplayOf(plans, <<>>) = InitialState
<1>1. Len(<<>>) = 0
  OBVIOUS
<1>2. PICK f : ReplayStates(f, plans, <<>>, 0)
  BY ReplayExists
<1>3. f[0] = InitialState
  BY <1>2 DEF ReplayStates
<1> QED
  BY <1>1, <1>2, <1>3, ReplayIs

LEMMA ReplayOfMore ==
  ASSUME NEW plans, NEW log \in Seq(Events), NEW new \in Seq(Events), Len(new) = Len(log) + 1,
         \A i \in 1..Len(log) : new[i] = log[i]
  PROVE  ReplayOf(plans, new) = ReplayEvent(plans, ReplayOf(plans, log), new[Len(log) + 1])
<1> DEFINE n == Len(log)
<1>1. n \in Nat /\ n + 1 \in Nat /\ n <= n /\ n <= n + 1 /\ n + 1 \in 0..(n + 1) /\ n + 1 # 0 /\ (n + 1) - 1 = n
  BY LenProperties
<1>2. PICK f : ReplayStates(f, plans, log, n)
  BY <1>1, ReplayExists
<1>3. PICK g : ReplayStates(g, plans, new, n + 1)
  BY <1>1, ReplayExists
<1>4. g[n] = f[n]
  BY <1>1, <1>2, <1>3, ReplaysAgree
<1>5. g[n + 1] = ReplayEvent(plans, g[n], new[n + 1])
  BY <1>1, <1>3 DEF ReplayStates
<1>6. ReplayOf(plans, log) = f[n] /\ ReplayOf(plans, new) = g[n + 1]
  BY <1>1, <1>2, <1>3, ReplayIs
<1> QED
  BY <1>4, <1>5, <1>6

\* The same of the messages of a run.
LEMMA MessagesExist ==
  ASSUME NEW log, NEW r, NEW n \in Nat PROVE \E f : MessageStates(f, log, r, n)
<1> DEFINE T == {m \in Nat : ~\E f : MessageStates(f, log, r, m)}
<1>1. SUFFICES ASSUME T # {} PROVE FALSE
  OBVIOUS
<1>2. PICK m \in T : \A k \in T : ~(k < m)
  BY <1>1, Least
<1>3. m # 0
  <2>1. MessageStates([i \in 0..0 |-> <<>>], log, r, 0)
    BY DEF MessageStates
  <2> QED
    BY <1>2, <2>1
<1>4. PICK f : MessageStates(f, log, r, m - 1)
  BY <1>2, <1>3
<1> DEFINE g == [i \in 0..m |-> IF i = m THEN OneMore(f[m - 1], log[m], r) ELSE f[i]]
<1>5. ASSUME NEW i \in 0..m PROVE g[i] = IF i = 0 THEN <<>> ELSE OneMore(g[i - 1], log[i], r)
  <2>1. CASE i = m
    BY <1>2, <1>3, <2>1
  <2>2. CASE i # m
    <3>1. i \in 0..(m - 1) /\ i <= m - 1 /\ (i # 0 => i - 1 \in 0..m /\ i - 1 # m)
      BY <1>2, <1>3, <2>2
    <3>2. f[i] = IF i = 0 THEN <<>> ELSE OneMore(f[i - 1], log[i], r)
      BY <1>4, <3>1 DEF MessageStates
    <3> QED
      BY <2>2, <3>1, <3>2
  <2> QED
    BY <2>1, <2>2
<1>6. g = [i \in 0..m |-> g[i]]
  OBVIOUS
<1> HIDE DEF g
<1>7. MessageStates(g, log, r, m)
  BY <1>5, <1>6 DEF MessageStates
<1> QED
  BY <1>2, <1>7

LEMMA MessagesAgree ==
  ASSUME NEW log, NEW new, NEW r, NEW n \in Nat, NEW k \in Nat, n <= k,
         \A i \in 1..n : new[i] = log[i],
         NEW f, MessageStates(f, log, r, n), NEW g, MessageStates(g, new, r, k)
  PROVE  g[n] = f[n]
<1> DEFINE T == {i \in Nat : i <= n /\ g[i] # f[i]}
<1>1. SUFFICES ASSUME T # {} PROVE FALSE
  OBVIOUS
<1>2. PICK i \in T : \A j \in T : ~(j < i)
  BY <1>1, Least
<1>3. i \in 0..n /\ i \in 0..k
  BY <1>2
<1>4. /\ f[i] = IF i = 0 THEN <<>> ELSE OneMore(f[i - 1], log[i], r)
      /\ g[i] = IF i = 0 THEN <<>> ELSE OneMore(g[i - 1], new[i], r)
  BY <1>3 DEF MessageStates
<1>5. CASE i = 0
  BY <1>2, <1>4, <1>5
<1>6. CASE i # 0
  <2>1. i - 1 \in Nat /\ i - 1 < i /\ i - 1 <= n /\ i \in 1..n
    BY <1>2, <1>6
  <2>2. g[i - 1] = f[i - 1]
    BY <1>2, <2>1
  <2> QED
    BY <1>2, <1>4, <1>6, <2>1, <2>2
<1> QED
  BY <1>5, <1>6

LEMMA MessagesAre ==
  ASSUME NEW log, NEW r, Len(log) \in Nat, NEW f, MessageStates(f, log, r, Len(log))
  PROVE  MessagesOf(log, r) = f[Len(log)]
<1> DEFINE F == CHOOSE of : of = [n \in 0..Len(log) |->
                    IF n = 0 THEN <<>>
                    ELSE IF log[n][2] = r THEN Append(of[n - 1], log[n]) ELSE of[n - 1]]
<1>1. MessagesOf(log, r) = F[Len(log)]
  BY Zenon DEF MessagesOf
<1>2. F = [n \in 0..Len(log) |-> IF n = 0 THEN <<>> ELSE OneMore(F[n - 1], log[n], r)]
  BY Zenon DEF MessageStates, OneMore
<1> HIDE DEF F
<1>3. MessageStates(F, log, r, Len(log))
  BY <1>2 DEF MessageStates
<1>4. Len(log) <= Len(log)
  OBVIOUS
<1>5. F[Len(log)] = f[Len(log)]
  BY <1>3, <1>4, MessagesAgree
<1> QED
  BY <1>1, <1>5

LEMMA MessagesOfNone == ASSUME NEW r PROVE MessagesOf(<<>>, r) = <<>>
<1>1. Len(<<>>) = 0
  OBVIOUS
<1>2. PICK f : MessageStates(f, <<>>, r, 0)
  BY MessagesExist
<1>3. f[0] = <<>>
  BY <1>2 DEF MessageStates
<1> QED
  BY <1>1, <1>2, <1>3, MessagesAre

LEMMA MessagesOfMore ==
  ASSUME NEW log, NEW new, NEW r, NEW n \in Nat, Len(log) = n, Len(new) = n + 1,
         \A i \in 1..n : new[i] = log[i]
  PROVE  MessagesOf(new, r) = OneMore(MessagesOf(log, r), new[n + 1], r)
<1>1. n + 1 \in Nat /\ n <= n /\ n <= n + 1 /\ n + 1 \in 0..(n + 1) /\ n + 1 # 0 /\ (n + 1) - 1 = n
  OBVIOUS
<1>2. PICK f : MessageStates(f, log, r, n)
  BY MessagesExist
<1>3. PICK g : MessageStates(g, new, r, n + 1)
  BY <1>1, MessagesExist
<1>4. g[n] = f[n]
  BY <1>1, <1>2, <1>3, MessagesAgree
<1>5. g[n + 1] = OneMore(g[n], new[n + 1], r)
  BY <1>1, <1>3 DEF MessageStates
<1>6. MessagesOf(log, r) = f[n] /\ MessagesOf(new, r) = g[n + 1]
  BY <1>1, <1>2, <1>3, MessagesAre
<1> QED
  BY <1>4, <1>5, <1>6

-----------------------------------------------------------------------------
(* What the store and the replay hear of.                                  *)

\* The owner of the plan after an event.
OwnerAfter(owner, e) == IF e.kind = "PlanCreated" THEN e.run ELSE owner

StoreHears(e) ==
    /\ snapshot'.run = RunAfter(snapshot.run, e)
    /\ snapshot'.status = StatusAfter(snapshot.status, e)
    /\ snapshot'.messages = MessagesAfter(snapshot.messages, e)
    /\ snapshot'.plan.owner = OwnerAfter(snapshot.plan.owner, e)
    /\ snapshot'.calls = CountAfter(snapshot.calls, "ToolStarted", e)
    /\ snapshot'.succeeded = CountAfter(snapshot.succeeded, "ToolFinished", e)
    /\ snapshot'.failed = CountAfter(snapshot.failed, "ToolFailed", e)
    /\ snapshot'.current = CurrentAfter(snapshot.current, e)

\* The replay knows the events of the runs and of their steps, not those of the memory.
ReplayHears(e) ==
    /\ Replay'.run = IF e.kind = "MemoryRetrieved" THEN Replay.run ELSE RunAfter(Replay.run, e)
    /\ Replay'.status = StatusAfter(Replay.status, e)
    /\ Replay'.messages = MessagesAfter(Replay.messages, e)
    /\ Replay'.plan = PlanAfter(Replay.plan, e)
    /\ Replay'.calls = CountAfter(Replay.calls, "ToolStarted", e)
    /\ Replay'.succeeded = CountAfter(Replay.succeeded, "ToolFinished", e)
    /\ Replay'.failed = CountAfter(Replay.failed, "ToolFailed", e)
    /\ Replay'.current = CurrentAfter(Replay.current, e)

\* The event of a producer is one for the recorder.
Heard(p) == p \in Carrying /\ InScope(Said(p))

LEMMA OwnerOfPlan ==
  ASSUME NEW plan \in PlanViews, NEW e \in Events
  PROVE  PlanAfter(plan, e).owner = OwnerAfter(plan.owner, e)
<1>1. e.run \in Runs /\ Marks(e.kind) \in Statuses
  BY DEF Events, Marks, Statuses
<1>2. PlanOf(e.run).owner = e.run /\ Mark(plan, e.step, Marks(e.kind)).owner = plan.owner
  BY <1>1, PlanOfTyped, MarkTyped
<1> QED
  BY <1>2 DEF PlanAfter, OwnerAfter

LEMMA StoreHeard ==
  ASSUME LogTypes, NEW p \in Producers, NEW e \in Events, NEW plans, AreLive(plans), Publish(p, e, plans)
  PROVE  StoreHears(e)
<1> DEFINE old == Shown(plans)
<1>1. old \in States /\ old.plan.owner = snapshot.plan.owner
  BY ShownTyped
<1>2. /\ old.run = snapshot.run /\ old.status = snapshot.status /\ old.messages = snapshot.messages
      /\ old.calls = snapshot.calls /\ old.succeeded = snapshot.succeeded
      /\ old.failed = snapshot.failed /\ old.current = snapshot.current
  BY DEF Shown, LogTypes, States
<1>3. snapshot' = Reduce(Plans, old, e)
  BY DEF Publish
<1> HIDE DEF old
<1>4. old.plan \in PlanViews
  BY <1>1 DEF States
<1>5. snapshot'.plan.owner = OwnerAfter(snapshot.plan.owner, e)
  BY <1>1, <1>3, <1>4, Reduced, OwnerOfPlan
<1> QED
  BY <1>1, <1>2, <1>3, <1>5, Reduced DEF StoreHears

LEMMA NotReplayed ==
  ASSUME NEW st \in States, NEW e \in Events, e.kind \notin ReplayKinds
  PROVE  /\ e.kind = "MemoryRetrieved"
         /\ st.status = StatusAfter(st.status, e) /\ st.messages = MessagesAfter(st.messages, e)
         /\ st.plan = PlanAfter(st.plan, e) /\ st.current = CurrentAfter(st.current, e)
         /\ \A n, k : k # "MemoryRetrieved" => CountAfter(n, k, e) = n
<1>1. e.kind = "MemoryRetrieved"
  BY DEF Events, Kinds
<1> QED
  BY <1>1 DEF StatusAfter, MessagesAfter, PlanAfter, CurrentAfter, CountAfter, MessageKinds, Marking

\* What is recorded when a producer goes on.
LEMMA RecordGrows ==
  ASSUME LogTypes, Conserved, Whole, NEW p \in Producers, recorded' = RecordedAfter(p)
  PROVE  /\ recorded \in Seq(Events) /\ recorded' \in Seq(Events) /\ Len(recorded) \in Nat
         /\ DOMAIN recorded = 1..Len(recorded)
         /\ ~Heard(p) => recorded' = recorded
         /\ Heard(p) => /\ Said(p) \in Events /\ Len(recorded') = Len(recorded) + 1
                        /\ DOMAIN recorded' = DOMAIN recorded \cup {Len(recorded) + 1}
                        /\ \A i \in DOMAIN recorded : recorded'[i] = recorded[i]
                        /\ recorded'[Len(recorded) + 1] = Said(p)
<1>1. /\ recorded \in Seq(Events) /\ recorded' \in Seq(Events) /\ Len(recorded) \in Nat
      /\ DOMAIN recorded = 1..Len(recorded)
  BY RecordedAfterTyped, LenProperties DEF LogTypes
<1>2. CASE Heard(p)
  <2>1. Said(p) \in Events /\ pub[p].copies = 1
    BY <1>2, Recorded DEF Whole, Heard
  <2>2. Grows(recorded, recorded', Said(p), 1)
    BY <1>1, <1>2, <2>1, Recorded, Appended DEF Whole, Heard
  <2>3. DOMAIN recorded' = 1..(Len(recorded) + 1)
    BY <2>2 DEF Grows
  <2>4. DOMAIN recorded' = DOMAIN recorded \cup {Len(recorded) + 1}
    BY <1>1, <2>3
  <2> QED
    BY <1>1, <1>2, <2>1, <2>2, <2>4 DEF Grows
<1>3. CASE ~Heard(p)
  BY <1>1, <1>3, Recorded DEF Heard
<1> QED
  BY <1>2, <1>3

LEMMA Replayed ==
  ASSUME LogTypes, Conserved, Whole, Replay \in States, session' = session, NEW p \in Producers,
         recorded' = RecordedAfter(p)
  PROVE  /\ Replay' \in States
         /\ ~Heard(p) => Replay' = Replay
         /\ Heard(p) => Said(p) \in Events /\ ReplayHears(Said(p))
<1>1. Plans' = Plans /\ States' = States
  BY DEF Plans, PlanOf, PlanSteps, States, PlanViews
<1>2. CASE ~Heard(p)
  <2>1. recorded' = recorded
    BY <1>2, RecordGrows
  <2>2. Replay' = Replay
    BY <1>1, <2>1 DEF Replay
  <2> QED
    BY <1>2, <2>2
<1>3. CASE Heard(p)
  <2>1. /\ recorded \in Seq(Events) /\ recorded' \in Seq(Events) /\ Said(p) \in Events
        /\ Len(recorded') = Len(recorded) + 1 /\ DOMAIN recorded = 1..Len(recorded)
        /\ \A i \in DOMAIN recorded : recorded'[i] = recorded[i]
        /\ recorded'[Len(recorded) + 1] = Said(p)
    BY <1>3, RecordGrows
  <2>2. \A i \in 1..Len(recorded) : recorded'[i] = recorded[i]
    BY <2>1
  <2>3. ReplayOf(Plans, recorded') = ReplayEvent(Plans, ReplayOf(Plans, recorded), recorded'[Len(recorded) + 1])
    BY <2>1, <2>2, ReplayOfMore
  <2>4. Replay' = ReplayEvent(Plans, Replay, Said(p))
    BY <1>1, <2>1, <2>3 DEF Replay
  <2>5. CASE Said(p).kind \in ReplayKinds
    <3>1. Replay' = Reduce(Plans, Replay, Said(p)) /\ Said(p).kind # "MemoryRetrieved"
      BY <2>4, <2>5 DEF ReplayEvent, ReplayKinds, StepKinds
    <3>2. Replay' \in States /\ ReplayHears(Said(p))
      BY <2>1, <3>1, Reduced DEF ReplayHears
    <3> QED
      BY <1>3, <2>1, <3>2
  <2>6. CASE Said(p).kind \notin ReplayKinds
    <3>1. Replay' = Replay
      BY <2>4, <2>6 DEF ReplayEvent
    <3>2. ReplayHears(Said(p))
      BY <2>1, <2>6, <3>1, NotReplayed DEF ReplayHears
    <3> QED
      BY <1>3, <2>1, <3>1, <3>2
  <2> QED
    BY <2>5, <2>6
<1> QED
  BY <1>2, <1>3

-----------------------------------------------------------------------------
(* The steps, as far as the lag of the replay is concerned.                *)

\* What the coroutine of a run says, and the tasks and statuses it leaves.
MainTells(r, e) ==
    \/ \E k, n : MainMove(r, k, n) /\ e.kind = k /\ main'[r] = n
    \/ e.kind = "StepScheduled" /\ main[r] = "loop" /\ main'[r] = "loop"
    \/ e.kind = "StepCancelled" /\ main[r] \in {"loop", "cancelling"}
       /\ main'[r] \in {main[r], "cancelling"}
    \/ e.kind = "StepFailed" /\ main[r] \in {"loop", "deadlocked"} /\ main'[r] = "deadlocked"
MainLeaves(r) ==
    /\ \A q \in Runs : \A s \in Steps :
         \/ task'[<<q, s>>] = task[<<q, s>>]
         \/ task[<<q, s>>] \in {"none", "scheduled"} /\ task'[<<q, s>>] \in {"scheduled", "created"}
    /\ doomed' = doomed \/ main'[r] = "cancelling"
    /\ \A q \in Runs : \A s \in PlanSteps(q) :
         \/ live'[q][s] = live[q][s] \/ live'[q][s] = "running"
         \/ live'[q][s] = "cancelled" /\ Said(<<r, 0>>)' = Event("StepCancelled", q, s)
         \/ live'[q][s] = "failed" /\ Said(<<r, 0>>)' = Event("StepFailed", q, s)

MainEnds(r) ==
    \/ main[r] = "loop" /\ main'[r] = "loop"
    \/ main[r] = "closing" /\ main'[r] = "ended"

MainGoes(r) ==
    /\ UNCHANGED <<session, interrupted, bound>> /\ recorded' = RecordedAfter(<<r, 0>>)
    /\ \A q \in Runs \ {r} : main[q] \in Idle /\ main'[q] = main[q]
    /\ \A p \in Producers \ {<<r, 0>>} : pub'[p] = pub[p]
    /\ MainLeaves(r)
    /\ \/ \E e \in Events : /\ e.run = r /\ MainTells(r, e) /\ StoreHears(e)
                            /\ Said(<<r, 0>>)' = e /\ pub'[<<r, 0>>] # NoEvent
       \/ /\ snapshot' = snapshot /\ pub'[<<r, 0>>] = NoEvent
          /\ MainEnds(r)

TaskTells(r, s) ==
    /\ main[r] = "loop" /\ live[r][s] = "running" /\ s \in PlanSteps(r)
    /\ \E k \in Kinds : \E x, n :
        /\ TaskMove(r, s, k, x, n) /\ task'[<<r, s>>] = n /\ live'[r][s] = x
        /\ Event(k, r, s) \in Events /\ StoreHears(Event(k, r, s))
        /\ Said(<<r, s>>)' = Event(k, r, s) /\ pub'[<<r, s>>] # NoEvent
TaskGoes(r, s) ==
    /\ UNCHANGED <<session, interrupted, bound, main, doomed>>
    /\ <<r, s>> \notin doomed /\ recorded' = RecordedAfter(<<r, s>>)
    /\ \A p \in Producers \ {<<r, s>>} : pub'[p] = pub[p]
    /\ \A t \in StepsOf \ {<<r, s>>} : task'[t] = task[t]
    /\ \A q \in Runs : \A u \in PlanSteps(q) : <<q, u>> # <<r, s>> => live'[q][u] = live[q][u]
    /\ \/ TaskTells(r, s)
       \/ /\ snapshot' = snapshot /\ pub'[<<r, s>>] = NoEvent /\ live' = live
          /\ \/ task[<<r, s>>] = WorkFrom(r, s) /\ task'[<<r, s>>] = "executing"
             \/ task[<<r, s>>] = "ending" /\ task'[<<r, s>>] = "done"

NothingGoes == UNCHANGED <<session, main, task, live, doomed, interrupted, pub, snapshot, bound, recorded>>

LEMMA MainSpeaks ==
  ASSUME RunTypes, LogTypes, Flow, NEW r \in Runs,
         Begin(r) \/ Receive(r) \/ Recall(r) \/ CreatePlan(r) \/ Answer(r) \/ Close(r)
  PROVE  MainGoes(r)
<1>1. PICK k \in Kinds, n \in MainStates :
          /\ MainMove(r, k, n) /\ main' = [main EXCEPT ![r] = n] /\ main'[r] = n
          /\ Event(k, r, 0) \in Events /\ Publish(<<r, 0>>, Event(k, r, 0), live)
          /\ pub' = [pub EXCEPT ![<<r, 0>>] = [event |-> Event(k, r, 0), copies |-> recorders]]
  BY MainSays
<1>2. /\ \A q \in Runs \ {r} : main'[q] = main[q] /\ main[q] \in Idle
      /\ live' = live /\ UNCHANGED <<session, task, token, doomed, interrupted>>
  BY MainSays
<1>3. <<r, 0>> \in Producers /\ AreLive(live)
  BY DEF Producers, LogTypes
<1>4. StoreHears(Event(k, r, 0))
  BY <1>1, <1>3, StoreHeard
<1>5. /\ Said(<<r, 0>>)' = Event(k, r, 0) /\ pub'[<<r, 0>>] # NoEvent
      /\ \A p \in Producers \ {<<r, 0>>} : pub'[p] = pub[p]
  <2>1. [event |-> Event(k, r, 0), copies |-> recorders] # NoEvent
    BY <1>1, NoEventApart
  <2> QED
    BY <1>1, <1>3, <2>1 DEF Said, LogTypes
<1>6. bound' = bound /\ recorded' = RecordedAfter(<<r, 0>>)
  BY <1>1 DEF Publish, recorderVars
<1>7. MainLeaves(r)
  BY <1>2 DEF MainLeaves
<1>8. MainTells(r, Event(k, r, 0)) /\ Event(k, r, 0).run = r
  BY <1>1 DEF MainTells, Event
<1> QED
  BY <1>1, <1>2, <1>4, <1>5, <1>6, <1>7, <1>8 DEF MainGoes

\* An event of a step, from the coroutine of its run or from its task.
LEMMA StepHeard ==
  ASSUME LogTypes, NEW p \in Producers, NEW k, NEW r \in Runs, NEW s, NEW x, StepSaid(p, k, r, s, x)
  PROVE  /\ Event(k, r, s) \in Events /\ StoreHears(Event(k, r, s))
         /\ Said(p)' = Event(k, r, s) /\ pub'[p] # NoEvent
         /\ \A o \in Producers \ {p} : pub'[o] = pub[o]
         /\ bound' = bound /\ recorded' = RecordedAfter(p)
         /\ Event(k, r, s).run = r /\ Event(k, r, s).kind = k /\ Event(k, r, s).step = s
<1>1. /\ Event(k, r, s) \in Events
      /\ pub' = [pub EXCEPT ![p] = [event |-> Event(k, r, s), copies |-> recorders]]
  BY DEF StepSaid
<1>2. PICK plans : AreLive(plans) /\ Publish(p, Event(k, r, s), plans)
  BY DEF StepSaid
<1>3. StoreHears(Event(k, r, s))
  BY <1>1, <1>2, StoreHeard
<1>4. [event |-> Event(k, r, s), copies |-> recorders] # NoEvent
  BY <1>1, NoEventApart
<1>5. /\ Said(p)' = Event(k, r, s) /\ pub'[p] # NoEvent
      /\ \A o \in Producers \ {p} : pub'[o] = pub[o]
  BY <1>1, <1>4 DEF Said, LogTypes
<1>6. bound' = bound /\ recorded' = RecordedAfter(p)
  BY <1>2 DEF Publish, recorderVars
<1> QED
  BY <1>1, <1>3, <1>5, <1>6 DEF Event

LEMMA LoopSpeaks ==
  ASSUME RunTypes, LogTypes, Flow, Bus, NEW r \in Runs, NEW s \in PlanSteps(r),
         Launch(r, s) \/ Skip(r, s) \/ FailDeadlocked(r, s) \/ CancelStep(r, s)
  PROVE  MainGoes(r)
<1>1. <<r, 0>> \in Producers /\ \A q \in Runs : \A u \in PlanSteps(q) : u \in Steps
  BY StepsArePlanned DEF Producers
<1>2. main[r] \in {"loop", "cancelling"} => \A q \in Runs \ {r} : main[q] \in Idle
  BY DEF Flow, FlowOf, Idle
<1>3. CASE Launch(r, s)
  <2>1. /\ StepSaid(<<r, 0>>, "StepScheduled", r, s, "running")
        /\ main[r] = "loop" /\ UNCHANGED <<session, main, doomed, interrupted>>
        /\ live[r][s] = "pending"
        /\ \A q \in Runs : \A u \in Steps : task'[<<q, u>>] = TaskAfter(r, s, q, u)
    BY <1>3, Launches
  <2>2. \A q \in Runs : \A u \in Steps : task'[<<q, u>>] = TaskAfter(r, s, q, u)
    BY <2>1
  <2>3. task[<<r, s>>] = "none"
    BY <2>1 DEF Bus, BusOf, PlanStatuses
  <2>4. \A q \in Runs : \A u \in PlanSteps(q) : live'[q][u] = live[q][u] \/ live'[q][u] = "running"
    BY <2>1 DEF StepSaid
  <2>5. \A q \in Runs : \A u \in Steps :
          \/ task'[<<q, u>>] = task[<<q, u>>]
          \/ task[<<q, u>>] \in {"none", "scheduled"} /\ task'[<<q, u>>] \in {"scheduled", "created"}
    BY <2>2, <2>3 DEF TaskAfter
  <2>6. MainLeaves(r)
    BY <2>1, <2>4, <2>5 DEF MainLeaves
  <2>7. MainTells(r, Event("StepScheduled", r, s))
    BY <2>1 DEF MainTells, Event
  <2> QED
    BY <1>1, <1>2, <2>1, <2>6, <2>7, StepHeard DEF MainGoes
<1>4. CASE Skip(r, s)
  <2>1. /\ StepSaid(<<r, 0>>, "StepCancelled", r, s, "cancelled")
        /\ main[r] = "loop" /\ UNCHANGED <<session, main, task, doomed, interrupted>>
    BY <1>4, Skips DEF runVars
  <2>2. /\ Event("StepCancelled", r, s) \in Events /\ StoreHears(Event("StepCancelled", r, s))
        /\ Said(<<r, 0>>)' = Event("StepCancelled", r, s) /\ pub'[<<r, 0>>] # NoEvent
        /\ \A p \in Producers \ {<<r, 0>>} : pub'[p] = pub[p]
        /\ bound' = bound /\ recorded' = RecordedAfter(<<r, 0>>)
        /\ Event("StepCancelled", r, s).run = r /\ Event("StepCancelled", r, s).kind = "StepCancelled"
    BY <1>1, <2>1, StepHeard
  <2>3. \A q \in Runs : \A u \in PlanSteps(q) :
          live'[q][u] = live[q][u] \/ (q = r /\ u = s /\ live'[q][u] = "cancelled")
    BY <2>1 DEF StepSaid
  <2>4. MainLeaves(r)
    BY <2>1, <2>2, <2>3 DEF MainLeaves
  <2>5. MainTells(r, Event("StepCancelled", r, s))
    BY <2>1, <2>2 DEF MainTells
  <2> QED
    BY <1>2, <2>1, <2>2, <2>4, <2>5 DEF MainGoes
<1>5. CASE CancelStep(r, s)
  <2>1. /\ StepSaid(<<r, 0>>, "StepCancelled", r, s, "cancelled")
        /\ main[r] \in {"loop", "cancelling"} /\ main'[r] = "cancelling"
        /\ \A q \in Runs \ {r} : main'[q] = main[q] /\ main[q] \in Idle
        /\ UNCHANGED <<session, task, interrupted>>
    BY <1>5, Cancels
  <2>2. /\ Event("StepCancelled", r, s) \in Events /\ StoreHears(Event("StepCancelled", r, s))
        /\ Said(<<r, 0>>)' = Event("StepCancelled", r, s) /\ pub'[<<r, 0>>] # NoEvent
        /\ \A p \in Producers \ {<<r, 0>>} : pub'[p] = pub[p]
        /\ bound' = bound /\ recorded' = RecordedAfter(<<r, 0>>)
        /\ Event("StepCancelled", r, s).run = r /\ Event("StepCancelled", r, s).kind = "StepCancelled"
    BY <1>1, <2>1, StepHeard
  <2>3. \A q \in Runs : \A u \in PlanSteps(q) :
          live'[q][u] = live[q][u] \/ (q = r /\ u = s /\ live'[q][u] = "cancelled")
    BY <2>1 DEF StepSaid
  <2>4. MainLeaves(r)
    BY <2>1, <2>2, <2>3 DEF MainLeaves
  <2>5. MainTells(r, Event("StepCancelled", r, s))
    BY <2>1, <2>2 DEF MainTells
  <2> QED
    BY <2>1, <2>2, <2>4, <2>5 DEF MainGoes
<1>6. CASE FailDeadlocked(r, s)
  <2>1. /\ StepSaid(<<r, 0>>, "StepFailed", r, s, "failed")
        /\ main[r] \in {"loop", "deadlocked"} /\ main'[r] = "deadlocked"
        /\ \A q \in Runs \ {r} : main'[q] = main[q] /\ main[q] \in Idle
        /\ UNCHANGED <<session, task, doomed, interrupted>>
    BY <1>6, Fails
  <2>2. /\ Event("StepFailed", r, s) \in Events /\ StoreHears(Event("StepFailed", r, s))
        /\ Said(<<r, 0>>)' = Event("StepFailed", r, s) /\ pub'[<<r, 0>>] # NoEvent
        /\ \A p \in Producers \ {<<r, 0>>} : pub'[p] = pub[p]
        /\ bound' = bound /\ recorded' = RecordedAfter(<<r, 0>>)
        /\ Event("StepFailed", r, s).run = r /\ Event("StepFailed", r, s).kind = "StepFailed"
    BY <1>1, <2>1, StepHeard
  <2>3. \A q \in Runs : \A u \in PlanSteps(q) :
          live'[q][u] = live[q][u] \/ (q = r /\ u = s /\ live'[q][u] = "failed")
    BY <2>1 DEF StepSaid
  <2>4. MainLeaves(r)
    BY <2>1, <2>2, <2>3 DEF MainLeaves
  <2>5. MainTells(r, Event("StepFailed", r, s))
    BY <2>1, <2>2 DEF MainTells
  <2> QED
    BY <2>1, <2>2, <2>4, <2>5 DEF MainGoes
<1> QED
  BY <1>3, <1>4, <1>5, <1>6

LEMMA MainRests ==
  ASSUME RunTypes, LogTypes, Flow, NEW r \in Runs, Wait(r) \/ End(r) PROVE MainGoes(r)
<1>1. /\ Return(<<r, 0>>) /\ <<r, 0>> \in Producers
      /\ UNCHANGED <<session, doomed, interrupted, live>>
      /\ \A q \in Runs \ {r} : main'[q] = main[q]
  BY Waits, RunEnds
<1>2. \A q \in Runs : \A u \in Steps :
          \/ task'[<<q, u>>] = task[<<q, u>>]
          \/ task[<<q, u>>] = "scheduled" /\ task'[<<q, u>>] = "created"
  BY Waits, RunEnds
<1>7. MainEnds(r)
  BY Waits, RunEnds DEF MainEnds
<1>3. \A q \in Runs \ {r} : main[q] \in Idle
  BY <1>7 DEF Flow, FlowOf, Idle, MainEnds
<1>4. /\ pub' = [pub EXCEPT ![<<r, 0>>] = NoEvent] /\ snapshot' = snapshot /\ bound' = bound
      /\ recorded' = RecordedAfter(<<r, 0>>)
  BY <1>1 DEF Return, recorderVars
<1>5. pub'[<<r, 0>>] = NoEvent /\ \A p \in Producers \ {<<r, 0>>} : pub'[p] = pub[p]
  BY <1>1, <1>4, SaysNothing
<1>6. MainLeaves(r)
  BY <1>1, <1>2 DEF MainLeaves
<1> QED
  BY <1>1, <1>3, <1>4, <1>5, <1>6, <1>7 DEF MainGoes

LEMMA TaskSpeaks ==
  ASSUME RunTypes, LogTypes, Flow, NEW r \in Runs, NEW s \in Steps,
         Speaks(r, s)
  PROVE  TaskGoes(r, s)
<1>1. /\ main[r] = "loop" /\ live[r][s] = "running" /\ s \in PlanSteps(r)
      /\ <<r, s>> \notin doomed /\ UNCHANGED <<session, main, token, doomed, interrupted>>
  BY TaskSays
<1>2. PICK k \in Kinds, x \in Statuses, n \in TaskStates :
          /\ TaskMove(r, s, k, x, n) /\ StepSaid(<<r, s>>, k, r, s, x)
          /\ task' = [task EXCEPT ![<<r, s>>] = n] /\ task'[<<r, s>>] = n
  BY TaskSays
<1>3. <<r, s>> \in Producers
  BY DEF Producers
<1>4. /\ Event(k, r, s) \in Events /\ StoreHears(Event(k, r, s))
      /\ Said(<<r, s>>)' = Event(k, r, s) /\ pub'[<<r, s>>] # NoEvent
      /\ \A o \in Producers \ {<<r, s>>} : pub'[o] = pub[o]
      /\ bound' = bound /\ recorded' = RecordedAfter(<<r, s>>)
  BY <1>2, <1>3, StepHeard
<1>5. \A t \in StepsOf \ {<<r, s>>} : task'[t] = task[t]
  BY <1>2 DEF RunTypes
<1>6. /\ live'[r][s] = x
      /\ \A q \in Runs : \A u \in PlanSteps(q) : <<q, u>> # <<r, s>> => live'[q][u] = live[q][u]
  <2>1. /\ \A q \in Runs \ {r} : live'[q] = live[q]
        /\ \A u \in PlanSteps(r) : live'[r][u] = IF u = s THEN x ELSE live[r][u]
    BY <1>2 DEF StepSaid
  <2> QED
    BY <1>1, <2>1
<1>7. TaskTells(r, s)
  BY <1>1, <1>2, <1>4, <1>6 DEF TaskTells
<1> QED
  BY <1>1, <1>4, <1>5, <1>6, <1>7 DEF TaskGoes

LEMMA TaskRests ==
  ASSUME RunTypes, LogTypes, NEW r \in Runs, NEW s \in Steps, Execute(r, s) \/ Leave(r, s)
  PROVE  TaskGoes(r, s)
<1>1. /\ Return(<<r, s>>) /\ <<r, s>> \in Producers /\ <<r, s>> \notin doomed
      /\ UNCHANGED <<session, main, doomed, interrupted, live>>
  BY TaskGoesOn
<1>2. \/ task[<<r, s>>] = WorkFrom(r, s) /\ task' = [task EXCEPT ![<<r, s>>] = "executing"]
         /\ task'[<<r, s>>] = "executing"
      \/ task[<<r, s>>] = "ending" /\ task' = [task EXCEPT ![<<r, s>>] = "done"]
         /\ task'[<<r, s>>] = "done"
  BY TaskGoesOn
<1>3. \A t \in StepsOf \ {<<r, s>>} : task'[t] = task[t]
  BY <1>2 DEF RunTypes
<1>4. /\ pub' = [pub EXCEPT ![<<r, s>>] = NoEvent] /\ snapshot' = snapshot /\ bound' = bound
      /\ recorded' = RecordedAfter(<<r, s>>)
  BY <1>1 DEF Return, recorderVars
<1>5. pub'[<<r, s>>] = NoEvent /\ \A p \in Producers \ {<<r, s>>} : pub'[p] = pub[p]
  BY <1>1, <1>4, SaysNothing
<1> QED
  BY <1>1, <1>2, <1>3, <1>4, <1>5 DEF TaskGoes

LEMMA Moves ==
  ASSUME RunTypes, LogTypes, Flow, Bus, [Next]_vars
  PROVE  \/ \E r \in Runs : MainGoes(r)
         \/ \E r \in Runs : \E s \in Steps : TaskGoes(r, s) \/ Interrupt(r, s)
         \/ NothingGoes
<1>1. CASE UNCHANGED vars \/ StopRecording \/ StartRecording \/ \E r \in Runs : RequestCancellation(r)
  BY <1>1 DEF NothingGoes, vars, runVars, recorderVars, StopRecording, StartRecording, RequestCancellation
<1> QED
  BY <1>1, MainSpeaks, LoopSpeaks, MainRests, TaskSpeaks, TaskRests DEF Next, RunMain, RunTask, Speaks

-----------------------------------------------------------------------------
(* How far the replay is behind the store: the coroutine of the open run.  *)

\* The event of that coroutine, if it is on its way to the recorder.
Due == {e \in {Said(<<r, 0>>) : r \in {q \in Runs : <<q, 0>> \in Carrying}} : InScope(e)}

\* The conversation the recorder hears of.
Conversation == IF bound = Unbound THEN snapshot.messages ELSE MessagesOf(snapshot.messages, bound)
MessagesLag ==
    /\ Due = {} => Conversation = Replay.messages
    /\ \A e \in Due : Conversation = MessagesAfter(Replay.messages, e)

\* The outcome of the run, or of the bound one.
StatusIn(state) ==
    IF state = "new" THEN {"idle"}
    ELSE IF state \in {"closing", "ended"} THEN {"completed", "failed"} ELSE {"running"}
StatusLag ==
    /\ bound = Unbound =>
        /\ Due = {} => snapshot.status = Replay.status
        /\ \A e \in Due : snapshot.status = StatusAfter(Replay.status, e)
    /\ bound \in Runs =>
        /\ Due = {} => Replay.status \in StatusIn(main[bound])
        /\ \A e \in Due : StatusAfter(Replay.status, e) \in StatusIn(main[bound])

\* The run.
RunLag ==
    bound = Unbound =>
        /\ \A r \in Runs : main[r] \notin Idle =>
             snapshot.run = r /\ (main[r] # "started" => Replay.run = r)
        /\ (\A r \in Runs : main[r] \in Idle) => snapshot.run = Replay.run

\* Whose plan it is.
OwnerLag ==
    bound = Unbound =>
        /\ Due = {} => snapshot.plan.owner = Replay.plan.owner
        /\ \A e \in Due : snapshot.plan.owner = OwnerAfter(Replay.plan.owner, e)

LEMMA DueIs ==
  ASSUME RunTypes, Bus, NEW r \in Runs, MainGoes(r)
  PROVE  /\ Due = IF Heard(<<r, 0>>) THEN {Said(<<r, 0>>)} ELSE {}
         /\ Due' = IF pub'[<<r, 0>>] # NoEvent /\ InScope(Said(<<r, 0>>)') THEN {Said(<<r, 0>>)'} ELSE {}
<1>1. /\ \A q \in Runs : <<q, 0>> \in Producers
      /\ \A q \in Runs \ {r} : pub[<<q, 0>>] = NoEvent
  BY DEF Producers, MainGoes, Bus, BusOf, MainBus
<1>2. \A q \in Runs \ {r} : pub'[<<q, 0>>] = NoEvent
  BY <1>1 DEF MainGoes
<1>3. Due = IF Heard(<<r, 0>>) THEN {Said(<<r, 0>>)} ELSE {}
  BY <1>1 DEF Due, Carrying, Heard
<1>4. \A e : InScope(e)' <=> InScope(e)
  BY DEF InScope, MainGoes
<1>5. Due' = {e \in {Said(<<q, 0>>)' : q \in {o \in Runs : <<o, 0>> \in Carrying'}} : InScope(e)}
  BY <1>4 DEF Due
<1>6. \A q \in Runs : <<q, 0>> \in Carrying' <=> pub'[<<q, 0>>] # NoEvent
  BY <1>1 DEF Carrying
<1>7. Due' = IF pub'[<<r, 0>>] # NoEvent /\ InScope(Said(<<r, 0>>)') THEN {Said(<<r, 0>>)'} ELSE {}
  BY <1>2, <1>5, <1>6
<1> QED
  BY <1>3, <1>7

\* What a task says is neither a message nor a plan nor an end of a run.
TaskKinds == {"StepStarted", "ToolStarted", "ToolFinished", "ToolFailed"} \cup Ends

LEMMA TaskSaid ==
  ASSUME RunTypes, Bus, NEW r \in Runs, NEW s \in Steps, <<r, s>> \in Carrying
  PROVE  /\ s \in PlanSteps(r) /\ \E k \in TaskKinds : Said(<<r, s>>) = Event(k, r, s)
         /\ Said(<<r, s>>).kind \in TaskKinds /\ Said(<<r, s>>).run = r /\ Said(<<r, s>>).step = s
<1>1. TaskBus(r, s) /\ pub[<<r, s>>] # NoEvent /\ <<r, s>> \in StepsOf
  BY DEF Bus, BusOf, Carrying, StepsOf
<1>2. task[<<r, s>>] \in {"started", "calling", "succeeded", "failed", "ending"}
  BY <1>1 DEF TaskBus, RunTypes, TaskStates
<1>3. PICK k \in TaskKinds : Said(<<r, s>>) = Event(k, r, s)
  BY <1>1, <1>2 DEF TaskBus, TaskKinds, Ends
<1> QED
  BY <1>2, <1>3 DEF Event, RunTypes

LEMMA TaskKindsAside ==
  ASSUME NEW e, e.kind \in TaskKinds
  PROVE  /\ \A m : MessagesAfter(m, e) = m /\ \A x : StatusAfter(x, e) = x
         /\ \A o : OwnerAfter(o, e) = o
         /\ e.kind \notin {"PlanCreated", "MemoryRetrieved"}
  BY DEF TaskKinds, Ends, MessagesAfter, StatusAfter, OwnerAfter, MessageKinds

\* What concerns the coroutines stays as it is when a task goes on.
Aside ==
    /\ Replay'.messages = Replay.messages /\ Replay'.status = Replay.status
    /\ Replay'.plan.owner = Replay.plan.owner
    /\ snapshot'.messages = snapshot.messages /\ snapshot'.status = snapshot.status
    /\ snapshot'.plan.owner = snapshot.plan.owner
    /\ Due' = Due /\ main' = main /\ bound' = bound

LEMMA TaskAside ==
  ASSUME RunTypes, LogTypes, Conserved, Bus, Whole, Replay \in States, NEW r \in Runs, NEW s \in Steps,
         TaskGoes(r, s)
  PROVE  Aside /\ Replay' \in States /\ (Heard(<<r, s>>) => Said(<<r, s>>).kind \in TaskKinds)
<1>1. <<r, s>> \in Producers /\ (\A q \in Runs : <<q, 0>> \in Producers \ {<<r, s>>})
  BY StepsAssumption DEF Producers
<1>2. /\ Replay' \in States
      /\ ~Heard(<<r, s>>) => Replay' = Replay
      /\ Heard(<<r, s>>) => Said(<<r, s>>) \in Events /\ ReplayHears(Said(<<r, s>>))
  BY <1>1, Replayed DEF TaskGoes
<1>3. Heard(<<r, s>>) => Said(<<r, s>>).kind \in TaskKinds
  BY TaskSaid DEF Heard
<1>4. /\ Replay'.messages = Replay.messages /\ Replay'.status = Replay.status
      /\ Replay'.plan.owner = Replay.plan.owner
  <2>1. CASE ~Heard(<<r, s>>)
    BY <1>2, <2>1
  <2>2. CASE Heard(<<r, s>>)
    <3>1. Replay'.plan = PlanAfter(Replay.plan, Said(<<r, s>>)) /\ Replay.plan \in PlanViews
      BY <1>2, <2>2 DEF ReplayHears, States
    <3>2. Replay'.plan.owner = OwnerAfter(Replay.plan.owner, Said(<<r, s>>))
      BY <1>2, <2>2, <3>1, OwnerOfPlan
    <3> QED
      BY <1>2, <1>3, <2>2, <3>2, TaskKindsAside DEF ReplayHears
  <2> QED
    BY <2>1, <2>2
<1>5. /\ snapshot'.messages = snapshot.messages /\ snapshot'.status = snapshot.status
      /\ snapshot'.plan.owner = snapshot.plan.owner
  <2>1. CASE TaskTells(r, s)
    <3>0. PICK k \in Kinds : \E x, n : TaskMove(r, s, k, x, n) /\ StoreHears(Event(k, r, s))
      BY <2>1 DEF TaskTells
    <3>1. k \in TaskKinds /\ StoreHears(Event(k, r, s))
      BY <3>0 DEF TaskMove, TaskKinds, Ends
    <3>2. Event(k, r, s).kind \in TaskKinds
      BY <3>1 DEF Event
    <3> QED
      BY <3>1, <3>2, TaskKindsAside DEF StoreHears
  <2> QED
    BY <2>1 DEF TaskGoes
<1>6. \A e : InScope(e)' <=> InScope(e)
  BY DEF InScope, TaskGoes
<1>7. \A q \in Runs : Said(<<q, 0>>)' = Said(<<q, 0>>) /\ (<<q, 0>> \in Carrying' <=> <<q, 0>> \in Carrying)
  BY <1>1 DEF TaskGoes, Said, Carrying
<1>8. Due' = Due
  BY <1>6, <1>7 DEF Due
<1> QED
  BY <1>2, <1>3, <1>4, <1>5, <1>8 DEF Aside, TaskGoes

\* Nor does a cancellation or a step of the user concern the replay.
StoreRests ==
    /\ UNCHANGED <<session, main, live, snapshot, bound, recorded>>
    /\ Replay' = Replay /\ Due' = Due
    /\ \A i \in DOMAIN recorded : InScope(recorded[i])' <=> InScope(recorded[i])

LEMMA InterruptRests ==
  ASSUME RunTypes, LogTypes, NEW r \in Runs, NEW s \in Steps, Interrupt(r, s)
  PROVE  StoreRests
<1>1. /\ UNCHANGED <<session, main, live, snapshot, bound, recorded>>
      /\ pub' = [pub EXCEPT ![<<r, s>>] = NoEvent]
  BY TaskIsCancelled DEF recorderVars
<1>2. \A q \in Runs : pub'[<<q, 0>>] = pub[<<q, 0>>]
  <2>1. \A q \in Runs : <<q, 0>> \in Producers /\ <<q, 0>> # <<r, s>>
    BY StepsAssumption DEF Producers
  <2> QED
    BY <1>1, <2>1 DEF LogTypes
<1>3. Plans' = Plans
  BY <1>1 DEF Plans, PlanOf, PlanSteps
<1>4. Replay' = Replay
  BY <1>1, <1>3 DEF Replay
<1>5. \A e : InScope(e)' <=> InScope(e)
  BY <1>1 DEF InScope
<1>6. \A q \in Runs : Said(<<q, 0>>)' = Said(<<q, 0>>) /\ (<<q, 0>> \in Carrying' <=> <<q, 0>> \in Carrying)
  BY <1>2 DEF Said, Carrying
<1>7. Due' = Due
  BY <1>5, <1>6 DEF Due
<1> QED
  BY <1>1, <1>4, <1>5, <1>7 DEF StoreRests, InScope

LEMMA NothingRests ==
  ASSUME NothingGoes PROVE StoreRests
<1>1. Plans' = Plans /\ UNCHANGED <<session, main, live, snapshot, bound, recorded, pub>>
  BY DEF Plans, PlanOf, PlanSteps, NothingGoes
<1>2. Replay' = Replay
  BY <1>1 DEF Replay
<1>3. Due' = Due
  BY <1>1 DEF Due, InScope, Said, Carrying
<1> QED
  BY <1>1, <1>2, <1>3 DEF StoreRests, InScope

-----------------------------------------------------------------------------
(* The replay catches up when the coroutine goes on.                       *)

LEMMA ConversationHears ==
  ASSUME LogTypes, NEW e \in Events, StoreHears(e), bound' = bound
  PROVE  Conversation' = IF InScope(e) THEN MessagesAfter(Conversation, e) ELSE Conversation
<1>1. snapshot'.messages = MessagesAfter(snapshot.messages, e)
  BY DEF StoreHears
<1>2. CASE bound = Unbound
  BY <1>1, <1>2 DEF Conversation, InScope
<1>3. CASE bound # Unbound
  <2>1. Conversation' = MessagesOf(snapshot'.messages, bound) /\ Conversation = MessagesOf(snapshot.messages, bound)
    BY <1>3 DEF Conversation
  <2>2. CASE e.kind \notin MessageKinds
    BY <1>1, <2>1, <2>2 DEF MessagesAfter
  <2>3. CASE e.kind \in MessageKinds
    <3> DEFINE old == snapshot.messages
               d == <<e.kind, e.run>>
               new == Append(old, d)
               n == Len(old)
    <3>1. old \in Seq(MessageKinds \X Runs) /\ d \in MessageKinds \X Runs /\ d[2] = e.run
      BY <2>3 DEF LogTypes, States, Events
    <3>2. snapshot'.messages = new /\ MessagesAfter(Conversation, e) = Append(Conversation, d)
      BY <1>1, <2>3 DEF MessagesAfter
    <3>3. InScope(e) <=> e.run = bound
      BY <1>3, <2>3 DEF InScope, MessageKinds, StepKinds
    <3> HIDE DEF d, old
    <3>4. n \in Nat /\ Len(new) = n + 1 /\ (\A i \in 1..n : new[i] = old[i]) /\ new[n + 1] = d
      BY <3>1, LenProperties, AppendProperties
    <3> HIDE DEF new
    <3>5. MessagesOf(new, bound) = OneMore(MessagesOf(old, bound), d, bound)
      BY <3>4, MessagesOfMore
    <3> QED
      BY <2>1, <3>1, <3>2, <3>3, <3>5 DEF OneMore, old
  <2> QED
    BY <2>2, <2>3
<1> QED
  BY <1>2, <1>3

LEMMA MainReplays ==
  ASSUME LogTypes, Conserved, Whole, Replay \in States, NEW r \in Runs, MainGoes(r)
  PROVE  /\ Replay' \in States
         /\ ~Heard(<<r, 0>>) => Replay' = Replay
         /\ Heard(<<r, 0>>) => /\ Said(<<r, 0>>) \in Events /\ ReplayHears(Said(<<r, 0>>))
                               /\ Replay'.plan.owner = OwnerAfter(Replay.plan.owner, Said(<<r, 0>>))
<1>1. <<r, 0>> \in Producers /\ session' = session /\ recorded' = RecordedAfter(<<r, 0>>)
  BY DEF Producers, MainGoes
<1>2. /\ Replay' \in States
      /\ ~Heard(<<r, 0>>) => Replay' = Replay
      /\ Heard(<<r, 0>>) => Said(<<r, 0>>) \in Events /\ ReplayHears(Said(<<r, 0>>))
  BY <1>1, Replayed
<1>3. Heard(<<r, 0>>) => Replay'.plan.owner = OwnerAfter(Replay.plan.owner, Said(<<r, 0>>))
  BY <1>2, OwnerOfPlan DEF ReplayHears, States
<1> QED
  BY <1>2, <1>3

LEMMA MessagesLagMain ==
  ASSUME RunTypes, LogTypes, Conserved, Bus, Whole, Replay \in States, MessagesLag,
         NEW r \in Runs, MainGoes(r)
  PROVE  MessagesLag'
<1> DEFINE p == <<r, 0>>
<1>1. Conversation = Replay'.messages
  BY MainReplays, DueIs DEF MessagesLag, ReplayHears
<1>2. CASE pub'[p] = NoEvent
  <2>1. Due' = {} /\ snapshot' = snapshot /\ bound' = bound
    BY <1>2, DueIs DEF MainGoes
  <2>2. Conversation' = Conversation
    BY <2>1 DEF Conversation
  <2> QED
    BY <1>1, <2>1, <2>2 DEF MessagesLag
<1>3. CASE pub'[p] # NoEvent
  <2>1. PICK e \in Events : StoreHears(e) /\ Said(p)' = e
    BY <1>3 DEF MainGoes
  <2>2. /\ Due' = IF InScope(Said(p)') THEN {Said(p)'} ELSE {}
        /\ bound' = bound
    BY <1>3, DueIs DEF MainGoes
  <2>3. Conversation' = IF InScope(e) THEN MessagesAfter(Conversation, e) ELSE Conversation
    BY <2>1, <2>2, ConversationHears
  <2>4. CASE InScope(e)
    <3>1. Due' = {e}
      BY <2>1, <2>2, <2>4
    <3> QED
      BY <1>1, <2>3, <2>4, <3>1 DEF MessagesLag
  <2>5. CASE ~InScope(e)
    <3>1. Due' = {}
      BY <2>1, <2>2, <2>5
    <3> QED
      BY <1>1, <2>3, <2>5, <3>1 DEF MessagesLag
  <2> QED
    BY <2>4, <2>5
<1> QED
  BY <1>2, <1>3

LEMMA MainToldStatus ==
  ASSUME RunTypes, NEW r \in Runs, NEW e, MainTells(r, e), NEW x, x \in StatusIn(main[r])
  PROVE  StatusAfter(x, e) \in StatusIn(main'[r])
<1>1. CASE \E k, n : MainMove(r, k, n) /\ e.kind = k /\ main'[r] = n
  <2>1. PICK k, n : MainMove(r, k, n) /\ e.kind = k /\ main'[r] = n
    BY <1>1
  <2> QED
    BY <2>1 DEF MainMove, StatusIn, StatusAfter
<1>2. CASE \/ e.kind = "StepScheduled" /\ main[r] = "loop" /\ main'[r] = "loop"
           \/ e.kind = "StepCancelled" /\ main[r] \in {"loop", "cancelling"}
              /\ main'[r] \in {main[r], "cancelling"}
           \/ e.kind = "StepFailed" /\ main[r] \in {"loop", "deadlocked"} /\ main'[r] = "deadlocked"
  BY <1>2 DEF StatusIn, StatusAfter
<1> QED
  BY <1>1, <1>2 DEF MainTells

LEMMA StatusLagMain ==
  ASSUME RunTypes, LogTypes, Conserved, Bus, Whole, Replay \in States, StatusLag,
         NEW r \in Runs, MainGoes(r)
  PROVE  StatusLag'
<1> DEFINE p == <<r, 0>>
<1>1. /\ bound = Unbound => snapshot.status = Replay'.status
      /\ bound \in Runs => Replay'.status \in StatusIn(main[bound])
  BY MainReplays, DueIs DEF StatusLag, ReplayHears
<1>2. bound' = bound /\ \A q \in Runs \ {r} : main'[q] = main[q]
  BY DEF MainGoes
<1>3. CASE pub'[p] = NoEvent
  <2>1. Due' = {} /\ snapshot' = snapshot /\ MainEnds(r)
    BY <1>3, DueIs DEF MainGoes
  <2>2. StatusIn(main[r]) \subseteq StatusIn(main'[r])
    BY <2>1 DEF MainEnds, StatusIn
  <2>3. bound \in Runs => Replay'.status \in StatusIn(main'[bound])
    BY <1>1, <1>2, <2>2
  <2> QED
    BY <1>1, <1>2, <2>1, <2>3 DEF StatusLag
<1>4. CASE pub'[p] # NoEvent
  <2>1. PICK e \in Events : /\ StoreHears(e) /\ Said(p)' = e /\ MainTells(r, e) /\ e.run = r
    BY <1>4 DEF MainGoes
  <2>2. Due' = IF InScope(e) THEN {e} ELSE {}
    BY <1>4, <2>1, DueIs
  <2>3. /\ bound = Unbound => InScope(e)
        /\ snapshot'.status = StatusAfter(snapshot.status, e)
    BY <2>1 DEF InScope, StoreHears
  <2>4. ASSUME bound \in Runs
        PROVE  IF InScope(e) THEN StatusAfter(Replay'.status, e) \in StatusIn(main'[bound])
               ELSE Replay'.status \in StatusIn(main'[bound])
    <3>1. CASE bound = r
      <4>1. InScope(e) /\ StatusAfter(Replay'.status, e) \in StatusIn(main'[bound])
        BY <1>1, <2>1, <3>1, <2>4, MainToldStatus DEF InScope
      <4> QED
        BY <4>1
    <3>2. CASE bound # r
      <4>1. main'[bound] = main[bound] /\ Replay'.status \in StatusIn(main'[bound])
        BY <1>1, <1>2, <2>4, <3>2
      <4>2. InScope(e) => e.kind \in StepKinds
        BY <2>1, <2>4, <3>2, UnboundAssumption DEF InScope
      <4>3. InScope(e) => StatusAfter(Replay'.status, e) = Replay'.status
        BY <4>2 DEF StepKinds, StatusAfter
      <4> QED
        BY <4>1, <4>3
    <3> QED
      BY <3>1, <3>2
  <2>5. CASE bound = Unbound
    <3>1. Due' = {e} /\ bound' \notin Runs
      BY <1>2, <2>2, <2>3, <2>5, UnboundAssumption
    <3> QED
      BY <1>1, <2>3, <2>5, <3>1 DEF StatusLag
  <2>6. CASE bound \in Runs
    <3>1. bound' \in Runs /\ bound' = bound /\ bound' # Unbound
      BY <1>2, <2>6, UnboundAssumption
    <3> QED
      BY <2>2, <2>4, <2>6, <3>1 DEF StatusLag
  <2> QED
    BY <2>5, <2>6 DEF LogTypes
<1> QED
  BY <1>3, <1>4

LEMMA MainSpoke ==
  ASSUME RunTypes, Bus, NEW r \in Runs
  PROVE  /\ <<r, 0>> \in Carrying => Said(<<r, 0>>).run = r
         /\ main[r] = "started" => <<r, 0>> \in Carrying /\ Said(<<r, 0>>).kind = "RuntimeStarted"
         /\ main[r] = "cancelling" => <<r, 0>> \in Carrying /\ Said(<<r, 0>>).kind = "StepCancelled"
         /\ <<r, 0>> \in Carrying =>
              \/ Said(<<r, 0>>).kind \notin TaskKinds
              \/ \E s \in PlanSteps(r) : \E k \in {"StepCancelled", "StepFailed"} :
                    Said(<<r, 0>>) = Event(k, r, s) /\ live[r][s] = Marks(k)
<1>1. MainBus(r) /\ <<r, 0>> \in Producers /\ NoEvent.event.kind = "none"
  BY NoEventApart DEF Bus, BusOf, Producers
<1>2. \A k, s : Event(k, r, s).run = r /\ Event(k, r, s).kind = k
  BY DEF Event
<1>3. main[r] = "started" => <<r, 0>> \in Carrying /\ Said(<<r, 0>>).kind = "RuntimeStarted"
  BY <1>1, <1>2 DEF MainBus, Carrying, Said
<1>4. main[r] = "cancelling" => <<r, 0>> \in Carrying /\ Said(<<r, 0>>).kind = "StepCancelled"
  BY <1>1, <1>2 DEF MainBus, Carrying, Said
<1>5. ASSUME <<r, 0>> \in Carrying
      PROVE  \/ \E k : k \notin TaskKinds /\ \E s : Said(<<r, 0>>) = Event(k, r, s)
             \/ \E s \in PlanSteps(r) : \E k \in {"StepCancelled", "StepFailed"} :
                    Said(<<r, 0>>) = Event(k, r, s) /\ live[r][s] = Marks(k)
  <2>1. {"RuntimeStarted", "MessageReceived", "MemoryRetrieved", "PlanCreated", "StepScheduled",
         "MessageSent", "RuntimeStopped", "RuntimeFailed"} \cap TaskKinds = {}
    BY DEF TaskKinds, Ends
  <2>2. pub[<<r, 0>>] # NoEvent
    BY <1>5 DEF Carrying
  <2>3. CASE main[r] \in {"loop", "cancelling", "deadlocked"}
    <3>1. \/ \E k \in {"PlanCreated", "StepScheduled"} : \E s : Said(<<r, 0>>) = Event(k, r, s)
          \/ \E s \in PlanSteps(r) : Said(<<r, 0>>) = Event("StepCancelled", r, s) /\ live[r][s] = "cancelled"
          \/ \E s \in PlanSteps(r) : Said(<<r, 0>>) = Event("StepFailed", r, s) /\ live[r][s] = "failed"
      BY <1>1, <2>2, <2>3 DEF MainBus
    <3>2. Marks("StepCancelled") = "cancelled" /\ Marks("StepFailed") = "failed"
      BY DEF Marks
    <3> QED
      BY <2>1, <3>1, <3>2
  <2>4. CASE main[r] \notin {"loop", "cancelling", "deadlocked"}
    BY <1>1, <2>1, <2>2, <2>4 DEF MainBus, RunTypes, MainStates, Idle
  <2> QED
    BY <2>3, <2>4
<1> QED
  BY <1>2, <1>3, <1>4, <1>5

LEMMA RunLagMain ==
  ASSUME RunTypes, LogTypes, Conserved, Bus, Whole, Replay \in States, RunLag,
         NEW r \in Runs, MainGoes(r)
  PROVE  RunLag'
<1> DEFINE p == <<r, 0>>
<1>1. SUFFICES ASSUME bound = Unbound PROVE
          /\ \A q \in Runs : main'[q] \notin Idle =>
               snapshot'.run = q /\ (main'[q] # "started" => Replay'.run = q)
          /\ (\A q \in Runs : main'[q] \in Idle) => snapshot'.run = Replay'.run
  BY DEF RunLag, MainGoes
<1>2. \A q \in Runs \ {r} : main'[q] \in Idle
  BY DEF MainGoes
<1>3. main[r] \notin Idle => Replay'.run = r /\ snapshot.run = r
  <2>1. SUFFICES ASSUME main[r] \notin Idle PROVE Replay'.run = r
    BY <1>1 DEF RunLag
  <2>2. main[r] = "started" => Heard(p) /\ Said(p).kind = "RuntimeStarted"
    BY <1>1, MainSpoke DEF Heard, InScope
  <2>3. main[r] # "started" => Replay.run = r
    BY <1>1, <2>1 DEF RunLag
  <2>4. Heard(p) => Said(p).run = r
    BY MainSpoke DEF Heard
  <2>5. Heard(p) => Replay'.run = IF Said(p).kind = "MemoryRetrieved" \/ Said(p).kind \in StepKinds
                                  THEN Replay.run ELSE r
    BY <2>4, MainReplays DEF ReplayHears, RunAfter
  <2>6. ~Heard(p) => Replay'.run = Replay.run
    BY MainReplays
  <2> QED
    BY <2>2, <2>3, <2>5, <2>6 DEF StepKinds
<1>4. CASE pub'[p] = NoEvent
  <2>1. snapshot' = snapshot /\ MainEnds(r) /\ main[r] \notin Idle
    BY <1>4 DEF MainGoes, MainEnds, Idle
  <2> QED
    BY <1>2, <1>3, <2>1
<1>5. CASE pub'[p] # NoEvent
  <2>1. PICK e \in Events : StoreHears(e) /\ MainTells(r, e) /\ e.run = r
    BY <1>5 DEF MainGoes
  <2>2. /\ main'[r] \notin Idle /\ main[r] # "ended"
        /\ main[r] = "new" => main'[r] = "started" /\ e.kind \notin StepKinds
    BY <2>1 DEF MainTells, MainMove, Idle, StepKinds
  <2>3. snapshot'.run = r
    <3>1. CASE e.kind \in StepKinds
      BY <1>3, <2>1, <2>2, <3>1 DEF StoreHears, RunAfter, Idle
    <3>2. CASE e.kind \notin StepKinds
      BY <2>1, <3>2 DEF StoreHears, RunAfter
    <3> QED
      BY <3>1, <3>2
  <2>4. main'[r] # "started" => Replay'.run = r
    BY <1>3, <2>2 DEF Idle
  <2> QED
    BY <1>2, <2>2, <2>3, <2>4
<1> QED
  BY <1>4, <1>5

\* The last plan recorded.
LEMMA LastPlan ==
  ASSUME LogTypes, PlansRecorded # {}
  PROVE  LET i == CHOOSE i \in PlansRecorded : \A j \in PlansRecorded : j <= i IN
         i \in PlansRecorded /\ \A j \in PlansRecorded : j <= i
<1> DEFINE n == Len(recorded)
           T == {m \in Nat : \E i \in PlansRecorded : m = n - i}
<1>1. n \in Nat /\ PlansRecorded \subseteq 1..n
  BY LenProperties DEF LogTypes, PlansRecorded
<1>2. \A i \in PlansRecorded : n - i \in T
  BY <1>1
<1>3. PICK m \in T : \A k \in T : ~(k < m)
  BY <1>2, Least
<1>4. PICK i \in PlansRecorded : m = n - i
  BY <1>3
<1> HIDE DEF n, T
<1>5. \A j \in PlansRecorded : j <= i
  BY <1>1, <1>2, <1>3, <1>4
<1> QED
  BY <1>4, <1>5

\* The plans recorded when a producer goes on.
LEMMA PlansGrow ==
  ASSUME LogTypes, Conserved, Whole, NEW p \in Producers, recorded' = RecordedAfter(p)
  PROVE  /\ Heard(p) /\ Said(p).kind = "PlanCreated" =>
              /\ PlansRecorded' = PlansRecorded \cup {Len(recorded) + 1}
              /\ RecordedPlanOwner' = Said(p).run /\ recorded'[Len(recorded) + 1] = Said(p)
         /\ ~(Heard(p) /\ Said(p).kind = "PlanCreated") =>
              /\ PlansRecorded' = PlansRecorded
              /\ PlansRecorded # {} => RecordedPlanOwner' = RecordedPlanOwner
         /\ \A i \in PlansRecorded : recorded'[i] = recorded[i]
<1> DEFINE n == Len(recorded)
<1>1. /\ n \in Nat /\ DOMAIN recorded = 1..n
      /\ ~Heard(p) => recorded' = recorded
      /\ Heard(p) => /\ DOMAIN recorded' = DOMAIN recorded \cup {n + 1}
                     /\ \A i \in DOMAIN recorded : recorded'[i] = recorded[i]
                     /\ recorded'[n + 1] = Said(p)
  BY RecordGrows
<1> HIDE DEF n
<1>2. PlansRecorded \subseteq DOMAIN recorded /\ n + 1 \notin DOMAIN recorded
  BY <1>1 DEF PlansRecorded
<1>3. \A i \in PlansRecorded : recorded'[i] = recorded[i]
  BY <1>1, <1>2
<1>4. CASE Heard(p) /\ Said(p).kind = "PlanCreated"
  <2>1. PlansRecorded' = PlansRecorded \cup {n + 1}
    BY <1>1, <1>2, <1>4 DEF PlansRecorded
  <2>2. \A j \in PlansRecorded' : j <= n + 1
    BY <1>1, <1>2, <2>1
  <2>3. \A i \in PlansRecorded' : (\A j \in PlansRecorded' : j <= i) => i = n + 1
    BY <1>1, <1>2, <2>1
  <2>4. (CHOOSE i \in PlansRecorded' : \A j \in PlansRecorded' : j <= i) = n + 1
    BY <2>1, <2>2, <2>3
  <2>5. RecordedPlanOwner' = recorded'[n + 1].run
    BY <2>1, <2>4 DEF RecordedPlanOwner
  <2> QED
    BY <1>1, <1>3, <1>4, <2>1, <2>5 DEF n
<1>5. CASE ~(Heard(p) /\ Said(p).kind = "PlanCreated")
  <2>1. PlansRecorded' = PlansRecorded
    BY <1>1, <1>2, <1>5 DEF PlansRecorded
  <2>2. ASSUME PlansRecorded # {} PROVE RecordedPlanOwner' = RecordedPlanOwner
    <3> DEFINE last == CHOOSE i \in PlansRecorded : \A j \in PlansRecorded : j <= i
    <3>1. last \in PlansRecorded
      BY <2>2, LastPlan
    <3>2. RecordedPlanOwner = recorded[last].run /\ RecordedPlanOwner' = recorded'[last].run
      BY <2>1, <2>2 DEF RecordedPlanOwner
    <3> QED
      BY <1>3, <3>1, <3>2
  <2> QED
    BY <1>3, <1>5, <2>1, <2>2
<1> QED
  BY <1>4, <1>5

\* Whose plan the record and the replay have, when a producer goes on.
PlansLag ==
    /\ PlansRecorded = {} => Replay.plan = NoPlan
    /\ PlansRecorded # {} => Replay.plan.owner = RecordedPlanOwner
    /\ \A i \in PlansRecorded : InScope(recorded[i])

LEMMA PlansLagKept ==
  ASSUME LogTypes, Conserved, Whole, Replay \in States, session' = session, bound' = bound, PlansLag,
         NEW p \in Producers, recorded' = RecordedAfter(p)
  PROVE  PlansLag'
<1>1. \A e : InScope(e)' <=> InScope(e)
  BY DEF InScope
<1>2. CASE Heard(p) /\ Said(p).kind = "PlanCreated"
  <2>1. /\ PlansRecorded' = PlansRecorded \cup {Len(recorded) + 1}
        /\ RecordedPlanOwner' = Said(p).run /\ recorded'[Len(recorded) + 1] = Said(p)
        /\ \A i \in PlansRecorded : recorded'[i] = recorded[i]
    BY <1>2, PlansGrow
  <2>2. Replay'.plan.owner = Said(p).run
    <3>1. Said(p) \in Events /\ Replay'.plan = PlanAfter(Replay.plan, Said(p))
      BY <1>2, Replayed DEF ReplayHears
    <3> QED
      BY <1>2, <3>1, OwnerOfPlan DEF OwnerAfter, States
  <2>3. \A i \in PlansRecorded' : InScope(recorded'[i])
    BY <1>2, <2>1 DEF PlansLag, Heard
  <2>4. \A i \in PlansRecorded' : InScope(recorded[i])'
    BY <2>3 DEF InScope
  <2> QED
    BY <2>1, <2>2, <2>4 DEF PlansLag
<1>3. CASE ~(Heard(p) /\ Said(p).kind = "PlanCreated")
  <2>1. /\ PlansRecorded' = PlansRecorded
        /\ PlansRecorded # {} => RecordedPlanOwner' = RecordedPlanOwner
        /\ \A i \in PlansRecorded : recorded'[i] = recorded[i]
    BY <1>3, PlansGrow
  <2>2. \A i \in PlansRecorded' : InScope(recorded'[i])
    BY <2>1 DEF PlansLag
  <2>3. \A i \in PlansRecorded' : InScope(recorded[i])'
    BY <2>2 DEF InScope
  <2>4. CASE ~Heard(p)
    BY <2>1, <2>3, <2>4, Replayed DEF PlansLag
  <2>5. CASE Heard(p)
    <3>1. /\ Said(p) \in Events /\ Replay.plan \in PlanViews
          /\ Replay'.plan = PlanAfter(Replay.plan, Said(p)) /\ Said(p).kind # "PlanCreated"
      BY <1>3, <2>5, Replayed DEF ReplayHears, States
    <3>2. Replay'.plan.owner = Replay.plan.owner
      BY <3>1, OwnerOfPlan DEF OwnerAfter
    <3>3. Replay.plan = NoPlan => Replay'.plan = NoPlan
      <4>1. Marks(Said(p).kind) \in Statuses
        BY DEF Marks, Statuses
      <4> QED
        BY <3>1, <4>1, MarkTyped DEF PlanAfter
    <3> QED
      BY <2>1, <2>3, <3>2, <3>3 DEF PlansLag
  <2> QED
    BY <2>4, <2>5
<1> QED
  BY <1>2, <1>3

LEMMA OwnerLagMain ==
  ASSUME RunTypes, LogTypes, Conserved, Bus, Whole, Replay \in States, OwnerLag,
         NEW r \in Runs, MainGoes(r)
  PROVE  OwnerLag'
<1> DEFINE p == <<r, 0>>
<1>1. bound = Unbound => snapshot.plan.owner = Replay'.plan.owner
  BY MainReplays, DueIs DEF OwnerLag
<1>2. bound' = bound
  BY DEF MainGoes
<1>3. CASE pub'[p] = NoEvent
  <2>1. Due' = {} /\ snapshot' = snapshot
    BY <1>3, DueIs DEF MainGoes
  <2> QED
    BY <1>1, <1>2, <2>1 DEF OwnerLag
<1>4. CASE pub'[p] # NoEvent
  <2>1. PICK e \in Events : StoreHears(e) /\ Said(p)' = e
    BY <1>4 DEF MainGoes
  <2>2. Due' = IF InScope(e) THEN {e} ELSE {}
    BY <1>4, <2>1, DueIs
  <2> QED
    BY <1>1, <1>2, <2>1, <2>2 DEF OwnerLag, InScope, StoreHears
<1> QED
  BY <1>3, <1>4

-----------------------------------------------------------------------------
(* The same when a task goes on.                                           *)

LEMMA LagAside ==
  ASSUME Aside
  PROVE  /\ MessagesLag => MessagesLag'
         /\ StatusLag => StatusLag'
         /\ OwnerLag => OwnerLag'
<1>1. Conversation' = Conversation
  BY DEF Aside, Conversation
<1>2. MessagesLag => MessagesLag'
  BY <1>1 DEF Aside, MessagesLag
<1>3. StatusLag => StatusLag'
  BY DEF Aside, StatusLag
<1>4. OwnerLag => OwnerLag'
  BY DEF Aside, OwnerLag
<1> QED
  BY <1>2, <1>3, <1>4

\* A task with something to say that is not the end of its step is one of the open run.
LEMMA TaskOfOpenRun ==
  ASSUME RunTypes, Flow, Bus, NEW r \in Runs, NEW s \in Steps, <<r, s>> \in Carrying, <<r, s>> \notin doomed,
         main[r] # "loop"
  PROVE  task[<<r, s>>] = "ending" /\ Said(<<r, s>>).kind \in Ends
<1>1. TaskBus(r, s) /\ pub[<<r, s>>] # NoEvent /\ <<r, s>> \in StepsOf /\ FlowOf(r)
  BY DEF Bus, BusOf, Carrying, StepsOf, Flow
<1>2. task[<<r, s>>] \in {"started", "calling", "succeeded", "failed", "ending"}
  BY <1>1 DEF TaskBus, RunTypes, TaskStates
<1>3. task[<<r, s>>] = "ending"
  BY <1>1, <1>2 DEF FlowOf, Active
<1> QED
  BY <1>1, <1>3 DEF TaskBus, Ends, Event

LEMMA RunLagTask ==
  ASSUME RunTypes, LogTypes, Flow, Conserved, Bus, Whole, Replay \in States, RunLag,
         NEW r \in Runs, NEW s \in Steps, TaskGoes(r, s)
  PROVE  RunLag'
<1>1. SUFFICES ASSUME bound = Unbound PROVE
          /\ \A q \in Runs : main[q] \notin Idle =>
               snapshot'.run = q /\ (main[q] # "started" => Replay'.run = q)
          /\ (\A q \in Runs : main[q] \in Idle) => snapshot'.run = Replay'.run
  BY DEF RunLag, TaskGoes
<1>2. <<r, s>> \in Producers /\ session' = session /\ recorded' = RecordedAfter(<<r, s>>)
  BY DEF Producers, TaskGoes
<1>3. /\ ~Heard(<<r, s>>) => Replay' = Replay
      /\ Heard(<<r, s>>) => ReplayHears(Said(<<r, s>>)) /\ Said(<<r, s>>).run = r
                            /\ Said(<<r, s>>).kind \in TaskKinds
  BY <1>2, Replayed, TaskSaid DEF Heard
<1>4. Replay'.run \in {Replay.run, r}
  BY <1>3 DEF ReplayHears, RunAfter
<1>5. CASE main[r] = "loop"
  <2>1. /\ \A q \in Runs : main[q] \notin Idle => q = r
        /\ main[r] \notin Idle
    BY <1>5 DEF Flow, FlowOf, Idle
  <2>2. snapshot.run = r /\ Replay.run = r
    BY <1>1, <1>5, <2>1 DEF RunLag
  <2>3. snapshot'.run = r
    <3>1. CASE TaskTells(r, s)
      <4>1. PICK k \in Kinds : StoreHears(Event(k, r, s))
        BY <3>1 DEF TaskTells
      <4> QED
        BY <2>2, <4>1 DEF StoreHears, RunAfter, Event
    <3> QED
      BY <2>2, <3>1 DEF TaskGoes
  <2> QED
    BY <1>4, <2>1, <2>2, <2>3
<1>6. CASE main[r] # "loop"
  <2>1. snapshot' = snapshot
    BY <1>6 DEF TaskGoes, TaskTells
  <2>2. Heard(<<r, s>>) => Said(<<r, s>>).kind \in Ends
    BY <1>6, TaskOfOpenRun DEF Heard, TaskGoes
  <2>3. Replay'.run = Replay.run
    BY <1>3, <2>2 DEF ReplayHears, RunAfter, Ends, StepKinds
  <2> QED
    BY <1>1, <2>1, <2>3 DEF RunLag
<1> QED
  BY <1>5, <1>6

\* Nothing is heard of, neither by the store nor by the replay.
LEMMA LagRests ==
  ASSUME LogTypes, StoreRests
  PROVE  /\ MessagesLag => MessagesLag'
         /\ StatusLag => StatusLag'
         /\ OwnerLag => OwnerLag'
         /\ RunLag => RunLag'
         /\ PlansLag => PlansLag'
<1>1. Conversation' = Conversation
  BY DEF StoreRests, Conversation
<1>2. MessagesLag => MessagesLag'
  BY <1>1 DEF StoreRests, MessagesLag
<1>3. StatusLag => StatusLag'
  BY DEF StoreRests, StatusLag
<1>4. OwnerLag => OwnerLag'
  BY DEF StoreRests, OwnerLag
<1>5. RunLag => RunLag'
  BY DEF StoreRests, RunLag
<1>6. PlansLag => PlansLag'
  <2>1. /\ PlansRecorded' = PlansRecorded /\ Replay' = Replay
        /\ PlansRecorded \subseteq DOMAIN recorded
    BY DEF StoreRests, PlansRecorded
  <2>2. PlansRecorded # {} => RecordedPlanOwner' = RecordedPlanOwner
    BY <2>1 DEF RecordedPlanOwner, StoreRests
  <2> QED
    BY <2>1, <2>2 DEF StoreRests, PlansLag
<1> QED
  BY <1>2, <1>3, <1>4, <1>5, <1>6

-----------------------------------------------------------------------------
(* The current step.                                                       *)

\* It is one whose work has begun and whose end the store, or the recorder, has not heard of.
CurrentLag ==
    bound = Unbound =>
        /\ snapshot.current # 0 => \E t \in StepsOf \ doomed : task[t] \in {"started", "calling", "executing"}
        /\ Replay.current # 0 =>
            \/ \E t \in StepsOf \ doomed : task[t] \in {"calling", "executing", "succeeded", "failed", "ending"}
            \/ \E r \in Runs : main[r] = "cancelling"

LEMMA MainMoveKinds ==
  ASSUME NEW r, NEW e, MainTells(r, e)
  PROVE  \/ e.kind \in {"StepCancelled", "StepFailed"}
         \/ e.kind \notin TaskKinds /\ main'[r] # "cancelling"
<1>1. ASSUME NEW k, NEW n, MainMove(r, k, n) PROVE k \notin TaskKinds /\ n # "cancelling"
  BY <1>1 DEF MainMove, TaskKinds, Ends
<1>2. "StepScheduled" \notin TaskKinds
  BY DEF TaskKinds, Ends
<1> QED
  BY <1>1, <1>2 DEF MainTells

LEMMA CurrentKinds ==
  ASSUME NEW c, NEW e
  PROVE  /\ e.kind \notin TaskKinds => CurrentAfter(c, e) = c
         /\ e.kind \in TaskKinds /\ CurrentAfter(c, e) # 0 => e.kind \in {"StepStarted", "ToolStarted"}
  BY DEF TaskKinds, Ends, CurrentAfter

LEMMA CurrentLagMain ==
  ASSUME RunTypes, LogTypes, Conserved, Bus, Whole, Replay \in States, CurrentLag,
         NEW r \in Runs, MainGoes(r)
  PROVE  CurrentLag'
<1> DEFINE p == <<r, 0>>
<1>1. SUFFICES ASSUME bound = Unbound
      PROVE  /\ snapshot'.current # 0 =>
                  \E t \in StepsOf \ doomed' : task'[t] \in {"started", "calling", "executing"}
             /\ Replay'.current # 0 =>
                  \/ \E t \in StepsOf \ doomed' : task'[t] \in {"calling", "executing", "succeeded", "failed", "ending"}
                  \/ \E q \in Runs : main'[q] = "cancelling"
  BY DEF CurrentLag, MainGoes
<1>2. ASSUME NEW t \in StepsOf \ doomed, task[t] \in {"started", "calling", "executing", "succeeded", "failed", "ending"}
      PROVE  task'[t] = task[t] /\ (main'[r] # "cancelling" => t \notin doomed')
  <2>1. PICK q \in Runs, s \in Steps : t = <<q, s>>
    BY DEF StepsOf
  <2> QED
    BY <1>2, <2>1 DEF MainGoes, MainLeaves
<1>3. ASSUME snapshot'.current # 0 PROVE snapshot.current # 0 /\ main'[r] # "cancelling"
  <2>1. CASE pub'[p] = NoEvent
    BY <1>3, <2>1 DEF MainGoes, MainEnds
  <2>2. CASE pub'[p] # NoEvent
    <3>1. PICK e \in Events : StoreHears(e) /\ MainTells(r, e)
      BY <2>2 DEF MainGoes
    <3>2. e.kind \notin {"StepCancelled", "StepFailed"}
      BY <1>3, <3>1 DEF StoreHears, CurrentAfter
    <3> QED
      BY <1>3, <3>1, <3>2, MainMoveKinds, CurrentKinds DEF StoreHears
  <2> QED
    BY <2>1, <2>2
<1>4. ASSUME Replay'.current # 0 PROVE Replay.current # 0 /\ main[r] # "cancelling"
  <2>1. CASE ~Heard(p)
    <3>1. main[r] # "cancelling"
      BY <1>1, <2>1, MainSpoke DEF Heard, InScope
    <3> QED
      BY <1>4, <2>1, <3>1, MainReplays
  <2>2. CASE Heard(p)
    <3>1. Replay'.current = CurrentAfter(Replay.current, Said(p))
      BY <2>2, MainReplays DEF ReplayHears
    <3>2. Said(p).kind \notin {"StepCancelled", "StepFailed"}
      BY <1>4, <3>1 DEF CurrentAfter
    <3>3. main[r] # "cancelling"
      BY <3>2, MainSpoke
    <3>4. Said(p).kind \notin TaskKinds
      <4>1. \A k, u : Event(k, r, u).kind = k
        BY DEF Event
      <4> QED
        BY <2>2, <3>2, <4>1, MainSpoke DEF Heard
    <3> QED
      BY <1>4, <3>1, <3>3, <3>4, CurrentKinds
  <2> QED
    BY <2>1, <2>2
<1>5. \A q \in Runs \ {r} : main[q] # "cancelling"
  BY DEF MainGoes, Idle
<1>6. snapshot'.current # 0 =>
                  \E t \in StepsOf \ doomed' : task'[t] \in {"started", "calling", "executing"}
  BY <1>1, <1>2, <1>3 DEF CurrentLag
<1>7. ASSUME Replay'.current # 0
      PROVE  \/ \E t \in StepsOf \ doomed' : task'[t] \in {"calling", "executing", "succeeded", "failed", "ending"}
             \/ \E q \in Runs : main'[q] = "cancelling"
  <2>1. PICK t \in StepsOf \ doomed : task[t] \in {"calling", "executing", "succeeded", "failed", "ending"}
    BY <1>1, <1>4, <1>5, <1>7 DEF CurrentLag
  <2>2. task'[t] = task[t] /\ (main'[r] # "cancelling" => t \notin doomed')
    BY <1>2, <2>1
  <2> QED
    BY <2>1, <2>2
<1> QED
  BY <1>6, <1>7

\* What a task has said and where it goes on.
LEMMA TaskTurns ==
  ASSUME RunTypes, Bus, NEW r \in Runs, NEW s \in Steps, TaskGoes(r, s)
  PROVE  /\ <<r, s>> \notin Carrying => task[<<r, s>>] \in {"created", "executing"}
         /\ Said(<<r, s>>).kind = "StepStarted" => task[<<r, s>>] = "started" /\ task'[<<r, s>>] \in {"calling", "executing", "ending"}
         /\ Said(<<r, s>>).kind = "ToolStarted" => task[<<r, s>>] = "calling" /\ task'[<<r, s>>] \in {"executing", "ending"}
         /\ task[<<r, s>>] = "executing" => task'[<<r, s>>] \in {"succeeded", "failed", "ending"}
<1>1. \/ task[<<r, s>>] = "created" /\ task'[<<r, s>>] \in {"started", "ending"}
      \/ task[<<r, s>>] = "started" /\ task'[<<r, s>>] \in {"calling", "executing", "ending"}
      \/ task[<<r, s>>] = "calling" /\ task'[<<r, s>>] \in {"executing", "ending"}
      \/ task[<<r, s>>] = "executing" /\ task'[<<r, s>>] \in {"succeeded", "failed", "ending"}
      \/ task[<<r, s>>] \in {"succeeded", "failed"} /\ task'[<<r, s>>] = "ending"
      \/ task[<<r, s>>] = "ending" /\ task'[<<r, s>>] = "done"
  BY DEF TaskGoes, TaskTells, TaskMove, WorkFrom
<1>2. TaskBus(r, s) /\ <<r, s>> \in Producers
  BY DEF Bus, BusOf, Producers
<1>3. /\ task[<<r, s>>] \in {"created", "executing"} => Said(<<r, s>>).kind = "none"
      /\ task[<<r, s>>] = "started" => Said(<<r, s>>).kind = "StepStarted"
      /\ task[<<r, s>>] = "calling" => Said(<<r, s>>).kind = "ToolStarted"
      /\ task[<<r, s>>] = "succeeded" => Said(<<r, s>>).kind = "ToolFinished"
      /\ task[<<r, s>>] = "failed" => Said(<<r, s>>).kind = "ToolFailed"
      /\ task[<<r, s>>] = "ending" => Said(<<r, s>>).kind \in Ends
  BY <1>2, NoEventApart DEF TaskBus, Said, Event, Ends
<1>4. <<r, s>> \notin Carrying => Said(<<r, s>>).kind = "none"
  BY <1>2, NoEventApart DEF Carrying, Said
<1> QED
  BY <1>1, <1>3, <1>4 DEF Ends

LEMMA CurrentLagTask ==
  ASSUME RunTypes, LogTypes, Flow, Conserved, Bus, Whole, Replay \in States, CurrentLag,
         NEW r \in Runs, NEW s \in Steps, TaskGoes(r, s)
  PROVE  CurrentLag'
<1> DEFINE p == <<r, s>>
<1>1. SUFFICES ASSUME bound = Unbound
      PROVE  /\ snapshot'.current # 0 =>
                  \E t \in StepsOf \ doomed : task'[t] \in {"started", "calling", "executing"}
             /\ Replay'.current # 0 =>
                  \/ \E t \in StepsOf \ doomed : task'[t] \in {"calling", "executing", "succeeded", "failed", "ending"}
                  \/ \E q \in Runs : main[q] = "cancelling"
  BY DEF CurrentLag, TaskGoes
<1>2. p \in StepsOf \ doomed /\ p \in Producers /\ session' = session /\ recorded' = RecordedAfter(p)
  BY DEF TaskGoes, StepsOf, Producers
<1>3. \A t \in StepsOf \ {p} : task'[t] = task[t]
  BY DEF TaskGoes
<1>4. ASSUME snapshot'.current # 0
      PROVE  \E t \in StepsOf \ doomed : task'[t] \in {"started", "calling", "executing"}
  <2>1. CASE TaskTells(r, s)
    <3>1. PICK k \in Kinds : \E n : \E x : /\ TaskMove(r, s, k, x, n) /\ task'[p] = n
                                           /\ StoreHears(Event(k, r, s))
      BY <2>1 DEF TaskTells
    <3>2. k \in {"StepStarted", "ToolStarted"}
      <4>1. k \in TaskKinds
        BY <3>1 DEF TaskMove, TaskKinds, Ends
      <4> QED
        BY <1>4, <3>1, <4>1, CurrentKinds DEF StoreHears, Event
    <3>3. task'[p] \in {"started", "calling"}
      BY <3>1, <3>2 DEF TaskMove
    <3> QED
      BY <1>2, <3>3
  <2>2. CASE ~TaskTells(r, s)
    <3>1. snapshot' = snapshot
          /\ \/ task'[p] = "executing"
             \/ task[p] = "ending"
      BY <2>2 DEF TaskGoes
    <3>2. PICK t \in StepsOf \ doomed : task[t] \in {"started", "calling", "executing"}
      BY <1>1, <1>4, <3>1 DEF CurrentLag
    <3> QED
      BY <1>3, <3>1, <3>2
  <2> QED
    BY <2>1, <2>2
<1>5. ASSUME Replay'.current # 0
      PROVE  \/ \E t \in StepsOf \ doomed : task'[t] \in {"calling", "executing", "succeeded", "failed", "ending"}
             \/ \E q \in Runs : main[q] = "cancelling"
  <2>1. CASE ~Heard(p)
    <3>1. Replay'.current = Replay.current /\ p \notin Carrying
      BY <1>1, <1>2, <2>1, Replayed DEF Heard, InScope
    <3>2. task[p] \in {"created", "executing"} /\ (task[p] = "executing" => task'[p] \in {"succeeded", "failed", "ending"})
      BY <3>1, TaskTurns
    <3> QED
      BY <1>1, <1>3, <1>5, <3>1, <3>2 DEF CurrentLag
  <2>2. CASE Heard(p)
    <3>1. Replay'.current = CurrentAfter(Replay.current, Said(p)) /\ Said(p).kind \in TaskKinds
      BY <1>2, <2>2, Replayed, TaskSaid DEF ReplayHears, Heard
    <3>2. Said(p).kind \in {"StepStarted", "ToolStarted"}
      BY <1>5, <3>1, CurrentKinds
    <3>3. task'[p] \in {"calling", "executing", "ending"}
      BY <3>2, TaskTurns
    <3> QED
      BY <1>2, <3>3
  <2> QED
    BY <2>1, <2>2
<1> QED
  BY <1>4, <1>5

LEMMA CurrentLagRests ==
  ASSUME StoreRests, CurrentLag, doomed' = doomed, \A t \in StepsOf \ doomed : task'[t] = task[t]
  PROVE  CurrentLag'
  BY DEF StoreRests, CurrentLag

-----------------------------------------------------------------------------
(* The counts of tool calls.                                               *)

\* The producers whose event of a kind has not reached the recorder.
Pending(kind) == {p \in Carrying : Said(p).kind = kind}
CountsLag ==
    bound = Unbound /\ interrupted = {} =>
        /\ snapshot.calls = Replay.calls + Cardinality(Pending("ToolStarted"))
        /\ snapshot.succeeded = Replay.succeeded + Cardinality(Pending("ToolFinished"))
        /\ snapshot.failed = Replay.failed + Cardinality(Pending("ToolFailed"))

\* One producer goes on: its last event is recorded, its next one, if any, is pending.
LEMMA CountGoesOn ==
  ASSUME RunTypes, NEW p \in Producers, \A o \in Producers \ {p} : pub'[o] = pub[o],
         NEW kind, NEW stored \in Nat, NEW replayed \in Nat, stored = replayed + Cardinality(Pending(kind))
  PROVE  (IF pub'[p] # NoEvent THEN CountAfter(stored, kind, Said(p)') ELSE stored)
           = (IF p \in Carrying THEN CountAfter(replayed, kind, Said(p)) ELSE replayed)
             + Cardinality(Pending(kind)')
<1> DEFINE Q == Pending(kind) \ {p}
           in == p \in Carrying /\ Said(p).kind = kind
           out == pub'[p] # NoEvent /\ Said(p)'.kind = kind
<1>1. IsFiniteSet(Pending(kind)) /\ IsFiniteSet(Q) /\ p \notin Q
  <2>1. IsFiniteSet(Carrying) /\ Pending(kind) \subseteq Carrying /\ Q \subseteq Carrying
    BY Finite DEF Pending
  <2> QED
    BY <2>1, FS_Subset
<1>2. Cardinality(Q) \in Nat
  BY <1>1, FS_CardinalityType
<1>3. IsFiniteSet(Q \cup {p}) /\ Cardinality(Q \cup {p}) = Cardinality(Q) + 1
  BY <1>1, FS_AddElement
<1>4. Pending(kind) = IF in THEN Q \cup {p} ELSE Q
  BY DEF Pending
<1>5. Pending(kind)' = IF out THEN Q \cup {p} ELSE Q
  <2>1. \A o \in Producers \ {p} : Said(o)' = Said(o) /\ (o \in Carrying' <=> o \in Carrying)
    BY DEF Said, Carrying
  <2>2. p \in Carrying' <=> pub'[p] # NoEvent
    BY DEF Carrying
  <2>3. Carrying \subseteq Producers /\ Carrying' \subseteq Producers
    BY DEF Carrying, Producers
  <2> QED
    BY <2>1, <2>2, <2>3 DEF Pending
<1> HIDE DEF Q
<1>6. /\ Cardinality(Pending(kind)) = IF in THEN Cardinality(Q) + 1 ELSE Cardinality(Q)
      /\ Cardinality(Pending(kind)') = IF out THEN Cardinality(Q) + 1 ELSE Cardinality(Q)
  BY <1>3, <1>4, <1>5
<1> QED
  BY <1>2, <1>6 DEF CountAfter

LEMMA CountsGoOn ==
  ASSUME RunTypes, LogTypes, Conserved, Whole, Replay \in States, CountsLag, NEW p \in Producers,
         session' = session, interrupted' = interrupted, bound' = bound, recorded' = RecordedAfter(p),
         \A o \in Producers \ {p} : pub'[o] = pub[o],
         \/ \E e \in Events : StoreHears(e) /\ Said(p)' = e /\ pub'[p] # NoEvent
         \/ snapshot' = snapshot /\ pub'[p] = NoEvent
  PROVE  CountsLag'
<1>1. SUFFICES ASSUME bound = Unbound, interrupted = {}
      PROVE  /\ snapshot'.calls = Replay'.calls + Cardinality(Pending("ToolStarted")')
             /\ snapshot'.succeeded = Replay'.succeeded + Cardinality(Pending("ToolFinished")')
             /\ snapshot'.failed = Replay'.failed + Cardinality(Pending("ToolFailed")')
  BY DEF CountsLag
<1>2. Heard(p) <=> p \in Carrying
  BY <1>1 DEF Heard, InScope
<1>3. /\ Replay'.calls = IF p \in Carrying THEN CountAfter(Replay.calls, "ToolStarted", Said(p)) ELSE Replay.calls
      /\ Replay'.succeeded = IF p \in Carrying THEN CountAfter(Replay.succeeded, "ToolFinished", Said(p))
                             ELSE Replay.succeeded
      /\ Replay'.failed = IF p \in Carrying THEN CountAfter(Replay.failed, "ToolFailed", Said(p))
                          ELSE Replay.failed
  BY <1>2, Replayed DEF ReplayHears
<1>4. /\ snapshot'.calls = IF pub'[p] # NoEvent THEN CountAfter(snapshot.calls, "ToolStarted", Said(p)')
                           ELSE snapshot.calls
      /\ snapshot'.succeeded = IF pub'[p] # NoEvent THEN CountAfter(snapshot.succeeded, "ToolFinished", Said(p)')
                               ELSE snapshot.succeeded
      /\ snapshot'.failed = IF pub'[p] # NoEvent THEN CountAfter(snapshot.failed, "ToolFailed", Said(p)')
                            ELSE snapshot.failed
  BY DEF StoreHears
<1>5. /\ snapshot.calls \in Nat /\ snapshot.succeeded \in Nat /\ snapshot.failed \in Nat
      /\ Replay.calls \in Nat /\ Replay.succeeded \in Nat /\ Replay.failed \in Nat
  BY DEF LogTypes, States
<1>6. /\ snapshot.calls = Replay.calls + Cardinality(Pending("ToolStarted"))
      /\ snapshot.succeeded = Replay.succeeded + Cardinality(Pending("ToolFinished"))
      /\ snapshot.failed = Replay.failed + Cardinality(Pending("ToolFailed"))
  BY <1>1 DEF CountsLag
<1>7. snapshot'.calls = Replay'.calls + Cardinality(Pending("ToolStarted")')
  <2>1. (IF pub'[p] # NoEvent THEN CountAfter(snapshot.calls, "ToolStarted", Said(p)') ELSE snapshot.calls)
          = (IF p \in Carrying THEN CountAfter(Replay.calls, "ToolStarted", Said(p)) ELSE Replay.calls)
            + Cardinality(Pending("ToolStarted")')
    BY <1>5, <1>6, CountGoesOn
  <2> QED
    BY <1>3, <1>4, <2>1
<1>8. snapshot'.succeeded = Replay'.succeeded + Cardinality(Pending("ToolFinished")')
  <2>1. (IF pub'[p] # NoEvent THEN CountAfter(snapshot.succeeded, "ToolFinished", Said(p)') ELSE snapshot.succeeded)
          = (IF p \in Carrying THEN CountAfter(Replay.succeeded, "ToolFinished", Said(p)) ELSE Replay.succeeded)
            + Cardinality(Pending("ToolFinished")')
    BY <1>5, <1>6, CountGoesOn
  <2> QED
    BY <1>3, <1>4, <2>1
<1>9. snapshot'.failed = Replay'.failed + Cardinality(Pending("ToolFailed")')
  <2>1. (IF pub'[p] # NoEvent THEN CountAfter(snapshot.failed, "ToolFailed", Said(p)') ELSE snapshot.failed)
          = (IF p \in Carrying THEN CountAfter(Replay.failed, "ToolFailed", Said(p)) ELSE Replay.failed)
            + Cardinality(Pending("ToolFailed")')
    BY <1>5, <1>6, CountGoesOn
  <2> QED
    BY <1>3, <1>4, <2>1
<1> QED
  BY <1>7, <1>8, <1>9

\* A cancelled task takes an event with it, and then the counts are no longer compared.
LEMMA CountsLagInterrupt ==
  ASSUME RunTypes, LogTypes, CountsLag, NEW r \in Runs, NEW s \in Steps, Interrupt(r, s)
  PROVE  CountsLag'
<1>1. StoreRests
  BY InterruptRests
<1>2. /\ <<r, s>> \in Producers /\ pub' = [pub EXCEPT ![<<r, s>>] = NoEvent]
      /\ interrupted' = IF pub[<<r, s>>] = NoEvent THEN interrupted ELSE interrupted \cup {<<r, s>>}
  BY TaskIsCancelled
<1>3. CASE pub[<<r, s>>] = NoEvent
  <2>1. pub' = pub /\ interrupted' = interrupted
    BY <1>2, <1>3 DEF LogTypes
  <2>2. \A k : Pending(k)' = Pending(k)
    BY <2>1 DEF Pending, Carrying, Said
  <2> QED
    BY <1>1, <2>1, <2>2 DEF StoreRests, CountsLag
<1>4. CASE pub[<<r, s>>] # NoEvent
  BY <1>2, <1>4 DEF CountsLag
<1> QED
  BY <1>3, <1>4

LEMMA CountsLagRests ==
  ASSUME NothingGoes, CountsLag PROVE CountsLag'
<1>1. \A k : Pending(k)' = Pending(k)
  BY DEF Pending, Carrying, Said, NothingGoes
<1> QED
  BY <1>1, NothingRests DEF StoreRests, CountsLag, NothingGoes

-----------------------------------------------------------------------------
(* The statuses of the steps.                                              *)

\* The event that resolves a step is on its way.
Resolving(r, s) ==
    \/ \E k \in {"StepCancelled", "StepFailed"} : Said(<<r, 0>>) = Event(k, r, s)
    \/ Said(<<r, s>>).kind \in Ends /\ task[<<r, s>>] = "ending"

\* The status of a step in the replay is the one in the plan, or its event is due.
StepLag(r, s) ==
    /\ live[r][s] = "pending" => Replay.plan.status[s] = "pending"
    /\ live[r][s] \in Resolved => Replay.plan.status[s] = live[r][s] \/ Resolving(r, s)
StepsLag ==
    \A r \in Runs : Replay.plan.owner = r =>
        \A s \in PlanSteps(r) \ Overtaken(r) : <<r, s>> \notin interrupted => StepLag(r, s)

\* The replay gives a step the status that an event brings.
Marked(p, s) == Heard(p) /\ Said(p).kind \in Marking /\ Said(p).step = s

\* A step that is overtaken stays so, and an event of another run overtakes it.
LEMMA Overtakes ==
  ASSUME LogTypes, Conserved, Whole, PlansLag, session' = session, NEW p \in Producers,
         recorded' = RecordedAfter(p), NEW r \in Runs
  PROVE  /\ Overtaken(r) \subseteq Overtaken(r)'
         /\ \A s \in PlanSteps(r) :
              Heard(p) /\ Said(p).step = s /\ Said(p).run # r /\ PlansRecorded # {} /\ RecordedPlanOwner = r
                => s \in Overtaken(r)'
<1> DEFINE n == Len(recorded)
<1>1. /\ n \in Nat /\ DOMAIN recorded = 1..n
      /\ ~Heard(p) => recorded' = recorded
      /\ Heard(p) => /\ DOMAIN recorded' = DOMAIN recorded \cup {n + 1}
                     /\ \A i \in DOMAIN recorded : recorded'[i] = recorded[i]
                     /\ recorded'[n + 1] = Said(p)
  BY RecordGrows
<1>2. PlanSteps(r)' = PlanSteps(r)
  BY DEF PlanSteps
<1>3. DOMAIN recorded \subseteq DOMAIN recorded' /\ \A i \in DOMAIN recorded : recorded'[i] = recorded[i]
  BY <1>1
<1>4. Overtaken(r) \subseteq Overtaken(r)'
  <2>1. SUFFICES ASSUME NEW s \in Overtaken(r) PROVE s \in Overtaken(r)'
    OBVIOUS
  <2>2. PICK i, j \in DOMAIN recorded : /\ i < j /\ recorded[i].kind = "PlanCreated" /\ recorded[i].run = r
                                        /\ recorded[j].step = s /\ recorded[j].run # r
    BY <2>1 DEF Overtaken
  <2>3. /\ i \in DOMAIN recorded' /\ j \in DOMAIN recorded'
        /\ recorded'[i] = recorded[i] /\ recorded'[j] = recorded[j]
    BY <1>3
  <2>4. s \in PlanSteps(r)'
    BY <1>2, <2>1 DEF Overtaken
  <2> QED
    BY <2>2, <2>3, <2>4 DEF Overtaken
<1>5. ASSUME NEW s \in PlanSteps(r), Heard(p), Said(p).step = s, Said(p).run # r, PlansRecorded # {},
             RecordedPlanOwner = r
      PROVE  s \in Overtaken(r)'
  <2>1. PICK i \in PlansRecorded : recorded[i].run = r
    BY <1>5, LastPlan DEF RecordedPlanOwner
  <2>2. i \in DOMAIN recorded /\ recorded[i].kind = "PlanCreated" /\ i < n + 1
    BY <1>1 DEF PlansRecorded
  <2>3. i \in DOMAIN recorded' /\ n + 1 \in DOMAIN recorded' /\ recorded'[i] = recorded[i]
        /\ recorded'[n + 1] = Said(p)
    BY <1>1, <1>5, <2>2
  <2> HIDE DEF n
  <2>4. \E k, j \in DOMAIN recorded' : /\ k < j /\ recorded'[k].kind = "PlanCreated" /\ recorded'[k].run = r
                                       /\ recorded'[j].step = s /\ recorded'[j].run # r
    BY <1>5, <2>1, <2>2, <2>3
  <2> QED
    BY <1>2, <2>4 DEF Overtaken
<1> QED
  BY <1>4, <1>5

LEMMA StatusesReplayed ==
  ASSUME LogTypes, Conserved, Whole, Replay \in States, PlansLag, session' = session,
         NEW p \in Producers, recorded' = RecordedAfter(p), ~(Heard(p) /\ Said(p).kind = "PlanCreated"),
         NEW r \in Runs, Replay'.plan.owner = r
  PROVE  /\ Replay.plan.owner = r
         /\ \A s \in PlanSteps(r) \ Overtaken(r)' :
              /\ s \notin Overtaken(r)
              /\ Marked(p, s) => Said(p).run = r /\ Replay'.plan.status[s] = Marks(Said(p).kind)
              /\ ~Marked(p, s) => Replay'.plan.status[s] = Replay.plan.status[s]
<1>1. CASE ~Heard(p)
  <2>1. Replay' = Replay /\ \A s : ~Marked(p, s)
    BY <1>1, Replayed DEF Marked
  <2>2. Overtaken(r) \subseteq Overtaken(r)'
    BY <2>1, Overtakes
  <2> QED
    BY <2>1, <2>2
<1>2. CASE Heard(p)
  <2>1. /\ Said(p) \in Events /\ Replay'.plan = PlanAfter(Replay.plan, Said(p)) /\ Replay.plan \in PlanViews
        /\ Said(p).kind # "PlanCreated"
    BY <1>2, Replayed DEF ReplayHears, States
  <2>2. Replay.plan.owner = r
    BY <2>1, OwnerOfPlan DEF OwnerAfter
  <2>3. Replay.plan # NoPlan /\ PlansRecorded # {} /\ RecordedPlanOwner = r
    BY <2>2, NoPlanApart DEF PlansLag
  <2>4. ASSUME NEW s \in PlanSteps(r)
        PROVE  Replay'.plan.status[s] = IF Marked(p, s) THEN Marks(Said(p).kind) ELSE Replay.plan.status[s]
    <3>1. CASE Said(p).kind \in Marking
      <4>1. Replay'.plan = Mark(Replay.plan, Said(p).step, Marks(Said(p).kind)) /\ Marks(Said(p).kind) \in Statuses
        BY <2>1, <3>1 DEF PlanAfter, Marks, Marking, Statuses
      <4> QED
        BY <1>2, <2>1, <2>3, <3>1, <4>1, MarkTyped DEF Marked
    <3>2. CASE Said(p).kind \notin Marking
      BY <2>1, <3>2 DEF PlanAfter, Marked
    <3> QED
      BY <3>1, <3>2
  <2>5. /\ Overtaken(r) \subseteq Overtaken(r)'
        /\ \A s \in PlanSteps(r) : Heard(p) /\ Said(p).step = s /\ Said(p).run # r => s \in Overtaken(r)'
    BY <2>2, <2>3, Overtakes
  <2>6. \A s \in PlanSteps(r) \ Overtaken(r)' : s \notin Overtaken(r) /\ (Marked(p, s) => Said(p).run = r)
    BY <2>5 DEF Marked
  <2> QED
    BY <2>2, <2>4, <2>6
<1> QED
  BY <1>1, <1>2

\* What the replay makes of a step when a producer goes on.
StatusHeard(p, r, s) ==
    IF Marked(p, s) THEN Said(p).run = r /\ Replay'.plan.status[s] = Marks(Said(p).kind)
    ELSE Replay'.plan.status[s] = Replay.plan.status[s]

LEMMA EndsMark ==
  /\ Ends \subseteq Marking /\ Marking \subseteq TaskKinds
  /\ \A k : k \in Marking \ Ends => k = "StepStarted"
  /\ Ends \subseteq StepKinds /\ "StepStarted" \in StepKinds
  BY DEF Ends, Marking, TaskKinds, StepKinds

LEMMA StepLagMain ==
  ASSUME RunTypes, LogTypes, Bus, NEW r \in Runs, MainGoes(r),
         NEW q \in Runs, NEW s \in PlanSteps(q), StepLag(q, s), StatusHeard(<<r, 0>>, q, s)
  PROVE  StepLag(q, s)'
<1> DEFINE p == <<r, 0>>
<1>1. s \in Steps /\ s # 0 /\ p \in Producers /\ <<q, s>> \in Producers /\ <<q, 0>> \in Producers
  BY StepsArePlanned, StepsAssumption DEF Producers
<1>2. \/ live'[q][s] = live[q][s] \/ live'[q][s] = "running"
      \/ \E k \in {"StepCancelled", "StepFailed"} : live'[q][s] = Marks(k) /\ Said(p)' = Event(k, q, s)
  BY DEF Marks, MainGoes, MainLeaves
<1>3. CASE live'[q][s] = "running"
  BY <1>3 DEF StepLag, Resolved
<1>4. CASE \E k \in {"StepCancelled", "StepFailed"} : live'[q][s] = Marks(k) /\ Said(p)' = Event(k, q, s)
  <2>1. pub'[p] # NoEvent /\ Said(p)'.run = q
    BY <1>4, NoEventApart DEF Said, Event
  <2>2. q = r
    BY <2>1 DEF MainGoes
  <2>3. live'[q][s] # "pending"
    BY <1>4 DEF Marks
  <2> QED
    BY <1>4, <2>2, <2>3 DEF StepLag, Resolving
<1>5. CASE live'[q][s] = live[q][s] /\ Marked(p, s)
  <2>1. Said(p).run = q /\ Said(p).kind \in TaskKinds /\ p \in Carrying
    BY <1>5, EndsMark DEF StatusHeard, Marked, Heard
  <2>2. Said(p).kind \in {"StepCancelled", "StepFailed"} /\ live[q][s] = Marks(Said(p).kind)
    <3>1. PICK u \in PlanSteps(r), k \in {"StepCancelled", "StepFailed"} :
              Said(p) = Event(k, r, u) /\ live[r][u] = Marks(k)
      BY <2>1, MainSpoke
    <3>2. Said(p).kind = k /\ Said(p).run = r /\ Said(p).step = u
      BY <3>1 DEF Event
    <3> QED
      BY <1>5, <2>1, <3>1, <3>2 DEF Marked
  <2>3. Replay'.plan.status[s] = live'[q][s] /\ live'[q][s] # "pending"
    BY <1>5, <2>2 DEF StatusHeard, Marks
  <2> QED
    BY <2>3 DEF StepLag
<1>6. CASE live'[q][s] = live[q][s] /\ ~Marked(p, s)
  <2>1. Replay'.plan.status[s] = Replay.plan.status[s]
    BY <1>6 DEF StatusHeard
  <2>2. ASSUME Resolving(q, s) PROVE Resolving(q, s)'
    <3>1. CASE Said(<<q, s>>).kind \in Ends /\ task[<<q, s>>] = "ending"
      <4>1. Said(<<q, s>>)' = Said(<<q, s>>)
        BY <1>1 DEF MainGoes, Said
      <4>2. task'[<<q, s>>] = task[<<q, s>>]
        BY <1>1, <3>1 DEF MainGoes, MainLeaves
      <4> QED
        BY <3>1, <4>1, <4>2 DEF Resolving
    <3>2. ASSUME NEW k \in {"StepCancelled", "StepFailed"}, Said(<<q, 0>>) = Event(k, q, s)
          PROVE  Resolving(q, s)'
      <4>1. Said(<<q, 0>>).kind = k /\ Said(<<q, 0>>).step = s /\ <<q, 0>> \in Carrying
        <5>1. Said(<<q, 0>>).kind = k /\ Said(<<q, 0>>).step = s
          BY <3>2 DEF Event
        <5> QED
          BY <1>1, <5>1, NoEventApart DEF Carrying, Said
      <4>2. q # r
        BY <1>6, <4>1 DEF Marked, Heard, InScope, Marking, StepKinds
      <4>3. Said(<<q, 0>>)' = Said(<<q, 0>>)
        BY <1>1, <4>2 DEF MainGoes, Said
      <4> QED
        BY <3>2, <4>3 DEF Resolving
    <3> QED
      BY <2>2, <3>1, <3>2 DEF Resolving
  <2> QED
    BY <1>6, <2>1, <2>2 DEF StepLag
<1> QED
  BY <1>2, <1>3, <1>4, <1>5, <1>6

LEMMA StepLagTask ==
  ASSUME RunTypes, LogTypes, Flow, Bus, NEW r \in Runs, NEW u \in Steps, TaskGoes(r, u),
         NEW q \in Runs, NEW s \in PlanSteps(q), StepLag(q, s), StatusHeard(<<r, u>>, q, s)
  PROVE  StepLag(q, s)'
<1> DEFINE p == <<r, u>>
<1>1. /\ s \in Steps /\ u # 0 /\ p \in Producers /\ <<q, s>> \in Producers /\ <<q, 0>> \in Producers
      /\ <<q, 0>> # p /\ p \in StepsOf /\ <<q, s>> \in StepsOf
  BY StepsArePlanned, StepsAssumption DEF Producers, StepsOf
<1>2. Marked(p, s) => /\ Said(p).step = u /\ Said(p).run = r /\ r = q /\ u = s
  BY TaskSaid DEF Marked, Heard, StatusHeard
<1>3. CASE p # <<q, s>>
  <2>1. Replay'.plan.status[s] = Replay.plan.status[s] /\ live'[q][s] = live[q][s]
    BY <1>2, <1>3 DEF StatusHeard, TaskGoes
  <2>2. /\ Said(<<q, s>>)' = Said(<<q, s>>) /\ Said(<<q, 0>>)' = Said(<<q, 0>>)
        /\ task'[<<q, s>>] = task[<<q, s>>]
    BY <1>1, <1>3 DEF TaskGoes, Said
  <2> QED
    BY <2>1, <2>2 DEF StepLag, Resolving
<1>4. CASE p = <<q, s>>
  <2>0. r = q /\ u = s
    BY <1>4
  <2>1. CASE TaskTells(r, u)
    <3>1. PICK k \in Kinds : \E x : \E n : /\ TaskMove(r, u, k, x, n) /\ task'[p] = n /\ live'[r][u] = x
                                           /\ Said(p)' = Event(k, r, u)
      BY <2>1 DEF TaskTells
    <3>2. \/ live'[r][u] = "running"
          \/ k \in Ends /\ task'[p] = "ending"
      BY <3>1 DEF TaskMove, Ends
    <3>3. CASE live'[r][u] = "running"
      BY <2>0, <3>3 DEF StepLag, Resolved
    <3>4. CASE k \in Ends /\ task'[p] = "ending"
      <4>1. Resolving(q, s)'
        BY <2>0, <3>1, <3>4 DEF Resolving, Event
      <4>2. live'[q][s] # "pending"
        BY <2>0, <3>1, <3>4 DEF TaskMove, Ends
      <4> QED
        BY <4>1, <4>2 DEF StepLag
    <3> QED
      BY <3>2, <3>3, <3>4
  <2>2. CASE ~TaskTells(r, u)
    <3>1. /\ live' = live /\ p \notin doomed
          /\ \/ task[p] \in {"started", "calling"}
             \/ task[p] = "ending" /\ task'[p] = "done"
      BY <2>2 DEF TaskGoes, WorkFrom
    <3>2. CASE task[p] \in {"started", "calling"}
      <4>1. live'[q][s] = "running"
        BY <2>0, <1>1, <3>1, <3>2 DEF Flow, FlowOf, Active
      <4> QED
        BY <4>1 DEF StepLag, Resolved
    <3>3. CASE task[p] = "ending"
      <4>1. TaskBus(r, u)
        BY DEF Bus, BusOf
      <4>2. \/ Said(p) = Event("StepFinished", r, u) /\ live[r][u] = "completed"
            \/ Said(p) = Event("StepFailed", r, u) /\ live[r][u] = "failed"
            \/ Said(p) = Event("StepCancelled", r, u) /\ live[r][u] = "cancelled"
        BY <3>3, <4>1 DEF TaskBus
      <4>3. /\ Said(p).kind \in Ends /\ Said(p).step = s /\ live[r][u] = Marks(Said(p).kind)
        BY <2>0, <4>2 DEF Event, Ends, Marks
      <4>4. p \in Carrying
        BY <1>1, <4>3, NoEventApart DEF Carrying, Said, Ends
      <4>5. Marked(p, s)
        BY <4>3, <4>4, EndsMark DEF Marked, Heard, InScope
      <4>6. Replay'.plan.status[s] = live'[q][s] /\ live'[q][s] # "pending"
        BY <2>0, <3>1, <4>2, <4>3, <4>5 DEF StatusHeard
      <4> QED
        BY <4>6 DEF StepLag
    <3> QED
      BY <3>1, <3>2, <3>3
  <2> QED
    BY <2>1, <2>2
<1> QED
  BY <1>3, <1>4

\* A plan is recorded when its loop goes on: until then no step of it was touched.
LEMMA StepsLagPlanned ==
  ASSUME RunTypes, LogTypes, Conserved, Bus, Whole, Replay \in States, NEW r \in Runs, MainGoes(r),
         Heard(<<r, 0>>), Said(<<r, 0>>).kind = "PlanCreated"
  PROVE  StepsLag'
<1> DEFINE p == <<r, 0>>
<1>1. /\ PlanSteps(r)' = PlanSteps(r) /\ \A s \in PlanSteps(r) : s \in Steps
      /\ p \in Producers
  BY StepsArePlanned DEF MainGoes, PlanSteps, Producers
<1>2. Said(p).run = r /\ Replay'.plan = PlanOf(r)
  BY MainReplays, MainSpoke DEF ReplayHears, PlanAfter, Heard
<1>3. Replay'.plan.owner = r /\ \A s \in PlanSteps(r) : Replay'.plan.status[s] = "pending"
  BY <1>2, PlanOfTyped DEF PlanOf
<1>4. \A s \in PlanSteps(r) : live[r][s] = "pending"
  BY DEF Bus, BusOf, PlanStatuses, Publishing, Said
<1>5. ASSUME NEW s \in PlanSteps(r) PROVE StepLag(r, s)'
  <2>1. \/ live'[r][s] \in {"pending", "running"}
        \/ live'[r][s] \in Resolved
           /\ \E k \in {"StepCancelled", "StepFailed"} : Said(p)' = Event(k, r, s)
    BY <1>4 DEF MainGoes, MainLeaves, Resolved
  <2> QED
    BY <1>3, <2>1 DEF StepLag, Resolving, Resolved
<1> QED
  BY <1>1, <1>3, <1>5 DEF StepsLag

LEMMA StepsLagMain ==
  ASSUME RunTypes, LogTypes, Conserved, Bus, Whole, Replay \in States, PlansLag, StepsLag,
         NEW r \in Runs, MainGoes(r)
  PROVE  StepsLag'
<1>1. CASE Heard(<<r, 0>>) /\ Said(<<r, 0>>).kind = "PlanCreated"
  BY <1>1, StepsLagPlanned
<1>2. CASE ~(Heard(<<r, 0>>) /\ Said(<<r, 0>>).kind = "PlanCreated")
  <2>1. /\ session' = session /\ interrupted' = interrupted
        /\ recorded' = RecordedAfter(<<r, 0>>) /\ <<r, 0>> \in Producers
    BY DEF MainGoes, Producers
  <2>2. \A q : PlanSteps(q)' = PlanSteps(q)
    BY <2>1 DEF PlanSteps
  <2>3. SUFFICES ASSUME NEW q \in Runs, Replay'.plan.owner = q, NEW s \in PlanSteps(q) \ Overtaken(q)',
                        <<q, s>> \notin interrupted
                 PROVE  StepLag(q, s)'
    BY <2>1, <2>2 DEF StepsLag
  <2>4. Replay.plan.owner = q /\ s \notin Overtaken(q) /\ StatusHeard(<<r, 0>>, q, s)
    BY <1>2, <2>1, <2>3, StatusesReplayed DEF StatusHeard
  <2>5. StepLag(q, s)
    BY <2>3, <2>4 DEF StepsLag
  <2> QED
    BY <2>4, <2>5, StepLagMain
<1> QED
  BY <1>1, <1>2

LEMMA StepsLagTask ==
  ASSUME RunTypes, LogTypes, Flow, Conserved, Bus, Whole, Replay \in States, PlansLag, StepsLag,
         NEW r \in Runs, NEW u \in Steps, TaskGoes(r, u)
  PROVE  StepsLag'
<1>1. /\ session' = session /\ interrupted' = interrupted
      /\ recorded' = RecordedAfter(<<r, u>>) /\ <<r, u>> \in Producers
  BY DEF TaskGoes, Producers
<1>2. \A q : PlanSteps(q)' = PlanSteps(q)
  BY <1>1 DEF PlanSteps
<1>3. ~(Heard(<<r, u>>) /\ Said(<<r, u>>).kind = "PlanCreated")
  BY TaskSaid, TaskKindsAside DEF Heard
<1>4. SUFFICES ASSUME NEW q \in Runs, Replay'.plan.owner = q, NEW s \in PlanSteps(q) \ Overtaken(q)',
                      <<q, s>> \notin interrupted
               PROVE  StepLag(q, s)'
  BY <1>1, <1>2 DEF StepsLag
<1>5. Replay.plan.owner = q /\ s \notin Overtaken(q) /\ StatusHeard(<<r, u>>, q, s)
  BY <1>1, <1>3, <1>4, StatusesReplayed DEF StatusHeard
<1>6. StepLag(q, s)
  BY <1>4, <1>5 DEF StepsLag
<1> QED
  BY <1>5, <1>6, StepLagTask

\* A cancelled task takes its event with it, and then its step is no longer compared.
LEMMA StepsLagInterrupt ==
  ASSUME RunTypes, LogTypes, StepsLag, NEW r \in Runs, NEW u \in Steps, Interrupt(r, u)
  PROVE  StepsLag'
<1>1. StoreRests
  BY InterruptRests
<1>2. /\ <<r, u>> \in Producers /\ pub' = [pub EXCEPT ![<<r, u>>] = NoEvent]
      /\ interrupted' = IF pub[<<r, u>>] = NoEvent THEN interrupted ELSE interrupted \cup {<<r, u>>}
      /\ task' = [task EXCEPT ![<<r, u>>] = "done"] /\ u # 0
  BY TaskIsCancelled, StepsAssumption
<1>3. \A q : PlanSteps(q)' = PlanSteps(q) /\ Overtaken(q)' = Overtaken(q)
  BY <1>1 DEF StoreRests, PlanSteps, Overtaken
<1>4. SUFFICES ASSUME NEW q \in Runs, Replay'.plan.owner = q, NEW s \in PlanSteps(q) \ Overtaken(q),
                      <<q, s>> \notin interrupted'
               PROVE  StepLag(q, s)'
  BY <1>3 DEF StepsLag
<1>5. StepLag(q, s) /\ live' = live /\ Replay' = Replay
  BY <1>1, <1>2, <1>4 DEF StepsLag, StoreRests
<1>6. ASSUME Resolving(q, s) PROVE Resolving(q, s)'
  <2>1. <<q, 0>> \in Producers /\ <<q, s>> \in Producers /\ <<q, s>> \in StepsOf
    BY StepsArePlanned DEF Producers, StepsOf
  <2>2. Said(<<q, 0>>)' = Said(<<q, 0>>)
    BY <1>2, <2>1 DEF LogTypes, Said
  <2>3. CASE Said(<<q, s>>).kind \in Ends /\ task[<<q, s>>] = "ending"
    <3>1. pub[<<q, s>>] # NoEvent
      BY <2>3, NoEventApart DEF Said, Ends
    <3>2. <<q, s>> # <<r, u>>
      BY <1>2, <1>4, <3>1
    <3>3. Said(<<q, s>>)' = Said(<<q, s>>) /\ task'[<<q, s>>] = task[<<q, s>>]
      BY <1>2, <2>1, <3>2 DEF LogTypes, RunTypes, Said
    <3> QED
      BY <2>3, <3>3 DEF Resolving
  <2> QED
    BY <1>6, <2>2, <2>3 DEF Resolving
<1> QED
  BY <1>5, <1>6 DEF StepLag

LEMMA StepsLagRests ==
  ASSUME NothingGoes, StepsLag PROVE StepsLag'
<1>1. Replay' = Replay /\ UNCHANGED <<session, live, task, pub, interrupted, recorded>>
  BY NothingRests DEF StoreRests, NothingGoes
<1>2. \A q : PlanSteps(q)' = PlanSteps(q) /\ Overtaken(q)' = Overtaken(q)
  BY <1>1 DEF PlanSteps, Overtaken
<1>3. \A q, s : StepLag(q, s) => StepLag(q, s)'
  BY <1>1 DEF StepLag, Resolving, Said
<1> QED
  BY <1>1, <1>2, <1>3 DEF StepsLag

-----------------------------------------------------------------------------
(* The theorems.                                                           *)

\* How far the replay is behind the store.
Lag == Whole =>
    /\ Replay \in States
    /\ MessagesLag /\ StatusLag /\ RunLag /\ OwnerLag /\ PlansLag
    /\ CurrentLag /\ CountsLag /\ StepsLag

LEMMA LagInit == ASSUME Init PROVE Lag
<1>1. /\ Carrying = {} /\ recorded = <<>> /\ snapshot = InitialState
      /\ \A r \in Runs : main[r] = "new"
  BY DEF Init, Carrying
<1>2. Replay = InitialState /\ PlansRecorded = {} /\ Due = {}
  BY <1>1, ReplayOfNone DEF Replay, PlansRecorded, Due
<1>3. \A k : Pending(k) = {}
  BY <1>1 DEF Pending
<1>4. LogTypes
  BY InitEstablishes DEF Inv
<1>5. Replay \in States
  BY <1>1, <1>2, <1>4 DEF LogTypes
<1>6. MessagesLag
  <2>1. snapshot.messages = <<>> /\ Replay.messages = <<>>
    BY <1>1, <1>2 DEF InitialState
  <2> QED
    BY <1>2, <2>1, MessagesOfNone DEF MessagesLag, Conversation
<1>7. StatusLag
  BY <1>1, <1>2 DEF StatusLag, StatusIn, InitialState
<1>8. RunLag
  BY <1>1, <1>2 DEF RunLag, Idle
<1>9. OwnerLag
  BY <1>1, <1>2 DEF OwnerLag
<1>10. PlansLag
  BY <1>2 DEF PlansLag, InitialState
<1>11. CurrentLag
  BY <1>1, <1>2 DEF CurrentLag, InitialState
<1>12. CountsLag
  <2>1. snapshot.calls = 0 /\ snapshot.succeeded = 0 /\ snapshot.failed = 0 /\ Replay = snapshot
    BY <1>1, <1>2 DEF InitialState
  <2> QED
    BY <1>3, <2>1, FS_EmptySet DEF CountsLag
<1>13. StepsLag
  <2>1. Replay.plan.owner \notin Runs
    BY <1>2, NoPlanApart DEF InitialState
  <2> QED
    BY <2>1 DEF StepsLag
<1> QED
  BY <1>5, <1>6, <1>7, <1>8, <1>9, <1>10, <1>11, <1>12, <1>13 DEF Lag

LEMMA LagKept ==
  ASSUME RunTypes, LogTypes, Flow, Conserved, Bus, Lag, [Next]_vars PROVE Lag'
<1>1. SUFFICES ASSUME Whole'
               PROVE  /\ Replay' \in States'
                      /\ MessagesLag' /\ StatusLag' /\ RunLag' /\ OwnerLag' /\ PlansLag'
                      /\ CurrentLag' /\ CountsLag' /\ StepsLag'
  BY DEF Lag
<1>2. Whole
  BY <1>1, WholeBefore
<1>3. /\ Replay \in States
      /\ MessagesLag /\ StatusLag /\ RunLag /\ OwnerLag /\ PlansLag
      /\ CurrentLag /\ CountsLag /\ StepsLag
  BY <1>2 DEF Lag
<1>4. session' = session => States' = States
  BY DEF States, PlanViews, PlanSteps
<1>5. ASSUME NEW r \in Runs, MainGoes(r)
      PROVE  /\ Replay' \in States'
             /\ MessagesLag' /\ StatusLag' /\ RunLag' /\ OwnerLag' /\ PlansLag'
             /\ CurrentLag' /\ CountsLag' /\ StepsLag'
  <2>1. /\ session' = session /\ bound' = bound /\ interrupted' = interrupted
        /\ recorded' = RecordedAfter(<<r, 0>>) /\ <<r, 0>> \in Producers
        /\ \A o \in Producers \ {<<r, 0>>} : pub'[o] = pub[o]
        /\ \/ \E e \in Events : StoreHears(e) /\ Said(<<r, 0>>)' = e /\ pub'[<<r, 0>>] # NoEvent
           \/ snapshot' = snapshot /\ pub'[<<r, 0>>] = NoEvent
    BY <1>5 DEF MainGoes, Producers
  <2>2. Replay' \in States'
    BY <1>2, <1>3, <1>4, <1>5, <2>1, MainReplays
  <2>3. MessagesLag' /\ StatusLag' /\ RunLag' /\ OwnerLag'
    BY <1>2, <1>3, <1>5, MessagesLagMain, StatusLagMain, RunLagMain, OwnerLagMain
  <2>4. PlansLag'
    BY <1>2, <1>3, <2>1, PlansLagKept
  <2>5. CurrentLag'
    BY <1>2, <1>3, <1>5, CurrentLagMain
  <2>6. CountsLag'
    BY <1>2, <1>3, <2>1, CountsGoOn
  <2>7. StepsLag'
    BY <1>2, <1>3, <1>5, StepsLagMain
  <2> QED
    BY <2>2, <2>3, <2>4, <2>5, <2>6, <2>7
<1>6. ASSUME NEW r \in Runs, NEW s \in Steps, TaskGoes(r, s)
      PROVE  /\ Replay' \in States'
             /\ MessagesLag' /\ StatusLag' /\ RunLag' /\ OwnerLag' /\ PlansLag'
             /\ CurrentLag' /\ CountsLag' /\ StepsLag'
  <2>1. /\ session' = session /\ bound' = bound /\ interrupted' = interrupted
        /\ recorded' = RecordedAfter(<<r, s>>) /\ <<r, s>> \in Producers
        /\ \A o \in Producers \ {<<r, s>>} : pub'[o] = pub[o]
    BY <1>6 DEF TaskGoes, Producers
  <2>2. \/ \E e \in Events : StoreHears(e) /\ Said(<<r, s>>)' = e /\ pub'[<<r, s>>] # NoEvent
        \/ snapshot' = snapshot /\ pub'[<<r, s>>] = NoEvent
    BY <1>6 DEF TaskGoes, TaskTells
  <2>3. Aside /\ Replay' \in States'
    BY <1>2, <1>3, <1>4, <1>6, <2>1, TaskAside
  <2>4. MessagesLag' /\ StatusLag' /\ OwnerLag'
    BY <1>3, <2>3, LagAside
  <2>5. RunLag'
    BY <1>2, <1>3, <1>6, RunLagTask
  <2>6. PlansLag'
    BY <1>2, <1>3, <2>1, PlansLagKept
  <2>7. CurrentLag'
    BY <1>2, <1>3, <1>6, CurrentLagTask
  <2>8. CountsLag'
    BY <1>2, <1>3, <2>1, <2>2, CountsGoOn
  <2>9. StepsLag'
    BY <1>2, <1>3, <1>6, StepsLagTask
  <2> QED
    BY <2>3, <2>4, <2>5, <2>6, <2>7, <2>8, <2>9
<1>7. ASSUME NEW r \in Runs, NEW s \in Steps, Interrupt(r, s)
      PROVE  /\ Replay' \in States'
             /\ MessagesLag' /\ StatusLag' /\ RunLag' /\ OwnerLag' /\ PlansLag'
             /\ CurrentLag' /\ CountsLag' /\ StepsLag'
  <2>1. StoreRests
    BY <1>7, InterruptRests
  <2>2. /\ Replay' \in States'
        /\ MessagesLag' /\ StatusLag' /\ RunLag' /\ OwnerLag' /\ PlansLag'
    BY <1>3, <1>4, <2>1, LagRests DEF StoreRests
  <2>3. doomed' = doomed /\ \A t \in StepsOf \ doomed : task'[t] = task[t]
    BY <1>7, TaskIsCancelled DEF RunTypes
  <2>4. CurrentLag'
    BY <1>3, <2>1, <2>3, CurrentLagRests
  <2> QED
    BY <1>3, <1>7, <2>2, <2>4, CountsLagInterrupt, StepsLagInterrupt
<1>8. ASSUME NothingGoes
      PROVE  /\ Replay' \in States'
             /\ MessagesLag' /\ StatusLag' /\ RunLag' /\ OwnerLag' /\ PlansLag'
             /\ CurrentLag' /\ CountsLag' /\ StepsLag'
  <2>1. StoreRests /\ doomed' = doomed /\ task' = task
    BY <1>8, NothingRests DEF NothingGoes
  <2>2. /\ Replay' \in States'
        /\ MessagesLag' /\ StatusLag' /\ RunLag' /\ OwnerLag' /\ PlansLag'
    BY <1>3, <1>4, <2>1, LagRests DEF StoreRests
  <2>3. CurrentLag'
    BY <1>3, <2>1, CurrentLagRests
  <2> QED
    BY <1>3, <1>8, <2>2, <2>3, CountsLagRests, StepsLagRests
<1> QED
  BY <1>5, <1>6, <1>7, <1>8, Moves

LEMMA LagInvariant == Spec => [](RecordInv /\ Lag)
<1>1. Init => Lag
  BY LagInit
<1>2. RecordInv /\ Lag /\ [Next]_vars => Lag'
  BY LagKept DEF RecordInv, Inv
<1> QED
  BY <1>1, <1>2, RecordInvariant, PTL DEF Spec

\* When no run is open and every task has ended, no event is on its way.
LEMMA AllIsQuiet ==
  ASSUME RunTypes, LogTypes, Bus, Quiet
  PROVE  /\ Due = {} /\ \A k : Pending(k) = {}
         /\ \A r \in Runs : main[r] \in Idle
         /\ \A t \in StepsOf : task[t] \in {"none", "done"}
         /\ \A r \in Runs : \A s \in PlanSteps(r) :
              ~Resolving(r, s) /\ live[r][s] \in Resolved \cup {"pending"}
<1>1. /\ \A r \in Runs : main[r] \in Idle
      /\ \A t \in StepsOf : task[t] \in {"none", "done"}
  BY DEF Quiet, Idle
<1>2. ASSUME NEW p \in Producers PROVE pub[p] = NoEvent
  <2>1. PICK r \in Runs, s \in Steps \cup {0} : p = <<r, s>>
    BY DEF Producers
  <2>2. CASE s = 0
    BY <1>1, <2>1, <2>2 DEF Bus, BusOf, MainBus
  <2>3. CASE s \in Steps
    <3>1. task[p] \in {"none", "done"} /\ TaskBus(r, s)
      BY <1>1, <2>1, <2>3 DEF StepsOf, Bus, BusOf
    <3> QED
      BY <2>1, <3>1 DEF TaskBus
  <2> QED
    BY <2>1, <2>2, <2>3
<1>3. Carrying = {}
  BY <1>2 DEF Carrying
<1>4. ASSUME NEW r \in Runs, NEW s \in PlanSteps(r)
      PROVE  ~Resolving(r, s) /\ live[r][s] \in Resolved \cup {"pending"}
  <2>1. <<r, 0>> \in Producers /\ <<r, s>> \in StepsOf
    BY StepsArePlanned DEF Producers, StepsOf
  <2>2. ~Resolving(r, s)
    BY <1>1, <1>2, <2>1, NoEventApart DEF Resolving, Said, Event
  <2>3. live[r][s] # "running" /\ live[r][s] \in Statuses
    BY <1>1 DEF Bus, BusOf, PlanStatuses, Idle, LogTypes, AreLive
  <2> QED
    BY <2>2, <2>3 DEF Statuses, Resolved
<1> QED
  BY <1>1, <1>3, <1>4 DEF Due, Pending

\* The replay then has the statuses of the plan it holds.
LEMMA StatusesCatchUp ==
  ASSUME RunTypes, LogTypes, Bus, Lag, Whole, Quiet, NEW r \in Runs, Replay.plan.owner = r,
         NEW s \in PlanSteps(r) \ Overtaken(r), <<r, s>> \notin interrupted
  PROVE  Replay.plan.status[s] = live[r][s]
<1>1. StepLag(r, s)
  BY DEF Lag, StepsLag
<1>2. ~Resolving(r, s) /\ live[r][s] \in Resolved \cup {"pending"}
  BY AllIsQuiet
<1> QED
  BY <1>1, <1>2 DEF StepLag

\* What the store shows beside the statuses.
LEMMA ViewIs ==
  ASSUME LogTypes
  PROVE  /\ View.messages = snapshot.messages /\ View.status = snapshot.status
         /\ View.run = snapshot.run /\ View.current = snapshot.current
         /\ View.calls = snapshot.calls /\ View.succeeded = snapshot.succeeded
         /\ View.failed = snapshot.failed /\ View.plan.owner = snapshot.plan.owner
         /\ View \in States
  BY ShownTyped DEF View, Shown, LogTypes, States

\* The record suffices: ReplayPlayer.replay of what an ExecutionRecorder that was never
\* stopped got, in its own order, from the suspended publishes of concurrent tasks,
\* gives the state that the store holds when the runs are over, but for the steps
\* and counts whose events a cancellation or a later plan took away.
THEOREM ReplayRebuilds == Spec => []ReplayAgrees
<1>1. ASSUME RecordInv, Lag, StoreFollowsPlan PROVE ReplayAgrees
  <2>1. SUFFICES ASSUME bound = Unbound, Whole, Quiet
        PROVE  /\ Replay.messages = View.messages /\ Replay.status = View.status /\ Replay.run = View.run
               /\ Replay.current = View.current /\ Replay.plan.owner = View.plan.owner
               /\ \A s \in DOMAIN View.plan.status \ Overtaken(View.plan.owner) :
                    <<View.plan.owner, s>> \notin interrupted =>
                        Replay.plan.status[s] = View.plan.status[s]
               /\ interrupted = {} =>
                    /\ Replay.calls = View.calls
                    /\ Replay.succeeded = View.succeeded /\ Replay.failed = View.failed
    BY DEF ReplayAgrees
  <2>2. RunTypes /\ LogTypes /\ Bus /\ Replay \in States
    BY <1>1, <2>1 DEF RecordInv, Inv, Lag
  <2>3. /\ MessagesLag /\ StatusLag /\ RunLag /\ OwnerLag /\ CurrentLag /\ CountsLag
    BY <1>1, <2>1 DEF Lag
  <2>4. /\ Due = {} /\ \A k : Pending(k) = {}
        /\ \A r \in Runs : main[r] \in Idle
        /\ \A t \in StepsOf : task[t] \in {"none", "done"}
    BY <2>1, <2>2, AllIsQuiet
  <2>5. Replay.messages = View.messages
    BY <2>1, <2>2, <2>3, <2>4, ViewIs DEF MessagesLag, Conversation
  <2>6. Replay.status = View.status /\ Replay.run = View.run /\ Replay.plan.owner = View.plan.owner
    BY <2>1, <2>2, <2>3, <2>4, ViewIs DEF StatusLag, RunLag, OwnerLag
  <2>7. Replay.current = View.current
    <3>1. snapshot.current = 0 /\ Replay.current = 0
      BY <2>1, <2>3, <2>4 DEF CurrentLag, Idle
    <3> QED
      BY <2>2, <3>1, ViewIs
  <2>8. ASSUME NEW s \in DOMAIN View.plan.status \ Overtaken(View.plan.owner),
               <<View.plan.owner, s>> \notin interrupted
        PROVE  Replay.plan.status[s] = View.plan.status[s]
    <3>1. View.plan \in PlanViews
      BY <2>2, ViewIs DEF States
    <3>2. View.plan # NoPlan
      BY <2>8 DEF NoPlan
    <3>3. View.plan.owner \in Runs /\ s \in PlanSteps(View.plan.owner)
      BY <2>8, <3>1, <3>2, NoPlanApart
    <3>4. live[View.plan.owner][s] # "running"
      BY <2>1, <2>2, <3>3, AllIsQuiet DEF Resolved
    <3>5. View.plan.status[s] = live[View.plan.owner][s]
      BY <1>1, <3>2, <3>3, <3>4 DEF StoreFollowsPlan
    <3>6. Replay.plan.status[s] = live[View.plan.owner][s]
      BY <1>1, <2>1, <2>2, <2>6, <2>8, <3>3, StatusesCatchUp
    <3> QED
      BY <3>5, <3>6
  <2>9. ASSUME interrupted = {}
        PROVE  Replay.calls = View.calls /\ Replay.succeeded = View.succeeded /\ Replay.failed = View.failed
    <3>1. Cardinality(Pending("ToolStarted")) = 0 /\ Cardinality(Pending("ToolFinished")) = 0
          /\ Cardinality(Pending("ToolFailed")) = 0
      BY <2>4, FS_EmptySet
    <3>2. Replay.calls \in Nat /\ Replay.succeeded \in Nat /\ Replay.failed \in Nat
      BY <2>2 DEF States
    <3>3. Replay.calls = snapshot.calls /\ Replay.succeeded = snapshot.succeeded /\ Replay.failed = snapshot.failed
      BY <2>1, <2>3, <2>9, <3>1, <3>2 DEF CountsLag
    <3> QED
      BY <2>2, <3>3, ViewIs
  <2> QED
    BY <2>5, <2>6, <2>7, <2>8, <2>9
<1> QED
  BY <1>1, LagInvariant, StoreIsTruth, PTL

\* A recorder bound to a run lets through the events of its steps and, unlike those, of
\* no other run: the record carries its plan and the replay its conversation, its
\* outcome and the statuses of its steps.
THEOREM BoundReplay == Spec => []BoundRecordIsTheRun
<1>1. ASSUME RecordInv, Lag PROVE BoundRecordIsTheRun
  <2>1. SUFFICES ASSUME bound \in Runs, Whole, Quiet, main[bound] = "ended"
        PROVE  /\ Replay.messages = MessagesOf(snapshot.messages, bound)
               /\ Replay.status \in {"completed", "failed"}
               /\ Replay.plan # NoPlan =>
                    /\ Replay.plan.owner = bound /\ RecordedPlanOwner = bound
                    /\ \A s \in PlanSteps(bound) \ Overtaken(bound) :
                        <<bound, s>> \notin interrupted => Replay.plan.status[s] = live[bound][s]
    BY DEF BoundRecordIsTheRun
  <2>2. RunTypes /\ LogTypes /\ Bus /\ MessagesLag /\ StatusLag /\ PlansLag
    BY <1>1, <2>1 DEF RecordInv, Inv, Lag
  <2>3. Due = {} /\ bound # Unbound
    BY <2>1, <2>2, AllIsQuiet, UnboundAssumption
  <2>4. Replay.messages = MessagesOf(snapshot.messages, bound) /\ Replay.status \in {"completed", "failed"}
    BY <2>1, <2>2, <2>3 DEF MessagesLag, Conversation, StatusLag, StatusIn
  <2>5. ASSUME Replay.plan # NoPlan PROVE Replay.plan.owner = bound /\ RecordedPlanOwner = bound
    <3>1. PlansRecorded # {} /\ Replay.plan.owner = RecordedPlanOwner
      BY <2>2, <2>5 DEF PlansLag
    <3>2. PICK i \in PlansRecorded : RecordedPlanOwner = recorded[i].run
      BY <2>2, <3>1, LastPlan DEF RecordedPlanOwner
    <3>3. InScope(recorded[i]) /\ recorded[i].kind = "PlanCreated"
      BY <2>2 DEF PlansLag, PlansRecorded
    <3>4. recorded[i].run = bound
      BY <2>3, <3>3 DEF InScope, StepKinds
    <3> QED
      BY <3>1, <3>2, <3>4
  <2> QED
    BY <1>1, <2>1, <2>2, <2>4, <2>5, StatusesCatchUp
<1> QED
  BY <1>1, LagInvariant, PTL

=============================================================================
