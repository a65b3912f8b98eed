------------------------- MODULE RuntimeEngineProofs -------------------------
(* What RuntimeEngine does for every number of runs, turns, calls and keys. *)
EXTENDS RuntimeEngine, SequenceTheorems, TLAPS

USE MaxTurnsAssumption, MaxCallsAssumption, MaxRunsAssumption, PlanSizesAssumption

-----------------------------------------------------------------------------
(* Types.                                                                  *)

\* A request is a sequence of at most MaxCalls keys.
LEMMA RequestTyping ==
  ASSUME NEW keys \in Requests
  PROVE  /\ keys \in Seq(Keys) /\ Len(keys) \in 1..MaxCalls
         /\ DOMAIN keys = 1..Len(keys)
<1>1. PICK n \in 1..MaxCalls : keys \in [1..n -> Keys]
  BY DEF Requests
<1>2. keys \in Seq(Keys) /\ Len(keys) = n
  BY <1>1
<1> QED BY <1>1, <1>2

\* The ids of the calls of an answer are one for each position.
LEMMA IdsTyping ==
  ASSUME run \in 1..MaxRuns, turn \in 0..MaxTurns, NEW n \in Nat
  PROVE  Ids(n) \in Seq(CallIds) /\ Len(Ids(n)) = n
<1>1. Ids(n) \in [1..n -> CallIds]
  BY DEF Ids, CallIds
<1> QED BY <1>1

\* What is published is a message.
LEMMA MessageTyping ==
  ASSUME run \in 1..MaxRuns, turn \in 0..MaxTurns
  PROVE  /\ \A role \in {"user", "assistant"} : Message(role, <<>>) \in Messages
         /\ \A n \in Nat : Message("assistant", Ids(n)) \in Messages
         /\ \A i \in Nat \ {0}, t \in 0..MaxTurns :
               Message("tool", <<<<run, t, i>>>>) \in Messages
<1>1. \A i \in Nat \ {0}, t \in 0..MaxTurns : <<<<run, t, i>>>> \in Seq(CallIds)
  BY DEF CallIds
<1> QED BY <1>1, IdsTyping DEF Message, Messages

\* A run that has begun has a number.
Numbered == phase # "idle" => run \in 1..MaxRuns
\* A turn in which something was asked has a number, and a request has calls.
Asked ==
    /\ phase \in {"llm", "requested", "gather", "replying"} => turn \in 1..MaxTurns
    /\ phase \in {"requested", "gather", "replying"} => request \in Requests
    /\ phase = "gather" => DOMAIN call = DOMAIN request

\* Every reachable state of the engine has the types of TypeOK.
THEOREM Typing == Spec => [](TypeOK /\ Numbered /\ Asked)
<1>1. Init => TypeOK /\ Numbered /\ Asked
  <2> SUFFICES ASSUME Init PROVE TypeOK /\ Numbered /\ Asked
    OBVIOUS
  <2>1. token \in BOOLEAN
    BY DEF Init
  <2> QED BY <2>1 DEF Init, TypeOK, Numbered, Asked, Phases
<1>2. TypeOK /\ Numbered /\ Asked /\ [Next]_vars => TypeOK' /\ Numbered' /\ Asked'
  <2> SUFFICES ASSUME TypeOK, Numbered, Asked, [Next]_vars
               PROVE  TypeOK' /\ Numbered' /\ Asked'
    OBVIOUS
  <2> USE DEF TypeOK, Numbered, Asked, Phases, Go, Publish, turnVars, toolVars
  <2>1. CASE Begin
    <3>1. token' \in BOOLEAN
      BY <2>1 DEF Begin
    <3> QED BY <2>1, <3>1 DEF Begin
  <2>2. CASE RequestCancellation
    BY <2>2 DEF RequestCancellation
  <2>3. CASE Run
    <3>1. CASE Receive
      BY <3>1, MessageTyping DEF Receive
    <3>2. CASE BuildHistory \/ PlanNothing \/ FinalizeSinglePass \/ StopEarly
                \/ LLMSilent \/ StopAnswered \/ EndTurn \/ Return
      BY <3>2 DEF BuildHistory, PlanNothing, FinalizeSinglePass, StopEarly, LLMSilent,
                  StopAnswered, EndTurn, Return
    <3>3. ASSUME NEW n \in PlanSizes, PlanCompleted(n)
          PROVE  TypeOK' /\ Numbered' /\ Asked'
      BY <3>3 DEF PlanCompleted
    <3>4. CASE AddStepResult
      BY <3>4, MessageTyping DEF AddStepResult
    <3>5. CASE AskLLM
      BY <3>5 DEF AskLLM
    <3>6. CASE LLMAnswers
      BY <3>6, MessageTyping DEF LLMAnswers
    <3>7. ASSUME NEW keys \in Requests, LLMRequests(keys)
          PROVE  TypeOK' /\ Numbered' /\ Asked'
      <4>1. Message("assistant", Ids(Len(keys))) \in Messages
        BY <3>7, MessageTyping, RequestTyping DEF LLMRequests
      <4> QED BY <3>7, <4>1 DEF LLMRequests
    <3>8. CASE GatherTools
      <4>1. call' \in Seq(CallStates) /\ DOMAIN call' = DOMAIN request
        BY <3>8, RequestTyping DEF GatherTools, CallStates
      <4> QED BY <3>8, <4>1 DEF GatherTools
    <3>9. CASE GatherDone
      BY <3>9 DEF GatherDone
    <3>10. CASE AddToolResult
      BY <3>10, MessageTyping DEF AddToolResult
    <3> QED BY <2>3, <3>1, <3>2, <3>3, <3>4, <3>5, <3>6, <3>7, <3>8, <3>9, <3>10
            DEF Run
  <2>4. ASSUME NEW i \in DOMAIN call, ExecuteSingleTool(i)
        PROVE  TypeOK' /\ Numbered' /\ Asked'
    <3>1. /\ phase = "gather" /\ i \in DOMAIN request /\ request[i] \in Keys
          /\ i \in 1..MaxCalls
      BY <2>4, RequestTyping DEF ExecuteSingleTool, Intercept, StartCall, ExecuteCall,
           ReturnCall, EndCall, CallStep
    <3>2. call' \in Seq(CallStates) /\ DOMAIN call' = DOMAIN call
      <4>1. PICK to \in CallStates : call' = [call EXCEPT ![i] = to]
        BY <2>4 DEF ExecuteSingleTool, Intercept, StartCall, ExecuteCall,
             ReturnCall, EndCall, CallStep, CallStates
      <4> QED BY <4>1, ExceptSeq
    <3>3. cache' \subseteq Keys
      BY <2>4, <3>1 DEF ExecuteSingleTool, Intercept, StartCall, ExecuteCall,
           ReturnCall, EndCall, CallStep
    <3>4. executed' \subseteq [turn : 1..MaxTurns, pos : 1..MaxCalls, key : Keys]
      BY <2>4, <3>1 DEF ExecuteSingleTool, Intercept, StartCall, ExecuteCall,
           ReturnCall, EndCall, CallStep
    <3> QED BY <2>4, <3>1, <3>2, <3>3, <3>4 DEF ExecuteSingleTool, Intercept,
             StartCall, ExecuteCall, ReturnCall, EndCall, CallStep
  <2>5. CASE UNCHANGED vars
    BY <2>5 DEF vars
  <2> QED BY <2>1, <2>2, <2>3, <2>4, <2>5 DEF Next
<1> QED BY <1>1, <1>2, PTL DEF Spec
-----------------------------------------------------------------------------
(* Deduplication.                                                          *)

\* The execution e is the one the task at its position is in.
InFlight(e) ==
    /\ phase = "gather" /\ e.turn = turn
    /\ e.pos \in DOMAIN call /\ call[e.pos] = "executing" /\ request[e.pos] = e.key

\* What has been executed is cached or in flight, and the cache holds nothing
\* else; a call about to be executed duplicates none of an earlier turn.
Deduplicated ==
    /\ \A k \in cache : \E e \in executed : e.key = k
    /\ \A e \in executed : e.turn <= turn /\ (e.key \in cache \/ InFlight(e))
    /\ phase = "gather" => \A i \in DOMAIN call :
         /\ call[i] = "starting" => \A e \in executed : e.key = request[i] => e.turn = turn
         /\ call[i] \in {"executing", "reporting", "done"} =>
                \E e \in executed : e.key = request[i]
    /\ SuppressedAcrossTurns
    /\ AnsweredCallsExecuted

\* A task of the gather keeps the record of executions and the cache in step.
LEMMA CallDeduplicated ==
  ASSUME TypeOK, Asked, Deduplicated, NEW i \in DOMAIN call, ExecuteSingleTool(i)
  PROVE  Deduplicated'
<1> USE DEF TypeOK, Asked, Deduplicated, InFlight, SuppressedAcrossTurns,
            AnsweredCallsExecuted, CallStep, toolVars
<1>1. CASE Intercept(i)
  BY <1>1 DEF Intercept
<1>2. CASE StartCall(i)
  BY <1>2 DEF StartCall
<1>3. CASE ExecuteCall(i)
  <2> DEFINE new == [turn |-> turn, pos |-> i, key |-> request[i]]
  <2>1. executed' = executed \cup {new} /\ cache' = cache /\ turn' = turn
    BY <1>3 DEF ExecuteCall
  <2>2. /\ new.turn = turn /\ new.pos = i /\ new.key = request[i]
        /\ \A e \in executed : e.key = new.key => e.turn = turn
    BY <1>3 DEF ExecuteCall
  <2>3. /\ phase' = "gather" /\ new.turn = turn'
        /\ new.pos \in DOMAIN call' /\ call'[new.pos] = "executing"
        /\ request'[new.pos] = new.key
    BY <1>3, <2>2 DEF ExecuteCall
  <2>4. \A e \in executed : InFlight(e) => InFlight(e)'
    BY <1>3 DEF ExecuteCall
  <2>5. \A j \in DOMAIN call : j # i => call'[j] = call[j]
    BY <1>3 DEF ExecuteCall
  <2>6. phase' = phase /\ request' = request /\ DOMAIN call' = DOMAIN call
        /\ phase = "gather"
    BY <1>3 DEF ExecuteCall
  <2> HIDE DEF new, TypeOK, Asked, Deduplicated, InFlight, AnsweredCallsExecuted,
               SuppressedAcrossTurns
  <2>7. \A j \in DOMAIN call' :
          /\ call'[j] = "starting" => \A e \in executed' : e.key = request'[j] => e.turn = turn'
          /\ call'[j] \in {"executing", "reporting", "done"} =>
                \E e \in executed' : e.key = request'[j]
    <3>1. call'[i] = "executing"
      BY <1>3 DEF ExecuteCall, CallStep, TypeOK
    <3> TAKE j \in DOMAIN call'
    <3>2. CASE j = i
      BY <2>1, <2>2, <2>6, <3>1, <3>2
    <3>3. CASE j # i
      <4>1. j \in DOMAIN call /\ call'[j] = call[j] /\ request' = request
        BY <2>5, <2>6, <3>3
      <4>2. /\ call[j] = "starting" => \A e \in executed : e.key = request[j] => e.turn = turn
            /\ call[j] \in {"executing", "reporting", "done"} =>
                  \E e \in executed : e.key = request[j]
        BY <2>6, <4>1 DEF Deduplicated
      <4> QED BY <2>1, <2>2, <4>1, <4>2
    <3> QED BY <3>2, <3>3
  <2>8. SuppressedAcrossTurns'
    <3>1. \A e, f \in executed : e.key = f.key => e.turn = f.turn
      BY DEF Deduplicated, SuppressedAcrossTurns
    <3> SUFFICES ASSUME NEW e \in executed', NEW f \in executed', e.key = f.key
                 PROVE  e.turn = f.turn
      BY DEF SuppressedAcrossTurns
    <3> QED BY <2>1, <2>2, <3>1
  <2>9. \A k \in cache' : \E e \in executed' : e.key = k
    BY <2>1 DEF Deduplicated
  <2>10. \A e \in executed' : e.turn <= turn' /\ (e.key \in cache' \/ InFlight(e)')
    <3>1. new.turn <= turn
      BY <2>2 DEF TypeOK
    <3> TAKE e \in executed'
    <3>2. CASE e \in executed
      <4>1. e.turn <= turn /\ (e.key \in cache \/ InFlight(e))
        BY <3>2 DEF Deduplicated
      <4> QED BY <2>1, <2>4, <3>2, <4>1
    <3>3. CASE e = new
      BY <2>1, <2>3, <3>1, <3>3 DEF InFlight
    <3> QED BY <2>1, <3>2, <3>3
  <2>11. AnsweredCallsExecuted'
    BY <2>6 DEF AnsweredCallsExecuted
  <2> QED BY <2>7, <2>8, <2>9, <2>10, <2>11 DEF Deduplicated
<1>4. CASE ReturnCall(i)
  BY <1>4 DEF ReturnCall
<1>5. CASE EndCall(i)
  BY <1>5 DEF EndCall
<1> QED BY <1>1, <1>2, <1>3, <1>4, <1>5 DEF ExecuteSingleTool

\* What has been executed in a run is remembered until it ends.
THEOREM DeduplicationHolds == Spec => []Deduplicated
<1>1. Init => Deduplicated
  BY DEF Init, Deduplicated, SuppressedAcrossTurns, AnsweredCallsExecuted
<1>2. TypeOK /\ Numbered /\ Asked /\ Deduplicated /\ [Next]_vars => Deduplicated'
  <2> SUFFICES ASSUME TypeOK, Numbered, Asked, Deduplicated, [Next]_vars
               PROVE  Deduplicated'
    OBVIOUS
  <2> USE DEF TypeOK, Asked, Deduplicated, InFlight, SuppressedAcrossTurns,
              AnsweredCallsExecuted, Go, toolVars, turnVars
  <2>1. CASE Begin
    BY <2>1 DEF Begin
  <2>2. CASE RequestCancellation \/ UNCHANGED vars
    BY <2>2 DEF RequestCancellation, vars
  <2>3. CASE Run
    <3>1. CASE AskLLM
      BY <3>1 DEF AskLLM
    <3>2. CASE GatherTools
      BY <3>2 DEF GatherTools
    <3>3. CASE GatherDone
      BY <3>3 DEF GatherDone
    <3>4. CASE AddToolResult
      BY <3>4 DEF AddToolResult
    <3>5. CASE ~(AskLLM \/ GatherTools \/ GatherDone \/ AddToolResult)
      BY <2>3, <3>5 DEF Run, Receive, BuildHistory, PlanNothing, PlanCompleted,
           AddStepResult, FinalizeSinglePass, StopEarly, LLMSilent, LLMAnswers,
           StopAnswered, LLMRequests, EndTurn, Return
    <3> QED BY <3>1, <3>2, <3>3, <3>4, <3>5
  <2> QED BY <2>1, <2>2, <2>3, CallDeduplicated DEF Next
<1> QED BY <1>1, <1>2, Typing, PTL DEF Spec

\* A call executed in one turn of a run is not executed again in a later one,
\* whatever the interleaving of the calls and their results.
THEOREM TurnSuppression == Spec => []SuppressedAcrossTurns
<1>1. Deduplicated => SuppressedAcrossTurns
  BY DEF Deduplicated
<1> QED BY <1>1, DeduplicationHolds, PTL

\* Every call that is answered has been executed in the same run.
THEOREM AnswersExecuted == Spec => []AnsweredCallsExecuted
<1>1. Deduplicated => AnsweredCallsExecuted
  BY DEF Deduplicated
<1> QED BY <1>1, DeduplicationHolds, PTL

-----------------------------------------------------------------------------
(* The order of the answers.                                               *)

Asking == {"requested", "gather", "replying"}
Replied == IF phase = "replying" THEN replies ELSE 0

\* The calls of the assistant messages before position k are answered before k.
AnsweredBefore(h, k) ==
    \A j \in 1..(k - 1) :
        h[j].role = "assistant" =>
            \A i \in DOMAIN h[j].ids :
                /\ j + i < k
                /\ h[j + i] = Message("tool", <<h[j].ids[i]>>)

\* Position k of h holds the message whose calls are being answered: it is
\* followed by the first n answers, and nothing else.
Replying(h, k, n) ==
    /\ k \in 1..Len(h) /\ Len(h) = k + n /\ n <= Len(request)
    /\ h[k] = Message("assistant", Ids(Len(request)))
    /\ \A i \in 1..n : h[k + i] = Message("tool", <<<<run, turn, i>>>>)
    /\ AnsweredBefore(h, k)

\* Between answers the history is complete, and the store holds it.
History ==
    /\ phase # "received" => stored = conv
    /\ phase = "received" => AnsweredBefore(stored, Len(stored) + 1)
    /\ phase \in Asking => \E k \in Nat : Replying(conv, k, Replied)
    /\ phase \notin Asking => AnsweredBefore(conv, Len(conv) + 1)

\* A message without calls leaves a complete history complete.
LEMMA AppendAnswered ==
  ASSUME NEW h \in Seq(Messages), AnsweredBefore(h, Len(h) + 1),
         NEW m \in Messages, m.role # "assistant" \/ m.ids = <<>>
  PROVE  AnsweredBefore(Append(h, m), Len(Append(h, m)) + 1)
<1> DEFINE g == Append(h, m)
<1>1. Len(g) = Len(h) + 1 /\ g[Len(h) + 1] = m /\ \A j \in 1..Len(h) : g[j] = h[j]
  OBVIOUS
<1> HIDE DEF g
<1> SUFFICES AnsweredBefore(g, Len(g) + 1)
  BY DEF g
<1> SUFFICES ASSUME NEW j \in 1..Len(g), g[j].role = "assistant",
                    NEW i \in DOMAIN g[j].ids
             PROVE  /\ j + i < Len(g) + 1
                    /\ g[j + i] = Message("tool", <<g[j].ids[i]>>)
  <2>1. (Len(g) + 1) - 1 = Len(g)
    BY <1>1
  <2> QED BY <2>1 DEF AnsweredBefore
<1>2. j \in 1..Len(h) /\ g[j] = h[j] /\ h[j] \in Messages
  BY <1>1
<1>3. i \in Nat \ {0}
  BY <1>2 DEF Messages
<1>4. j + i < Len(h) + 1 /\ h[j + i] = Message("tool", <<h[j].ids[i]>>)
  BY <1>2 DEF AnsweredBefore
<1>5. j + i \in 1..Len(h)
  BY <1>2, <1>3, <1>4
<1> QED BY <1>1, <1>2, <1>3, <1>4, <1>5

\* An answer with calls opens a place for their answers.
LEMMA RequestOpens ==
  ASSUME NEW h \in Seq(Messages), AnsweredBefore(h, Len(h) + 1),
         NEW m \in Messages
  PROVE  /\ AnsweredBefore(Append(h, m), Len(h) + 1)
         /\ Append(h, m)[Len(h) + 1] = m /\ Len(Append(h, m)) = Len(h) + 1
<1> DEFINE g == Append(h, m)
<1>1. Len(g) = Len(h) + 1 /\ g[Len(h) + 1] = m /\ \A j \in 1..Len(h) : g[j] = h[j]
  OBVIOUS
<1>2. ASSUME NEW j \in 1..Len(h), g[j].role = "assistant", NEW i \in DOMAIN g[j].ids
      PROVE  j + i < Len(h) + 1 /\ g[j + i] = Message("tool", <<g[j].ids[i]>>)
  <2>1. g[j] = h[j] /\ h[j] \in Messages
    BY <1>1
  <2>2. i \in Nat \ {0}
    BY <1>2, <2>1 DEF Messages
  <2>3. j + i < Len(h) + 1 /\ h[j + i] = Message("tool", <<h[j].ids[i]>>)
    BY <1>2, <2>1 DEF AnsweredBefore
  <2>4. j + i \in 1..Len(h)
    BY <2>2, <2>3
  <2> HIDE DEF g
  <2> QED BY <1>1, <2>1, <2>3, <2>4
<1> HIDE DEF g
<1>3. AnsweredBefore(g, Len(h) + 1)
  BY <1>2 DEF AnsweredBefore
<1> QED BY <1>1, <1>3 DEF g

\* One more answer takes its place.
LEMMA ReplyAdded ==
  ASSUME TypeOK, NEW k \in Nat, Replying(conv, k, replies), replies < Len(request),
         Message("tool", <<<<run, turn, replies + 1>>>>) \in Messages
  PROVE  Replying(Append(conv, Message("tool", <<<<run, turn, replies + 1>>>>)),
                  k, replies + 1)
<1> DEFINE m == Message("tool", <<<<run, turn, replies + 1>>>>)
           g == Append(conv, m)
<1>0. conv \in Seq(Messages) /\ replies \in Nat /\ m \in Messages /\ Len(conv) = k + replies
  BY DEF TypeOK, Replying
<1> HIDE DEF m
<1>1. Len(g) = Len(conv) + 1 /\ g[Len(conv) + 1] = m
      /\ \A j \in 1..Len(conv) : g[j] = conv[j]
  BY <1>0
<1> HIDE DEF g
<1>2. AnsweredBefore(g, k)
  <2> SUFFICES ASSUME NEW j \in 1..(k - 1), g[j].role = "assistant",
                      NEW i \in DOMAIN g[j].ids
               PROVE  j + i < k /\ g[j + i] = Message("tool", <<g[j].ids[i]>>)
    BY DEF AnsweredBefore
  <2>1. g[j] = conv[j] /\ conv[j] \in Messages
    BY <1>0, <1>1 DEF Replying
  <2>2. i \in Nat \ {0}
    BY <2>1 DEF Messages
  <2>3. j + i < k /\ conv[j + i] = Message("tool", <<conv[j].ids[i]>>)
    BY <2>1 DEF AnsweredBefore, Replying
  <2> QED BY <1>0, <1>1, <2>1, <2>2, <2>3 DEF Replying
<1>3. \A i \in 1..(replies + 1) : g[k + i] = Message("tool", <<<<run, turn, i>>>>)
  <2> TAKE i \in 1..(replies + 1)
  <2>1. CASE i = replies + 1
    BY <1>0, <1>1, <2>1 DEF m
  <2>2. CASE i \in 1..replies
    BY <1>0, <1>1, <2>2 DEF Replying
  <2> QED BY <1>0, <2>1, <2>2
<1>4. k \in 1..Len(g) /\ Len(g) = k + (replies + 1) /\ replies + 1 <= Len(request)
  <2>1. Len(request) \in Nat
    BY RequestTyping DEF TypeOK
  <2> QED BY <1>0, <1>1, <2>1 DEF Replying
<1>5. g[k] = Message("assistant", Ids(Len(request)))
  BY <1>0, <1>1 DEF Replying
<1> QED BY <1>2, <1>3, <1>4, <1>5 DEF Replying, g, m

\* When every call has its answer the history is complete again.
LEMMA RepliesComplete ==
  ASSUME TypeOK, Numbered, Asked, phase = "replying", NEW k \in Nat,
         Replying(conv, k, Len(request))
  PROVE  AnsweredBefore(conv, Len(conv) + 1)
<1>1. /\ request \in Requests /\ run \in 1..MaxRuns /\ turn \in 0..MaxTurns
      /\ Len(request) \in Nat
  BY RequestTyping DEF TypeOK, Numbered, Asked
<1>2. Len(conv) = k + Len(request) /\ k \in 1..Len(conv)
  BY DEF Replying
<1> SUFFICES ASSUME NEW j \in 1..Len(conv), conv[j].role = "assistant",
                    NEW i \in DOMAIN conv[j].ids
             PROVE  /\ j + i < Len(conv) + 1
                    /\ conv[j + i] = Message("tool", <<conv[j].ids[i]>>)
  BY <1>1, <1>2 DEF AnsweredBefore
<1>3. CASE j < k
  <2>1. j \in 1..(k - 1)
    BY <1>1, <1>2, <1>3
  <2>2. j + i < k /\ conv[j + i] = Message("tool", <<conv[j].ids[i]>>)
    BY <2>1 DEF Replying, AnsweredBefore
  <2>3. conv[j] \in Messages
    BY DEF TypeOK
  <2>4. i \in Nat
    BY <2>3 DEF Messages
  <2> QED BY <1>1, <1>2, <2>2, <2>4
<1>4. CASE j = k
  <2>1. conv[j].ids = Ids(Len(request))
    BY <1>4 DEF Replying, Message
  <2>2. i \in 1..Len(request) /\ conv[j].ids[i] = <<run, turn, i>>
    BY <1>1, <2>1 DEF Ids
  <2>3. conv[k + i] = Message("tool", <<<<run, turn, i>>>>)
    BY <2>2 DEF Replying
  <2>4. k + i < Len(conv) + 1
    BY <1>1, <1>2, <2>2
  <2> QED BY <1>4, <2>2, <2>3, <2>4
<1>5. CASE j > k
  <2>1. j - k \in 1..Len(request) /\ j = k + (j - k)
    BY <1>1, <1>2, <1>5
  <2>2. conv[j] = Message("tool", <<<<run, turn, j - k>>>>)
    BY <2>1 DEF Replying
  <2> QED BY <2>2 DEF Message
<1> QED BY <1>1, <1>2, <1>3, <1>4, <1>5

\* The history is complete whenever no answer is being executed.
THEOREM HistoryHolds == Spec => []History
<1>1. Init => History
  BY DEF Init, History, Asking, AnsweredBefore
<1>2. TypeOK /\ Numbered /\ Asked /\ History /\ [Next]_vars => History'
  <2> SUFFICES ASSUME TypeOK, Numbered, Asked, History, [Next]_vars PROVE History'
    OBVIOUS
  <2> USE DEF Go, Publish
  <2>0. stored \in Seq(Messages) /\ conv \in Seq(Messages) /\ replies \in Nat
    BY DEF TypeOK
  <2>1. CASE Receive
    <3>1. Message("user", <<>>) \in Messages
      BY <2>1, MessageTyping DEF Receive, Numbered, TypeOK
    <3>2. AnsweredBefore(stored', Len(stored') + 1)
      BY <2>0, <2>1, <3>1, AppendAnswered DEF Receive, History, Asking, Message
    <3> QED BY <2>1, <3>2 DEF Receive, History, Asking
  <2>2. CASE BuildHistory
    BY <2>2 DEF BuildHistory, History, Asking
  <2>3. CASE AddStepResult
    <3>1. Message("tool", <<<<run, 0, replies + 1>>>>) \in Messages
      BY <2>0, <2>3, MessageTyping DEF AddStepResult, Numbered, TypeOK
    <3>2. AnsweredBefore(conv', Len(conv') + 1)
      BY <2>0, <2>3, <3>1, AppendAnswered DEF AddStepResult, History, Asking, Message
    <3> QED BY <2>3, <3>2 DEF AddStepResult, History, Asking
  <2>4. CASE LLMAnswers
    <3>1. Message("assistant", <<>>) \in Messages
      BY <2>4, MessageTyping DEF LLMAnswers, Numbered, TypeOK
    <3>2. AnsweredBefore(conv', Len(conv') + 1)
      BY <2>0, <2>4, <3>1, AppendAnswered DEF LLMAnswers, History, Asking, Message
    <3> QED BY <2>4, <3>2 DEF LLMAnswers, History, Asking
  <2>5. ASSUME NEW keys \in Requests, LLMRequests(keys) PROVE History'
    <3>1. /\ Message("assistant", Ids(Len(keys))) \in Messages /\ Len(keys) \in Nat
          /\ Ids(Len(keys))' = Ids(Len(keys))
      BY <2>5, MessageTyping, RequestTyping DEF LLMRequests, Numbered, TypeOK, Ids
    <3>2. phase = "llm" /\ phase' = "requested" /\ request' = keys /\ stored' = conv'
          /\ conv' = Append(conv, Message("assistant", Ids(Len(keys))))
      BY <2>5 DEF LLMRequests, History
    <3>3. AnsweredBefore(conv, Len(conv) + 1)
      BY <3>2 DEF History, Asking
    <3>4. /\ AnsweredBefore(conv', Len(conv) + 1) /\ Len(conv') = Len(conv) + 1
          /\ conv'[Len(conv) + 1] = Message("assistant", Ids(Len(keys)))
      BY <2>0, <3>1, <3>2, <3>3, RequestOpens
    <3>5. Replying(conv, Len(conv), 0)'
      BY <2>0, <3>1, <3>2, <3>4 DEF Replying
    <3> QED BY <2>0, <3>2, <3>4, <3>5 DEF History, Asking, Replied
  <2>6. CASE GatherTools \/ GatherDone
    <3>1. UNCHANGED <<run, turn, conv, stored, request>>
          /\ phase \in {"requested", "gather"} /\ phase' \in {"gather", "replying"}
          /\ Replied' = 0
      BY <2>6 DEF GatherTools, GatherDone, Replied
    <3>2. PICK k \in Nat : Replying(conv, k, 0)
      BY <3>1 DEF History, Asking, Replied
    <3>3. Replying(conv, k, 0)'
      BY <3>1, <3>2 DEF Replying, Ids
    <3> QED BY <3>1, <3>3 DEF History, Asking
  <2>7. CASE AddToolResult
    <3>1. PICK k \in Nat : Replying(conv, k, replies)
      BY <2>7 DEF AddToolResult, History, Asking, Replied
    <3>2. Message("tool", <<<<run, turn, replies + 1>>>>) \in Messages
      BY <2>0, <2>7, MessageTyping DEF AddToolResult, Numbered, TypeOK
    <3>3. Replying(conv', k, replies + 1)
      BY <2>7, <3>1, <3>2, ReplyAdded DEF AddToolResult
    <3>4. Replying(conv, k, replies)'
      BY <2>7, <3>3 DEF AddToolResult, Replying, Ids
    <3> QED BY <2>7, <3>4 DEF AddToolResult, History, Asking, Replied
  <2>8. CASE EndTurn
    <3>1. AnsweredBefore(conv, Len(conv) + 1)
      BY <2>8, RepliesComplete DEF EndTurn, History, Asking, Replied
    <3> QED BY <2>8, <3>1 DEF EndTurn, History, Asking
  <2>9. CASE Begin \/ PlanNothing \/ FinalizeSinglePass \/ StopEarly \/ AskLLM
              \/ LLMSilent \/ StopAnswered \/ Return
              \/ \E n \in PlanSizes : PlanCompleted(n)
    BY <2>9 DEF Begin, PlanNothing, FinalizeSinglePass, StopEarly, AskLLM, LLMSilent,
         StopAnswered, Return, PlanCompleted, History, Asking
  <2>10. CASE \/ RequestCancellation \/ UNCHANGED vars
              \/ \E i \in DOMAIN call : ExecuteSingleTool(i)
    <3>1. UNCHANGED <<run, phase, turn, conv, stored, request, replies>>
      BY <2>10 DEF RequestCancellation, vars, ExecuteSingleTool, Intercept, StartCall,
           ExecuteCall, ReturnCall, EndCall, CallStep, turnVars
    <3>2. Replied' = Replied /\ \A k \in Nat, n \in Nat :
                                   Replying(conv, k, n) => Replying(conv, k, n)'
      BY <3>1 DEF Replied, Replying, Ids
    <3> QED BY <2>0, <3>1, <3>2 DEF History, Asking, Replied
  <2> QED BY <2>1, <2>2, <2>3, <2>4, <2>5, <2>6, <2>7, <2>8, <2>9, <2>10
          DEF Next, Run
<1> QED BY <1>1, <1>2, Typing, PTL DEF Spec

\* Whenever the LLM is asked, every tool call of its history is answered, once
\* and in order, right after the message that made it.
THEOREM AnswersInOrder == Spec => []CallsAnsweredInOrder
<1>1. TypeOK /\ History => CallsAnsweredInOrder
  <2> SUFFICES ASSUME TypeOK, History, phase = "llm" PROVE CallsAnswered(conv)
    BY DEF CallsAnsweredInOrder
  <2>1. AnsweredBefore(conv, Len(conv) + 1) /\ conv \in Seq(Messages)
    BY DEF History, Asking, TypeOK
  <2> SUFFICES ASSUME NEW k \in DOMAIN conv, conv[k].role = "assistant",
                      NEW i \in DOMAIN conv[k].ids
               PROVE  /\ k + i <= Len(conv)
                      /\ conv[k + i] = Message("tool", <<conv[k].ids[i]>>)
    BY DEF CallsAnswered
  <2>2. k \in 1..Len(conv) /\ conv[k] \in Messages
    BY <2>1
  <2>3. i \in Nat
    BY <2>2 DEF Messages
  <2> QED BY <2>1, <2>2, <2>3 DEF AnsweredBefore
<1> QED BY <1>1, HistoryHolds, Typing, PTL
=============================================================================
