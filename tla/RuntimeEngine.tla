---------------------------- MODULE RuntimeEngine ----------------------------
(***************************************************************************)
(* runtime/engine/runtime_engine.py with the deduplication middleware:     *)
(* the runs of one agent, one after the other, over the message history    *)
(* the state store keeps.                                                  *)
(*                                                                         *)
(* A run asks the LLM, executes the tool calls of its answer concurrently  *)
(* (one task per call, under asyncio.gather), adds the results to the      *)
(* history and asks again.  As in DAGScheduler an action is the code from  *)
(* one suspension point to the next, and each publish is one.  The store   *)
(* is the first subscriber, so a message is stored when it is published.   *)
(*                                                                         *)
(* The LLM and the tools are external: any answer and any result.  System  *)
(* messages are left out of the history, a call is its position, and its   *)
(* tool name and arguments are a key, which is all deduplication reads.    *)
(***************************************************************************)
EXTENDS Naturals, Sequences, FiniteSets

CONSTANTS
    Keys,        \* tool name and arguments of a call
    MaxTurns,    \* max_turns
    MaxCalls,    \* bound: tool calls in one answer of the LLM
    MaxRuns,     \* bound: runs of the agent
    PlanSizes    \* reported steps of the plans a planner answers in a single pass

ASSUME MaxTurnsAssumption == MaxTurns \in Nat
ASSUME MaxCallsAssumption == MaxCalls \in Nat
ASSUME MaxRunsAssumption == MaxRuns \in Nat
ASSUME PlanSizesAssumption == PlanSizes \subseteq Nat

VARIABLES
    run,        \* number of runs begun
    phase,      \* where RuntimeEngine.run is
    turn,       \* turn_count
    stored,     \* session.messages of the state store
    conv,       \* conversation.messages
    request,    \* keys of response.tool_calls
    call,       \* where the task of each of these calls is
    replies,    \* tool messages added for this answer, or this plan
    steps,      \* tool steps of the plan answered in a single pass
    cache,      \* keys in _executed_cache for this run
    executed,   \* history: the calls of this run the executor has executed
    token       \* the cancellation token of the run

turnVars == <<request, call, replies, steps>>
toolVars == <<cache, executed>>
vars == <<run, phase, turn, stored, conv, request, call, replies, steps, cache,
          executed, token>>

Phases == {"idle", "starting", "received", "planning", "finalizing", "loop", "llm",
           "requested", "gather", "replying", "answered", "stopping", "returned"}
CallStates == {"created", "starting", "executing", "reporting", "done"}

\* A call is named by run, turn and position; the steps of a plan by turn 0.
CallIds == (1..MaxRuns) \X (0..MaxTurns) \X (Nat \ {0})
Ids(n) == [i \in 1..n |-> <<run, turn, i>>]
Message(role, ids) == [role |-> role, ids |-> ids]
Messages == [role : {"user", "assistant", "tool"}, ids : Seq(CallIds)]
Requests == UNION {[1..n -> Keys] : n \in 1..MaxCalls}

Init ==
    /\ run = 0 /\ phase = "idle" /\ turn = 0
    /\ stored = <<>> /\ conv = <<>>
    /\ request = <<>> /\ call = <<>> /\ replies = 0 /\ steps = 0
    /\ cache = {} /\ executed = {} /\ token = FALSE

\* Go from one phase to another.
Go(from, to) == phase = from /\ phase' = to /\ UNCHANGED run

\* Add a message to the conversation and publish it.
Publish(m) == conv' = Append(conv, m) /\ stored' = Append(stored, m)

-----------------------------------------------------------------------------
(* Before the first turn.                                                  *)

\* Mutant of Begin: the run is not part of the cache key.
BeginKeepingCache ==
    /\ phase \in {"idle", "returned"}
    /\ run < MaxRuns
    /\ run' = run + 1 /\ phase' = "starting" /\ turn' = 0
    /\ executed' = {} /\ token' = FALSE
    /\ UNCHANGED <<stored, conv, turnVars, cache>>

\* Agent.run: RuntimeStarted.  The cache key holds the run, so the entries of
\* earlier runs are out of reach.
Begin ==
    /\ phase \in {"idle", "returned"}
    /\ run < MaxRuns
    /\ run' = run + 1 /\ phase' = "starting" /\ turn' = 0
    /\ cache' = {} /\ executed' = {} /\ token' = FALSE
    /\ UNCHANGED <<stored, conv, turnVars>>

\* MessageReceived.
Receive ==
    /\ Go("starting", "received")
    /\ stored' = Append(stored, Message("user", <<>>))
    /\ UNCHANGED <<turn, conv, turnVars, toolVars, token>>

\* The conversation is the stored messages, which end with the prompt.
BuildHistory ==
    /\ Go("received", "planning")
    /\ conv' = stored
    /\ UNCHANGED <<turn, stored, turnVars, toolVars, token>>

\* The planner has failed or given no step with arguments, or the scheduler
\* has not completed every step.
PlanNothing ==
    /\ Go("planning", "loop")
    /\ UNCHANGED <<turn, stored, conv, turnVars, toolVars, token>>

\* The scheduler has completed a single-pass plan of n tool steps.
PlanCompleted(n) ==
    /\ Go("planning", "finalizing")
    /\ steps' = n /\ replies' = 0
    /\ UNCHANGED <<turn, stored, conv, request, call, toolVars, token>>

\* _finalize_single_pass: a tool message for each step, ...
AddStepResult ==
    /\ Go("finalizing", "finalizing")
    /\ replies < steps
    /\ Publish(Message("tool", <<<<run, 0, replies + 1>>>>))
    /\ replies' = replies + 1
    /\ UNCHANGED <<turn, request, call, steps, toolVars, token>>

\* ... and the end of the run.  The user message it adds to a copy of the
\* state is lost.
FinalizeSinglePass ==
    /\ Go("finalizing", "stopping")
    /\ replies = steps
    /\ UNCHANGED <<turn, stored, conv, turnVars, toolVars, token>>

-----------------------------------------------------------------------------
(* The turns.                                                              *)

\* Mutant of StopEarly: only a cancellation stops the loop.
StopCancelled ==
    /\ Go("loop", "stopping")
    /\ token
    /\ UNCHANGED <<turn, stored, conv, turnVars, toolVars, token>>

\* The token is set, or max_turns is reached.
StopEarly ==
    /\ Go("loop", "stopping")
    /\ token \/ turn >= MaxTurns
    /\ UNCHANGED <<turn, stored, conv, turnVars, toolVars, token>>

\* Mutant of AskLLM: one turn too many.
AskLLMOnceMore ==
    /\ Go("loop", "llm")
    /\ ~token /\ turn <= MaxTurns
    /\ turn' = turn + 1
    /\ UNCHANGED <<stored, conv, turnVars, toolVars, token>>

AskLLM ==
    /\ Go("loop", "llm")
    /\ ~token /\ turn < MaxTurns
    /\ turn' = turn + 1
    /\ UNCHANGED <<stored, conv, turnVars, toolVars, token>>

\* generate_response raises, or answers with neither text nor calls.
LLMSilent ==
    /\ Go("llm", "stopping")
    /\ UNCHANGED <<turn, stored, conv, turnVars, toolVars, token>>

LLMAnswers ==
    /\ Go("llm", "answered")
    /\ Publish(Message("assistant", <<>>))
    /\ UNCHANGED <<turn, turnVars, toolVars, token>>

StopAnswered ==
    /\ Go("answered", "stopping")
    /\ UNCHANGED <<turn, stored, conv, turnVars, toolVars, token>>

LLMRequests(keys) ==
    /\ Go("llm", "requested")
    /\ Publish(Message("assistant", Ids(Len(keys))))
    /\ request' = keys
    /\ UNCHANGED <<turn, call, replies, steps, toolVars, token>>

\* asyncio.gather wraps each call in a task.
GatherTools ==
    /\ Go("requested", "gather")
    /\ call' = [i \in DOMAIN request |-> "created"]
    /\ UNCHANGED <<turn, stored, conv, request, replies, steps, toolVars, token>>

GatherDone ==
    /\ Go("gather", "replying")
    /\ \A i \in DOMAIN call : call[i] = "done"
    /\ replies' = 0
    /\ UNCHANGED <<turn, stored, conv, request, call, steps, toolVars, token>>

\* Mutant of AddToolResult: in any order.
AddAnyToolResult ==
    /\ Go("replying", "replying")
    /\ \E i \in DOMAIN request :
          LET m == Message("tool", <<<<run, turn, i>>>>)
          IN  (\A k \in DOMAIN conv : conv[k] # m) /\ Publish(m)
    /\ replies' = replies + 1
    /\ UNCHANGED <<turn, request, call, steps, toolVars, token>>

\* The results are added in the order of response.tool_calls.
AddToolResult ==
    /\ Go("replying", "replying")
    /\ replies < Len(request)
    /\ Publish(Message("tool", <<<<run, turn, replies + 1>>>>))
    /\ replies' = replies + 1
    /\ UNCHANGED <<turn, request, call, steps, toolVars, token>>

EndTurn ==
    /\ Go("replying", "loop")
    /\ replies = Len(request)
    /\ UNCHANGED <<turn, stored, conv, turnVars, toolVars, token>>

\* RuntimeStopped has been published.
Return ==
    /\ Go("stopping", "returned")
    /\ UNCHANGED <<turn, stored, conv, turnVars, toolVars, token>>

RequestCancellation ==
    /\ phase \notin {"idle", "returned"}
    /\ ~token /\ token' = TRUE
    /\ UNCHANGED <<run, phase, turn, stored, conv, turnVars, toolVars>>

-----------------------------------------------------------------------------
(* _execute_single_tool, as the task of the call at position i.            *)

CallStep(i, from, to) ==
    /\ phase = "gather"
    /\ call[i] = from
    /\ call' = [call EXCEPT ![i] = to]
    /\ UNCHANGED <<run, phase, turn, stored, conv, request, replies, steps, token>>

\* before_tool_execute intercepts the call, and get_cached_result answers it.
Intercept(i) ==
    /\ CallStep(i, "created", "done")
    /\ request[i] \in cache
    /\ UNCHANGED toolVars

\* Nothing intercepts it: ToolStarted is published, ...
StartCall(i) ==
    /\ CallStep(i, "created", "starting")
    /\ request[i] \notin cache
    /\ UNCHANGED toolVars

\* ... and the executor called.
ExecuteCall(i) ==
    /\ CallStep(i, "starting", "executing")
    /\ executed' = executed \cup {[turn |-> turn, pos |-> i, key |-> request[i]]}
    /\ UNCHANGED cache

\* Mutant of ReturnCall: after_tool_execute remembers nothing.
ReturnCallUncached(i) == CallStep(i, "executing", "reporting") /\ UNCHANGED toolVars

\* after_tool_execute caches the result, a failure too; ToolFinished or
\* ToolFailed is published.
ReturnCall(i) ==
    /\ CallStep(i, "executing", "reporting")
    /\ cache' = cache \cup {request[i]}
    /\ UNCHANGED executed

EndCall(i) == CallStep(i, "reporting", "done") /\ UNCHANGED toolVars

ExecuteSingleTool(i) ==
    Intercept(i) \/ StartCall(i) \/ ExecuteCall(i) \/ ReturnCall(i) \/ EndCall(i)

Run ==
    \/ Receive \/ BuildHistory \/ PlanNothing
    \/ \E n \in PlanSizes : PlanCompleted(n)
    \/ AddStepResult \/ FinalizeSinglePass
    \/ StopEarly \/ AskLLM \/ LLMSilent \/ LLMAnswers \/ StopAnswered
    \/ \E keys \in Requests : LLMRequests(keys)
    \/ GatherTools \/ GatherDone \/ AddToolResult \/ EndTurn \/ Return

Next ==
    \/ Begin \/ RequestCancellation
    \/ Run
    \/ \E i \in DOMAIN call : ExecuteSingleTool(i)

Spec == Init /\ [][Next]_vars

\* The event loop resumes the run and the tasks of its calls; the planner, the
\* LLM, the tools and the subscribers return.
FairSpec ==
    /\ Spec
    /\ WF_vars(Run)
    /\ \A i \in 1..MaxCalls : WF_vars(i \in DOMAIN call /\ ExecuteSingleTool(i))

-----------------------------------------------------------------------------
(* Properties.                                                             *)

\* The values of the variables.
TypeOK ==
    /\ run \in 0..MaxRuns /\ turn \in 0..MaxTurns
    /\ phase \in Phases
    /\ stored \in Seq(Messages) /\ conv \in Seq(Messages)
    /\ request \in Requests \cup {<<>>}
    /\ call \in Seq(CallStates)
    /\ replies \in Nat /\ steps \in Nat
    /\ cache \subseteq Keys
    /\ executed \subseteq [turn : 1..MaxTurns, pos : 1..MaxCalls, key : Keys]
    /\ token \in BOOLEAN

\* Every tool call of an assistant message of h is answered by the tool
\* messages right after it, in the order of the calls.
CallsAnswered(h) ==
    \A k \in DOMAIN h :
        h[k].role = "assistant" =>
            \A i \in DOMAIN h[k].ids :
                /\ k + i <= Len(h)
                /\ h[k + i] = Message("tool", <<h[k].ids[i]>>)

\* Every tool message of h answers a call of an assistant message before it.
AnswersCalled(h) ==
    \A k \in DOMAIN h :
        h[k].role = "tool" =>
            \E j \in 1..(k - 1) : /\ h[j].role = "assistant"
                                  /\ \E i \in DOMAIN h[j].ids : h[k].ids = <<h[j].ids[i]>>

\* Whatever the order in which the tool tasks end, and whatever ended the runs
\* before, the LLM is only asked with a history in which each call is answered,
\* once, in order, right after the message that made it.
CallsAnsweredInOrder == phase = "llm" => CallsAnswered(conv)

\* Every call that is answered has been executed in this run, itself or as a
\* duplicate: no result of another run answers it.
AnsweredCallsExecuted ==
    phase = "replying" =>
        \A i \in DOMAIN request :
            \E e \in executed : e.key = request[i]

\* A call that has been executed in a turn of the run is not executed again in
\* a later one, however its execution ended.
SuppressedAcrossTurns ==
    \A e, f \in executed : e.key = f.key => e.turn = f.turn

\* A run ends.
RunReturns == phase \notin {"idle", "returned"} ~> phase = "returned"

\* Duplicate tool calls are suppressed within a run.
SuppressedWithinRun == \A e, f \in executed : e.key = f.key => e = f

\* Steps executed by the scheduler appear as if the LLM loop had produced them:
\* every tool message the LLM is given answers a call.
HistoryOnlyAnswersCalls == phase = "llm" => AnswersCalled(conv)
=============================================================================
