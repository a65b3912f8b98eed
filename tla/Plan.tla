-------------------------------- MODULE Plan --------------------------------
(***************************************************************************)
(* The plan a planner hands to the scheduler: core/models/planning.py.     *)
(*                                                                         *)
(* A step is its position 1..N in plan.steps (step ids are taken to be     *)
(* unique); an id that no step of the plan has is written 0.  What never   *)
(* changes while a plan runs (depends_on, dependency_policy, and which     *)
(* branch of the scheduler executes the step) is the plan's SHAPE p; what  *)
(* changes is the STATUS function st, which the scheduler updates.         *)
(***************************************************************************)
EXTENDS Naturals

CONSTANT N            \* number of steps of the plan

ASSUME NAssumption == N \in Nat \ {0}

Steps == 1..N
StepIds == 0..N       \* 0: an id outside the plan

Statuses == {"pending", "running", "completed", "failed", "cancelled"}
Terminal == {"completed", "failed", "cancelled"}
Unsuccessful == {"failed", "cancelled"}

\* dependency_policy is a free string: "other" is one get_ready_steps has no
\* branch for.
Policies == {"all", "any", "ignore_failures", "other"}

\* The branch _run_step takes: services.llm.generate, executor.execute_tool,
\* or neither.
Kinds == {"llm", "tool", "custom"}

PlanShapes == [deps : [Steps -> SUBSET StepIds],
               policy : [Steps -> Policies],
               kind : [Steps -> Kinds]]

Prereqs(p, s) == p.deps[s] \cap Steps

\* The dependency policy of s is satisfied by the statuses st.  A dependency
\* outside the plan satisfies no policy.
PolicyMet(p, st, s) ==
    \/ p.deps[s] = {}
    \/ /\ p.deps[s] \subseteq Steps
       /\ \/ /\ p.policy[s] = "all"
             /\ \A d \in p.deps[s] : st[d] = "completed"
          \/ /\ p.policy[s] = "any"
             /\ \E d \in p.deps[s] : st[d] = "completed"
          \/ /\ p.policy[s] = "ignore_failures"
             /\ \A d \in p.deps[s] : st[d] \in Terminal

\* Mutant of GetReadySteps: a step is ready once its prerequisites have ended.
ReadyOnceResolved(p, st) ==
    {s \in Steps : st[s] = "pending" /\ \A d \in Prereqs(p, s) : st[d] \in Terminal}
GetReadySteps(p, st) == {s \in Steps : st[s] = "pending" /\ PolicyMet(p, st, s)}

IsComplete(st) == \A s \in Steps : st[s] \in Terminal

\* Mutant of PrerequisitesFailed: one failure rules out an "any" step.
SomePrerequisiteFailed(p, st, s) ==
    /\ p.policy[s] \in {"all", "any"}
    /\ \E d \in Prereqs(p, s) : st[d] \in Unsuccessful

\* No outcome of the prerequisites still open can make s runnable.
PrerequisitesFailed(p, st, s) ==
    \/ /\ p.policy[s] = "all"
       /\ \E d \in Prereqs(p, s) : st[d] \in Unsuccessful
    \/ /\ p.policy[s] = "any"
       /\ Prereqs(p, s) # {}
       /\ \A d \in Prereqs(p, s) : st[d] \in Unsuccessful

\* The shape of a plan whose steps are listed after their prerequisites, all
\* of which exist, with a policy the scheduler knows.
WellFormed(p) ==
    \A s \in Steps : /\ p.deps[s] \subseteq 1..(s - 1)
                     /\ p.policy[s] # "other"

\* The dependencies exist and can be put in some order.
Acyclic(p) ==
    \E rank \in [Steps -> Steps] :
        \A s \in Steps : \A d \in p.deps[s] : d \in Steps /\ rank[d] < rank[s]
=============================================================================
