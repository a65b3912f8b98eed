--------------------------- MODULE MCDAGScheduler ---------------------------
(* Instances of DAGScheduler for TLC.                                      *)
EXTENDS DAGScheduler

Tools == [s \in Steps |-> "tool"]
ToolPlan(deps, policy) == [deps |-> deps, policy |-> policy, kind |-> Tools]

\* With one prerequisite, "any" is "all"; with none, the policy is idle.
Choices(sets) ==
    {<<d, q>> \in sets \X {"all", "any", "ignore_failures"} :
        Cardinality(d) < 2 => q # "any"}

\* Four steps: two roots that race, a step behind the second or behind both,
\* and a last one behind any one of them behind 2 and 3.
RacePlans ==
    {ToolPlan(<<{}, {}, three[1], four[1]>>, <<"all", "all", three[2], four[2]>>) :
        three \in Choices({{2}, {1, 2}}),
        four \in Choices({{1}, {3}, {2, 3}})}

\* Every plan of three steps listed after their prerequisites.
OrderedPlans ==
    {ToolPlan(<<{}, two[1], three[1]>>, <<"all", two[2], three[2]>>) :
        two \in {<<{}, "all">>} \cup Choices({{1}}),
        three \in {<<{}, "all">>} \cup Choices({{1}, {2}, {1, 2}})}

\* Listed before its prerequisite, in a cycle, behind a step that does not
\* exist, with an unknown policy; and the branches without a tool.
OddPlans ==
    {ToolPlan(<<{2}, {3}, {}>>, <<"ignore_failures", "all", "all">>),
     ToolPlan(<<{2}, {1}, {}>>, <<"all", "any", "all">>),
     ToolPlan(<<{}, {0}, {2}>>, <<"all", "all", "ignore_failures">>),
     ToolPlan(<<{}, {1}, {1}>>, <<"all", "other", "all">>),
     [deps |-> <<{}, {1}, {}>>, policy |-> <<"all", "all", "all">>,
      kind |-> <<"llm", "custom", "custom">>]}

\* An acyclic plan of four steps listed in reverse.
ReversedPlans ==
    {ToolPlan(<<{2}, {3}, {4}, {}>>, <<"ignore_failures", "all", "all", "all">>)}

AllPlans == OrderedPlans \cup OddPlans
=============================================================================
