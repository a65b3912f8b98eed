------------------------------ MODULE MCEventLog ------------------------------
(* Instances of EventLog for TLC. *)
EXTENDS EventLog, TLC
CONSTANTS r1, r2
\* The recorder is stopped and started within the first event, and all is cancelled,
\* fails or deadlocks.
Busy(plans, tools, bounds) ==
    [plans |-> plans, later |-> {}, bounds |-> bounds, restarts |-> 2, tools |-> tools,
     cancels |-> Runs, fails |-> Runs, stuck |-> Runs]
\* The runs follow each other undisturbed.
Calm(plans, tools, bounds) ==
    [plans |-> plans, later |-> {r2}, bounds |-> bounds, restarts |-> 0, tools |-> tools,
     cancels |-> {}, fails |-> {}, stuck |-> {}]
\* One run with two steps; two runs, with and without a step; a run that may begin
\* while a task of the one before it still publishes.
MCSessions ==
    {Busy(r1 :> {1, 2}, {<<r1, 1>>}, {Unbound}),
     Busy((r1 :> {1}) @@ (r2 :> {1}), {<<r1, 1>>}, {r1, r2, Unbound}),
     Busy((r1 :> {1}) @@ (r2 :> {}), {<<r1, 1>>}, {r1, r2, Unbound}),
     Calm((r1 :> {1, 2}) @@ (r2 :> {1}), {<<r1, 1>>, <<r2, 1>>}, {r2, Unbound})}
=============================================================================
