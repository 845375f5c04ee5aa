-------------------------- MODULE MCTinkerFutures --------------------------
(* Instances of TinkerFutures for TLC: a training request and a retry of   *)
(* it beside other requests of the session.                                *)
EXTENDS TinkerFutures, TLC
CONSTANTS p1, p2, p3, p4

Step == [op |-> "optim_step", session |-> "s", seq |-> 1, lacks |-> {}]
NextStep == [Step EXCEPT !.seq = 2]
ForwardBackward == [Step EXCEPT !.op = "forward_backward"]
Save == [op |-> "save_weights", session |-> "s", seq |-> 0, lacks |-> {}]
SaveForSampler == [Save EXCEPT !.op = "save_weights_for_sampler"]
Sample == [Save EXCEPT !.op = "asample"]
Stray == [Step EXCEPT !.lacks = {"session"}]
AllRequests == {Step, NextStep, ForwardBackward, Save, SaveForSampler, Sample, Stray}

\* A step, its retry, and a forward_backward with the same number.
RetryBesideForward == (p1 :> Step) @@ (p2 :> Step) @@ (p3 :> ForwardBackward)
\* Two requests with futures of their own and a save the gateway waits for.
SaveBesideSteps == (p1 :> Step) @@ (p2 :> ForwardBackward) @@ (p3 :> Save)
\* Two posts to a session that is not there.
Strays == (p1 :> Stray) @@ (p2 :> Step) @@ (p3 :> Stray)
\* A save of each kind beside a step.
BothSaves == (p1 :> Step) @@ (p2 :> SaveForSampler) @@ (p3 :> Save)
AllScenarios == {RetryBesideForward, SaveBesideSteps, BothSaves, Strays}
RetryOnly == {RetryBesideForward}
\* A step, a sample, the next step, and a late retry of the first.
LateRetry == {(p1 :> Step) @@ (p2 :> Step) @@ (p3 :> Sample) @@ (p4 :> NextStep)}
=============================================================================
