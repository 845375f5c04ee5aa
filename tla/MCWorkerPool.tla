---------------------------- MODULE MCWorkerPool ----------------------------
(***************************************************************************)
(* Small instances of WorkerPool.                                          *)
(***************************************************************************)
EXTENDS WorkerPool, TLC

CONSTANTS s1, s2, w1, w2, m1

Job(s, op, prio, pref, cp) ==
    [session |-> s, operation |-> op, priority |-> prio,
     preferred_worker |-> pref, required_model |-> m1,
     required_cp_degree |-> cp]

(* A pipelined session: gradients, then an optimizer step that outranks them. *)
PipelineSpecs ==
    {Job(s1, "forward_backward", 0, w1, 1), Job(s1, "optim_step", 1, None, 1)}

(* A job that only a context-parallel worker can run. *)
LongContextSpecs == {Job(s1, "other", 0, None, 2)}

(* The pipelined session next to another one's jobs that w1 cannot run. *)
TwoSessionSpecs == PipelineSpecs \cup {Job(s2, "other", 0, None, 2)}

AnyModel == [w \in Workers |-> {m1}]
SameCp == [w \in Workers |-> 1]
OneCpWorker == (w1 :> 1) @@ (w2 :> 2)
=============================================================================
