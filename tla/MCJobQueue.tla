----------------------------- MODULE MCJobQueue -----------------------------
(***************************************************************************)
(* A small instance of JobQueue: two sessions, two workers that ask for    *)
(* different models, one session whose jobs prefer a worker and one of    *)
(* higher priority whose model only the other worker serves.              *)
(***************************************************************************)
EXTENDS JobQueue, TLC

CONSTANTS s1, s2, w1, w2, m1, m2

Job(s, op, prio, pref, model) ==
    [session |-> s, operation |-> op, priority |-> prio,
     preferred_worker |-> pref, required_model |-> model,
     required_cp_degree |-> 1]

MCJobSpecs ==
    {Job(s1, "forward_backward", 0, w1, m1), Job(s2, "other", 1, None, m2)}

MCModelFilter == (w1 :> {m1}) @@ (w2 :> {})
=============================================================================
