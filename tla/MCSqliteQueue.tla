--------------------------- MODULE MCSqliteQueue ---------------------------
(***************************************************************************)
(* A small instance of SqliteQueue: one session whose operations have      *)
(* different priorities and models, two gateways that enqueue for it, one  *)
(* worker that asks for a model and one that takes any.                    *)
(***************************************************************************)
EXTENDS SqliteQueue, TLC

CONSTANTS s1, g1, g2, w1, w2, m1, m2

Job(prio, pref, model, cp) ==
    [session |-> s1, priority |-> prio, preferred_worker |-> pref,
     required_model |-> model, required_cp_degree |-> cp]

MCJobSpecs == {Job(0, None, m1, 1), Job(1, w1, m2, 1)}
LongContextSpecs == {Job(0, None, m1, 2)}

MCModelFilter == (w1 :> m2) @@ (w2 :> None)

GatewaySymmetry == Permutations({g1, g2})
=============================================================================
