--------------------------- MODULE PrivateModels ---------------------------
(***************************************************************************)
(* What a trainer promises its sessions (hatchery/core/trainer.py): each   *)
(* one trains a model of its own, as if no other session were attached.    *)
(* A session's model is known by the number of optimizer steps it carries, *)
(* gradients wait beside it until the next step, a saved state brings both *)
(* back, and whatever is computed for a session is computed on its model.  *)
(***************************************************************************)
EXTENDS Naturals

CONSTANTS Sessions, None

VARIABLES attached,  \* the sessions that are attached
          weights,   \* session -> steps its model carries
          waiting,   \* session -> passes whose gradients wait for a step
          saved,     \* session -> a state extracted from it, or None
          computed   \* <<session, steps of the model that was run>> of this operation
vars == <<attached, weights, waiting, saved, computed>>

Init == /\ attached = {} /\ computed = None
        /\ weights = [s \in Sessions |-> 0] /\ waiting = [s \in Sessions |-> 0]
        /\ saved = [s \in Sessions |-> None]

Attach(s) ==
    /\ s \notin attached
    /\ attached' = attached \cup {s} /\ computed' = None
    /\ UNCHANGED <<weights, waiting, saved>>

Detach(s) ==
    /\ s \in attached
    /\ attached' = attached \ {s} /\ computed' = None
    /\ weights' = [weights EXCEPT ![s] = 0] /\ waiting' = [waiting EXCEPT ![s] = 0]
    /\ UNCHANGED saved

Accumulate(s) ==
    /\ s \in attached
    /\ waiting' = [waiting EXCEPT ![s] = @ + 1] /\ computed' = <<s, weights[s]>>
    /\ UNCHANGED <<attached, weights, saved>>

Step(s) ==
    /\ s \in attached
    /\ weights' = [weights EXCEPT ![s] = @ + 1] /\ waiting' = [waiting EXCEPT ![s] = 0]
    /\ computed' = None
    /\ UNCHANGED <<attached, saved>>

Compute(s) ==
    /\ s \in attached
    /\ computed' = <<s, weights[s]>>
    /\ UNCHANGED <<attached, weights, waiting, saved>>

Extract(s) ==
    /\ s \in attached
    /\ saved' = [saved EXCEPT ![s] = <<weights[s], waiting[s]>>] /\ computed' = None
    /\ UNCHANGED <<attached, weights, waiting>>

\* A session created now, whose initial state is kept: it is attached and untrained.
Create(s) ==
    /\ s \notin attached
    /\ attached' = attached \cup {s} /\ computed' = None
    /\ saved' = [saved EXCEPT ![s] = <<0, 0>>]
    /\ UNCHANGED <<weights, waiting>>

Load(s) ==
    /\ saved[s] # None
    /\ attached' = attached \cup {s} /\ computed' = None
    /\ weights' = [weights EXCEPT ![s] = saved[s][1]]
    /\ waiting' = [waiting EXCEPT ![s] = saved[s][2]]
    /\ UNCHANGED saved

\* An operation that is refused, or one that only changes which model is loaded.
Settle == computed' = None /\ UNCHANGED <<attached, weights, waiting, saved>>

Next == \/ \E s \in Sessions : \/ Attach(s) \/ Detach(s) \/ Accumulate(s) \/ Step(s)
                               \/ Compute(s) \/ Extract(s) \/ Create(s) \/ Load(s)
        \/ Settle
Spec == Init /\ [][Next]_vars
=============================================================================
