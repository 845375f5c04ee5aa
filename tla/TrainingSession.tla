--------------------------- MODULE TrainingSession ---------------------------
(***************************************************************************)
(* What a training session promises its client, whatever worker serves it  *)
(* and however often it is evicted and reloaded: a state of weights,       *)
(* accumulated gradients and optimizer that only the client's operations   *)
(* change, each forward_backward counted once, and a checkpoint that is    *)
(* the state it was taken of.  The one thing a session may lose on its own *)
(* is precision: its weights may go through the format they are stored in  *)
(* at any time, at most once between two updates to any effect.            *)
(*                                                                         *)
(* Weights are the sequence of updates applied to the base model, an       *)
(* update the sequence of batches whose gradients it applied, and the      *)
(* points in that sequence where the weights were stored and loaded again. *)
(***************************************************************************)
EXTENDS Naturals, Sequences, Functions

CONSTANTS Sessions, Batches, None

VARIABLES
    wide,    \* the sessions whose weights are wider than they are stored
    state,   \* session -> [weights, grads, opt], None before it is created
    saved    \* session -> the state its checkpoint holds, None without one

Fresh ==
    [weights |-> [steps |-> <<>>, stored |-> {}], grads |-> <<>>, opt |-> None]

Init ==
    /\ wide \in SUBSET Sessions
    /\ state = [s \in Sessions |-> None]
    /\ saved = [s \in Sessions |-> None]

Create(s) ==
    /\ state[s] = None
    /\ state' = [state EXCEPT ![s] = Fresh]
    /\ UNCHANGED saved

Stored(s, weights) ==
    IF s \in wide THEN [weights EXCEPT !.stored = @ \cup {Len(weights.steps)}]
    ELSE weights

Reload(s) ==
    /\ state[s] # None
    /\ state' = [state EXCEPT ![s].weights = Stored(s, @)]
    /\ UNCHANGED saved

(* What an operation may find of a session: it may have been reloaded. *)
Held(s) == {[state[s] EXCEPT !.weights = x] :
                x \in {state[s].weights, Stored(s, state[s].weights)}}

Counted(s) ==
    Range(state[s].grads)
        \cup UNION {Range(u) : u \in Range(state[s].weights.steps)}

Accumulate(s, b) ==
    /\ state[s] # None
    /\ b \notin Counted(s)
    /\ \E h \in Held(s) :
          state' = [state EXCEPT ![s] = [h EXCEPT !.grads = Append(@, b)]]
    /\ UNCHANGED saved

Step(s) ==
    /\ state[s] # None
    /\ \E h \in Held(s) :
          state' = [state EXCEPT
            ![s] = [weights |-> [h.weights EXCEPT !.steps = Append(@, h.grads)],
                    grads |-> <<>>,
                    opt |-> Append(IF h.opt = None THEN <<>> ELSE h.opt, h.grads)]]
    /\ UNCHANGED saved

Save(s) ==
    /\ state[s] # None
    /\ saved' = [saved EXCEPT
         ![s] = [state[s] EXCEPT !.weights = Stored(s, @)]]
    /\ UNCHANGED state

Load(s, restore) ==
    /\ saved[s] # None
    /\ state' = [state EXCEPT
         ![s] = IF restore THEN saved[s]
                ELSE [@ EXCEPT !.weights = saved[s].weights, !.grads = <<>>]]
    /\ UNCHANGED saved

Next ==
    \E s \in Sessions :
        \/ Create(s)
        \/ Reload(s)
        \/ \E b \in Batches : Accumulate(s, b)
        \/ Step(s)
        \/ Save(s)
        \/ \E restore \in BOOLEAN : Load(s, restore)

Session == Init /\ [][Next /\ UNCHANGED wide]_<<wide, state, saved>>
=============================================================================
