-------------------------- MODULE SessionDispatch --------------------------
(***************************************************************************)
(* What both job queues promise (memory.py:9-21; sqlite.py "Same           *)
(* invariants as InMemoryJobQueue"), without deques, rows, priorities,     *)
(* pins, timeouts or retries: jobs of a session are handed out one at a    *)
(* time and in submission order, a job only after every earlier job of its *)
(* session is answered, and an answer is never taken back (it may be       *)
(* replaced by another one).  A session may be released at any time, with  *)
(* or without an answer, after which the same job may be handed out again. *)
(***************************************************************************)
EXTENDS Naturals, Sequences

CONSTANTS Sessions, Jobs, Statuses, None

VARIABLES
    order,     \* the session of each submitted job, in submission order
    running,   \* session -> the job handed out for it, or None
    answer     \* job -> status, or None

dispatchVars == <<order, running, answer>>

DispatchInit ==
    /\ order = <<>>
    /\ running = [s \in Sessions |-> None]
    /\ answer = [j \in Jobs |-> None]

Submit(s) ==
    /\ Len(order) + 1 \in Jobs
    /\ order' = Append(order, s)
    /\ UNCHANGED <<running, answer>>

EarlierAnswered(j) ==
    \A k \in 1 .. (j - 1) : order[k] = order[j] => answer[k] # None

(* Sessions lapse, and one free session is granted its next job. *)
Grant(j) ==
    \E lapsing \in SUBSET Sessions :
        LET freed == [s \in Sessions |-> IF s \in lapsing THEN None ELSE running[s]]
        IN  /\ j \in DOMAIN order
            /\ freed[order[j]] = None
            /\ EarlierAnswered(j)
            /\ running' = [freed EXCEPT ![order[j]] = j]
            /\ UNCHANGED <<order, answer>>

Lapse ==
    \E lapsing \in SUBSET Sessions :
        /\ running' = [s \in Sessions |-> IF s \in lapsing THEN None ELSE running[s]]
        /\ UNCHANGED <<order, answer>>

(* Job j is answered; if it was the one handed out, its session is free. *)
Answer(j, status) ==
    /\ j \in DOMAIN order
    /\ answer' = [answer EXCEPT ![j] = status]
    /\ running' = [running EXCEPT ![order[j]] = IF @ = j THEN None ELSE @]
    /\ UNCHANGED order

DispatchNext ==
    \/ \E s \in Sessions : Submit(s)
    \/ \E j \in Jobs : Grant(j)
    \/ Lapse
    \/ \E j \in Jobs, status \in Statuses : Answer(j, status)

Dispatch == DispatchInit /\ [][DispatchNext]_dispatchVars
=============================================================================
