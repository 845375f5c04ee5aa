------------------------------ MODULE JobQueue ------------------------------
(***************************************************************************)
(* The in-process job queue, hatchery/core/backends/queue/memory.py.       *)
(*                                                                         *)
(* No section guarded by the queue's asyncio lock awaits anything, so the  *)
(* lock is never contended and every operation is one atomic step.  The    *)
(* caller is arbitrary: in this module an ack or a nack may arrive for any *)
(* job that was ever submitted, at any time, from a worker that still owns *)
(* it, from one that lost it to the visibility timeout, or twice.          *)
(* WorkerPool restricts the callers to the worker loop of worker.py.       *)
(*                                                                         *)
(* Job ids are the enqueue sequence numbers: the queue draws one number    *)
(* per submission (memory.py:116) and each submission has a fresh job_id.  *)
(* The clock is not absolute.  Every deadline is kept as the time left     *)
(* until it, and Tick lets one unit of time pass; "deadline <= now" is     *)
(* "nothing left".                                                         *)
(***************************************************************************)
EXTENDS Naturals, Sequences, FiniteSets, Functions

CONSTANTS
    Sessions,           \* session ids
    Workers,            \* worker ids
    Models,             \* base model names
    None,               \* Python's None
    MaxJobs,            \* bound: number of submissions
    JobSpecs,           \* what callers submit: session, op, priority, ...
    ModelFilter,        \* worker -> the set of models it asks for, {} = any
    VisibilityTimeout,  \* dequeue's visibility_timeout
    AffinityWindow,     \* _AFFINITY_WINDOW_S
    PinTTL,             \* set_accum_pin's ttl_s
    MaxAttempts         \* _max_attempts

Jobs == 1 .. MaxJobs
Operations == {"forward_backward", "optim_step", "other"}

Statuses == {"completed", "failed"}
InflightEntry == [worker : Workers, left : 0 .. VisibilityTimeout]
Pin == [owner : Workers, left : 0 .. PinTTL]

ASSUME NoneAssumption ==
    /\ None \notin Workers \cup Models
    /\ None \notin Jobs
    /\ None \notin Statuses
    /\ None \notin InflightEntry
    /\ None \notin Pin

ASSUME BoundAssumption ==
    /\ MaxJobs \in Nat
    /\ VisibilityTimeout \in Nat \ {0}
    /\ AffinityWindow \in Nat
    /\ PinTTL \in Nat
    /\ MaxAttempts \in Nat \ {0}

(***************************************************************************)
(* The fields of a QueuedJob that the queue reads (protocols.py).          *)
(***************************************************************************)
QueuedJob ==
    [session : Sessions, operation : Operations, priority : Nat,
     preferred_worker : Workers \cup {None},
     required_model : Models \cup {None}, required_cp_degree : Nat]

ASSUME JobSpecsAssumption == JobSpecs \subseteq QueuedJob

ASSUME FilterAssumption == ModelFilter \in [Workers -> SUBSET Models]

VARIABLES
    submitted,         \* the jobs by enqueue number: _seq and the job objects
    session_queues,    \* _session_queues: session -> waiting job ids, head first
    inflight_by_session,
    inflight,          \* _inflight: job -> worker and time to the deadline
    pending_expired,   \* the keys of _pending_expired
    exclusive,         \* time left of each job's affinity window
    results,           \* _results: job -> status, None if absent
    attempts,          \* _attempts, 0 if absent
    dead_letter,       \* the keys of _dead_letter
    accum_pins         \* _accum_pins: session -> owner and time to expiry

queueVars == <<submitted, session_queues, inflight_by_session, inflight,
               pending_expired, exclusive, results, attempts, dead_letter,
               accum_pins>>

Submitted == DOMAIN submitted
Session(j) == submitted[j].session
JobsOf(s) == {j \in Submitted : Session(j) = s}
Waiting(s) == Range(session_queues[s])

Init ==
    /\ submitted = <<>>
    /\ session_queues = [s \in Sessions |-> <<>>]
    /\ inflight_by_session = [s \in Sessions |-> None]
    /\ inflight = [j \in Jobs |-> None]
    /\ pending_expired = {}
    /\ exclusive = [j \in Jobs |-> 0]
    /\ results = [j \in Jobs |-> None]
    /\ attempts = [j \in Jobs |-> 0]
    /\ dead_letter = {}
    /\ accum_pins = [s \in Sessions |-> None]

-----------------------------------------------------------------------------
(***************************************************************************)
(* enqueue: append to the session's deque and draw the next number.        *)
(***************************************************************************)
Enqueue(spec) ==
    LET id == Len(submitted) + 1 IN
    /\ id \in Jobs
    /\ submitted' = Append(submitted, spec)
    /\ session_queues' = [session_queues EXCEPT ![spec.session] = Append(@, id)]
    /\ exclusive' = [exclusive EXCEPT ![id] = AffinityWindow]
    /\ UNCHANGED <<inflight_by_session, inflight, pending_expired, results,
                   attempts, dead_letter, accum_pins>>

(***************************************************************************)
(* _requeue_expired: drop every lapsed in-flight entry, release its        *)
(* session and, when the job object is still at hand, put it back at the   *)
(* head of the session's deque.                                            *)
(***************************************************************************)
Expired == {j \in Submitted : inflight[j] # None /\ inflight[j].left = 0}
ExpiredOf(s) == {j \in Expired : Session(j) = s}

\* Mutant: the expired job is not put back.
RequeueForgetsJob(s) == session_queues[s]

QueueAfterRequeue(s) ==
    LET back == ExpiredOf(s) \cap pending_expired IN
    IF back = {} THEN session_queues[s]
    ELSE <<CHOOSE j \in back : TRUE>> \o session_queues[s]

\* Mutant: expiry drops the in-flight entry and not the session's lock.
RequeueKeepsLock(s) == inflight_by_session[s]

LockAfterRequeue(s) ==
    IF ExpiredOf(s) = {} THEN inflight_by_session[s] ELSE None

(***************************************************************************)
(* The candidate loop of dequeue, run after _requeue_expired.  A session   *)
(* is reached when it has a waiting head, nothing in flight, and a head    *)
(* the worker's model filter accepts; a lapsed pin of a reached session is *)
(* dropped and a live pin of another worker hides the session.             *)
(***************************************************************************)
FilterAccepts(w, j) ==
    \/ ModelFilter[w] = {}
    \/ submitted[j].required_model \in ModelFilter[w] \cup {None}

\* Mutant: the test of _inflight_by_session is missing.
ReachedIgnoringLock(w) ==
    {s \in Sessions : /\ QueueAfterRequeue(s) # <<>>
                      /\ FilterAccepts(w, Head(QueueAfterRequeue(s)))}

Reached(w) ==
    {s \in Sessions : /\ QueueAfterRequeue(s) # <<>>
                      /\ LockAfterRequeue(s) = None
                      /\ FilterAccepts(w, Head(QueueAfterRequeue(s)))}

\* Mutant: pins never expire.
PinNeverLapses(s) == FALSE

PinLapsed(s) == accum_pins[s] # None /\ accum_pins[s].left = 0
\* Mutant: the owner of the pin is not compared with the worker.
PinIgnored(s, w) == TRUE

PinAllows(s, w) ==
    accum_pins[s] # None => (PinLapsed(s) \/ accum_pins[s].owner = w)

Candidates(w) ==
    {Head(QueueAfterRequeue(s)) : s \in {r \in Reached(w) : PinAllows(r, w)}}

(***************************************************************************)
(* The sticky affinity window, then the sort key (-priority, affinity      *)
(* bonus, enqueue number).                                                 *)
(***************************************************************************)
InAffinityWindow(j, w) ==
    /\ submitted[j].preferred_worker \notin {None, w}
    /\ exclusive[j] > 0

Visible(w) == {j \in Candidates(w) : ~ InAffinityWindow(j, w)}

AffinityBonus(j, w) == IF submitted[j].preferred_worker = w THEN 0 ELSE 1

SortsBefore(j, k, w) ==
    \/ submitted[j].priority > submitted[k].priority
    \/ /\ submitted[j].priority = submitted[k].priority
       /\ \/ AffinityBonus(j, w) < AffinityBonus(k, w)
          \/ AffinityBonus(j, w) = AffinityBonus(k, w) /\ j <= k

Selects(w, j) ==
    /\ j \in Visible(w)
    /\ \A k \in Visible(w) : SortsBefore(j, k, w)

(***************************************************************************)
(* dequeue for worker w returning r: the selected job, or None when no     *)
(* head is visible (the requeue and the dropped pins stay).                *)
(***************************************************************************)
Dequeue(w, r) ==
    LET taken == IF r = None THEN {} ELSE {r} IN
    /\ IF r = None THEN Visible(w) = {} ELSE Selects(w, r)
    /\ session_queues' =
         [s \in Sessions |->
            IF r # None /\ Session(r) = s THEN Tail(QueueAfterRequeue(s))
            ELSE QueueAfterRequeue(s)]
    /\ inflight_by_session' =
         [s \in Sessions |->
            IF r # None /\ Session(r) = s THEN r ELSE LockAfterRequeue(s)]
    /\ inflight' =
         [j \in Jobs |->
            IF j \in taken THEN [worker |-> w, left |-> VisibilityTimeout]
            ELSE IF j \in Expired THEN None ELSE inflight[j]]
    /\ pending_expired' = (pending_expired \ Expired) \cup taken
    /\ accum_pins' =
         [s \in Sessions |->
            IF s \in Reached(w) /\ PinLapsed(s) THEN None ELSE accum_pins[s]]
    /\ UNCHANGED <<submitted, exclusive, results, attempts, dead_letter>>

(***************************************************************************)
(* ack and nack share the first step: drop the in-flight entry, whoever    *)
(* holds it, and release the session.                                      *)
(***************************************************************************)
DropInflight(j) ==
    /\ inflight' = [inflight EXCEPT ![j] = None]
    /\ inflight_by_session' = [inflight_by_session EXCEPT ![Session(j)] = None]
    /\ pending_expired' = pending_expired \ {j}

Ack(j, status) ==
    /\ IF inflight[j] # None
       THEN DropInflight(j)
       ELSE UNCHANGED <<inflight, inflight_by_session, pending_expired>>
    /\ attempts' = [attempts EXCEPT ![j] = 0]
    /\ results' = [results EXCEPT ![j] = status]
    /\ UNCHANGED <<submitted, session_queues, exclusive, dead_letter, accum_pins>>

\* Mutant: one attempt too many (> for >=).
NackOffByOne(j) ==
    IF inflight[j] = None
    THEN UNCHANGED queueVars
    ELSE /\ DropInflight(j)
         /\ attempts' = [attempts EXCEPT ![j] = @ + 1]
         /\ IF attempts[j] + 1 > MaxAttempts
            THEN /\ dead_letter' = dead_letter \cup {j}
                 /\ results' = [results EXCEPT ![j] = "failed"]
                 /\ UNCHANGED session_queues
            ELSE /\ session_queues' =
                      [session_queues EXCEPT ![Session(j)] = <<j>> \o @]
                 /\ UNCHANGED <<dead_letter, results>>
         /\ UNCHANGED <<submitted, exclusive, accum_pins>>

\* Mutant: the retried job goes behind the jobs submitted after it.
NackToTail(j) ==
    IF inflight[j] = None
    THEN UNCHANGED queueVars
    ELSE /\ DropInflight(j)
         /\ attempts' = [attempts EXCEPT ![j] = @ + 1]
         /\ session_queues' =
              [session_queues EXCEPT ![Session(j)] = Append(@, j)]
         /\ UNCHANGED <<submitted, exclusive, accum_pins, dead_letter, results>>

Nack(j) ==
    IF inflight[j] = None
    THEN UNCHANGED queueVars
    ELSE /\ DropInflight(j)
         /\ attempts' = [attempts EXCEPT ![j] = @ + 1]
         /\ IF attempts[j] + 1 >= MaxAttempts \/ j \notin pending_expired
            THEN /\ dead_letter' = dead_letter \cup ({j} \cap pending_expired)
                 /\ results' = [results EXCEPT ![j] = "failed"]
                 /\ UNCHANGED session_queues
            ELSE /\ session_queues' =
                      [session_queues EXCEPT ![Session(j)] = <<j>> \o @]
                 /\ UNCHANGED <<dead_letter, results>>
         /\ UNCHANGED <<submitted, exclusive, accum_pins>>

SetAccumPin(s, w) ==
    /\ accum_pins' = [accum_pins EXCEPT ![s] = [owner |-> w, left |-> PinTTL]]
    /\ UNCHANGED <<submitted, session_queues, inflight_by_session, inflight,
                   pending_expired, exclusive, results, attempts, dead_letter>>

ClearAccumPin(s) ==
    /\ accum_pins' = [accum_pins EXCEPT ![s] = None]
    /\ UNCHANGED <<submitted, session_queues, inflight_by_session, inflight,
                   pending_expired, exclusive, results, attempts, dead_letter>>

(***************************************************************************)
(* One unit of time passes.                                                *)
(***************************************************************************)
Elapse(n) == IF n = 0 THEN 0 ELSE n - 1

Tick ==
    /\ inflight' = [j \in Jobs |->
         IF inflight[j] = None THEN None
         ELSE [inflight[j] EXCEPT !.left = Elapse(@)]]
    /\ accum_pins' = [s \in Sessions |->
         IF accum_pins[s] = None THEN None
         ELSE [accum_pins[s] EXCEPT !.left = Elapse(@)]]
    /\ exclusive' = [j \in Jobs |-> Elapse(exclusive[j])]
    /\ UNCHANGED <<submitted, session_queues, inflight_by_session,
                   pending_expired, results, attempts, dead_letter>>

Next ==
    \/ \E spec \in JobSpecs : Enqueue(spec)
    \/ \E w \in Workers : \E r \in Submitted \cup {None} : Dequeue(w, r)
    \/ \E j \in Submitted : \E status \in Statuses : Ack(j, status)
    \/ \E j \in Submitted : Nack(j)
    \/ \E s \in Sessions : \E w \in Workers : SetAccumPin(s, w)
    \/ \E s \in Sessions : ClearAccumPin(s)
    \/ Tick

Spec == Init /\ [][Next]_queueVars

-----------------------------------------------------------------------------
(***************************************************************************)
(* Type correctness of the queue's tables.                                 *)
(***************************************************************************)
TypeOK ==
    /\ submitted \in Seq(QueuedJob)
    /\ Len(submitted) <= MaxJobs
    /\ session_queues \in [Sessions -> Seq(Jobs)]
    /\ inflight_by_session \in [Sessions -> Jobs \cup {None}]
    /\ inflight \in [Jobs -> InflightEntry \cup {None}]
    /\ pending_expired \subseteq Jobs
    /\ exclusive \in [Jobs -> 0 .. AffinityWindow]
    /\ results \in [Jobs -> Statuses \cup {None}]
    /\ attempts \in [Jobs -> Nat]
    /\ dead_letter \subseteq Jobs
    /\ accum_pins \in [Sessions -> Pin \cup {None}]

(***************************************************************************)
(* The three in-flight tables of the queue agree, whatever order of acks,  *)
(* nacks and expiries: a session's lock names a job of that session that   *)
(* is in flight, every in-flight job holds its session's lock (so no       *)
(* session has two), and the job objects kept for requeueing are exactly   *)
(* those of the in-flight jobs (so nack never meets the "job is None" case *)
(* of memory.py:271, which would drop the job from the queue).             *)
(***************************************************************************)
SingleInFlight ==
    /\ \A s \in Sessions : inflight_by_session[s] # None =>
          /\ inflight_by_session[s] \in JobsOf(s)
          /\ inflight[inflight_by_session[s]] # None
    /\ \A j \in Jobs : inflight[j] # None =>
          j \in Submitted /\ inflight_by_session[Session(j)] = j
    /\ pending_expired = {j \in Jobs : inflight[j] # None}

(***************************************************************************)
(* Per-session FIFO (memory.py:11): a session's deque is in submission     *)
(* order without repetition, and the job in flight was submitted before    *)
(* everything that waits.  Retries and expiries put a job back at the      *)
(* head, so this says they can only do so with the oldest unfinished one.  *)
(***************************************************************************)
SessionFIFO ==
    \A s \in Sessions :
        /\ \A i \in DOMAIN session_queues[s] : session_queues[s][i] \in JobsOf(s)
        /\ \A i, k \in DOMAIN session_queues[s] :
              i < k => session_queues[s][i] < session_queues[s][k]
        /\ \A j \in JobsOf(s), i \in DOMAIN session_queues[s] :
              inflight[j] # None => j < session_queues[s][i]

(***************************************************************************)
(* No accepted job is ever lost: it waits, is in flight, or its caller can *)
(* read a result.                                                          *)
(***************************************************************************)
NoJobLost ==
    \A j \in Submitted :
        \/ j \in Waiting(Session(j))
        \/ inflight[j] # None
        \/ results[j] # None

(***************************************************************************)
(* Nacks use the budget up and a dead letter is final: a job that may      *)
(* still run has counted fewer attempts than the budget, and a dead-       *)
(* lettered job is out of the queue with a result for its caller, even if  *)
(* a nack raced the visibility timeout.  A redelivery after that timeout   *)
(* counts as no attempt, so it bounds nacks, not executions.               *)
(***************************************************************************)
RetryBudget ==
    \A j \in Submitted :
        /\ (inflight[j] # None \/ j \in Waiting(Session(j))) =>
              attempts[j] < MaxAttempts /\ j \notin dead_letter
        /\ j \in dead_letter => results[j] # None

(***************************************************************************)
(* A job runs only when every job submitted earlier for its session has a  *)
(* result: the order pipelined clients rely on (optim_step never runs      *)
(* before the forward_backward submitted before it), across retries and    *)
(* visibility timeouts.                                                    *)
(***************************************************************************)
RunsInOrder ==
    \A j \in Submitted : inflight[j] # None =>
        \A k \in JobsOf(Session(j)) : k < j => results[k] # None

(***************************************************************************)
(* The queue implements the session dispatcher: the in-flight lock is the  *)
(* job handed out, the results table the answers.                          *)
(***************************************************************************)
Dispatcher == INSTANCE SessionDispatch WITH
    order <- [j \in Submitted |-> Session(j)],
    running <- inflight_by_session,
    answer <- results

ImplementsDispatch == Dispatcher!Dispatch
=============================================================================
