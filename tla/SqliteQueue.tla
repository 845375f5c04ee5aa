---------------------------- MODULE SqliteQueue ----------------------------
(***************************************************************************)
(* The durable job queue, hatchery/core/backends/queue/sqlite.py, shared   *)
(* by several processes through one database file.                         *)
(*                                                                         *)
(* Every mutating operation is one statement or one IMMEDIATE transaction, *)
(* hence one action, except enqueue: it draws its sequence number in a     *)
(* transaction of its own and inserts the row in another, and the asyncio  *)
(* lock around the two is private to the process.  Other processes act in  *)
(* between, and the process may die there.  As in JobQueue the callers of  *)
(* ack and nack are arbitrary, and deadlines are kept as the time left.    *)
(***************************************************************************)
EXTENDS Naturals, Sequences, FiniteSets

CONSTANTS
    Sessions, Workers, Models,
    Gateways,           \* processes that enqueue
    None,
    MaxJobs,            \* bound: number of enqueue calls
    JobSpecs,           \* what callers submit
    ModelFilter,        \* worker -> the model it asks for, None = any
    VisibilityTimeout, PinTTL, MaxAttempts

Jobs == 1 .. MaxJobs
States == {"queued", "inflight", "completed", "failed"}
Answers == {"completed", "failed"}

(* The columns of queue_jobs the queue works with. *)
Row == [seq : Nat, state : States, worker_id : Workers \cup {None},
        left : 0 .. VisibilityTimeout, attempts : Nat]
Pin == [owner : Workers, left : 0 .. PinTTL]
Draw == [job : Jobs, seq : Nat]

QueuedJob ==
    [session : Sessions, priority : Nat, preferred_worker : Workers \cup {None},
     required_model : Models \cup {None}, required_cp_degree : Nat]

ASSUME NoneAssumption ==
    /\ None \notin Workers \cup Models
    /\ None \notin Jobs
    /\ None \notin Answers
    /\ None \notin Row
    /\ None \notin Pin
    /\ None \notin Draw

ASSUME BoundAssumption ==
    /\ MaxJobs \in Nat
    /\ VisibilityTimeout \in Nat \ {0}
    /\ PinTTL \in Nat
    /\ MaxAttempts \in Nat \ {0}

ASSUME SpecsAssumption == JobSpecs \subseteq QueuedJob
ASSUME FilterAssumption == ModelFilter \in [Workers -> Models \cup {None}]

VARIABLES
    calls,       \* the jobs by enqueue call: job_id -> what was submitted
    value,       \* queue_seq.value
    drawn,       \* gateway -> the enqueue it is in the middle of, or None
    rows,        \* table queue_jobs: job_id -> row, None if absent
    accum_pins,  \* table queue_accum_pins
    preceding,   \* history: the rows present when a job drew its number
    told         \* history: the last status a worker reported for a job

vars == <<calls, value, drawn, rows, accum_pins, preceding, told>>

Called == DOMAIN calls
Session(j) == calls[j].session
Stored == {j \in Called : rows[j] # None}
InState(st) == {j \in Stored : rows[j].state = st}

Init ==
    /\ calls = <<>>
    /\ value = 0
    /\ drawn = [g \in Gateways |-> None]
    /\ rows = [j \in Jobs |-> None]
    /\ accum_pins = [s \in Sessions |-> None]
    /\ preceding = [j \in Jobs |-> {}]
    /\ told = [j \in Jobs |-> None]

-----------------------------------------------------------------------------

(***************************************************************************)
(* enqueue, first half: _next_seq's transaction.                           *)
(***************************************************************************)
NextSeq(g, spec) ==
    LET id == Len(calls) + 1 IN
    /\ id \in Jobs
    /\ drawn[g] = None
    /\ calls' = Append(calls, spec)
    /\ value' = value + 1
    /\ drawn' = [drawn EXCEPT ![g] = [job |-> id, seq |-> value + 1]]
    /\ preceding' = [preceding EXCEPT ![id] = Stored]
    /\ UNCHANGED <<rows, accum_pins, told>>

(***************************************************************************)
(* enqueue, second half: the INSERT.                                       *)
(***************************************************************************)
InsertRow(g) ==
    /\ drawn[g] # None
    /\ rows' = [rows EXCEPT ![drawn[g].job] =
                  [seq |-> drawn[g].seq, state |-> "queued", worker_id |-> None,
                   left |-> 0, attempts |-> 0]]
    /\ drawn' = [drawn EXCEPT ![g] = None]
    /\ UNCHANGED <<calls, value, accum_pins, preceding, told>>

(* The process dies, or the INSERT fails, between the two halves. *)
EnqueueDies(g) ==
    /\ drawn[g] # None
    /\ drawn' = [drawn EXCEPT ![g] = None]
    /\ UNCHANGED <<calls, value, rows, accum_pins, preceding, told>>

(* The columns every transition of a row writes. *)
Moved(row, st, worker, time) ==
    [row EXCEPT !.state = st, !.worker_id = worker, !.left = time]

(***************************************************************************)
(* dequeue.  _release_expired puts lapsed rows back to 'queued' under the  *)
(* number they have, _release_expired_pins deletes every lapsed pin; then  *)
(* the head of each session by number, unless the session has a row in     *)
(* flight, a pin of another worker, or the filter rejects it.              *)
(***************************************************************************)
Lapsed == {j \in InState("inflight") : rows[j].left = 0}

Release(j) ==
    IF j \in Lapsed THEN Moved(rows[j], "queued", None, 0) ELSE rows[j]

QueuedAfterRelease == InState("queued") \cup Lapsed
InflightAfterRelease == InState("inflight") \ Lapsed

PinAfterRelease(s) ==
    IF accum_pins[s] # None /\ accum_pins[s].left = 0 THEN None ELSE accum_pins[s]

PinAllows(j, w) ==
    PinAfterRelease(Session(j)) # None => accum_pins[Session(j)].owner = w

FilterAccepts(j, w) ==
    ModelFilter[w] # None => calls[j].required_model \in {None, ModelFilter[w]}

\* Mutant: any queued row qualifies, not only the head of its session.
AnyQueuedRow(j) == j \in QueuedAfterRelease

SessionHead(j) ==
    /\ j \in QueuedAfterRelease
    /\ \A k \in QueuedAfterRelease :
          Session(k) = Session(j) => rows[j].seq <= rows[k].seq

\* Mutant: the subquery that excludes sessions with a row in flight is dropped.
EligibleBesideInflight(j, w) ==
    /\ SessionHead(j)
    /\ PinAllows(j, w)
    /\ FilterAccepts(j, w)

Eligible(j, w) ==
    /\ SessionHead(j)
    /\ \A k \in InflightAfterRelease : Session(k) # Session(j)
    /\ PinAllows(j, w)
    /\ FilterAccepts(j, w)

(* ORDER BY priority DESC, preferred worker first, seq ASC *)
AffinityRank(j, w) == IF calls[j].preferred_worker = w THEN 0 ELSE 1

SortsBefore(j, k, w) ==
    \/ calls[j].priority > calls[k].priority
    \/ /\ calls[j].priority = calls[k].priority
       /\ \/ AffinityRank(j, w) < AffinityRank(k, w)
          \/ /\ AffinityRank(j, w) = AffinityRank(k, w)
             /\ rows[j].seq <= rows[k].seq

Selects(w, j) ==
    /\ Eligible(j, w)
    /\ \A k \in Stored : Eligible(k, w) => SortsBefore(j, k, w)

Dequeue(w, r) ==
    /\ IF r = None THEN \A j \in Stored : ~ Eligible(j, w) ELSE Selects(w, r)
    /\ rows' =
         [j \in Jobs |->
            IF r # None /\ j = r
            THEN Moved(Release(j), "inflight", w, VisibilityTimeout)
            ELSE Release(j)]
    /\ accum_pins' = [s \in Sessions |-> PinAfterRelease(s)]
    /\ UNCHANGED <<calls, value, drawn, preceding, told>>

(* _row_to_job: queue_jobs has no column for required_cp_degree, which the *)
(* rebuilt job therefore has at its default.                               *)
RowToJob(j) == [calls[j] EXCEPT !.required_cp_degree = 1]

(***************************************************************************)
(* ack: 'completed' whatever the state of the row, the worker that holds   *)
(* it and the status of the result.                                        *)
(***************************************************************************)
Ack(j, status) ==
    /\ rows' = [rows EXCEPT ![j] = Moved(@, "completed", None, 0)]
    /\ told' = [told EXCEPT ![j] = status]
    /\ UNCHANGED <<calls, value, drawn, accum_pins, preceding>>

(* The row after a failed attempt: queued again, or failed at the limit. *)
AfterAttempt(row) ==
    Moved([row EXCEPT !.attempts = @ + 1],
          IF row.attempts + 1 >= MaxAttempts THEN "failed" ELSE "queued", None, 0)

NackAttempt(j) ==
    /\ rows' = [rows EXCEPT ![j] = AfterAttempt(rows[j])]
    /\ told' = IF AfterAttempt(rows[j]).state = "failed"
               THEN [told EXCEPT ![j] = "failed"] ELSE told
    /\ UNCHANGED <<calls, value, drawn, accum_pins, preceding>>

\* Mutant: nack does not look at the state of the row.
NackAnyState(j) == NackAttempt(j)

(***************************************************************************)
(* nack: only a row in flight is retried or, at the limit, failed.         *)
(***************************************************************************)
Nack(j) ==
    IF rows[j].state # "inflight" THEN UNCHANGED vars ELSE NackAttempt(j)

SetAccumPin(s, w) ==
    /\ accum_pins' = [accum_pins EXCEPT ![s] = [owner |-> w, left |-> PinTTL]]
    /\ UNCHANGED <<calls, value, drawn, rows, preceding, told>>

ClearAccumPin(s) ==
    /\ accum_pins' = [accum_pins EXCEPT ![s] = None]
    /\ UNCHANGED <<calls, value, drawn, rows, preceding, told>>

(* One unit of time passes. *)
Elapse(n) == IF n = 0 THEN 0 ELSE n - 1

Tick ==
    /\ rows' = [j \in Jobs |->
         IF rows[j] = None THEN None ELSE [rows[j] EXCEPT !.left = Elapse(@)]]
    /\ accum_pins' = [s \in Sessions |->
         IF accum_pins[s] = None THEN None
         ELSE [accum_pins[s] EXCEPT !.left = Elapse(@)]]
    /\ UNCHANGED <<calls, value, drawn, preceding, told>>

(* wait_for_result's poll: the status it reports for job j, None = not yet. *)
WaitForResult(j) ==
    IF j \in InState("completed") THEN "completed"
    ELSE IF j \in InState("failed") THEN "failed" ELSE None

Next ==
    \/ \E g \in Gateways : \E spec \in JobSpecs : NextSeq(g, spec)
    \/ \E g \in Gateways : InsertRow(g)
    \/ \E g \in Gateways : EnqueueDies(g)
    \/ \E w \in Workers : \E r \in Stored \cup {None} : Dequeue(w, r)
    \/ \E j \in Stored : \E status \in Answers : Ack(j, status)
    \/ \E j \in Stored : Nack(j)
    \/ \E s \in Sessions : \E w \in Workers : SetAccumPin(s, w)
    \/ \E s \in Sessions : ClearAccumPin(s)
    \/ Tick

Spec == Init /\ [][Next]_vars

-----------------------------------------------------------------------------
(***************************************************************************)
(* Type correctness, with what the columns say together: a row in flight   *)
(* names its worker and only such a row has one.                           *)
(***************************************************************************)
TypeOK ==
    /\ calls \in Seq(QueuedJob)
    /\ Len(calls) <= MaxJobs
    /\ value \in Nat
    /\ drawn \in [Gateways -> Draw \cup {None}]
    /\ rows \in [Jobs -> Row \cup {None}]
    /\ accum_pins \in [Sessions -> Pin \cup {None}]
    /\ preceding \in [Jobs -> SUBSET Jobs]
    /\ told \in [Jobs -> Answers \cup {None}]
    /\ \A j \in Jobs : rows[j] # None =>
          j \in Called /\ (rows[j].worker_id # None <=> rows[j].state = "inflight")

(***************************************************************************)
(* Single in flight per session (sqlite.py:7-8), across processes.         *)
(***************************************************************************)
OneInFlightPerSession ==
    \A j, k \in InState("inflight") : Session(j) = Session(k) => j = k

(***************************************************************************)
(* No two enqueues, in whatever processes and with whatever crashes in     *)
(* between, share a sequence number: dequeue joins a session's head on it. *)
(***************************************************************************)
DistinctSeqs ==
    /\ \A j, k \in Stored : rows[j].seq = rows[k].seq => j = k
    /\ \A g \in Gateways : \A j \in Stored :
          drawn[g] # None => rows[j].seq # drawn[g].seq

(***************************************************************************)
(* Per-session FIFO (sqlite.py:7) for several enqueuing processes: a job   *)
(* runs only when every job of its session that was in the table before    *)
(* its own enqueue began has been answered, across retries and lapses.     *)
(***************************************************************************)
RunsAfterPredecessors ==
    \A j \in InState("inflight") : \A k \in preceding[j] :
        Session(k) = Session(j) => WaitForResult(k) # None

(***************************************************************************)
(* A job within its budget is neither failed nor over it: what can still   *)
(* run has attempts left.                                                  *)
(***************************************************************************)
RetryBudget ==
    \A j \in InState("queued") \cup InState("inflight") :
        rows[j].attempts < MaxAttempts

(***************************************************************************)
(* An answered job never runs again: no late nack and no lapse takes an    *)
(* answer a client may have read back out of the table.                    *)
(***************************************************************************)
AnswersStay ==
    [][\A j \in Jobs : WaitForResult(j) # None => WaitForResult(j)' # None]_vars

(***************************************************************************)
(* The status wait_for_result reports is the one last reported for the job *)
(* (JobResult.status, protocols.py; "Same invariants as InMemoryJobQueue").*)
(***************************************************************************)
ReportsAckedStatus ==
    \A j \in Stored : WaitForResult(j) # None => WaitForResult(j) = told[j]

(***************************************************************************)
(* The job a worker is handed is the job that was submitted, with the      *)
(* context parallelism it needs (model_registry.py:22).                    *)
(***************************************************************************)
HandedOutAsSubmitted ==
    \A j \in InState("inflight") : RowToJob(j) = calls[j]
=============================================================================
