----------------------------- MODULE WorkerPool -----------------------------
(***************************************************************************)
(* Workers running the loop of hatchery/core/worker.py (run, _process_one, *)
(* _ack_completed_job, _nack_failed_job, _update_accum_pin) against one    *)
(* JobQueue.  Executing a handler takes any amount of time, so a worker    *)
(* may outlive the visibility timeout of its own job and report late; a    *)
(* worker may also die at any point.                                       *)
(***************************************************************************)
EXTENDS JobQueue

CONSTANTS
    CpDegree,     \* worker -> parallel.cp_degree
    MaxCrashes,   \* bound: workers that die
    MaxSlow,      \* bound: executions that outlive the visibility timeout
    MaxRaises     \* bound: times the bookkeeping after an ack raises

ASSUME PoolAssumption ==
    /\ IsFiniteSet(Workers)
    /\ CpDegree \in [Workers -> Nat]
    /\ MaxCrashes \in Nat
    /\ MaxSlow \in Nat
    /\ MaxRaises \in Nat

VARIABLES
    up,        \* workers alive
    holding,   \* worker -> the job it is processing, or None
    stage,     \* worker -> where in _process_one it is
    lease,     \* worker -> time left of the visibility timeout it was granted
    slow,      \* executions that outlived their timeout so far
    raises,    \* times the bookkeeping after an ack raised so far
    accepted,  \* history: jobs that got past a worker's cp_degree check
    lapsed     \* history: sessions of which a job was released by timeout

poolVars == <<up, holding, stage, lease, slow, raises, accepted, lapsed>>
vars == <<queueVars, poolVars>>

Stages == {"idle", "fetched", "running", "pinned", "acked"}

PoolInit ==
    /\ Init
    /\ up = Workers
    /\ holding = [w \in Workers |-> None]
    /\ stage = [w \in Workers |-> "idle"]
    /\ lease = [w \in Workers |-> 0]
    /\ slow = 0
    /\ raises = 0
    /\ accepted = {}
    /\ lapsed = {}

Goto(w, st) ==
    /\ w \in up
    /\ stage' = [stage EXCEPT ![w] = st]

(* The worker is done with its job, whatever became of it. *)
Finish(w) ==
    /\ Goto(w, "idle")
    /\ holding' = [holding EXCEPT ![w] = None]
    /\ lease' = [lease EXCEPT ![w] = 0]
    /\ UNCHANGED <<up, slow, accepted, lapsed>>

At(w, st) == w \in up /\ stage[w] = st

-----------------------------------------------------------------------------
Submit(spec) == Enqueue(spec) /\ UNCHANGED poolVars

(***************************************************************************)
(* One poll of the run loop.  A None answer leaves the worker idle.        *)
(***************************************************************************)
Poll(w, r) ==
    /\ At(w, "idle")
    /\ Dequeue(w, r)
    /\ lapsed' = lapsed \cup {Session(j) : j \in Expired}
    /\ IF r = None
       THEN UNCHANGED <<stage, holding, lease>>
       ELSE /\ Goto(w, "fetched")
            /\ holding' = [holding EXCEPT ![w] = r]
            /\ lease' = [lease EXCEPT ![w] = VisibilityTimeout]
    /\ UNCHANGED <<up, slow, raises, accepted>>

(***************************************************************************)
(* run's cp_degree check: a job that needs more context parallelism than   *)
(* the worker has is nacked at once, otherwise its handler starts.         *)
(***************************************************************************)
FitsCp(w) == submitted[holding[w]].required_cp_degree <= CpDegree[w]

RejectCp(w) ==
    /\ At(w, "fetched")
    /\ ~ FitsCp(w)
    /\ Nack(holding[w])
    /\ Finish(w)
    /\ UNCHANGED raises

StartHandler(w) ==
    /\ At(w, "fetched")
    /\ FitsCp(w)
    /\ Goto(w, "running")
    /\ accepted' = accepted \cup {holding[w]}
    /\ UNCHANGED <<queueVars, up, holding, lease, slow, raises, lapsed>>

(***************************************************************************)
(* The handler returned: _update_accum_pin pins the session to this worker *)
(* after an operation that leaves gradients on its disk, and unpins it     *)
(* after optim_step, before the ack.                                       *)
(***************************************************************************)
UpdateAccumPin(w) ==
    LET job == submitted[holding[w]] IN
    CASE job.operation = "forward_backward" -> SetAccumPin(job.session, w)
      [] job.operation = "optim_step" -> ClearAccumPin(job.session)
      [] OTHER -> UNCHANGED queueVars

HandlerReturns(w) ==
    /\ At(w, "running")
    /\ Goto(w, "pinned")
    /\ UpdateAccumPin(w)
    /\ UNCHANGED <<up, holding, lease, slow, raises, accepted, lapsed>>

AckCompleted(w) ==
    /\ At(w, "pinned")
    /\ Goto(w, "acked")
    /\ Ack(holding[w], "completed")
    /\ UNCHANGED <<up, holding, lease, slow, raises, accepted, lapsed>>

(* The bookkeeping after the ack (cadence, metadata, registry) ends ... *)
AfterAck(w) ==
    /\ At(w, "acked")
    /\ Finish(w)
    /\ UNCHANGED raises
    /\ UNCHANGED queueVars

(* ... or raises, and _process_one's handler nacks the job it just acked. *)
AfterAckRaises(w) ==
    /\ At(w, "acked")
    /\ raises < MaxRaises
    /\ raises' = raises + 1
    /\ Nack(holding[w])
    /\ Finish(w)

(* A payload that fails verification or names no handler is acked FAILED. *)
AckRefused(w) ==
    /\ At(w, "running")
    /\ Ack(holding[w], "failed")
    /\ Finish(w)
    /\ UNCHANGED raises

(* The handler raised: _nack_failed_job. *)
HandlerRaises(w) ==
    /\ At(w, "running")
    /\ Nack(holding[w])
    /\ Finish(w)
    /\ UNCHANGED raises

(* The process dies; its in-flight job is left to the visibility timeout. *)
Crash(w) ==
    /\ w \in up
    /\ Cardinality(Workers \ up) < MaxCrashes
    /\ up' = up \ {w}
    /\ holding' = [holding EXCEPT ![w] = None]
    /\ stage' = [stage EXCEPT ![w] = "idle"]
    /\ lease' = [lease EXCEPT ![w] = 0]
    /\ UNCHANGED <<queueVars, slow, raises, accepted, lapsed>>

(***************************************************************************)
(* Time passes.  At most MaxSlow executions are still going when their     *)
(* visibility timeout lapses.                                              *)
(***************************************************************************)
Outlived == {w \in Workers : stage[w] # "idle" /\ lease[w] = 1}

TimePasses ==
    /\ Tick
    /\ slow + Cardinality(Outlived) <= MaxSlow
    /\ slow' = slow + Cardinality(Outlived)
    /\ lease' = [w \in Workers |-> Elapse(lease[w])]
    /\ UNCHANGED <<up, holding, stage, raises, accepted, lapsed>>

WorkerStep(w) ==
    \/ RejectCp(w)
    \/ StartHandler(w)
    \/ HandlerReturns(w)
    \/ AckCompleted(w)
    \/ AfterAck(w)
    \/ AfterAckRaises(w)
    \/ AckRefused(w)
    \/ HandlerRaises(w)

PollAny(w) == \E r \in Submitted \cup {None} : Poll(w, r)

PoolNext ==
    \/ \E spec \in JobSpecs : Submit(spec)
    \/ \E w \in Workers : PollAny(w)
    \/ \E w \in Workers : WorkerStep(w)
    \/ \E w \in Workers : Crash(w)
    \/ TimePasses

(***************************************************************************)
(* A live worker keeps polling and finishes what it fetched, and time goes *)
(* on.  Nothing forces clients to submit or workers to die.                *)
(***************************************************************************)
PoolFairness ==
    /\ \A w \in Workers : WF_vars(PollAny(w)) /\ WF_vars(WorkerStep(w))
    /\ WF_vars(TimePasses)

PoolSpec == PoolInit /\ [][PoolNext]_vars
FairPoolSpec == PoolSpec /\ PoolFairness

-----------------------------------------------------------------------------
(***************************************************************************)
(* Type correctness of the pool, with what a stage says of the job held.   *)
(***************************************************************************)
PoolTypeOK ==
    /\ up \subseteq Workers
    /\ holding \in [Workers -> Jobs \cup {None}]
    /\ stage \in [Workers -> Stages]
    /\ lease \in [Workers -> 0 .. VisibilityTimeout]
    /\ slow \in 0 .. MaxSlow
    /\ raises \in 0 .. MaxRaises
    /\ accepted \subseteq Jobs
    /\ lapsed \subseteq Sessions
    /\ \A w \in Workers : stage[w] # "idle" <=> holding[w] # None
    /\ \A w \in Workers : holding[w] # None => holding[w] \in Submitted /\ w \in up

(* Worker w works on a job of session s: fetched and not yet acked. *)
Holds(w, s) ==
    /\ stage[w] \notin {"idle", "acked"}
    /\ Session(holding[w]) = s

(***************************************************************************)
(* The reason _ack_completed_job updates the pin before it acks            *)
(* (worker.py:694): while the session is pinned to the worker that has its *)
(* gradients on disk, no other worker processes a job of the session.      *)
(* Sessions that ever lost a job to the visibility timeout are excluded:   *)
(* there the late worker moves the pin under the feet of the new one.      *)
(***************************************************************************)
PinKeepsPeersOut ==
    \A s \in Sessions \ lapsed : \A w \in Workers :
        (accum_pins[s] # None /\ accum_pins[s].left > 0 /\ Holds(w, s))
            => accum_pins[s].owner = w

(***************************************************************************)
(* Unless a visibility timeout lapsed, operations on one session are       *)
(* strictly serialized (memory.py:19): no two workers process jobs of the  *)
(* same session, from the fetch to the ack.                                *)
(***************************************************************************)
SerializedUnlessLapsed ==
    \A s \in Sessions \ lapsed : \A v, w \in Workers :
        Holds(v, s) /\ Holds(w, s) => v = w

(***************************************************************************)
(* Every accepted job is eventually answered, although workers die holding *)
(* jobs and pins and some executions outlive their timeout (protocols.py:  *)
(* pins auto-expire "so a dead owner doesn't permanently block the         *)
(* session").                                                              *)
(***************************************************************************)
EveryJobAnswered ==
    \A j \in Jobs : j \in Submitted ~> (j \in Submitted /\ results[j] # None)

(***************************************************************************)
(* memory.py:17 "At most one job per session is held by any worker at a    *)
(* time": taken for workers that are inside the visibility timeout they    *)
(* were granted, so that the queue has no licence to hand the session on.  *)
(***************************************************************************)
OneLiveHolderPerSession ==
    \A s \in Sessions : \A v, w \in Workers :
        /\ Holds(v, s) /\ lease[v] > 0
        /\ Holds(w, s) /\ lease[w] > 0
        => v = w

(***************************************************************************)
(* model_registry.py:22 "Jobs with required_cp_degree > 1 are nacked by    *)
(* standard workers and picked up by CP-enabled ones": with a CP-enabled   *)
(* worker alive, a job does not fail before one of them accepted it.       *)
(***************************************************************************)
PickedUpByCapableWorker ==
    \A j \in Submitted :
        /\ results[j] = "failed"
        /\ \E w \in up : submitted[j].required_cp_degree <= CpDegree[w]
        => j \in accepted
=============================================================================
