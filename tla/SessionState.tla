---------------------------- MODULE SessionState ----------------------------
(***************************************************************************)
(* The training state of a session on its way through a worker:            *)
(* hatchery/core/worker.py (the LoRA cache and base-model slot, the load,  *)
(* save, evict and checkpoint paths, the training handlers) with the       *)
(* local-only store of session_store.py, in which mark_dirty and flush do  *)
(* nothing: the object store gets a session's blobs from save_weights      *)
(* only.                                                                   *)
(*                                                                         *)
(* The queue hands out one job of a session at a time (JobQueue); a worker *)
(* runs one job at a time (_model_lock).  A handler's work in memory is    *)
(* one step, then each blob it writes is a step of its own: the worker may *)
(* die, or a write may fail, between any two of them.                      *)
(*                                                                         *)
(* A batch is one forward_backward's data.  Weights are the sequence of    *)
(* updates applied to the base model, an update the sequence of batches    *)
(* whose gradients it applied, and the points in that sequence where the   *)
(* weights went through a blob: blobs hold bf16 (lora_state.py:95), which  *)
(* rounds the fp32 weights of a LoRA adapter.  Gradients and optimizer     *)
(* state are stored as they are.                                           *)
(***************************************************************************)
EXTENDS Naturals, FiniteSets, SequencesExt

CONSTANTS
    Sessions,
    None,
    Setups       \* the services and clients a behaviour may be about

Blobs == {"weights", "grads", "opt", "meta"}
JobKinds == {"init", "fb", "custom1", "custom2", "optim", "sample", "save",
             "load", "restore"}

ASSUME SessionAssumption ==
    \A u \in Setups :
        /\ u.fullParam \subseteq Sessions
        /\ u.slots \in Nat \ {0}
        /\ u.wide \subseteq Sessions
        /\ u.careful \in BOOLEAN
        /\ u.kinds \subseteq JobKinds \ {"init"}
        /\ u.maxJobs \in [Sessions -> Nat]
        /\ u.maxFaults \in Nat

VARIABLES
    setup,    \* the element of Setups this behaviour is about, never changed
    mem,      \* worker -> its memory, see FreshMemory
    local,    \* directory -> session -> the blobs on local disk
    remote,   \* session -> the blobs of its live_state in config.objects
    ckpts,    \* session -> the blobs of its checkpoint, None without one
    op,       \* worker -> the job it runs and the writes left to do, or None
    pending,  \* session -> the job submitted and not yet answered, or None
    jobs,     \* session -> number of jobs submitted that change it
    custom,   \* session -> batch of an answered custom step1, or None
    latest,   \* history: session -> its state after the last answered job
    faults    \* crashes and failed writes so far

vars == <<setup, mem, local, remote, ckpts, op, pending, jobs, custom, latest, faults>>

FullParam == setup.fullParam    \* the sessions created without a LoRA rank
DirOf == setup.dirOf            \* worker -> its HATCHERY_WORKER_LOCAL_DIR
Workers == DOMAIN DirOf
MaxSlots == setup.slots         \* the cache's max_slots
Wide == setup.wide              \* the sessions whose weights are wider than bf16
Kinds == setup.kinds            \* what clients submit besides init_session
Careful == setup.careful        \* do they keep to the rules of CarefulClient?
MaxJobs == setup.maxJobs        \* bound: session -> jobs that change it
MaxFaults == setup.maxFaults    \* bound: crashes and failed writes

FP(s) == s \in FullParam
Dirs == Range(DirOf)

(***************************************************************************)
(* grad_accum is a dictionary: empty, or one tensor per parameter, which   *)
(* may be all zeros.  session_meta.json holds the counters; accum_loss_    *)
(* tokens is counted in batches.                                           *)
(***************************************************************************)
NoGrads == [set |-> FALSE, sum |-> <<>>]
ZeroGrads == [set |-> TRUE, sum |-> <<>>]
Pristine == [steps |-> <<>>, stored |-> {}]

(* The weights as a blob holds them: Bf16SnapshotPersister.save, load. *)
Stored(s, weights) ==
    IF s \in Wide THEN [weights EXCEPT !.stored = @ \cup {Len(weights.steps)}]
    ELSE weights

ZeroMeta == [steps |-> 0, accum |-> 0, tokens |-> 0, pristine |-> FALSE]

FreshRuntime ==
    [grads |-> NoGrads, opt |-> None, meta |-> ZeroMeta, custom |-> {}]

NoBlobs == [weights |-> None, grads |-> None, opt |-> None, meta |-> None]

(***************************************************************************)
(* A worker's memory: rt is the cache (None: not cached), adapter the PEFT *)
(* adapters, stash _fp_base_state, base the live base weights, active the  *)
(* slot's active_session_id, served the cadence history (2: two or more).  *)
(* strayed is history: the base was given to a full-parameter session that *)
(* is not cached, and has not been reset since.                            *)
(***************************************************************************)
FreshMemory ==
    [rt      |-> [s \in Sessions |-> None],
     adapter |-> [s \in Sessions |-> None],
     stash   |-> [s \in Sessions |-> None],
     served  |-> [s \in Sessions |-> 0],
     base    |-> Pristine,
     active  |-> None,
     strayed |-> FALSE]

Init ==
    /\ setup \in Setups
    /\ mem = [w \in Workers |-> FreshMemory]
    /\ local = [d \in Dirs |-> [s \in Sessions |-> NoBlobs]]
    /\ remote = [s \in Sessions |-> NoBlobs]
    /\ ckpts = [s \in Sessions |-> None]
    /\ op = [w \in Workers |-> None]
    /\ pending = [s \in Sessions |-> None]
    /\ jobs = [s \in Sessions |-> 0]
    /\ custom = [s \in Sessions |-> None]
    /\ latest = [s \in Sessions |-> None]
    /\ faults = 0

Cached(m) == {s \in Sessions : m.rt[s] # None}

LiveWeights(m, s) ==
    IF ~ FP(s) THEN m.adapter[s]
    ELSE IF m.active = s THEN m.base ELSE m.stash[s]

StateOf(m, s, r) ==
    [weights |-> LiveWeights(m, s), grads |-> r.grads.sum, opt |-> r.opt]

-----------------------------------------------------------------------------
(***************************************************************************)
(* The cache.  _on_evict drops the session's adapter or stash, and gives   *)
(* the base model back when the session was the active one.                *)
(***************************************************************************)

\* Mutant: the base model keeps the evicted session's weights.
OnEvictKeepsBase(m, s) ==
    [m EXCEPT !.rt[s] = None,
              !.adapter[s] = IF FP(s) THEN @ ELSE None,
              !.stash[s] = IF FP(s) THEN None ELSE @,
              !.active = IF @ = s THEN None ELSE @]

OnEvict(m, s) ==
    [m EXCEPT
       !.rt[s] = None,
       !.adapter[s] = IF FP(s) THEN @ ELSE None,
       !.stash[s] = IF FP(s) THEN None ELSE @,
       !.base = IF FP(s) /\ m.active = s THEN Pristine ELSE @,
       !.strayed = @ /\ ~ (FP(s) /\ m.active = s),
       !.active = IF @ = s THEN None ELSE @]

(***************************************************************************)
(* SmartLoRACache.put evicts the session that scores lowest, the one just  *)
(* put included.  A score is request rate times urgency; a session with    *)
(* fewer than two answered jobs has no rate and scores infinity: it goes   *)
(* only when none has a rate, and then the least recently used one does.   *)
(***************************************************************************)
Victims(m, s) ==
    LET rated == {t \in Cached(m) \cup {s} : m.served[t] = 2}
    IN  IF s \in Cached(m) \/ Cardinality(Cached(m)) < MaxSlots THEN {None}
        ELSE IF rated = {} THEN Cached(m)
        ELSE rated

Put(m, s, r, victim) ==
    LET put == [m EXCEPT !.rt[s] = r]
    IN  IF victim = None THEN put ELSE OnEvict(put, victim)

(***************************************************************************)
(* Attaching: a full-parameter session's weights are staged in the stash,  *)
(* after the live weights of the active one are put back in theirs; a LoRA *)
(* session gets an adapter.                                                *)
(***************************************************************************)
StashActive(m) ==
    IF m.active \in Cached(m) /\ FP(m.active)
    THEN [m EXCEPT !.stash[m.active] = m.base]
    ELSE m

Attach(m, s, weights) ==
    IF FP(s)
    THEN [StashActive(m) EXCEPT !.stash[s] = weights]
    ELSE [m EXCEPT !.adapter[s] = weights]

(***************************************************************************)
(* _activate_session.  A LoRA session needs its adapter in the PEFT model. *)
(***************************************************************************)
\* Mutant: the stashed weights are not put back in the base model.
ActivateWithoutStash(m, s) ==
    IF m.active = s THEN m
    ELSE [StashActive(m) EXCEPT !.base = Pristine, !.active = s]

Activate(m, s) ==
    IF m.active = s THEN m
    ELSE LET leavingFP == m.active \in Cached(m) /\ FP(m.active)
             out == StashActive(m)
         IN  [out EXCEPT
                !.base = CASE FP(s) /\ out.stash[s] # None -> out.stash[s]
                           [] FP(s) /\ out.stash[s] = None -> Pristine
                           [] ~ FP(s) /\ leavingFP -> Pristine
                           [] OTHER -> @,
                !.strayed = IF FP(s) THEN s \notin Cached(m)
                            ELSE @ /\ ~ leavingFP,
                !.active = s]

HasModule(m, s) == FP(s) \/ m.adapter[s] # None

(***************************************************************************)
(* _is_cache_stale compares the cached counters with the object store's,   *)
(* _load_session_from_store then reads the local blobs if there are any.   *)
(***************************************************************************)
Stale(m, s) ==
    /\ m.rt[s] # None
    /\ remote[s].meta # None
    /\ LET theirs == remote[s].meta
           ours == m.rt[s].meta
       IN  \/ theirs.steps > ours.steps
           \/ theirs.steps = ours.steps /\ theirs.accum > ours.accum

Source(w, s) ==
    IF local[DirOf[w]][s].meta # None THEN local[DirOf[w]][s] ELSE remote[s]

Loadable(blobs, s) ==
    /\ blobs.meta # None
    /\ FP(s) \/ blobs.weights # None

LoadedWeights(blobs, s) ==
    IF FP(s) /\ (blobs.meta.pristine \/ blobs.weights = None)
    THEN Pristine
    ELSE blobs.weights

LoadedRuntime(blobs) ==
    [grads |-> IF blobs.grads = None THEN NoGrads ELSE blobs.grads,
     opt |-> blobs.opt, meta |-> blobs.meta, custom |-> {}]

(* The memory _ensure_session_loaded loads into: without a stale entry. *)
BeforeLoad(w, s) == IF Stale(mem[w], s) THEN OnEvict(mem[w], s) ELSE mem[w]

(***************************************************************************)
(* _ensure_session_loaded: the memories it may leave and the runtime it    *)
(* returns, none if it raises.                                             *)
(***************************************************************************)
Loads(w, s) ==
    LET m == BeforeLoad(w, s)
        blobs == Source(w, s)
        r == LoadedRuntime(blobs)
    IN  IF m.rt[s] # None THEN {[mem |-> m, rt |-> m.rt[s]]}
        ELSE IF ~ Loadable(blobs, s) THEN {}
        ELSE {[mem |-> Put(Attach(m, s, LoadedWeights(blobs, s)), s, r, victim),
               rt |-> r] : victim \in Victims(m, s)}

-----------------------------------------------------------------------------
(***************************************************************************)
(* A job's life.  The client submits the next job of a session when the    *)
(* last one was answered; init_session comes first and once.               *)
(***************************************************************************)
Submit(s, kind, batch) ==
    /\ pending[s] = None
    /\ pending' = [pending EXCEPT ![s] = [kind |-> kind, batch |-> batch]]
    /\ UNCHANGED <<mem, local, remote, ckpts, op, latest, faults>>

(***************************************************************************)
(* A careful client takes one checkpoint, after a first optim_step, and    *)
(* saves and loads between accumulation cycles only.                       *)
(***************************************************************************)
CarefulClient(s, kind) ==
    /\ kind = "save" => ckpts[s] = None /\ latest[s].opt # None
    /\ kind \in {"save", "load", "restore"} => latest[s].grads = <<>>

SubmitInit(s) ==
    /\ latest[s] = None /\ jobs[s] = 0
    /\ Submit(s, "init", None)
    /\ jobs' = [jobs EXCEPT ![s] = 1]
    /\ UNCHANGED custom

SubmitJob(s, kind) ==
    LET n == jobs[s] + 1 IN
    /\ latest[s] # None
    /\ kind \in Kinds \ {"sample"}
    /\ n <= MaxJobs[s]
    /\ kind = "custom2" => custom[s] # None
    /\ kind \in {"load", "restore"} => ckpts[s] # None
    /\ Careful => CarefulClient(s, kind)
    /\ Submit(s, kind, IF kind = "custom2" THEN custom[s] ELSE <<s, n>>)
    /\ jobs' = [jobs EXCEPT ![s] = n]
    /\ custom' = [custom EXCEPT ![s] = IF kind = "custom2" THEN None ELSE @]

SubmitSample(s) ==
    /\ latest[s] # None
    /\ "sample" \in Kinds
    /\ Submit(s, "sample", None)
    /\ UNCHANGED <<jobs, custom>>

(* A worker fetched a job of this kind: no other worker has one of s. *)
Fetched(w, s, kind) ==
    /\ op[w] = None
    /\ pending[s] # None
    /\ pending[s].kind = kind
    /\ \A v \in Workers : op[v] # None => op[v].session # s

(***************************************************************************)
(* The handler raises: the queue retries the job or gives it up.           *)
(***************************************************************************)
Raise(w, s, m) ==
    /\ mem' = [mem EXCEPT ![w] = m]
    /\ pending' \in {pending, [pending EXCEPT ![s] = None]}
    /\ UNCHANGED <<local, remote, ckpts, op, jobs, custom, latest, faults>>

(* _save_session_to_store's capture: the live weights refresh the stash. *)
Captured(m, s) ==
    IF FP(s) /\ m.active = s THEN [m EXCEPT !.stash[s] = m.base] ELSE m

(***************************************************************************)
(* What _save_session_to_store will write.  An empty grad_accum dictionary *)
(* and a missing optimizer state are not written; between accumulation     *)
(* cycles the gradients are written as an empty dictionary.                *)
(***************************************************************************)
GradsToSave(r) == IF r.meta.accum = 0 THEN NoGrads ELSE r.grads

\* Mutant: gradients are only saved between accumulation cycles.
ImageWithoutGrads(m, s, r) ==
    [weights |-> Stored(s, LiveWeights(m, s)),
     grads |-> IF r.grads.set /\ r.meta.accum = 0 THEN NoGrads ELSE None,
     opt |-> r.opt,
     meta |-> r.meta]

Image(m, s, r) ==
    [weights |-> Stored(s, LiveWeights(m, s)),
     grads |-> IF r.grads.set THEN GradsToSave(r) ELSE None,
     opt |-> r.opt,
     meta |-> r.meta]

Writes(image) == {b \in Blobs : image[b] # None}

Runs(w, s, before, m, r, image, left, publish) ==
    /\ mem' = [mem EXCEPT ![w] = m]
    /\ op' = [op EXCEPT ![w] =
                [session |-> s, before |-> before, after |-> StateOf(m, s, r),
                 image |-> image, left |-> left, publish |-> publish]]
    /\ UNCHANGED <<local, remote, ckpts, pending, jobs, custom, latest, faults>>

KeepRuntime(m, s, r) ==
    IF m.rt[s] = None THEN m ELSE [m EXCEPT !.rt[s] = r]

(* The handler leaves memory m with runtime r and saves the session. *)
Saves(w, s, before, m, r, publish) ==
    LET kept == Captured(KeepRuntime(m, s, r), s)
        image == Image(kept, s, r)
    IN  Runs(w, s, before, kept, r, image, Writes(image), publish)

Reads(w, s, before, m, r) ==
    Runs(w, s, before, KeepRuntime(m, s, r), r, NoBlobs, {}, FALSE)

(***************************************************************************)
(* _handle_init_session.  _enforce_fft_capacity first evicts full-param    *)
(* sessions that took no optim_step, up to one that did, which makes it    *)
(* raise.  A LoRA session's state is saved, a full-param one leaves only   *)
(* the marker "pristine".  A session without an answered job has no        *)
(* request rate: the cache never evicts it for itself.                     *)
(***************************************************************************)
LiveFP(m) == {t \in Sessions : m.stash[t] # None}

Idle(m, t) == m.rt[t] = None \/ m.rt[t].meta.steps = 0

EvictAll(m, Z) ==
    LET cached == Z \cap Cached(m) IN
    [m EXCEPT
       !.rt = [t \in Sessions |-> IF t \in Z THEN None ELSE @[t]],
       !.stash = [t \in Sessions |-> IF t \in Z THEN None ELSE @[t]],
       !.base = IF m.active \in cached THEN Pristine ELSE @,
       !.strayed = @ /\ m.active \notin cached,
       !.active = IF @ \in cached THEN None ELSE @]

Initialized(m, s, victim) ==
    LET weights == IF FP(s) THEN m.stash[s] ELSE m.adapter[s] IN
    Put(Attach(m, s, IF weights = None THEN Pristine ELSE weights),
        s, FreshRuntime, victim)

InitSession(w, s) ==
    LET others == LiveFP(mem[w]) \ {s}
        zombies == {t \in others : Idle(mem[w], t)}
        gate == FP(s)
        m == IF gate THEN EvictAll(mem[w], zombies) ELSE mem[w]
        marker == [NoBlobs EXCEPT
                     !.meta = [ZeroMeta EXCEPT !.pristine = TRUE]]
    IN  /\ Fetched(w, s, "init")
        /\ IF gate /\ zombies # others
           THEN \E Z \in SUBSET zombies : Raise(w, s, EvictAll(mem[w], Z))
           ELSE \E victim \in Victims(m, s) \ {s} :
                  LET m1 == Initialized(m, s, victim) IN
                  IF FP(s)
                  THEN Runs(w, s, None, m1, FreshRuntime, marker, {"meta"}, FALSE)
                  ELSE Saves(w, s, None, m1, FreshRuntime, FALSE)

(***************************************************************************)
(* Every other handler but save_weights begins with _ensure_session_loaded *)
(* and, except load_weights, _activate_session.                            *)
(***************************************************************************)
LoadFails(w, s) ==
    /\ pending[s] # None
    /\ pending[s].kind \notin {"init", "save"}
    /\ Fetched(w, s, pending[s].kind)
    /\ Loads(w, s) = {}
    /\ Raise(w, s, BeforeLoad(w, s))

\* Mutant: the batch's gradients replace the accumulated ones.
AccumulatedAnew(r, batch, tokens) ==
    [r EXCEPT !.grads = [set |-> TRUE, sum |-> <<batch>>],
              !.meta.accum = @ + 1,
              !.meta.tokens = @ + tokens]

Accumulated(r, batch, tokens) ==
    [r EXCEPT !.grads = [set |-> TRUE, sum |-> Append(@.sum, batch)],
              !.meta.accum = @ + 1,
              !.meta.tokens = @ + tokens]

ForwardBackward(w, s) ==
    /\ Fetched(w, s, "fb")
    /\ \E l \in Loads(w, s) :
         LET m == Activate(l.mem, s)
             r == Accumulated(l.rt, pending[s].batch, 1)
         IN  IF HasModule(m, s)
             THEN Saves(w, s, StateOf(m, s, l.rt), m, r, FALSE)
             ELSE Raise(w, s, m)

(* forward_custom_step1 keeps the batch in the runtime only. *)
CustomStep1(w, s) ==
    /\ Fetched(w, s, "custom1")
    /\ \E l \in Loads(w, s) :
         LET m == Activate(l.mem, s)
             r == [l.rt EXCEPT !.custom = @ \cup {pending[s].batch}]
         IN  IF HasModule(m, s)
             THEN Reads(w, s, StateOf(m, s, l.rt), m, r)
             ELSE Raise(w, s, m)

CustomStep2(w, s) ==
    /\ Fetched(w, s, "custom2")
    /\ \E l \in Loads(w, s) :
         LET m == Activate(l.mem, s)
             batch == pending[s].batch
             r == [Accumulated(l.rt, batch, 0) EXCEPT !.custom = @ \ {batch}]
         IN  IF HasModule(m, s) /\ batch \in l.rt.custom
             THEN Saves(w, s, StateOf(m, s, l.rt), m, r, FALSE)
             ELSE Raise(w, s, m)

(* forward_only, sample, compute_logprobs, forward_logprobs. *)
Sample(w, s) ==
    /\ Fetched(w, s, "sample")
    /\ \E l \in Loads(w, s) :
         LET m == Activate(l.mem, s) IN
         IF HasModule(m, s)
         THEN Reads(w, s, StateOf(m, s, l.rt), m, l.rt)
         ELSE Raise(w, s, m)

(***************************************************************************)
(* _handle_optim_step applies what grad_accum holds, zeros included, and   *)
(* refuses an empty dictionary.                                            *)
(***************************************************************************)
\* Mutant: the applied gradients stay accumulated.
SteppedKeepsGrads(r) ==
    [r EXCEPT !.opt = Append(IF @ = None THEN <<>> ELSE @, r.grads.sum),
              !.meta.steps = @ + 1]

Stepped(r) ==
    [r EXCEPT !.grads = ZeroGrads,
              !.opt = Append(IF @ = None THEN <<>> ELSE @, r.grads.sum),
              !.meta.steps = @ + 1, !.meta.accum = 0, !.meta.tokens = 0]

Updated(m, s, update) ==
    IF FP(s) THEN [m EXCEPT !.base.steps = Append(@, update)]
    ELSE [m EXCEPT !.adapter[s].steps = Append(@, update)]

OptimStep(w, s) ==
    /\ Fetched(w, s, "optim")
    /\ \E l \in Loads(w, s) :
         LET m == Activate(l.mem, s) IN
         IF HasModule(m, s) /\ l.rt.grads.set
         THEN Saves(w, s, StateOf(m, s, l.rt), Updated(m, s, l.rt.grads.sum),
                    Stepped(l.rt), FALSE)
         ELSE Raise(w, s, m)

(* save_weights needs the session in the cache and never loads it. *)
SaveWeights(w, s) ==
    LET r == mem[w].rt[s] IN
    /\ Fetched(w, s, "save")
    /\ IF r = None THEN Raise(w, s, mem[w])
       ELSE Saves(w, s, StateOf(mem[w], s, r), mem[w], r, TRUE)

(***************************************************************************)
(* _handle_load_weights: the checkpoint's weights replace the session's,   *)
(* with restore_optimizer its optimizer state and gradients too; without   *)
(* it grad_accum is cleared.  The counters stay.                           *)
(***************************************************************************)
Replaced(m, s, weights) ==
    IF FP(s)
    THEN [m EXCEPT !.stash[s] = weights,
                   !.base = IF m.active = s THEN weights ELSE @]
    ELSE [m EXCEPT !.adapter[s] = weights]

Restored(r, ckpt) ==
    [r EXCEPT !.opt = ckpt.opt,
              !.grads = IF ckpt.grads = None THEN NoGrads ELSE ckpt.grads]

LoadWeights(w, s, kind) ==
    /\ kind \in {"load", "restore"}
    /\ Fetched(w, s, kind)
    /\ \E l \in Loads(w, s) :
         LET r == IF kind = "restore" THEN Restored(l.rt, ckpts[s])
                  ELSE [l.rt EXCEPT !.grads = NoGrads]
         IN  IF HasModule(l.mem, s)
             THEN Saves(w, s, StateOf(l.mem, s, l.rt),
                        Replaced(l.mem, s, ckpts[s].weights), r, FALSE)
             ELSE Raise(w, s, l.mem)

(***************************************************************************)
(* The writes of _save_session_to_store: the blobs in any order, the meta  *)
(* last.                                                                   *)
(***************************************************************************)
Write(w, b) ==
    LET s == op[w].session IN
    /\ op[w] # None
    /\ b \in op[w].left
    /\ b = "meta" => op[w].left = {"meta"}
    /\ local' = [local EXCEPT ![DirOf[w]][s][b] = op[w].image[b]]
    /\ op' = [op EXCEPT ![w].left = @ \ {b}]
    /\ UNCHANGED <<mem, remote, ckpts, pending, jobs, custom, latest, faults>>

(***************************************************************************)
(* The rest of save_weights: the local blobs the object store does not     *)
(* have are copied there, then from there to the checkpoint, each in an    *)
(* await of its own.  No other job of the session runs meanwhile, so only  *)
(* a fault shows how far the copying came.                                 *)
(***************************************************************************)
CopiedToRemote(w, s, copied) ==
    [b \in Blobs |-> IF b \in copied /\ remote[s][b] = None
                     THEN local[DirOf[w]][s][b]
                     ELSE remote[s][b]]

Materialized(blobs, old, taken) ==
    [b \in Blobs |-> IF b \in taken /\ blobs[b] # None THEN blobs[b]
                     ELSE IF old # None THEN old[b]
                     ELSE None]

Copying(w, copied, taken) ==
    LET s == op[w].session IN
    /\ op[w] # None
    /\ op[w].publish
    /\ op[w].left = {}
    /\ remote' = [remote EXCEPT ![s] = CopiedToRemote(w, s, copied)]
    /\ ckpts' = [ckpts EXCEPT
         ![s] = IF taken = {} THEN @
                ELSE Materialized(CopiedToRemote(w, s, copied), @, taken)]
    /\ UNCHANGED <<local, pending, jobs, custom, latest>>

Publish(w) ==
    /\ Copying(w, Blobs, Blobs)
    /\ op' = [op EXCEPT ![w].publish = FALSE]
    /\ UNCHANGED <<mem, faults>>

(* The job is acked and the cadence recorded. *)
Finish(w) ==
    LET s == op[w].session IN
    /\ op[w] # None
    /\ op[w].left = {} /\ ~ op[w].publish
    /\ op' = [op EXCEPT ![w] = None]
    /\ pending' = [pending EXCEPT ![s] = None]
    /\ custom' = [custom EXCEPT ![s] =
                    IF pending[s].kind = "custom1" THEN pending[s].batch ELSE @]
    /\ latest' = [latest EXCEPT ![s] = op[w].after]
    /\ mem' = [mem EXCEPT ![w].served[s] = IF @ = 2 THEN 2 ELSE @ + 1]
    /\ UNCHANGED <<local, remote, ckpts, jobs, faults>>

(***************************************************************************)
(* Faults: the worker's process dies and starts again on the same local    *)
(* directory, or a write raises.  The job stays with the queue.            *)
(***************************************************************************)
Fault == faults < MaxFaults /\ faults' = faults + 1

Restart(w) ==
    /\ Fault
    /\ mem' = [mem EXCEPT ![w] = FreshMemory]
    /\ op' = [op EXCEPT ![w] = None]
    /\ UNCHANGED <<local, remote, ckpts, pending, jobs, custom, latest>>

WriteFails(w) ==
    /\ op[w] # None
    /\ op[w].left # {} \/ op[w].publish
    /\ Fault
    /\ op' = [op EXCEPT ![w] = None]
    /\ UNCHANGED <<mem, local, remote, ckpts, pending, jobs, custom, latest>>

(***************************************************************************)
(* The copying of save_weights in progress: cut short by the process's     *)
(* death or a write that raises, or continued past a write of an extra     *)
(* blob of the checkpoint that raises, which is swallowed                  *)
(* (worker.py:2466-2471).                                                  *)
(***************************************************************************)
FirstBlobs(n) ==
    {b \in Blobs : \E i \in 1 .. n : b = <<"weights", "opt", "grads", "meta">>[i]}

PublishCut(w) ==
    /\ Fault
    /\ \E n, k \in 0 .. 4 :
          /\ k > 0 => n = 4
          /\ Copying(w, FirstBlobs(n), FirstBlobs(k))
    /\ op' = [op EXCEPT ![w] = None]
    /\ mem' \in {mem, [mem EXCEPT ![w] = FreshMemory]}

ExtraLost(w) ==
    /\ Fault
    /\ \E b \in Blobs \ {"weights"} : Copying(w, Blobs, Blobs \ {b})
    /\ op' = [op EXCEPT ![w].publish = FALSE]
    /\ UNCHANGED mem

ClientStep(s) ==
    \/ SubmitInit(s)
    \/ \E kind \in JobKinds : SubmitJob(s, kind)
    \/ SubmitSample(s)

HandlerStep(w, s) ==
    \/ InitSession(w, s)
    \/ LoadFails(w, s)
    \/ ForwardBackward(w, s)
    \/ CustomStep1(w, s)
    \/ CustomStep2(w, s)
    \/ Sample(w, s)
    \/ OptimStep(w, s)
    \/ SaveWeights(w, s)
    \/ \E kind \in {"load", "restore"} : LoadWeights(w, s, kind)

Step ==
    \/ \E s \in Sessions : ClientStep(s)
    \/ \E w \in Workers, s \in Sessions : HandlerStep(w, s)
    \/ \E w \in Workers, b \in Blobs : Write(w, b)
    \/ \E w \in Workers : Publish(w) \/ Finish(w)
    \/ \E w \in Workers : Restart(w) \/ WriteFails(w) \/ PublishCut(w) \/ ExtraLost(w)

Next == Step /\ UNCHANGED setup

Spec == Init /\ [][Next]_vars

-----------------------------------------------------------------------------
Batch == Sessions \X Nat
Update == Seq(Batch)
Weights == [steps : Seq(Update), stored : SUBSET Nat]
Optimizer == Seq(Update) \cup {None}
Grads == [set : BOOLEAN, sum : Update]
Meta == [steps : Nat, accum : Nat, tokens : Nat, pristine : BOOLEAN]
Runtime == [grads : Grads, opt : Optimizer, meta : Meta, custom : SUBSET Batch]
BlobSet == [weights : Weights \cup {None}, grads : Grads \cup {None},
            opt : Optimizer, meta : Meta \cup {None}]
State == [weights : Weights, grads : Update, opt : Optimizer]
StateBefore == [weights : Weights \cup {None}, grads : Update, opt : Optimizer]
Memory ==
    [rt : [Sessions -> Runtime \cup {None}],
     adapter : [Sessions -> Weights \cup {None}],
     stash : [Sessions -> Weights \cup {None}],
     served : [Sessions -> 0 .. 2],
     base : Weights,
     active : Sessions \cup {None},
     strayed : BOOLEAN]
Job == [kind : JobKinds, batch : Batch \cup {None}]
Operation ==
    [session : Sessions, before : StateBefore \cup {None}, after : State,
     image : BlobSet, left : SUBSET Blobs, publish : BOOLEAN]

ASSUME NoneAssumption ==
    /\ None \notin Sessions /\ None \notin Weights /\ None \notin Seq(Update)
    /\ None \notin Grads /\ None \notin Runtime /\ None \notin Meta
    /\ None \notin BlobSet /\ None \notin StateBefore
    /\ None \notin Operation /\ None \notin Job

(***************************************************************************)
(* Type correctness: a cached session has its adapter or its stash, and    *)
(* two workers never run jobs of one session.                              *)
(***************************************************************************)
TypeOK ==
    /\ setup \in Setups
    /\ mem \in [Workers -> Memory]
    /\ local \in [Dirs -> [Sessions -> BlobSet]]
    /\ remote \in [Sessions -> BlobSet]
    /\ ckpts \in [Sessions -> BlobSet \cup {None}]
    /\ op \in [Workers -> Operation \cup {None}]
    /\ pending \in [Sessions -> Job \cup {None}]
    /\ jobs \in [Sessions -> Nat]
    /\ custom \in [Sessions -> Batch \cup {None}]
    /\ latest \in [Sessions -> State \cup {None}]
    /\ faults \in 0 .. MaxFaults
    /\ \A w \in Workers : \A s \in Cached(mem[w]) :
          IF FP(s) THEN mem[w].stash[s] # None ELSE mem[w].adapter[s] # None
    /\ \A w \in Workers : op[w] # None => pending[op[w].session] # None

(***************************************************************************)
(* No session ever trains on, or saves, another one's data, although all   *)
(* share one base model whose weights full-parameter sessions change in    *)
(* place (worker.py:926-1003): the live weights, stashes, adapters,        *)
(* gradients, blobs and checkpoints of a session hold batches of its own,  *)
(* and a LoRA session is only ever active over the pristine base, unless   *)
(* the base was given to a full-parameter session that the cache had       *)
(* already evicted.                                                        *)
(***************************************************************************)
OwnUpdates(s, updates) ==
    \A i \in DOMAIN updates : \A k \in DOMAIN updates[i] : updates[i][k][1] = s

Own(s, weights) == weights = None \/ OwnUpdates(s, weights.steps)

OwnOpt(s, opt) == opt = None \/ OwnUpdates(s, opt)

OwnGrads(s, grads) ==
    grads = None \/ \A k \in DOMAIN grads.sum : grads.sum[k][1] = s

OwnBlobs(s, blobs) ==
    Own(s, blobs.weights) /\ OwnGrads(s, blobs.grads) /\ OwnOpt(s, blobs.opt)

OwnMemory(m) ==
    /\ IF m.active # None /\ FP(m.active) THEN Own(m.active, m.base)
       ELSE m.strayed \/ m.base = Pristine
    /\ \A s \in Sessions :
          /\ Own(s, m.stash[s]) /\ Own(s, m.adapter[s])
          /\ m.rt[s] # None =>
                OwnGrads(s, m.rt[s].grads) /\ OwnOpt(s, m.rt[s].opt)

SessionIsolation ==
    /\ \A w \in Workers : OwnMemory(mem[w])
    /\ \A w \in Workers : op[w] # None => OwnBlobs(op[w].session, op[w].image)
    /\ \A s \in Sessions :
          /\ OwnBlobs(s, remote[s])
          /\ ckpts[s] # None => OwnBlobs(s, ckpts[s])
          /\ \A d \in Dirs : OwnBlobs(s, local[d][s])

(* These weights, or what a save and a reload make of them. *)
AsKept(s, weights) == {weights, Stored(s, weights)}

(***************************************************************************)
(* Between jobs, what a reload would bring back is what the cache holds,   *)
(* its weights in the format of the blobs: evicting a session loses        *)
(* nothing else (session_store.py:25, the cache is the authoritative state *)
(* and local disk its durable copy).                                       *)
(***************************************************************************)
InFlight(s) == \E w \in Workers : op[w] # None /\ op[w].session = s

DiskMatchesCache ==
    \A w \in Workers : \A s \in Cached(mem[w]) :
        ~ InFlight(s) =>
            LET disk == local[DirOf[w]][s]
                r == mem[w].rt[s]
                again == LoadedRuntime(disk)
            IN  /\ Loadable(disk, s)
                /\ LoadedWeights(disk, s) \in AsKept(s, LiveWeights(mem[w], s))
                /\ again.grads.sum = r.grads.sum
                /\ again.opt = r.opt
                /\ again.meta.steps = r.meta.steps
                /\ again.meta.accum = r.meta.accum

(***************************************************************************)
(* A session behaves like one that never left its worker's memory: jobs,   *)
(* evictions, reloads and checkpoints implement TrainingSession.           *)
(***************************************************************************)
Now(s) ==
    IF InFlight(s)
    THEN op[CHOOSE w \in Workers : op[w] # None /\ op[w].session = s].after
    ELSE latest[s]

CheckpointOf(s) ==
    IF ckpts[s] = None THEN None
    ELSE [weights |-> ckpts[s].weights, opt |-> ckpts[s].opt,
          grads |-> IF ckpts[s].grads = None THEN <<>> ELSE ckpts[s].grads.sum]

Abstract == INSTANCE TrainingSession WITH
    wide <- Wide,
    state <- [s \in Sessions |-> Now(s)],
    saved <- [s \in Sessions |-> CheckpointOf(s)],
    Batches <- UNION {{s} \X (1 .. u.maxJobs[s]) : s \in Sessions, u \in Setups}

ImplementsSession == Abstract!Session

(***************************************************************************)
(* Until a fault, the gradients of a batch enter a session once at most,   *)
(* whichever workers serve it, from whatever copies of its blobs, and      *)
(* whenever it saves and loads checkpoints (worker.py:1972-1979 adds to    *)
(* what the load path found in grad_accum.pt).                             *)
(***************************************************************************)
Rounds(st) == Append(st.weights.steps, st.grads)

CountedOnce ==
    faults = 0 => \A s \in Sessions : latest[s] # None =>
        LET rounds == Rounds(latest[s]) IN
        \A i, k \in DOMAIN rounds :
            \A a \in DOMAIN rounds[i], b \in DOMAIN rounds[k] :
                rounds[i][a] = rounds[k][b] => i = k /\ a = b

(***************************************************************************)
(* Every job runs on the state the session's previous job left, however    *)
(* often the session left its worker's memory in between (worker.py:1053   *)
(* "with current weights"): a reload costs the precision of its weights    *)
(* and nothing else.  worker.py:1088 says it of a session that moves to    *)
(* another worker as well, where it does not hold.                         *)
(***************************************************************************)
Reloaded(s, st) ==
    IF st = None THEN {None}
    ELSE {[st EXCEPT !.weights = x] : x \in AsKept(s, st.weights)}

RunsOnLatest ==
    \A w \in Workers : op[w] # None =>
        op[w].before \in Reloaded(op[w].session, latest[op[w].session])

(***************************************************************************)
(* worker.py:1495 the meta is written last so that a partial write         *)
(* "triggers a remote-fallback load instead of returning an inconsistent   *)
(* snapshot": the weights a job runs on have the optimizer steps that the  *)
(* counters loaded with them say.                                          *)
(***************************************************************************)
SnapshotMatchesMeta ==
    \A w \in Workers : \A s \in Cached(mem[w]) :
        mem[w].rt[s].meta.steps = Len(LiveWeights(mem[w], s).steps)

(***************************************************************************)
(* worker.py:2434 save_weights is to "Checkpoint the current session state *)
(* to the object store".                                                   *)
(***************************************************************************)
CheckpointIsCurrent ==
    [][\A w \in Workers :
         op[w] # None /\ op[w].publish /\ op'[w] # None /\ ~ op'[w].publish
           => LET s == op[w].session IN
              ckpts'[s].weights = Stored(s, op[w].after.weights)]_vars

(***************************************************************************)
(* worker.py:2480 load_weights: "The session's grad_accum is reset": when  *)
(* the job is answered a reload of the session brings no gradients back.   *)
(***************************************************************************)
LoadResetsGrads ==
    [][\A w \in Workers, s \in Sessions :
         op[w] # None /\ op'[w] = None /\ op[w].session = s
           /\ pending[s].kind = "load" /\ pending'[s] = None
         => LoadedRuntime(local'[DirOf[w]][s]).grads.sum = <<>>]_vars

(***************************************************************************)
(* worker.py:1652 a marked session's pristine base "can be re-materialized *)
(* on load when the snapshot file is absent + total_steps == 0": no        *)
(* session that took an optim_step is marked.                              *)
(***************************************************************************)
MarkedUntrained ==
    \A d \in Dirs, s \in Sessions :
        local[d][s].meta # None /\ local[d][s].meta.pristine
            => local[d][s].meta.steps = 0

(***************************************************************************)
(* worker.py:1317 "Reject a new FP session if another FP session is        *)
(* already live": a worker hosts one full-parameter session at most.       *)
(***************************************************************************)
OneFullParamSession ==
    \A w \in Workers : Cardinality(LiveFP(mem[w])) <= 1

(***************************************************************************)
(* worker.py:1053 _ensure_session_loaded leaves "the session's adapter     *)
(* live on the GPU with current weights": the weights a job runs on are    *)
(* the ones the session's last job left, but for their format.             *)
(***************************************************************************)
LiveWithCurrentWeights ==
    \A w \in Workers :
        op[w] # None /\ op[w].before # None =>
            LET s == op[w].session IN
            op[w].before.weights \in AsKept(s, latest[s].weights)

(***************************************************************************)
(* worker.py:1021 an evicted full-parameter session's weights leave the    *)
(* base "so the next session sees a clean base": a LoRA session is only    *)
(* ever active over the pristine base.                                     *)
(***************************************************************************)
LoraOverPristine ==
    \A w \in Workers :
        mem[w].active # None /\ ~ FP(mem[w].active) => mem[w].base = Pristine

(***************************************************************************)
(* worker.py:2349 optim_step is refused when it is "called with no         *)
(* accumulated grads": no update is empty.                                 *)
(***************************************************************************)
NoEmptyUpdate ==
    \A s \in Sessions : latest[s] # None =>
        \A i \in DOMAIN latest[s].weights.steps :
            latest[s].weights.steps[i] # <<>>

(***************************************************************************)
(* worker.py:2324 num_loss_tokens is the total "across accumulated         *)
(* forward_backward calls": the divisor counts the gradients it divides.   *)
(***************************************************************************)
TokensOfGrads ==
    \A w \in Workers : \A s \in Cached(mem[w]) :
        mem[w].rt[s].meta.tokens = Len(mem[w].rt[s].grads.sum)
=============================================================================
