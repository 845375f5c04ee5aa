# A formal model of hatchery-core

hatchery-core serves LoRA and full-parameter training sessions behind an HTTP
API: a gateway (and a Tinker-compatible layer beside it) turns API calls into
jobs, a queue hands each session's jobs to workers one at a time, and a worker
keeps the training state of its sessions in memory, on local disk and in an
object store. This directory holds TLA+ modules translated from the Python
source under `src/hatchery/core/`, TLC configurations that check them on small
instances, and proofs that TLAPS checks for every value of the constants. Paths
below are relative to `src/hatchery/core/`; `PROJECT.json` maps each definition
to the lines it stands for.

## 1. The system

| Part | State | Operations | Hard behaviour |
|---|---|---|---|
| in-memory queue, `backends/queue/memory.py` | a deque per session, the job in flight per session, deadlines, attempts, dead letters, results, pins | enqueue, dequeue, ack, nack, set/clear pin, depth | a lapsed job's old worker reports late; retries keep submission order; pins and affinity windows hide sessions |
| SQLite queue, `backends/queue/sqlite.py` | tables `queue_jobs`, `queue_seq`, `queue_accum_pins` | the same | several processes on one file; enqueue is two transactions |
| worker loop, `worker.py` `run`, `_process_one` … | the job it runs, its lease | poll, execute, pin, ack, bookkeeping, nack | executions that outlive the visibility timeout, deaths, exceptions after the ack |
| worker session state, `worker.py` handlers, `session_store.py`, `scheduler.py` | RAM cache, PEFT adapters, one base model shared by full-parameter sessions, stashes, local blobs | init, forward_backward, custom losses, optim_step, sampling, save and load | eviction and reload, base-weight swaps, four blobs written one by one, several workers with copies |
| worker group, `worker.py` 534-656, `distributed.py` | what each rank does, errors it reported | broadcast, run on every rank, gather errors, shutdown | one rank fails, or leaves its loop, while the others are in a collective |
| data path, `tinker_compat.py` 700-900, `batching.py`, `packing.py`, `worker.py` 1700-2000, `losses.py` | items, shares, sub-batches, gradient | parse, split, pack, forward, backward, report | boundary sizes, ranks with unequal shares, scales that must add up |
| gateway, `gateway.py` | none of its own: metadata and queue | create, resume, delete a session; relay operations | quota checked before it is used; a timeout while the job is queued; every read-then-write of a row has an await between |
| Tinker API, `tinker_compat.py` | futures, sequence-number tracker, in memory | the training API with futures, checkpoints | retried requests, duplicates, polls that run post-op hooks, sweeps |
| model pool, `model_pool.py`, `quantization.py` | base models in VRAM and in host RAM, each tier in LRU order | get, get_or_load, evict, promote, demote | a full tier; a call that raises midway; two pools that should agree |
| trainer, `trainer.py` | sessions on one live base: adapters, stashes, gradients, optimizer states | attach, run, step, save, load, detach | the base is swapped in place under sessions of two kinds |
| sampling, `sampling.py` | an engine that sleeps beside the trainer; a pool of vLLM servers | wake, sleep, sample, publish, unload, close | tasks overlap; servers fail and recover; adapters go stale |
| metadata, object stores, `backends/` | session and job records; key → bytes | create, update, list; put, get, copy, delete | updates from several parties; which copy is current |
| cadence and cache, `scheduler.py` | request history per session, cache slots | put, get, evict, score | a full cache |
| registry, compute, discovery | workers alive and what they serve | register, heartbeat, drain | stale entries |
| stub worker, unified runtime, client | the worker loop of tests and single-process mode | poll, run, ack | none of its own |
| losses, optimizers, precision, kernels, speculative decoding | tensors | numerical | not a matter for a model checker |
| auth, usage, metrics, config, plugins, model registry | tables | lookups, counters | none |

Interaction: API call → gateway or Tinker layer → `enqueue` → a worker's
`dequeue` → handler under `_model_lock` (on every rank of a group) → session
state → `ack` with the result → the caller that waits in `wait_for_result`, or
polls a future. What correctness means for each part:

- *queues*: one job of a session in flight, submission order across retries and
  timeouts, no accepted job lost, a bounded number of attempts (lapses are not attempts), an answer never
  taken back;
- *workers on a queue*: work on a session is serialized, gradients on one
  worker's disk are not overtaken by a peer, every job is answered;
- *session state*: a session that is evicted, reloaded, checkpointed or swapped
  out of the base model trains as if none of it happened, but for the precision that a
  save of its weights rounds away; no batch is counted
  twice; no session sees another one's weights;
- *worker group*: an acked job ran on every rank, the shards agree, no rank is
  left waiting;
- *data path*: the accumulated gradient is the one of the whole request, however
  it is split, packed and scaled;
- *gateway and Tinker layer*: retries of a request share a future, a client gets
  the answer of its own job, quotas hold, a deleted session stays deleted;
- *model pool, trainer, samplers*: a model is resident once and the oldest
  leaves; each session trains a model of its own; generation runs on an awake
  engine with current weights.

## 2. Modules

| Module | Models | State and actions against the code |
|---|---|---|
| `JobQueue` | `memory.py` | one variable per field of `InMemoryJobQueue`, one action per method; no locked section awaits, so each method is atomic |
| `SessionDispatch` | what a queue promises | abstract: submission order, the job running per session, the answers; `JobQueue` refines it |
| `WorkerPool` | the worker loop on a `JobQueue` | `stage` is the point `_process_one` has reached; one action per await point other parties can see |
| `SqliteQueue` | `sqlite.py` | one action per SQL transaction; `enqueue` is `NextSeq` then `InsertRow`, or `EnqueueDies` in between |
| `SessionState` | the worker's session state and handlers | `mem` a worker's memory, `local` its disk, `remote` and `ckpts` the object store, `op` the writes a running handler has left; a handler's work in memory is one step, each blob write another |
| `TrainingSession` | what a session promises its client | abstract: weights, gradients, optimizer, one checkpoint; `SessionState` refines it |
| `WorkerGroup` | a worker of several ranks | `at` is where each rank is; a broadcast, a gather or a collective happens when every rank has entered it |
| `TinkerFutures` | the request/future protocol | every await of a handler ends a step; `live` and `seen` are the two swept registries; the queue answers a job when it likes |
| `GatewaySessions` | a session's row, job rows, quota and blobs | creation and requests as program counters `create` and `req`; workers write the blobs of the live state one by one |
| `BaseLoading`, `RewrapPool`, `ModelPool` | the two pools of base models | `BaseLoading` is which scheme, kernels and dtype a checkpoint is loaded with (functions), given which of the steps taken at best effort worked; a pool call is one step with the outcomes "done" and "raised" at each point where it may raise; `held` is where a model's weights are |
| `Trainer` | `VanillaTrainer` | `net` the live model (base, adapters, active session, what is trainable), one action per method |
| `PrivateModels` | what a trainer promises its sessions | abstract: a model per session; `Trainer` refines it |
| `InProcessSampler`, `VLLMPool`, `SamplingBackends` | the sampling backends | engine and HTTP calls are pairs of steps; `lock` is the queue of the `asyncio.Lock`; `SamplingBackends` chooses one backend |
| `TrainingBatch`, `DataPath` | a forward_backward's data | `TrainingBatch`: parsing, shares, packing, rows, weights and divisors as functions; `DataPath`: the ranks run their sub-batches, whose forwards and backwards are collectives |
| `…Proofs` | theorems, section 5 | |
| `MC…` | instances for TLC | constants only |

Conventions shared by the modules:

- *time* is relative: a deadline is the time left until it and one action lets a
  unit pass, so that no clock grows (`TinkerFutures` has a bounded clock);
- *ids* are submission numbers or the name of the post they are made for (the
  code draws fresh ones);
- *batches* are pairs of a session and a number; weights are the sequence of
  updates applied to the base model, an update the sequence of batches whose
  gradients it applied, with the points at which they went through a blob: a save
  rounds what is wider than bf16 (lora_state.py:95, 175), so that weights saved and
  loaded are others. `Trainer` keeps only whose steps they were. Tensors,
  losses and tokens are abstracted to this, except in `TrainingBatch`, where a
  gradient is the share of each loss term in it, as a fraction;
- *arbitrary callers*: `JobQueue` and `SqliteQueue` accept an ack or a nack for
  any job at any time, `WorkerPool` restricts them to the real loop;
- *mutants*: operators under a "mutant" comment are plausible bugs; no action
  uses them. `PROJECT.json` says which property each of them breaks.

Several modules take the services, clients or requests a behaviour is about from
a constant set, of which `Init` chooses one element: `Setups` in `SessionState`
and `DataPath`, `Scenarios` in the two gateway modules, `Settings` and `Bases`
in the pool and the trainer. One run then covers all of them. In `SessionState` a
setup says, besides the workers, their disks and the cache slots:

- `careful`: clients take one checkpoint, after a first `optim_step`, and save
  and load between accumulation cycles only. The refinement needs it; the
  settings `SecondCheckpoint` and `LoadBetween` of `MCSessionGaps` show why;
- `wide`: the sessions whose weights a save rounds, such as LoRA adapters in fp32;
- `maxFaults`: restarts (same disk) and failed writes.

The cache of any setup may evict the session it has just loaded, as its scores allow
(scheduler.py:155-175).

Likewise `Uses` in `Trainer` and `SamplerUses` of the two samplers name the uses the
code does not stand, and `LoneBefore` in `WorkerGroup` lets a rank fail by itself
before a collective: none of them is allowed in the passing runs, each is allowed
in one check of section 3 that shows what then goes wrong. A use is left out at the
operation that goes wrong, not at those that lead to it: a LoRA session is attached beside
an active full-parameter one in the passing run too, and only what then runs, saves or
stashes the full-parameter session over the base that was set aside is `"beside"`. The
others are a first adapter while gradients of the plain base wait (`"wrap_later"`), an
untrained state loaded over a trained session (`"reload_initial"`) and weight decay
(`"decay"`). Of the samplers, `"race"` is an unload sent before the client's own
publications and samples have returned; a server that is out of reach of an unload, or
loads an adapter and answers with an error, is a fault and not a use.

`SessionState` serves jobs as the queue guarantees it (one of a session at a
time; proved for `JobQueue`), retries or gives up a job whose handler raised,
and has no affinity: any worker may get the next job, which is what happens once
the affinity window and the pin have lapsed.

## 3. Runs

Deadlock is checked in `job_queue`, `worker_pool`, `sqlite_queue`, `session_state`,
`session_faults` and `model_pool`. The others have an end: clients stop when they
have heard, a group shuts down, a request is trained, bounded steps and faults are
used up; what must not be stuck is said by their liveness properties, or by
`NoneWaitsAlone` in `data_path`.

| Run | Question | Instance |
|---|---|---|
| `job_queue` | are the queue's tables consistent, order and budget kept, under arbitrary callers? | 2 sessions (one with affinity, one of higher priority with a model only one worker serves), 2 workers, 3 jobs, 2 attempts, timeout and pin of 1 |
| `worker_pool` | do pins and serialization hold for the real loop, does the queue dispatch in order, is every job answered? | 2 sessions (a pipelined one, one whose jobs only one worker can run), 2 workers, 2 jobs, one death, one slow execution, one exception after an ack |
| `sqlite_queue` | the same safety questions for several processes on one file | 1 session, 2 gateways, 2 workers, 3 jobs |
| `session_state` | does a session that is evicted, reloaded or swapped out lose anything but the precision a save rounds away? | two setups: 2 LoRA sessions in 1 slot, 6 and 3 jobs, one of them wider than bf16; a full-parameter and a LoRA session, both cached and wide, with custom losses, 4 and 3 jobs |
| `session_faults` | do restarts, failed writes, retries and hand-offs leak data between sessions, or count a batch twice? | three setups, all with careless clients: the mixed pair in 1 slot with a fault, 2 jobs of the LoRA and 3 of the full-parameter session, or 1 and 4; 2 workers and disks, 4 jobs and 1 |
| `worker_group` | does an ack mean all ranks ran, do the shards agree, does the group end? | 3 ranks, a job of each kind, 2 attempts, 2 faults of single ranks |
| `tinker_futures` | do retries agree, is a client answered for its own request, and in the end? | 3 posts in three scenarios: retries beside another request, a save the gateway waits for, posts without a session; registries of 1 entry, age 0, a gateway restart |
| `gateway_sessions` | does the quota hold, does a deletion stick, does every handler end? | 7 pairs of requests on one session, 3 pairs of creations with a request; 2 blobs, a fleet change, a failing enqueue or restart |
| `model_pool` | is each model resident once and whole, within the slots, the oldest leaving first, and does the tiered pool without host slots do what the rewrap pool does? | 4 models (plain, vision, FP8, 1-bit), 1 or 2 VRAM and 0 to 2 host slots, all requested schemes |
| `trainer` | does each session train a model of its own, and is what is live the active session's? | a LoRA and two full-parameter sessions, 2, 1 and 1 steps; plain, sharded and 1-bit trainers |
| `sampling` | does generation run on an awake engine, do tasks finish, is a client answered by what it published last, and by what else when a server missed an unload? | 3 tasks, 2 paths, 1 fault; pools of up to 3 servers, 2 versions of an adapter |
| `data_path` | is every item trained once with its own weights, and no rank left alone? | requests of up to 4 datums of 30 shapes, 3 losses, 11 workers (1 or 2 ranks, split or replicated, packed or not, four pack limits) |

Each run takes from some seconds to four minutes on two cores.

Why the bounds suffice for the questions asked. *Queues*: three jobs of a session
give a job with a predecessor and a successor, so that order can be broken at
both ends; two attempts reach both branches of `nack`; timeouts and pins of one
unit are live until a tick and lapse with it. *Sessions*: one cache slot and two
sessions make every job of one evict the other or itself; six jobs fit init, gradients,
a step, a checkpoint, more gradients or another step, and a load; one fault between any two writes
reaches every partially written fileset. *Group*: three ranks distinguish the
coordinator, the rank that fails and one that does not; two faults let a retry
fail too. *Futures*: a post, its retry and a third request are the smallest set
in which a retry can be mixed up; registries of one entry make every sweep
drop something. *Gateway*: two requests on a session reach every pair of await
points; two blobs are the smallest torn state. *Pools*: three slots of two tiers
with four models force a demotion that evicts, a promotion that demotes and a
load that does both. *Trainer*: two full-parameter sessions swap with each
other and with a LoRA session in either order. *Data path*: four items split over
two ranks and packed leave shares of two, packs of one and of several documents,
and a last pack with room. Tensors that do not match the text are among the
cross_entropy requests: soft labels without weights, with too narrow ones or of too few
rows, and fewer weights than tokens, which the collation accepts and broadcasting spreads
or refuses (worker.py:2918-2960, losses.py:209-247). For the other losses `Fitted`, part of
`DataPathAssumption`, bounds the requests to hard labels and a weight and a log-probability
for each id.

Fairness. `WorkerPool`: weak fairness of a live worker's polling and of its
steps, since its loop is `while` with an awaited `dequeue` and every handler
returns or raises; weak fairness of time. A job is answered then, because a dead
worker's job lapses, its pin expires, and the peer keeps polling. `TinkerFutures`:
handlers run on the event loop, clients poll until they hear, and the queue answers
every job, which `worker_pool` shows. `GatewaySessions`: handlers only, whose waits
all have a timeout; nothing of the workers. `WorkerGroup`: each rank's own steps
and the group's collectives once all ranks entered them; not the faults.
`InProcessSampler`: tasks take their steps, and strong fairness of leaving a block
because a task that may go on sampling is not bound to. No client is forced to
submit, no handler to fail, no process to die. The other modules state safety only.

### Configurations that show a disagreement

The following properties are statements of the code's own documentation, and TLC finds
a behaviour that contradicts each of them. They are not among the runs of
`PROJECT.json`, which must pass. A `…Gaps.cfg` holds those of one module, each with the
constants that bring it out, all but one of them commented out: uncomment one, run
`tlc -config MCXGaps.cfg MCX`. The two of the model pool need no constants of their own: add
them to `MCModelPool.cfg`, `TieredLoadsAlike` as a `PROPERTY`, `SlotsServe` as an `INVARIANT`.

*Queue and workers* (`MCSqliteGaps` of `MCSqliteQueue`, `MCPoolGaps` of `MCWorkerPool`)

| Property | Statement | What happens |
|---|---|---|
| `ReportsAckedStatus` | sqlite.py:7 the same invariants as the in-memory queue | `ack` writes "completed" whatever the result's status |
| `HandedOutAsSubmitted` | protocols.py:93, model_registry.py:22 a job's context-parallel requirement reaches the worker | the table has no column for `required_cp_degree` |
| `OneLiveHolderPerSession` | memory.py:17 at most one job of a session is held by any worker | the late ack of a worker that lost its job to the timeout releases the new holder's session |
| `PickedUpByCapableWorker` | model_registry.py:22 jobs beyond a worker's context parallelism are picked up by a capable one | every incapable worker's nack uses up an attempt, and the job fails with a capable one alive |

*Session state* (`MCSessionGaps` of `MCSessionState`)

| Property | Statement | What happens |
|---|---|---|
| `CheckpointIsCurrent` | worker.py:2434 checkpoint the current state | blobs already in the object store are not copied again |
| `LiveWithCurrentWeights` | worker.py:1053 current weights are live after a load | a full cache may evict the session that was just put in it |
| `LoraOverPristine` | worker.py:1021 after a full-parameter session the pristine base is restored "so the next session sees a clean base" | the active session is one the cache evicted by its own load; `_activate_session` (975) finds no runtime for it, takes the base for clean, and a LoRA session computes over what the other left there |
| `MarkedUntrained` | worker.py:1652 the mark means no step was taken | a loaded mark is saved again with every later state |
| `SnapshotMatchesMeta` | worker.py:1495 partial writes are not read as a snapshot | the previous meta is still there and vouches for the new weights |
| `RunsOnLatest` | worker.py:1088 the previous worker's state is in the object store | with the local store that core ships it is on that worker's disk (session_store.py:12 says there is no hand-off to a peer, README.md:195 that workers share queue and storage) |
| `LoadResetsGrads` | worker.py:2480 the gradients are reset | the cleared dictionary is not written, the old file returns on reload |
| `OneFullParamSession` | worker.py:1317 one full-parameter session per worker | the load path is not gated |
| `NoEmptyUpdate` | worker.py:2349 optim_step without gradients is refused | zero tensors left by the last step pass the test |
| `TokensOfGrads` | worker.py:2324 the divisor counts the accumulated batches | load_weights and custom losses change one of the two only |

*Tinker layer and gateway* (`MCTinkerGaps` of `MCTinkerFutures`, `MCGatewayGaps` of `MCGatewaySessions`)

| Property | Statement | What happens |
|---|---|---|
| `OneJobPerRequest` | tests/test_tinker_compat.py:531 "no duplicate job" | a job is enqueued before the sequence number is looked up: the retry has a job of its own that runs too |
| `SettledOnce` | plugins.py, a post-op hook runs once per pre-op, after the result | every poll runs the post-op hooks, those that timed out too |
| `ReplyIsLive` | a retry is answered with the future of the first post | the tracker remembers futures the registry has swept: the client polls a 404 |
| `TerminatedStays` | gateway.py:913 410 "Session was terminated", tests/test_gateway.py:223 | a request that read the row before the DELETE touches it afterwards and writes ACTIVE |
| `RefusedFreesPlace` | gateway.py:749 "Max N concurrent sessions" is what the quota counts | a pre-op hook or an enqueue that raises after the row was written ACTIVE (tinker_compat.py:1144, 1293, gateway.py:818) leaves it ACTIVE and counted |
| `SavedWhole` | tinker_compat.py:1918 "training can be resumed exactly where it left off" | save_state copies the blobs one by one while a worker writes the next state |

*Worker group and model pool* (`MCGroupGaps` of `MCWorkerGroup`, `MCModelPool`)

| Property | Statement | What happens |
|---|---|---|
| `FollowersReleased` | worker.py:539-541 the broadcasts keep followers from hanging for ever | ack, nack or the pin raises on rank 0, `run` ends without a shutdown message, the followers wait |
| `GroupFinishes` | the same, for collectives | a rank that raises by itself before a collective leaves the others in it |
| `TieredLoadsAlike` | model_pool.py:423 with max_host_slots=0 "the pool behaves identically to RewrapModelPool" | vision models and FP8 checkpoints are loaded by one of the two only, or with other kernels |
| `SlotsServe` | model_pool.py:303 FP8 kernels "are inference-only", so the weights are dequantized; a 1-bit base needs bf16 (745) | the config that both steps read could not be read: `except Exception` goes on with the kernels, or the fp16, as they are |

*Trainer* (`MCTrainerGaps` of `MCTrainer`)

| Property | Statement | What happens |
|---|---|---|
| `TrainsPrivately`, `Uses = {"beside"}` | trainer.py:635 "Full-param sessions can coexist with LoRA sessions" | attaching a LoRA session stashes and restores the base but leaves the active id: the next run, save or stash of the full-parameter session takes the pristine base for its own |
| `TrainsPrivately`, `Uses = {"decay"}` | trainer.py:436 sessions "must not accumulate" into each other | with weight decay, a step moves a sibling's parameters that are trainable and carry a zero gradient |
| `TrainsPrivately`, `Uses = {"wrap_later"}` | a private snapshot of the base per session (636) | PEFT wraps the model after gradients were accumulated: their names match no parameter of the step |
| `TrainsPrivately`, `Uses = {"reload_initial"}` | the same, for saved states | a saved state without weights does not undo the steps taken since it was saved |
| `ShardedWhenRun` | trainer.py:672 the plan is applied "exactly once, the first time a session is attached" | it raises after the adapter was attached and is never applied |
| `Fp8WinsOverName` | trainer.py:315 an explicit fp8_torchao wins over the name | the second detection, from the loaded config, goes by the name again |
| `MomentsFollow` | trainer.py:1014 the optimizer's state is restored | `contextlib.suppress` drops a state that does not fit |

*Samplers* (`MCSamplingGaps` of `SamplingBackends`)

| Property | Statement | What happens |
|---|---|---|
| `BlockIsAwake` | the sampler's docstring: safe to call from concurrent tasks | two `awake` blocks overlap and the first to end puts the engine to sleep |
| `GeneratesAwake` | the same | `close` drops the engine under a generation |
| `FreshAdapter` | an adapter's name stands for what was published last | the engine caches by the integer id the name keeps |
| `ReadyForSampling` | sampling.py:93 publish leaves the adapter "loaded and ready for sampling" | it is loaded on one server, sample goes to the next |
| `UnhealthyWasDown` | unhealthy servers are those that were down | a caller's own error counts as a failure of the server |
| `NeverStale` | an adapter unloaded and published again is the new one | an unload races the publication on another task, or did not reach a server (errors are ignored, 309) that goes on serving the old one |

Two more disagreements have no configuration, since the models do what the code does.
session_store.py:25 calls the cache's copy authoritative and the local disk its durable tier,
but a save writes bf16 (lora_state.py:95, 175): what is reloaded after an eviction has
lost the precision of the weights, which `DiskMatchesCache` and `ImplementsSession` allow
and no more. And sampling.py:265 says that an adapter a server rejects is "still" marked as
loaded, but the warning before the mark passes keyword arguments to a logger of the
standard library, which raises `TypeError`, and the name is not marked.

*Data path* (`MCDataGaps` of `MCDataPath`)

| Property | Statement | What happens |
|---|---|---|
| `SplitAsReplicated` | batching.py:57 "Both modes produce the same gradient" | token means of shares with different numbers of targets are averaged with equal weight |
| `PackedAsPadded` | worker.py:1831 the sub-batches reconstruct "the single-forward gradient" | the first position of each document but the first is masked, and the counts of a weighted batch are not its weights |
| `SequencesCounted` | worker.py:1982 totals for the accumulation modes | only rank 0's last sub-batch is counted |
| `OutputPerDatum` | the logprobs asked for come back per datum | those of rank 0's share only |
| `AllTogether` | the ranks make the same collectives | unequal packs, or an item that raises on one rank, leave the others waiting |
| `OrpoTakesEven` | orpo takes an even batch | the split leaves a rank an odd share |
| `OrpoOverTargets` | losses.py:715 a length-normalized average over real tokens | the weights of a batch are filled with ones before the loss sees them, prompts included |
| `ImagesBounded` | tinker_compat.py:774 too many images are refused | encoded images are not counted |

The passing runs are about the code with these cases excluded, and say so:
`QuotaUnlessRaced` in its premise, `ActiveIsBacked` by the creations it lets hold a place
(those an exception or a restart cut off behind their row, `RefusedFreesPlace`),
`TieredIsRewrap` by asking less of the models the two loaders treat differently
(`LoadedAlike`), `NoneWaitsAlone` and `GradientIsWhole` by the
batches they speak of (equal weights per share where the average is over tokens, equal
packing, and for packs items without image placeholders), the trainer and sampler runs by
`Uses = {}` and `SamplerUses = {}`, `worker_group` by `LoneBefore = FALSE`, the session
runs by their setups.

## 4. Properties worth pointing at

- `SessionFIFO`, `RunsInOrder`, `NoJobLost` (JobQueue): submission order and
  conservation of jobs through retries and timeouts, with arbitrary acks.
- `SerializedUnlessLapsed`, `PinKeepsPeersOut` (WorkerPool): what two polling
  loops achieve together, and that only the visibility timeout breaks it.
- `RunsAfterPredecessors` (SqliteQueue): order for enqueues that overlap.
- `DiskMatchesCache` and `ImplementsSession` (SessionState): a reload brings back what
  the cache held, its weights rounded to bf16; so evictions cost precision (the step
  `Reload` of `TrainingSession`) and nothing else.
- `SessionIsolation`, `CountedOnce` (SessionState): one base model changed in
  place never shows through in another session; stale copies may lose a batch,
  never count one twice.
- `RetriesAgree`, `FutureOfOwnRequest` (TinkerFutures): what the tracker keeps
  consistent between handlers that interleave at every await.
- `QuietEndIsFinal` (GatewaySessions): the exact condition under which a DELETE
  is final, given what races it.
- `AckMeansAllRan`, `RanksAgree`, `GroupFinishes` (WorkerGroup).
- `TrainsPrivately` (Trainer): swaps of the base, adapters and saved states
  refine one private model per session; `LiveIsActive`: the base holds every stashed step
  of the active full-parameter session and of no other, or none at all.
- `ResidentsAreWhole` (ModelPool): no model is listed in a tier it reached halfway.
- `GradientIsWhole`, `PairsKept` (DataPath): splitting, packing and scaling
  compared with the gradient of the request in one forward on one rank.
- `ItemsWhole` (DataPath), `EngineSound` and `ServesPublished` (samplers) and
  `TiersSound` (ModelPool) are conjunctions of named parts that belong together.

The type invariants are parts of the theorems of section 5; no run lists them. In the modules
without theorems `TypeOK` can be added to a configuration as one more `INVARIANT`.

## 5. Proofs

Eight modules of theorems, each an inductive invariant with one lemma per action; the
invariants were checked by TLC on the runs' instances before they were proved. The
theorems are listed in `PROJECT.json`, with the property each of them states; of the runs'
properties they leave to TLC only what the end of this section names.
Their assumptions are the named `ASSUME`s of the modules (bounds are natural numbers,
`None` is none of the values it stands beside, sets that are counted are finite, what is
enumerated of models and setups has its type), which TLC evaluates in the runs. Some
theorems have a hypothesis besides, stated with them: the setups of a worker
(`SessionStateProofs`), and for the trainer and the samplers the absence of those
*uses* each of which section 3 shows to break the property in question. None excludes what
the passing run of the property explores, but for `CountedOnce` with a full-parameter session
that does not fit in the cache (`Faulty`, `Longer`), which is model-checked only.

`JobQueueProofs`. The induction goes in two layers. *Placement* is `TypeOK`,
`SingleInFlight` and `SessionFIFO` together: none is inductive alone, since the
order of a deque after a requeue depends on the job in flight being older than
what waits, and that on the three in-flight tables naming the same jobs.
*Accounting* is `NoJobLost`, `RetryBudget`, `RunsInOrder` and *Unsubmitted*
(nothing is recorded of a job before it is submitted), and uses Placement:
the head of a deque is its session's oldest unfinished job. The theorems are
`PlacementInvariant`, `AccountingInvariant` with `NoAcceptedJobIsLost` and
`RetriesStayInBudget` (no job is nacked more often than the budget, and a dead-lettered one
stays so; a job that lapses is handed out again without an attempt being counted, as in the
code), and `ImplementsDispatcher`: every step
of the queue is a step or a stutter of `SessionDispatch` under the mapping of the
lock table and the results. The second half of the module is about the pool of workers
on that queue. `PoolUsesQueueAsAllowed` (`PoolSpec => Spec`) carries everything proved of
the queue under arbitrary callers over to the real loop, `PoolImplementsDispatcher` among
it. `PoolInvariant` is its type invariant with
`SerializedUnlessLapsed` and `PinKeepsPeersOut` (`PinnedSessionsStay`). *Accounted* relates a worker's
stage to the queue's tables: outside lapsed sessions, a worker that has a job and has
not acked it is the one the in-flight table names for it, and a job it has acked can
no longer run. So a late nack finds nothing to drop, two workers never hold one
session, and a pin is about a session only its owner holds.

`SqliteQueueProofs`. The invariant joins `TypeOK`, `OneInFlightPerSession`,
`DistinctSeqs`, `RunsAfterPredecessors` and `RetryBudget` with `DrawDiscipline`
(a job in the middle of `enqueue` has no row, nobody else has its number, and
every row that preceded the draw has a smaller one), `RowDiscipline` (the same
for stored rows, and no number above the counter) and `PrecedingStored`. Dequeue
takes a session's smallest number with nothing in flight, so what preceded it
is neither queued nor in flight, hence answered. It gives
`TableInvariant`, `OrderInvariant` and, as an action property,
`AnswersArePermanent`.

`SessionStateProofs` has five theorems, in this order.

- `SessionsStayApart` (`SessionIsolation`), for any sessions, workers, disks, caches,
  careless clients, deaths and failed writes, without a hypothesis. The invariant
  types every copy of a session's state by the batches of that session; a handler is a
  chain of changes of one memory (load, activate, compute, capture), each of which keeps
  `MemoryOk`: cached sessions have their weights, and the base model belongs to the
  active session. The hard case is a full-parameter session that the cache evicts in its own
  load: the base then outlives it (`strayed`, a history variable) and no activation of a
  LoRA session resets it. The invariant lets it be anything then, except under an active
  full-parameter session: a LoRA session saves its adapter, and a full-parameter one that
  becomes active brings its own base.
- `EvictionLosesNothing` (`DiskMatchesCache`) and `EveryJobRunsOnLatest` (`RunsOnLatest`),
  up to the rounding of what is saved, for `CalmSetups`: one worker, no faults, careful
  clients, and at most one full-parameter session, with a slot for each session if there is
  one. These are the setups the run `session_state` enumerates, for any number of sessions,
  slots and jobs; `MCSessionGaps` has a counterexample for each clause dropped
  (`Handoff`, `TornWrite`, `LoadBetween` and `SecondCheckpoint`, `TwoFullParam`,
  `FullParamEvicted`). The invariant `KeptInv`
  says of every session that its local files, once
  the writes its running handler has left are done (*Disk*), hold the state its last job
  left, or the running one computed (*Current*), and so does the memory when it is
  cached (*Mirrors*). *Beginning* and *CarefulJob* carry what the client's
  care gives: what `publish` copies is a state after a step and without gradients.
- `NoBatchCountsTwice` (`CountedOnce`, which speaks of behaviours up to the first fault),
  for `ApartSetups`: several workers, each with a disk of its own, and full-parameter
  sessions only where every session has a slot; stale copies, checkpoints and hand-offs included. `CountInv` says that
  weights and gradients that are, or may come, together in a runtime hold each batch
  at one place at most (*Paired*): any weights with any gradients of one worker, and the
  weights of the object store with gradients anywhere; that a batch about to
  be counted is in no copy yet (*Batched*); and that until a checkpoint is published one
  worker at most knows the session (*Published*).
- `WorkerImplementsSession`, the refinement of `TrainingSession`, for `CalmSetups`. A
  session's abstract state (`Now`) is what its running job computed, or what its last one
  left; its checkpoint is the published one. A handler's work in memory is the abstract
  operation because by `KeptInv` it starts from that state, or from that state rounded if
  it was reloaded, which is the abstract `Reload`;
  submissions, writes of blobs, acks and evictions are stutters.

`WorkerGroupProofs`: `GroupInvariant`, for any number of ranks and jobs, `AckMeansAllRan`
and `RanksAgree` (`RanksStayInStep`). The group is at any time either looping or working (*Phase*). While it
works every rank has the coordinator's job, so a collective changes all ranks for one
job; while it loops no error flag moves, so what rank 0 settles by is what all ranks
reported (*Heard*) in that delivery (*Deliveries*).

Its second and longer part is about `DataPath`, for any requests whose datums have some
text and whose tensors are integers in rows that are not empty (`DataPathAssumption`), any
number of ranks, strategies and packings. `PassHolds` is the invariant: the items are the
conversions of the first datums in their order (*Parsed*); a rank at work holds the
sub-batches it would make of its share again now (*Taken*), for what it makes of a queued
request is settled. Two lemmas carry most of it, for items whose labels can be laid in a batch at all
(*Lies*), and for those whose labels and weights are also as many as their ids (*Fits*), as
they are under `Fitted` and `Square`.

- `RanksMoveTogether` (`NoneWaitsAlone`): ranks with the same work are taking their shares
  or in the same phase of the same pass (*Abreast*). Replicated shares are equal; equal
  runs of well-shaped items raise for all ranks or for none, take one pass each, and have
  as many rows and the same inputs for the loss (*Alike*).
- `PairsStayTogether` (`PairsKept`): what orpo does not refuse is one padded pass of an
  even number of rows (*Paired*), each of one item (`RowOfItem`), and pair `p` of part `r`
  of the batch is pair `r * h + p` of the request when parts are of `2 * h` items. A packed
  batch is refused, since first fit opens at least one pack (`BinsSome`) and a pack is a
  pass of a single row.
- `ItemsArriveWhole` (`ItemsWhole`), its three parts in turn. `SparseIsWhole` is a fact about
  the parser: each index of a sparse vector has the last value given for it, so distinct
  positions keep theirs and the vector sums to what was given. `EachItemTrained`: the shares are all the items on every rank or disjoint
  parts of them (`ShareOwners`), a rank at work holds exactly the sub-batches of its share
  (*Held*), and in a sub-batch each place of its items has one slot while no other cell
  counts (*LaidOut*), which for packs goes through the rows laid end to end.
  `PacksAreFull`: first fit leaves each document in one bin, a bin within the limit or of one
  document, and no two bins that would fit in one (*Filled*); each document placed keeps
  that, in the order of the sort.
- `GradientArrivesWhole` (`GradientIsWhole`). The invariant *GradInv* says what the gradient
  is between the first pass and the last: each of its terms is the sum of what the ranks'
  past sub-batches owe it (*GivenSoFar*) over one denominator, the total of the rank's whole
  share (*Growing*); nothing is added before all have taken their shares (*Untouched*), a
  rank is done after its last sub-batch (*Through*), and gspo trains no packs (*NoPacks*).
  A step keeps it by `RankShare`: the loss divides by the targets of its sub-batch, the
  scale replaces that by the rank's total, and each place has one slot, by *LaidOut*. Ranks
  have the same denominator (`DenomsAlike`), so their terms add up (`PlusTotals`): in the
  end each item has been given once, or once by each rank (`Collected`), over the total of
  the request times the ranks or not (`TotalOfAll`), which is the gradient wanted. The
  premises of `GradientIsWhole` are used as they stand: *Even* and the equal packing in the
  common denominator, *Uniform* in the number of columns and in items that are *Square*, unread placeholders in what packs
  keep. That *Even* also asks for no negative weights matters where a share's total is
  clamped to one.

Packs, greatest lengths and all the sums need induction over sequences and finite sets.
The library's induction theorems take an operator, so the induction is over a *set* of
naturals instead (`AllNaturals`): one that has 0 and the successor of each member leaves
none out, or there would be a least one. From it follow the greatest element of a finite
set (`GreatestNat`), and that a fold has a value for each subset of its domain
(`FoldExists`) and keeps what its step keeps (`SubsetInduction`). The sums and the sort are
folds or choices of the community modules, unfolded once each; a set of subsets on which a
sum is as claimed, closed under adding an element, then is all of them.

`TinkerFuturesProofs`: `FuturesInvariant` (`RetriesAgree`, `FutureOfOwnRequest`,
`AnswerSettlesHold`; the last two also as `NobodyElsesFuture` and `AnsweredMeansSettled`) and
`RegistryBounded`. An entry of the tracker stays until its key
is dropped as a whole, which starts a new epoch of the key; a reply given in the current
epoch is what the tracker still holds (*Remembered*).

`GatewaySessionsProofs`: `SessionsInvariant` (`QuietEndIsFinal`, `ActiveIsBacked`, the latter also as
`ActiveSessionsAreBacked`: a place of the quota is held by a creation that is under way or
done, by one that an exception or the gateway's death cut off behind its row, or by a
session that was revived, and by no creation that answered a timeout or a failure) and
`QuotaHolds`. A row exists only after its creation counted (*Rowless*), so a row that
turns active is new, backed or revived; without a race at most one creation has counted
and not recorded, and its place is free (*Room*); when a session ends quietly, every other
request on it has ended or will find the row terminated, and no job is left that could
write (*Calm*).

`ModelPoolProofs`: `ResidentOnce` (`TiersSound`), `LeastRecentLeavesFirst`
(`OldestLeavesFirst`), `ListedIsWhole` (`ResidentsAreWhole`) and `NoHostTierIsRewrap`, an action
property, for any models, settings and calls that raise. The last compares with the rewrap
pool and *its* loader: a step of the tiered pool without host slots is a step of that pool
where the two load the model alike (`LoadedAlike`), and elsewhere leaves the
same models resident. One invariant is enough for the first two: the tiers, one
after the other, are a subsequence of the models in the order of their last use
(*Within*), and that order names no model twice (*Distinct*). A subsequence is stated by the
order of positions, so that what the operators on sequences (*Without*, *ToEnd*,
*Newest*) do to it are lemmas without induction. For the third, a model is taken out of its
tier before its weights are moved (*Whole*), so one whose move raises is in neither.

`TrainerProofs` is about the trainer and, in its last part, the samplers that serve what it
trains.

- `LiveBaseInvariant` (`LiveIsActive`): the live base carries all the steps stashed for the
  active full-parameter session and no other's, and is pristine under a LoRA session, under
  none, and while it is set aside for an adapter; for any uses but `"beside"`, which takes the
  base that was set aside for the session's own. Every operation composes stash, restore,
  activate and attach, each of which keeps *Sound* (what is stashed or saved of a
  full-parameter session carries its steps only) and *Live*.
- `EachTrainsItsOwn`: without the uses, `Trainer` implements `PrivateModels`
  (`TrainsPrivately`), a LoRA session attached beside an active full-parameter one
  included (trainer.py:593-599). The invariant *Apart* adds to *Sound* that exactly the attached LoRA
  sessions have adapters, that the active session is attached, and that the gradients and
  saved states of a session are filed under the names its parameters have now; the last is
  what wrapping the base for a first adapter would break. With it every operation is the
  step of `PrivateModels` of the same name; an `optim_step` that finds nothing to move and
  a refused one change nothing a session can see.
- `EngineServesInTurn` (`EngineSound`), for any tasks, calls and engine calls that raise, if
  blocks of two tasks do not overlap and nobody closes the sampler inside one. *EngineInv*
  says who holds the lock across an engine call (*LockHeld*), that one task at most is in a
  block (*OneBlock*), that the engine is awake there with nobody about to put it to sleep
  (*BlockAwake*), and that for an awake engine some task still owes the sleep (*GpuInUse*).
- `PublishedAnswers` (`ServesPublished`), for a pool of any size, if a client waits for its
  own calls before it unloads. Servers may reject loads, restart, be out of reach and keep
  their adapters, or load and answer with an error; a server that missed an unload or whose
  answer was lost may *stray* from what is promised, and the property speaks of the others.
  *PoolInv* relates what is under way to what is promised
  (*OneByOne*), and says that a server that has not strayed holds the promised version or nothing, while an
  unload clears the servers in order (*ServersFit*). That the rotation picks a server of the
  pool, healthy or not, rests on a least element of the natural numbers.

Model-checked only: liveness (`EveryJobAnswered`, `PollersHearBack`, `HandlersEnd`,
`GroupFinishes`, `TasksFinish`), as fairness and ENABLED are beyond the prover, and
`CountedOnce` in the setups just named.

## 6. Not modelled

Numerical code (loss values, optimizer arithmetic, precision beyond the bf16 of saved weights, kernels, generation,
speculative decoding), payload formats beyond the tensors of a forward_backward,
archives and downloads of weights, logging and metrics, and extensions outside this
repository (mirrored stores, other queues, plugins). Of modelled parts: heartbeats,
registration and prefetching of a worker; the list, prefix-delete and address
operations of the object stores; the scores of the cache (sessions with a request rate
leave first, in any order); the
time to live of registry entries; device meshes and sharding plans, of which only when
they are applied matters here; the stub worker and the unified runtime, which have no
state beyond the worker loop's. `PROJECT.json` gives a reason per component.

The hazards of `PROJECT.json` without a property are among the statements of section 3,
which shows the code going wrong there, as are several more that are not repeated in
the list.

## 7. What could follow

- the composition of `GatewaySessions` with `JobQueue` instead of its own queue of
  jobs, so that late answers after a timeout come from real redeliveries;
- `SessionState` on several ranks (each rank writes only its shard);
- metadata pagination and checkpoint publishing, once more than one party uses them.
