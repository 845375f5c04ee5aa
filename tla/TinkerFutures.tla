--------------------------- MODULE TinkerFutures ---------------------------
(***************************************************************************)
(* The request/future protocol of the Tinker-compatible API                *)
(* (hatchery/core/tinker_compat.py): a POST is admitted, its pre-op hooks  *)
(* run, a job is enqueued, and the client gets a future which it polls     *)
(* with retrieve_future.  Futures and sequence numbers are kept in the     *)
(* gateway's memory, in two registries swept by age and by size.           *)
(*                                                                         *)
(* Every await of a handler ends a step, so the handlers of several posts  *)
(* interleave.  A post is named by an element of Posts and so are the job  *)
(* and the future made for it (the code draws a fresh uuid for each).      *)
(***************************************************************************)
EXTENDS Naturals, FiniteSets
CONSTANTS Posts,               \* the POSTs of the clients
          Requests, Scenarios, \* the requests a post may carry, which posts carry which
          None,
          PairedHooks,         \* pre-op hooks that have a post-op hook
          ExternalSampler,     \* a pool of servers samples, not the worker
          MaxAge, MaxEntries, SweepEvery,
          MaxClock, MaxSettled, MaxRestarts     \* bounds of the model

----------------------------------------------------------------------------
(* The routes: what a request must carry, whether its sequence number is   *)
(* looked up, and whether the gateway itself waits for the job.            *)
ForwardBackwardRoute == [needs |-> {"session", "data", "loss"}, keyed |-> TRUE, awaits |-> FALSE]
ForwardOnlyRoute == [needs |-> {"session", "data", "loss"}, keyed |-> TRUE, awaits |-> FALSE]
OptimStepRoute == [needs |-> {"session"}, keyed |-> TRUE, awaits |-> FALSE]
CustomStep1Route == [needs |-> {"session", "data", "custom_id"}, keyed |-> FALSE, awaits |-> FALSE]
CustomStep2Route ==
    [needs |-> {"session", "custom_id", "grad_logprobs"}, keyed |-> FALSE, awaits |-> FALSE]
ForwardRoute == [needs |-> {"session", "data"}, keyed |-> FALSE, awaits |-> FALSE]
AsampleRoute == [needs |-> {"model_id", "session"}, keyed |-> FALSE, awaits |-> FALSE]
LoadWeightsRoute ==
    [needs |-> {"session", "source_session", "checkpoint"}, keyed |-> FALSE, awaits |-> FALSE]
SaveWeightsRoute == [needs |-> {"session", "name"}, keyed |-> FALSE, awaits |-> TRUE]
SaveForSamplerRoute == [needs |-> {"session"}, keyed |-> FALSE, awaits |-> TRUE]

Routes == [forward_backward |-> ForwardBackwardRoute, forward_only |-> ForwardOnlyRoute,
           optim_step |-> OptimStepRoute, custom_step1 |-> CustomStep1Route,
           custom_step2 |-> CustomStep2Route, forward |-> ForwardRoute,
           asample |-> AsampleRoute, load_weights |-> LoadWeightsRoute,
           save_weights |-> SaveWeightsRoute, save_weights_for_sampler |-> SaveForSamplerRoute]

Ops == DOMAIN Routes
Seqs == {r.seq : r \in Requests}
Keys == {<<r.op, r.session>> : r \in Requests}

ASSUME PostsAssumption ==
    /\ IsFiniteSet(Posts) /\ None \notin Posts
    /\ Requests \subseteq [op : Ops, session : STRING, seq : Nat, lacks : SUBSET STRING]
    /\ Scenarios \subseteq [Posts -> Requests]
ASSUME BoundsAssumption ==
    /\ MaxAge \in Nat /\ MaxEntries \in Nat /\ SweepEvery \in Nat \ {0}
    /\ PairedHooks \in Nat /\ ExternalSampler \in BOOLEAN
    /\ MaxClock \in Nat /\ MaxSettled \in Nat /\ PairedHooks <= MaxSettled
    /\ MaxRestarts \in Nat

VARIABLES
    asks,       \* the request of each post
    stage,      \* how far the handler of a post has come
    job,        \* the job of a post, as the queue sees it
    live, born, \* _futures: the registered futures and their created_at
    registered, \* _futures._reg_count, modulo the sweep period
    seen, stamp,\* _seq_tracker: the response per key and sequence number, _ts
    checked,    \* _seq_tracker._check_count, modulo the sweep period
    reply,      \* the future a post was answered with
    poll,       \* the future a client's retrieve_future is waiting on
    got,        \* the answer retrieve_future returned, once it did
    settled,    \* how often the post-op hooks ran on a post's contexts, up to MaxSettled
    checkpoints,\* posts whose checkpoint record exists
    clock, restarts,
    epoch,      \* history: how often a key's entries were dropped
    since       \* history: the epoch of its key when a post was answered
vars == <<asks, stage, job, live, born, registered, seen, stamp, checked, reply, poll, got,
          settled, checkpoints, clock, restarts, epoch, since>>
registry == <<live, born, registered>>
tracker == <<seen, stamp, checked, epoch, since>>
client == <<poll, got>>
world == <<asks, clock, restarts>>

Route(p) == Routes[asks[p].op]
KeyOf(p) == <<asks[p].op, asks[p].session>>

Stages == {"new", "queued", "answered", "refused", "dropped"}
Answers == {"completed", "failed"}

TypeOK ==
    /\ asks \in Scenarios
    /\ stage \in [Posts -> Stages]
    /\ job \in [Posts -> {"none", "queued"} \cup Answers]
    /\ live \subseteq Posts /\ born \in [Posts -> Nat] /\ registered \in 0 .. SweepEvery - 1
    /\ seen \in [Keys -> [Seqs -> Posts \cup {None}]]
    /\ stamp \in [Keys -> Nat] /\ checked \in 0 .. SweepEvery - 1
    /\ reply \in [Posts -> Posts \cup {None}] /\ poll \in [Posts -> Posts \cup {None}]
    /\ got \in [Posts -> {"nothing", "inline", "not_found"} \cup Answers]
    /\ settled \in [Posts -> Nat] /\ checkpoints \subseteq Posts
    /\ clock \in Nat
    /\ restarts \in Nat
    /\ epoch \in [Keys -> Nat] /\ since \in [Posts -> Nat]

Init ==
    /\ asks \in Scenarios
    /\ stage = [p \in Posts |-> "new"] /\ job = [p \in Posts |-> "none"]
    /\ live = {} /\ born = [p \in Posts |-> 0] /\ registered = 0
    /\ seen = [k \in Keys |-> [n \in Seqs |-> None]] /\ stamp = [k \in Keys |-> 0] /\ checked = 0
    /\ reply = [p \in Posts |-> None] /\ poll = [p \in Posts |-> None]
    /\ got = [p \in Posts |-> "nothing"] /\ settled = [p \in Posts |-> 0]
    /\ checkpoints = {} /\ clock = 0
    /\ restarts = 0
    /\ epoch = [k \in Keys |-> 0] /\ since = [p \in Posts |-> 0]

----------------------------------------------------------------------------
(* The registry of futures *)
Stale(f) == born[f] + MaxAge < clock
\* What a sweep leaves: nothing older than MaxAge, then the newest MaxEntries.
Keeps(kept) ==
    LET fresh == {f \in live : ~ Stale(f)}
    IN  /\ kept \subseteq fresh
        /\ IF Cardinality(fresh) > MaxEntries
           THEN /\ Cardinality(kept) = MaxEntries
                /\ \A f \in fresh \ kept, g \in kept : born[f] <= born[g]
           ELSE kept = fresh

Register(f) ==
    /\ registered' = IF registered + 1 = SweepEvery THEN 0 ELSE registered + 1
    /\ \E kept \in SUBSET live :
          /\ IF registered' = 0 THEN Keeps(kept) ELSE kept = live
          /\ live' = kept \cup {f}
    /\ born' = [born EXCEPT ![f] = clock]

(* The registry of sequence numbers *)
Known(k) == \E n \in Seqs : seen[k][n] # None
Swept(k) == /\ checked + 1 = SweepEvery
            /\ Known(k)
            /\ stamp[k] + MaxAge < clock
CachedForSession(k, n) ==                                        \* mutant of Cached
    LET found == {seen[j][n] : j \in {j \in Keys : j[2] = k[2]}} \ {None}
    IN  IF n = 0 \/ found = {} THEN None ELSE CHOOSE f \in found : TRUE
Cached(k, n) == IF n = 0 \/ Swept(k) THEN None ELSE seen[k][n]
\* check, then the response to record for post p under its key (None: keep the cached one)
CheckAndRecord(p, resp) ==
    LET k == KeyOf(p)
        n == asks[p].seq
        records == n # 0 /\ resp # None
    IN  /\ checked' = IF checked + 1 = SweepEvery THEN 0 ELSE checked + 1
        /\ seen' = [j \in Keys |->
                      [m \in Seqs |-> IF records /\ j = k /\ m = n THEN resp
                                      ELSE IF Swept(j) THEN None ELSE seen[j][m]]]
        /\ stamp' = IF records THEN [stamp EXCEPT ![k] = clock] ELSE stamp
        /\ epoch' = [j \in Keys |-> IF Swept(j) THEN epoch[j] + 1 ELSE epoch[j]]
        /\ since' = [since EXCEPT ![p] = epoch'[k]]

(* _future_response and _idempotent_future_response *)
FutureResponse(p) ==
    /\ Register(p)
    /\ reply' = [reply EXCEPT ![p] = p]
    /\ UNCHANGED tracker

AlwaysNewFuture(p) ==                          \* mutant of IdempotentFutureResponse
    /\ CheckAndRecord(p, p)
    /\ Register(p)
    /\ reply' = [reply EXCEPT ![p] = p]
IdempotentFutureResponse(p) ==
    LET cached == Cached(KeyOf(p), asks[p].seq)
    IN  IF cached # None
        THEN /\ CheckAndRecord(p, None)
             /\ reply' = [reply EXCEPT ![p] = cached]
             /\ UNCHANGED registry
        ELSE /\ CheckAndRecord(p, p)
             /\ Register(p)
             /\ reply' = [reply EXCEPT ![p] = p]

----------------------------------------------------------------------------
(* The handler of a post *)
\* Lacking "session" stands for a session that is unknown, another user's or
\* terminated; GatewaySessions models how it comes to be so.
Admissible(p) == Route(p).needs \cap asks[p].lacks = {}
\* Without a pool of servers the worker has what a sampler needs already: no hooks, no job.
Enqueues(p) == ExternalSampler \/ asks[p].op # "save_weights_for_sampler"

\* The ownership and payload checks, the pre-op hooks and the enqueue.  The awaits
\* between them touch nothing another handler reads, so they make one step.
AdmitAndEnqueue(p) ==
    /\ stage[p] = "new" /\ (Enqueues(p) \/ ~ Admissible(p))
    /\ IF Admissible(p)
       THEN /\ stage' = [stage EXCEPT ![p] = "queued"]
            /\ job' = [job EXCEPT ![p] = "queued"]
       ELSE /\ stage' = [stage EXCEPT ![p] = "refused"]
            /\ UNCHANGED job
    /\ UNCHANGED <<registry, tracker, reply, client, settled, checkpoints, world>>

AnswerAtOnce(p) ==
    /\ stage[p] = "new" /\ ~ Enqueues(p) /\ Admissible(p)
    /\ checkpoints' = checkpoints \cup {p}
    /\ FutureResponse(p)
    /\ stage' = [stage EXCEPT ![p] = "answered"]
    /\ UNCHANGED <<job, client, settled, world>>

\* The response of a route that answers before its job has run.
Respond(p) ==
    /\ stage[p] = "queued" /\ ~ Route(p).awaits
    /\ IF Route(p).keyed THEN IdempotentFutureResponse(p) ELSE FutureResponse(p)
    /\ stage' = [stage EXCEPT ![p] = "answered"]
    /\ UNCHANGED <<job, client, settled, checkpoints, world>>

RunPostOpHooks(p) ==
    settled' = [settled EXCEPT ![p] = IF @ + PairedHooks > MaxSettled THEN @ ELSE @ + PairedHooks]

\* The gateway waited for the job itself (the two saves): its future holds the answer.
Awaited(p) ==
    /\ stage[p] = "queued" /\ Route(p).awaits /\ job[p] # "none"
    /\ RunPostOpHooks(p)
    /\ IF job[p] = "completed"
       THEN /\ stage' = [stage EXCEPT ![p] = "answered"]
            /\ checkpoints' = checkpoints \cup {p}
            /\ FutureResponse(p)
       ELSE /\ stage' = [stage EXCEPT ![p] = "refused"]   \* failed, or 60 s passed
            /\ UNCHANGED <<checkpoints, registry, tracker, reply>>
    /\ UNCHANGED <<job, client, world>>

(* The queue answers a job: what wait_for_result relies on *)
Answer(p) ==
    /\ job[p] = "queued" /\ \E a \in Answers : job' = [job EXCEPT ![p] = a]
    /\ UNCHANGED <<stage, registry, tracker, reply, client, settled, checkpoints, world>>

----------------------------------------------------------------------------
(* retrieve_future, by the client that sent post p *)
Inline(f) == Route(f).awaits

RetrieveFuture(p) ==
    /\ reply[p] # None /\ poll[p] = None
    /\ got[p] = "nothing"     \* a client stops once it has heard
    /\ IF reply[p] \notin live
       THEN got' = [got EXCEPT ![p] = "not_found"] /\ UNCHANGED poll
       ELSE IF Inline(reply[p])
       THEN got' = [got EXCEPT ![p] = "inline"] /\ UNCHANGED poll
       ELSE poll' = [poll EXCEPT ![p] = reply[p]] /\ UNCHANGED got
    /\ UNCHANGED <<stage, job, registry, tracker, reply, settled, checkpoints, world>>

WaitedSettlingSuccess(p) ==                                      \* mutant of Waited
    /\ poll[p] # None
    /\ IF job[poll[p]] = "completed" THEN RunPostOpHooks(poll[p]) ELSE UNCHANGED settled
    /\ got' = IF job[poll[p]] \in Answers THEN [got EXCEPT ![p] = job[poll[p]]] ELSE got
    /\ poll' = [poll EXCEPT ![p] = None]
    /\ UNCHANGED <<stage, job, registry, tracker, reply, checkpoints, world>>
WaitedOnSuccess(p) ==                                            \* mutant of Waited
    /\ poll[p] # None /\ RunPostOpHooks(poll[p])
    /\ got' = IF job[poll[p]] = "completed" THEN [got EXCEPT ![p] = "completed"] ELSE got
    /\ poll' = [poll EXCEPT ![p] = None]
    /\ UNCHANGED <<stage, job, registry, tracker, reply, checkpoints, world>>
\* wait_for_result has an answer, or timed out with the job still queued.
Waited(p) ==
    /\ poll[p] # None
    /\ RunPostOpHooks(poll[p])
    /\ got' = IF job[poll[p]] \in Answers THEN [got EXCEPT ![p] = job[poll[p]]]
                                           ELSE got       \* "try_again"
    /\ poll' = [poll EXCEPT ![p] = None]
    /\ UNCHANGED <<stage, job, registry, tracker, reply, checkpoints, world>>

----------------------------------------------------------------------------
(* The rest of the world *)
Tick ==
    /\ clock < MaxClock /\ clock' = clock + 1
    /\ UNCHANGED <<stage, job, registry, tracker, reply, client, settled, checkpoints,
                   asks, restarts>>

\* The gateway process restarts: both registries and every running handler are gone.
Restart ==
    /\ restarts < MaxRestarts /\ restarts' = restarts + 1
    /\ stage' = [p \in Posts |-> IF stage[p] = "queued" THEN "dropped" ELSE stage[p]]
    /\ live' = {} /\ registered' = 0 /\ checked' = 0
    /\ seen' = [k \in Keys |-> [n \in Seqs |-> None]]
    /\ stamp' = [k \in Keys |-> 0] /\ born' = [p \in Posts |-> 0]
    /\ epoch' = [k \in Keys |-> IF Known(k) THEN epoch[k] + 1 ELSE epoch[k]]
    /\ poll' = [p \in Posts |-> None]
    /\ UNCHANGED <<job, since, reply, got, settled, checkpoints, asks, clock>>

Handle(p) == AdmitAndEnqueue(p) \/ AnswerAtOnce(p) \/ Respond(p) \/ Awaited(p)
Client(p) == RetrieveFuture(p) \/ Waited(p)
Next == \/ \E p \in Posts : Handle(p) \/ Answer(p) \/ Client(p)
        \/ Tick \/ Restart

\* Handlers run on the gateway's event loop, clients poll until they hear, and
\* the queue answers every job (JobQueue and WorkerPool show when it does).
Fairness == \A p \in Posts : WF_vars(Handle(p)) /\ WF_vars(Answer(p)) /\ WF_vars(Client(p))
Spec == Init /\ [][Next]_vars /\ Fairness

----------------------------------------------------------------------------
(* Properties *)
SameRequest(p, q) == /\ asks[p].op = asks[q].op /\ asks[p].session = asks[q].session
                     /\ asks[p].seq = asks[q].seq
                     /\ Route(p).keyed /\ asks[p].seq # 0

\* However their handlers interleave, two posts of one numbered training request
\* are answered with one future, unless the tracker forgot the session in between.
RetriesAgree ==
    \A p, q \in Posts :
       (/\ SameRequest(p, q)
        /\ reply[p] # None /\ reply[q] # None
        /\ since[p] = since[q]) => reply[p] = reply[q]

\* The registry overshoots its limit only by what was registered since its last sweep.
FuturesBounded == Cardinality(live) <= MaxEntries + 1 + registered

\* A client is never handed the future of another request: of another operation or
\* session, or of another sequence number (the mix-up the operation prefix prevents).
FutureOfOwnRequest ==
    \A p \in Posts : reply[p] # None =>
       /\ asks[reply[p]].op = asks[p].op /\ asks[reply[p]].session = asks[p].session
       /\ asks[reply[p]].seq = asks[p].seq
       /\ Enqueues(reply[p]) => job[reply[p]] # "none"

\* A client that has an answer was settled for: the hold its operation took before it
\* was enqueued does not outlive the answer.
AnswerSettlesHold ==
    \A p \in Posts : got[p] \in Answers \cup {"inline"} /\ Enqueues(reply[p]) =>
                        settled[reply[p]] >= PairedHooks

\* Clients that keep polling all hear the answer of their future in the end, or that
\* it is gone: no future is left for ever unanswered.
PollersHearBack ==
    <>[](\A p \in Posts : reply[p] # None => got[p] # "nothing")

\* What tests/test_tinker_compat.py:531 says of a retry: "no duplicate job".
OneJobPerRequest ==
    \A p, q \in Posts : SameRequest(p, q) /\ job[p] # "none" /\ job[q] # "none" => p = q

\* What PostOpHook is documented to do: run after the job's result, once per pre-op.
SettledOnce == \A p \in Posts : settled[p] <= PairedHooks

\* A retry answered from the tracker names a future that can still be retrieved.
ReplyIsLive == [][\A p \in Posts : reply'[p] # reply[p] => reply'[p] \in live']_vars
=============================================================================
