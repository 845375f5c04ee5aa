------------------------ MODULE TinkerFuturesProofs ------------------------
(***************************************************************************)
(* What the request/future protocol guarantees for any posts, routes and   *)
(* bounds: retries agree, a client gets the future of its own request, an  *)
(* answered client was settled for, and the registry is bounded.           *)
(*                                                                         *)
(* The argument for retries: an entry of the tracker stays until its key   *)
(* is dropped as a whole (a sweep, a restart), which starts a new epoch of *)
(* the key.  So a reply given in the current epoch is what the tracker     *)
(* still holds (Remembered), and the next post of the request is answered  *)
(* with it.                                                                *)
(***************************************************************************)
EXTENDS TinkerFutures, TLAPS, FiniteSetTheorems

(* A reply is a future whose job exists, made for the same operation, session and number. *)
Owned == \A p \in Posts : reply[p] # None =>
            /\ asks[reply[p]].op = asks[p].op /\ asks[reply[p]].session = asks[p].session
            /\ asks[reply[p]].seq = asks[p].seq
            /\ Enqueues(reply[p]) => job[reply[p]] # "none"
            /\ stage[p] = "answered"

(* So is what the tracker holds under a key and a number. *)
Tracked == \A k \in Keys, n \in Seqs : seen[k][n] # None =>
              /\ KeyOf(seen[k][n]) = k /\ asks[seen[k][n]].seq = n
              /\ job[seen[k][n]] # "none"

Enqueued == \A p \in Posts : stage[p] = "queued" => job[p] # "none"

(* The reply of the current epoch is what the tracker holds. *)
Numbered(p) == Route(p).keyed /\ asks[p].seq # 0
Remembered == \A p \in Posts : reply[p] # None /\ Numbered(p) =>
                 /\ since[p] <= epoch[KeyOf(p)]
                 /\ since[p] = epoch[KeyOf(p)] => seen[KeyOf(p)][asks[p].seq] = reply[p]

(* Hooks run for all holds of a request or for none; the gateway has run them for a job it *)
(* waited for itself before it hands out the future.                                       *)
Settles == \A p \in Posts :
    /\ settled[p] = 0 \/ settled[p] >= PairedHooks
    /\ reply[p] # None /\ Route(reply[p]).awaits /\ Enqueues(reply[p]) =>
          settled[reply[p]] >= PairedHooks
    /\ poll[p] # None => poll[p] = reply[p]
    /\ got[p] \in Answers \cup {"inline"} =>
          reply[p] # None /\ (Enqueues(reply[p]) => settled[reply[p]] >= PairedHooks)

Inv == TypeOK /\ Owned /\ Tracked /\ Enqueued /\ Remembered /\ Settles /\ RetriesAgree
-----------------------------------------------------------------------------
LEMMA Bounds == /\ MaxEntries \in Nat /\ SweepEvery \in Nat /\ SweepEvery > 0
                /\ PairedHooks \in Nat /\ MaxSettled \in Nat /\ PairedHooks <= MaxSettled
                /\ IsFiniteSet(Posts) /\ None \notin Posts
BY PostsAssumption, BoundsAssumption

(* No route has both a sequence number and a gateway that waits. *)
LEMMA KeyedRoutes == \A op \in Ops : Routes[op].keyed => ~ Routes[op].awaits
BY DEF Ops, Routes, ForwardBackwardRoute, ForwardOnlyRoute, OptimStepRoute, CustomStep1Route,
   CustomStep2Route, ForwardRoute, AsampleRoute, LoadWeightsRoute, SaveWeightsRoute,
   SaveForSamplerRoute

LEMMA AsksOf ==
    ASSUME TypeOK, NEW p \in Posts
    PROVE  /\ asks[p] \in Requests /\ asks[p].op \in Ops /\ KeyOf(p) \in Keys
           /\ asks[p].seq \in Seqs /\ asks[p].seq \in Nat
           /\ Route(p).keyed => ~ Route(p).awaits
<1>1. asks[p] \in Requests
  BY PostsAssumption DEF TypeOK
<1>2. asks[p].op \in Ops /\ asks[p].seq \in Nat
  BY <1>1, PostsAssumption
<1> QED
  BY <1>1, <1>2, KeyedRoutes DEF Keys, Seqs, KeyOf, Route

LEMMA InvInit == Init => Inv
BY Bounds, SMT DEF Init, Inv, TypeOK, Owned, Tracked, Enqueued, Remembered, Settles, RetriesAgree,
   Stages, Answers

-----------------------------------------------------------------------------
(* What a sweep leaves was there, and Register adds one future. *)
LEMMA RegisterTypes ==
    ASSUME TypeOK, NEW f \in Posts, Register(f)
    PROVE  /\ live' \subseteq Posts /\ born' \in [Posts -> Nat]
           /\ registered' \in 0 .. SweepEvery - 1
BY Bounds DEF TypeOK, Register

(* What the tracker's check does to its entries: they stay, are replaced by the response, *)
(* or go with their whole key and its epoch.                                              *)
LEMMA CheckKeeps ==
    ASSUME TypeOK, NEW p \in Posts, NEW resp \in Posts \cup {None}, CheckAndRecord(p, resp)
    PROVE  /\ seen' \in [Keys -> [Seqs -> Posts \cup {None}]]
           /\ stamp' \in [Keys -> Nat] /\ checked' \in 0 .. SweepEvery - 1
           /\ epoch' \in [Keys -> Nat]
           /\ since' = [since EXCEPT ![p] = epoch'[KeyOf(p)]] /\ since' \in [Posts -> Nat]
           /\ \A k \in Keys : IF Swept(k) THEN epoch'[k] = epoch[k] + 1 ELSE epoch'[k] = epoch[k]
           /\ \A k \in Keys, n \in Seqs :
                 seen'[k][n] = IF asks[p].seq # 0 /\ resp # None /\ k = KeyOf(p) /\ n = asks[p].seq
                               THEN resp
                               ELSE IF Swept(k) THEN None ELSE seen[k][n]
<1>1. KeyOf(p) \in Keys
  BY AsksOf
<1>2. seen' \in [Keys -> [Seqs -> Posts \cup {None}]]
  BY DEF TypeOK, CheckAndRecord
<1>3. stamp' \in [Keys -> Nat] /\ checked' \in 0 .. SweepEvery - 1 /\ epoch' \in [Keys -> Nat]
  BY <1>1, Bounds DEF TypeOK, CheckAndRecord
<1>4. since' = [since EXCEPT ![p] = epoch'[KeyOf(p)]]
  BY DEF CheckAndRecord
<1> QED
  BY <1>1, <1>2, <1>3, <1>4 DEF TypeOK, CheckAndRecord

(* The answer of an idempotent route, whichever of its two branches gave it. *)
LEMMA IdempotentReply ==
    ASSUME TypeOK, Tracked, NEW p \in Posts, IdempotentFutureResponse(p),
           job[p] # "none"
    PROVE  \E f \in Posts :
              /\ reply' = [reply EXCEPT ![p] = f]
              /\ KeyOf(f) = KeyOf(p) /\ asks[f].seq = asks[p].seq /\ job[f] # "none"
              /\ \/ f = seen[KeyOf(p)][asks[p].seq] /\ asks[p].seq # 0 /\ ~ Swept(KeyOf(p))
                    /\ CheckAndRecord(p, None) /\ UNCHANGED registry
                 \/ f = p /\ Cached(KeyOf(p), asks[p].seq) = None
                    /\ CheckAndRecord(p, p) /\ Register(p)
<1> DEFINE cached == Cached(KeyOf(p), asks[p].seq)
<1>1. KeyOf(p) \in Keys /\ asks[p].seq \in Seqs
  BY AsksOf
<1>2. CASE cached # None
  <2>1. cached = seen[KeyOf(p)][asks[p].seq] /\ asks[p].seq # 0 /\ ~ Swept(KeyOf(p))
    BY <1>2 DEF Cached
  <2>2. cached \in Posts /\ KeyOf(cached) = KeyOf(p) /\ asks[cached].seq = asks[p].seq
        /\ job[cached] # "none"
    BY <1>1, <1>2, <2>1 DEF TypeOK, Tracked
  <2> QED
    BY <1>2, <2>1, <2>2 DEF IdempotentFutureResponse
<1>3. CASE cached = None
  BY <1>3 DEF IdempotentFutureResponse
<1> QED
  BY <1>2, <1>3

-----------------------------------------------------------------------------
(* What a step of a client, the clock or nobody leaves as it was. *)
LEMMA Still ==
    ASSUME Inv, UNCHANGED <<asks, stage, job, reply, seen, epoch, since>>
    PROVE  Owned' /\ Enqueued' /\ Tracked' /\ Remembered' /\ RetriesAgree'
<1>1. Owned' /\ Enqueued'
  BY DEF Inv, Owned, Enqueued, Enqueues
<1>2. Tracked'
  BY DEF Inv, Tracked, KeyOf
<1>3. Remembered'
  BY DEF Inv, Remembered, Numbered, Route, KeyOf
<1>4. RetriesAgree'
  BY DEF Inv, RetriesAgree, SameRequest, Route
<1> QED
  BY <1>1, <1>2, <1>3, <1>4

LEMMA InvAdmit == ASSUME Inv, NEW p \in Posts, AdmitAndEnqueue(p) PROVE Inv'
<1>1. /\ UNCHANGED <<asks, live, born, registered, seen, stamp, checked, epoch, since, reply,
                     poll, got, settled, checkpoints, clock, restarts>>
      /\ stage' \in [Posts -> Stages] /\ job' \in [Posts -> {"none", "queued"} \cup Answers]
      /\ \A q \in Posts : /\ job[q] # "none" => job'[q] # "none"
                          /\ stage[q] = "answered" => stage'[q] = "answered"
                          /\ stage'[q] = "queued" => stage[q] = "queued" \/ job'[q] # "none"
  BY DEF Inv, TypeOK, AdmitAndEnqueue, registry, tracker, client, world, Stages
<1>2. TypeOK'
  BY <1>1 DEF Inv, TypeOK
<1>3. Owned' /\ Enqueued'
  BY <1>1 DEF Inv, TypeOK, Owned, Enqueued, Enqueues
<1>4. Tracked'
  <2>1. \A k \in Keys, n \in Seqs : seen[k][n] # None => seen[k][n] \in Posts
    BY DEF Inv, TypeOK
  <2> QED
    BY <1>1, <2>1 DEF Inv, Tracked, KeyOf
<1>5. Remembered' /\ Settles' /\ RetriesAgree'
  BY <1>1 DEF Inv, Remembered, Numbered, Settles, RetriesAgree, SameRequest, Route, KeyOf, Enqueues
<1> QED
  BY <1>2, <1>3, <1>4, <1>5 DEF Inv

(* A route without a number: the post is answered with its own future. *)
LEMMA InvOwnFuture ==
    ASSUME Inv, NEW p \in Posts, stage[p] \in {"new", "queued"}, FutureResponse(p),
           ~ Route(p).keyed, stage[p] = "new" => ~ Enqueues(p),
           stage' = [stage EXCEPT ![p] = "answered"],
           settled' \in [Posts -> Nat],
           \A q \in Posts : /\ settled'[q] = 0 \/ settled'[q] >= PairedHooks
                            /\ settled[q] >= PairedHooks => settled'[q] >= PairedHooks,
           Route(p).awaits /\ Enqueues(p) => settled'[p] >= PairedHooks,
           checkpoints' \subseteq Posts, UNCHANGED <<job, poll, got, asks, clock, restarts>>
    PROVE  Inv'
<1>1. reply' = [reply EXCEPT ![p] = p] /\ UNCHANGED <<seen, stamp, checked, epoch, since>>
  BY DEF FutureResponse, tracker
<1>2. live' \subseteq Posts /\ born' \in [Posts -> Nat] /\ registered' \in 0 .. SweepEvery - 1
  BY RegisterTypes DEF FutureResponse, Inv
<1>3. TypeOK'
  BY <1>1, <1>2 DEF Inv, TypeOK, Stages
<1>4. Owned' /\ Enqueued'
  BY <1>1, <1>3, Bounds DEF Inv, TypeOK, Owned, Enqueued, Enqueues
<1>5. Tracked'
  BY <1>1 DEF Inv, Tracked, KeyOf
<1>6. Remembered'
  BY <1>1 DEF Inv, TypeOK, Remembered, Numbered, Route, KeyOf
<1>7. Settles'
  <2>1. ASSUME NEW q \in Posts, q # p
        PROVE  /\ reply'[q] = reply[q]
               /\ reply[q] # None => reply[q] \in Posts
    BY <2>1, <1>1 DEF Inv, TypeOK
  <2>2. reply[p] = None /\ poll[p] = None /\ ~ (got[p] \in Answers \cup {"inline"})
    BY DEF Inv, Owned, Settles
  <2>3. reply'[p] = p
    BY <1>1 DEF Inv, TypeOK
  <2> QED
    BY <2>1, <2>2, <2>3 DEF Inv, Settles, Route, Enqueues
<1>8. RetriesAgree'
  BY <1>1 DEF Inv, TypeOK, RetriesAgree, SameRequest, Route, KeyOf
<1> QED
  BY <1>3, <1>4, <1>5, <1>6, <1>7, <1>8 DEF Inv

(* A numbered route: the post is answered with the tracker's future, or with its own. *)
LEMMA InvSharedFuture ==
    ASSUME Inv, NEW p \in Posts, stage[p] = "queued", IdempotentFutureResponse(p),
           Route(p).keyed, stage' = [stage EXCEPT ![p] = "answered"],
           UNCHANGED <<job, poll, got, settled, checkpoints, asks, clock, restarts>>
    PROVE  Inv'
<1>0. job[p] # "none"
  BY DEF Inv, Enqueued
<1>1. PICK f \in Posts :
         /\ reply' = [reply EXCEPT ![p] = f]
         /\ KeyOf(f) = KeyOf(p) /\ asks[f].seq = asks[p].seq /\ job[f] # "none"
         /\ \/ f = seen[KeyOf(p)][asks[p].seq] /\ asks[p].seq # 0 /\ ~ Swept(KeyOf(p))
               /\ CheckAndRecord(p, None) /\ UNCHANGED registry
            \/ f = p /\ Cached(KeyOf(p), asks[p].seq) = None
               /\ CheckAndRecord(p, p) /\ Register(p)
  BY <1>0, IdempotentReply DEF Inv
<1>2. PICK resp \in Posts \cup {None} : /\ CheckAndRecord(p, resp)
                                        /\ resp = None \/ resp = f
  BY <1>1
<1> DEFINE k == KeyOf(p)  n == asks[p].seq
<1>3. k \in Keys /\ n \in Seqs /\ ~ Route(p).awaits
  BY AsksOf DEF Inv
<1>4. /\ seen' \in [Keys -> [Seqs -> Posts \cup {None}]]
      /\ stamp' \in [Keys -> Nat] /\ checked' \in 0 .. SweepEvery - 1
      /\ epoch' \in [Keys -> Nat]
      /\ since' = [since EXCEPT ![p] = epoch'[k]] /\ since' \in [Posts -> Nat]
      /\ \A j \in Keys : IF Swept(j) THEN epoch'[j] = epoch[j] + 1 ELSE epoch'[j] = epoch[j]
      /\ \A j \in Keys, m \in Seqs :
            seen'[j][m] = IF n # 0 /\ resp # None /\ j = k /\ m = n THEN resp
                          ELSE IF Swept(j) THEN None ELSE seen[j][m]
  BY <1>2, CheckKeeps DEF Inv
<1>5. TypeOK'
  <2>1. live' \subseteq Posts /\ born' \in [Posts -> Nat] /\ registered' \in 0 .. SweepEvery - 1
    BY <1>1, RegisterTypes DEF Inv, TypeOK, registry
  <2> QED
    BY <1>1, <1>4, <2>1 DEF Inv, TypeOK, Stages
<1>6. f \in Posts /\ f # None /\ reply'[p] = f /\ \A q \in Posts : q # p => reply'[q] = reply[q]
  BY <1>1, Bounds DEF Inv, TypeOK
<1>7. asks[f].op = asks[p].op /\ asks[f].session = asks[p].session
  BY <1>1 DEF KeyOf
<1>8. Owned' /\ Enqueued'
  BY <1>1, <1>6, <1>7 DEF Inv, TypeOK, Owned, Enqueued, Enqueues
<1>9. Tracked'
  <2> SUFFICES ASSUME NEW j \in Keys, NEW m \in Seqs, seen'[j][m] # None
               PROVE  /\ KeyOf(seen'[j][m]) = j /\ asks[seen'[j][m]].seq = m
                      /\ job[seen'[j][m]] # "none"
    BY DEF Tracked, KeyOf
  <2>1. CASE seen'[j][m] = seen[j][m]
    BY <2>1 DEF Inv, Tracked
  <2>2. CASE seen'[j][m] = resp /\ j = k /\ m = n
    BY <2>2, <1>1, <1>2
  <2> QED
    BY <1>4, <2>1, <2>2
\* What the tracker holds from now on under this number, and what was said before.
<1>10. n # 0 => seen'[k][n] = f
  BY <1>1, <1>2, <1>3, <1>4, <1>6, CheckKeeps, Bounds DEF Inv
<1>11. \A q \in Posts : q # p => since'[q] = since[q]
  BY <1>4 DEF Inv, TypeOK
<1>12. since'[p] = epoch'[k]
  BY <1>4 DEF Inv, TypeOK
<1>13. \A q \in Posts : reply[q] # None /\ Numbered(q) /\ since[q] = epoch'[KeyOf(q)] =>
          ~ Swept(KeyOf(q)) /\ seen[KeyOf(q)][asks[q].seq] = reply[q]
  <2> SUFFICES ASSUME NEW q \in Posts, reply[q] # None, Numbered(q),
                      since[q] = epoch'[KeyOf(q)]
               PROVE  ~ Swept(KeyOf(q)) /\ seen[KeyOf(q)][asks[q].seq] = reply[q]
    OBVIOUS
  <2>1. KeyOf(q) \in Keys /\ since[q] <= epoch[KeyOf(q)] /\ epoch[KeyOf(q)] \in Nat
    BY AsksOf DEF Inv, Remembered, TypeOK
  <2>2. ~ Swept(KeyOf(q))
    BY <2>1, <1>4
  <2> QED
    BY <2>1, <2>2, <1>4 DEF Inv, Remembered
<1>14. \A q \in Posts : q # p /\ reply[q] # None /\ Numbered(q) /\ KeyOf(q) = k
                          /\ asks[q].seq = n /\ since[q] = epoch'[k] => reply[q] = f
  <2> SUFFICES ASSUME NEW q \in Posts, reply[q] # None, Numbered(q), KeyOf(q) = k,
                      asks[q].seq = n, since[q] = epoch'[k]
               PROVE  reply[q] = f
    OBVIOUS
  <2>1. ~ Swept(k) /\ seen[k][n] = reply[q] /\ n # 0
    BY <1>13 DEF Numbered
  <2>2. Cached(k, n) = reply[q]
    BY <2>1 DEF Cached
  <2> QED
    BY <1>1, <2>1, <2>2
<1>15. Remembered'
  <2> SUFFICES ASSUME NEW q \in Posts, reply'[q] # None, Numbered(q)
               PROVE  /\ since'[q] <= epoch'[KeyOf(q)]
                      /\ since'[q] = epoch'[KeyOf(q)] =>
                            seen'[KeyOf(q)][asks[q].seq] = reply'[q]
    BY DEF Remembered, Numbered, Route, KeyOf
  <2>1. KeyOf(q) \in Keys /\ asks[q].seq \in Seqs /\ epoch[KeyOf(q)] \in Nat
        /\ epoch'[KeyOf(q)] \in Nat /\ since[q] \in Nat
    BY AsksOf, <1>4 DEF Inv, TypeOK
  <2>2. CASE q = p
    BY <2>1, <2>2, <1>6, <1>10, <1>12 DEF Numbered
  <2>3. CASE q # p
    <3>1. since'[q] = since[q] /\ reply'[q] = reply[q] /\ since[q] <= epoch[KeyOf(q)]
      BY <2>3, <1>6, <1>11 DEF Inv, Remembered
    <3>2. since[q] <= epoch'[KeyOf(q)]
      BY <2>1, <3>1, <1>4
    <3>3. ASSUME since[q] = epoch'[KeyOf(q)]
          PROVE  seen'[KeyOf(q)][asks[q].seq] = reply[q]
      <4>1. ~ Swept(KeyOf(q)) /\ seen[KeyOf(q)][asks[q].seq] = reply[q]
        BY <3>1, <3>3, <1>13
      <4>2. CASE KeyOf(q) = k /\ asks[q].seq = n
        BY <4>2, <3>1, <3>3, <2>3, <1>14, <1>10 DEF Numbered
      <4>3. CASE ~ (KeyOf(q) = k /\ asks[q].seq = n)
        BY <4>1, <4>3, <2>1, <1>4
      <4> QED
        BY <4>2, <4>3
    <3> QED
      BY <3>1, <3>2, <3>3
  <2> QED
    BY <2>2, <2>3
<1>16. RetriesAgree'
  <2>1. \A q \in Posts : SameRequest(q, p) \/ SameRequest(p, q) =>
           Numbered(q) /\ KeyOf(q) = k /\ asks[q].seq = n
    BY DEF SameRequest, Numbered, KeyOf, Route
  <2>2. ASSUME NEW q \in Posts, NEW r \in Posts, SameRequest(q, r),
               reply'[q] # None, reply'[r] # None, since'[q] = since'[r]
        PROVE  reply'[q] = reply'[r]
    <3>1. CASE q # p /\ r # p
      BY <2>2, <3>1, <1>6, <1>11 DEF Inv, RetriesAgree
    <3>2. CASE q = p /\ r # p
      BY <2>1, <2>2, <3>2, <1>6, <1>11, <1>12, <1>14
    <3>3. CASE q # p /\ r = p
      BY <2>1, <2>2, <3>3, <1>6, <1>11, <1>12, <1>14
    <3> QED
      BY <3>1, <3>2, <3>3
  <2> QED
    BY <2>2 DEF RetriesAgree, SameRequest, Route
<1>17. Settles'
  <2>1. Route(f).awaits = Route(p).awaits
    BY <1>7 DEF Route
  <2>2. reply[p] = None /\ poll[p] = None /\ ~ (got[p] \in Answers \cup {"inline"})
    BY DEF Inv, Owned, Settles
  <2> QED
    BY <2>1, <2>2, <1>3, <1>6 DEF Inv, Settles, Route, Enqueues
<1> QED
  BY <1>5, <1>8, <1>9, <1>15, <1>16, <1>17 DEF Inv

(* The hooks of one post run: its count jumps past a whole round of holds. *)
LEMMA HooksRun ==
    ASSUME TypeOK, Settles, NEW p \in Posts, RunPostOpHooks(p)
    PROVE  /\ settled' \in [Posts -> Nat] /\ settled'[p] >= PairedHooks
           /\ \A q \in Posts : /\ settled'[q] = 0 \/ settled'[q] >= PairedHooks
                               /\ settled[q] >= PairedHooks => settled'[q] >= PairedHooks
BY Bounds DEF TypeOK, Settles, RunPostOpHooks

LEMMA InvRespond == ASSUME Inv, NEW p \in Posts, Respond(p) PROVE Inv'
<1>1. CASE Route(p).keyed
  BY <1>1, InvSharedFuture DEF Respond, client, world
<1>2. CASE ~ Route(p).keyed
  <2>1. settled \in [Posts -> Nat] /\ checkpoints \subseteq Posts
        /\ \A q \in Posts : settled[q] = 0 \/ settled[q] >= PairedHooks
    BY DEF Inv, TypeOK, Settles
  <2> QED
    BY <1>2, <2>1, InvOwnFuture DEF Respond, client, world
<1> QED
  BY <1>1, <1>2

LEMMA InvAnswerAtOnce == ASSUME Inv, NEW p \in Posts, AnswerAtOnce(p) PROVE Inv'
<1>1. asks[p].op = "save_weights_for_sampler"
  BY DEF AnswerAtOnce, Enqueues
<1>2. ~ Route(p).keyed
  BY <1>1 DEF Route, Routes, SaveForSamplerRoute
<1>3. settled \in [Posts -> Nat] /\ checkpoints \subseteq Posts
      /\ \A q \in Posts : settled[q] = 0 \/ settled[q] >= PairedHooks
  BY DEF Inv, TypeOK, Settles
<1> QED
  BY <1>2, <1>3, InvOwnFuture DEF AnswerAtOnce, client, world

LEMMA InvAwaited == ASSUME Inv, NEW p \in Posts, Awaited(p) PROVE Inv'
<1>1. ~ Route(p).keyed /\ checkpoints \subseteq Posts
  BY AsksOf DEF Awaited, Inv, TypeOK
<1>2. /\ settled' \in [Posts -> Nat] /\ settled'[p] >= PairedHooks
      /\ \A q \in Posts : /\ settled'[q] = 0 \/ settled'[q] >= PairedHooks
                          /\ settled[q] >= PairedHooks => settled'[q] >= PairedHooks
  BY HooksRun DEF Awaited, Inv
<1>3. CASE job[p] = "completed"
  BY <1>1, <1>2, <1>3, InvOwnFuture DEF Awaited, client, world
<1>4. CASE job[p] # "completed"
  <2>1. /\ stage[p] = "queued" /\ stage' = [stage EXCEPT ![p] = "refused"]
        /\ UNCHANGED <<asks, job, live, born, registered, seen, stamp, checked, epoch, since,
                       reply, poll, got, checkpoints, clock, restarts>>
    BY <1>4 DEF Awaited, registry, tracker, client, world
  <2>2. TypeOK'
    BY <1>2, <2>1 DEF Inv, TypeOK, Stages
  <2>3. Owned' /\ Enqueued' /\ Tracked'
    BY <2>1 DEF Inv, TypeOK, Owned, Enqueued, Tracked, KeyOf, Enqueues
  <2>4. Remembered' /\ RetriesAgree'
    BY <2>1 DEF Inv, Remembered, Numbered, RetriesAgree, SameRequest, Route, KeyOf
  <2>5. Settles'
    <3>1. \A q \in Posts : reply[q] # None => reply[q] \in Posts
      BY DEF Inv, TypeOK
    <3> QED
      BY <1>2, <2>1, <3>1 DEF Inv, Settles, Route, Enqueues
  <2> QED
    BY <2>2, <2>3, <2>4, <2>5 DEF Inv
<1> QED
  BY <1>3, <1>4

LEMMA InvAnswer == ASSUME Inv, NEW p \in Posts, Answer(p) PROVE Inv'
<1>1. /\ UNCHANGED <<asks, stage, live, born, registered, seen, stamp, checked, epoch, since,
                     reply, poll, got, settled, checkpoints, clock, restarts>>
      /\ job' \in [Posts -> {"none", "queued"} \cup Answers]
      /\ \A q \in Posts : job[q] # "none" => job'[q] # "none"
  BY DEF Inv, TypeOK, Answer, registry, tracker, client, world, Answers
<1>2. TypeOK' /\ Owned' /\ Enqueued'
  BY <1>1 DEF Inv, TypeOK, Owned, Enqueued, Enqueues
<1>3. Tracked'
  <2>1. \A k \in Keys, n \in Seqs : seen[k][n] # None => seen[k][n] \in Posts
    BY DEF Inv, TypeOK
  <2> QED
    BY <1>1, <2>1 DEF Inv, Tracked, KeyOf
<1>4. Remembered' /\ Settles' /\ RetriesAgree'
  BY <1>1 DEF Inv, Remembered, Numbered, Settles, RetriesAgree, SameRequest, Route, KeyOf, Enqueues
<1> QED
  BY <1>2, <1>3, <1>4 DEF Inv

LEMMA InvClient == ASSUME Inv, NEW p \in Posts, Client(p) PROVE Inv'
<1>1. UNCHANGED <<asks, stage, job, live, born, registered, seen, stamp, checked, epoch, since,
                  reply, checkpoints, clock, restarts>>
  BY DEF Client, RetrieveFuture, Waited, registry, tracker, client, world
<1>2. Owned' /\ Enqueued' /\ Tracked' /\ Remembered' /\ RetriesAgree'
  BY <1>1, Still
<1>3. CASE RetrieveFuture(p)
  <2>1. poll' \in [Posts -> Posts \cup {None}] /\ UNCHANGED settled
        /\ got' \in [Posts -> {"nothing", "inline", "not_found"} \cup Answers]
    BY <1>3 DEF RetrieveFuture, Inv, TypeOK
  <2>2. TypeOK'
    BY <1>1, <2>1 DEF Inv, TypeOK
  <2>3. Settles'
    BY <1>1, <1>3, Bounds DEF RetrieveFuture, Inline, Inv, TypeOK, Settles, Route, Answers, Enqueues
  <2> QED
    BY <1>2, <2>2, <2>3 DEF Inv
<1>4. CASE Waited(p)
  <2>1. poll[p] = reply[p] /\ poll[p] \in Posts /\ RunPostOpHooks(poll[p])
    BY <1>4 DEF Waited, Inv, TypeOK, Settles
  <2>2. /\ settled' \in [Posts -> Nat] /\ settled'[poll[p]] >= PairedHooks
        /\ \A q \in Posts : /\ settled'[q] = 0 \/ settled'[q] >= PairedHooks
                            /\ settled[q] >= PairedHooks => settled'[q] >= PairedHooks
    BY <2>1, HooksRun DEF Inv
  <2>3. /\ poll' = [poll EXCEPT ![p] = None]
        /\ got' = IF job[poll[p]] \in Answers THEN [got EXCEPT ![p] = job[poll[p]]] ELSE got
    BY <1>4 DEF Waited
  <2>4. TypeOK'
    BY <1>1, <2>2, <2>3 DEF Inv, TypeOK
  <2>5. Settles'
    <3>1. \A q \in Posts : reply[q] # None => reply[q] \in Posts
      BY DEF Inv, TypeOK
    <3>2. \A q \in Posts : got'[q] = got[q] \/ (q = p /\ reply[p] \in Posts)
      BY <2>1, <2>3 DEF Inv, TypeOK
    <3>3. \A q \in Posts : poll'[q] = None \/ poll'[q] = poll[q]
      BY <2>3 DEF Inv, TypeOK
    <3> QED
      BY <1>1, <2>1, <2>2, <3>1, <3>2, <3>3, Bounds DEF Inv, Settles, Route, Enqueues
  <2> QED
    BY <1>2, <2>4, <2>5 DEF Inv
<1> QED
  BY <1>3, <1>4 DEF Client

LEMMA InvTick == ASSUME Inv, Tick PROVE Inv'
<1>1. clock' \in Nat /\ UNCHANGED <<asks, stage, job, live, born, registered, seen, stamp,
         checked, epoch, since, reply, poll, got, settled, checkpoints, restarts>>
  BY DEF Tick, Inv, TypeOK, registry, tracker, client
<1>2. TypeOK' /\ Settles'
  BY <1>1 DEF Inv, TypeOK, Settles, Route, Enqueues
<1> QED
  BY <1>1, <1>2, Still DEF Inv

(* After a restart no reply belongs to the epoch of its key. *)
LEMMA InvRestart == ASSUME Inv, Restart PROVE Inv'
<1>1. /\ UNCHANGED <<asks, job, since, reply, got, settled, checkpoints, clock>>
      /\ stage' = [p \in Posts |-> IF stage[p] = "queued" THEN "dropped" ELSE stage[p]]
      /\ seen' = [k \in Keys |-> [n \in Seqs |-> None]]
      /\ epoch' = [k \in Keys |-> IF Known(k) THEN epoch[k] + 1 ELSE epoch[k]]
      /\ poll' = [p \in Posts |-> None]
  BY DEF Restart
<1>2. TypeOK'
  BY <1>1, Bounds DEF Restart, Inv, TypeOK, Stages
<1>3. Owned' /\ Enqueued'
  BY <1>1 DEF Inv, TypeOK, Owned, Enqueued, Enqueues
<1>4. Tracked'
  BY <1>1 DEF Tracked
<1>5. Remembered'
  <2> SUFFICES ASSUME NEW q \in Posts, reply[q] # None, Numbered(q)
               PROVE  since[q] < epoch'[KeyOf(q)]
    <3>1. \A q \in Posts : Numbered(q)' <=> Numbered(q)
      BY <1>1 DEF Numbered, Route
    <3>2. \A q \in Posts : KeyOf(q)' = KeyOf(q) /\ KeyOf(q) \in Keys /\ since[q] \in Nat
      BY <1>1, AsksOf DEF KeyOf, Inv, TypeOK
    <3>3. \A k \in Keys : epoch'[k] \in Nat
      BY <1>2 DEF TypeOK
    <3>4. ASSUME NEW q \in Posts, reply'[q] # None, Numbered(q)'
          PROVE  since'[q] <= epoch'[KeyOf(q)'] /\ since'[q] # epoch'[KeyOf(q)']
      <4>1. Numbered(q) /\ reply[q] # None /\ since'[q] = since[q] /\ KeyOf(q)' = KeyOf(q)
        BY <1>1, <3>1, <3>2, <3>4
      <4> QED
        BY <4>1, <3>2, <3>3
    <3> QED
      BY <3>4 DEF Remembered
  <2>1. KeyOf(q) \in Keys /\ asks[q].seq \in Seqs /\ since[q] \in Nat
        /\ epoch[KeyOf(q)] \in Nat
    BY AsksOf DEF Inv, TypeOK
  <2>2. /\ since[q] <= epoch[KeyOf(q)]
        /\ since[q] = epoch[KeyOf(q)] => seen[KeyOf(q)][asks[q].seq] = reply[q]
    BY DEF Inv, Remembered
  <2>3. since[q] = epoch[KeyOf(q)] => Known(KeyOf(q))
    BY <2>1, <2>2 DEF Known
  <2> QED
    BY <1>1, <2>1, <2>2, <2>3
<1>6. RetriesAgree' /\ Settles'
  BY <1>1 DEF Inv, RetriesAgree, SameRequest, Route, KeyOf, Settles, Enqueues
<1> QED
  BY <1>2, <1>3, <1>4, <1>5, <1>6 DEF Inv

LEMMA InvNext == ASSUME Inv, [Next]_vars PROVE Inv'
<1>1. CASE UNCHANGED vars
  <2>1. TypeOK' /\ Settles'
    BY <1>1 DEF vars, Inv, TypeOK, Settles, Route, Enqueues
  <2> QED
    BY <1>1, <2>1, Still DEF vars, Inv
<1> QED
  BY <1>1, InvAdmit, InvAnswerAtOnce, InvRespond, InvAwaited, InvAnswer, InvClient, InvTick, InvRestart
     DEF Next, Handle

(* For any posts and however their handlers interleave, restart and forget: the posts of one *)
(* numbered request agree on their future, no client holds the future of another request,    *)
(* and who has an answer was settled for.                                                    *)
THEOREM FuturesInvariant ==
    Spec => [](TypeOK /\ RetriesAgree /\ FutureOfOwnRequest /\ AnswerSettlesHold)
<1>1. Init => Inv
  BY InvInit
<1>2. Inv /\ [Next]_vars => Inv'
  BY InvNext
<1>3. Inv => TypeOK /\ RetriesAgree /\ FutureOfOwnRequest /\ AnswerSettlesHold
  BY DEF Inv, Owned, Settles, FutureOfOwnRequest, AnswerSettlesHold
<1> QED
  BY <1>1, <1>2, <1>3, PTL DEF Spec

(* A client only ever holds, and polls, the future of a request it posted itself, although *)
(* futures outlive the posts, the sequence numbers and the gateway that handed them out.   *)
THEOREM NobodyElsesFuture == Spec => []FutureOfOwnRequest
BY FuturesInvariant, PTL

(* Nobody is told a result while the tokens reserved for the job are still on hold: the   *)
(* hold of an answered request was settled.                                               *)
THEOREM AnsweredMeansSettled == Spec => []AnswerSettlesHold
BY FuturesInvariant, PTL

-----------------------------------------------------------------------------
LEMMA SizeOf == ASSUME NEW S \in SUBSET Posts, NEW f \in Posts
                PROVE  /\ Cardinality(S) \in Nat
                       /\ Cardinality(S \cup {f}) \in Nat
                       /\ Cardinality(S \cup {f}) <= Cardinality(S) + 1
<1>1. IsFiniteSet(S)
  BY Bounds, FS_Subset
<1> QED
  BY <1>1, FS_AddElement, FS_CardinalityType

LEMMA BoundedNext == ASSUME TypeOK, FuturesBounded, [Next]_vars PROVE FuturesBounded'
<1>1. ASSUME NEW f \in Posts, Register(f) PROVE FuturesBounded'
  <2>1. PICK kept \in SUBSET live :
           /\ IF registered' = 0 THEN Keeps(kept) ELSE kept = live
           /\ live' = kept \cup {f}
    BY <1>1 DEF Register
  <2>2. live \in SUBSET Posts /\ kept \in SUBSET Posts /\ registered \in Nat
    BY Bounds DEF TypeOK
  <2>3. CASE registered' = 0
    <3>1. Cardinality(kept) <= MaxEntries
      <4> DEFINE fresh == {g \in live : ~ Stale(g)}
      <4>1. fresh \in SUBSET Posts
        BY <2>2
      <4>2. Cardinality(fresh) \in Nat
        BY <4>1, SizeOf, <1>1
      <4>3. Keeps(kept)
        BY <2>1, <2>3
      <4> QED
        BY <4>2, <4>3, Bounds DEF Keeps
    <3> QED
      BY <2>1, <2>2, <2>3, <3>1, SizeOf, Bounds DEF FuturesBounded
  <2>4. CASE registered' # 0
    <3>1. kept = live /\ registered' = registered + 1
      BY <1>1, <2>1, <2>4 DEF Register
    <3> QED
      BY <2>1, <2>2, <3>1, SizeOf, Bounds DEF FuturesBounded
  <2> QED
    BY <2>3, <2>4
<1>2. CASE UNCHANGED registry
  BY <1>2 DEF registry, FuturesBounded
<1>3. ASSUME NEW p \in Posts, IdempotentFutureResponse(p) PROVE FuturesBounded'
  BY <1>1, <1>2, <1>3 DEF IdempotentFutureResponse
<1>4. ASSUME NEW p \in Posts, Respond(p) \/ AnswerAtOnce(p) \/ Awaited(p) PROVE FuturesBounded'
  BY <1>1, <1>2, <1>3, <1>4 DEF Respond, AnswerAtOnce, Awaited, FutureResponse
<1>5. CASE Restart
  BY <1>5, FS_EmptySet, Bounds DEF Restart, FuturesBounded
<1>6. CASE UNCHANGED vars
  BY <1>2, <1>6 DEF vars, registry
<1>7. CASE Tick
  BY <1>2, <1>7 DEF Tick
<1>8. ASSUME NEW p \in Posts, AdmitAndEnqueue(p) \/ Answer(p) \/ Client(p)
      PROVE  FuturesBounded'
  BY <1>2, <1>8 DEF AdmitAndEnqueue, Answer, Client, RetrieveFuture, Waited
<1> QED
  BY <1>4, <1>5, <1>6, <1>7, <1>8 DEF Next, Handle

(* Between two sweeps the registry grows by what was registered since the last one, no *)
(* further, whatever is registered, retrieved or retried.                              *)
THEOREM RegistryBounded == Spec => []FuturesBounded
<1>1. Init => FuturesBounded
  BY Bounds, FS_EmptySet DEF Init, FuturesBounded
<1>2. TypeOK /\ FuturesBounded /\ [Next]_vars => FuturesBounded'
  BY BoundedNext
<1>3. Spec => []TypeOK
  BY FuturesInvariant, PTL
<1> QED
  BY <1>1, <1>2, <1>3, PTL DEF Spec
=============================================================================
