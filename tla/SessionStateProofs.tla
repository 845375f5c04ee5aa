------------------------- MODULE SessionStateProofs -------------------------
(***************************************************************************)
(* The worker's session state, in four parts.                              *)
(*                                                                         *)
(* Isolation (Inv): sessions that share a worker's base model never mix,   *)
(* for any sessions, caches, workers, disks, clients and faults.  Every    *)
(* copy of a session's state is typed by the batches of that session; a    *)
(* handler is a chain of changes of one worker's memory (load, activate,   *)
(* compute, capture), each of which keeps the memory OK.  Activating a     *)
(* session relies on the active one being cached, to know that its full-   *)
(* parameter weights are in the base (worker.py:975): it is, unless the    *)
(* cache evicted the session it had just loaded, and then the base has     *)
(* strayed.                                                                *)
(*                                                                         *)
(* Durability (KeptInv): on one calm worker the blobs on disk, once the    *)
(* running job's writes are done, are the session's current state, and so  *)
(* is its cache entry.  The effect of each handler on its session (Does)   *)
(* and on the others (Keeps) is stated once and used by all that follows.  *)
(*                                                                         *)
(* Counting (CountInv): copies of weights and gradients that may meet in a *)
(* runtime hold a batch at one place at most, with any number of workers.  *)
(*                                                                         *)
(* Refinement: with the two, every step is an operation of TrainingSession *)
(* on one session or a stutter.                                            *)
(***************************************************************************)
EXTENDS SessionState, TLAPS, FiniteSetTheorems

OwnUpdate(s) == Seq({s} \X Nat)
OwnSteps(s) == Seq(OwnUpdate(s))
OwnWeights(s) == [steps : OwnSteps(s), stored : SUBSET Nat]
MaybeWeights(s) == OwnWeights(s) \cup {None}
MaybeOpt(s) == OwnSteps(s) \cup {None}
OwnGradients(s) == [set : BOOLEAN, sum : OwnUpdate(s)]
OwnRuntime(s) == [grads : OwnGradients(s), opt : MaybeOpt(s), meta : Meta, custom : SUBSET Batch]
OwnBlobSet(s) == [weights : MaybeWeights(s), grads : OwnGradients(s) \cup {None},
                  opt : MaybeOpt(s), meta : Meta \cup {None}]

HasWeights(m, s) == IF FP(s) THEN m.stash[s] # None ELSE m.adapter[s] # None

(* One session's part of a worker's memory. *)
HoldsOwn(m, s) ==
    /\ m.rt[s] \in OwnRuntime(s) \cup {None}
    /\ m.adapter[s] \in MaybeWeights(s) /\ m.stash[s] \in MaybeWeights(s)
    /\ m.rt[s] # None => HasWeights(m, s)

(* The weights a handler reads and saves are there. *)
Placed(m, s) ==
    IF FP(s) THEN m.active = s \/ m.stash[s] # None ELSE m.adapter[s] # None

(* The base model is the active full-parameter session's, which is cached, *)
(* or pristine, unless it has strayed.                                     *)
BaseOk(m) ==
    /\ m.active \in Sessions \cup {None}
    /\ IF m.active # None /\ FP(m.active)
       THEN m.base \in OwnWeights(m.active) /\ (m.rt[m.active] = None => m.strayed)
       ELSE m.base # Pristine => m.strayed

IsMemory(m) ==
    /\ DOMAIN m = {"rt", "adapter", "stash", "served", "base", "active", "strayed"}
    /\ DOMAIN m.rt = Sessions /\ DOMAIN m.adapter = Sessions /\ DOMAIN m.stash = Sessions

MemoryOk(m) == IsMemory(m) /\ BaseOk(m) /\ \A s \in Sessions : HoldsOwn(m, s)

(* What a worker does for a session, alone, and what it still has to write. *)
OperationOk(w) ==
    op[w] # None =>
        /\ DOMAIN op[w] = {"session", "before", "after", "image", "left", "publish"}
        /\ op[w].session \in Sessions /\ pending[op[w].session] # None
        /\ \A v \in Workers : op[v] # None /\ op[v].session = op[w].session => v = w
        /\ op[w].image \in OwnBlobSet(op[w].session)
        /\ op[w].left \subseteq {b \in Blobs : op[w].image[b] # None}
        /\ op[w].publish => "weights" \in op[w].left
                            \/ local[DirOf[w]][op[w].session].weights # None

PendingOk(s) ==
    pending[s] # None =>
        /\ pending[s].kind \notin {"init", "sample"} => pending[s].batch \in {s} \X Nat
        /\ pending[s].kind \in {"load", "restore"} => ckpts[s] # None

StoresOk(s) ==
    /\ remote[s] \in OwnBlobSet(s)
    /\ ckpts[s] # None => ckpts[s] \in OwnBlobSet(s) /\ ckpts[s].weights # None
    /\ \A d \in Dirs : local[d][s] \in OwnBlobSet(s)

Inv ==
    /\ setup \in Setups
    /\ DOMAIN mem = Workers /\ \A w \in Workers : MemoryOk(mem[w])
    /\ DOMAIN op = Workers /\ \A w \in Workers : OperationOk(w)
    /\ DOMAIN pending = Sessions /\ DOMAIN ckpts = Sessions /\ DOMAIN custom = Sessions
    /\ DOMAIN remote = Sessions /\ DOMAIN local = Dirs
    /\ \A d \in Dirs : DOMAIN local[d] = Sessions
    /\ jobs \in [Sessions -> Nat]
    /\ \A s \in Sessions :
          /\ PendingOk(s) /\ StoresOk(s)
          /\ custom[s] # None => custom[s] \in {s} \X Nat
-----------------------------------------------------------------------------
LEMMA OwnBatches == \A s \in Sessions : ({s} \X Nat) \subseteq Batch
BY DEF Batch

LEMMA OwnUpdateIsUpdate == \A s \in Sessions : OwnUpdate(s) \subseteq Update
BY DEF OwnUpdate, Update, Batch

LEMMA OwnIsSteps == \A s \in Sessions : OwnSteps(s) \subseteq Seq(Update)
<1> SUFFICES ASSUME NEW s \in Sessions, NEW x \in OwnSteps(s) PROVE x \in Seq(Update)
  OBVIOUS
<1>1. x \in Seq(OwnUpdate(s)) /\ OwnUpdate(s) \subseteq Update
  BY OwnUpdateIsUpdate DEF OwnSteps
<1> HIDE DEF OwnUpdate, Update
<1> QED
  BY <1>1

LEMMA OwnIsWeights == \A s \in Sessions : OwnWeights(s) \subseteq Weights
BY OwnIsSteps DEF OwnWeights, Weights

LEMMA OwnIsNotNone ==
    \A s \in Sessions : /\ None \notin OwnWeights(s) /\ None \notin OwnSteps(s)
                        /\ None \notin OwnRuntime(s)
<1> SUFFICES ASSUME NEW s \in Sessions
             PROVE  /\ None \notin OwnWeights(s) /\ None \notin OwnSteps(s)
                    /\ None \notin OwnRuntime(s)
  OBVIOUS
<1>1. OwnWeights(s) \subseteq Weights /\ OwnSteps(s) \subseteq Seq(Update)
  BY OwnIsWeights, OwnIsSteps
<1>2. OwnUpdate(s) \subseteq Update
  BY OwnUpdateIsUpdate
<1>3. OwnGradients(s) \subseteq Grads
  BY <1>2 DEF OwnGradients, Grads
<1>4. OwnRuntime(s) \subseteq Runtime
  BY <1>1, <1>3 DEF OwnRuntime, Runtime, MaybeOpt, Optimizer
<1> QED
  BY <1>1, <1>4, NoneAssumption

LEMMA OwnBlobsAreNotNone == \A s \in Sessions : None \notin OwnBlobSet(s)
<1> SUFFICES ASSUME NEW s \in Sessions PROVE OwnBlobSet(s) \subseteq BlobSet
  BY NoneAssumption
<1>1. OwnWeights(s) \subseteq Weights /\ OwnSteps(s) \subseteq Seq(Update)
  BY OwnIsWeights, OwnIsSteps
<1>2. OwnUpdate(s) \subseteq Update
  BY OwnUpdateIsUpdate
<1>3. OwnGradients(s) \subseteq Grads
  BY <1>2 DEF OwnGradients, Grads
<1> QED
  BY <1>1, <1>3 DEF OwnBlobSet, BlobSet, MaybeWeights, MaybeOpt, Optimizer

LEMMA Empty ==
    \A s : Pristine \in OwnWeights(s) /\ <<>> \in OwnSteps(s) /\ <<>> \in OwnUpdate(s)
BY DEF Pristine, OwnWeights, OwnSteps, OwnUpdate

(* Weights through a blob: the same updates, and stored twice is stored once. *)
LEMMA StoredIs ==
    ASSUME NEW s \in Sessions, NEW x \in OwnWeights(s)
    PROVE  /\ Stored(s, x) \in OwnWeights(s) /\ Stored(s, x).steps = x.steps
           /\ Stored(s, Stored(s, x)) = Stored(s, x)
<1>1. x.steps \in OwnSteps(s) /\ x.stored \in SUBSET Nat /\ Len(x.steps) \in Nat
  BY DEF OwnWeights, OwnSteps
<1>2. CASE s \in Wide
  <2> DEFINE n == x.stored \cup {Len(x.steps)}
             y == [x EXCEPT !.stored = n]
  <2>1. n \in SUBSET Nat /\ n \cup {Len(x.steps)} = n
    BY <1>1
  <2>2. Stored(s, x) = y
    BY <1>2 DEF Stored
  <2> HIDE DEF n
  <2>3. y \in OwnWeights(s) /\ y.steps = x.steps /\ y.stored = n
    BY <1>1, <2>1 DEF OwnWeights
  <2>4. Stored(s, y) = [y EXCEPT !.stored = y.stored \cup {Len(y.steps)}]
    BY <1>2 DEF Stored
  <2>5. [y EXCEPT !.stored = n] = y
    OBVIOUS
  <2> HIDE DEF y
  <2> QED
    BY <2>1, <2>2, <2>3, <2>4, <2>5
<1>3. CASE s \notin Wide
  BY <1>3 DEF Stored
<1> QED
  BY <1>2, <1>3

(* One update more. *)
Trained(x, update) == [x EXCEPT !.steps = Append(@, update)]

LEMMA TrainedIs ==
    ASSUME NEW s \in Sessions, NEW x \in OwnWeights(s), NEW update \in OwnUpdate(s)
    PROVE  /\ Trained(x, update) \in OwnWeights(s)
           /\ Trained(x, update).steps = Append(x.steps, update)
<1>1. x.steps \in OwnSteps(s) /\ Append(x.steps, update) \in OwnSteps(s)
  BY DEF OwnWeights, OwnSteps
<1> DEFINE y == Append(x.steps, update)
<1>2. Trained(x, update) = [x EXCEPT !.steps = y]
  BY DEF Trained
<1> HIDE DEF y
<1> QED
  BY <1>1, <1>2 DEF OwnWeights, y

LEMMA RecordsOk ==
    ASSUME NEW s \in Sessions
    PROVE  /\ FreshRuntime \in OwnRuntime(s) /\ NoBlobs \in OwnBlobSet(s)
           /\ NoGrads \in OwnGradients(s) /\ ZeroGrads \in OwnGradients(s)
           /\ [ZeroMeta EXCEPT !.pristine = TRUE] \in Meta
<1>1. ZeroMeta \in Meta /\ [ZeroMeta EXCEPT !.pristine = TRUE] \in Meta
  BY DEF ZeroMeta, Meta
<1>2. NoGrads \in OwnGradients(s) /\ ZeroGrads \in OwnGradients(s)
  BY Empty DEF NoGrads, ZeroGrads, OwnGradients
<1> QED
  BY <1>1, <1>2 DEF FreshRuntime, OwnRuntime, MaybeWeights, MaybeOpt, NoBlobs, OwnBlobSet
-----------------------------------------------------------------------------
(* Evicting a session leaves the others, and the base pristine if it was the active one. *)
LEMMA OnEvictOk ==
    ASSUME NEW m, MemoryOk(m), NEW s \in Sessions
    PROVE  /\ MemoryOk(OnEvict(m, s)) /\ OnEvict(m, s).rt[s] = None
           /\ \A t \in Sessions : t # s => OnEvict(m, s).rt[t] = m.rt[t]
<1> DEFINE x == OnEvict(m, s)
<1>1. IsMemory(x)
  BY DEF OnEvict, MemoryOk, IsMemory
<1>2. /\ x.rt[s] = None
      /\ x.adapter[s] = IF FP(s) THEN m.adapter[s] ELSE None
      /\ x.stash[s] = IF FP(s) THEN None ELSE m.stash[s]
      /\ x.base = IF FP(s) /\ m.active = s THEN Pristine ELSE m.base
      /\ m.strayed /\ ~ (FP(s) /\ m.active = s) => x.strayed
      /\ x.active = IF m.active = s THEN None ELSE m.active
  BY DEF OnEvict, MemoryOk, IsMemory
<1>3. \A t \in Sessions : t # s =>
         x.rt[t] = m.rt[t] /\ x.adapter[t] = m.adapter[t] /\ x.stash[t] = m.stash[t]
  BY DEF OnEvict, MemoryOk, IsMemory
<1> HIDE DEF x
<1>4. \A t \in Sessions : HoldsOwn(x, t)
  BY <1>2, <1>3 DEF MemoryOk, HoldsOwn, HasWeights, MaybeWeights
<1>5. BaseOk(x)
  BY <1>2, <1>3, NoneAssumption DEF MemoryOk, BaseOk
<1> QED
  BY <1>1, <1>2, <1>3, <1>4, <1>5 DEF MemoryOk, x

(* The live weights of the active full-parameter session refresh its stash. *)
LEMMA StashActiveOk ==
    ASSUME NEW m, MemoryOk(m)
    PROVE  /\ MemoryOk(StashActive(m)) /\ StashActive(m).rt = m.rt
           /\ StashActive(m).active = m.active /\ StashActive(m).base = m.base
           /\ StashActive(m).adapter = m.adapter /\ StashActive(m).strayed = m.strayed
<1> DEFINE x == [m EXCEPT !.stash[m.active] = m.base]
<1>1. ASSUME m.active \in Cached(m), FP(m.active)
      PROVE  MemoryOk(x) /\ x.rt = m.rt /\ x.active = m.active /\ x.base = m.base
             /\ x.adapter = m.adapter /\ x.strayed = m.strayed
  <2>1. m.active \in Sessions /\ m.active # None
    BY <1>1, NoneAssumption DEF Cached
  <2>2. /\ IsMemory(x) /\ x.rt = m.rt /\ x.active = m.active /\ x.base = m.base
        /\ x.adapter = m.adapter /\ x.strayed = m.strayed
    BY DEF MemoryOk, IsMemory
  <2>3. x.stash[m.active] = m.base /\ \A t \in Sessions : t # m.active => x.stash[t] = m.stash[t]
    BY <2>1 DEF MemoryOk, IsMemory
  <2>4. m.base \in OwnWeights(m.active) /\ m.base # None
    BY <1>1, <2>1, OwnIsNotNone DEF MemoryOk, BaseOk
  <2> HIDE DEF x
  <2>5. \A t \in Sessions : HoldsOwn(x, t)
    BY <1>1, <2>2, <2>3, <2>4 DEF MemoryOk, HoldsOwn, HasWeights, MaybeWeights
  <2>6. BaseOk(x)
    BY <2>2 DEF MemoryOk, BaseOk
  <2> QED
    BY <2>2, <2>5, <2>6 DEF MemoryOk
<1> HIDE DEF x
<1> QED
  BY <1>1 DEF StashActive, x

(* Weights of a session take their place: the stash, or an adapter. *)
LEMMA AttachOk ==
    ASSUME NEW m, MemoryOk(m), NEW s \in Sessions, NEW weights \in OwnWeights(s)
    PROVE  /\ MemoryOk(Attach(m, s, weights)) /\ Attach(m, s, weights).rt = m.rt
           /\ HasWeights(Attach(m, s, weights), s)
           /\ Attach(m, s, weights).active = m.active
<1>0. weights # None
  BY OwnIsNotNone
<1>1. CASE FP(s)
  <2> DEFINE n == StashActive(m)
             x == [n EXCEPT !.stash[s] = weights]
  <2>1. MemoryOk(n) /\ n.rt = m.rt /\ n.active = m.active
    BY StashActiveOk
  <2>2. Attach(m, s, weights) = x
    BY <1>1 DEF Attach
  <2> HIDE DEF n
  <2>3. /\ IsMemory(x) /\ x.rt = n.rt /\ x.active = n.active /\ x.base = n.base
        /\ x.adapter = n.adapter /\ x.stash[s] = weights /\ x.strayed = n.strayed
        /\ \A t \in Sessions : t # s => x.stash[t] = n.stash[t]
    BY <2>1 DEF MemoryOk, IsMemory
  <2> HIDE DEF x
  <2>4. \A t \in Sessions : HoldsOwn(x, t)
    BY <1>0, <2>1, <2>3 DEF MemoryOk, HoldsOwn, HasWeights, MaybeWeights
  <2>5. BaseOk(x)
    BY <2>1, <2>3 DEF MemoryOk, BaseOk
  <2> QED
    BY <1>0, <1>1, <2>1, <2>2, <2>3, <2>4, <2>5 DEF MemoryOk, HasWeights
<1>2. CASE ~ FP(s)
  <2> DEFINE x == [m EXCEPT !.adapter[s] = weights]
  <2>1. Attach(m, s, weights) = x
    BY <1>2 DEF Attach
  <2>2. /\ IsMemory(x) /\ x.rt = m.rt /\ x.active = m.active /\ x.base = m.base
        /\ x.stash = m.stash /\ x.adapter[s] = weights /\ x.strayed = m.strayed
        /\ \A t \in Sessions : t # s => x.adapter[t] = m.adapter[t]
    BY DEF MemoryOk, IsMemory
  <2> HIDE DEF x
  <2>3. \A t \in Sessions : HoldsOwn(x, t)
    BY <1>0, <2>2 DEF MemoryOk, HoldsOwn, HasWeights, MaybeWeights
  <2>4. BaseOk(x)
    BY <2>2 DEF MemoryOk, BaseOk
  <2> QED
    BY <1>0, <1>2, <2>1, <2>2, <2>3, <2>4 DEF MemoryOk, HasWeights
<1> QED
  BY <1>1, <1>2

(* A session with weights enters the cache, from which somebody may have to go. *)
LEMMA PutOk ==
    ASSUME NEW m, MemoryOk(m), NEW s \in Sessions, HasWeights(m, s), NEW r \in OwnRuntime(s),
           NEW victim \in Sessions \cup {None}
    PROVE  MemoryOk(Put(m, s, r, victim)) /\ (victim # s => Put(m, s, r, victim).rt[s] = r)
<1> DEFINE x == [m EXCEPT !.rt[s] = r]
<1>1. /\ IsMemory(x) /\ x.active = m.active /\ x.base = m.base /\ x.stash = m.stash
      /\ x.adapter = m.adapter /\ x.rt[s] = r /\ x.strayed = m.strayed
      /\ \A t \in Sessions : t # s => x.rt[t] = m.rt[t]
  BY DEF MemoryOk, IsMemory
<1>2. r # None
  BY OwnIsNotNone
<1>3. Put(m, s, r, victim) = IF victim = None THEN x ELSE OnEvict(x, victim)
  BY DEF Put
<1> HIDE DEF x
<1>4. MemoryOk(x)
  <2>1. \A t \in Sessions : HoldsOwn(x, t)
    BY <1>1 DEF MemoryOk, HoldsOwn, HasWeights
  <2>2. BaseOk(x)
    BY <1>1, <1>2 DEF MemoryOk, BaseOk
  <2> QED
    BY <1>1, <2>1, <2>2 DEF MemoryOk
<1> QED
  BY <1>1, <1>3, <1>4, OnEvictOk

LEMMA EvictAllOk ==
    ASSUME NEW m, MemoryOk(m), NEW Z \in SUBSET Sessions
    PROVE  MemoryOk(EvictAll(m, Z))
<1> DEFINE x == EvictAll(m, Z)
<1>1. /\ IsMemory(x) /\ x.adapter = m.adapter
      /\ x.base = IF m.active \in Z \cap Cached(m) THEN Pristine ELSE m.base
      /\ x.active = IF m.active \in Z \cap Cached(m) THEN None ELSE m.active
      /\ m.strayed /\ m.active \notin Z \cap Cached(m) => x.strayed
      /\ \A t \in Sessions : /\ x.rt[t] = IF t \in Z THEN None ELSE m.rt[t]
                             /\ x.stash[t] = IF t \in Z THEN None ELSE m.stash[t]
  BY DEF EvictAll, MemoryOk, IsMemory
<1> HIDE DEF x
<1>2. \A t \in Sessions : HoldsOwn(x, t)
  BY <1>1 DEF MemoryOk, HoldsOwn, HasWeights, MaybeWeights
<1>3. BaseOk(x)
  <2>1. m.active \in Sessions \cap Z /\ m.rt[m.active] # None => m.active \in Z \cap Cached(m)
    BY DEF Cached
  <2> QED
    BY <1>1, <2>1 DEF MemoryOk, BaseOk
<1> QED
  BY <1>1, <1>2, <1>3 DEF MemoryOk, x

(* A session becomes the active one: its weights are in the base, or nothing is, *)
(* or the base has strayed.                                                      *)
LEMMA ActivateOk ==
    ASSUME NEW m, MemoryOk(m), NEW s \in Sessions
    PROVE  MemoryOk(Activate(m, s)) /\ Activate(m, s).active = s /\ Activate(m, s).rt = m.rt
<1>1. CASE m.active = s
  BY <1>1 DEF Activate
<1>2. CASE m.active # s
  <2> DEFINE n == StashActive(m)
             leavingFP == m.active \in Cached(m) /\ FP(m.active)
             b == CASE FP(s) /\ n.stash[s] # None -> n.stash[s]
                    [] FP(s) /\ n.stash[s] = None -> Pristine
                    [] ~ FP(s) /\ leavingFP -> Pristine
                    [] OTHER -> n.base
             d == IF FP(s) THEN s \notin Cached(m) ELSE n.strayed /\ ~ leavingFP
             x == [n EXCEPT !.base = b, !.strayed = d, !.active = s]
  <2>1. /\ MemoryOk(n) /\ n.rt = m.rt /\ n.active = m.active /\ n.base = m.base
        /\ n.strayed = m.strayed
    BY StashActiveOk
  <2>2. Activate(m, s) = x
    BY <1>2 DEF Activate
  <2>3. FP(s) => b \in OwnWeights(s)
    BY <2>1, Empty DEF MemoryOk, HoldsOwn, MaybeWeights
  <2>4. ~ FP(s) /\ b # Pristine => d
    <3>1. CASE leavingFP
      BY <3>1
    <3>2. CASE ~ leavingFP
      <4>1. m.active # None /\ FP(m.active) => m.strayed
        BY <3>2 DEF MemoryOk, BaseOk, Cached
      <4>2. m.base # Pristine => m.strayed
        BY <4>1 DEF MemoryOk, BaseOk
      <4> QED
        BY <2>1, <3>2, <4>2
    <3> QED
      BY <3>1, <3>2
  <2>8. FP(s) /\ m.rt[s] = None => d
    BY DEF Cached
  <2> HIDE DEF n, b, d
  <2>5. /\ IsMemory(x) /\ x.rt = n.rt /\ x.adapter = n.adapter /\ x.stash = n.stash
        /\ x.base = b /\ x.active = s /\ x.strayed = d
    BY <2>1 DEF MemoryOk, IsMemory
  <2> HIDE DEF x
  <2>6. \A t \in Sessions : HoldsOwn(x, t)
    BY <2>1, <2>5 DEF MemoryOk, HoldsOwn, HasWeights
  <2>7. BaseOk(x)
    BY <2>1, <2>3, <2>4, <2>5, <2>8, NoneAssumption DEF BaseOk
  <2> QED
    BY <2>1, <2>2, <2>5, <2>6, <2>7 DEF MemoryOk
<1> QED
  BY <1>1, <1>2

LEMMA KeepRuntimeOk ==
    ASSUME NEW m, MemoryOk(m), NEW s \in Sessions, NEW r \in OwnRuntime(s)
    PROVE  /\ MemoryOk(KeepRuntime(m, s, r))
           /\ KeepRuntime(m, s, r).active = m.active
           /\ KeepRuntime(m, s, r).stash = m.stash /\ KeepRuntime(m, s, r).adapter = m.adapter
           /\ m.rt[s] # None => KeepRuntime(m, s, r).rt[s] # None
<1> DEFINE x == [m EXCEPT !.rt[s] = r]
<1>1. /\ IsMemory(x) /\ x.active = m.active /\ x.base = m.base /\ x.stash = m.stash
      /\ x.adapter = m.adapter /\ x.rt[s] = r /\ x.strayed = m.strayed
      /\ \A t \in Sessions : t # s => x.rt[t] = m.rt[t]
  BY DEF MemoryOk, IsMemory
<1>2. r # None
  BY OwnIsNotNone
<1>3. KeepRuntime(m, s, r) = IF m.rt[s] = None THEN m ELSE x
  BY DEF KeepRuntime
<1> HIDE DEF x
<1>4. m.rt[s] # None => \A t \in Sessions : HoldsOwn(x, t)
  BY <1>1 DEF MemoryOk, HoldsOwn, HasWeights
<1>5. BaseOk(x)
  BY <1>1, <1>2 DEF MemoryOk, BaseOk
<1> QED
  BY <1>1, <1>2, <1>3, <1>4, <1>5 DEF MemoryOk

LEMMA CapturedOk ==
    ASSUME NEW m, MemoryOk(m), NEW s \in Sessions
    PROVE  /\ MemoryOk(Captured(m, s)) /\ Captured(m, s).rt = m.rt
           /\ Placed(m, s) => Placed(Captured(m, s), s)
<1>1. CASE ~ (FP(s) /\ m.active = s)
  BY <1>1 DEF Captured
<1>2. CASE FP(s) /\ m.active = s
  <2> DEFINE x == [m EXCEPT !.stash[s] = m.base]
  <2>1. Captured(m, s) = x
    BY <1>2 DEF Captured
  <2>2. /\ IsMemory(x) /\ x.rt = m.rt /\ x.active = m.active /\ x.base = m.base
        /\ x.adapter = m.adapter /\ x.strayed = m.strayed /\ x.stash[s] = m.base
        /\ \A t \in Sessions : t # s => x.stash[t] = m.stash[t]
    BY DEF MemoryOk, IsMemory
  <2>3. m.base \in OwnWeights(s) /\ m.base # None
    BY <1>2, OwnIsNotNone, NoneAssumption DEF MemoryOk, BaseOk
  <2> HIDE DEF x
  <2>4. \A t \in Sessions : HoldsOwn(x, t)
    BY <1>2, <2>2, <2>3 DEF MemoryOk, HoldsOwn, HasWeights, MaybeWeights
  <2>5. BaseOk(x)
    BY <2>2 DEF MemoryOk, BaseOk
  <2> QED
    BY <1>2, <2>1, <2>2, <2>4, <2>5 DEF MemoryOk, Placed
<1> QED
  BY <1>1, <1>2

(* The weights a handler reads, saves or updates are the session's own. *)
LEMMA LiveWeightsOwn ==
    ASSUME NEW m, MemoryOk(m), NEW s \in Sessions, Placed(m, s)
    PROVE  LiveWeights(m, s) \in OwnWeights(s) /\ LiveWeights(m, s) # None
<1>1. HoldsOwn(m, s) /\ BaseOk(m)
  BY DEF MemoryOk
<1>2. LiveWeights(m, s) \in OwnWeights(s)
  BY <1>1, NoneAssumption DEF HoldsOwn, Placed, BaseOk, LiveWeights, MaybeWeights
<1> QED
  BY <1>2, OwnIsNotNone

LEMMA CachedIsPlaced ==
    ASSUME NEW m, MemoryOk(m), NEW s \in Sessions, m.rt[s] # None
    PROVE  Placed(m, s)
BY DEF MemoryOk, HoldsOwn, HasWeights, Placed

LEMMA UpdatedOk ==
    ASSUME NEW m, MemoryOk(m), NEW s \in Sessions, Placed(m, s), m.active = s,
           NEW update \in OwnUpdate(s)
    PROVE  /\ MemoryOk(Updated(m, s, update)) /\ Updated(m, s, update).rt = m.rt
           /\ Placed(Updated(m, s, update), s)
<1> DEFINE w == LiveWeights(m, s)
           y == Trained(w, update)
<1>1. y \in OwnWeights(s)
  BY LiveWeightsOwn, TrainedIs
<1>2. y # None
  BY <1>1, OwnIsNotNone
<1>3. CASE FP(s)
  <2> DEFINE x == [m EXCEPT !.base = y]
  <2>1. Updated(m, s, update) = x
    BY <1>3 DEF Updated, LiveWeights, Trained
  <2> HIDE DEF y
  <2>2. /\ IsMemory(x) /\ x.rt = m.rt /\ x.adapter = m.adapter /\ x.stash = m.stash
        /\ x.base = y /\ x.active = s /\ x.strayed = m.strayed
    BY DEF MemoryOk, IsMemory
  <2> HIDE DEF x
  <2>3. \A t \in Sessions : HoldsOwn(x, t)
    BY <2>2 DEF MemoryOk, HoldsOwn, HasWeights
  <2>4. BaseOk(x)
    BY <1>1, <1>3, <2>2, NoneAssumption DEF MemoryOk, BaseOk
  <2> QED
    BY <1>3, <2>1, <2>2, <2>3, <2>4 DEF MemoryOk, Placed
<1>4. CASE ~ FP(s)
  <2> DEFINE x == [m EXCEPT !.adapter[s] = y]
  <2>1. Updated(m, s, update) = x
    BY <1>4 DEF Updated, LiveWeights, Trained, MemoryOk, IsMemory
  <2> HIDE DEF y
  <2>2. /\ IsMemory(x) /\ x.rt = m.rt /\ x.active = m.active /\ x.base = m.base
        /\ x.stash = m.stash /\ x.adapter[s] = y /\ x.strayed = m.strayed
        /\ \A t \in Sessions : t # s => x.adapter[t] = m.adapter[t]
    BY DEF MemoryOk, IsMemory
  <2> HIDE DEF x
  <2>3. \A t \in Sessions : HoldsOwn(x, t)
    BY <1>1, <1>2, <2>1, <2>2 DEF MemoryOk, HoldsOwn, HasWeights, MaybeWeights
  <2>4. BaseOk(x)
    BY <2>2 DEF MemoryOk, BaseOk
  <2> QED
    BY <1>2, <1>4, <2>1, <2>2, <2>3, <2>4 DEF MemoryOk, Placed
<1> QED
  BY <1>3, <1>4

LEMMA ReplacedOk ==
    ASSUME NEW m, MemoryOk(m), NEW s \in Sessions, NEW weights \in OwnWeights(s)
    PROVE  /\ MemoryOk(Replaced(m, s, weights)) /\ Replaced(m, s, weights).rt = m.rt
           /\ Placed(Replaced(m, s, weights), s)
<1>0. weights # None
  BY OwnIsNotNone
<1>1. CASE FP(s)
  <2> DEFINE b == IF m.active = s THEN weights ELSE m.base
             x == [m EXCEPT !.stash[s] = weights, !.base = b]
  <2>1. Replaced(m, s, weights) = x
    BY <1>1 DEF Replaced
  <2> HIDE DEF b
  <2>2. /\ IsMemory(x) /\ x.rt = m.rt /\ x.active = m.active /\ x.base = b
        /\ x.adapter = m.adapter /\ x.stash[s] = weights /\ x.strayed = m.strayed
        /\ \A t \in Sessions : t # s => x.stash[t] = m.stash[t]
    BY DEF MemoryOk, IsMemory
  <2> HIDE DEF x
  <2>3. \A t \in Sessions : HoldsOwn(x, t)
    BY <1>0, <2>2 DEF MemoryOk, HoldsOwn, HasWeights, MaybeWeights
  <2>4. BaseOk(x)
    BY <1>1, <2>2, NoneAssumption DEF MemoryOk, BaseOk, b
  <2> QED
    BY <1>0, <1>1, <2>1, <2>2, <2>3, <2>4 DEF MemoryOk, Placed
<1>2. CASE ~ FP(s)
  <2> DEFINE x == [m EXCEPT !.adapter[s] = weights]
  <2>1. Replaced(m, s, weights) = x
    BY <1>2 DEF Replaced
  <2>2. /\ IsMemory(x) /\ x.rt = m.rt /\ x.active = m.active /\ x.base = m.base
        /\ x.stash = m.stash /\ x.adapter[s] = weights /\ x.strayed = m.strayed
        /\ \A t \in Sessions : t # s => x.adapter[t] = m.adapter[t]
    BY DEF MemoryOk, IsMemory
  <2> HIDE DEF x
  <2>3. \A t \in Sessions : HoldsOwn(x, t)
    BY <1>0, <2>2 DEF MemoryOk, HoldsOwn, HasWeights, MaybeWeights
  <2>4. BaseOk(x)
    BY <2>2 DEF MemoryOk, BaseOk
  <2> QED
    BY <1>0, <1>2, <2>1, <2>2, <2>3, <2>4 DEF MemoryOk, Placed
<1> QED
  BY <1>1, <1>2
-----------------------------------------------------------------------------
(* Loading: what a handler gets is made of the session's own blobs. *)
LEMMA LoadedOwn ==
    ASSUME NEW s \in Sessions, NEW blobs \in OwnBlobSet(s), Loadable(blobs, s)
    PROVE  LoadedWeights(blobs, s) \in OwnWeights(s) /\ LoadedRuntime(blobs) \in OwnRuntime(s)
<1>1. /\ blobs.weights \in MaybeWeights(s) /\ blobs.opt \in MaybeOpt(s)
      /\ blobs.grads \in OwnGradients(s) \cup {None} /\ blobs.meta \in Meta
  BY DEF OwnBlobSet, Loadable
<1>2. LoadedWeights(blobs, s) \in OwnWeights(s)
  BY <1>1, Empty DEF LoadedWeights, Loadable, MaybeWeights
<1>3. (IF blobs.grads = None THEN NoGrads ELSE blobs.grads) \in OwnGradients(s)
  BY <1>1, RecordsOk
<1> QED
  BY <1>1, <1>2, <1>3 DEF LoadedRuntime, OwnRuntime

LEMMA VictimsAreSessions ==
    ASSUME NEW m, NEW s \in Sessions, NEW victim \in Victims(m, s)
    PROVE  victim \in Sessions \cup {None}
BY DEF Victims, Cached

LEMMA LoadsOk ==
    ASSUME Inv, NEW w \in Workers, NEW s \in Sessions, NEW l \in Loads(w, s)
    PROVE  MemoryOk(l.mem) /\ l.rt \in OwnRuntime(s)
<1> DEFINE m == BeforeLoad(w, s)
           blobs == Source(w, s)
           r == LoadedRuntime(blobs)
<1>1. MemoryOk(m)
  BY OnEvictOk DEF Inv, BeforeLoad
<1>2. blobs \in OwnBlobSet(s)
  <2>1. DirOf[w] \in Dirs
    BY DEF Dirs, Range, Workers
  <2> QED
    BY <2>1 DEF Source, Inv, StoresOk
<1> HIDE DEF m, blobs
<1>3. CASE m.rt[s] # None
  <2>1. l = [mem |-> m, rt |-> m.rt[s]]
    BY <1>3 DEF Loads, m, blobs
  <2>2. m.rt[s] \in OwnRuntime(s)
    BY <1>1, <1>3 DEF MemoryOk, HoldsOwn
  <2> QED
    BY <1>1, <1>3, <2>1, <2>2
<1>4. CASE m.rt[s] = None
  <2>1. Loadable(blobs, s) /\ \E victim \in Victims(m, s) :
          l = [mem |-> Put(Attach(m, s, LoadedWeights(blobs, s)), s, r, victim), rt |-> r]
    BY <1>4 DEF Loads, m, blobs
  <2>2. PICK victim \in Victims(m, s) :
          l = [mem |-> Put(Attach(m, s, LoadedWeights(blobs, s)), s, r, victim), rt |-> r]
    BY <2>1
  <2>3. LoadedWeights(blobs, s) \in OwnWeights(s) /\ r \in OwnRuntime(s)
    BY <1>2, <2>1, LoadedOwn
  <2>4. victim \in Sessions \cup {None}
    BY VictimsAreSessions
  <2> DEFINE n == Attach(m, s, LoadedWeights(blobs, s))
  <2>5. MemoryOk(n) /\ HasWeights(n, s)
    BY <1>1, <2>3, AttachOk
  <2> HIDE DEF n, r
  <2>6. MemoryOk(Put(n, s, r, victim))
    BY <2>3, <2>4, <2>5, PutOk
  <2>7. l.mem = Put(n, s, r, victim) /\ l.rt = r
    BY <2>2 DEF n
  <2> QED
    BY <2>3, <2>6, <2>7
<1> QED
  BY <1>3, <1>4
-----------------------------------------------------------------------------
(* The session has a job, and no worker runs it: what a handler starts from. *)
Free(s) == pending[s] # None /\ \A v \in Workers : op[v] # None => op[v].session # s

LEMMA FetchedIsFree ==
    ASSUME NEW w \in Workers, NEW s \in Sessions, NEW kind, Fetched(w, s, kind)
    PROVE  Free(s)
BY DEF Fetched, Free

(* Every end of a handler: a run that leaves writes to do, or a raise. *)
LEMMA Kept == Inv => \A s \in Sessions : StoresOk(s) /\ PendingOk(s)
BY DEF Inv

(* MemoryOk only reads the setup, which no step changes. *)
LEMMA MemoriesKept ==
    ASSUME Inv, setup' = setup, NEW w \in Workers, NEW m, MemoryOk(m),
           mem' = [mem EXCEPT ![w] = m]
    PROVE  DOMAIN mem' = Workers /\ \A v \in Workers : MemoryOk(mem[v])'
<1>1. DOMAIN mem' = Workers /\ \A v \in Workers : mem'[v] = IF v = w THEN m ELSE mem[v]
  BY DEF Inv
<1>2. \A v \in Workers : MemoryOk(mem'[v])
  BY <1>1 DEF Inv
<1>3. \A s : FP(s)' <=> FP(s)
  BY DEF FP, FullParam
<1>4. \A v \in Workers : MemoryOk(mem'[v]) => MemoryOk(mem[v])'
  BY <1>3 DEF MemoryOk, IsMemory, BaseOk, HoldsOwn, HasWeights
<1> QED
  BY <1>1, <1>2, <1>4

LEMMA SettingKept ==
    ASSUME setup' = setup
    PROVE  Workers' = Workers /\ Dirs' = Dirs /\ DirOf' = DirOf
BY DEF Workers, Dirs, DirOf, Range

LEMMA RunsOk ==
    ASSUME Inv, setup' = setup, NEW w \in Workers, NEW s \in Sessions, Free(s), NEW before, NEW m, MemoryOk(m),
           NEW r, NEW image \in OwnBlobSet(s), NEW left \in SUBSET {b \in Blobs : image[b] # None},
           NEW publish \in BOOLEAN, publish => "weights" \in left,
           Runs(w, s, before, m, r, image, left, publish)
    PROVE  Inv'
<1> DEFINE o == [session |-> s, before |-> before, after |-> StateOf(m, s, r),
                 image |-> image, left |-> left, publish |-> publish]
<1>1. /\ mem' = [mem EXCEPT ![w] = m] /\ op' = [op EXCEPT ![w] = o]
      /\ UNCHANGED <<local, remote, ckpts, pending, jobs, custom, latest, faults>>
  BY DEF Runs
<1>2. DOMAIN mem' = Workers /\ \A v \in Workers : MemoryOk(mem[v])'
  BY <1>1, MemoriesKept
<1>3. Workers' = Workers /\ Dirs' = Dirs /\ DirOf' = DirOf
  BY SettingKept
<1>4. /\ DOMAIN o = {"session", "before", "after", "image", "left", "publish"}
      /\ o.session = s /\ o.image = image /\ o.left = left /\ o.publish = publish
  OBVIOUS
<1> HIDE DEF o
<1>5. DOMAIN op' = Workers /\ \A v \in Workers : op'[v] = IF v = w THEN o ELSE op[v]
  BY <1>1 DEF Inv
<1>6. \A v \in Workers : OperationOk(v)'
  BY <1>1, <1>3, <1>4, <1>5 DEF Inv, OperationOk, Free
<1>7. \A t \in Sessions : PendingOk(t)' /\ StoresOk(t)'
  BY <1>1, <1>3 DEF Inv, PendingOk, StoresOk
<1> QED
  BY <1>1, <1>2, <1>3, <1>5, <1>6, <1>7 DEF Inv

LEMMA ImageOwn ==
    ASSUME NEW m, MemoryOk(m), NEW s \in Sessions, Placed(m, s), NEW r \in OwnRuntime(s)
    PROVE  Image(m, s, r) \in OwnBlobSet(s) /\ Image(m, s, r).weights # None
<1> DEFINE x == Stored(s, LiveWeights(m, s))
<1>1. x \in OwnWeights(s) /\ x # None
  BY LiveWeightsOwn, StoredIs, OwnIsNotNone
<1>2. /\ r.opt \in MaybeOpt(s) /\ r.meta \in Meta /\ r.grads \in OwnGradients(s)
  BY DEF OwnRuntime
<1>3. GradsToSave(r) \in OwnGradients(s)
  BY <1>2, RecordsOk DEF GradsToSave
<1>4. Image(m, s, r) = [weights |-> x, grads |-> IF r.grads.set THEN GradsToSave(r) ELSE None,
                        opt |-> r.opt, meta |-> r.meta]
  BY DEF Image
<1> HIDE DEF x
<1> QED
  BY <1>1, <1>2, <1>3, <1>4 DEF OwnBlobSet, MaybeWeights

LEMMA SavesOk ==
    ASSUME Inv, setup' = setup, NEW w \in Workers, NEW s \in Sessions, Free(s), NEW before, NEW m, MemoryOk(m),
           Placed(m, s), NEW r \in OwnRuntime(s), NEW publish \in BOOLEAN,
           Saves(w, s, before, m, r, publish)
    PROVE  Inv'
<1> DEFINE n == KeepRuntime(m, s, r)
           kept == Captured(n, s)
           image == Image(kept, s, r)
<1>1. MemoryOk(n) /\ Placed(n, s)
  BY KeepRuntimeOk DEF Placed
<1> HIDE DEF n
<1>2. MemoryOk(kept) /\ Placed(kept, s)
  BY <1>1, CapturedOk
<1> HIDE DEF kept
<1>3. image \in OwnBlobSet(s) /\ image.weights # None
  BY <1>2, ImageOwn
<1>4. Runs(w, s, before, kept, r, image, Writes(image), publish)
  BY DEF Saves, kept, n
<1> HIDE DEF image
<1>5. "weights" \in Writes(image) /\ Writes(image) = {b \in Blobs : image[b] # None}
  BY <1>3 DEF Writes, Blobs
<1> QED
  BY <1>2, <1>3, <1>4, <1>5, RunsOk

LEMMA ReadsOk ==
    ASSUME Inv, setup' = setup, NEW w \in Workers, NEW s \in Sessions, Free(s), NEW before, NEW m, MemoryOk(m),
           NEW r \in OwnRuntime(s), Reads(w, s, before, m, r)
    PROVE  Inv'
<1>1. MemoryOk(KeepRuntime(m, s, r))
  BY KeepRuntimeOk
<1>2. NoBlobs \in OwnBlobSet(s)
  BY RecordsOk
<1>3. Runs(w, s, before, KeepRuntime(m, s, r), r, NoBlobs, {}, FALSE)
  BY DEF Reads
<1> QED
  BY <1>1, <1>2, <1>3, RunsOk

LEMMA RaiseOk ==
    ASSUME Inv, setup' = setup, NEW w \in Workers, NEW s \in Sessions, Free(s), NEW m, MemoryOk(m), Raise(w, s, m)
    PROVE  Inv'
<1>1. /\ mem' = [mem EXCEPT ![w] = m]
      /\ pending' \in {pending, [pending EXCEPT ![s] = None]}
      /\ UNCHANGED <<local, remote, ckpts, op, jobs, custom, latest, faults>>
  BY DEF Raise
<1>2. DOMAIN mem' = Workers /\ \A v \in Workers : MemoryOk(mem[v])'
  BY <1>1, MemoriesKept
<1>3. Workers' = Workers /\ Dirs' = Dirs /\ DirOf' = DirOf
  BY SettingKept
<1>4. /\ DOMAIN pending' = Sessions
      /\ \A t \in Sessions : pending'[t] = pending[t] \/ (t = s /\ pending'[t] = None)
  <2>1. DOMAIN pending = Sessions
    BY DEF Inv
  <2> QED
    BY <1>1, <2>1
<1>5. \A v \in Workers : OperationOk(v)'
  BY <1>1, <1>3, <1>4 DEF Inv, OperationOk, Free
<1>6. \A t \in Sessions : PendingOk(t)' /\ StoresOk(t)'
  BY <1>1, <1>3, <1>4 DEF Inv, PendingOk, StoresOk
<1> QED
  BY <1>1, <1>2, <1>3, <1>4, <1>5, <1>6 DEF Inv
-----------------------------------------------------------------------------
(* The handlers. *)
LEMMA InitSessionOk ==
    ASSUME Inv, setup' = setup, NEW w \in Workers, NEW s \in Sessions, InitSession(w, s)
    PROVE  Inv'
<1>0. Free(s)
  BY FetchedIsFree DEF InitSession
<1> DEFINE others == LiveFP(mem[w]) \ {s}
           zombies == {t \in others : Idle(mem[w], t)}
           m == IF FP(s) THEN EvictAll(mem[w], zombies) ELSE mem[w]
           marker == [NoBlobs EXCEPT !.meta = [ZeroMeta EXCEPT !.pristine = TRUE]]
<1>1. \A Z \in SUBSET zombies : Z \in SUBSET Sessions
  BY DEF LiveFP
<1>2. MemoryOk(mem[w]) /\ MemoryOk(m)
  BY <1>1, EvictAllOk DEF Inv
<1>3. CASE \E Z \in SUBSET zombies : Raise(w, s, EvictAll(mem[w], Z))
  <2>1. PICK Z \in SUBSET zombies : Raise(w, s, EvictAll(mem[w], Z))
    BY <1>3
  <2>2. MemoryOk(EvictAll(mem[w], Z))
    BY <1>1, <1>2, EvictAllOk
  <2> QED
    BY <1>0, <2>1, <2>2, RaiseOk
<1>4. CASE \E victim \in Victims(m, s) \ {s} :
             LET m1 == Initialized(m, s, victim)
             IN  IF FP(s) THEN Runs(w, s, None, m1, FreshRuntime, marker, {"meta"}, FALSE)
                          ELSE Saves(w, s, None, m1, FreshRuntime, FALSE)
  <2> HIDE DEF m, marker
  <2>1. PICK victim \in Victims(m, s) \ {s} :
             IF FP(s) THEN Runs(w, s, None, Initialized(m, s, victim), FreshRuntime,
                                marker, {"meta"}, FALSE)
                      ELSE Saves(w, s, None, Initialized(m, s, victim), FreshRuntime, FALSE)
    BY <1>4
  <2> DEFINE now == IF FP(s) THEN m.stash[s] ELSE m.adapter[s]
             weights == IF now = None THEN Pristine ELSE now
             n == Attach(m, s, weights)
             m1 == Put(n, s, FreshRuntime, victim)
  <2>2. Initialized(m, s, victim) = m1
    BY DEF Initialized
  <2>3. weights \in OwnWeights(s)
    BY <1>2, Empty DEF MemoryOk, HoldsOwn, MaybeWeights
  <2> HIDE DEF weights
  <2>4. MemoryOk(n) /\ HasWeights(n, s)
    BY <1>2, <2>3, AttachOk
  <2>5. victim \in Sessions \cup {None} /\ victim # s
    BY VictimsAreSessions
  <2>6. FreshRuntime \in OwnRuntime(s) /\ FreshRuntime # None
    BY RecordsOk, OwnIsNotNone
  <2> HIDE DEF n
  <2>7. MemoryOk(m1) /\ Placed(m1, s)
    BY <2>4, <2>5, <2>6, PutOk, CachedIsPlaced
  <2> HIDE DEF m1
  <2>8. CASE FP(s)
    <3>1. marker \in OwnBlobSet(s) /\ marker.meta # None
      BY RecordsOk, NoneAssumption DEF marker, OwnBlobSet, NoBlobs
    <3>2. {"meta"} \in SUBSET {b \in Blobs : marker[b] # None}
      BY <3>1 DEF Blobs
    <3> QED
      BY <1>0, <2>1, <2>2, <2>7, <2>8, <3>1, <3>2, RunsOk
  <2>9. CASE ~ FP(s)
    BY <1>0, <2>1, <2>2, <2>6, <2>7, <2>9, SavesOk
  <2> QED
    BY <2>8, <2>9
<1> QED
  BY <1>3, <1>4 DEF InitSession

LEMMA LoadFailsOk ==
    ASSUME Inv, setup' = setup, NEW w \in Workers, NEW s \in Sessions, LoadFails(w, s)
    PROVE  Inv'
<1>0. Free(s)
  BY FetchedIsFree DEF LoadFails
<1>1. MemoryOk(BeforeLoad(w, s))
  BY OnEvictOk DEF Inv, BeforeLoad
<1> QED
  BY <1>0, <1>1, RaiseOk DEF LoadFails

(* The session is loaded and active: what every computing handler starts from. *)
LEMMA LoadedActive ==
    ASSUME Inv, NEW w \in Workers, NEW s \in Sessions, NEW l \in Loads(w, s)
    PROVE  /\ MemoryOk(Activate(l.mem, s)) /\ Activate(l.mem, s).active = s
           /\ HasModule(Activate(l.mem, s), s) => Placed(Activate(l.mem, s), s)
           /\ l.rt \in OwnRuntime(s)
<1>1. MemoryOk(l.mem) /\ l.rt \in OwnRuntime(s)
  BY LoadsOk
<1> QED
  BY <1>1, ActivateOk DEF HasModule, Placed

LEMMA OwnBatch ==
    ASSUME Inv, NEW w \in Workers, NEW s \in Sessions, NEW kind, Fetched(w, s, kind),
           kind \notin {"init", "sample"}
    PROVE  pending[s].batch \in {s} \X Nat
BY DEF Inv, PendingOk, Fetched

LEMMA AccumulatedOwn ==
    ASSUME NEW s \in Sessions, NEW r \in OwnRuntime(s), NEW batch \in {s} \X Nat, NEW tokens \in Nat
    PROVE  Accumulated(r, batch, tokens) \in OwnRuntime(s)
<1>1. r.grads.sum \in OwnUpdate(s) /\ Append(r.grads.sum, batch) \in OwnUpdate(s)
  BY DEF OwnRuntime, OwnGradients, OwnUpdate
<1>2. [set |-> TRUE, sum |-> Append(r.grads.sum, batch)] \in OwnGradients(s)
  BY <1>1 DEF OwnGradients
<1> DEFINE g == [set |-> TRUE, sum |-> Append(r.grads.sum, batch)]
           counted == [r.meta EXCEPT !.accum = @ + 1]
           e == [counted EXCEPT !.tokens = @ + tokens]
<1>3. r.meta \in Meta
  BY DEF OwnRuntime
<1>4. counted \in Meta
  BY <1>3 DEF Meta
<1>5. e \in Meta
  <2> HIDE DEF counted
  <2> QED
    BY <1>4 DEF Meta
<1>6. Accumulated(r, batch, tokens) = [[r EXCEPT !.grads = g] EXCEPT !.meta = e]
  BY <1>3 DEF Accumulated, OwnRuntime, Meta
<1> HIDE DEF g, e
<1>7. [r EXCEPT !.grads = g] \in OwnRuntime(s)
  BY <1>2 DEF OwnRuntime, g
<1> QED
  BY <1>5, <1>6, <1>7 DEF OwnRuntime

LEMMA ForwardBackwardOk ==
    ASSUME Inv, setup' = setup, NEW w \in Workers, NEW s \in Sessions,
           ForwardBackward(w, s)
    PROVE  Inv'
<1>0. Free(s)
  BY FetchedIsFree DEF ForwardBackward
<1>1. PICK l \in Loads(w, s) :
         LET m == Activate(l.mem, s)
             r == Accumulated(l.rt, pending[s].batch, 1)
         IN  IF HasModule(m, s) THEN Saves(w, s, StateOf(m, s, l.rt), m, r, FALSE)
                                ELSE Raise(w, s, m)
  BY DEF ForwardBackward
<1> DEFINE m == Activate(l.mem, s)
           r == Accumulated(l.rt, pending[s].batch, 1)
<1>2. MemoryOk(m) /\ (HasModule(m, s) => Placed(m, s)) /\ l.rt \in OwnRuntime(s)
  BY LoadedActive
<1>3. pending[s].batch \in {s} \X Nat
  BY OwnBatch DEF ForwardBackward
<1>4. r \in OwnRuntime(s)
  BY <1>2, <1>3, AccumulatedOwn
<1>5. (HasModule(m, s) /\ Saves(w, s, StateOf(m, s, l.rt), m, r, FALSE)) \/ Raise(w, s, m)
  BY <1>1
<1> HIDE DEF m, r
<1> QED
  BY <1>0, <1>2, <1>4, <1>5, SavesOk, RaiseOk

LEMMA CustomStep1Ok ==
    ASSUME Inv, setup' = setup, NEW w \in Workers, NEW s \in Sessions, CustomStep1(w, s)
    PROVE  Inv'
<1>0. Free(s)
  BY FetchedIsFree DEF CustomStep1
<1>1. PICK l \in Loads(w, s) :
         LET m == Activate(l.mem, s)
             r == [l.rt EXCEPT !.custom = @ \cup {pending[s].batch}]
         IN  IF HasModule(m, s) THEN Reads(w, s, StateOf(m, s, l.rt), m, r) ELSE Raise(w, s, m)
  BY DEF CustomStep1
<1> DEFINE m == Activate(l.mem, s)
           r == [l.rt EXCEPT !.custom = @ \cup {pending[s].batch}]
<1>2. MemoryOk(m) /\ (HasModule(m, s) => Placed(m, s)) /\ l.rt \in OwnRuntime(s)
  BY LoadedActive
<1>3. pending[s].batch \in Batch
  BY OwnBatch, OwnBatches DEF CustomStep1
<1>4. r \in OwnRuntime(s)
  BY <1>2, <1>3 DEF OwnRuntime
<1>5. Reads(w, s, StateOf(m, s, l.rt), m, r) \/ Raise(w, s, m)
  BY <1>1
<1> HIDE DEF m, r
<1> QED
  BY <1>0, <1>2, <1>4, <1>5, ReadsOk, RaiseOk

LEMMA CustomStep2Ok ==
    ASSUME Inv, setup' = setup, NEW w \in Workers, NEW s \in Sessions, CustomStep2(w, s)
    PROVE  Inv'
<1>0. Free(s)
  BY FetchedIsFree DEF CustomStep2
<1> DEFINE batch == pending[s].batch
<1>1. PICK l \in Loads(w, s) :
         LET m == Activate(l.mem, s)
             r == [Accumulated(l.rt, batch, 0) EXCEPT !.custom = @ \ {batch}]
         IN  IF HasModule(m, s) /\ batch \in l.rt.custom
             THEN Saves(w, s, StateOf(m, s, l.rt), m, r, FALSE) ELSE Raise(w, s, m)
  BY DEF CustomStep2
<1> DEFINE m == Activate(l.mem, s)
           added == Accumulated(l.rt, batch, 0)
           r == [added EXCEPT !.custom = @ \ {batch}]
<1>2. MemoryOk(m) /\ (HasModule(m, s) => Placed(m, s)) /\ l.rt \in OwnRuntime(s)
  BY LoadedActive
<1>3. batch \in {s} \X Nat
  BY OwnBatch DEF CustomStep2
<1>4. added \in OwnRuntime(s)
  BY <1>2, <1>3, AccumulatedOwn
<1>5. (HasModule(m, s) /\ Saves(w, s, StateOf(m, s, l.rt), m, r, FALSE)) \/ Raise(w, s, m)
  BY <1>1
<1> HIDE DEF m, added, batch
<1>6. r \in OwnRuntime(s)
  BY <1>4 DEF OwnRuntime
<1> HIDE DEF r
<1> QED
  BY <1>0, <1>2, <1>5, <1>6, SavesOk, RaiseOk

LEMMA SampleOk ==
    ASSUME Inv, setup' = setup, NEW w \in Workers, NEW s \in Sessions, Sample(w, s)
    PROVE  Inv'
<1>0. Free(s)
  BY FetchedIsFree DEF Sample
<1>1. PICK l \in Loads(w, s) :
         LET m == Activate(l.mem, s)
         IN  IF HasModule(m, s) THEN Reads(w, s, StateOf(m, s, l.rt), m, l.rt) ELSE Raise(w, s, m)
  BY DEF Sample
<1> DEFINE m == Activate(l.mem, s)
<1>2. MemoryOk(m) /\ (HasModule(m, s) => Placed(m, s)) /\ l.rt \in OwnRuntime(s)
  BY LoadedActive
<1>3. Reads(w, s, StateOf(m, s, l.rt), m, l.rt) \/ Raise(w, s, m)
  BY <1>1
<1> HIDE DEF m
<1> QED
  BY <1>0, <1>2, <1>3, ReadsOk, RaiseOk

LEMMA SteppedOwn ==
    ASSUME NEW s \in Sessions, NEW r \in OwnRuntime(s)
    PROVE  Stepped(r) \in OwnRuntime(s) /\ r.grads.sum \in OwnUpdate(s)
<1>1. r.grads.sum \in OwnUpdate(s) /\ r.opt \in MaybeOpt(s) /\ r.meta \in Meta
  BY DEF OwnRuntime, OwnGradients
<1> DEFINE old == IF r.opt = None THEN <<>> ELSE r.opt
           o == Append(old, r.grads.sum)
           counted == [r.meta EXCEPT !.steps = @ + 1]
           cleared == [counted EXCEPT !.accum = 0]
           e == [cleared EXCEPT !.tokens = 0]
<1>2. old \in OwnSteps(s)
  BY <1>1, Empty DEF MaybeOpt
<1>3. o \in OwnSteps(s)
  <2> HIDE DEF old
  <2> QED
    BY <1>1, <1>2 DEF OwnSteps
<1>4. counted \in Meta
  BY <1>1 DEF Meta
<1>5. cleared \in Meta
  <2> HIDE DEF counted
  <2> QED
    BY <1>4 DEF Meta
<1>6. e \in Meta
  <2> HIDE DEF cleared
  <2> QED
    BY <1>5 DEF Meta
<1>7. Stepped(r) = [[[r EXCEPT !.grads = ZeroGrads] EXCEPT !.opt = o] EXCEPT !.meta = e]
  BY <1>1 DEF Stepped, OwnRuntime, Meta
<1> HIDE DEF o, e
<1>8. [r EXCEPT !.grads = ZeroGrads] \in OwnRuntime(s)
  BY RecordsOk DEF OwnRuntime
<1> DEFINE emptied == [r EXCEPT !.grads = ZeroGrads]
<1>9. [emptied EXCEPT !.opt = o] \in OwnRuntime(s)
  <2> HIDE DEF emptied
  <2> QED
    BY <1>3, <1>8 DEF OwnRuntime, MaybeOpt, emptied
<1>10. Stepped(r) \in OwnRuntime(s)
  BY <1>6, <1>7, <1>9 DEF OwnRuntime
<1> QED
  BY <1>1, <1>10

LEMMA OptimStepOk ==
    ASSUME Inv, setup' = setup, NEW w \in Workers, NEW s \in Sessions, OptimStep(w, s)
    PROVE  Inv'
<1>0. Free(s)
  BY FetchedIsFree DEF OptimStep
<1>1. PICK l \in Loads(w, s) :
         LET m == Activate(l.mem, s)
         IN  IF HasModule(m, s) /\ l.rt.grads.set
             THEN Saves(w, s, StateOf(m, s, l.rt), Updated(m, s, l.rt.grads.sum), Stepped(l.rt), FALSE)
             ELSE Raise(w, s, m)
  BY DEF OptimStep
<1> DEFINE m == Activate(l.mem, s)
           n == Updated(m, s, l.rt.grads.sum)
           r == Stepped(l.rt)
<1>2. /\ MemoryOk(m) /\ (HasModule(m, s) => Placed(m, s))
      /\ m.active = s /\ l.rt \in OwnRuntime(s)
  BY LoadedActive
<1>3. r \in OwnRuntime(s) /\ l.rt.grads.sum \in OwnUpdate(s)
  BY <1>2, SteppedOwn
<1>4. (HasModule(m, s) /\ Saves(w, s, StateOf(m, s, l.rt), n, r, FALSE)) \/ Raise(w, s, m)
  BY <1>1
<1> HIDE DEF m, r
<1>5. Placed(m, s) => MemoryOk(n) /\ Placed(n, s)
  BY <1>2, <1>3, UpdatedOk
<1> HIDE DEF n
<1> QED
  BY <1>0, <1>2, <1>3, <1>4, <1>5, SavesOk, RaiseOk

LEMMA SaveWeightsOk ==
    ASSUME Inv, setup' = setup, NEW w \in Workers, NEW s \in Sessions, SaveWeights(w, s)
    PROVE  Inv'
<1>0. Free(s)
  BY FetchedIsFree DEF SaveWeights
<1> DEFINE r == mem[w].rt[s]
<1>1. MemoryOk(mem[w]) /\ r \in OwnRuntime(s) \cup {None}
  BY DEF Inv, MemoryOk, HoldsOwn
<1>2. CASE r = None
  BY <1>0, <1>1, <1>2, RaiseOk DEF SaveWeights
<1>3. CASE r # None
  <2>1. Saves(w, s, StateOf(mem[w], s, r), mem[w], r, TRUE)
    BY <1>3 DEF SaveWeights
  <2> QED
    BY <1>0, <1>1, <1>3, <2>1, CachedIsPlaced, SavesOk
<1> QED
  BY <1>2, <1>3

LEMMA LoadWeightsOk ==
    ASSUME Inv, setup' = setup, NEW w \in Workers, NEW s \in Sessions, NEW kind,
           LoadWeights(w, s, kind)
    PROVE  Inv'
<1>0. Free(s)
  BY FetchedIsFree DEF LoadWeights
<1>1. PICK l \in Loads(w, s) :
         LET r == IF kind = "restore" THEN Restored(l.rt, ckpts[s])
                  ELSE [l.rt EXCEPT !.grads = NoGrads]
         IN  IF HasModule(l.mem, s)
             THEN Saves(w, s, StateOf(l.mem, s, l.rt), Replaced(l.mem, s, ckpts[s].weights), r, FALSE)
             ELSE Raise(w, s, l.mem)
  BY DEF LoadWeights
<1> DEFINE r == IF kind = "restore" THEN Restored(l.rt, ckpts[s])
                ELSE [l.rt EXCEPT !.grads = NoGrads]
           n == Replaced(l.mem, s, ckpts[s].weights)
<1>2. MemoryOk(l.mem) /\ l.rt \in OwnRuntime(s)
  BY LoadsOk
<1>3. ckpts[s] \in OwnBlobSet(s) /\ ckpts[s].weights # None
  BY DEF LoadWeights, Fetched, Inv, PendingOk, StoresOk
<1>4. /\ ckpts[s].weights \in OwnWeights(s) /\ ckpts[s].opt \in MaybeOpt(s)
      /\ ckpts[s].grads \in OwnGradients(s) \cup {None}
  BY <1>3 DEF OwnBlobSet, MaybeWeights
<1>5. r \in OwnRuntime(s)
  BY <1>2, <1>4, RecordsOk DEF Restored, OwnRuntime
<1>6. Saves(w, s, StateOf(l.mem, s, l.rt), n, r, FALSE) \/ Raise(w, s, l.mem)
  BY <1>1
<1>7. MemoryOk(n) /\ Placed(n, s)
  BY <1>2, <1>4, ReplacedOk
<1> HIDE DEF n, r
<1> QED
  BY <1>0, <1>2, <1>5, <1>6, <1>7, SavesOk, RaiseOk

LEMMA HandlerStepOk ==
    ASSUME Inv, setup' = setup, NEW w \in Workers, NEW s \in Sessions, HandlerStep(w, s)
    PROVE  Inv'
BY InitSessionOk, LoadFailsOk, ForwardBackwardOk, CustomStep1Ok, CustomStep2Ok, SampleOk,
   OptimStepOk, SaveWeightsOk, LoadWeightsOk DEF HandlerStep
-----------------------------------------------------------------------------
(* The client: the batches it submits are its session's. *)
LEMMA SubmitOk ==
    ASSUME Inv, setup' = setup, NEW s \in Sessions, NEW kind, NEW batch, Submit(s, kind, batch),
           kind \notin {"init", "sample"} => batch \in {s} \X Nat,
           kind \in {"load", "restore"} => ckpts[s] # None,
           jobs' \in [Sessions -> Nat], DOMAIN custom' = Sessions,
           \A t \in Sessions : custom'[t] \in {custom[t], None}
    PROVE  Inv'
<1>1. /\ pending[s] = None /\ pending' = [pending EXCEPT ![s] = [kind |-> kind, batch |-> batch]]
      /\ UNCHANGED <<mem, local, remote, ckpts, op, latest, faults>>
  BY DEF Submit
<1>2. Workers' = Workers /\ Dirs' = Dirs /\ DirOf' = DirOf
  BY SettingKept
<1>3. DOMAIN mem' = Workers /\ \A v \in Workers : MemoryOk(mem[v])'
  <2>1. \A u : FP(u)' <=> FP(u)
    BY DEF FP, FullParam
  <2> QED
    BY <1>1, <2>1 DEF Inv, MemoryOk, IsMemory, BaseOk, HoldsOwn, HasWeights
<1> DEFINE j == [kind |-> kind, batch |-> batch]
<1>4. j.kind = kind /\ j.batch = batch
  OBVIOUS
<1>5. DOMAIN pending' = Sessions /\ \A t \in Sessions : pending'[t] = IF t = s THEN j ELSE pending[t]
  <2>1. DOMAIN pending = Sessions
    BY DEF Inv
  <2> QED
    BY <1>1, <2>1
<1> HIDE DEF j
<1>6. \A v \in Workers : OperationOk(v)'
  <2> SUFFICES ASSUME NEW v \in Workers, op[v] # None PROVE OperationOk(v)'
    BY <1>1 DEF OperationOk
  <2>1. OperationOk(v) /\ op[v].session # s /\ op[v].session \in Sessions
    BY <1>1 DEF Inv, OperationOk
  <2> QED
    BY <1>1, <1>2, <1>5, <2>1 DEF OperationOk
<1>7. \A t \in Sessions : PendingOk(t)' /\ StoresOk(t)'
  BY <1>1, <1>2, <1>4, <1>5 DEF Inv, PendingOk, StoresOk
<1>8. \A t \in Sessions : custom'[t] # None => custom'[t] \in {t} \X Nat
  BY DEF Inv
<1> QED
  BY <1>1, <1>2, <1>3, <1>5, <1>6, <1>7, <1>8 DEF Inv

LEMMA ClientStepOk ==
    ASSUME Inv, setup' = setup, NEW s \in Sessions, ClientStep(s)
    PROVE  Inv'
<1>0. DOMAIN custom = Sessions /\ jobs \in [Sessions -> Nat]
  BY DEF Inv
<1>1. CASE SubmitInit(s)
  BY <1>0, <1>1, SubmitOk DEF SubmitInit
<1>2. ASSUME NEW kind \in JobKinds, SubmitJob(s, kind) PROVE Inv'
  <2> DEFINE n == jobs[s] + 1
             batch == IF kind = "custom2" THEN custom[s] ELSE <<s, n>>
  <2>1. /\ kind = "custom2" => custom[s] # None
        /\ kind \in {"load", "restore"} => ckpts[s] # None
        /\ Submit(s, kind, batch) /\ jobs' = [jobs EXCEPT ![s] = n]
        /\ custom' = [custom EXCEPT ![s] = IF kind = "custom2" THEN None ELSE @]
    BY <1>2 DEF SubmitJob
  <2>2. n \in Nat /\ jobs' \in [Sessions -> Nat]
    BY <1>0, <2>1
  <2>3. batch \in {s} \X Nat
    BY <2>1, <2>2 DEF Inv
  <2>4. DOMAIN custom' = Sessions /\ \A t \in Sessions : custom'[t] \in {custom[t], None}
    BY <1>0, <2>1
  <2> HIDE DEF batch
  <2> QED
    BY <2>1, <2>2, <2>3, <2>4, SubmitOk
<1>3. CASE SubmitSample(s)
  BY <1>0, <1>3, SubmitOk DEF SubmitSample
<1> QED
  BY <1>1, <1>2, <1>3 DEF ClientStep
-----------------------------------------------------------------------------
(* Between a handler and its answer: writes, the publication, the ack, and the faults. *)
LEMMA BlobWritten ==
    ASSUME NEW s \in Sessions, NEW blobs \in OwnBlobSet(s), NEW image \in OwnBlobSet(s),
           NEW b \in Blobs, image[b] # None
    PROVE  /\ [blobs EXCEPT ![b] = image[b]] \in OwnBlobSet(s)
           /\ b = "weights" \/ blobs.weights # None => [blobs EXCEPT ![b] = image[b]].weights # None
BY DEF OwnBlobSet, Blobs

LEMMA WriteOk ==
    ASSUME Inv, setup' = setup, NEW w \in Workers, NEW b \in Blobs, Write(w, b)
    PROVE  Inv'
<1> DEFINE s == op[w].session
           d == DirOf[w]
           blobs == [local[d][s] EXCEPT ![b] = op[w].image[b]]
           o == [op[w] EXCEPT !.left = @ \ {b}]
<1>1. /\ op[w] # None /\ b \in op[w].left
      /\ local' = [local EXCEPT ![d][s][b] = op[w].image[b]] /\ op' = [op EXCEPT ![w] = o]
      /\ UNCHANGED <<mem, remote, ckpts, pending, jobs, custom, latest, faults>>
  BY DEF Write
<1>2. Workers' = Workers /\ Dirs' = Dirs /\ DirOf' = DirOf
  BY SettingKept
<1>3. OperationOk(w) /\ s \in Sessions /\ op[w].image[b] # None
  BY <1>1 DEF Inv, OperationOk
<1>4. d \in Dirs
  BY DEF Dirs, Range, Workers
<1>5. /\ blobs \in OwnBlobSet(s)
      /\ b = "weights" \/ local[d][s].weights # None => blobs.weights # None
  <2>1. local[d][s] \in OwnBlobSet(s) /\ op[w].image \in OwnBlobSet(s)
    BY <1>1, <1>3, <1>4 DEF Inv, OperationOk, StoresOk
  <2> DEFINE old == local[d][s]
             image == op[w].image
  <2>3. old \in OwnBlobSet(s) /\ image \in OwnBlobSet(s) /\ image[b] # None
    BY <1>3, <2>1
  <2> HIDE DEF old, image, s
  <2>2. /\ [old EXCEPT ![b] = image[b]] \in OwnBlobSet(s)
        /\ b = "weights" \/ old.weights # None => [old EXCEPT ![b] = image[b]].weights # None
    BY <1>3, <2>3, BlobWritten
  <2> QED
    BY <2>2 DEF old, image, s
<1>6. /\ DOMAIN local' = Dirs /\ \A e \in Dirs : DOMAIN local'[e] = Sessions
      /\ \A e \in Dirs, t \in Sessions :
            local'[e][t] = IF e = d /\ t = s THEN blobs ELSE local[e][t]
  <2>1. DOMAIN local = Dirs /\ \A e \in Dirs : DOMAIN local[e] = Sessions
    BY DEF Inv
  <2> QED
    BY <1>1, <1>3, <1>4, <2>1
<1>7. DOMAIN op' = Workers /\ \A v \in Workers : op'[v] = IF v = w THEN o ELSE op[v]
  BY <1>1 DEF Inv
<1>8. /\ DOMAIN o = DOMAIN op[w] /\ o.session = s /\ o.image = op[w].image
      /\ o.publish = op[w].publish /\ o.left = op[w].left \ {b}
  BY <1>1, <1>3 DEF OperationOk
<1>9. DOMAIN mem' = Workers /\ \A v \in Workers : MemoryOk(mem[v])'
  <2>1. \A u : FP(u)' <=> FP(u)
    BY DEF FP, FullParam
  <2> QED
    BY <1>1, <1>2, <2>1 DEF Inv, MemoryOk, IsMemory, BaseOk, HoldsOwn, HasWeights
<1>10. \A v \in Workers : op'[v] # None => op[v] # None /\ op'[v].session = op[v].session
  BY <1>1, <1>7, <1>8
<1> HIDE DEF blobs, o
<1>11. OperationOk(w)'
  <2>1. /\ op[w].left \subseteq {c \in Blobs : op[w].image[c] # None}
        /\ op[w].image \in OwnBlobSet(s) /\ pending[s] # None
        /\ \A v \in Workers : op[v] # None /\ op[v].session = s => v = w
        /\ op[w].publish => "weights" \in op[w].left \/ local[d][s].weights # None
        /\ DOMAIN op[w] = {"session", "before", "after", "image", "left", "publish"}
    BY <1>1, <1>3 DEF OperationOk
  <2>2. o.publish => "weights" \in o.left \/ local'[d][s].weights # None
    BY <1>3, <1>4, <1>5, <1>6, <1>8, <2>1
  <2>3. op'[w] = o /\ pending' = pending /\ DirOf'[w] = d
    BY <1>1, <1>2, <1>7
  <2>4. \A v \in Workers : op'[v] # None /\ op'[v].session = s => v = w
    BY <1>10, <2>1
  <2> HIDE DEF s, d
  <2> QED
    BY <1>2, <1>3, <1>8, <2>1, <2>2, <2>3, <2>4 DEF OperationOk
<1>12. \A v \in Workers : OperationOk(v)'
  <2> SUFFICES ASSUME NEW v \in Workers, v # w, op[v] # None PROVE OperationOk(v)'
    BY <1>7, <1>11 DEF OperationOk
  <2>1. OperationOk(v) /\ op[v].session # s /\ DirOf[v] \in Dirs
    BY <1>1, <1>3 DEF Inv, OperationOk, Dirs, Range, Workers
  <2> HIDE DEF s, d
  <2> QED
    BY <1>1, <1>2, <1>6, <1>7, <1>10, <2>1 DEF OperationOk
<1>13. \A t \in Sessions : PendingOk(t)' /\ StoresOk(t)'
  BY <1>1, <1>2, <1>5, <1>6 DEF Inv, PendingOk, StoresOk
<1> QED
  BY <1>1, <1>2, <1>6, <1>7, <1>9, <1>12, <1>13 DEF Inv

(* A step that leaves the memories alone keeps them OK. *)
LEMMA MemoriesSame ==
    ASSUME Inv, setup' = setup, mem' = mem
    PROVE  DOMAIN mem' = Workers /\ \A v \in Workers : MemoryOk(mem[v])'
<1>1. \A u : FP(u)' <=> FP(u)
  BY DEF FP, FullParam
<1> QED
  BY <1>1, SettingKept DEF Inv, MemoryOk, IsMemory, BaseOk, HoldsOwn, HasWeights

LEMMA MaterializedOk ==
    ASSUME NEW s \in Sessions, NEW far \in OwnBlobSet(s), NEW old,
           old # None => old \in OwnBlobSet(s), NEW taken \in SUBSET Blobs
    PROVE  /\ Materialized(far, old, taken) \in OwnBlobSet(s)
           /\ "weights" \in taken /\ far.weights # None
                 => Materialized(far, old, taken).weights # None
<1> DEFINE x == Materialized(far, old, taken)
<1>1. CASE old = None
  <2>1. x = [b \in Blobs |-> IF b \in taken /\ far[b] # None THEN far[b] ELSE None]
    BY <1>1 DEF Materialized
  <2> HIDE DEF x
  <2> QED
    BY <2>1 DEF OwnBlobSet, Blobs, MaybeWeights, MaybeOpt, x
<1>2. CASE old # None
  <2>1. x = [b \in Blobs |-> IF b \in taken /\ far[b] # None THEN far[b] ELSE old[b]]
    BY <1>2 DEF Materialized
  <2>2. old \in OwnBlobSet(s)
    BY <1>2
  <2> HIDE DEF x
  <2> QED
    BY <2>1, <2>2 DEF OwnBlobSet, Blobs, x
<1> QED
  BY <1>1, <1>2

(* The copying of save_weights, whole or part of it: what is taken into the checkpoint *)
(* first of all are the weights, which are there.                                      *)
LEMMA CopyingOk ==
    ASSUME Inv, setup' = setup, NEW w \in Workers, NEW copied \in SUBSET Blobs,
           NEW taken \in SUBSET Blobs, taken # {} => "weights" \in copied \cap taken,
           Copying(w, copied, taken), NEW m, MemoryOk(m),
           mem' = mem \/ mem' = [mem EXCEPT ![w] = m],
           op' = [op EXCEPT ![w] = None] \/ op' = [op EXCEPT ![w].publish = FALSE]
    PROVE  Inv'
<1> DEFINE s == op[w].session
           d == DirOf[w]
           far == CopiedToRemote(w, s, copied)
           ckpt == IF taken = {} THEN ckpts[s] ELSE Materialized(far, ckpts[s], taken)
           o == [op[w] EXCEPT !.publish = FALSE]
<1>1. /\ op[w] # None /\ op[w].publish /\ op[w].left = {}
      /\ remote' = [remote EXCEPT ![s] = far] /\ ckpts' = [ckpts EXCEPT ![s] = ckpt]
      /\ op' = [op EXCEPT ![w] = o] \/ op' = [op EXCEPT ![w] = None]
      /\ UNCHANGED <<local, pending, jobs, custom, latest>>
  BY DEF Copying, Inv
<1>2. Workers' = Workers /\ Dirs' = Dirs /\ DirOf' = DirOf
  BY SettingKept
<1>3. OperationOk(w) /\ s \in Sessions /\ d \in Dirs /\ local[d][s].weights # None
  BY <1>1 DEF Inv, OperationOk, Dirs, Range, Workers
<1>4. /\ local[d][s] \in OwnBlobSet(s) /\ remote[s] \in OwnBlobSet(s)
      /\ ckpts[s] # None => ckpts[s] \in OwnBlobSet(s) /\ ckpts[s].weights # None
  BY <1>3 DEF Inv, StoresOk
<1>5. far \in OwnBlobSet(s) /\ ("weights" \in copied => far.weights # None)
  <2> DEFINE there == remote[s]
             near == local[d][s]
  <2>1. there \in OwnBlobSet(s) /\ near \in OwnBlobSet(s) /\ near.weights # None
    BY <1>3, <1>4
  <2>2. far = [b \in Blobs |-> IF b \in copied /\ there[b] = None THEN near[b] ELSE there[b]]
    BY DEF CopiedToRemote
  <2> HIDE DEF there, near, far, s
  <2> QED
    BY <2>1, <2>2 DEF OwnBlobSet, Blobs
<1>6. ckpt # None => ckpt \in OwnBlobSet(s) /\ ckpt.weights # None
  <2> DEFINE old == ckpts[s]
  <2>1. old # None => old \in OwnBlobSet(s) /\ old.weights # None
    BY <1>4
  <2>2. CASE taken = {}
    BY <2>1, <2>2
  <2>3. CASE taken # {}
    <3>1. ckpt = Materialized(far, old, taken) /\ "weights" \in copied \cap taken
      BY <2>3
    <3> HIDE DEF old, far, ckpt, s
    <3> QED
      BY <1>3, <1>5, <2>1, <3>1, MaterializedOk
  <2> QED
    BY <2>2, <2>3
<1>7. ckpts[s] # None => ckpt # None
  <2> DEFINE old == ckpts[s]
  <2>1. CASE taken = {}
    BY <2>1
  <2>2. CASE taken # {}
    <3>1. ckpt = Materialized(far, old, taken) /\ (old # None => old \in OwnBlobSet(s))
      BY <1>4, <2>2
    <3> HIDE DEF old, far, ckpt, s
    <3> QED
      BY <1>3, <1>5, <3>1, MaterializedOk, OwnBlobsAreNotNone
  <2> QED
    BY <2>1, <2>2
<1>8. /\ DOMAIN op' = Workers
      /\ \A v \in Workers : v # w => op'[v] = op[v]
      /\ op'[w] = o \/ op'[w] = None
      /\ DOMAIN remote' = Sessions
      /\ \A t \in Sessions : remote'[t] = IF t = s THEN far ELSE remote[t]
      /\ DOMAIN ckpts' = Sessions
      /\ \A t \in Sessions : ckpts'[t] = IF t = s THEN ckpt ELSE ckpts[t]
  <2>1. DOMAIN op = Workers /\ DOMAIN remote = Sessions /\ DOMAIN ckpts = Sessions
    BY DEF Inv
  <2> QED
    BY <1>1, <2>1
<1>9. /\ DOMAIN o = DOMAIN op[w] /\ o.session = s /\ o.image = op[w].image
      /\ o.publish = FALSE /\ o.left = op[w].left
  BY <1>1, <1>3 DEF OperationOk
<1>10. DOMAIN mem' = Workers /\ \A v \in Workers : MemoryOk(mem[v])'
  BY MemoriesSame, MemoriesKept
<1> HIDE DEF o, far, ckpt
<1>11. \A v \in Workers : op'[v] # None => op[v] # None /\ op'[v].session = op[v].session
  BY <1>1, <1>8, <1>9
<1>12. \A v \in Workers : OperationOk(v)'
  <2> SUFFICES ASSUME NEW v \in Workers, op'[v] # None PROVE OperationOk(v)'
    BY DEF OperationOk
  <2>1. OperationOk(v) /\ op[v] # None
    BY <1>11 DEF Inv
  <2>2. /\ DOMAIN op'[v] = DOMAIN op[v] /\ op'[v].session = op[v].session
        /\ op'[v].image = op[v].image /\ op'[v].left = op[v].left
        /\ op'[v].publish => op[v].publish
    BY <1>8, <1>9
  <2> HIDE DEF s, d
  <2> QED
    BY <1>1, <1>2, <1>11, <2>1, <2>2 DEF OperationOk
<1>13. \A t \in Sessions : PendingOk(t)' /\ StoresOk(t)'
  <2> SUFFICES ASSUME NEW t \in Sessions PROVE PendingOk(t)' /\ StoresOk(t)'
    OBVIOUS
  <2>1. PendingOk(t) /\ StoresOk(t)
    BY DEF Inv
  <2>2. ckpts[t] # None => ckpts'[t] # None
    BY <1>3, <1>7, <1>8
  <2> QED
    BY <1>1, <1>2, <1>5, <1>6, <1>8, <2>1, <2>2 DEF PendingOk, StoresOk
<1> QED
  BY <1>1, <1>2, <1>8, <1>10, <1>12, <1>13 DEF Inv

LEMMA PublishOk ==
    ASSUME Inv, setup' = setup, NEW w \in Workers, Publish(w)
    PROVE  Inv'
<1>1. MemoryOk(mem[w]) /\ "weights" \in Blobs
  BY DEF Inv, Blobs
<1> QED
  BY <1>1, CopyingOk DEF Publish

LEMMA FreshMemoryOk == MemoryOk(FreshMemory)
<1>1. FreshMemory.base = Pristine /\ FreshMemory.active = None
  BY DEF FreshMemory
<1>2. \A s \in Sessions : FreshMemory.rt[s] = None /\ FreshMemory.adapter[s] = None
                         /\ FreshMemory.stash[s] = None
  BY DEF FreshMemory
<1>3. IsMemory(FreshMemory)
  BY DEF FreshMemory, IsMemory
<1> QED
  BY <1>1, <1>2, <1>3 DEF MemoryOk, BaseOk, HoldsOwn, MaybeWeights

(* The faults of the copying: the blobs go one by one, the weights first. *)
LEMMA FirstBlobsAre ==
    ASSUME NEW n \in 0 .. 4
    PROVE  /\ FirstBlobs(n) \in SUBSET Blobs
           /\ n > 0 => "weights" \in FirstBlobs(n)
           /\ FirstBlobs(n) # {} => n > 0
<1>1. n > 0 => 1 \in 1 .. n /\ <<"weights", "opt", "grads", "meta">>[1] = "weights"
  OBVIOUS
<1> QED
  BY <1>1 DEF FirstBlobs, Blobs

LEMMA CopyFaultOk ==
    ASSUME Inv, setup' = setup, NEW w \in Workers, PublishCut(w) \/ ExtraLost(w)
    PROVE  Inv'
<1>1. CASE PublishCut(w)
  <2>1. PICK n \in 0 .. 4, k \in 0 .. 4 :
          (k > 0 => n = 4) /\ Copying(w, FirstBlobs(n), FirstBlobs(k))
    BY <1>1 DEF PublishCut
  <2>2. FirstBlobs(k) # {} => "weights" \in FirstBlobs(n) \cap FirstBlobs(k)
    BY <2>1, FirstBlobsAre
  <2>3. FirstBlobs(n) \in SUBSET Blobs /\ FirstBlobs(k) \in SUBSET Blobs
    BY FirstBlobsAre
  <2>4. /\ op' = [op EXCEPT ![w] = None]
        /\ mem' = mem \/ mem' = [mem EXCEPT ![w] = FreshMemory]
    BY <1>1 DEF PublishCut
  <2> QED
    BY <2>1, <2>2, <2>3, <2>4, CopyingOk, FreshMemoryOk
<1>2. CASE ExtraLost(w)
  <2>1. PICK b \in Blobs \ {"weights"} : Copying(w, Blobs, Blobs \ {b})
    BY <1>2 DEF ExtraLost
  <2>2. "weights" \in Blobs \cap (Blobs \ {b}) /\ (Blobs \ {b}) \in SUBSET Blobs
    BY <2>1 DEF Blobs
  <2>3. op' = [op EXCEPT ![w].publish = FALSE] /\ mem' = mem
    BY <1>2 DEF ExtraLost
  <2> QED
    BY <2>1, <2>2, <2>3, CopyingOk, FreshMemoryOk
<1> QED
  BY <1>1, <1>2

LEMMA FinishOk ==
    ASSUME Inv, setup' = setup, NEW w \in Workers, Finish(w)
    PROVE  Inv'
<1> DEFINE s == op[w].session
           m == [mem[w] EXCEPT !.served[s] = IF @ = 2 THEN 2 ELSE @ + 1]
<1>1. /\ op[w] # None /\ op' = [op EXCEPT ![w] = None]
      /\ pending' = [pending EXCEPT ![s] = None]
      /\ custom' = [custom EXCEPT ![s] = IF pending[s].kind = "custom1"
                                        THEN pending[s].batch ELSE @]
      /\ mem' = [mem EXCEPT ![w] = m]
      /\ UNCHANGED <<local, remote, ckpts, jobs, faults>>
  BY DEF Finish, Inv
<1>2. Workers' = Workers /\ Dirs' = Dirs /\ DirOf' = DirOf
  BY SettingKept
<1>3. s \in Sessions /\ pending[s] # None
  BY <1>1 DEF Inv, OperationOk
<1>4. MemoryOk(m)
  <2>1. MemoryOk(mem[w])
    BY DEF Inv
  <2>2. /\ IsMemory(m) /\ m.rt = mem[w].rt /\ m.adapter = mem[w].adapter
        /\ m.stash = mem[w].stash /\ m.base = mem[w].base /\ m.active = mem[w].active
        /\ m.strayed = mem[w].strayed
    BY <2>1 DEF MemoryOk, IsMemory
  <2> HIDE DEF m
  <2> QED
    BY <2>1, <2>2 DEF MemoryOk, BaseOk, HoldsOwn, HasWeights
<1>5. DOMAIN mem' = Workers /\ \A v \in Workers : MemoryOk(mem[v])'
  BY <1>1, <1>4, MemoriesKept
<1> HIDE DEF m
<1>6. DOMAIN op' = Workers /\ \A v \in Workers : op'[v] = IF v = w THEN None ELSE op[v]
  BY <1>1 DEF Inv
<1>7. DOMAIN pending' = Sessions /\ \A t \in Sessions : pending'[t] = IF t = s THEN None ELSE pending[t]
  <2>1. DOMAIN pending = Sessions
    BY DEF Inv
  <2> QED
    BY <1>1, <2>1
<1>8. DOMAIN custom' = Sessions /\ \A t \in Sessions : custom'[t] # None => custom'[t] \in {t} \X Nat
  <2>1. DOMAIN custom = Sessions /\ \A t \in Sessions : custom[t] # None => custom[t] \in {t} \X Nat
    BY DEF Inv
  <2>2. pending[s].kind = "custom1" => pending[s].batch \in {s} \X Nat
    BY <1>3 DEF Inv, PendingOk
  <2> HIDE DEF s
  <2> QED
    BY <1>1, <1>3, <2>1, <2>2
<1>9. \A v \in Workers : OperationOk(v)'
  <2> SUFFICES ASSUME NEW v \in Workers, v # w, op[v] # None PROVE OperationOk(v)'
    BY <1>6 DEF OperationOk
  <2>1. OperationOk(v) /\ op[v].session # s
    BY <1>1 DEF Inv, OperationOk
  <2> HIDE DEF s
  <2> QED
    BY <1>1, <1>2, <1>6, <1>7, <2>1 DEF OperationOk
<1>10. \A t \in Sessions : PendingOk(t)' /\ StoresOk(t)'
  BY <1>1, <1>2, <1>7 DEF Inv, PendingOk, StoresOk
<1> QED
  BY <1>1, <1>2, <1>5, <1>6, <1>7, <1>8, <1>9, <1>10 DEF Inv

LEMMA FaultOk ==
    ASSUME Inv, setup' = setup, NEW w \in Workers, Restart(w) \/ WriteFails(w)
    PROVE  Inv'
<1>1. /\ op' = [op EXCEPT ![w] = None]
      /\ mem' = mem \/ mem' = [mem EXCEPT ![w] = FreshMemory]
      /\ UNCHANGED <<local, remote, ckpts, pending, jobs, custom, latest>>
  BY DEF Restart, WriteFails
<1>2. Workers' = Workers /\ Dirs' = Dirs /\ DirOf' = DirOf
  BY SettingKept
<1>3. DOMAIN mem' = Workers /\ \A v \in Workers : MemoryOk(mem[v])'
  BY <1>1, FreshMemoryOk, MemoriesKept, MemoriesSame
<1>4. DOMAIN op' = Workers /\ \A v \in Workers : op'[v] = IF v = w THEN None ELSE op[v]
  BY <1>1 DEF Inv
<1>5. \A v \in Workers : OperationOk(v)'
  BY <1>1, <1>2, <1>4 DEF Inv, OperationOk
<1>6. \A t \in Sessions : PendingOk(t)' /\ StoresOk(t)'
  BY <1>1, <1>2 DEF Inv, PendingOk, StoresOk
<1> QED
  BY <1>1, <1>2, <1>3, <1>4, <1>5, <1>6 DEF Inv
-----------------------------------------------------------------------------
LEMMA InitOk == Init => Inv
<1> SUFFICES ASSUME Init PROVE Inv
  OBVIOUS
<1>1. \A w \in Workers : mem[w] = FreshMemory
  BY DEF Init
<1>2. \A s \in Sessions : PendingOk(s) /\ StoresOk(s)
  BY RecordsOk DEF Init, PendingOk, StoresOk
<1> QED
  BY <1>1, <1>2, FreshMemoryOk DEF Init, Inv, OperationOk

LEMMA NextOk == Inv /\ [Next]_vars => Inv'
<1> SUFFICES ASSUME Inv, [Next]_vars PROVE Inv'
  OBVIOUS
<1>1. CASE UNCHANGED vars
  <2>1. setup' = setup /\ mem' = mem /\ Workers' = Workers /\ Dirs' = Dirs /\ DirOf' = DirOf
    BY <1>1, SettingKept DEF vars
  <2>2. DOMAIN mem' = Workers /\ \A v \in Workers : MemoryOk(mem[v])'
    BY <2>1, MemoriesSame
  <2> QED
    BY <1>1, <2>1, <2>2 DEF vars, Inv, OperationOk, PendingOk, StoresOk
<1>2. CASE Next
  <2>1. setup' = setup
    BY <1>2 DEF Next
  <2> QED
    BY <1>2, <2>1, ClientStepOk, HandlerStepOk, WriteOk, PublishOk, FinishOk, FaultOk,
       CopyFaultOk DEF Next, Step
<1> QED
  BY <1>1, <1>2

(* What is typed by a session's batches holds batches of its own only. *)
LEMMA OwnStepsAreOwn ==
    ASSUME NEW s \in Sessions, NEW x \in OwnSteps(s) PROVE OwnUpdates(s, x)
<1> SUFFICES ASSUME NEW i \in DOMAIN x, NEW k \in DOMAIN x[i] PROVE x[i][k][1] = s
  BY DEF OwnUpdates
<1>1. x[i] \in OwnUpdate(s)
  BY DEF OwnSteps
<1>2. x[i][k] \in {s} \X Nat
  BY <1>1 DEF OwnUpdate
<1> QED
  BY <1>2

LEMMA OwnWeightsAreOwn ==
    ASSUME NEW s \in Sessions, NEW x \in MaybeWeights(s) PROVE Own(s, x)
<1>1. x # None => x.steps \in OwnSteps(s)
  BY DEF MaybeWeights, OwnWeights
<1> QED
  BY <1>1, OwnStepsAreOwn DEF Own

LEMMA OwnOptIsOwn ==
    ASSUME NEW s \in Sessions, NEW x \in MaybeOpt(s) PROVE OwnOpt(s, x)
BY OwnStepsAreOwn DEF OwnOpt, MaybeOpt

LEMMA OwnGradientsAreOwn ==
    ASSUME NEW s \in Sessions, NEW g \in OwnGradients(s) \cup {None} PROVE OwnGrads(s, g)
<1> SUFFICES ASSUME g # None, NEW k \in DOMAIN g.sum PROVE g.sum[k][1] = s
  BY DEF OwnGrads
<1>1. g.sum \in Seq({s} \X Nat)
  BY DEF OwnGradients, OwnUpdate
<1>2. g.sum[k] \in {s} \X Nat
  BY <1>1
<1> QED
  BY <1>2

LEMMA OwnBlobSetIsOwn ==
    ASSUME NEW s \in Sessions, NEW blobs \in OwnBlobSet(s) PROVE OwnBlobs(s, blobs)
<1>1. /\ blobs.weights \in MaybeWeights(s) /\ blobs.opt \in MaybeOpt(s)
      /\ blobs.grads \in OwnGradients(s) \cup {None}
  BY DEF OwnBlobSet
<1> QED
  BY <1>1, OwnWeightsAreOwn, OwnOptIsOwn, OwnGradientsAreOwn DEF OwnBlobs

LEMMA MemoryIsOwn ==
    ASSUME NEW m, MemoryOk(m) PROVE OwnMemory(m)
<1>1. \A s \in Sessions : Own(s, m.stash[s]) /\ Own(s, m.adapter[s])
  BY OwnWeightsAreOwn DEF MemoryOk, HoldsOwn
<1>2. \A s \in Sessions : m.rt[s] # None => OwnGrads(s, m.rt[s].grads) /\ OwnOpt(s, m.rt[s].opt)
  <2> SUFFICES ASSUME NEW s \in Sessions, m.rt[s] # None
               PROVE  OwnGrads(s, m.rt[s].grads) /\ OwnOpt(s, m.rt[s].opt)
    OBVIOUS
  <2>1. m.rt[s].grads \in OwnGradients(s) /\ m.rt[s].opt \in MaybeOpt(s)
    BY DEF MemoryOk, HoldsOwn, OwnRuntime
  <2> QED
    BY <2>1, OwnOptIsOwn, OwnGradientsAreOwn
<1>3. m.active # None /\ FP(m.active) => Own(m.active, m.base)
  BY OwnWeightsAreOwn DEF MemoryOk, BaseOk, MaybeWeights
<1> QED
  BY <1>1, <1>2, <1>3 DEF OwnMemory, MemoryOk, BaseOk

LEMMA InvIsolates == Inv => SessionIsolation
<1> SUFFICES ASSUME Inv PROVE SessionIsolation
  OBVIOUS
<1>1. \A w \in Workers : OwnMemory(mem[w])
  BY MemoryIsOwn DEF Inv
<1>2. \A w \in Workers : op[w] # None => OwnBlobs(op[w].session, op[w].image)
  BY OwnBlobSetIsOwn DEF Inv, OperationOk
<1>3. \A s \in Sessions : /\ OwnBlobs(s, remote[s])
                          /\ ckpts[s] # None => OwnBlobs(s, ckpts[s])
                          /\ \A d \in Dirs : OwnBlobs(s, local[d][s])
  BY OwnBlobSetIsOwn DEF Inv, StoresOk
<1> QED
  BY <1>1, <1>2, <1>3 DEF SessionIsolation

(***************************************************************************)
(* Sessions that share a worker's base model never see each other's data   *)
(* (worker.py:926-1003), whatever the clients do, wherever the workers die *)
(* and whichever writes fail, and even when the cache evicts the session   *)
(* it has just loaded.                                                     *)
(***************************************************************************)
THEOREM SessionsStayApart == Spec => []SessionIsolation
BY InitOk, NextOk, InvIsolates, PTL DEF Spec
-----------------------------------------------------------------------------
(***************************************************************************)
(* What a handler leaves of the sessions it is not about, and makes of the *)
(* one it is about.  n, made of m, has of session t what m had of it, or   *)
(* has evicted it, and given the base model back if t was the active full- *)
(* parameter session.                                                      *)
(***************************************************************************)
KeepsOne(m, n, t) ==
    /\ n.rt[t] # None => n.rt[t] = m.rt[t] /\ LiveWeights(n, t) = LiveWeights(m, t)
    /\ m.rt[t] = None => /\ n.adapter[t] \in {None, m.adapter[t]}
                         /\ n.stash[t] \in {None, m.stash[t]}
    /\ FP(t) /\ n.active = t => m.active = t /\ (m.rt[t] # None => n.rt[t] # None)
Keeps(m, n, s) == \A t \in Sessions : t # s => KeepsOne(m, n, t)
KeepsAll(m, n) == \A t \in Sessions : KeepsOne(m, n, t) /\ (m.rt[t] # None => n.rt[t] # None)

LEMMA KeepsTransitive ==
    ASSUME NEW a, NEW b, NEW c, NEW s, Keeps(a, b, s), Keeps(b, c, s) PROVE Keeps(a, c, s)
BY DEF Keeps, KeepsOne

LEMMA KeepsAllKeeps ==
    ASSUME NEW m, NEW n, NEW s, KeepsAll(m, n) PROVE Keeps(m, n, s)
BY DEF Keeps, KeepsAll

LEMMA OnEvictKeeps ==
    ASSUME NEW m, MemoryOk(m), NEW v \in Sessions
    PROVE  \A t \in Sessions : /\ KeepsOne(m, OnEvict(m, v), t)
                               /\ t # v => /\ OnEvict(m, v).rt[t] = m.rt[t]
                                           /\ LiveWeights(OnEvict(m, v), t) = LiveWeights(m, t)
<1> DEFINE x == OnEvict(m, v)
<1>1. /\ x.rt[v] = None
      /\ x.adapter[v] = IF FP(v) THEN m.adapter[v] ELSE None
      /\ x.stash[v] = IF FP(v) THEN None ELSE m.stash[v]
      /\ x.base = IF FP(v) /\ m.active = v THEN Pristine ELSE m.base
      /\ x.active = IF m.active = v THEN None ELSE m.active
  BY DEF OnEvict, MemoryOk, IsMemory
<1>2. \A t \in Sessions : t # v =>
         x.rt[t] = m.rt[t] /\ x.adapter[t] = m.adapter[t] /\ x.stash[t] = m.stash[t]
  BY DEF OnEvict, MemoryOk, IsMemory
<1> HIDE DEF x
<1>3. \A t \in Sessions : t # v => LiveWeights(x, t) = LiveWeights(m, t)
  BY <1>1, <1>2, NoneAssumption DEF LiveWeights
<1> QED
  BY <1>1, <1>2, <1>3, NoneAssumption DEF KeepsOne, x

LEMMA StashActiveKeeps ==
    ASSUME NEW m, MemoryOk(m)
    PROVE  /\ KeepsAll(m, StashActive(m))
           /\ \A t \in Sessions : LiveWeights(StashActive(m), t) = LiveWeights(m, t)
           /\ m.active \in Cached(m) /\ FP(m.active) => StashActive(m).stash[m.active] = m.base
           /\ \A t \in Sessions : t # m.active => StashActive(m).stash[t] = m.stash[t]
<1> DEFINE n == StashActive(m)
<1>1. /\ n.rt = m.rt /\ n.adapter = m.adapter /\ n.base = m.base /\ n.active = m.active
      /\ \A t \in Sessions : t # m.active => n.stash[t] = m.stash[t]
      /\ m.active \in Cached(m) /\ FP(m.active) => n.stash[m.active] = m.base
      /\ ~ (m.active \in Cached(m) /\ FP(m.active)) => n = m
  BY DEF StashActive, MemoryOk, IsMemory, Cached
<1>2. m.active \in Cached(m) => m.rt[m.active] # None
  BY DEF Cached
<1> HIDE DEF n
<1>3. \A t \in Sessions : LiveWeights(n, t) = LiveWeights(m, t)
  BY <1>1 DEF LiveWeights
<1> QED
  BY <1>1, <1>2, <1>3 DEF KeepsAll, KeepsOne, n

LEMMA AttachKeeps ==
    ASSUME NEW m, MemoryOk(m), NEW s \in Sessions, FP(s) => m.active # s, NEW weights
    PROVE  /\ Keeps(m, Attach(m, s, weights), s)
           /\ \A t \in Sessions : Attach(m, s, weights).rt[t] = m.rt[t]
           /\ LiveWeights(Attach(m, s, weights), s) = weights
           /\ ~ FP(s) => /\ Attach(m, s, weights).stash[s] = m.stash[s]
                         /\ Attach(m, s, weights).active = m.active
<1>1. CASE FP(s)
  <2> DEFINE n == StashActive(m)
             x == [n EXCEPT !.stash[s] = weights]
  <2>1. MemoryOk(n) /\ n.rt = m.rt /\ n.active = m.active /\ KeepsAll(m, n)
    BY StashActiveOk, StashActiveKeeps
  <2>2. Attach(m, s, weights) = x
    BY <1>1 DEF Attach
  <2> HIDE DEF n
  <2>3. /\ x.rt = n.rt /\ x.adapter = n.adapter /\ x.base = n.base /\ x.active = n.active
        /\ x.stash[s] = weights /\ \A t \in Sessions : t # s => x.stash[t] = n.stash[t]
    BY <2>1 DEF MemoryOk, IsMemory
  <2> HIDE DEF x
  <2>4. \A t \in Sessions : t # s => LiveWeights(x, t) = LiveWeights(n, t)
    BY <2>3 DEF LiveWeights
  <2>5. LiveWeights(x, s) = weights
    BY <1>1, <2>1, <2>3 DEF LiveWeights
  <2>6. Keeps(n, x, s)
    BY <2>3, <2>4 DEF Keeps, KeepsOne
  <2> QED
    BY <1>1, <2>1, <2>2, <2>3, <2>5, <2>6, KeepsAllKeeps, KeepsTransitive
<1>2. CASE ~ FP(s)
  <2> DEFINE x == [m EXCEPT !.adapter[s] = weights]
  <2>1. Attach(m, s, weights) = x
    BY <1>2 DEF Attach
  <2>2. /\ x.rt = m.rt /\ x.stash = m.stash /\ x.base = m.base /\ x.active = m.active
        /\ x.adapter[s] = weights /\ \A t \in Sessions : t # s => x.adapter[t] = m.adapter[t]
    BY DEF MemoryOk, IsMemory
  <2> HIDE DEF x
  <2> QED
    BY <1>2, <2>1, <2>2 DEF Keeps, KeepsOne, LiveWeights
<1> QED
  BY <1>1, <1>2

LEMMA PutKeeps ==
    ASSUME NEW m, MemoryOk(m), NEW s \in Sessions, HasWeights(m, s), NEW r \in OwnRuntime(s),
           NEW victim \in Sessions \cup {None}, victim # s
    PROVE  /\ Keeps(m, Put(m, s, r, victim), s)
           /\ LiveWeights(Put(m, s, r, victim), s) = LiveWeights(m, s)
           /\ victim = None => \A t \in Sessions : t # s => Put(m, s, r, victim).rt[t] = m.rt[t]
<1> DEFINE x == [m EXCEPT !.rt[s] = r]
<1>1. MemoryOk(x)
  <2>1. Put(m, s, r, None) = x
    BY DEF Put
  <2>2. None # s
    BY NoneAssumption
  <2> QED
    BY <2>1, <2>2, PutOk
<1>2. /\ x.active = m.active /\ x.base = m.base /\ x.stash = m.stash
      /\ x.adapter = m.adapter /\ x.rt[s] = r
      /\ \A t \in Sessions : t # s => x.rt[t] = m.rt[t]
  BY DEF MemoryOk, IsMemory
<1>3. Put(m, s, r, victim) = IF victim = None THEN x ELSE OnEvict(x, victim)
  BY DEF Put
<1> HIDE DEF x
<1>4. Keeps(m, x, s) /\ LiveWeights(x, s) = LiveWeights(m, s)
  BY <1>2 DEF Keeps, KeepsOne, LiveWeights
<1>5. CASE victim = None
  BY <1>2, <1>3, <1>4, <1>5
<1>6. CASE victim # None
  <2>1. Keeps(x, OnEvict(x, victim), s) /\ LiveWeights(OnEvict(x, victim), s) = LiveWeights(x, s)
    BY <1>1, <1>6, OnEvictKeeps DEF Keeps
  <2> QED
    BY <1>3, <1>4, <1>6, <2>1, KeepsTransitive
<1> QED
  BY <1>5, <1>6

(* An adapter session that the cache chooses itself, as it enters, leaves nothing. *)
LEMMA SelfEvictedKeeps ==
    ASSUME NEW m, MemoryOk(m), NEW s \in Sessions, ~ FP(s), HasWeights(m, s),
           NEW r \in OwnRuntime(s)
    PROVE  LET x == Put(m, s, r, s) IN
           /\ Keeps(m, x, s) /\ x.rt[s] = None /\ x.adapter[s] = None
           /\ x.stash[s] = m.stash[s]
<1> DEFINE n == Put(m, s, r, None)
<1>1. MemoryOk(n) /\ Keeps(m, n, s) /\ n.stash = m.stash
  <2>1. None \in Sessions \cup {None} /\ None # s
    BY NoneAssumption
  <2>2. n = [m EXCEPT !.rt[s] = r]
    BY DEF Put
  <2>3. n.stash = m.stash
    BY <2>2 DEF MemoryOk, IsMemory
  <2> QED
    BY <2>1, <2>3, PutOk, PutKeeps
<1>2. Put(m, s, r, s) = OnEvict(n, s)
  BY NoneAssumption DEF Put
<1> HIDE DEF n
<1>3. Keeps(n, OnEvict(n, s), s)
  BY <1>1, OnEvictKeeps DEF Keeps
<1>4. /\ OnEvict(n, s).rt[s] = None /\ OnEvict(n, s).adapter[s] = None
      /\ OnEvict(n, s).stash[s] = n.stash[s]
  BY <1>1 DEF OnEvict, MemoryOk, IsMemory
<1> QED
  BY <1>1, <1>2, <1>3, <1>4, KeepsTransitive

LEMMA EvictAllKeeps ==
    ASSUME NEW m, MemoryOk(m), NEW Z \in SUBSET Sessions
    PROVE  \A t \in Sessions :
              /\ KeepsOne(m, EvictAll(m, Z), t)
              /\ t \notin Z => /\ EvictAll(m, Z).rt[t] = m.rt[t]
                               /\ LiveWeights(EvictAll(m, Z), t) = LiveWeights(m, t)
                               /\ EvictAll(m, Z).adapter[t] = m.adapter[t]
                               /\ EvictAll(m, Z).stash[t] = m.stash[t]
<1> DEFINE x == EvictAll(m, Z)
<1>1. /\ x.adapter = m.adapter
      /\ x.base = IF m.active \in Z \cap Cached(m) THEN Pristine ELSE m.base
      /\ x.active = IF m.active \in Z \cap Cached(m) THEN None ELSE m.active
      /\ \A t \in Sessions : /\ x.rt[t] = IF t \in Z THEN None ELSE m.rt[t]
                             /\ x.stash[t] = IF t \in Z THEN None ELSE m.stash[t]
  BY DEF EvictAll, MemoryOk, IsMemory
<1> HIDE DEF x
<1>2. \A t \in Sessions : t \notin Z => LiveWeights(x, t) = LiveWeights(m, t)
  BY <1>1, NoneAssumption DEF LiveWeights
<1> QED
  BY <1>1, <1>2, NoneAssumption DEF KeepsOne, Cached, x

LEMMA ActivateKeeps ==
    ASSUME NEW m, MemoryOk(m), NEW s \in Sessions
    PROVE  /\ Keeps(m, Activate(m, s), s) /\ Activate(m, s).rt = m.rt
           /\ m.rt[s] # None => LiveWeights(Activate(m, s), s) = LiveWeights(m, s)
           /\ ~ FP(s) => /\ KeepsOne(m, Activate(m, s), s)
                         /\ Activate(m, s).adapter = m.adapter
<1>1. CASE m.active = s
  BY <1>1 DEF Activate, Keeps, KeepsOne
<1>2. CASE m.active # s
  <2> DEFINE n == StashActive(m)
             leavingFP == m.active \in Cached(m) /\ FP(m.active)
             b == CASE FP(s) /\ n.stash[s] # None -> n.stash[s]
                    [] FP(s) /\ n.stash[s] = None -> Pristine
                    [] ~ FP(s) /\ leavingFP -> Pristine
                    [] OTHER -> n.base
             d == IF FP(s) THEN s \notin Cached(m) ELSE n.strayed /\ ~ leavingFP
             x == [n EXCEPT !.base = b, !.strayed = d, !.active = s]
  <2>1. /\ MemoryOk(n) /\ n.rt = m.rt /\ n.active = m.active /\ n.base = m.base /\ KeepsAll(m, n)
        /\ n.adapter = m.adapter
        /\ m.active \in Cached(m) /\ FP(m.active) => n.stash[m.active] = m.base
        /\ \A t \in Sessions : t # m.active => n.stash[t] = m.stash[t]
    BY StashActiveOk, StashActiveKeeps
  <2>2. Activate(m, s) = x
    BY <1>2 DEF Activate
  <2>3. FP(s) /\ n.stash[s] # None => b = n.stash[s]
    OBVIOUS
  <2>4. FP(s) /\ m.rt[s] # None => m.stash[s] # None /\ n.stash[s] = m.stash[s]
    BY <1>2, <2>1 DEF MemoryOk, HoldsOwn, HasWeights
  <2> HIDE DEF n, b, d
  <2>5. /\ x.rt = n.rt /\ x.adapter = n.adapter /\ x.stash = n.stash /\ x.active = s /\ x.base = b
    BY <2>1 DEF MemoryOk, IsMemory
  <2> HIDE DEF x
  <2>6. m.rt[s] # None => LiveWeights(x, s) = LiveWeights(m, s)
    BY <1>2, <2>1, <2>3, <2>4, <2>5 DEF LiveWeights
  <2>7. \A t \in Sessions : t # s /\ m.rt[t] # None => LiveWeights(x, t) = LiveWeights(m, t)
    <3> SUFFICES ASSUME NEW t \in Sessions, t # s, m.rt[t] # None
                 PROVE  LiveWeights(x, t) = LiveWeights(m, t)
      OBVIOUS
    <3>1. CASE t = m.active
      BY <2>1, <2>5, <3>1 DEF LiveWeights, Cached
    <3>2. CASE t # m.active
      BY <2>1, <2>5, <3>2 DEF LiveWeights
    <3> QED
      BY <3>1, <3>2
  <2>8. ~ FP(s) => KeepsOne(m, x, s)
    BY <1>2, <2>1, <2>5 DEF KeepsOne, LiveWeights
  <2> QED
    BY <2>1, <2>2, <2>5, <2>6, <2>7, <2>8 DEF Keeps, KeepsOne, KeepsAll
<1> QED
  BY <1>1, <1>2

LEMMA KeepRuntimeKeeps ==
    ASSUME NEW m, MemoryOk(m), NEW s \in Sessions, m.rt[s] # None, NEW r
    PROVE  /\ Keeps(m, KeepRuntime(m, s, r), s) /\ KeepRuntime(m, s, r).rt[s] = r
           /\ \A t \in Sessions : t # s => KeepRuntime(m, s, r).rt[t] = m.rt[t]
           /\ LiveWeights(KeepRuntime(m, s, r), s) = LiveWeights(m, s)
<1> DEFINE x == [m EXCEPT !.rt[s] = r]
<1>1. KeepRuntime(m, s, r) = x
  BY DEF KeepRuntime
<1>2. /\ x.active = m.active /\ x.base = m.base /\ x.stash = m.stash
      /\ x.adapter = m.adapter /\ x.rt[s] = r
      /\ \A t \in Sessions : t # s => x.rt[t] = m.rt[t]
  BY DEF MemoryOk, IsMemory
<1> HIDE DEF x
<1> QED
  BY <1>1, <1>2 DEF Keeps, KeepsOne, LiveWeights

LEMMA CapturedKeeps ==
    ASSUME NEW m, MemoryOk(m), NEW s \in Sessions, m.rt[s] # None
    PROVE  /\ Keeps(m, Captured(m, s), s) /\ Captured(m, s).rt = m.rt
           /\ LiveWeights(Captured(m, s), s) = LiveWeights(m, s)
<1>1. CASE ~ (FP(s) /\ m.active = s)
  BY <1>1 DEF Captured, Keeps, KeepsOne
<1>2. CASE FP(s) /\ m.active = s
  <2>1. Captured(m, s) = StashActive(m)
    BY <1>2 DEF Captured, StashActive, Cached
  <2> QED
    BY <2>1, StashActiveOk, StashActiveKeeps, KeepsAllKeeps
<1> QED
  BY <1>1, <1>2

LEMMA UpdatedKeeps ==
    ASSUME NEW m, MemoryOk(m), NEW s \in Sessions, m.rt[s] # None, m.active = s, NEW update
    PROVE  /\ Keeps(m, Updated(m, s, update), s) /\ Updated(m, s, update).rt = m.rt
           /\ LiveWeights(Updated(m, s, update), s) = Trained(LiveWeights(m, s), update)
<1> DEFINE y == Trained(LiveWeights(m, s), update)
<1>1. CASE FP(s)
  <2> DEFINE x == [m EXCEPT !.base = y]
  <2>1. Updated(m, s, update) = x
    BY <1>1 DEF Updated, LiveWeights, Trained
  <2> HIDE DEF y
  <2>2. /\ x.rt = m.rt /\ x.adapter = m.adapter /\ x.stash = m.stash
        /\ x.base = y /\ x.active = m.active
    BY DEF MemoryOk, IsMemory
  <2> HIDE DEF x
  <2>3. LiveWeights(x, s) = y /\ Keeps(m, x, s)
    BY <1>1, <2>2 DEF Keeps, KeepsOne, LiveWeights
  <2> QED
    BY <2>1, <2>2, <2>3 DEF y
<1>2. CASE ~ FP(s)
  <2> DEFINE x == [m EXCEPT !.adapter[s] = y]
  <2>1. Updated(m, s, update) = x
    BY <1>2 DEF Updated, LiveWeights, Trained, MemoryOk, IsMemory
  <2> HIDE DEF y
  <2>2. /\ x.rt = m.rt /\ x.active = m.active /\ x.base = m.base /\ x.stash = m.stash
        /\ x.adapter[s] = y
        /\ \A t \in Sessions : t # s => x.adapter[t] = m.adapter[t]
    BY DEF MemoryOk, IsMemory
  <2> HIDE DEF x
  <2>3. LiveWeights(x, s) = y /\ Keeps(m, x, s)
    BY <1>2, <2>2 DEF Keeps, KeepsOne, LiveWeights
  <2> QED
    BY <2>1, <2>2, <2>3 DEF y
<1> QED
  BY <1>1, <1>2

LEMMA ReplacedKeeps ==
    ASSUME NEW m, MemoryOk(m), NEW s \in Sessions, m.rt[s] # None, NEW weights
    PROVE  /\ Keeps(m, Replaced(m, s, weights), s) /\ Replaced(m, s, weights).rt = m.rt
           /\ LiveWeights(Replaced(m, s, weights), s) = weights
<1>1. CASE FP(s)
  <2> DEFINE b == IF m.active = s THEN weights ELSE m.base
             x == [m EXCEPT !.stash[s] = weights, !.base = b]
  <2>1. Replaced(m, s, weights) = x
    BY <1>1 DEF Replaced
  <2> HIDE DEF b
  <2>2. /\ x.rt = m.rt /\ x.adapter = m.adapter /\ x.stash[s] = weights
        /\ x.base = b /\ x.active = m.active
        /\ \A t \in Sessions : t # s => x.stash[t] = m.stash[t]
    BY DEF MemoryOk, IsMemory
  <2> HIDE DEF x
  <2>3. \A t \in Sessions : t # s => LiveWeights(x, t) = LiveWeights(m, t)
    BY <2>2 DEF LiveWeights, b
  <2>4. LiveWeights(x, s) = weights
    BY <1>1, <2>2 DEF LiveWeights, b
  <2> QED
    BY <2>1, <2>2, <2>3, <2>4 DEF Keeps, KeepsOne
<1>2. CASE ~ FP(s)
  <2> DEFINE x == [m EXCEPT !.adapter[s] = weights]
  <2>1. Replaced(m, s, weights) = x
    BY <1>2 DEF Replaced
  <2>2. /\ x.rt = m.rt /\ x.active = m.active /\ x.base = m.base /\ x.stash = m.stash
        /\ x.adapter[s] = weights
        /\ \A t \in Sessions : t # s => x.adapter[t] = m.adapter[t]
    BY DEF MemoryOk, IsMemory
  <2> HIDE DEF x
  <2> QED
    BY <1>2, <2>1, <2>2 DEF Keeps, KeepsOne, LiveWeights
<1> QED
  BY <1>1, <1>2
-----------------------------------------------------------------------------
(***************************************************************************)
(* What a handler does to its session.  It takes the session as runtime q  *)
(* and weights x, from the cache or from the blobs the load path chose.    *)
(***************************************************************************)
Took(w, s, q, x) ==
    /\ q \in OwnRuntime(s) /\ x \in OwnWeights(s)
    /\ \/ mem[w].rt[s] # None /\ q = mem[w].rt[s] /\ x = LiveWeights(mem[w], s)
       \/ /\ mem[w].rt[s] = None \/ remote[s].meta # None
          /\ Loadable(Source(w, s), s)
          /\ q = LoadedRuntime(Source(w, s)) /\ x = LoadedWeights(Source(w, s), s)

(* A cache with room for every session never evicts one for another, and a *)
(* worker with one full-parameter session never evicts it for a new one.   *)
Roomy == IsFiniteSet(Sessions) /\ Cardinality(Sessions) <= MaxSlots
OneFullParam == \A t, u \in Sessions : FP(t) /\ FP(u) => t = u
Retains(m, n, s) ==
    Roomy /\ OneFullParam =>
        \A t \in Sessions : t # s /\ FP(t) /\ m.rt[t] # None => n.rt[t] # None

(* Such a worker, or one without full-parameter sessions; the base model is *)
(* a full-parameter session's only while it is cached.                     *)
Steady == (\A t \in Sessions : ~ FP(t)) \/ Roomy
Anchored(m, s) == FP(s) /\ m.active = s => m.rt[s] # None

LEMMA RoomyEvictsNone ==
    ASSUME setup \in Setups, Roomy, NEW m, NEW s \in Sessions, m.rt[s] = None,
           NEW victim \in Victims(m, s)
    PROVE  victim = None
<1>1. Cached(m) \in SUBSET Sessions /\ Cached(m) # Sessions
  BY DEF Cached
<1>2. /\ IsFiniteSet(Cached(m)) /\ Cardinality(Cached(m)) <= Cardinality(Sessions)
      /\ Cardinality(Cached(m)) # Cardinality(Sessions)
  BY <1>1, FS_Subset DEF Roomy
<1>3. Cardinality(Cached(m)) \in Nat /\ Cardinality(Sessions) \in Nat /\ MaxSlots \in Nat
  BY <1>2, FS_CardinalityType, SessionAssumption DEF Roomy, MaxSlots
<1>4. Cardinality(Cached(m)) < MaxSlots
  BY <1>2, <1>3 DEF Roomy
<1> QED
  BY <1>4 DEF Victims

(* Loading leaves the session cached, as it was or as its blobs say, or evicts *)
(* the adapter session again that it has just loaded.                          *)
LEMMA LoadsEffect ==
    ASSUME Steady, Inv, NEW w \in Workers, NEW s \in Sessions, Anchored(mem[w], s),
           NEW l \in Loads(w, s)
    PROVE  /\ Keeps(mem[w], l.mem, s) /\ Retains(mem[w], l.mem, s)
           /\ \/ /\ Took(w, s, l.rt, LiveWeights(l.mem, s))
                 /\ l.mem.rt[s] = l.rt /\ l.rt # None
              \/ /\ ~ FP(s) /\ l.mem.rt[s] = None /\ l.mem.adapter[s] = None
                 /\ KeepsOne(mem[w], l.mem, s)
<1> DEFINE m == BeforeLoad(w, s)
           blobs == Source(w, s)
           r == LoadedRuntime(blobs)
<1>0. MemoryOk(l.mem) /\ l.rt \in OwnRuntime(s) /\ l.rt # None
  BY LoadsOk, OwnIsNotNone
<1>1. /\ MemoryOk(m) /\ Keeps(mem[w], m, s) /\ KeepsOne(mem[w], m, s)
      /\ \A t \in Sessions : t # s => m.rt[t] = mem[w].rt[t]
  <2>1. MemoryOk(mem[w])
    BY DEF Inv
  <2> QED
    BY <2>1, OnEvictOk, OnEvictKeeps DEF BeforeLoad, Keeps, KeepsOne
<1>2. CASE m.rt[s] # None
  <2>1. m = mem[w]
    <3>1. Stale(mem[w], s) => m.rt[s] = None
      BY OnEvictOk DEF BeforeLoad, Inv
    <3> QED
      BY <1>2, <3>1 DEF BeforeLoad
  <2>2. l = [mem |-> m, rt |-> m.rt[s]]
    BY <1>2 DEF Loads
  <2>3. l.mem = mem[w] /\ l.rt = mem[w].rt[s] /\ mem[w].rt[s] # None
    BY <1>2, <2>1, <2>2
  <2>4. LiveWeights(l.mem, s) \in OwnWeights(s)
    BY <1>0, <2>3, CachedIsPlaced, LiveWeightsOwn
  <2> QED
    BY <1>0, <1>1, <2>1, <2>3, <2>4 DEF Took, Retains
<1>3. CASE m.rt[s] = None
  <2>0. FP(s) => m.active # s
    <3>1. Stale(mem[w], s) => m.active # s
      BY NoneAssumption DEF BeforeLoad, OnEvict, Inv, MemoryOk, IsMemory
    <3>2. ~ Stale(mem[w], s) => m = mem[w]
      BY DEF BeforeLoad
    <3> QED
      BY <1>3, <3>1, <3>2 DEF Anchored
  <2>1. Loadable(blobs, s) /\ \E victim \in Victims(m, s) :
          l = [mem |-> Put(Attach(m, s, LoadedWeights(blobs, s)), s, r, victim), rt |-> r]
    <3> HIDE DEF m, blobs
    <3> QED
      BY <1>3 DEF Loads, m, blobs
  <2>2. PICK victim \in Victims(m, s) :
          l = [mem |-> Put(Attach(m, s, LoadedWeights(blobs, s)), s, r, victim), rt |-> r]
    BY <2>1
  <2>3. blobs \in OwnBlobSet(s)
    <3>1. DirOf[w] \in Dirs
      BY DEF Dirs, Range, Workers
    <3> QED
      BY <3>1 DEF Source, Inv, StoresOk
  <2>4. mem[w].rt[s] = None \/ remote[s].meta # None
    BY <1>3 DEF BeforeLoad, Stale
  <2> HIDE DEF m, blobs
  <2>5. LoadedWeights(blobs, s) \in OwnWeights(s) /\ r \in OwnRuntime(s)
    BY <2>1, <2>3, LoadedOwn
  <2>6. victim \in Sessions \cup {None} /\ (Roomy => victim = None) /\ None # s
    BY <1>3, RoomyEvictsNone, VictimsAreSessions, NoneAssumption DEF Inv
  <2> DEFINE x == LoadedWeights(blobs, s)
             n == Attach(m, s, x)
  <2>7. /\ MemoryOk(n) /\ HasWeights(n, s) /\ Keeps(m, n, s) /\ LiveWeights(n, s) = x
        /\ \A t \in Sessions : n.rt[t] = m.rt[t]
        /\ ~ FP(s) => n.stash[s] = m.stash[s]
    BY <1>1, <2>0, <2>5, AttachOk, AttachKeeps
  <2>8. l.mem = Put(n, s, r, victim) /\ l.rt = r
    BY <2>2
  <2>12. Took(w, s, r, x)
    BY <2>1, <2>4, <2>5 DEF Took, x, r, blobs
  <2> HIDE DEF n, x, r
  <2>9. CASE victim # s
    <3>1. /\ Keeps(n, l.mem, s) /\ LiveWeights(l.mem, s) = x /\ l.mem.rt[s] = r
          /\ victim = None => \A t \in Sessions : t # s => l.mem.rt[t] = n.rt[t]
      BY <2>5, <2>6, <2>7, <2>8, <2>9, PutOk, PutKeeps
    <3>2. Keeps(mem[w], l.mem, s)
      BY <1>1, <2>7, <3>1, KeepsTransitive
    <3>3. Retains(mem[w], l.mem, s)
      BY <1>1, <2>6, <2>7, <3>1 DEF Retains
    <3> QED
      BY <1>0, <2>8, <2>12, <3>1, <3>2, <3>3
  <2>10. CASE victim = s
    <3>1. ~ FP(s) /\ ~ Roomy
      BY <2>6, <2>10 DEF Steady
    <3>2. /\ Keeps(n, l.mem, s) /\ l.mem.rt[s] = None /\ l.mem.adapter[s] = None
          /\ l.mem.stash[s] = n.stash[s]
      BY <2>5, <2>7, <2>8, <2>10, <3>1, SelfEvictedKeeps
    <3>3. Keeps(mem[w], l.mem, s) /\ Retains(mem[w], l.mem, s)
      BY <1>1, <2>7, <3>1, <3>2, KeepsTransitive DEF Retains
    <3>4. m.stash[s] = mem[w].stash[s]
      BY <3>1 DEF m, BeforeLoad, OnEvict, Inv, MemoryOk, IsMemory
    <3>5. KeepsOne(mem[w], l.mem, s)
      BY <2>7, <3>1, <3>2, <3>4 DEF KeepsOne
    <3> QED
      BY <3>1, <3>2, <3>3, <3>5
  <2> QED
    BY <2>9, <2>10
<1> QED
  BY <1>2, <1>3

(* The handler computes runtime r and weights y, by the kind of its job. *)
Does(kind, batch, ckpt, q, x, r, y) ==
    \/ /\ kind \in {"fb", "custom2"}
       /\ y = x /\ r.opt = q.opt
       /\ r.grads = [set |-> TRUE, sum |-> Append(q.grads.sum, batch)]
       /\ r.meta.steps = q.meta.steps /\ r.meta.accum = q.meta.accum + 1
       /\ r.meta.pristine = q.meta.pristine
    \/ /\ kind \in {"custom1", "sample", "save"}
       /\ y = x /\ r.opt = q.opt /\ r.grads = q.grads /\ r.meta = q.meta
    \/ /\ kind = "optim"
       /\ y = Trained(x, q.grads.sum) /\ r.grads = ZeroGrads
       /\ r.opt = Append(IF q.opt = None THEN <<>> ELSE q.opt, q.grads.sum)
       /\ r.meta.steps = q.meta.steps + 1 /\ r.meta.accum = 0
       /\ r.meta.pristine = q.meta.pristine
    \/ /\ kind \in {"load", "restore"}
       /\ y = ckpt.weights /\ r.meta = q.meta
       /\ r.grads = IF kind = "load" \/ ckpt.grads = None THEN NoGrads ELSE ckpt.grads
       /\ r.opt = IF kind = "load" THEN q.opt ELSE ckpt.opt

Snapshot(x, r) == [weights |-> x, grads |-> r.grads.sum, opt |-> r.opt]

ImageOf(s, y, r) ==
    [weights |-> Stored(s, y), grads |-> IF r.grads.set THEN GradsToSave(r) ELSE None,
     opt |-> r.opt, meta |-> r.meta]

(* Only custom1 and the sampling jobs write nothing. *)
Silent(s) == pending[s].kind \in {"custom1", "sample"}

Served(w, s, q, x, r, y) ==
    /\ pending[s].kind # "init"
    /\ Took(w, s, q, x) /\ Does(pending[s].kind, pending[s].batch, ckpts[s], q, x, r, y)
    /\ r \in OwnRuntime(s) /\ y \in OwnWeights(s)
    /\ op'[w] = [session |-> s, before |-> Snapshot(x, q), after |-> Snapshot(y, r),
                 image |-> IF Silent(s) THEN NoBlobs ELSE ImageOf(s, y, r),
                 left |-> IF Silent(s) THEN {} ELSE Writes(ImageOf(s, y, r)),
                 publish |-> pending[s].kind = "save"]
    /\ mem'[w].rt[s] = r /\ LiveWeights(mem'[w], s) = y

Begun(w, s) ==
    /\ pending[s].kind = "init"
    /\ \E image \in {ImageOf(s, Pristine, FreshRuntime),
                     [NoBlobs EXCEPT !.meta = [ZeroMeta EXCEPT !.pristine = TRUE]]} :
         /\ image.meta.pristine => FP(s)
         /\ op'[w] = [session |-> s, before |-> None, after |-> Snapshot(Pristine, FreshRuntime),
                      image |-> image, left |-> Writes(image), publish |-> FALSE]
    /\ mem'[w].rt[s] = FreshRuntime /\ LiveWeights(mem'[w], s) = Pristine

Raised(w, s) ==
    /\ op' = op /\ pending' \in {pending, [pending EXCEPT ![s] = None]}
    /\ \/ /\ KeepsOne(mem[w], mem'[w], s)
          /\ mem[w].rt[s] # None => mem'[w].rt[s] # None
       \/ /\ KeepsOne(mem[w], mem'[w], s)
          /\ pending[s].kind # "init" /\ (FP(s) => ~ Loadable(Source(w, s), s))
       \/ /\ pending[s].kind # "init"
          /\ Took(w, s, mem'[w].rt[s], LiveWeights(mem'[w], s))

Handled(w, s) ==
    /\ Free(s) /\ op[w] = None
    /\ UNCHANGED <<local, remote, ckpts, jobs, custom, latest, faults>>
    /\ DOMAIN mem' = Workers /\ DOMAIN op' = Workers
    /\ \A v \in Workers : v # w => mem'[v] = mem[v] /\ op'[v] = op[v]
    /\ Keeps(mem[w], mem'[w], s) /\ Retains(mem[w], mem'[w], s)
    /\ \/ Raised(w, s)
       \/ pending' = pending /\ (Begun(w, s) \/ \E q, x, r, y : Served(w, s, q, x, r, y))

LEMMA RetainsTransitive ==
    ASSUME NEW a, NEW b, NEW c, NEW s, Retains(a, b, s), Retains(b, c, s) PROVE Retains(a, c, s)
BY DEF Retains

(* The end of a handler, from memory m with the session loaded. *)
Ends(w, s, before, m, r, image, left, publish) ==
    /\ op' = [op EXCEPT ![w] =
                [session |-> s, before |-> before, after |-> Snapshot(LiveWeights(m, s), r),
                 image |-> image, left |-> left, publish |-> publish]]
    /\ UNCHANGED <<local, remote, ckpts, pending, jobs, custom, latest, faults>>
    /\ \E n : /\ mem' = [mem EXCEPT ![w] = n] /\ Keeps(m, n, s) /\ Retains(m, n, s)
              /\ n.rt[s] = r /\ LiveWeights(n, s) = LiveWeights(m, s)

LEMMA SavesEffect ==
    ASSUME NEW w, NEW s \in Sessions, NEW before, NEW m, MemoryOk(m),
           m.rt[s] # None, NEW r \in OwnRuntime(s), NEW publish,
           Saves(w, s, before, m, r, publish)
    PROVE  Ends(w, s, before, m, r, ImageOf(s, LiveWeights(m, s), r),
                Writes(ImageOf(s, LiveWeights(m, s), r)), publish)
<1> DEFINE n == KeepRuntime(m, s, r)
           kept == Captured(n, s)
           image == Image(kept, s, r)
<1>1. /\ MemoryOk(n) /\ n.rt[s] = r /\ Keeps(m, n, s) /\ r # None
      /\ LiveWeights(n, s) = LiveWeights(m, s)
      /\ \A t \in Sessions : t # s => n.rt[t] = m.rt[t]
  BY KeepRuntimeOk, KeepRuntimeKeeps, OwnIsNotNone
<1>2. Saves(w, s, before, m, r, publish) =
        Runs(w, s, before, kept, r, image, Writes(image), publish)
  BY DEF Saves
<1> HIDE DEF n
<1>3. /\ kept.rt = n.rt /\ Keeps(n, kept, s) /\ LiveWeights(kept, s) = LiveWeights(m, s)
  BY <1>1, CapturedKeeps
<1>4. Keeps(m, kept, s) /\ Retains(m, kept, s) /\ kept.rt[s] = r
  BY <1>1, <1>3, KeepsTransitive DEF Retains
<1> HIDE DEF kept
<1>5. image = ImageOf(s, LiveWeights(m, s), r) /\ StateOf(kept, s, r) = Snapshot(LiveWeights(m, s), r)
  BY <1>3 DEF Image, ImageOf, StateOf, Snapshot
<1> HIDE DEF image
<1> QED
  BY <1>2, <1>3, <1>4, <1>5 DEF Ends, Runs

LEMMA ReadsEffect ==
    ASSUME NEW w, NEW s \in Sessions, NEW before, NEW m, MemoryOk(m),
           m.rt[s] # None, NEW r, Reads(w, s, before, m, r)
    PROVE  Ends(w, s, before, m, r, NoBlobs, {}, FALSE)
<1> DEFINE n == KeepRuntime(m, s, r)
<1>1. /\ n.rt[s] = r /\ Keeps(m, n, s) /\ LiveWeights(n, s) = LiveWeights(m, s)
      /\ \A t \in Sessions : t # s => n.rt[t] = m.rt[t]
  BY KeepRuntimeKeeps
<1>2. Runs(w, s, before, n, r, NoBlobs, {}, FALSE)
  BY DEF Reads
<1> HIDE DEF n
<1>3. StateOf(n, s, r) = Snapshot(LiveWeights(m, s), r) /\ Retains(m, n, s)
  BY <1>1 DEF StateOf, Snapshot, Retains
<1> QED
  BY <1>1, <1>2, <1>3 DEF Ends, Runs

LEMMA EndsIsHandled ==
    ASSUME Inv, NEW w \in Workers, NEW s \in Sessions, Free(s), op[w] = None,
           pending[s].kind # "init",
           NEW m, MemoryOk(m), m.rt[s] # None, Keeps(mem[w], m, s), Retains(mem[w], m, s),
           NEW q, NEW x, NEW r \in OwnRuntime(s), Took(w, s, q, x),
           Does(pending[s].kind, pending[s].batch, ckpts[s], q, x, r, LiveWeights(m, s)),
           Ends(w, s, Snapshot(x, q), m, r,
                IF Silent(s) THEN NoBlobs ELSE ImageOf(s, LiveWeights(m, s), r),
                IF Silent(s) THEN {} ELSE Writes(ImageOf(s, LiveWeights(m, s), r)),
                pending[s].kind = "save")
    PROVE  Handled(w, s)
<1>1. PICK n : /\ mem' = [mem EXCEPT ![w] = n] /\ Keeps(m, n, s) /\ Retains(m, n, s)
               /\ n.rt[s] = r /\ LiveWeights(n, s) = LiveWeights(m, s)
  BY DEF Ends
<1>2. DOMAIN mem = Workers /\ DOMAIN op = Workers
  BY DEF Inv
<1>3. /\ DOMAIN mem' = Workers /\ mem'[w] = n
      /\ \A v \in Workers : v # w => mem'[v] = mem[v]
  BY <1>1, <1>2
<1>4. Keeps(mem[w], mem'[w], s) /\ Retains(mem[w], mem'[w], s)
  BY <1>1, <1>3, KeepsTransitive, RetainsTransitive
<1> DEFINE o == [session |-> s, before |-> Snapshot(x, q), after |-> Snapshot(LiveWeights(m, s), r),
                 image |-> IF Silent(s) THEN NoBlobs ELSE ImageOf(s, LiveWeights(m, s), r),
                 left |-> IF Silent(s) THEN {} ELSE Writes(ImageOf(s, LiveWeights(m, s), r)),
                 publish |-> pending[s].kind = "save"]
<1>5. /\ op' = [op EXCEPT ![w] = o]
      /\ UNCHANGED <<local, remote, ckpts, pending, jobs, custom, latest, faults>>
  BY DEF Ends
<1>6. Served(w, s, q, x, r, LiveWeights(m, s))
  <2>1. LiveWeights(m, s) \in OwnWeights(s)
    BY CachedIsPlaced, LiveWeightsOwn
  <2> QED
    BY <1>1, <1>2, <1>3, <1>5, <2>1 DEF Served
<1> HIDE DEF o
<1>7. DOMAIN op' = Workers /\ \A v \in Workers : v # w => op'[v] = op[v]
  BY <1>2, <1>5
<1> QED
  BY <1>3, <1>4, <1>5, <1>6, <1>7 DEF Handled

LEMMA RaiseIsHandled ==
    ASSUME Inv, NEW w \in Workers, NEW s \in Sessions, Free(s), op[w] = None,
           NEW m, Keeps(mem[w], m, s), Retains(mem[w], m, s), Raise(w, s, m),
           \/ KeepsOne(mem[w], m, s) /\ (mem[w].rt[s] # None => m.rt[s] # None)
           \/ /\ KeepsOne(mem[w], m, s) /\ pending[s].kind # "init"
              /\ FP(s) => ~ Loadable(Source(w, s), s)
           \/ pending[s].kind # "init" /\ Took(w, s, m.rt[s], LiveWeights(m, s))
    PROVE  Handled(w, s)
<1>1. /\ mem' = [mem EXCEPT ![w] = m] /\ pending' \in {pending, [pending EXCEPT ![s] = None]}
      /\ UNCHANGED <<local, remote, ckpts, op, jobs, custom, latest, faults>>
  BY DEF Raise
<1>2. DOMAIN mem = Workers /\ DOMAIN op = Workers
  BY DEF Inv
<1>3. /\ DOMAIN mem' = Workers /\ mem'[w] = m
      /\ \A v \in Workers : v # w => mem'[v] = mem[v]
  BY <1>1, <1>2
<1>4. Raised(w, s)
  BY <1>1, <1>3 DEF Raised
<1> QED
  BY <1>1, <1>2, <1>3, <1>4 DEF Handled

LEMMA FetchedFacts ==
    ASSUME NEW w \in Workers, NEW s \in Sessions, NEW kind, Fetched(w, s, kind)
    PROVE  Free(s) /\ op[w] = None /\ pending[s].kind = kind
BY DEF Fetched, Free

(* Every computing handler has the session loaded, active and taken, or lost its adapter. *)
LEMMA ActiveEffect ==
    ASSUME Steady, Inv, NEW w \in Workers, NEW s \in Sessions, Anchored(mem[w], s),
           NEW l \in Loads(w, s)
    PROVE  LET m == Activate(l.mem, s) IN
           /\ MemoryOk(m) /\ m.active = s /\ l.rt \in OwnRuntime(s)
           /\ Keeps(mem[w], m, s) /\ Retains(mem[w], m, s)
           /\ HasModule(m, s) =>
                 /\ m.rt[s] = l.rt /\ m.rt[s] # None
                 /\ Took(w, s, l.rt, LiveWeights(m, s))
                 /\ StateOf(m, s, l.rt) = Snapshot(LiveWeights(m, s), l.rt)
           /\ ~ HasModule(m, s) => ~ FP(s) /\ KeepsOne(mem[w], m, s)
<1> DEFINE m == Activate(l.mem, s)
<1>1. MemoryOk(l.mem) /\ l.rt \in OwnRuntime(s)
  BY LoadsOk
<1>2. /\ Keeps(mem[w], l.mem, s) /\ Retains(mem[w], l.mem, s)
      /\ \/ /\ Took(w, s, l.rt, LiveWeights(l.mem, s))
            /\ l.mem.rt[s] = l.rt /\ l.rt # None
         \/ /\ ~ FP(s) /\ l.mem.rt[s] = None /\ l.mem.adapter[s] = None
            /\ KeepsOne(mem[w], l.mem, s)
  BY LoadsEffect
<1>3. MemoryOk(m) /\ m.active = s /\ m.rt = l.mem.rt
  BY <1>1, ActivateOk
<1>4. /\ Keeps(l.mem, m, s)
      /\ l.mem.rt[s] # None => LiveWeights(m, s) = LiveWeights(l.mem, s)
      /\ ~ FP(s) => KeepsOne(l.mem, m, s) /\ m.adapter = l.mem.adapter
  BY <1>1, ActivateKeeps
<1> HIDE DEF m
<1>6. Retains(l.mem, m, s)
  BY <1>3 DEF Retains
<1>7. Keeps(mem[w], m, s) /\ Retains(mem[w], m, s)
  BY <1>2, <1>4, <1>6, KeepsTransitive, RetainsTransitive
<1>8. CASE /\ Took(w, s, l.rt, LiveWeights(l.mem, s))
           /\ l.mem.rt[s] = l.rt /\ l.rt # None
  <2>1. HasModule(m, s) /\ m.rt[s] = l.rt /\ LiveWeights(m, s) = LiveWeights(l.mem, s)
    BY <1>3, <1>4, <1>8 DEF HasModule, MemoryOk, HoldsOwn, HasWeights
  <2> QED
    BY <1>1, <1>3, <1>7, <1>8, <2>1 DEF StateOf, Snapshot, m
<1>9. CASE /\ ~ FP(s) /\ l.mem.rt[s] = None /\ l.mem.adapter[s] = None
           /\ KeepsOne(mem[w], l.mem, s)
  <2>1. ~ HasModule(m, s) /\ KeepsOne(mem[w], m, s)
    BY <1>4, <1>9 DEF HasModule, KeepsOne
  <2> QED
    BY <1>1, <1>3, <1>7, <1>9, <2>1 DEF m
<1> QED
  BY <1>2, <1>8, <1>9

LEMMA LostAdapter ==
    ASSUME Inv, NEW w \in Workers, NEW s \in Sessions, Free(s), op[w] = None,
           NEW m, ~ FP(s), KeepsOne(mem[w], m, s), Keeps(mem[w], m, s), Retains(mem[w], m, s),
           Raise(w, s, m), pending[s].kind # "init"
    PROVE  Handled(w, s)
BY RaiseIsHandled

LEMMA RaisedActive ==
    ASSUME Inv, NEW w \in Workers, NEW s \in Sessions, Free(s), op[w] = None,
           NEW q, NEW m, m.rt[s] = q, Took(w, s, q, LiveWeights(m, s)),
           Keeps(mem[w], m, s), Retains(mem[w], m, s), Raise(w, s, m), pending[s].kind # "init"
    PROVE  Handled(w, s)
BY RaiseIsHandled

LEMMA AccumulatedIs ==
    ASSUME NEW s \in Sessions, NEW r \in OwnRuntime(s), NEW batch \in {s} \X Nat, NEW tokens \in Nat
    PROVE  /\ Accumulated(r, batch, tokens).grads =
                  [set |-> TRUE, sum |-> Append(r.grads.sum, batch)]
           /\ Accumulated(r, batch, tokens).opt = r.opt
           /\ Accumulated(r, batch, tokens).meta.steps = r.meta.steps
           /\ Accumulated(r, batch, tokens).meta.accum = r.meta.accum + 1
           /\ Accumulated(r, batch, tokens).meta.pristine = r.meta.pristine
<1> DEFINE g == [set |-> TRUE, sum |-> Append(r.grads.sum, batch)]
           counted == [r.meta EXCEPT !.accum = @ + 1]
           e == [counted EXCEPT !.tokens = @ + tokens]
<1>1. r.meta \in Meta
  BY DEF OwnRuntime
<1>2. /\ counted \in Meta /\ counted.accum = r.meta.accum + 1
      /\ counted.steps = r.meta.steps /\ counted.pristine = r.meta.pristine
  BY <1>1 DEF Meta
<1>3. e.accum = counted.accum /\ e.steps = counted.steps /\ e.pristine = counted.pristine
  <2> HIDE DEF counted
  <2> QED
    BY <1>2 DEF Meta
<1>4. Accumulated(r, batch, tokens) = [[r EXCEPT !.grads = g] EXCEPT !.meta = e]
  BY <1>1 DEF Accumulated, OwnRuntime, Meta
<1> HIDE DEF g, e, counted
<1>5. /\ Accumulated(r, batch, tokens).grads = g /\ Accumulated(r, batch, tokens).opt = r.opt
      /\ Accumulated(r, batch, tokens).meta = e
  BY <1>4 DEF OwnRuntime
<1> QED
  BY <1>2, <1>3, <1>5 DEF g

LEMMA SteppedIs ==
    ASSUME NEW s \in Sessions, NEW r \in OwnRuntime(s)
    PROVE  /\ Stepped(r).grads = ZeroGrads
           /\ Stepped(r).opt = Append(IF r.opt = None THEN <<>> ELSE r.opt, r.grads.sum)
           /\ Stepped(r).meta.steps = r.meta.steps + 1 /\ Stepped(r).meta.accum = 0
           /\ Stepped(r).meta.pristine = r.meta.pristine
<1> DEFINE o == Append(IF r.opt = None THEN <<>> ELSE r.opt, r.grads.sum)
           counted == [r.meta EXCEPT !.steps = @ + 1]
           cleared == [counted EXCEPT !.accum = 0]
           e == [cleared EXCEPT !.tokens = 0]
<1>1. r.meta \in Meta
  BY DEF OwnRuntime
<1>2. counted \in Meta /\ counted.steps = r.meta.steps + 1 /\ counted.pristine = r.meta.pristine
  BY <1>1 DEF Meta
<1>3. /\ cleared \in Meta /\ cleared.steps = counted.steps /\ cleared.accum = 0
      /\ cleared.pristine = counted.pristine
  <2> HIDE DEF counted
  <2> QED
    BY <1>2 DEF Meta
<1>4. e.steps = cleared.steps /\ e.accum = 0 /\ e.pristine = cleared.pristine
  <2> HIDE DEF cleared
  <2> QED
    BY <1>3 DEF Meta
<1>5. Stepped(r) = [[[r EXCEPT !.grads = ZeroGrads] EXCEPT !.opt = o] EXCEPT !.meta = e]
  BY <1>1 DEF Stepped, OwnRuntime, Meta
<1> HIDE DEF o, e, counted, cleared
<1>6. Stepped(r).grads = ZeroGrads /\ Stepped(r).opt = o /\ Stepped(r).meta = e
  BY <1>5 DEF OwnRuntime
<1> QED
  BY <1>2, <1>3, <1>4, <1>6 DEF o

LEMMA ForwardBackwardEffect ==
    ASSUME Steady, Inv, NEW w \in Workers, NEW s \in Sessions, Anchored(mem[w], s),
           ForwardBackward(w, s)
    PROVE  Handled(w, s)
<1>0. Free(s) /\ op[w] = None /\ pending[s].kind = "fb"
  BY FetchedFacts DEF ForwardBackward
<1>1. PICK l \in Loads(w, s) :
         LET m == Activate(l.mem, s)
             r == Accumulated(l.rt, pending[s].batch, 1)
         IN  IF HasModule(m, s) THEN Saves(w, s, StateOf(m, s, l.rt), m, r, FALSE)
                                ELSE Raise(w, s, m)
  BY DEF ForwardBackward
<1> DEFINE m == Activate(l.mem, s)
           r == Accumulated(l.rt, pending[s].batch, 1)
           x == LiveWeights(m, s)
<1>a. CASE ~ HasModule(m, s)
  <2>1. Raise(w, s, m) /\ ~ FP(s) /\ KeepsOne(mem[w], m, s)
    BY <1>1, <1>a, ActiveEffect
  <2>2. Keeps(mem[w], m, s) /\ Retains(mem[w], m, s)
    BY ActiveEffect
  <2> HIDE DEF m
  <2> QED
    BY <1>0, <2>1, <2>2, LostAdapter
<1> SUFFICES ASSUME HasModule(m, s) PROVE Handled(w, s)
  BY <1>a
<1>2. /\ MemoryOk(m) /\ m.rt[s] # None /\ l.rt \in OwnRuntime(s) /\ HasModule(m, s)
      /\ Took(w, s, l.rt, x) /\ StateOf(m, s, l.rt) = Snapshot(x, l.rt)
      /\ Keeps(mem[w], m, s) /\ Retains(mem[w], m, s)
  BY ActiveEffect
<1>3. pending[s].batch \in {s} \X Nat
  BY OwnBatch DEF ForwardBackward
<1>4. r \in OwnRuntime(s)
  BY <1>2, <1>3, AccumulatedOwn
<1>5. Saves(w, s, Snapshot(x, l.rt), m, r, FALSE)
  BY <1>1, <1>2
<1> HIDE DEF m, x
<1>6. /\ r.grads = [set |-> TRUE, sum |-> Append(l.rt.grads.sum, pending[s].batch)]
      /\ r.opt = l.rt.opt /\ r.meta.steps = l.rt.meta.steps
      /\ r.meta.accum = l.rt.meta.accum + 1 /\ r.meta.pristine = l.rt.meta.pristine
  <2> DEFINE q == l.rt
             batch == pending[s].batch
  <2>1. 1 \in Nat /\ q \in OwnRuntime(s) /\ batch \in {s} \X Nat
    BY <1>2, <1>3
  <2> HIDE DEF q, batch
  <2>2. /\ Accumulated(q, batch, 1).grads = [set |-> TRUE, sum |-> Append(q.grads.sum, batch)]
        /\ Accumulated(q, batch, 1).opt = q.opt
        /\ Accumulated(q, batch, 1).meta.steps = q.meta.steps
        /\ Accumulated(q, batch, 1).meta.accum = q.meta.accum + 1
        /\ Accumulated(q, batch, 1).meta.pristine = q.meta.pristine
    BY <2>1, AccumulatedIs
  <2> QED
    BY <2>2 DEF q, batch
<1> HIDE DEF r
<1>7. Ends(w, s, Snapshot(x, l.rt), m, r, ImageOf(s, x, r), Writes(ImageOf(s, x, r)), FALSE)
  BY <1>2, <1>4, <1>5, SavesEffect DEF x
<1>8. ~ Silent(s) /\ (pending[s].kind = "save") = FALSE
  BY <1>0 DEF Silent
<1>10. Does(pending[s].kind, pending[s].batch, ckpts[s], l.rt, x, r, x)
  BY <1>0, <1>6 DEF Does
<1>9. Ends(w, s, Snapshot(x, l.rt), m, r, IF Silent(s) THEN NoBlobs ELSE ImageOf(s, x, r),
           IF Silent(s) THEN {} ELSE Writes(ImageOf(s, x, r)), pending[s].kind = "save")
  BY <1>7, <1>8
<1> QED
  BY <1>0, <1>2, <1>4, <1>9, <1>10, EndsIsHandled DEF x

LEMMA CustomStep1Effect ==
    ASSUME Steady, Inv, NEW w \in Workers, NEW s \in Sessions, Anchored(mem[w], s),
           CustomStep1(w, s)
    PROVE  Handled(w, s)
<1>0. Free(s) /\ op[w] = None /\ pending[s].kind = "custom1"
  BY FetchedFacts DEF CustomStep1
<1>1. PICK l \in Loads(w, s) :
         LET m == Activate(l.mem, s)
             r == [l.rt EXCEPT !.custom = @ \cup {pending[s].batch}]
         IN  IF HasModule(m, s) THEN Reads(w, s, StateOf(m, s, l.rt), m, r) ELSE Raise(w, s, m)
  BY DEF CustomStep1
<1> DEFINE m == Activate(l.mem, s)
           r == [l.rt EXCEPT !.custom = @ \cup {pending[s].batch}]
           x == LiveWeights(m, s)
<1>a. CASE ~ HasModule(m, s)
  <2>1. Raise(w, s, m) /\ ~ FP(s) /\ KeepsOne(mem[w], m, s)
    BY <1>1, <1>a, ActiveEffect
  <2>2. Keeps(mem[w], m, s) /\ Retains(mem[w], m, s)
    BY ActiveEffect
  <2> HIDE DEF m
  <2> QED
    BY <1>0, <2>1, <2>2, LostAdapter
<1> SUFFICES ASSUME HasModule(m, s) PROVE Handled(w, s)
  BY <1>a
<1>2. /\ MemoryOk(m) /\ m.rt[s] # None /\ l.rt \in OwnRuntime(s) /\ HasModule(m, s)
      /\ Took(w, s, l.rt, x) /\ StateOf(m, s, l.rt) = Snapshot(x, l.rt)
      /\ Keeps(mem[w], m, s) /\ Retains(mem[w], m, s)
  BY ActiveEffect
<1>3. Reads(w, s, Snapshot(x, l.rt), m, r)
  BY <1>1, <1>2
<1>4. r \in OwnRuntime(s) /\ r.opt = l.rt.opt /\ r.grads = l.rt.grads /\ r.meta = l.rt.meta
  <2>1. pending[s].batch \in Batch
    BY OwnBatch, OwnBatches DEF CustomStep1
  <2> QED
    BY <1>2, <2>1 DEF OwnRuntime
<1> HIDE DEF m, r
<1>5. Ends(w, s, Snapshot(x, l.rt), m, r, NoBlobs, {}, FALSE)
  BY <1>2, <1>3, ReadsEffect
<1>6. Silent(s) /\ (pending[s].kind = "save") = FALSE
  BY <1>0 DEF Silent
<1>7. Does(pending[s].kind, pending[s].batch, ckpts[s], l.rt, x, r, x)
  BY <1>0, <1>4 DEF Does
<1> HIDE DEF x
<1>8. Ends(w, s, Snapshot(x, l.rt), m, r, IF Silent(s) THEN NoBlobs ELSE ImageOf(s, x, r),
           IF Silent(s) THEN {} ELSE Writes(ImageOf(s, x, r)), pending[s].kind = "save")
  BY <1>5, <1>6
<1> QED
  BY <1>0, <1>2, <1>4, <1>7, <1>8, EndsIsHandled DEF x

LEMMA SampleEffect ==
    ASSUME Steady, Inv, NEW w \in Workers, NEW s \in Sessions, Anchored(mem[w], s),
           Sample(w, s)
    PROVE  Handled(w, s)
<1>0. Free(s) /\ op[w] = None /\ pending[s].kind = "sample"
  BY FetchedFacts DEF Sample
<1>1. PICK l \in Loads(w, s) :
         LET m == Activate(l.mem, s) IN
         IF HasModule(m, s) THEN Reads(w, s, StateOf(m, s, l.rt), m, l.rt) ELSE Raise(w, s, m)
  BY DEF Sample
<1> DEFINE m == Activate(l.mem, s)
           x == LiveWeights(m, s)
<1>a. CASE ~ HasModule(m, s)
  <2>1. Raise(w, s, m) /\ ~ FP(s) /\ KeepsOne(mem[w], m, s)
    BY <1>1, <1>a, ActiveEffect
  <2>2. Keeps(mem[w], m, s) /\ Retains(mem[w], m, s)
    BY ActiveEffect
  <2> HIDE DEF m
  <2> QED
    BY <1>0, <2>1, <2>2, LostAdapter
<1> SUFFICES ASSUME HasModule(m, s) PROVE Handled(w, s)
  BY <1>a
<1>2. /\ MemoryOk(m) /\ m.rt[s] # None /\ l.rt \in OwnRuntime(s) /\ HasModule(m, s)
      /\ Took(w, s, l.rt, x) /\ StateOf(m, s, l.rt) = Snapshot(x, l.rt)
      /\ Keeps(mem[w], m, s) /\ Retains(mem[w], m, s)
  BY ActiveEffect
<1>3. Reads(w, s, Snapshot(x, l.rt), m, l.rt)
  BY <1>1, <1>2
<1> HIDE DEF m
<1>5. Ends(w, s, Snapshot(x, l.rt), m, l.rt, NoBlobs, {}, FALSE)
  BY <1>2, <1>3, ReadsEffect
<1>6. Silent(s) /\ (pending[s].kind = "save") = FALSE
  BY <1>0 DEF Silent
<1>7. Does(pending[s].kind, pending[s].batch, ckpts[s], l.rt, x, l.rt, x)
  BY <1>0 DEF Does
<1> HIDE DEF x
<1>8. Ends(w, s, Snapshot(x, l.rt), m, l.rt, IF Silent(s) THEN NoBlobs ELSE ImageOf(s, x, l.rt),
           IF Silent(s) THEN {} ELSE Writes(ImageOf(s, x, l.rt)), pending[s].kind = "save")
  BY <1>5, <1>6
<1> QED
  BY <1>0, <1>2, <1>7, <1>8, EndsIsHandled DEF x

LEMMA NotSilent ==
    ASSUME NEW s \in Sessions, pending[s].kind \in {"fb", "custom2", "optim", "load", "restore", "save"}
    PROVE  /\ ~ Silent(s)
           /\ (pending[s].kind = "save") = IF pending[s].kind = "save" THEN TRUE ELSE FALSE
BY DEF Silent

LEMMA CustomStep2Effect ==
    ASSUME Steady, Inv, NEW w \in Workers, NEW s \in Sessions, Anchored(mem[w], s),
           CustomStep2(w, s)
    PROVE  Handled(w, s)
<1>0. Free(s) /\ op[w] = None /\ pending[s].kind = "custom2"
  BY FetchedFacts DEF CustomStep2
<1> DEFINE batch == pending[s].batch
<1>1. PICK l \in Loads(w, s) :
         LET m == Activate(l.mem, s)
             r == [Accumulated(l.rt, batch, 0) EXCEPT !.custom = @ \ {batch}]
         IN  IF HasModule(m, s) /\ batch \in l.rt.custom
             THEN Saves(w, s, StateOf(m, s, l.rt), m, r, FALSE) ELSE Raise(w, s, m)
  BY DEF CustomStep2
<1> DEFINE m == Activate(l.mem, s)
           added == Accumulated(l.rt, batch, 0)
           r == [added EXCEPT !.custom = @ \ {batch}]
           x == LiveWeights(m, s)
<1>a. CASE ~ HasModule(m, s)
  <2>1. Raise(w, s, m) /\ ~ FP(s) /\ KeepsOne(mem[w], m, s)
    BY <1>1, <1>a, ActiveEffect
  <2>2. Keeps(mem[w], m, s) /\ Retains(mem[w], m, s)
    BY ActiveEffect
  <2> HIDE DEF m
  <2> QED
    BY <1>0, <2>1, <2>2, LostAdapter
<1> SUFFICES ASSUME HasModule(m, s) PROVE Handled(w, s)
  BY <1>a
<1>2. /\ MemoryOk(m) /\ m.rt[s] = l.rt /\ m.rt[s] # None /\ l.rt \in OwnRuntime(s)
      /\ HasModule(m, s) /\ Took(w, s, l.rt, x) /\ StateOf(m, s, l.rt) = Snapshot(x, l.rt)
      /\ Keeps(mem[w], m, s) /\ Retains(mem[w], m, s)
  BY ActiveEffect
<1>3. Saves(w, s, Snapshot(x, l.rt), m, r, FALSE) \/ Raise(w, s, m)
  BY <1>1, <1>2
<1>4. batch \in {s} \X Nat /\ 0 \in Nat /\ l.rt \in OwnRuntime(s)
  BY <1>2, OwnBatch DEF CustomStep2
<1> HIDE DEF m, x, batch
<1>5. added \in OwnRuntime(s)
  BY <1>4, AccumulatedOwn
<1>6. /\ added.grads = [set |-> TRUE, sum |-> Append(l.rt.grads.sum, batch)]
      /\ added.opt = l.rt.opt /\ added.meta.steps = l.rt.meta.steps
      /\ added.meta.accum = l.rt.meta.accum + 1 /\ added.meta.pristine = l.rt.meta.pristine
  <2> DEFINE q == l.rt
  <2>1. q \in OwnRuntime(s)
    BY <1>4
  <2> HIDE DEF q
  <2>2. /\ Accumulated(q, batch, 0).grads = [set |-> TRUE, sum |-> Append(q.grads.sum, batch)]
        /\ Accumulated(q, batch, 0).opt = q.opt
        /\ Accumulated(q, batch, 0).meta.steps = q.meta.steps
        /\ Accumulated(q, batch, 0).meta.accum = q.meta.accum + 1
        /\ Accumulated(q, batch, 0).meta.pristine = q.meta.pristine
    BY <1>4, <2>1, AccumulatedIs
  <2> QED
    BY <2>2 DEF q
<1> HIDE DEF added
<1>7. r \in OwnRuntime(s) /\ r.grads = added.grads /\ r.opt = added.opt /\ r.meta = added.meta
  BY <1>5 DEF OwnRuntime
<1> HIDE DEF r
<1>8. CASE Raise(w, s, m)
  BY <1>0, <1>2, <1>8, RaisedActive DEF x
<1>9. CASE Saves(w, s, Snapshot(x, l.rt), m, r, FALSE)
  <2>1. Ends(w, s, Snapshot(x, l.rt), m, r, ImageOf(s, x, r), Writes(ImageOf(s, x, r)), FALSE)
    BY <1>2, <1>7, <1>9, SavesEffect DEF x
  <2>2. Does(pending[s].kind, pending[s].batch, ckpts[s], l.rt, x, r, x)
    BY <1>0, <1>6, <1>7 DEF Does, batch
  <2>3. Ends(w, s, Snapshot(x, l.rt), m, r, IF Silent(s) THEN NoBlobs ELSE ImageOf(s, x, r),
             IF Silent(s) THEN {} ELSE Writes(ImageOf(s, x, r)), pending[s].kind = "save")
    <3>1. ~ Silent(s) /\ (pending[s].kind = "save") = FALSE
      BY <1>0, NotSilent
    <3> QED
      BY <2>1, <3>1
  <2> QED
    BY <1>0, <1>2, <1>7, <2>2, <2>3, EndsIsHandled DEF x
<1> QED
  BY <1>3, <1>8, <1>9

LEMMA OptimStepEffect ==
    ASSUME Steady, Inv, NEW w \in Workers, NEW s \in Sessions, Anchored(mem[w], s),
           OptimStep(w, s)
    PROVE  Handled(w, s)
<1>0. Free(s) /\ op[w] = None /\ pending[s].kind = "optim"
  BY FetchedFacts DEF OptimStep
<1>1. PICK l \in Loads(w, s) :
         LET m == Activate(l.mem, s)
         IN  IF HasModule(m, s) /\ l.rt.grads.set
             THEN Saves(w, s, StateOf(m, s, l.rt), Updated(m, s, l.rt.grads.sum), Stepped(l.rt), FALSE)
             ELSE Raise(w, s, m)
  BY DEF OptimStep
<1> DEFINE m == Activate(l.mem, s)
           n == Updated(m, s, l.rt.grads.sum)
           r == Stepped(l.rt)
           x == LiveWeights(m, s)
           y == LiveWeights(n, s)
<1>a. CASE ~ HasModule(m, s)
  <2>1. Raise(w, s, m) /\ ~ FP(s) /\ KeepsOne(mem[w], m, s)
    BY <1>1, <1>a, ActiveEffect
  <2>2. Keeps(mem[w], m, s) /\ Retains(mem[w], m, s)
    BY ActiveEffect
  <2> HIDE DEF m
  <2> QED
    BY <1>0, <2>1, <2>2, LostAdapter
<1> SUFFICES ASSUME HasModule(m, s) PROVE Handled(w, s)
  BY <1>a
<1>2. /\ MemoryOk(m) /\ m.rt[s] = l.rt /\ m.rt[s] # None /\ l.rt \in OwnRuntime(s)
      /\ HasModule(m, s) /\ m.active = s /\ Took(w, s, l.rt, x) /\ StateOf(m, s, l.rt) = Snapshot(x, l.rt)
      /\ Keeps(mem[w], m, s) /\ Retains(mem[w], m, s)
  BY ActiveEffect
<1>3. IF l.rt.grads.set THEN Saves(w, s, Snapshot(x, l.rt), n, r, FALSE) ELSE Raise(w, s, m)
  BY <1>1, <1>2
<1> HIDE DEF m
<1>4. r \in OwnRuntime(s) /\ l.rt.grads.sum \in OwnUpdate(s)
  BY <1>2, SteppedOwn
<1>5. /\ MemoryOk(n) /\ n.rt[s] # None /\ Keeps(m, n, s) /\ n.rt = m.rt
      /\ y = Trained(x, l.rt.grads.sum)
  <2> DEFINE update == l.rt.grads.sum
  <2>1. update \in OwnUpdate(s)
    BY <1>4
  <2> HIDE DEF update, r
  <2>2. MemoryOk(Updated(m, s, update)) /\ Updated(m, s, update).rt[s] # None
    BY <1>2, <2>1, UpdatedOk, UpdatedKeeps, CachedIsPlaced
  <2>3. /\ Keeps(m, Updated(m, s, update), s) /\ Updated(m, s, update).rt = m.rt
        /\ LiveWeights(Updated(m, s, update), s) = Trained(LiveWeights(m, s), update)
    BY <1>2, UpdatedKeeps
  <2> QED
    BY <2>2, <2>3 DEF update
<1>6. /\ r.grads = ZeroGrads
      /\ r.opt = Append(IF l.rt.opt = None THEN <<>> ELSE l.rt.opt, l.rt.grads.sum)
      /\ r.meta.steps = l.rt.meta.steps + 1 /\ r.meta.accum = 0
      /\ r.meta.pristine = l.rt.meta.pristine
  BY <1>2, SteppedIs
<1> HIDE DEF n, r, x, y
<1>7. Keeps(mem[w], n, s) /\ Retains(mem[w], n, s)
  BY <1>2, <1>5, KeepsTransitive DEF Retains
<1>8. CASE ~ l.rt.grads.set
  BY <1>0, <1>2, <1>3, <1>8, RaisedActive DEF x
<1>9. CASE l.rt.grads.set
  <2>1. Ends(w, s, Snapshot(x, l.rt), n, r, ImageOf(s, y, r), Writes(ImageOf(s, y, r)), FALSE)
    BY <1>3, <1>4, <1>5, <1>9, SavesEffect DEF y
  <2>3. Does(pending[s].kind, pending[s].batch, ckpts[s], l.rt, x, r, y)
    BY <1>0, <1>5, <1>6, <1>9 DEF Does
  <2>4. Ends(w, s, Snapshot(x, l.rt), n, r, IF Silent(s) THEN NoBlobs ELSE ImageOf(s, y, r),
             IF Silent(s) THEN {} ELSE Writes(ImageOf(s, y, r)), pending[s].kind = "save")
    <3>1. ~ Silent(s) /\ (pending[s].kind = "save") = FALSE
      BY <1>0, NotSilent
    <3> QED
      BY <2>1, <3>1
  <2> QED
    BY <1>0, <1>2, <1>4, <1>5, <1>7, <2>3, <2>4, EndsIsHandled DEF y
<1> QED
  BY <1>8, <1>9

LEMMA SaveWeightsEffect ==
    ASSUME Inv, NEW w \in Workers, NEW s \in Sessions, SaveWeights(w, s)
    PROVE  Handled(w, s)
<1>0. Free(s) /\ op[w] = None /\ pending[s].kind = "save"
  BY FetchedFacts DEF SaveWeights
<1> DEFINE m == mem[w]
           r == m.rt[s]
           x == LiveWeights(m, s)
<1>1. MemoryOk(m) /\ r \in OwnRuntime(s) \cup {None}
  BY DEF Inv, MemoryOk, HoldsOwn
<1>2. Keeps(m, m, s) /\ Retains(m, m, s)
  BY DEF Keeps, KeepsOne, Retains
<1>3. CASE r = None
  <2>1. Raise(w, s, m) /\ KeepsOne(mem[w], m, s) /\ m.rt[s] = None
    BY <1>3 DEF SaveWeights, KeepsOne
  <2> QED
    BY <1>0, <1>2, <2>1, RaiseIsHandled
<1>4. CASE r # None
  <2>1. Saves(w, s, Snapshot(x, r), m, r, TRUE)
    BY <1>4 DEF SaveWeights, StateOf, Snapshot
  <2>2. Ends(w, s, Snapshot(x, r), m, r, ImageOf(s, x, r), Writes(ImageOf(s, x, r)), TRUE)
    BY <1>1, <1>4, <2>1, SavesEffect
  <2>3. x \in OwnWeights(s)
    BY <1>1, <1>4, CachedIsPlaced, LiveWeightsOwn
  <2>4. Took(w, s, r, x)
    BY <1>1, <1>4, <2>3 DEF Took
  <2>5. Does(pending[s].kind, pending[s].batch, ckpts[s], r, x, r, x)
    BY <1>0 DEF Does
  <2> HIDE DEF r, x
  <2>6. Ends(w, s, Snapshot(x, r), m, r, IF Silent(s) THEN NoBlobs ELSE ImageOf(s, x, r),
             IF Silent(s) THEN {} ELSE Writes(ImageOf(s, x, r)), pending[s].kind = "save")
    <3>1. ~ Silent(s) /\ (pending[s].kind = "save") = TRUE
      BY <1>0, NotSilent
    <3> QED
      BY <2>2, <3>1
  <2> QED
    BY <1>0, <1>1, <1>2, <1>4, <2>4, <2>5, <2>6, EndsIsHandled DEF x, r
<1> QED
  BY <1>3, <1>4

LEMMA LoadWeightsEffect ==
    ASSUME Steady, Inv, NEW w \in Workers, NEW s \in Sessions, Anchored(mem[w], s),
           NEW kind, LoadWeights(w, s, kind)
    PROVE  Handled(w, s)
<1>0. /\ Free(s) /\ op[w] = None /\ pending[s].kind = kind /\ kind \in {"load", "restore"}
  BY FetchedFacts DEF LoadWeights
<1>1. PICK l \in Loads(w, s) :
         LET r == IF kind = "restore" THEN Restored(l.rt, ckpts[s])
                  ELSE [l.rt EXCEPT !.grads = NoGrads]
         IN  IF HasModule(l.mem, s)
             THEN Saves(w, s, StateOf(l.mem, s, l.rt), Replaced(l.mem, s, ckpts[s].weights), r, FALSE)
             ELSE Raise(w, s, l.mem)
  BY DEF LoadWeights
<1> DEFINE r == IF kind = "restore" THEN Restored(l.rt, ckpts[s])
                ELSE [l.rt EXCEPT !.grads = NoGrads]
           m == l.mem
           n == Replaced(m, s, ckpts[s].weights)
           x == LiveWeights(m, s)
           y == LiveWeights(n, s)
<1>a. /\ MemoryOk(m) /\ l.rt \in OwnRuntime(s)
      /\ Keeps(mem[w], m, s) /\ Retains(mem[w], m, s)
      /\ \/ Took(w, s, l.rt, x) /\ m.rt[s] = l.rt /\ m.rt[s] # None
         \/ ~ FP(s) /\ m.adapter[s] = None /\ KeepsOne(mem[w], m, s)
  BY LoadsOk, LoadsEffect
<1>b. CASE ~ FP(s) /\ m.adapter[s] = None /\ KeepsOne(mem[w], m, s)
  <2>1. Raise(w, s, m)
    BY <1>1, <1>b DEF HasModule
  <2> HIDE DEF m
  <2> QED
    BY <1>0, <1>a, <1>b, <2>1, LostAdapter
<1> SUFFICES ASSUME Took(w, s, l.rt, x), m.rt[s] = l.rt, m.rt[s] # None PROVE Handled(w, s)
  BY <1>a, <1>b
<1>2. /\ MemoryOk(m) /\ l.rt \in OwnRuntime(s) /\ m.rt[s] # None
      /\ Took(w, s, l.rt, x) /\ m.rt[s] = l.rt
      /\ Keeps(mem[w], m, s) /\ Retains(mem[w], m, s)
  BY <1>a
<1>3. ckpts[s] \in OwnBlobSet(s) /\ ckpts[s].weights # None
  BY DEF LoadWeights, Fetched, Inv, PendingOk, StoresOk
<1>4. /\ ckpts[s].weights \in OwnWeights(s) /\ ckpts[s].opt \in MaybeOpt(s)
      /\ ckpts[s].grads \in OwnGradients(s) \cup {None}
  BY <1>3 DEF OwnBlobSet, MaybeWeights
<1>5. r \in OwnRuntime(s)
  BY <1>2, <1>4, RecordsOk DEF Restored, OwnRuntime
<1>6. /\ r.meta = l.rt.meta
      /\ r.grads = IF kind = "load" \/ ckpts[s].grads = None THEN NoGrads ELSE ckpts[s].grads
      /\ r.opt = IF kind = "load" THEN l.rt.opt ELSE ckpts[s].opt
  BY <1>0, <1>2 DEF Restored, OwnRuntime
<1>7. HasModule(m, s)
  BY <1>2 DEF HasModule, MemoryOk, HoldsOwn, HasWeights
<1>8. Saves(w, s, Snapshot(x, l.rt), n, r, FALSE)
  BY <1>1, <1>7 DEF StateOf, Snapshot
<1> HIDE DEF r, m
<1>9. /\ MemoryOk(n) /\ n.rt[s] # None /\ Keeps(m, n, s) /\ n.rt = m.rt
      /\ y = ckpts[s].weights
  BY <1>2, <1>4, ReplacedOk, ReplacedKeeps
<1> HIDE DEF n, x, y
<1>10. Keeps(mem[w], n, s) /\ Retains(mem[w], n, s)
  BY <1>2, <1>9, KeepsTransitive DEF Retains
<1>11. Ends(w, s, Snapshot(x, l.rt), n, r, ImageOf(s, y, r), Writes(ImageOf(s, y, r)), FALSE)
  BY <1>5, <1>8, <1>9, SavesEffect DEF y
<1>12. Does(pending[s].kind, pending[s].batch, ckpts[s], l.rt, x, r, y)
  BY <1>0, <1>6, <1>9 DEF Does
<1>13. Ends(w, s, Snapshot(x, l.rt), n, r, IF Silent(s) THEN NoBlobs ELSE ImageOf(s, y, r),
            IF Silent(s) THEN {} ELSE Writes(ImageOf(s, y, r)), pending[s].kind = "save")
  <2>1. ~ Silent(s) /\ (pending[s].kind = "save") = FALSE
    BY <1>0, NotSilent
  <2> QED
    BY <1>11, <2>1
<1> QED
  BY <1>0, <1>2, <1>5, <1>9, <1>10, <1>12, <1>13, EndsIsHandled DEF y

LEMMA SomeVictim ==
    ASSUME setup \in Setups, NEW m, NEW s \in Sessions PROVE Victims(m, s) # {}
<1>1. Cardinality({}) = 0
  BY FS_EmptySet
<1>2. MaxSlots \in Nat \ {0}
  BY SessionAssumption DEF MaxSlots
<1>3. CASE s \in Cached(m) \/ Cardinality(Cached(m)) < MaxSlots
  BY <1>3 DEF Victims
<1>4. CASE ~ (s \in Cached(m) \/ Cardinality(Cached(m)) < MaxSlots)
  <2>1. Cached(m) # {}
    BY <1>1, <1>2, <1>4
  <2> QED
    BY <1>4, <2>1 DEF Victims
<1> QED
  BY <1>3, <1>4

LEMMA LoadFailsEffect ==
    ASSUME Inv, NEW w \in Workers, NEW s \in Sessions, LoadFails(w, s)
    PROVE  Handled(w, s)
<1>0. Free(s) /\ op[w] = None /\ pending[s].kind # "init"
  BY FetchedFacts DEF LoadFails
<1> DEFINE m == BeforeLoad(w, s)
           blobs == Source(w, s)
<1>1. /\ MemoryOk(mem[w]) /\ \A t \in Sessions : KeepsOne(mem[w], m, t)
      /\ \A t \in Sessions : t # s => m.rt[t] = mem[w].rt[t]
  <2>1. MemoryOk(mem[w])
    BY DEF Inv
  <2>2. \A t \in Sessions : KeepsOne(mem[w], mem[w], t)
    BY DEF KeepsOne
  <2> QED
    BY <2>1, <2>2, OnEvictKeeps DEF BeforeLoad
<1>2. Keeps(mem[w], m, s) /\ Retains(mem[w], m, s)
  BY <1>1 DEF Keeps, Retains
<1>3. Raise(w, s, m) /\ Loads(w, s) = {}
  BY DEF LoadFails
<1>4. ~ Loadable(blobs, s)
  <2> SUFFICES ASSUME Loadable(blobs, s) PROVE FALSE
    OBVIOUS
  <2>1. CASE m.rt[s] # None
    <3>1. Loads(w, s) = {[mem |-> m, rt |-> m.rt[s]]}
      BY <2>1 DEF Loads
    <3> QED
      BY <1>3, <3>1
  <2>2. CASE m.rt[s] = None
    <3> DEFINE r == LoadedRuntime(blobs)
               l(victim) == [mem |-> Put(Attach(m, s, LoadedWeights(blobs, s)), s, r, victim),
                             rt |-> r]
    <3>1. Loads(w, s) = {l(victim) : victim \in Victims(m, s)}
      BY <2>2 DEF Loads
    <3>2. Victims(m, s) # {}
      BY SomeVictim DEF Inv
    <3> HIDE DEF l, m
    <3> QED
      BY <1>3, <3>1, <3>2
  <2> QED
    BY <2>1, <2>2
<1> HIDE DEF m, blobs
<1> QED
  BY <1>0, <1>1, <1>2, <1>3, <1>4, RaiseIsHandled DEF blobs

(* A session that no worker knows begins with the pristine base model. *)
Unknown(m, s) == m.rt[s] = None /\ m.adapter[s] = None /\ m.stash[s] = None

LEMMA InitSessionEffect ==
    ASSUME Steady, Inv, NEW w \in Workers, NEW s \in Sessions, Anchored(mem[w], s),
           Unknown(mem[w], s), InitSession(w, s)
    PROVE  Handled(w, s)
<1>0. Free(s) /\ op[w] = None /\ pending[s].kind = "init"
  BY FetchedFacts DEF InitSession
<1> DEFINE others == LiveFP(mem[w]) \ {s}
           zombies == {t \in others : Idle(mem[w], t)}
           m == IF FP(s) THEN EvictAll(mem[w], zombies) ELSE mem[w]
           marker == [NoBlobs EXCEPT !.meta = [ZeroMeta EXCEPT !.pristine = TRUE]]
<1>1. \A Z \in SUBSET zombies : Z \in SUBSET Sessions /\ s \notin Z
  BY DEF LiveFP
<1>2. MemoryOk(mem[w]) /\ MemoryOk(m)
  BY <1>1, EvictAllOk DEF Inv
<1>3. ASSUME NEW Z \in SUBSET zombies, FP(s)
      PROVE  LET n == EvictAll(mem[w], Z) IN
             /\ Keeps(mem[w], n, s) /\ Retains(mem[w], n, s) /\ KeepsOne(mem[w], n, s)
             /\ n.rt[s] = mem[w].rt[s] /\ n.adapter[s] = mem[w].adapter[s]
             /\ n.stash[s] = mem[w].stash[s]
  <2> DEFINE n == EvictAll(mem[w], Z)
  <2>1. Z \in SUBSET Sessions /\ s \notin Z
    BY <1>1
  <2>2. \A t \in Sessions :
           /\ KeepsOne(mem[w], n, t)
           /\ t \notin Z => /\ n.rt[t] = mem[w].rt[t] /\ n.adapter[t] = mem[w].adapter[t]
                            /\ n.stash[t] = mem[w].stash[t]
    BY <1>2, <2>1, EvictAllKeeps
  <2>3. OneFullParam => \A t \in Sessions : t # s => ~ FP(t)
    BY <1>3 DEF OneFullParam
  <2> HIDE DEF n
  <2>4. Keeps(mem[w], n, s) /\ Retains(mem[w], n, s)
    BY <2>2, <2>3 DEF Keeps, Retains
  <2> QED
    BY <2>1, <2>2, <2>4 DEF n
<1>4. /\ Keeps(mem[w], m, s) /\ Retains(mem[w], m, s) /\ Unknown(m, s)
      /\ FP(s) => m.active # s
  <2>1. CASE FP(s)
    <3>1. zombies \in SUBSET zombies
      OBVIOUS
    <3> HIDE DEF zombies
    <3> QED
      BY <1>3, <2>1, <3>1 DEF Unknown, KeepsOne, Anchored
  <2>2. CASE ~ FP(s)
    BY <2>2 DEF Keeps, KeepsOne, Retains
  <2> QED
    BY <2>1, <2>2
<1>5. CASE FP(s) /\ \E Z \in SUBSET zombies : Raise(w, s, EvictAll(mem[w], Z))
  <2>1. PICK Z \in SUBSET zombies : Raise(w, s, EvictAll(mem[w], Z))
    BY <1>5
  <2> DEFINE n == EvictAll(mem[w], Z)
  <2>2. /\ Keeps(mem[w], n, s) /\ Retains(mem[w], n, s) /\ KeepsOne(mem[w], n, s)
        /\ n.rt[s] = mem[w].rt[s] /\ Raise(w, s, n)
    BY <1>3, <1>5, <2>1
  <2> HIDE DEF n
  <2> QED
    BY <1>0, <2>2, RaiseIsHandled
<1>6. CASE \E victim \in Victims(m, s) \ {s} :
             LET m1 == Initialized(m, s, victim)
             IN  IF FP(s) THEN Runs(w, s, None, m1, FreshRuntime, marker, {"meta"}, FALSE)
                          ELSE Saves(w, s, None, m1, FreshRuntime, FALSE)
  <2> HIDE DEF m, marker
  <2>1. PICK victim \in Victims(m, s) \ {s} :
             IF FP(s) THEN Runs(w, s, None, Initialized(m, s, victim), FreshRuntime,
                                marker, {"meta"}, FALSE)
                      ELSE Saves(w, s, None, Initialized(m, s, victim), FreshRuntime, FALSE)
    BY <1>6
  <2> DEFINE n == Attach(m, s, Pristine)
             m1 == Put(n, s, FreshRuntime, victim)
  <2>2. Initialized(m, s, victim) = m1
    BY <1>4 DEF Initialized, Unknown
  <2>3. Pristine \in OwnWeights(s) /\ m.rt[s] = None
    BY <1>4, Empty DEF Unknown
  <2>4. /\ MemoryOk(n) /\ HasWeights(n, s) /\ Keeps(m, n, s) /\ LiveWeights(n, s) = Pristine
        /\ \A t \in Sessions : n.rt[t] = m.rt[t]
    BY <1>2, <1>4, <2>3, AttachOk, AttachKeeps
  <2>5. victim \in Sessions \cup {None} /\ victim # s
    BY VictimsAreSessions
  <2>6. FreshRuntime \in OwnRuntime(s) /\ FreshRuntime # None
    BY RecordsOk, OwnIsNotNone
  <2> HIDE DEF n
  <2>7. /\ MemoryOk(m1) /\ m1.rt[s] = FreshRuntime /\ Keeps(n, m1, s)
        /\ LiveWeights(m1, s) = Pristine
        /\ victim = None => \A t \in Sessions : t # s => m1.rt[t] = n.rt[t]
    BY <2>4, <2>5, <2>6, PutOk, PutKeeps
  <2> HIDE DEF m1
  <2>8. Retains(m, m1, s)
    <3>1. Roomy => victim = None
      BY <2>3, RoomyEvictsNone DEF Inv
    <3> QED
      BY <2>4, <2>7, <3>1 DEF Retains
  <2>9. Keeps(mem[w], m1, s) /\ Retains(mem[w], m1, s)
    BY <1>4, <2>4, <2>7, <2>8, KeepsTransitive, RetainsTransitive
  <2> DEFINE image == IF FP(s) THEN marker ELSE ImageOf(s, Pristine, FreshRuntime)
  <2>10. Ends(w, s, None, m1, FreshRuntime, image, Writes(image), FALSE)
    <3>1. CASE FP(s)
      <4>1. Runs(w, s, None, m1, FreshRuntime, marker, {"meta"}, FALSE)
        BY <2>1, <2>2, <3>1
      <4>2. Writes(marker) = {"meta"}
        <5>1. /\ marker.meta # None /\ marker.weights = None /\ marker.grads = None
              /\ marker.opt = None
          BY RecordsOk, NoneAssumption DEF marker, NoBlobs
        <5> QED
          BY <5>1 DEF Writes, Blobs
      <4>3. StateOf(m1, s, FreshRuntime) = Snapshot(LiveWeights(m1, s), FreshRuntime)
        BY DEF StateOf, Snapshot
      <4>4. Keeps(m1, m1, s) /\ Retains(m1, m1, s)
        BY DEF Keeps, KeepsOne, Retains
      <4> QED
        BY <2>7, <3>1, <4>1, <4>2, <4>3, <4>4 DEF Runs, Ends
    <3>2. CASE ~ FP(s)
      <4>1. Saves(w, s, None, m1, FreshRuntime, FALSE)
        BY <2>1, <2>2, <3>2
      <4>2. m1.rt[s] # None
        BY <2>6, <2>7
      <4> QED
        BY <2>6, <2>7, <3>2, <4>1, <4>2, SavesEffect
    <3> QED
      BY <3>1, <3>2
  <2>11. PICK k : /\ mem' = [mem EXCEPT ![w] = k] /\ Keeps(m1, k, s) /\ Retains(m1, k, s)
                  /\ k.rt[s] = FreshRuntime /\ LiveWeights(k, s) = Pristine
    BY <2>7, <2>10 DEF Ends
  <2>12. DOMAIN mem = Workers /\ DOMAIN op = Workers
    BY DEF Inv
  <2>13. /\ DOMAIN mem' = Workers /\ mem'[w] = k
         /\ \A v \in Workers : v # w => mem'[v] = mem[v]
    BY <2>11, <2>12
  <2>14. Keeps(mem[w], mem'[w], s) /\ Retains(mem[w], mem'[w], s)
    BY <2>9, <2>11, <2>13, KeepsTransitive, RetainsTransitive
  <2> DEFINE o == [session |-> s, before |-> None, after |-> Snapshot(Pristine, FreshRuntime),
                   image |-> image, left |-> Writes(image), publish |-> FALSE]
  <2>15. /\ op' = [op EXCEPT ![w] = o]
         /\ UNCHANGED <<local, remote, ckpts, pending, jobs, custom, latest, faults>>
    BY <2>7, <2>10 DEF Ends
  <2>16. image \in {ImageOf(s, Pristine, FreshRuntime), marker} /\ (image.meta.pristine => FP(s))
    BY DEF ImageOf, FreshRuntime, ZeroMeta
  <2> HIDE DEF image
  <2>17. op'[w] = o
    BY <2>12, <2>15
  <2>18. Begun(w, s)
    BY <1>0, <2>11, <2>13, <2>16, <2>17 DEF Begun, marker
  <2> HIDE DEF o
  <2>19. DOMAIN op' = Workers /\ \A v \in Workers : v # w => op'[v] = op[v]
    BY <2>12, <2>15
  <2> QED
    BY <1>0, <2>13, <2>14, <2>15, <2>18, <2>19 DEF Handled
<1> QED
  BY <1>5, <1>6 DEF InitSession

LEMMA HandlerEffect ==
    ASSUME Steady, Inv, NEW w \in Workers, NEW s \in Sessions, Anchored(mem[w], s),
           pending[s] # None /\ pending[s].kind = "init" => Unknown(mem[w], s),
           HandlerStep(w, s)
    PROVE  Handled(w, s)
<1>1. CASE InitSession(w, s)
  BY <1>1, InitSessionEffect DEF InitSession, Fetched
<1> QED
  BY <1>1, LoadFailsEffect, ForwardBackwardEffect, CustomStep1Effect, CustomStep2Effect,
     SampleEffect, OptimStepEffect, SaveWeightsEffect, LoadWeightsEffect DEF HandlerStep
-----------------------------------------------------------------------------
(***************************************************************************)
(* A session's state on a worker: the blobs its disk will hold once the    *)
(* running job's writes are done, and the state its last job left or the   *)
(* running one computed.  Weights agree up to the format of the blobs.     *)
(***************************************************************************)
Running(w, s) == op[w] # None /\ op[w].session = s

Disk(w, s) ==
    [b \in Blobs |-> IF Running(w, s) /\ b \in op[w].left THEN op[w].image[b]
                     ELSE local[DirOf[w]][s][b]]
Current(w, s) == IF Running(w, s) THEN op[w].after ELSE latest[s]
Uncreated(s) == latest[s] = None /\ \A w \in Workers : ~ Running(w, s)

GradSum(g) == IF g = None THEN <<>> ELSE g.sum

(* Before init_session nothing is known of a session; after it, its disk   *)
(* and, when cached, the memory hold its current state.                    *)
Beginning(s) ==
    /\ Uncreated(s) =>
          /\ remote[s] = NoBlobs /\ ckpts[s] = None
          /\ \A w \in Workers :
                /\ Unknown(mem[w], s) /\ local[DirOf[w]][s] = NoBlobs
                /\ FP(s) => mem[w].active # s
    /\ pending[s] # None => (pending[s].kind = "init" <=> latest[s] = None)
    /\ ckpts[s] = None => remote[s] = NoBlobs

Mirrors(disk, now, m, far, s) ==
    /\ Loadable(disk, s) /\ LoadedWeights(disk, s) \in AsKept(s, now.weights)
    /\ GradSum(disk.grads) = now.grads /\ disk.opt = now.opt
    /\ disk.meta.accum = Len(now.grads)
    /\ m.rt[s] # None =>
          /\ LiveWeights(m, s) \in AsKept(s, now.weights)
          /\ LoadedWeights(disk, s) \in AsKept(s, LiveWeights(m, s))
          /\ m.rt[s].grads.sum = now.grads /\ m.rt[s].opt = now.opt
          /\ m.rt[s].meta.steps = disk.meta.steps
          /\ m.rt[s].meta.accum = disk.meta.accum
    /\ FP(s) => /\ m.rt[s] # None /\ ~ m.rt[s].meta.pristine
                /\ disk.meta.pristine => far.meta = None

Faithful(w, s) == Mirrors(Disk(w, s), Current(w, s), mem[w], remote[s], s)

(* What a careful client's rules mean for the jobs on their way. *)
CarefulJob(s) ==
    /\ ckpts[s] # None => ckpts[s].opt # None /\ GradSum(ckpts[s].grads) = <<>>
    /\ pending[s] # None /\ pending[s].kind \in {"save", "load", "restore"}
          => latest[s].grads = <<>>
    /\ pending[s] # None /\ pending[s].kind = "save" /\ (\A w \in Workers : ~ Running(w, s))
          => ckpts[s] = None /\ latest[s].opt # None
    /\ \A w \in Workers : Running(w, s) =>
          /\ op[w].before \in Reloaded(s, latest[s])
          /\ op[w].publish =>
                /\ ckpts[s] = None /\ op[w].after.grads = <<>> /\ op[w].after.opt # None
                /\ Disk(w, s).weights = Stored(s, op[w].after.weights)
                /\ FP(s) => ~ Disk(w, s).meta.pristine

KeptOf(s) ==
    /\ Beginning(s) /\ CarefulJob(s)
    /\ ~ Uncreated(s) => \A w \in Workers : Faithful(w, s)

Typed ==
    /\ latest \in [Sessions -> State \cup {None}]
    /\ \A w \in Workers : op[w] # None => op[w] \in Operation

KeptInv == faults = 0 /\ Inv /\ Typed /\ \A s \in Sessions : KeptOf(s)

(* The services and clients the result is about. *)
Calm ==
    /\ Careful /\ MaxFaults = 0
    /\ \A v, w \in Workers : v = w
    /\ OneFullParam /\ (FullParam = {} \/ Roomy)

(* A step that is not about t changes nothing of it, except that it may be evicted. *)
Same(t) ==
    /\ pending'[t] = pending[t] /\ jobs'[t] = jobs[t] /\ custom'[t] = custom[t]
    /\ latest'[t] = latest[t] /\ remote'[t] = remote[t] /\ ckpts'[t] = ckpts[t]
    /\ \A v \in Workers :
          /\ op[v] # None /\ op[v].session = t <=> op'[v] # None /\ op'[v].session = t
          /\ op[v] # None /\ op[v].session = t => op'[v] = op[v]
          /\ local'[DirOf[v]][t] = local[DirOf[v]][t]
          /\ KeepsOne(mem[v], mem'[v], t)
          /\ Roomy /\ OneFullParam /\ FP(t) /\ mem[v].rt[t] # None => mem'[v].rt[t] # None

LEMMA SetupKept ==
    ASSUME setup' = setup
    PROVE  /\ \A t : FP(t)' <=> FP(t)
           /\ \A t, x : Stored(t, x)' = Stored(t, x) /\ AsKept(t, x)' = AsKept(t, x)
           /\ Steady' <=> Steady
           /\ Calm' <=> Calm
<1>1. Workers' = Workers /\ FullParam' = FullParam /\ MaxSlots' = MaxSlots /\ Wide' = Wide
  BY SettingKept DEF FullParam, MaxSlots, Wide
<1> QED
  BY <1>1 DEF FP, Stored, AsKept, Steady, Calm, Careful, MaxFaults, OneFullParam, Roomy,
     FullParam, MaxSlots

(* Weights go through a blob once to any effect. *)
LEMMA KeptOnce ==
    ASSUME NEW s \in Sessions, NEW x \in Weights, NEW y \in AsKept(s, x)
    PROVE  /\ y \in Weights /\ y.steps = x.steps /\ Stored(s, y) = Stored(s, x)
           /\ AsKept(s, y) \subseteq AsKept(s, x) /\ Stored(s, x) \in AsKept(s, y)
<1>1. x.steps \in Seq(Update) /\ x.stored \in SUBSET Nat /\ Len(x.steps) \in Nat
  BY DEF Weights
<1>2. CASE s \in Wide
  <2> DEFINE n == x.stored \cup {Len(x.steps)}
             z == [x EXCEPT !.stored = n]
  <2>1. n \in SUBSET Nat /\ n \cup {Len(x.steps)} = n
    BY <1>1
  <2>2. Stored(s, x) = z
    BY <1>2 DEF Stored
  <2> HIDE DEF n
  <2>3. z \in Weights /\ z.steps = x.steps /\ z.stored = n
    BY <1>1, <2>1 DEF Weights
  <2>4. Stored(s, z) = [z EXCEPT !.stored = z.stored \cup {Len(z.steps)}]
    BY <1>2 DEF Stored
  <2>5. [z EXCEPT !.stored = n] = z
    OBVIOUS
  <2> HIDE DEF z
  <2>6. Stored(s, z) = z
    BY <2>1, <2>3, <2>4, <2>5
  <2> QED
    BY <2>2, <2>3, <2>6 DEF AsKept
<1>3. CASE s \notin Wide
  BY <1>3 DEF Stored, AsKept
<1> QED
  BY <1>2, <1>3

LEMMA FaithfulNext ==
    ASSUME setup' = setup, NEW w, NEW s
    PROVE  /\ Faithful(w, s)' <=> Mirrors(Disk(w, s)', Current(w, s)', mem'[w], remote'[s], s)
           /\ Current(w, s)' = IF op'[w] # None /\ op'[w].session = s THEN op'[w].after ELSE latest'[s]
           /\ Disk(w, s)' = [b \in Blobs |->
                 IF (op'[w] # None /\ op'[w].session = s) /\ b \in op'[w].left
                 THEN op'[w].image[b] ELSE local'[DirOf[w]][s][b]]
           /\ Running(w, s)' <=> op'[w] # None /\ op'[w].session = s
<1>1. \A t : FP(t)' <=> FP(t)
  BY SetupKept
<1>2. DirOf' = DirOf
  BY SettingKept
<1>3. Wide' = Wide
  BY DEF Wide
<1> QED
  BY <1>1, <1>2, <1>3
     DEF Faithful, Mirrors, Loadable, LoadedWeights, LiveWeights, AsKept, Stored, Current, Disk,
         Running

LEMMA CarefulNext ==
    ASSUME setup' = setup, NEW s
    PROVE  /\ latest'[s] = latest[s] => Reloaded(s, latest[s])' = Reloaded(s, latest[s])
           /\ \A w : op'[w].after = op[w].after =>
                 Stored(s, op[w].after.weights)' = Stored(s, op[w].after.weights)
<1>1. Wide' = Wide
  BY DEF Wide
<1> QED
  BY <1>1 DEF Reloaded, AsKept, Stored

LEMMA SameOf ==
    ASSUME setup' = setup, NEW t, Same(t)
    PROVE  /\ \A v \in Workers : /\ Running(v, t)' <=> Running(v, t)
                                 /\ Disk(v, t)' = Disk(v, t) /\ Current(v, t)' = Current(v, t)
           /\ Uncreated(t)' <=> Uncreated(t)
<1>1. \A v \in Workers : Running(v, t)' <=> Running(v, t)
  BY DEF Same, Running
<1>2. Workers' = Workers
  BY SettingKept
<1>3. ASSUME NEW v \in Workers PROVE Disk(v, t)' = Disk(v, t) /\ Current(v, t)' = Current(v, t)
  <2>1. DirOf' = DirOf /\ local'[DirOf[v]][t] = local[DirOf[v]][t] /\ latest'[t] = latest[t]
    BY SettingKept DEF Same
  <2>2. Running(v, t) => op'[v] = op[v]
    BY DEF Same, Running
  <2> QED
    BY <1>1, <2>1, <2>2 DEF Disk, Current
<1> QED
  BY <1>1, <1>2, <1>3 DEF Uncreated, Same

LEMMA SameKept ==
    ASSUME Calm, setup' = setup, NEW t \in Sessions, Same(t), KeptOf(t)
    PROVE  KeptOf(t)'
<1>1. /\ \A v \in Workers : /\ Running(v, t)' <=> Running(v, t)
                            /\ Disk(v, t)' = Disk(v, t) /\ Current(v, t)' = Current(v, t)
      /\ Uncreated(t)' <=> Uncreated(t)
  BY SameOf
<1>2. Workers' = Workers /\ DirOf' = DirOf /\ (FP(t)' <=> FP(t))
  BY SettingKept, SetupKept
<1>3. FP(t) => Roomy /\ OneFullParam
  BY DEF Calm, FP
<1>4. Beginning(t)'
  <2>1. \A w \in Workers : Unknown(mem[w], t) /\ (FP(t) => mem[w].active # t) =>
           Unknown(mem[w], t)' /\ (FP(t) => mem'[w].active # t)
    BY DEF Same, KeepsOne, Unknown
  <2> QED
    BY <1>1, <1>2, <2>1 DEF KeptOf, Beginning, Same
<1>5. CarefulJob(t)'
  <2>1. Reloaded(t, latest[t])' = Reloaded(t, latest[t])
    BY CarefulNext DEF Same
  <2>2. \A v \in Workers : Running(v, t) =>
           op'[v] = op[v] /\ Stored(t, op[v].after.weights)' = Stored(t, op[v].after.weights)
    BY CarefulNext DEF Same, Running
  <2> QED
    BY <1>1, <1>2, <2>1, <2>2 DEF KeptOf, CarefulJob, Same
<1>6. ASSUME NEW w \in Workers, Faithful(w, t) PROVE Faithful(w, t)'
  <2>1. Mirrors(Disk(w, t), Current(w, t), mem'[w], remote[t], t)
    BY <1>3, <1>6 DEF Faithful, Mirrors, Same, KeepsOne
  <2> QED
    BY <1>1, <2>1, FaithfulNext DEF Same
<1> QED
  BY <1>1, <1>2, <1>4, <1>5, <1>6 DEF KeptOf

LEMMA HandledSame ==
    ASSUME Inv, NEW w \in Workers, NEW s \in Sessions, Handled(w, s), NEW t \in Sessions, t # s
    PROVE  Same(t)
<1>1. op[w] = None /\ (op'[w] = None \/ op'[w].session = s)
  BY DEF Handled, Raised, Begun, Served
<1>2. \A v \in Workers : v # w => mem'[v] = mem[v] /\ op'[v] = op[v]
  BY DEF Handled
<1>3. \A v \in Workers : KeepsOne(mem[v], mem'[v], t)
  BY <1>2 DEF Handled, Keeps, KeepsOne
<1>4. \A v \in Workers : Roomy /\ OneFullParam /\ FP(t) /\ mem[v].rt[t] # None => mem'[v].rt[t] # None
  BY <1>2 DEF Handled, Retains
<1>5. pending'[t] = pending[t]
  BY DEF Handled, Raised, Inv
<1> QED
  BY <1>1, <1>2, <1>3, <1>4, <1>5 DEF Handled, Same

LEMMA StateIsBefore == State \subseteq StateBefore /\ None \notin State
<1>1. State \subseteq StateBefore
  BY DEF State, StateBefore
<1> QED
  BY <1>1, NoneAssumption

LEMMA SnapshotIsState ==
    ASSUME NEW s \in Sessions, NEW q \in OwnRuntime(s), NEW x \in OwnWeights(s)
    PROVE  Snapshot(x, q) \in State /\ Snapshot(x, q) # None
<1>1. /\ OwnWeights(s) \subseteq Weights /\ OwnUpdate(s) \subseteq Update
      /\ OwnSteps(s) \subseteq Seq(Update)
  BY OwnIsWeights, OwnUpdateIsUpdate, OwnIsSteps
<1>2. x \in Weights /\ q.grads.sum \in Update /\ q.opt \in Optimizer
  BY <1>1 DEF OwnRuntime, OwnGradients, MaybeOpt, Optimizer
<1>3. Snapshot(x, q) \in State
  BY <1>2 DEF Snapshot, State
<1> QED
  BY <1>3, StateIsBefore

LEMMA OwnIsBlobSet == \A s \in Sessions : OwnBlobSet(s) \subseteq BlobSet
<1> SUFFICES ASSUME NEW s \in Sessions PROVE OwnBlobSet(s) \subseteq BlobSet
  OBVIOUS
<1>1. /\ OwnWeights(s) \subseteq Weights /\ OwnUpdate(s) \subseteq Update
      /\ OwnSteps(s) \subseteq Seq(Update)
  BY OwnIsWeights, OwnUpdateIsUpdate, OwnIsSteps
<1>2. OwnGradients(s) \subseteq Grads
  BY <1>1 DEF OwnGradients, Grads
<1> QED
  BY <1>1, <1>2 DEF OwnBlobSet, BlobSet, MaybeWeights, MaybeOpt, Optimizer

LEMMA OperationIsTyped ==
    ASSUME NEW s \in Sessions, NEW before \in State \cup {None}, NEW after \in State,
           NEW image \in BlobSet, NEW left \in SUBSET Blobs, NEW publish \in BOOLEAN,
           NEW o, o = [session |-> s, before |-> before, after |-> after,
                       image |-> image, left |-> left, publish |-> publish]
    PROVE  o \in Operation /\ o # None
<1>1. o \in Operation
  BY StateIsBefore DEF Operation
<1> QED
  BY <1>1, NoneAssumption

(* The image a saving handler writes. *)
LEMMA ImageFacts ==
    ASSUME NEW s \in Sessions, NEW r \in OwnRuntime(s), NEW y \in OwnWeights(s)
    PROVE  LET i == ImageOf(s, y, r) IN
           /\ i \in OwnBlobSet(s) /\ i.weights = Stored(s, y) /\ i.weights # None
           /\ i.opt = r.opt
           /\ i.meta = r.meta /\ i.meta # None
           /\ i.grads = IF r.grads.set THEN GradsToSave(r) ELSE None
           /\ GradsToSave(r) # None
           /\ Writes(i) = {b \in Blobs : i[b] # None}
<1> DEFINE i == ImageOf(s, y, r)
<1> DEFINE z == Stored(s, y)
<1>0. z \in OwnWeights(s)
  BY StoredIs
<1>1. /\ i.weights = z /\ i.opt = r.opt /\ i.meta = r.meta
      /\ i.grads = IF r.grads.set THEN GradsToSave(r) ELSE None
  BY DEF ImageOf
<1> HIDE DEF z
<1>2. r.opt \in MaybeOpt(s) /\ r.meta \in Meta /\ r.grads \in OwnGradients(s)
  BY DEF OwnRuntime
<1>3. GradsToSave(r) \in OwnGradients(s)
  BY <1>2, RecordsOk DEF GradsToSave
<1>4. i \in OwnBlobSet(s)
  BY <1>0, <1>2, <1>3 DEF ImageOf, OwnBlobSet, MaybeWeights, z
<1>5. OwnGradients(s) \subseteq Grads
  BY OwnUpdateIsUpdate DEF OwnGradients, Grads
<1>6. z # None /\ r.meta # None /\ GradsToSave(r) # None
  BY <1>0, <1>2, <1>3, <1>5, OwnIsNotNone, NoneAssumption
<1> QED
  BY <1>1, <1>4, <1>6 DEF Writes, i, z

LEMMA HandledTyped ==
    ASSUME setup' = setup, Inv, Typed, NEW w \in Workers, NEW s \in Sessions, Handled(w, s)
    PROVE  /\ Typed'
           /\ Begun(w, s) \/ (\E q, x, r, y : Served(w, s, q, x, r, y)) =>
                 op'[w] # None /\ op'[w] \in Operation /\ op'[w].session = s
                 /\ op'[w].after \in State
<1>1. ASSUME Begun(w, s) \/ (\E q, x, r, y : Served(w, s, q, x, r, y))
      PROVE  op'[w] # None /\ op'[w] \in Operation /\ op'[w].session = s
             /\ op'[w].after \in State
  <2>1. CASE Begun(w, s)
    <3>1. FreshRuntime \in OwnRuntime(s) /\ Pristine \in OwnWeights(s)
      BY RecordsOk, Empty
    <3>2. Snapshot(Pristine, FreshRuntime) \in State
      BY <3>1, SnapshotIsState
    <3> DEFINE marker == [NoBlobs EXCEPT !.meta = [ZeroMeta EXCEPT !.pristine = TRUE]]
    <3>3. marker \in OwnBlobSet(s) /\ ImageOf(s, Pristine, FreshRuntime) \in OwnBlobSet(s)
      BY <3>1, RecordsOk, ImageFacts DEF OwnBlobSet, NoBlobs
    <3>4. PICK image \in {ImageOf(s, Pristine, FreshRuntime), marker} :
            op'[w] = [session |-> s, before |-> None, after |-> Snapshot(Pristine, FreshRuntime),
                      image |-> image, left |-> Writes(image), publish |-> FALSE]
      BY <2>1 DEF Begun
    <3> HIDE DEF marker
    <3>5. image \in BlobSet /\ Writes(image) \in SUBSET Blobs
      BY <3>3, <3>4, OwnIsBlobSet DEF Writes
    <3>6. op'[w] \in Operation /\ op'[w] # None
      BY <3>2, <3>4, <3>5, OperationIsTyped
    <3> QED
      BY <3>2, <3>4, <3>6
  <2>2. ASSUME NEW q, NEW x, NEW r, NEW y, Served(w, s, q, x, r, y)
        PROVE  op'[w] # None /\ op'[w] \in Operation /\ op'[w].session = s /\ op'[w].after \in State
    <3>1. Snapshot(x, q) \in State /\ Snapshot(y, r) \in State
      BY <2>2, SnapshotIsState DEF Served, Took
    <3> DEFINE image == IF Silent(s) THEN NoBlobs ELSE ImageOf(s, y, r)
               left == IF Silent(s) THEN {} ELSE Writes(ImageOf(s, y, r))
               publish == pending[s].kind = "save"
    <3>2. ImageOf(s, y, r) \in OwnBlobSet(s) /\ NoBlobs \in OwnBlobSet(s)
      BY <2>2, ImageFacts, RecordsOk DEF Served
    <3>3. image \in BlobSet /\ left \in SUBSET Blobs
      BY <3>2, OwnIsBlobSet DEF Writes
    <3>4. op'[w] = [session |-> s, before |-> Snapshot(x, q), after |-> Snapshot(y, r),
                    image |-> image, left |-> left, publish |-> publish]
      BY <2>2 DEF Served
    <3>6. publish \in BOOLEAN
      OBVIOUS
    <3> HIDE DEF image, left, publish
    <3>5. op'[w] \in Operation /\ op'[w] # None
      BY <3>1, <3>3, <3>4, <3>6, OperationIsTyped
    <3> QED
      BY <3>1, <3>4, <3>5
  <2> QED
    BY <1>1, <2>1, <2>2
<1>2. latest' = latest /\ Workers' = Workers /\ \A v \in Workers : v # w => op'[v] = op[v]
  BY SettingKept DEF Handled
<1>3. Typed'
  <2>1. op' = op \/ (op'[w] # None => op'[w] \in Operation)
    BY <1>1 DEF Handled, Raised
  <2> QED
    BY <1>2, <2>1 DEF Typed
<1> QED
  BY <1>1, <1>3

LEMMA LocalOwn ==
    ASSUME Inv, NEW w \in Workers, NEW s \in Sessions PROVE local[DirOf[w]][s] \in OwnBlobSet(s)
<1>1. DirOf[w] \in Dirs
  BY DEF Dirs, Range, Workers
<1> QED
  BY <1>1 DEF Inv, StoresOk

LEMMA BlobsAreFields ==
    ASSUME NEW s, NEW d \in OwnBlobSet(s)
    PROVE  /\ [b \in Blobs |-> d[b]] = d
           /\ d.weights \in MaybeWeights(s) /\ d.opt \in MaybeOpt(s)
           /\ d.grads \in OwnGradients(s) \cup {None} /\ d.meta \in Meta \cup {None}
BY DEF OwnBlobSet, Blobs

LEMMA IdleDisk ==
    ASSUME Inv, NEW w \in Workers, NEW s \in Sessions, ~ Running(w, s)
    PROVE  Disk(w, s) = local[DirOf[w]][s] /\ Current(w, s) = latest[s]
<1>1. Disk(w, s) = [b \in Blobs |-> local[DirOf[w]][s][b]]
  BY DEF Disk
<1> QED
  BY <1>1, LocalOwn, BlobsAreFields DEF Current

(* A handler takes the session as its last job left it, or as a reload does. *)
LEMMA TookLatest ==
    ASSUME Inv, NEW w \in Workers, NEW s \in Sessions, Faithful(w, s), ~ Running(w, s),
           NEW q, NEW x, Took(w, s, q, x)
    PROVE  /\ x \in AsKept(s, latest[s].weights)
           /\ LoadedWeights(local[DirOf[w]][s], s) \in AsKept(s, x)
           /\ q.grads.sum = latest[s].grads /\ q.opt = latest[s].opt
           /\ q.meta.accum = Len(latest[s].grads)
           /\ q.meta.steps = local[DirOf[w]][s].meta.steps
           /\ FP(s) => ~ q.meta.pristine
<1> DEFINE d == local[DirOf[w]][s]
<1>1. Mirrors(d, latest[s], mem[w], remote[s], s)
  BY IdleDisk DEF Faithful
<1>2. d \in OwnBlobSet(s)
  BY LocalOwn
<1>3. CASE mem[w].rt[s] # None /\ q = mem[w].rt[s] /\ x = LiveWeights(mem[w], s)
  BY <1>1, <1>3 DEF Mirrors
<1>4. CASE /\ mem[w].rt[s] = None \/ remote[s].meta # None
           /\ q = LoadedRuntime(Source(w, s)) /\ x = LoadedWeights(Source(w, s), s)
  <2>1. Source(w, s) = d
    BY <1>1 DEF Source, Mirrors, Loadable
  <2> HIDE DEF d
  <2>2. q.grads.sum = GradSum(d.grads) /\ q.opt = d.opt /\ q.meta = d.meta
    BY <1>4, <2>1 DEF LoadedRuntime, GradSum, NoGrads
  <2> QED
    BY <1>1, <1>4, <2>1, <2>2 DEF Mirrors, AsKept, d
<1> QED
  BY <1>3, <1>4 DEF Took

(* A disk once the image's writes are done. *)
Over(image, d) == [b \in Blobs |-> IF b \in Writes(image) THEN image[b] ELSE d[b]]

(* What a saving handler will have written is what it leaves in memory. *)
LEMMA SavedMirrors ==
    ASSUME NEW s \in Sessions, NEW d \in OwnBlobSet(s), NEW r \in OwnRuntime(s),
           NEW y \in OwnWeights(s), NEW m, m.rt[s] = r, LiveWeights(m, s) = y, NEW far,
           NEW disk, disk = Over(ImageOf(s, y, r), d),
           r.opt = None => d.opt = None,
           ~ r.grads.set => GradSum(d.grads) = r.grads.sum,
           r.meta.accum = Len(r.grads.sum), FP(s) => ~ r.meta.pristine
    PROVE  /\ Mirrors(disk, Snapshot(y, r), m, far, s)
           /\ disk.meta = r.meta /\ disk.weights = Stored(s, y)
<1> DEFINE i == ImageOf(s, y, r)
           z == Stored(s, y)
<1>1. /\ i.weights = z /\ i.weights # None /\ i.opt = r.opt /\ i.meta = r.meta /\ i.meta # None
      /\ i.grads = IF r.grads.set THEN GradsToSave(r) ELSE None
      /\ GradsToSave(r) # None /\ Writes(i) = {b \in Blobs : i[b] # None}
  BY ImageFacts
<1>2. r.grads \in OwnGradients(s) /\ r.grads.sum \in Seq({s} \X Nat) /\ r # None
  BY OwnIsNotNone DEF OwnRuntime, OwnGradients, OwnUpdate
<1> HIDE DEF i, z
<1>3. /\ disk.weights = z /\ disk.meta = r.meta
      /\ disk.opt = IF r.opt # None THEN r.opt ELSE d.opt
      /\ disk.grads = IF r.grads.set THEN GradsToSave(r) ELSE d.grads
  BY <1>1 DEF Over, Blobs, i
<1>4. GradSum(disk.grads) = r.grads.sum
  <2>1. CASE r.grads.set /\ r.meta.accum = 0
    <3>1. r.grads.sum = <<>>
      <4> DEFINE g == r.grads.sum
                 S == {s} \X Nat
      <4>1. g \in Seq(S) /\ Len(g) = 0
        BY <1>2, <2>1
      <4> HIDE DEF g, S
      <4>2. g = <<>>
        BY <4>1
      <4> QED
        BY <4>2 DEF g
    <3>2. disk.grads = NoGrads /\ NoGrads # None
      BY <1>1, <1>3, <2>1 DEF GradsToSave
    <3> QED
      BY <3>1, <3>2 DEF GradSum, NoGrads
  <2>2. CASE r.grads.set /\ r.meta.accum # 0
    BY <1>1, <1>3, <2>2 DEF GradSum, GradsToSave
  <2>3. CASE ~ r.grads.set
    BY <1>3, <2>3
  <2> QED
    BY <2>1, <2>2, <2>3
<1>5. disk.opt = r.opt
  BY <1>3
<1>6. Loadable(disk, s) /\ LoadedWeights(disk, s) = z
  BY <1>1, <1>3 DEF Loadable, LoadedWeights
<1>7. y \in AsKept(s, y) /\ z \in AsKept(s, y)
  BY DEF AsKept, z
<1> QED
  BY <1>2, <1>3, <1>4, <1>5, <1>6, <1>7 DEF Mirrors, Snapshot, z

(* The conditions of SavedMirrors, kind by kind. *)
LEMMA DoesSavably ==
    ASSUME NEW s \in Sessions, NEW kind, kind \notin {"custom1", "sample"}, NEW batch, NEW ckpt,
           NEW d, NEW q \in OwnRuntime(s), NEW x \in OwnWeights(s), NEW r \in OwnRuntime(s), NEW y,
           Does(kind, batch, ckpt, q, x, r, y),
           GradSum(d.grads) = q.grads.sum, d.opt = q.opt, q.meta.accum = Len(q.grads.sum),
           kind \in {"load", "restore"} =>
              q.grads.sum = <<>> /\ ckpt.opt # None /\ GradSum(ckpt.grads) = <<>>
    PROVE  /\ r.opt = None => d.opt = None
           /\ ~ r.grads.set => GradSum(d.grads) = r.grads.sum
           /\ r.meta.accum = Len(r.grads.sum)
           /\ r.meta.pristine = q.meta.pristine
<1>1. q.grads.sum \in OwnUpdate(s) /\ q.opt \in MaybeOpt(s)
  BY DEF OwnRuntime, OwnGradients
<1>2. CASE kind \in {"fb", "custom2"}
  <2>1. q.grads.sum \in Seq({s} \X Nat)
    BY <1>1 DEF OwnUpdate
  <2>2. Len(Append(q.grads.sum, batch)) = Len(q.grads.sum) + 1
    BY <2>1
  <2> QED
    BY <1>2, <2>2 DEF Does
<1>3. CASE kind = "save"
  BY <1>3 DEF Does
<1>4. CASE kind = "optim"
  <2> DEFINE old == IF q.opt = None THEN <<>> ELSE q.opt
  <2>1. old \in OwnSteps(s)
    BY <1>1, Empty DEF MaybeOpt
  <2> HIDE DEF old
  <2>2. Append(old, q.grads.sum) \in OwnSteps(s)
    BY <1>1, <2>1 DEF OwnSteps
  <2>3. Append(old, q.grads.sum) # None
    BY <2>2, OwnIsNotNone
  <2>4. r.opt = Append(old, q.grads.sum) /\ r.grads = ZeroGrads /\ r.meta.accum = 0
        /\ r.meta.pristine = q.meta.pristine
    BY <1>4 DEF Does, old
  <2> QED
    BY <2>3, <2>4 DEF ZeroGrads
<1>5. CASE kind \in {"load", "restore"}
  <2>1. /\ r.meta = q.meta
        /\ r.grads = IF kind = "load" \/ ckpt.grads = None THEN NoGrads ELSE ckpt.grads
        /\ r.opt = IF kind = "load" THEN q.opt ELSE ckpt.opt
    BY <1>5 DEF Does
  <2>2. r.grads.sum = <<>>
    BY <1>5, <2>1 DEF GradSum, NoGrads
  <2> QED
    BY <1>5, <2>1, <2>2
<1> QED
  BY <1>2, <1>3, <1>4, <1>5 DEF Does

LEMMA IdleWhenFree ==
    ASSUME NEW s, Free(s) PROVE \A v \in Workers : ~ Running(v, s)
BY DEF Free, Running

LEMMA ServedKept ==
    ASSUME setup' = setup, Calm, KeptInv, NEW w \in Workers, NEW s \in Sessions, Handled(w, s),
           pending' = pending, NEW q, NEW x, NEW r, NEW y, Served(w, s, q, x, r, y)
    PROVE  KeptOf(s)'
<1> DEFINE d == local[DirOf[w]][s]
           now == latest[s]
           kind == pending[s].kind
<1>1. /\ Free(s) /\ UNCHANGED <<local, remote, ckpts, jobs, custom, latest>>
      /\ pending[s] # None
  BY DEF Handled, Free
<1>2. KeptOf(s) /\ Inv /\ \A v \in Workers : v = w /\ ~ Running(v, s)
  BY <1>1, IdleWhenFree DEF KeptInv, Calm
<1>3. latest[s] # None /\ latest[s] \in State /\ ~ Uncreated(s) /\ Faithful(w, s)
  <2>1. latest[s] # None
    BY <1>1, <1>2 DEF Served, KeptOf, Beginning
  <2> QED
    BY <1>2, <2>1 DEF KeptOf, Uncreated, KeptInv, Typed
<1>4. /\ x \in AsKept(s, now.weights) /\ LoadedWeights(d, s) \in AsKept(s, x)
      /\ q.grads.sum = now.grads /\ q.opt = now.opt
      /\ q.meta.accum = Len(now.grads) /\ q.meta.steps = d.meta.steps
      /\ FP(s) => ~ q.meta.pristine
  BY <1>2, <1>3, TookLatest DEF Served
<1>5. Mirrors(d, now, mem[w], remote[s], s) /\ d \in OwnBlobSet(s)
  BY <1>2, <1>3, IdleDisk, LocalOwn DEF Faithful
<1>6. op'[w] # None /\ op'[w].session = s
  BY HandledTyped DEF KeptInv
<1>7. /\ op'[w].before = Snapshot(x, q) /\ op'[w].after = Snapshot(y, r)
      /\ op'[w].image = IF Silent(s) THEN NoBlobs ELSE ImageOf(s, y, r)
      /\ op'[w].left = IF Silent(s) THEN {} ELSE Writes(ImageOf(s, y, r))
      /\ op'[w].publish = (kind = "save")
  BY DEF Served
<1>8. /\ q \in OwnRuntime(s) /\ x \in OwnWeights(s) /\ r \in OwnRuntime(s) /\ y \in OwnWeights(s)
      /\ Does(kind, pending[s].batch, ckpts[s], q, x, r, y) /\ kind # "init"
      /\ mem'[w].rt[s] = r /\ LiveWeights(mem'[w], s) = y
  BY DEF Served, Took
<1>9. Snapshot(x, q) \in Reloaded(s, now)
  <2>1. Snapshot(x, q) = [now EXCEPT !.weights = x]
    BY <1>3, <1>4 DEF Snapshot, State
  <2> QED
    BY <1>3, <1>4, <2>1 DEF Reloaded
<1>10. DirOf' = DirOf /\ Workers' = Workers /\ (FP(s)' <=> FP(s))
  BY SettingKept, SetupKept
<1>11. Current(w, s)' = Snapshot(y, r)
  BY <1>6, <1>7, FaithfulNext
<1> DEFINE disk == [b \in Blobs |-> IF b \in op'[w].left THEN op'[w].image[b] ELSE d[b]]
<1>12. Disk(w, s)' = disk
  BY <1>1, <1>6, FaithfulNext
<1> HIDE DEF d, now
<1>13. /\ Mirrors(disk, Snapshot(y, r), mem'[w], remote[s], s)
       /\ ~ Silent(s) => disk.meta = r.meta /\ disk.weights = Stored(s, y)
  <2>1. CASE Silent(s)
    <3>1. disk = d
      BY <1>5, <1>7, <2>1, BlobsAreFields
    <3>2. y = x /\ r.opt = q.opt /\ r.grads = q.grads /\ r.meta = q.meta
      BY <1>8, <2>1 DEF Silent, Does
    <3>3. /\ Snapshot(y, r).weights = x /\ Snapshot(y, r).grads = now.grads
          /\ Snapshot(y, r).opt = now.opt /\ x \in AsKept(s, x)
      BY <1>4, <3>2 DEF Snapshot, AsKept
    <3>4. FP(s) => (d.meta.pristine => remote[s].meta = None)
      BY <1>5 DEF Mirrors
    <3>5. r # None
      BY <1>8, OwnIsNotNone
    <3> HIDE DEF disk
    <3>6. Mirrors(d, Snapshot(y, r), mem'[w], remote[s], s)
      BY <1>4, <1>5, <1>8, <3>2, <3>3, <3>4, <3>5 DEF Mirrors
    <3> QED
      BY <2>1, <3>1, <3>6
  <2>2. CASE ~ Silent(s)
    <3>1. kind \notin {"custom1", "sample"}
      BY <2>2 DEF Silent
    <3>2. GradSum(d.grads) = q.grads.sum /\ d.opt = q.opt /\ q.meta.accum = Len(q.grads.sum)
      BY <1>4, <1>5 DEF Mirrors
    <3>3. kind \in {"load", "restore"} =>
             q.grads.sum = <<>> /\ ckpts[s].opt # None /\ GradSum(ckpts[s].grads) = <<>>
      <4>1. kind \in {"load", "restore"} => ckpts[s] # None /\ latest[s].grads = <<>>
        BY <1>1, <1>2 DEF Inv, PendingOk, KeptOf, CarefulJob
      <4> QED
        BY <1>2, <1>4, <4>1 DEF KeptOf, CarefulJob, now
    <3> HIDE DEF kind
    <3>4. /\ r.opt = None => d.opt = None
          /\ ~ r.grads.set => GradSum(d.grads) = r.grads.sum
          /\ r.meta.accum = Len(r.grads.sum)
          /\ r.meta.pristine = q.meta.pristine
      BY <1>8, <3>1, <3>2, <3>3, DoesSavably
    <3>5. disk = Over(ImageOf(s, y, r), d)
      BY <1>7, <2>2 DEF Over
    <3> DEFINE n == mem'[w]
               far == remote[s]
    <3>6. n.rt[s] = r /\ LiveWeights(n, s) = y /\ (FP(s) => ~ r.meta.pristine)
      BY <1>4, <1>8, <3>4
    <3> HIDE DEF disk, n, far
    <3>7. /\ Mirrors(disk, Snapshot(y, r), n, far, s)
          /\ disk.meta = r.meta /\ disk.weights = Stored(s, y)
      <4>1. s \in Sessions /\ d \in OwnBlobSet(s) /\ r \in OwnRuntime(s) /\ y \in OwnWeights(s)
        BY <1>5, <1>8
      <4>2. n.rt[s] = r /\ LiveWeights(n, s) = y
        BY <3>6
      <4>3. disk = Over(ImageOf(s, y, r), d)
        BY <3>5
      <4>4. /\ r.opt = None => d.opt = None
            /\ ~ r.grads.set => GradSum(d.grads) = r.grads.sum
            /\ r.meta.accum = Len(r.grads.sum)
            /\ FP(s) => ~ r.meta.pristine
        BY <3>4, <3>6
      <4> QED
        BY ONLY <4>1, <4>2, <4>3, <4>4, SavedMirrors
    <3> QED
      BY <3>7 DEF n, far
  <2> QED
    BY <2>1, <2>2
<1> HIDE DEF disk
<1>14. Faithful(w, s)'
  BY <1>1, <1>11, <1>12, <1>13, FaithfulNext
<1>15. Running(w, s)' /\ ~ Uncreated(s)'
  BY <1>6, <1>10, FaithfulNext DEF Uncreated
<1>16. Beginning(s)'
  BY <1>1, <1>2, <1>15 DEF KeptOf, Beginning
<1>17. op'[w].publish => /\ ckpts[s] = None /\ Snapshot(y, r).grads = <<>>
                         /\ Snapshot(y, r).opt # None /\ (FP(s) => ~ disk.meta.pristine)
                         /\ disk.weights = Stored(s, Snapshot(y, r).weights)
  <2> SUFFICES ASSUME op'[w].publish
               PROVE  /\ ckpts[s] = None /\ Snapshot(y, r).grads = <<>>
                      /\ Snapshot(y, r).opt # None /\ (FP(s) => ~ disk.meta.pristine)
                      /\ disk.weights = Stored(s, Snapshot(y, r).weights)
    OBVIOUS
  <2>1. kind = "save"
    BY <1>7
  <2>2. y = x /\ r.opt = q.opt /\ r.grads = q.grads /\ r.meta = q.meta /\ ~ Silent(s)
    BY <1>8, <2>1 DEF Silent, Does
  <2>3. ckpts[s] = None /\ latest[s].opt # None /\ latest[s].grads = <<>>
    BY <1>1, <1>2, <2>1 DEF KeptOf, CarefulJob
  <2> QED
    BY <1>4, <1>13, <2>2, <2>3 DEF Snapshot, now
<1>18. CarefulJob(s)'
  <2>1. ckpts'[s] # None => ckpts'[s].opt # None /\ GradSum(ckpts'[s].grads) = <<>>
    BY <1>1, <1>2 DEF KeptOf, CarefulJob
  <2>2. pending'[s] # None /\ pending'[s].kind \in {"save", "load", "restore"}
           => latest'[s].grads = <<>>
    BY <1>1, <1>2 DEF KeptOf, CarefulJob
  <2>3. op'[w].before \in Reloaded(s, latest[s])' /\ op'[w].after = Snapshot(y, r)
    BY <1>1, <1>7, <1>9, CarefulNext DEF now
  <2>4. op'[w].publish => Disk(w, s)'.weights = Stored(s, op[w].after.weights)'
    BY <1>12, <1>17, <2>3, SetupKept
  <2> QED
    BY <1>1, <1>2, <1>10, <1>12, <1>15, <1>17, <2>1, <2>2, <2>3, <2>4 DEF CarefulJob
<1> QED
  BY <1>2, <1>10, <1>14, <1>16, <1>18 DEF KeptOf

LEMMA BegunKept ==
    ASSUME setup' = setup, Calm, KeptInv, NEW w \in Workers, NEW s \in Sessions, Handled(w, s),
           pending' = pending, Begun(w, s)
    PROVE  KeptOf(s)'
<1> DEFINE marker == [NoBlobs EXCEPT !.meta = [ZeroMeta EXCEPT !.pristine = TRUE]]
<1>1. /\ Free(s) /\ UNCHANGED <<local, remote, ckpts, jobs, custom, latest>>
      /\ pending[s] # None /\ pending[s].kind = "init"
  BY DEF Handled, Free, Begun
<1>2. KeptOf(s) /\ Inv /\ \A v \in Workers : v = w /\ ~ Running(v, s)
  BY <1>1, IdleWhenFree DEF KeptInv, Calm
<1>3. latest[s] = None /\ remote[s] = NoBlobs /\ ckpts[s] = None /\ local[DirOf[w]][s] = NoBlobs
  <2>1. latest[s] = None
    BY <1>1, <1>2 DEF KeptOf, Beginning
  <2> QED
    BY <1>2, <2>1 DEF KeptOf, Beginning, Uncreated
<1>4. PICK image \in {ImageOf(s, Pristine, FreshRuntime), marker} :
         /\ image.meta.pristine => FP(s)
         /\ op'[w] = [session |-> s, before |-> None, after |-> Snapshot(Pristine, FreshRuntime),
                      image |-> image, left |-> Writes(image), publish |-> FALSE]
  BY DEF Begun
<1>5. op'[w] # None /\ op'[w].session = s
  BY HandledTyped DEF KeptInv
<1>6. /\ op'[w].before = None /\ op'[w].after = Snapshot(Pristine, FreshRuntime)
      /\ op'[w].image = image /\ op'[w].left = Writes(image) /\ op'[w].publish = FALSE
  BY <1>4
<1>7. DirOf' = DirOf /\ Workers' = Workers /\ (FP(s)' <=> FP(s))
  BY SettingKept, SetupKept
<1>8. Current(w, s)' = Snapshot(Pristine, FreshRuntime)
  BY <1>5, <1>6, FaithfulNext
<1> DEFINE disk == [b \in Blobs |-> IF b \in Writes(image) THEN image[b] ELSE NoBlobs[b]]
<1>9. Disk(w, s)' = disk
  BY <1>1, <1>3, <1>5, <1>6, FaithfulNext
<1>10. image.opt = None /\ image.grads = None
       /\ image.weights \in {Stored(s, Pristine), None}
       /\ (image.weights = None => image.meta.pristine) /\ image.meta # None
       /\ image.meta.steps = 0 /\ image.meta.accum = 0
  <2> DEFINE z == [ZeroMeta EXCEPT !.pristine = TRUE]
  <2>1. /\ ZeroMeta # None /\ z # None /\ z.pristine /\ z.steps = 0 /\ z.accum = 0
    <3>1. ZeroMeta \in Meta /\ z \in Meta
      BY DEF ZeroMeta, Meta
    <3> QED
      BY <3>1, NoneAssumption DEF ZeroMeta
  <2>2. CASE image = marker
    <3> HIDE DEF z
    <3>1. marker = [NoBlobs EXCEPT !.meta = z]
      BY DEF marker, z
    <3> HIDE DEF marker
    <3> QED
      BY <2>1, <2>2, <3>1 DEF NoBlobs
  <2>3. CASE image = ImageOf(s, Pristine, FreshRuntime)
    <3>1. /\ ~ FreshRuntime.grads.set /\ FreshRuntime.opt = None
          /\ FreshRuntime.meta = ZeroMeta
      BY DEF FreshRuntime, NoGrads
    <3> HIDE DEF marker
    <3>2. ZeroMeta.steps = 0 /\ ZeroMeta.accum = 0
      BY DEF ZeroMeta
    <3>3. /\ image.opt = None /\ image.grads = None /\ image.weights = Stored(s, Pristine)
          /\ image.meta = ZeroMeta
      BY <2>3, <3>1 DEF ImageOf
    <3>4. Stored(s, Pristine) # None
      BY Empty, StoredIs, OwnIsNotNone
    <3> HIDE DEF z
    <3> QED
      BY <2>1, <3>2, <3>3, <3>4
  <2> QED
    BY <1>4, <2>2, <2>3
<1> HIDE DEF marker
<1>11. /\ disk.opt = None /\ disk.grads = None /\ disk.weights = image.weights
       /\ disk.meta = image.meta
  BY <1>10 DEF Writes, Blobs, NoBlobs
<1> HIDE DEF disk
<1>12. /\ FreshRuntime.grads.sum = <<>> /\ FreshRuntime.opt = None /\ FreshRuntime # None
       /\ FreshRuntime.meta.steps = 0 /\ FreshRuntime.meta.accum = 0
       /\ ~ FreshRuntime.meta.pristine
  BY RecordsOk, OwnIsNotNone DEF FreshRuntime, NoGrads, ZeroMeta
<1>13. mem'[w].rt[s] = FreshRuntime /\ LiveWeights(mem'[w], s) = Pristine
  BY DEF Begun
<1>14. /\ Loadable(disk, s) /\ LoadedWeights(disk, s) \in AsKept(s, Pristine)
       /\ Pristine \in AsKept(s, Pristine)
  <2>1. Stored(s, Pristine) # None
    BY Empty, StoredIs, OwnIsNotNone
  <2> QED
    BY <1>4, <1>10, <1>11, <2>1 DEF Loadable, LoadedWeights, AsKept
<1>15. Mirrors(disk, Snapshot(Pristine, FreshRuntime), mem'[w], remote'[s], s)
  <2> DEFINE fresh == Pristine
  <2> HIDE DEF fresh
  <2> QED
    BY <1>1, <1>3, <1>10, <1>11, <1>12, <1>13, <1>14 DEF Mirrors, Snapshot, GradSum, NoBlobs
<1>16. Faithful(w, s)'
  BY <1>8, <1>9, <1>15, FaithfulNext
<1>17. Running(w, s)' /\ ~ Uncreated(s)'
  BY <1>5, <1>7, FaithfulNext DEF Uncreated
<1>18. Beginning(s)'
  BY <1>1, <1>2, <1>17 DEF KeptOf, Beginning
<1>19. CarefulJob(s)'
  <2>1. op'[w].before \in Reloaded(s, latest[s])'
    BY <1>1, <1>3, <1>6 DEF Reloaded
  <2> QED
    BY <1>1, <1>2, <1>3, <1>6, <1>7, <1>17, <2>1 DEF CarefulJob
<1> QED
  BY <1>2, <1>7, <1>16, <1>18, <1>19 DEF KeptOf

LEMMA RaisedKept ==
    ASSUME setup' = setup, Calm, KeptInv, NEW w \in Workers, NEW s \in Sessions, Handled(w, s),
           Raised(w, s)
    PROVE  KeptOf(s)'
<1>1. /\ Free(s) /\ UNCHANGED <<local, remote, ckpts, jobs, custom, latest>> /\ op' = op
      /\ pending[s] # None /\ pending'[s] \in {pending[s], None}
  BY DEF Handled, Free, Raised, KeptInv, Inv
<1>2. KeptOf(s) /\ Inv /\ \A v \in Workers : v = w /\ ~ Running(v, s)
  BY <1>1, IdleWhenFree DEF KeptInv, Calm
<1>3. DirOf' = DirOf /\ Workers' = Workers /\ (FP(s)' <=> FP(s))
  BY SettingKept, SetupKept
<1>4. /\ \A v \in Workers : ~ Running(v, s)' /\ Disk(v, s)' = Disk(v, s)
                            /\ Current(v, s)' = Current(v, s)
      /\ Uncreated(s)' <=> Uncreated(s)
  <2>1. \A v \in Workers : Running(v, s)' <=> Running(v, s)
    BY <1>1 DEF Running
  <2> QED
    BY <1>1, <1>2, <1>3, <2>1 DEF Disk, Current, Uncreated
<1>5. \/ /\ KeepsOne(mem[w], mem'[w], s)
         /\ mem[w].rt[s] # None => mem'[w].rt[s] # None
      \/ /\ KeepsOne(mem[w], mem'[w], s) /\ latest[s] # None
         /\ FP(s) => ~ Loadable(Source(w, s), s)
      \/ latest[s] # None /\ Took(w, s, mem'[w].rt[s], LiveWeights(mem'[w], s))
  BY <1>1, <1>2 DEF Raised, KeptOf, Beginning
<1>6. CASE Uncreated(s)
  <2>1. KeepsOne(mem[w], mem'[w], s)
    BY <1>5, <1>6 DEF Uncreated
  <2>2. Unknown(mem[w], s) /\ (FP(s) => mem[w].active # s) =>
           Unknown(mem'[w], s) /\ (FP(s) => mem'[w].active # s)
    BY <2>1 DEF KeepsOne, Unknown
  <2>3. Beginning(s)'
    BY <1>1, <1>2, <1>3, <1>4, <1>6, <2>2 DEF KeptOf, Beginning, Unknown
  <2>4. CarefulJob(s)'
    BY <1>1, <1>2, <1>3, <1>4 DEF KeptOf, CarefulJob
  <2> QED
    BY <1>4, <1>6, <2>3, <2>4 DEF KeptOf
<1>7. CASE ~ Uncreated(s)
  <2> DEFINE d == local[DirOf[w]][s]
  <2>1. Faithful(w, s) /\ Mirrors(d, latest[s], mem[w], remote[s], s)
    BY <1>2, <1>7, IdleDisk DEF KeptOf, Faithful
  <2>2. Mirrors(d, latest[s], mem'[w], remote[s], s)
    <3>1. CASE KeepsOne(mem[w], mem'[w], s) /\ (mem[w].rt[s] # None => mem'[w].rt[s] # None)
      BY <2>1, <3>1 DEF Mirrors, KeepsOne
    <3>2. CASE KeepsOne(mem[w], mem'[w], s) /\ (FP(s) => ~ Loadable(Source(w, s), s))
      <4>1. ~ FP(s)
        BY <2>1, <3>2 DEF Mirrors, Source, Loadable
      <4> QED
        BY <2>1, <3>2, <4>1 DEF Mirrors, KeepsOne
    <3>3. CASE Took(w, s, mem'[w].rt[s], LiveWeights(mem'[w], s))
      <4> DEFINE q == mem'[w].rt[s]
                 x == LiveWeights(mem'[w], s)
      <4>1. /\ x \in AsKept(s, latest[s].weights) /\ LoadedWeights(d, s) \in AsKept(s, x)
            /\ q.grads.sum = latest[s].grads /\ q.opt = latest[s].opt
            /\ q.meta.accum = Len(latest[s].grads) /\ q.meta.steps = d.meta.steps
            /\ FP(s) => ~ q.meta.pristine
        BY <1>2, <2>1, <3>3, TookLatest
      <4>2. q # None
        BY <3>3, OwnIsNotNone DEF Took
      <4> HIDE DEF x
      <4> QED
        BY <2>1, <4>1, <4>2 DEF Mirrors, x
    <3> QED
      BY <1>5, <3>1, <3>2, <3>3
  <2>3. Faithful(w, s)'
    BY <1>1, <1>2, <1>4, <2>2, IdleDisk, FaithfulNext
  <2>4. Beginning(s)'
    BY <1>1, <1>2, <1>4, <1>7 DEF KeptOf, Beginning
  <2>5. CarefulJob(s)'
    BY <1>1, <1>2, <1>3, <1>4 DEF KeptOf, CarefulJob
  <2> QED
    BY <1>2, <1>3, <2>3, <2>4, <2>5 DEF KeptOf
<1> QED
  BY <1>6, <1>7

LEMMA StepIsHandled ==
    ASSUME setup' = setup, Calm, KeptInv, NEW w \in Workers, NEW s \in Sessions, HandlerStep(w, s)
    PROVE  Handled(w, s)
<1>1. Inv /\ Steady
  BY DEF KeptInv, Calm, Steady, FP
<1>3. Anchored(mem[w], s)
  BY DEF Anchored, KeptInv, KeptOf, Beginning, Faithful, Mirrors
<1>2. pending[s] # None /\ pending[s].kind = "init" => Unknown(mem[w], s)
  <2> SUFFICES ASSUME pending[s] # None, pending[s].kind = "init" PROVE Unknown(mem[w], s)
    OBVIOUS
  <2>1. Free(s)
    BY <1>1 DEF HandlerStep, InitSession, LoadFails, ForwardBackward, CustomStep1, CustomStep2,
       Sample, OptimStep, SaveWeights, LoadWeights, Fetched, Free
  <2>2. Uncreated(s)
    BY <2>1, IdleWhenFree DEF KeptInv, KeptOf, Beginning, Uncreated
  <2> QED
    BY <2>2 DEF KeptInv, KeptOf, Beginning
<1> QED
  BY <1>1, <1>2, <1>3, HandlerEffect

LEMMA HandlerKept ==
    ASSUME setup' = setup, Calm, KeptInv, NEW w \in Workers, NEW s \in Sessions, HandlerStep(w, s)
    PROVE  KeptInv'
<1>1. Inv /\ Typed
  BY DEF KeptInv
<1>2. Inv'
  BY <1>1, HandlerStepOk
<1>4. Handled(w, s)
  BY StepIsHandled
<1>5. Typed'
  BY <1>1, <1>4, HandledTyped
<1>6. \A t \in Sessions : t # s => KeptOf(t)'
  BY <1>1, <1>4, HandledSame, SameKept DEF KeptInv
<1>7. KeptOf(s)'
  <2>1. CASE Raised(w, s)
    BY <1>4, <2>1, RaisedKept
  <2>2. CASE pending' = pending /\ Begun(w, s)
    BY <1>4, <2>2, BegunKept
  <2>3. ASSUME pending' = pending, NEW q, NEW x, NEW r, NEW y, Served(w, s, q, x, r, y)
        PROVE  KeptOf(s)'
    BY <1>4, <2>3, ServedKept
  <2> QED
    BY <1>4, <2>1, <2>2, <2>3 DEF Handled
<1>8. faults' = faults
  BY <1>4 DEF Handled
<1> QED
  BY <1>2, <1>5, <1>6, <1>7, <1>8 DEF KeptInv
-----------------------------------------------------------------------------
(***************************************************************************)
(* What the steps between a handler and its answer change of the session s *)
(* they are about, on services whose workers have disks of their own.      *)
(***************************************************************************)
DirsApart == \A v, w \in Workers : DirOf[v] = DirOf[w] => v = w

LEMMA RunningFacts ==
    ASSUME Inv, Typed, NEW w \in Workers, op[w] # None, NEW s, s = op[w].session
    PROVE  /\ s \in Sessions /\ Running(w, s) /\ ~ Uncreated(s) /\ pending[s] # None
           /\ \A v \in Workers : Running(v, s) => v = w
           /\ op[w].image \in OwnBlobSet(s) /\ op[w] \in Operation /\ op[w].after \in State
           /\ DirOf[w] \in Dirs /\ local[DirOf[w]][s] \in OwnBlobSet(s)
<1>1. /\ s \in Sessions /\ pending[s] # None /\ op[w].image \in OwnBlobSet(s)
      /\ \A v \in Workers : Running(v, s) => v = w
  BY DEF Inv, OperationOk, Running
<1>2. Running(w, s) /\ ~ Uncreated(s)
  BY DEF Running, Uncreated
<1>3. op[w] \in Operation
  BY DEF Typed
<1>4. op[w].after \in State
  BY <1>3 DEF Operation
<1>5. DirOf[w] \in Dirs
  BY DEF Dirs, Range, Workers
<1> QED
  BY <1>1, <1>2, <1>3, <1>4, <1>5, LocalOwn

LEMMA WriteEffect ==
    ASSUME setup' = setup, Inv, Typed, DirsApart, NEW w \in Workers, NEW b \in Blobs, Write(w, b),
           NEW s, s = op[w].session
    PROVE  /\ UNCHANGED <<mem, remote, ckpts, pending, jobs, custom, latest, faults>>
           /\ \A v \in Workers : (Running(v, s)' <=> Running(v, s)) /\ Disk(v, s)' = Disk(v, s)
           /\ op[w] # None /\ op'[w].before = op[w].before /\ op'[w].after = op[w].after
           /\ op'[w].publish = op[w].publish
           /\ Typed' /\ ~ Uncreated(s)'
           /\ \A t \in Sessions : t # s => Same(t)
<1> DEFINE d == DirOf[w]
           o == [op[w] EXCEPT !.left = @ \ {b}]
<1>1. /\ op[w] # None /\ b \in op[w].left
      /\ local' = [local EXCEPT ![d][s][b] = op[w].image[b]] /\ op' = [op EXCEPT ![w] = o]
      /\ UNCHANGED <<mem, remote, ckpts, pending, jobs, custom, latest, faults>>
  BY DEF Write
<1>2. /\ s \in Sessions /\ Running(w, s) /\ \A v \in Workers : Running(v, s) => v = w
      /\ op[w] \in Operation /\ d \in Dirs /\ local[d][s] \in OwnBlobSet(s)
  BY <1>1, RunningFacts
<1>3. /\ op'[w] = o /\ \A v \in Workers : v # w => op'[v] = op[v]
      /\ \A e \in Dirs, t \in Sessions : t # s \/ e # d => local'[e][t] = local[e][t]
      /\ local'[d][s] = [local[d][s] EXCEPT ![b] = op[w].image[b]]
  BY <1>1, <1>2 DEF Inv
<1>4. /\ o \in Operation /\ o # None /\ o.session = s /\ o.before = op[w].before
      /\ o.after = op[w].after /\ o.image = op[w].image /\ o.publish = op[w].publish
      /\ o.left = op[w].left \ {b}
  <2>1. /\ o \in Operation /\ o.session = s /\ o.before = op[w].before
        /\ o.after = op[w].after /\ o.image = op[w].image /\ o.publish = op[w].publish
        /\ o.left = op[w].left \ {b}
    BY <1>2 DEF Operation
  <2> QED
    BY <2>1, NoneAssumption
<1> HIDE DEF o
<1>5. DirOf' = DirOf /\ Workers' = Workers /\ \A v \in Workers : DirOf[v] \in Dirs
  BY SettingKept DEF Dirs, Range, Workers
<1>6. ASSUME NEW t \in Sessions, t # s PROVE Same(t)
  <2>1. \A v \in Workers : KeepsOne(mem[v], mem'[v], t)
    BY <1>1 DEF KeepsOne
  <2> QED
    BY <1>1, <1>2, <1>3, <1>4, <1>5, <1>6, <2>1 DEF Same
<1>7. \A v \in Workers : Running(v, s)' <=> Running(v, s)
  BY <1>2, <1>3, <1>4 DEF Running
<1>8. ASSUME NEW v \in Workers, v # w PROVE Disk(v, s)' = Disk(v, s)
  <2>1. local'[DirOf[v]][s] = local[DirOf[v]][s] /\ ~ Running(v, s)
    BY <1>2, <1>3, <1>5, <1>8 DEF DirsApart
  <2> QED
    BY <1>5, <1>7, <2>1 DEF Disk
<1>9. Disk(w, s)' = Disk(w, s)
  <2> DEFINE old == local[d][s]
             new == local'[d][s]
             image == op[w].image
             left == op[w].left
  <2>1. /\ Disk(w, s) = [c \in Blobs |-> IF c \in left THEN image[c] ELSE old[c]]
        /\ Disk(w, s)' = [c \in Blobs |-> IF c \in left \ {b} THEN image[c] ELSE new[c]]
    <3>1. /\ op'[w] # None /\ op'[w].session = s
          /\ op'[w].image = image /\ op'[w].left = left \ {b}
      BY <1>3, <1>4
    <3>2. Disk(w, s)' = [c \in Blobs |-> IF c \in op'[w].left THEN op'[w].image[c]
                                        ELSE local'[DirOf[w]][s][c]]
      BY <3>1, FaithfulNext
    <3> QED
      BY <1>2, <3>1, <3>2 DEF Disk
  <2>2. new = [old EXCEPT ![b] = image[b]] /\ DOMAIN old = Blobs
    BY <1>2, <1>3 DEF OwnBlobSet, Blobs
  <2> HIDE DEF old, new, image, left
  <2>3. \A c \in Blobs : (IF c \in left \ {b} THEN image[c] ELSE new[c])
                       = (IF c \in left THEN image[c] ELSE old[c])
    BY <1>1, <2>2 DEF left
  <2> QED
    BY <2>1, <2>3
<1>10. Typed'
  BY <1>1, <1>3, <1>4, <1>5 DEF Typed
<1>11. ~ Uncreated(s)'
  BY <1>2, <1>5, <1>7 DEF Uncreated
<1> QED
  BY <1>1, <1>3, <1>4, <1>6, <1>7, <1>8, <1>9, <1>10, <1>11

LEMMA PublishEffect ==
    ASSUME setup' = setup, Inv, Typed, NEW w \in Workers, Publish(w),
           NEW s, s = op[w].session
    PROVE  /\ UNCHANGED <<mem, local, pending, jobs, custom, latest, faults>>
           /\ \A v \in Workers : (Running(v, s)' <=> Running(v, s)) /\ Disk(v, s)' = Disk(v, s)
           /\ Disk(w, s) = local[DirOf[w]][s] /\ Disk(w, s).weights # None
           /\ remote'[s] = CopiedToRemote(w, s, Blobs)
           /\ ckpts'[s] = Materialized(CopiedToRemote(w, s, Blobs), ckpts[s], Blobs)
           /\ op[w] # None /\ op[w].publish
           /\ op'[w].before = op[w].before /\ op'[w].after = op[w].after /\ ~ op'[w].publish
           /\ Typed' /\ ~ Uncreated(s)'
           /\ \A t \in Sessions : t # s => Same(t)
<1> DEFINE d == local[DirOf[w]][s]
           copied == CopiedToRemote(w, s, Blobs)
           ckpt == Materialized(copied, ckpts[s], Blobs)
           o == [op[w] EXCEPT !.publish = FALSE]
<1>1. /\ op[w] # None /\ op[w].publish /\ op[w].left = {}
      /\ remote' = [remote EXCEPT ![s] = copied] /\ ckpts' = [ckpts EXCEPT ![s] = ckpt]
      /\ op' = [op EXCEPT ![w] = o]
      /\ UNCHANGED <<mem, local, pending, jobs, custom, latest, faults>>
  <2>1. Blobs # {}
    BY DEF Blobs
  <2> QED
    BY <2>1 DEF Publish, Copying, Inv
<1>2. /\ s \in Sessions /\ Running(w, s) /\ \A v \in Workers : Running(v, s) => v = w
      /\ op[w] \in Operation /\ d \in OwnBlobSet(s)
  BY <1>1, RunningFacts
<1> HIDE DEF copied, ckpt
<1>3. /\ op'[w] = o /\ \A v \in Workers : v # w => op'[v] = op[v]
      /\ remote'[s] = copied /\ ckpts'[s] = ckpt
      /\ \A t \in Sessions : t # s => remote'[t] = remote[t] /\ ckpts'[t] = ckpts[t]
  BY <1>1, <1>2 DEF Inv
<1>4. /\ o \in Operation /\ o # None /\ o.session = s /\ o.before = op[w].before
      /\ o.after = op[w].after /\ o.publish = FALSE /\ o.left = {}
  <2>1. /\ o \in Operation /\ o.session = s /\ o.before = op[w].before
        /\ o.after = op[w].after /\ o.publish = FALSE /\ o.left = {}
    BY <1>1, <1>2 DEF Operation
  <2> QED
    BY <2>1, NoneAssumption
<1> HIDE DEF o
<1>5. DirOf' = DirOf /\ Workers' = Workers
  BY SettingKept
<1>6. ASSUME NEW t \in Sessions, t # s PROVE Same(t)
  <2>1. \A v \in Workers : KeepsOne(mem[v], mem'[v], t)
    BY <1>1 DEF KeepsOne
  <2> QED
    BY <1>1, <1>2, <1>3, <1>4, <1>6, <2>1 DEF Same
<1>7. \A v \in Workers : Running(v, s)' <=> Running(v, s)
  BY <1>2, <1>3, <1>4 DEF Running
<1>8. ASSUME NEW v \in Workers, v # w PROVE Disk(v, s)' = Disk(v, s)
  <2>1. ~ Running(v, s) /\ local' = local
    BY <1>1, <1>2, <1>8
  <2> QED
    BY <1>5, <1>7, <2>1 DEF Disk
<1>9. Disk(w, s)' = Disk(w, s) /\ Disk(w, s) = d
  <2>1. [b \in Blobs |-> d[b]] = d
    BY <1>2, BlobsAreFields
  <2>2. op'[w] # None /\ op'[w].session = s /\ op'[w].left = {} /\ op[w].left = {}
        /\ local' = local
    BY <1>1, <1>3, <1>4
  <2>3. Disk(w, s)' = [b \in Blobs |-> local[DirOf[w]][s][b]]
    BY <2>2, FaithfulNext
  <2>4. Disk(w, s) = [b \in Blobs |-> local[DirOf[w]][s][b]]
    BY <2>2 DEF Disk
  <2> QED
    BY <2>1, <2>3, <2>4
<1>10. Typed'
  BY <1>1, <1>3, <1>4, <1>5 DEF Typed
<1>11. ~ Uncreated(s)'
  BY <1>2, <1>5, <1>7 DEF Uncreated
<1>12. d.weights # None
  BY <1>1 DEF Inv, OperationOk
<1> QED
  BY <1>1, <1>3, <1>4, <1>6, <1>7, <1>8, <1>9, <1>10, <1>11, <1>12 DEF copied, ckpt

LEMMA FinishEffect ==
    ASSUME setup' = setup, Inv, Typed, NEW w \in Workers, Finish(w),
           NEW s, s = op[w].session
    PROVE  /\ UNCHANGED <<local, remote, ckpts, jobs, faults>>
           /\ op[w] # None /\ op[w].after \in State
           /\ \A v \in Workers : ~ Running(v, s)' /\ Disk(v, s)' = Disk(v, s)
           /\ Disk(w, s) = local[DirOf[w]][s]
           /\ latest'[s] = op[w].after /\ pending'[s] = None
           /\ custom'[s] = IF pending[s].kind = "custom1" THEN pending[s].batch ELSE custom[s]
           /\ \A v \in Workers, t \in Sessions :
                 /\ KeepsOne(mem[v], mem'[v], t) /\ mem'[v].rt[t] = mem[v].rt[t]
                 /\ LiveWeights(mem'[v], t) = LiveWeights(mem[v], t)
           /\ Typed' /\ ~ Uncreated(s)'
           /\ \A t \in Sessions : t # s => Same(t)
<1> DEFINE d == local[DirOf[w]][s]
           m == [mem[w] EXCEPT !.served[s] = IF @ = 2 THEN 2 ELSE @ + 1]
<1>1. /\ op[w] # None /\ op[w].left = {} /\ op' = [op EXCEPT ![w] = None]
      /\ pending' = [pending EXCEPT ![s] = None]
      /\ latest' = [latest EXCEPT ![s] = op[w].after]
      /\ custom' = [custom EXCEPT ![s] = IF pending[s].kind = "custom1"
                                        THEN pending[s].batch ELSE @]
      /\ mem' = [mem EXCEPT ![w] = m]
      /\ UNCHANGED <<local, remote, ckpts, jobs, faults>>
  BY DEF Finish, Inv
<1>2. /\ s \in Sessions /\ Running(w, s) /\ \A v \in Workers : Running(v, s) => v = w
      /\ op[w].after \in State /\ op[w].after # None /\ d \in OwnBlobSet(s)
  BY <1>1, RunningFacts, StateIsBefore
<1>3. /\ m.rt = mem[w].rt /\ m.adapter = mem[w].adapter /\ m.stash = mem[w].stash
      /\ m.base = mem[w].base /\ m.active = mem[w].active
  BY DEF Inv, MemoryOk, IsMemory
<1> HIDE DEF m
<1>4. /\ mem'[w] = m /\ op'[w] = None
      /\ \A v \in Workers : v # w => op'[v] = op[v] /\ mem'[v] = mem[v]
      /\ \A t \in Sessions : /\ pending'[t] = IF t = s THEN None ELSE pending[t]
                             /\ latest'[t] = IF t = s THEN op[w].after ELSE latest[t]
                             /\ t # s => custom'[t] = custom[t]
      /\ custom'[s] = IF pending[s].kind = "custom1" THEN pending[s].batch ELSE custom[s]
  BY <1>1, <1>2 DEF Inv, Typed
<1>5. DirOf' = DirOf /\ Workers' = Workers
  BY SettingKept
<1>6. \A v \in Workers, t \in Sessions :
         /\ KeepsOne(mem[v], mem'[v], t) /\ mem'[v].rt[t] = mem[v].rt[t]
         /\ LiveWeights(mem'[v], t) = LiveWeights(mem[v], t)
  BY <1>3, <1>4 DEF LiveWeights, KeepsOne
<1>7. ASSUME NEW t \in Sessions, t # s PROVE Same(t)
  BY <1>1, <1>2, <1>4, <1>6, <1>7 DEF Same
<1>8. \A v \in Workers : ~ Running(v, s)'
  BY <1>2, <1>4 DEF Running
<1>9. ASSUME NEW v \in Workers, v # w PROVE Disk(v, s)' = Disk(v, s)
  <2>1. ~ Running(v, s) /\ local' = local
    BY <1>1, <1>2, <1>9
  <2> QED
    BY <1>5, <1>8, <2>1 DEF Disk
<1>10. Disk(w, s)' = d /\ Disk(w, s) = d
  <2>1. [b \in Blobs |-> d[b]] = d
    BY <1>2, BlobsAreFields
  <2>2. Disk(w, s)' = [b \in Blobs |-> local'[DirOf[w]][s][b]]
    BY <1>4, FaithfulNext
  <2>3. Disk(w, s) = [b \in Blobs |-> local[DirOf[w]][s][b]]
    BY <1>1 DEF Disk
  <2> QED
    BY <1>1, <2>1, <2>2, <2>3
<1>11. Typed'
  BY <1>2, <1>4, <1>5, <1>1 DEF Typed
<1>12. ~ Uncreated(s)'
  BY <1>2, <1>4, <1>5 DEF Uncreated
<1> QED
  BY <1>1, <1>2, <1>4, <1>6, <1>7, <1>8, <1>9, <1>10, <1>11, <1>12
-----------------------------------------------------------------------------
(* The other steps.  A session's client asks for its next job between two jobs. *)
LEMMA SubmitKept ==
    ASSUME setup' = setup, Calm, KeptInv, NEW s \in Sessions, NEW kind, NEW batch,
           Submit(s, kind, batch), kind = "init" <=> latest[s] = None,
           kind \in {"save", "load", "restore"} => CarefulClient(s, kind),
           \A t \in Sessions : t # s => jobs'[t] = jobs[t] /\ custom'[t] = custom[t],
           Inv'
    PROVE  KeptInv'
<1>1. /\ pending[s] = None /\ UNCHANGED <<mem, local, remote, ckpts, op, latest, faults>>
      /\ \A t \in Sessions : t # s => pending'[t] = pending[t]
      /\ pending'[s] = [kind |-> kind, batch |-> batch]
  BY DEF Submit, KeptInv, Inv
<1>2. Inv /\ Typed /\ KeptOf(s) /\ \A v \in Workers : ~ Running(v, s)
  <2>1. \A v \in Workers : OperationOk(v)
    BY DEF KeptInv, Inv
  <2> QED
    BY <1>1, <2>1 DEF KeptInv, OperationOk, Running
<1>3. Workers' = Workers /\ DirOf' = DirOf /\ (FP(s)' <=> FP(s))
  BY SettingKept, SetupKept
<1>4. ASSUME NEW t \in Sessions, t # s PROVE KeptOf(t)'
  <2>1. \A v \in Workers : KeepsOne(mem[v], mem'[v], t)
    BY <1>1 DEF KeepsOne
  <2>2. Same(t)
    BY <1>1, <1>4, <2>1 DEF Same
  <2> QED
    BY <2>2, SameKept DEF KeptInv
<1>5. /\ \A v \in Workers : /\ ~ Running(v, s)'
                            /\ Disk(v, s)' = Disk(v, s) /\ Current(v, s)' = Current(v, s)
      /\ Uncreated(s)' <=> Uncreated(s)
  <2>1. \A v \in Workers : ~ Running(v, s)'
    BY <1>1, <1>2 DEF Running
  <2> QED
    BY <1>1, <1>2, <1>3, <2>1 DEF Disk, Current, Uncreated
<1>6. KeptOf(s)'
  <2>1. Beginning(s)'
    BY <1>1, <1>2, <1>3, <1>5 DEF KeptOf, Beginning, Unknown
  <2>2. pending'[s].kind = kind
    BY <1>1
  <2>3. CarefulJob(s)'
    BY <1>1, <1>2, <1>3, <1>5, <2>2, CarefulNext DEF KeptOf, CarefulJob, CarefulClient
  <2>4. \A w \in Workers : Faithful(w, s) => Faithful(w, s)'
    BY <1>1, <1>5, FaithfulNext DEF Faithful
  <2> QED
    BY <1>2, <1>3, <1>5, <2>1, <2>3, <2>4 DEF KeptOf
<1>7. Typed'
  BY <1>1, <1>2, <1>3 DEF Typed
<1> QED
  BY <1>1, <1>4, <1>6, <1>7 DEF KeptInv

LEMMA ClientKept ==
    ASSUME setup' = setup, Calm, KeptInv, NEW s \in Sessions, ClientStep(s)
    PROVE  KeptInv'
<1>1. /\ Inv' /\ Careful
      /\ jobs \in [Sessions -> Nat] /\ DOMAIN custom = Sessions /\ Kinds \subseteq JobKinds \ {"init"}
  BY ClientStepOk, SessionAssumption DEF KeptInv, Inv, Calm, Kinds
<1>2. CASE SubmitInit(s)
  BY <1>1, <1>2, SubmitKept DEF SubmitInit
<1>3. ASSUME NEW kind \in JobKinds, SubmitJob(s, kind) PROVE KeptInv'
  <2> DEFINE batch == IF kind = "custom2" THEN custom[s] ELSE <<s, jobs[s] + 1>>
  <2>1. /\ latest[s] # None /\ kind # "init" /\ CarefulClient(s, kind)
        /\ Submit(s, kind, batch)
        /\ \A t \in Sessions : t # s => jobs'[t] = jobs[t] /\ custom'[t] = custom[t]
    BY <1>1, <1>3 DEF SubmitJob
  <2> HIDE DEF batch
  <2> QED
    BY <1>1, <2>1, SubmitKept
<1>4. CASE SubmitSample(s)
  BY <1>1, <1>4, SubmitKept DEF SubmitSample
<1> QED
  BY <1>2, <1>3, <1>4 DEF ClientStep

(* Who runs a job of s, in a service with one worker. *)
LEMMA RunningAlone ==
    ASSUME Calm, KeptInv, NEW w \in Workers, op[w] # None
    PROVE  /\ op[w].session \in Sessions /\ Running(w, op[w].session)
           /\ ~ Uncreated(op[w].session) /\ pending[op[w].session] # None
           /\ KeptOf(op[w].session) /\ Faithful(w, op[w].session)
           /\ \A v \in Workers : v = w
           /\ op[w].image \in OwnBlobSet(op[w].session)
           /\ op[w] \in Operation /\ op[w].after \in State
<1>1. /\ op[w].session \in Sessions /\ pending[op[w].session] # None
      /\ op[w].image \in OwnBlobSet(op[w].session)
  BY DEF KeptInv, Inv, OperationOk
<1>2. Running(w, op[w].session) /\ ~ Uncreated(op[w].session)
  BY DEF Running, Uncreated
<1>3. op[w] \in Operation
  BY DEF KeptInv, Typed
<1>4. op[w].after \in State
  BY <1>3 DEF Operation
<1> QED
  BY <1>1, <1>2, <1>3, <1>4 DEF KeptInv, Calm, KeptOf

LEMMA CalmIsApart == Calm => DirsApart
BY DEF Calm, DirsApart

LEMMA WriteKept ==
    ASSUME setup' = setup, Calm, KeptInv, NEW w \in Workers, NEW b \in Blobs, Write(w, b)
    PROVE  KeptInv'
<1> SUFFICES ASSUME NEW s, s = op[w].session PROVE KeptInv'
  OBVIOUS
<1>1. /\ s \in Sessions /\ Running(w, s) /\ KeptOf(s) /\ Faithful(w, s) /\ ~ Uncreated(s)
      /\ \A v \in Workers : v = w
      /\ Inv' /\ Inv /\ Typed
  BY RunningAlone, WriteOk DEF KeptInv, Write
<1>2. /\ UNCHANGED <<mem, remote, ckpts, pending, jobs, custom, latest, faults>>
      /\ Running(w, s)' /\ Disk(w, s)' = Disk(w, s)
      /\ op[w] # None /\ op'[w].before = op[w].before /\ op'[w].after = op[w].after
      /\ op'[w].publish = op[w].publish
      /\ Typed' /\ ~ Uncreated(s)'
      /\ \A t \in Sessions : t # s => Same(t)
  BY <1>1, CalmIsApart, WriteEffect
<1>3. DirOf' = DirOf /\ Workers' = Workers /\ (FP(s)' <=> FP(s))
  BY SettingKept, SetupKept
<1>4. \A t \in Sessions : t # s => KeptOf(t)'
  BY <1>2, SameKept DEF KeptInv
<1>5. Faithful(w, s)'
  BY <1>1, <1>2, FaithfulNext DEF Faithful, Current
<1>6. Beginning(s)'
  BY <1>1, <1>2 DEF KeptOf, Beginning
<1>7. CarefulJob(s)'
  <2>1. /\ Reloaded(s, latest[s])' = Reloaded(s, latest[s])
        /\ Stored(s, op[w].after.weights)' = Stored(s, op[w].after.weights)
    BY <1>2, CarefulNext
  <2> QED
    BY <1>1, <1>2, <1>3, <2>1 DEF KeptOf, CarefulJob
<1> QED
  BY <1>1, <1>2, <1>3, <1>4, <1>5, <1>6, <1>7 DEF KeptInv, KeptOf

(* A first checkpoint is what the worker's disk holds. *)
LEMMA PublishKept ==
    ASSUME setup' = setup, Calm, KeptInv, NEW w \in Workers, Publish(w)
    PROVE  KeptInv'
<1> SUFFICES ASSUME NEW s, s = op[w].session PROVE KeptInv'
  OBVIOUS
<1> DEFINE d == local[DirOf[w]][s]
<1>1. /\ s \in Sessions /\ Running(w, s) /\ KeptOf(s) /\ Faithful(w, s) /\ ~ Uncreated(s)
      /\ \A v \in Workers : v = w
      /\ Inv' /\ Inv /\ Typed /\ d \in OwnBlobSet(s) /\ d # None
  BY RunningAlone, PublishOk, LocalOwn, OwnBlobsAreNotNone DEF KeptInv, Publish, Copying
<1>2. /\ UNCHANGED <<mem, local, pending, jobs, custom, latest, faults>>
      /\ Running(w, s)' /\ Disk(w, s)' = Disk(w, s) /\ Disk(w, s) = d
      /\ remote'[s] = CopiedToRemote(w, s, Blobs)
      /\ ckpts'[s] = Materialized(CopiedToRemote(w, s, Blobs), ckpts[s], Blobs)
      /\ op[w] # None /\ op[w].publish
      /\ op'[w].before = op[w].before /\ op'[w].after = op[w].after /\ ~ op'[w].publish
      /\ Typed' /\ ~ Uncreated(s)'
      /\ \A t \in Sessions : t # s => Same(t)
  BY <1>1, PublishEffect
<1>3. /\ DirOf' = DirOf /\ Workers' = Workers /\ (FP(s)' <=> FP(s))
      /\ Reloaded(s, latest[s])' = Reloaded(s, latest[s])
  BY <1>2, SettingKept, SetupKept, CarefulNext
<1>4. /\ ckpts[s] = None /\ remote[s] = NoBlobs /\ op[w].before \in Reloaded(s, latest[s])
      /\ op[w].after.grads = <<>> /\ op[w].after.opt # None /\ (FP(s) => ~ d.meta.pristine)
  BY <1>1, <1>2 DEF KeptOf, CarefulJob, Beginning
<1>5. remote'[s] = d /\ ckpts'[s] = d
  <2> DEFINE copied == CopiedToRemote(w, s, Blobs)
  <2>1. [b \in Blobs |-> d[b]] = d
    BY <1>1, BlobsAreFields
  <2>2. copied = d
    <3>1. \A b \in Blobs : remote[s][b] = None
      BY <1>4 DEF NoBlobs, Blobs
    <3>2. copied = [b \in Blobs |-> d[b]]
      BY <3>1 DEF CopiedToRemote
    <3> QED
      BY <2>1, <3>2
  <2> HIDE DEF copied, d
  <2>3. Materialized(copied, ckpts[s], Blobs) = [b \in Blobs |-> d[b]]
    BY <1>4, <2>2 DEF Materialized
  <2> QED
    BY <1>2, <2>1, <2>2, <2>3 DEF copied
<1>6. \A t \in Sessions : t # s => KeptOf(t)'
  BY <1>2, SameKept DEF KeptInv
<1> HIDE DEF d
<1>7. Mirrors(d, op[w].after, mem[w], remote[s], s)
  BY <1>1, <1>2 DEF Faithful, Current
<1>8. Faithful(w, s)'
  <2>1. Mirrors(d, op[w].after, mem'[w], remote'[s], s)
    BY <1>2, <1>4, <1>7 DEF Mirrors
  <2> QED
    BY <1>2, <2>1, FaithfulNext
<1>9. Beginning(s)'
  BY <1>1, <1>2, <1>5 DEF KeptOf, Beginning
<1>10. CarefulJob(s)'
  <2>1. d.opt # None /\ GradSum(d.grads) = <<>>
    BY <1>4, <1>7 DEF Mirrors
  <2> QED
    BY <1>1, <1>2, <1>3, <1>4, <1>5, <2>1 DEF KeptOf, CarefulJob
<1> QED
  BY <1>1, <1>2, <1>3, <1>6, <1>8, <1>9, <1>10 DEF KeptInv, KeptOf

(* The answer: the state the job computed is the session's latest. *)
LEMMA FinishKept ==
    ASSUME setup' = setup, Calm, KeptInv, NEW w \in Workers, Finish(w)
    PROVE  KeptInv'
<1> SUFFICES ASSUME NEW s, s = op[w].session PROVE KeptInv'
  OBVIOUS
<1>1. /\ s \in Sessions /\ Running(w, s) /\ KeptOf(s) /\ Faithful(w, s) /\ ~ Uncreated(s)
      /\ \A v \in Workers : v = w
      /\ Inv' /\ Inv /\ Typed
  BY RunningAlone, FinishOk DEF KeptInv, Finish
<1>2. /\ UNCHANGED <<local, remote, ckpts, jobs, faults>>
      /\ op[w] # None /\ op[w].after \in State
      /\ ~ Running(w, s)' /\ Disk(w, s)' = Disk(w, s)
      /\ latest'[s] = op[w].after /\ pending'[s] = None
      /\ mem'[w].rt[s] = mem[w].rt[s] /\ LiveWeights(mem'[w], s) = LiveWeights(mem[w], s)
      /\ Typed' /\ ~ Uncreated(s)'
      /\ \A t \in Sessions : t # s => Same(t)
  BY <1>1, FinishEffect
<1>3. DirOf' = DirOf /\ Workers' = Workers /\ (FP(s)' <=> FP(s))
  BY SettingKept, SetupKept
<1>4. \A t \in Sessions : t # s => KeptOf(t)'
  BY <1>2, SameKept DEF KeptInv
<1>5. Faithful(w, s)'
  <2>1. Mirrors(Disk(w, s), op[w].after, mem[w], remote[s], s)
    BY <1>1 DEF Faithful, Current
  <2>2. Mirrors(Disk(w, s), op[w].after, mem'[w], remote[s], s)
    BY <1>2, <2>1 DEF Mirrors
  <2>3. ~ (op'[w] # None /\ op'[w].session = s)
    BY <1>2, FaithfulNext
  <2> QED
    BY <1>2, <2>2, <2>3, FaithfulNext
<1>6. Beginning(s)'
  BY <1>1, <1>2 DEF KeptOf, Beginning
<1>7. CarefulJob(s)'
  BY <1>1, <1>2, <1>3 DEF KeptOf, CarefulJob
<1> QED
  BY <1>1, <1>2, <1>3, <1>4, <1>5, <1>6, <1>7 DEF KeptInv, KeptOf

LEMMA KeptInit == Init => KeptInv
<1> SUFFICES ASSUME Init PROVE KeptInv
  OBVIOUS
<1>1. /\ Inv /\ faults = 0 /\ \A w \in Workers : op[w] = None /\ mem[w] = FreshMemory
      /\ latest = [s \in Sessions |-> None]
  BY InitOk DEF Init
<1>2. Typed
  BY <1>1 DEF Typed
<1>3. ASSUME NEW s \in Sessions PROVE KeptOf(s)
  <2>1. \A w \in Workers : /\ ~ Running(w, s) /\ Unknown(mem[w], s)
                           /\ local[DirOf[w]][s] = NoBlobs /\ mem[w].active # s
    <3>1. \A w \in Workers : DirOf[w] \in Dirs
      BY DEF Dirs, Range, Workers
    <3> QED
      BY <1>1, <3>1, NoneAssumption DEF Init, Running, Unknown, FreshMemory
  <2>2. remote[s] = NoBlobs /\ ckpts[s] = None /\ pending[s] = None /\ latest[s] = None
    BY DEF Init
  <2> QED
    BY <2>1, <2>2 DEF KeptOf, Beginning, CarefulJob, Uncreated
<1> QED
  BY <1>1, <1>2, <1>3 DEF KeptInv

LEMMA KeptNext == KeptInv /\ Calm /\ [Next]_vars => KeptInv'
<1> SUFFICES ASSUME KeptInv, Calm, [Next]_vars PROVE KeptInv'
  OBVIOUS
<1>1. CASE UNCHANGED vars
  <2>1. Inv'
    BY <1>1, NextOk DEF KeptInv, Calm
  <2>2. setup' = setup /\ Workers' = Workers
    BY <1>1, SettingKept DEF vars
  <2>3. ASSUME NEW t \in Sessions PROVE KeptOf(t)'
    <3>1. Same(t)
      BY <1>1 DEF vars, Same, KeepsOne
    <3> QED
      BY <2>2, <3>1, SameKept DEF KeptInv
  <2>4. Typed' /\ faults' = 0
    BY <1>1, <2>2 DEF vars, Typed, KeptInv
  <2> QED
    BY <2>1, <2>3, <2>4 DEF KeptInv
<1>2. CASE Next
  <2>1. setup' = setup
    BY <1>2 DEF Next
  <2>2. \A w \in Workers : ~ (Restart(w) \/ WriteFails(w) \/ PublishCut(w) \/ ExtraLost(w))
    BY DEF Restart, WriteFails, PublishCut, ExtraLost, Fault, KeptInv, Calm
  <2> QED
    BY <1>2, <2>1, <2>2, ClientKept, HandlerKept, WriteKept, PublishKept, FinishKept
       DEF Next, Step
<1> QED
  BY <1>1, <1>2

LEMMA KeptIsLossless ==
    ASSUME Calm, KeptInv PROVE DiskMatchesCache /\ RunsOnLatest
<1>1. DiskMatchesCache
  <2> SUFFICES ASSUME NEW w \in Workers, NEW s \in Cached(mem[w]), ~ InFlight(s)
               PROVE  LET disk == local[DirOf[w]][s]
                          r == mem[w].rt[s]
                          again == LoadedRuntime(disk)
                      IN  /\ Loadable(disk, s)
                          /\ LoadedWeights(disk, s) \in AsKept(s, LiveWeights(mem[w], s))
                          /\ again.grads.sum = r.grads.sum
                          /\ again.opt = r.opt
                          /\ again.meta.steps = r.meta.steps
                          /\ again.meta.accum = r.meta.accum
    BY DEF DiskMatchesCache
  <2> DEFINE disk == local[DirOf[w]][s]
             r == mem[w].rt[s]
             again == LoadedRuntime(disk)
  <2>1. s \in Sessions /\ r # None
    BY DEF Cached
  <2>2. \A v \in Workers : ~ Running(v, s)
    BY DEF InFlight, Running
  <2>3. ~ Uncreated(s)
    BY <2>1 DEF KeptInv, KeptOf, Beginning, Unknown
  <2>4. Mirrors(disk, latest[s], mem[w], remote[s], s)
    BY <2>1, <2>2, <2>3, IdleDisk DEF KeptInv, KeptOf, Faithful
  <2>5. again.grads.sum = GradSum(disk.grads) /\ again.opt = disk.opt /\ again.meta = disk.meta
    BY DEF LoadedRuntime, GradSum, NoGrads
  <2> HIDE DEF disk, again
  <2> QED
    BY <2>1, <2>4, <2>5 DEF Mirrors, disk, again
<1>2. RunsOnLatest
  BY RunningAlone DEF RunsOnLatest, KeptOf, CarefulJob
<1> QED
  BY <1>1, <1>2

(***************************************************************************)
(* Services with one worker that does not fail, no full-parameter session  *)
(* or one that the cache has room to keep, and clients that checkpoint     *)
(* between cycles.  Each condition is one without which the code loses     *)
(* more than the precision of a session's weights (MCSessionGaps.cfg):     *)
(* Handoff, TornWrite, TwoFullParam, FullParamEvicted, LoadBetween,        *)
(* SecondCheckpoint.                                                       *)
(***************************************************************************)
CalmSetups ==
    \A u \in Setups :
        /\ u.careful /\ u.maxFaults = 0
        /\ \A v, w \in DOMAIN u.dirOf : v = w
        /\ \A s, t \in u.fullParam : s = t
        /\ \/ u.fullParam = {}
           \/ IsFiniteSet(Sessions) /\ Cardinality(Sessions) <= u.slots

LEMMA SetupsAreCalm == ASSUME CalmSetups, setup \in Setups PROVE Calm
BY DEF CalmSetups, Calm, Careful, MaxFaults, Workers, DirOf,
   OneFullParam, FP, FullParam, Roomy, MaxSlots

LEMMA AlwaysKept == ASSUME CalmSetups PROVE Spec => [](Calm /\ KeptInv)
<1>1. KeptInv => Calm
  BY SetupsAreCalm DEF KeptInv, Inv
<1>2. KeptInv /\ [Next]_vars => KeptInv'
  BY <1>1, KeptNext
<1> QED
  BY <1>1, <1>2, KeptInit, PTL DEF Spec

(***************************************************************************)
(* Evicting a session between two jobs loses at most the precision of its  *)
(* weights: what a reload would bring back from local disk is what the     *)
(* cache holds, its weights as they are or in the format of the blobs      *)
(* (session_store.py:25, lora_state.py:95).                                *)
(***************************************************************************)
THEOREM EvictionLosesNothing == ASSUME CalmSetups PROVE Spec => []DiskMatchesCache
<1>1. Calm /\ KeptInv => DiskMatchesCache
  BY KeptIsLossless
<1> QED
  BY <1>1, AlwaysKept, PTL

(***************************************************************************)
(* Every job runs on the state the session's previous job left             *)
(* (worker.py:1053), its weights rounded at most once to the format of the *)
(* blobs, however often the session was evicted and reloaded and whatever  *)
(* checkpoints it saved and loaded in between.                             *)
(***************************************************************************)
THEOREM EveryJobRunsOnLatest == ASSUME CalmSetups PROVE Spec => []RunsOnLatest
<1>1. Calm /\ KeptInv => RunsOnLatest
  BY KeptIsLossless
<1> QED
  BY <1>1, AlwaysKept, PTL
-----------------------------------------------------------------------------
(***************************************************************************)
(* Each batch's gradients enter a session once.  Weights and accumulated   *)
(* gradients that are, or may come, together in a runtime hold every batch *)
(* at one place at most: on one worker any copy of the weights with any    *)
(* copy of the gradients, and the weights of the object store, which are   *)
(* those of the first checkpoint for ever, with any gradients anywhere.    *)
(***************************************************************************)
InGrads(g, b) == \E k \in DOMAIN g : g[k] = b
InWeights(W, b) == \E i \in DOMAIN W : InGrads(W[i], b)

Once(W, g) ==
    /\ \A i, k \in DOMAIN W : \A a \in DOMAIN W[i], b \in DOMAIN W[k] :
          W[i][a] = W[k][b] => i = k /\ a = b
    /\ \A a, b \in DOMAIN g : g[a] = g[b] => a = b
    /\ \A i \in DOMAIN W : \A a \in DOMAIN W[i], b \in DOMAIN g : W[i][a] # g[b]

UpdatesIn(weights) == IF weights = None THEN <<>> ELSE weights.steps

WeightsHeld(disk, m, s) ==
    {UpdatesIn(disk.weights)} \cup (IF m.rt[s] = None THEN {} ELSE {LiveWeights(m, s).steps})
GradsHeld(disk, m, s) ==
    {GradSum(disk.grads)} \cup (IF m.rt[s] = None THEN {} ELSE {m.rt[s].grads.sum})
WeightsAt(w, s) == WeightsHeld(Disk(w, s), mem[w], s)
GradsAt(w, s) == GradsHeld(Disk(w, s), mem[w], s)

WeightsShared(far, ckpt) ==
    {UpdatesIn(far.weights)} \cup (IF ckpt = None THEN {} ELSE {UpdatesIn(ckpt.weights)})
GradsShared(far, ckpt) ==
    {GradSum(far.grads)} \cup (IF ckpt = None THEN {} ELSE {GradSum(ckpt.grads)})

Used(s, b) ==
    \/ \E W \in WeightsShared(remote[s], ckpts[s]) : InWeights(W, b)
    \/ \E g \in GradsShared(remote[s], ckpts[s]) : InGrads(g, b)
    \/ \E w \in Workers : \/ \E W \in WeightsAt(w, s) : InWeights(W, b)
                          \/ \E g \in GradsAt(w, s) : InGrads(g, b)

(* The batches the session's client has submitted, and those it may use in a job to come. *)
Issued(s) == {s} \X (1 .. jobs[s])
Unused(s, b) == b \in Issued(s) /\ ~ Used(s, b)

Counts(kind) == kind \in {"fb", "custom2"}

Paired(s) ==
    /\ \A w \in Workers : \A W \in WeightsAt(w, s), g \in GradsAt(w, s) : Once(W, g)
    /\ \A W \in WeightsShared(remote[s], ckpts[s]) :
          /\ \A g \in GradsShared(remote[s], ckpts[s]) : Once(W, g)
          /\ \A w \in Workers : \A g \in GradsAt(w, s) : Once(W, g)

Batched(s) ==
    /\ \A b : Used(s, b) => b \in Issued(s)
    /\ custom[s] # None => Unused(s, custom[s])
    /\ pending[s] # None /\ pending[s].kind \notin {"init", "sample"} =>
          /\ pending[s].batch \in Issued(s)
          /\ custom[s] # None => pending[s].batch # custom[s]
          /\ (\A w \in Workers : ~ Running(w, s)) \/ ~ Counts(pending[s].kind)
                => ~ Used(s, pending[s].batch)

(* Until a checkpoint is published one worker at most knows the session. *)
Occupied(disk, m, s) == disk.meta # None \/ m.rt[s] # None
Published(s) ==
    /\ ckpts[s] = None =>
          /\ remote[s] = NoBlobs
          /\ \A v, w \in Workers : Occupied(Disk(v, s), mem[v], s) /\ Occupied(Disk(w, s), mem[w], s)
                                   => v = w
    /\ ckpts[s] # None => remote[s].weights # None
    /\ \A w \in Workers : Disk(w, s).meta = None => Disk(w, s) = NoBlobs
    /\ Uncreated(s) => \A w \in Workers : Unknown(mem[w], s) /\ local[DirOf[w]][s] = NoBlobs
    /\ pending[s] # None => (pending[s].kind = "init" <=> latest[s] = None)

Answered(s) ==
    /\ latest[s] # None => Once(latest[s].weights.steps, latest[s].grads)
    /\ \A w \in Workers : Running(w, s) => Once(op[w].after.weights.steps, op[w].after.grads)

Counted(s) ==
    /\ Paired(s) /\ Batched(s) /\ Published(s) /\ Answered(s)
    /\ \A w \in Workers : Anchored(mem[w], s)

CountInv ==
    /\ Inv /\ faults \in Nat
    /\ faults = 0 => Typed /\ \A s \in Sessions : Counted(s)

LEMMA OnceAppend ==
    ASSUME NEW S, NEW W, NEW g \in Seq(S), NEW b, Once(W, g), ~ InWeights(W, b), ~ InGrads(g, b)
    PROVE  Once(W, Append(g, b)) /\ \A c : InGrads(Append(g, b), c) => InGrads(g, c) \/ c = b
<1> DEFINE h == Append(g, b)
<1>1. /\ DOMAIN g = 1 .. Len(g) /\ Len(g) \in Nat /\ DOMAIN h = 1 .. Len(g) + 1
      /\ \A k \in DOMAIN g : k \in DOMAIN h /\ h[k] = g[k]
      /\ h[Len(g) + 1] = b
  OBVIOUS
<1>2. \A k \in DOMAIN h : (k \in DOMAIN g /\ h[k] = g[k]) \/ (k = Len(g) + 1 /\ h[k] = b)
  BY <1>1
<1> HIDE DEF h
<1>3. Once(W, h)
  BY <1>1, <1>2 DEF Once, InWeights, InGrads
<1> QED
  BY <1>2, <1>3 DEF InGrads, h

LEMMA OnceStepped ==
    ASSUME NEW S, NEW W \in Seq(S), NEW g, Once(W, g)
    PROVE  /\ Once(Append(W, g), <<>>)
           /\ \A c : InWeights(Append(W, g), c) => InWeights(W, c) \/ InGrads(g, c)
<1> DEFINE V == Append(W, g)
<1>1. /\ DOMAIN W = 1 .. Len(W) /\ Len(W) \in Nat /\ DOMAIN V = 1 .. Len(W) + 1
      /\ \A k \in DOMAIN W : k \in DOMAIN V /\ V[k] = W[k]
      /\ V[Len(W) + 1] = g
  OBVIOUS
<1>2. \A k \in DOMAIN V : (k \in DOMAIN W /\ V[k] = W[k]) \/ (k = Len(W) + 1 /\ V[k] = g)
  BY <1>1
<1>3. DOMAIN <<>> = {}
  OBVIOUS
<1> HIDE DEF V
<1>4. ASSUME NEW i \in DOMAIN V, NEW k \in DOMAIN V, NEW a \in DOMAIN V[i], NEW b \in DOMAIN V[k],
             V[i][a] = V[k][b]
      PROVE  i = k /\ a = b
  BY <1>2, <1>4 DEF Once
<1>5. Once(V, <<>>)
  BY <1>3, <1>4 DEF Once
<1> QED
  BY <1>2, <1>5 DEF InWeights, V

LEMMA OnceEmpty ==
    ASSUME NEW W, NEW g, Once(W, g)
    PROVE  Once(W, <<>>) /\ Once(<<>>, g) /\ \A b : ~ InWeights(<<>>, b) /\ ~ InGrads(<<>>, b)
<1>1. DOMAIN <<>> = {}
  OBVIOUS
<1> QED
  BY <1>1 DEF Once, InWeights, InGrads

(* A step of another session, or one that changes no copy. *)
LEMMA WeightsNext ==
    ASSUME setup' = setup, NEW w, NEW s
    PROVE  /\ WeightsAt(w, s)' = WeightsHeld(Disk(w, s)', mem'[w], s)
           /\ GradsAt(w, s)' = GradsHeld(Disk(w, s)', mem'[w], s)
<1>1. \A t : FP(t)' <=> FP(t)
  BY SetupKept
<1> QED
  BY <1>1 DEF WeightsAt, GradsAt, WeightsHeld, GradsHeld, LiveWeights

LEMMA AnchoredNext ==
    ASSUME setup' = setup, NEW w, NEW s PROVE Anchored(mem[w], s)' <=> Anchored(mem'[w], s)
<1>1. FP(s)' <=> FP(s)
  BY SetupKept
<1> QED
  BY <1>1 DEF Anchored

LEMMA CountedSame ==
    ASSUME setup' = setup, NEW s \in Sessions, Counted(s),
           remote'[s] = remote[s], ckpts'[s] = ckpts[s], jobs'[s] = jobs[s],
           custom'[s] = custom[s], pending'[s] \in {pending[s], None}, latest'[s] = latest[s],
           \A v \in Workers :
              /\ (Running(v, s)' <=> Running(v, s)) /\ Disk(v, s)' = Disk(v, s)
              /\ Running(v, s) => op'[v].after = op[v].after
              /\ KeepsOne(mem[v], mem'[v], s),
           Uncreated(s)' => /\ Uncreated(s)
                            /\ \A v \in Workers : local'[DirOf[v]][s] = local[DirOf[v]][s]
    PROVE  Counted(s)'
<1>1. Workers' = Workers /\ DirOf' = DirOf
  BY SettingKept
<1>2. \A v \in Workers : WeightsAt(v, s)' \subseteq WeightsAt(v, s) /\ GradsAt(v, s)' \subseteq GradsAt(v, s)
  <2> SUFFICES ASSUME NEW v \in Workers
               PROVE  WeightsAt(v, s)' \subseteq WeightsAt(v, s) /\ GradsAt(v, s)' \subseteq GradsAt(v, s)
    OBVIOUS
  <2>1. mem'[v].rt[s] # None => mem'[v].rt[s] = mem[v].rt[s] /\ LiveWeights(mem'[v], s) = LiveWeights(mem[v], s)
    BY DEF KeepsOne
  <2>2. Disk(v, s)' = Disk(v, s)
    OBVIOUS
  <2>3. /\ WeightsAt(v, s)' = WeightsHeld(Disk(v, s), mem'[v], s)
        /\ GradsAt(v, s)' = GradsHeld(Disk(v, s), mem'[v], s)
    BY <2>2, WeightsNext
  <2> QED
    BY <2>1, <2>3 DEF WeightsAt, GradsAt, WeightsHeld, GradsHeld
<1>3. Paired(s)'
  BY <1>1, <1>2 DEF Counted, Paired
<1>4. /\ \A b : Used(s, b)' => Used(s, b)
      /\ Issued(s)' = Issued(s)
  BY <1>1, <1>2 DEF Used, Issued
<1>5. Batched(s)'
  BY <1>1, <1>4 DEF Counted, Batched, Unused
<1>6. Published(s)'
  <2>1. \A v \in Workers : /\ Occupied(Disk(v, s)', mem'[v], s) => Occupied(Disk(v, s), mem[v], s)
                           /\ Unknown(mem[v], s) => Unknown(mem'[v], s)
    BY DEF Occupied, KeepsOne, Unknown
  <2>2. \A v \in Workers : Occupied(Disk(v, s), mem[v], s)' = Occupied(Disk(v, s)', mem'[v], s)
    BY DEF Occupied
  <2>3. \A v \in Workers : Unknown(mem[v], s)' = Unknown(mem'[v], s)
    BY DEF Unknown
  <2> QED
    BY <1>1, <2>1, <2>2, <2>3 DEF Counted, Published
<1>7. Answered(s)'
  BY <1>1 DEF Counted, Answered
<1>8. \A v \in Workers : Anchored(mem'[v], s)
  BY DEF Counted, KeepsOne, Anchored
<1> QED
  BY <1>1, <1>3, <1>5, <1>6, <1>7, <1>8, AnchoredNext DEF Counted

LEMMA SameCounted ==
    ASSUME setup' = setup, NEW t \in Sessions, Same(t), Counted(t)
    PROVE  Counted(t)'
<1>1. /\ \A v \in Workers : (Running(v, t)' <=> Running(v, t)) /\ Disk(v, t)' = Disk(v, t)
      /\ Uncreated(t)' <=> Uncreated(t)
  BY SameOf
<1>2. \A v \in Workers : Running(v, t) => op'[v].after = op[v].after
  BY DEF Same, Running
<1>3. \A v \in Workers : KeepsOne(mem[v], mem'[v], t) /\ local'[DirOf[v]][t] = local[DirOf[v]][t]
  BY DEF Same
<1> QED
  BY <1>1, <1>2, <1>3, CountedSame DEF Same

(* What a handler takes is paired as the copies are. *)
LEMMA TookHeld ==
    ASSUME Inv, NEW w \in Workers, NEW s \in Sessions, Counted(s), ~ Running(w, s),
           NEW q, NEW x, Took(w, s, q, x)
    PROVE  /\ Once(x.steps, q.grads.sum) /\ Once(x.steps, GradSum(local[DirOf[w]][s].grads))
           /\ Once(UpdatesIn(local[DirOf[w]][s].weights), q.grads.sum)
           /\ \A W \in WeightsShared(remote[s], ckpts[s]) :
                 Once(W, q.grads.sum) /\ Once(W, GradSum(local[DirOf[w]][s].grads))
           /\ \A b : InWeights(x.steps, b) \/ InGrads(q.grads.sum, b) => Used(s, b)
           /\ ckpts[s] = None => Occupied(local[DirOf[w]][s], mem[w], s)
<1> DEFINE d == local[DirOf[w]][s]
           far == remote[s]
           SW == WeightsShared(remote[s], ckpts[s])
           SG == GradsShared(remote[s], ckpts[s])
           Wd == UpdatesIn(d.weights)
           gd == GradSum(d.grads)
           g == q.grads.sum
<1>1. Disk(w, s) = d
  BY IdleDisk
<1>2. /\ Wd \in WeightsAt(w, s) /\ gd \in GradsAt(w, s)
      /\ UpdatesIn(far.weights) \in SW /\ GradSum(far.grads) \in SG
  BY <1>1 DEF WeightsAt, GradsAt, WeightsHeld, GradsHeld, WeightsShared, GradsShared
<1>3. /\ \A W \in WeightsAt(w, s), h \in GradsAt(w, s) : Once(W, h)
      /\ \A W \in SW : \A h \in SG : Once(W, h)
      /\ \A W \in SW : \A h \in GradsAt(w, s) : Once(W, h)
  BY DEF Counted, Paired
<1>4. /\ \A W \in WeightsAt(w, s) : \A b : InWeights(W, b) => Used(s, b)
      /\ \A W \in SW : \A b : InWeights(W, b) => Used(s, b)
      /\ \A h \in GradsAt(w, s) : \A b : InGrads(h, b) => Used(s, b)
      /\ \A h \in SG : \A b : InGrads(h, b) => Used(s, b)
  BY DEF Used
<1>5. /\ ckpts[s] = None => far = NoBlobs
      /\ d.meta = None => d = NoBlobs
  BY <1>1 DEF Counted, Published
<1>6. CASE mem[w].rt[s] # None /\ q = mem[w].rt[s] /\ x = LiveWeights(mem[w], s)
  <2>1. x.steps \in WeightsAt(w, s) /\ g \in GradsAt(w, s)
    BY <1>6 DEF WeightsAt, GradsAt, WeightsHeld, GradsHeld
  <2> HIDE DEF d, far, SW, SG, Wd, gd, g
  <2>2. Once(x.steps, g) /\ Once(x.steps, gd) /\ Once(Wd, g) /\ \A W \in SW : Once(W, g) /\ Once(W, gd)
    BY <1>2, <1>3, <2>1
  <2>3. \A b : InWeights(x.steps, b) \/ InGrads(g, b) => Used(s, b)
    BY <1>4, <2>1
  <2> QED
    BY <1>6, <2>2, <2>3 DEF Occupied, d, SW, Wd, gd, g
<1>7. CASE /\ mem[w].rt[s] = None \/ remote[s].meta # None
           /\ Loadable(Source(w, s), s)
           /\ q = LoadedRuntime(Source(w, s)) /\ x = LoadedWeights(Source(w, s), s)
  <2> DEFINE src == Source(w, s)
  <2>1. g = GradSum(src.grads) /\ x.steps \in {<<>>, UpdatesIn(src.weights)} /\ src.meta # None
    BY <1>7 DEF LoadedRuntime, GradSum, NoGrads, LoadedWeights, UpdatesIn, Loadable, Pristine
  <2>2. CASE d.meta # None
    <3>1. src = d
      BY <2>2 DEF Source
    <3> HIDE DEF src, d, far, SW, SG
    <3>2. g = gd /\ x.steps \in {<<>>, Wd}
      BY <2>1, <3>1
    <3> HIDE DEF Wd, gd, g
    <3>3. Once(x.steps, g) /\ Once(x.steps, gd) /\ Once(Wd, g) /\ \A W \in SW : Once(W, g) /\ Once(W, gd)
      BY <1>2, <1>3, <3>2, OnceEmpty
    <3>4. \A b : InWeights(x.steps, b) \/ InGrads(g, b) => Used(s, b)
      BY <1>2, <1>3, <1>4, <3>2, OnceEmpty
    <3> QED
      BY <2>2, <3>3, <3>4 DEF Occupied, d, SW, Wd, gd, g
  <2>3. CASE d.meta = None
    <3>1. src = far /\ d = NoBlobs
      BY <1>5, <2>3 DEF Source
    <3> HIDE DEF src, d, SW, SG
    <3>2. Wd = <<>> /\ gd = <<>>
      BY <3>1 DEF UpdatesIn, GradSum, NoBlobs
    <3>3. ckpts[s] # None
      BY <1>5, <2>1, <3>1 DEF NoBlobs
    <3>4. g = GradSum(far.grads) /\ x.steps \in {<<>>, UpdatesIn(far.weights)}
      BY <2>1, <3>1
    <3> HIDE DEF Wd, gd, g, far
    <3>5. g \in SG
      BY <1>2, <3>4
    <3>6. \A W \in SW : Once(W, g) /\ Once(W, gd)
      BY <1>2, <1>3, <3>5
    <3>7. Once(x.steps, g) /\ Once(Wd, g) /\ Once(x.steps, gd)
      BY <1>2, <3>2, <3>4, <3>6, OnceEmpty
    <3>8. \A b : InWeights(x.steps, b) \/ InGrads(g, b) => Used(s, b)
      BY <1>2, <1>4, <3>4, <3>5, <3>7, OnceEmpty
    <3> QED
      BY <3>3, <3>6, <3>7, <3>8 DEF d, SW, Wd, gd, g
  <2> QED
    BY <2>2, <2>3
<1> QED
  BY <1>6, <1>7 DEF Took

(* What a handler makes of it. *)
Fits(SW, g) == \A W \in SW : Once(W, g)

LEMMA DoesOnce ==
    ASSUME NEW s \in Sessions, NEW kind, NEW batch, NEW ckpt, NEW q \in OwnRuntime(s),
           NEW x \in OwnWeights(s), NEW r, NEW y, Does(kind, batch, ckpt, q, x, r, y),
           NEW SW, NEW gd,
           Once(x.steps, q.grads.sum), Once(x.steps, gd), Fits(SW, q.grads.sum), Fits(SW, gd),
           Counts(kind) => /\ ~ InWeights(x.steps, batch) /\ ~ InGrads(q.grads.sum, batch)
                           /\ \A W \in SW : ~ InWeights(W, batch),
           kind \in {"load", "restore"} =>
              ckpt.weights.steps \in SW /\ \A W \in SW : Once(W, GradSum(ckpt.grads))
    PROVE  /\ Once(y.steps, r.grads.sum) /\ (~ r.grads.set => Once(y.steps, gd))
           /\ \A W \in SW : Once(W, r.grads.sum)
           /\ \A b : InWeights(y.steps, b) =>
                 \/ InWeights(x.steps, b) \/ InGrads(q.grads.sum, b)
                 \/ kind \in {"load", "restore"} /\ InWeights(ckpt.weights.steps, b)
           /\ \A b : InGrads(r.grads.sum, b) =>
                 \/ InGrads(q.grads.sum, b)
                 \/ Counts(kind) /\ b = batch
                 \/ kind = "restore" /\ InGrads(GradSum(ckpt.grads), b)
<1> USE DEF Fits
<1> DEFINE g == q.grads.sum
           h == r.grads.sum
<1>1. g \in Seq({s} \X Nat) /\ x.steps \in Seq(OwnUpdate(s))
  BY DEF OwnRuntime, OwnGradients, OwnUpdate, OwnWeights, OwnSteps
<1>2. CASE kind \in {"fb", "custom2"}
  <2>1. y = x /\ r.grads.set /\ h = Append(g, batch) /\ Counts(kind)
    BY <1>2 DEF Does, Counts
  <2> HIDE DEF g, h
  <2>2. \A W : Once(W, g) /\ ~ InWeights(W, batch) /\ ~ InGrads(g, batch) =>
           Once(W, h) /\ \A c : InGrads(h, c) => InGrads(g, c) \/ c = batch
    BY <1>1, <2>1, OnceAppend
  <2>3. Once(x.steps, g) /\ (\A W \in SW : Once(W, g)) /\ ~ InGrads(g, batch)
        /\ ~ InWeights(x.steps, batch) /\ \A W \in SW : ~ InWeights(W, batch)
    BY <2>1 DEF g
  <2>4. Once(x.steps, h) /\ \A W \in SW : Once(W, h)
    BY <2>2, <2>3
  <2>5. \A c : InGrads(h, c) => InGrads(g, c) \/ c = batch
    BY <2>2, <2>3
  <2> QED
    BY <2>1, <2>4, <2>5 DEF g, h
<1>3. CASE kind \in {"custom1", "sample", "save"}
  <2>1. y = x /\ r.grads = q.grads
    BY <1>3 DEF Does
  <2> QED
    BY <2>1
<1>4. CASE kind = "optim"
  <2>1. y.steps = Append(x.steps, g) /\ r.grads.set /\ h = <<>>
    <3>1. y = Trained(x, g) /\ r.grads = ZeroGrads
      BY <1>4 DEF Does
    <3>2. g \in OwnUpdate(s)
      BY <1>1 DEF OwnUpdate
    <3> QED
      BY <3>1, <3>2, TrainedIs DEF ZeroGrads
  <2> HIDE DEF h, g
  <2>2. Once(x.steps, g) /\ \A W \in SW : Once(W, g)
    BY DEF g
  <2>3. Once(y.steps, h) /\ \A c : InWeights(y.steps, c) => InWeights(x.steps, c) \/ InGrads(g, c)
    BY <1>1, <2>1, <2>2, OnceStepped
  <2>4. (\A W \in SW : Once(W, h)) /\ \A b : ~ InGrads(h, b)
    BY <2>1, <2>2, OnceEmpty
  <2> QED
    BY <2>1, <2>3, <2>4 DEF g, h
<1>5. CASE kind \in {"load", "restore"}
  <2>1. y = ckpt.weights /\ h = IF kind = "load" THEN <<>> ELSE GradSum(ckpt.grads)
    BY <1>5 DEF Does, GradSum, NoGrads
  <2> HIDE DEF h, g
  <2>2. \A W \in SW : Once(W, g) /\ Once(W, gd)
    BY DEF g
  <2>3. \A W \in SW : Once(W, h)
    BY <1>5, <2>1, <2>2, OnceEmpty
  <2>4. \A b : InGrads(h, b) => kind = "restore" /\ InGrads(GradSum(ckpt.grads), b)
    BY <1>5, <2>1, <2>2, OnceEmpty
  <2> QED
    BY <1>5, <2>1, <2>2, <2>3, <2>4 DEF h
<1> QED
  BY <1>2, <1>3, <1>4, <1>5 DEF Does

(* A handler of w is done with s: what its new copies have to satisfy. *)
LEMMA CountedAt ==
    ASSUME setup' = setup, Inv, NEW w \in Workers, NEW s \in Sessions, Counted(s), Handled(w, s),
           ~ Uncreated(s)',
           \A W \in WeightsAt(w, s)' : \A g \in GradsAt(w, s)' : Once(W, g),
           \A W \in WeightsShared(remote[s], ckpts[s]) : \A g \in GradsAt(w, s)' : Once(W, g),
           NEW new \in BOOLEAN, new => Counts(pending[s].kind) /\ Running(w, s)',
           \A W \in WeightsAt(w, s)' : \A b : InWeights(W, b) => Used(s, b) \/ (new /\ b = pending[s].batch),
           \A g \in GradsAt(w, s)' : \A b : InGrads(g, b) => Used(s, b) \/ (new /\ b = pending[s].batch),
           (Disk(w, s)').meta = None => Disk(w, s)' = NoBlobs,
           ckpts[s] = None => \A v \in Workers : v # w => ~ Occupied(Disk(v, s), mem[v], s),
           Running(w, s)' => Once(op'[w].after.weights.steps, op'[w].after.grads),
           mem'[w].rt[s] # None
    PROVE  Counted(s)'
<1>1. Workers' = Workers /\ DirOf' = DirOf
  BY SettingKept
<1>2. /\ UNCHANGED <<local, remote, ckpts, jobs, custom, latest>>
      /\ pending[s] # None /\ pending'[s] \in {pending[s], None}
      /\ \A v \in Workers : ~ Running(v, s) /\ (v # w => mem'[v] = mem[v] /\ op'[v] = op[v])
  <2>1. pending' \in {pending, [pending EXCEPT ![s] = None]} /\ Free(s)
    BY DEF Handled, Raised
  <2>2. s \in DOMAIN pending
    BY DEF Inv
  <2> QED
    BY <2>1, <2>2, IdleWhenFree DEF Handled, Free
<1>3. ASSUME NEW v \in Workers, v # w
      PROVE  /\ ~ Running(v, s)' /\ Disk(v, s)' = Disk(v, s) /\ mem'[v] = mem[v]
             /\ WeightsAt(v, s)' = WeightsAt(v, s) /\ GradsAt(v, s)' = GradsAt(v, s)
  <2>1. ~ Running(v, s)' /\ mem'[v] = mem[v] /\ local' = local
    BY <1>2, <1>3 DEF Running
  <2>2. Disk(v, s)' = Disk(v, s)
    BY <1>1, <1>2, <2>1 DEF Disk
  <2> QED
    BY <2>1, <2>2, WeightsNext DEF WeightsAt, GradsAt
<1>4. Paired(s)'
  <2>1. /\ \A v \in Workers : \A W \in WeightsAt(v, s)' : \A g \in GradsAt(v, s)' : Once(W, g)
        /\ \A W \in WeightsShared(remote[s], ckpts[s]) : \A v \in Workers : \A g \in GradsAt(v, s)' : Once(W, g)
        /\ \A W \in WeightsShared(remote[s], ckpts[s]) : \A g \in GradsShared(remote[s], ckpts[s]) : Once(W, g)
    BY <1>3 DEF Counted, Paired
  <2> QED
    BY <1>1, <1>2, <2>1 DEF Paired
<1>5. \A b : Used(s, b)' => Used(s, b) \/ (new /\ b = pending[s].batch)
  <2> SUFFICES ASSUME NEW b, Used(s, b)' PROVE Used(s, b) \/ (new /\ b = pending[s].batch)
    OBVIOUS
  <2>1. \/ \E W \in WeightsShared(remote[s], ckpts[s]) : InWeights(W, b)
        \/ \E g \in GradsShared(remote[s], ckpts[s]) : InGrads(g, b)
        \/ \E v \in Workers : \/ \E W \in WeightsAt(v, s)' : InWeights(W, b)
                              \/ \E g \in GradsAt(v, s)' : InGrads(g, b)
    BY <1>1, <1>2 DEF Used
  <2> QED
    BY <1>3, <2>1 DEF Used
<1>6. Batched(s)'
  <2>1. /\ \A b : Used(s, b) => b \in Issued(s)
        /\ custom[s] # None => Unused(s, custom[s])
        /\ pending[s].kind \notin {"init", "sample"} =>
              /\ pending[s].batch \in Issued(s)
              /\ custom[s] # None => pending[s].batch # custom[s]
              /\ ~ Used(s, pending[s].batch)
    BY <1>2 DEF Counted, Batched
  <2>2. new => pending[s].kind \notin {"init", "sample"}
    BY DEF Counts
  <2>3. Issued(s)' = Issued(s)
    BY <1>2 DEF Issued
  <2> QED
    BY <1>1, <1>2, <1>5, <2>1, <2>2, <2>3 DEF Batched, Unused
<1>7. Published(s)'
  <2>1. \A v \in Workers : v # w => Occupied(Disk(v, s), mem[v], s)' = Occupied(Disk(v, s), mem[v], s)
    BY <1>3 DEF Occupied
  <2>2. pending'[s] # None => (pending'[s].kind = "init" <=> latest'[s] = None)
    BY <1>2 DEF Counted, Published
  <2>3. \A v \in Workers : (Disk(v, s)').meta = None => Disk(v, s)' = NoBlobs
    BY <1>3 DEF Counted, Published
  <2>4. ckpts'[s] = None => \A v, u \in Workers :
            Occupied(Disk(v, s), mem[v], s)' /\ Occupied(Disk(u, s), mem[u], s)' => v = u
    BY <1>2, <2>1
  <2> QED
    BY <1>1, <1>2, <2>2, <2>3, <2>4 DEF Counted, Published
<1>8. Answered(s)'
  BY <1>1, <1>2, <1>3 DEF Counted, Answered
<1>9. \A v \in Workers : Anchored(mem'[v], s)
  BY <1>3 DEF Counted, Anchored
<1> QED
  BY <1>1, <1>4, <1>6, <1>7, <1>8, <1>9, AnchoredNext DEF Counted

LEMMA OverFields ==
    ASSUME NEW s \in Sessions, NEW d \in OwnBlobSet(s), NEW r \in OwnRuntime(s),
           NEW y \in OwnWeights(s), NEW disk, disk = Over(ImageOf(s, y, r), d)
    PROVE  /\ disk.weights = Stored(s, y) /\ disk.weights # None /\ disk.meta = r.meta /\ r.meta # None
           /\ disk.opt = (IF r.opt # None THEN r.opt ELSE d.opt)
           /\ disk.grads = (IF r.grads.set THEN GradsToSave(r) ELSE d.grads)
           /\ GradsToSave(r) # None
<1> DEFINE i == ImageOf(s, y, r)
<1>1. /\ i.weights = Stored(s, y) /\ i.weights # None /\ i.opt = r.opt /\ i.meta = r.meta /\ i.meta # None
      /\ i.grads = (IF r.grads.set THEN GradsToSave(r) ELSE None)
      /\ GradsToSave(r) # None /\ Writes(i) = {b \in Blobs : i[b] # None}
  BY ImageFacts
<1> HIDE DEF i
<1> QED
  BY <1>1 DEF Over, Blobs, i

(* The copies of the session on w once the job is served. *)
LEMMA ServedHolds ==
    ASSUME setup' = setup, Inv, Typed, NEW w \in Workers, NEW s \in Sessions, Handled(w, s),
           NEW q, NEW x, NEW r, NEW y, Served(w, s, q, x, r, y),
           NEW d, d = local[DirOf[w]][s]
    PROVE  /\ Running(w, s)' /\ op'[w].after.weights = y /\ op'[w].after.grads = r.grads.sum
           /\ Silent(s) => /\ Disk(w, s)' = d
                           /\ WeightsAt(w, s)' = {UpdatesIn(d.weights), y.steps}
                           /\ GradsAt(w, s)' = {GradSum(d.grads), r.grads.sum}
           /\ ~ Silent(s) => /\ (Disk(w, s)').meta # None
                             /\ WeightsAt(w, s)' = {y.steps}
                             /\ \A g \in GradsAt(w, s)' :
                                  g \in {r.grads.sum, <<>>} \/ (~ r.grads.set /\ g = GradSum(d.grads))
<1>1. /\ r \in OwnRuntime(s) /\ y \in OwnWeights(s) /\ r # None /\ y # None
      /\ mem'[w].rt[s] = r /\ LiveWeights(mem'[w], s) = y
      /\ op'[w] # None /\ op'[w].session = s /\ local' = local
  BY HandledTyped, OwnIsNotNone DEF Served, Handled
<1>2. /\ op'[w].after = Snapshot(y, r)
      /\ op'[w].image = IF Silent(s) THEN NoBlobs ELSE ImageOf(s, y, r)
      /\ op'[w].left = IF Silent(s) THEN {} ELSE Writes(ImageOf(s, y, r))
  BY DEF Served
<1>3. Running(w, s)' /\ op'[w].after.weights = y /\ op'[w].after.grads = r.grads.sum
  BY <1>1, <1>2, FaithfulNext DEF Snapshot
<1>4. d \in OwnBlobSet(s)
  BY LocalOwn
<1> DEFINE disk == [b \in Blobs |-> IF b \in op'[w].left THEN op'[w].image[b] ELSE d[b]]
<1>5. Disk(w, s)' = disk
  BY <1>1, FaithfulNext
<1>6. /\ WeightsAt(w, s)' = {UpdatesIn(disk.weights), y.steps}
      /\ GradsAt(w, s)' = {GradSum(disk.grads), r.grads.sum}
  <2> DEFINE m == mem'[w]
  <2>1. m.rt[s] = r /\ LiveWeights(m, s) = y
    BY <1>1
  <2>2. WeightsAt(w, s)' = WeightsHeld(disk, m, s) /\ GradsAt(w, s)' = GradsHeld(disk, m, s)
    BY <1>5, WeightsNext
  <2> HIDE DEF disk, m
  <2> QED
    BY <1>1, <2>1, <2>2 DEF WeightsHeld, GradsHeld
<1>7. ASSUME Silent(s) PROVE disk = d
  <2>1. disk = [b \in Blobs |-> d[b]]
    BY <1>2, <1>7
  <2> QED
    BY <1>4, <2>1, BlobsAreFields
<1>8. ASSUME ~ Silent(s)
      PROVE  /\ UpdatesIn(disk.weights) = y.steps /\ disk.meta # None
             /\ GradSum(disk.grads) \in {r.grads.sum, <<>>}
                \/ (~ r.grads.set /\ GradSum(disk.grads) = GradSum(d.grads))
  <2>1. disk = Over(ImageOf(s, y, r), d)
    BY <1>2, <1>8 DEF Over
  <2> HIDE DEF disk
  <2>2. /\ UpdatesIn(disk.weights) = y.steps /\ disk.meta # None /\ GradsToSave(r) # None
        /\ disk.grads = (IF r.grads.set THEN GradsToSave(r) ELSE d.grads)
    BY <1>1, <1>4, <2>1, OverFields, StoredIs DEF UpdatesIn
  <2>3. GradSum(GradsToSave(r)) \in {r.grads.sum, <<>>}
    BY <2>2 DEF GradSum, GradsToSave, NoGrads
  <2> QED
    BY <2>2, <2>3
<1> HIDE DEF disk
<1> QED
  BY <1>1, <1>3, <1>5, <1>6, <1>7, <1>8

LEMMA ServedCounted ==
    ASSUME setup' = setup, Inv, Typed, NEW w \in Workers, NEW s \in Sessions, Counted(s),
           Handled(w, s), pending' = pending, NEW q, NEW x, NEW r, NEW y, Served(w, s, q, x, r, y)
    PROVE  Counted(s)'
<1> DEFINE d == local[DirOf[w]][s]
           kind == pending[s].kind
           batch == pending[s].batch
           ckpt == ckpts[s]
           SW == WeightsShared(remote[s], ckpts[s])
           gd == GradSum(d.grads)
           Wd == UpdatesIn(d.weights)
           new == Counts(kind)
<1>1. /\ pending[s] # None /\ \A v \in Workers : ~ Running(v, s)
      /\ Disk(w, s) = d
  BY IdleWhenFree, IdleDisk DEF Handled, Free
<1>2. /\ q \in OwnRuntime(s) /\ x \in OwnWeights(s) /\ Took(w, s, q, x)
      /\ Does(kind, batch, ckpt, q, x, r, y)
  BY DEF Served, Took
<1>3. /\ Once(x.steps, q.grads.sum) /\ Once(x.steps, gd) /\ Once(Wd, q.grads.sum)
      /\ \A W \in SW : Once(W, q.grads.sum) /\ Once(W, gd)
      /\ \A b : InWeights(x.steps, b) \/ InGrads(q.grads.sum, b) => Used(s, b)
      /\ ckpts[s] = None => Occupied(d, mem[w], s)
  BY <1>1, <1>2, TookHeld
<1>4. kind \in {"load", "restore"} =>
         /\ ckpt.weights.steps \in SW /\ \A W \in SW : Once(W, GradSum(ckpt.grads))
         /\ \A b : InWeights(ckpt.weights.steps, b) \/ InGrads(GradSum(ckpt.grads), b) => Used(s, b)
  <2> SUFFICES ASSUME kind \in {"load", "restore"}
               PROVE  /\ ckpt.weights.steps \in SW /\ \A W \in SW : Once(W, GradSum(ckpt.grads))
                      /\ \A b : InWeights(ckpt.weights.steps, b) \/ InGrads(GradSum(ckpt.grads), b) => Used(s, b)
    OBVIOUS
  <2>1. ckpt # None /\ ckpt.weights # None
    BY <1>1 DEF Inv, PendingOk, StoresOk
  <2>2. ckpt.weights.steps \in SW /\ GradSum(ckpt.grads) \in GradsShared(remote[s], ckpts[s])
    BY <2>1 DEF WeightsShared, GradsShared, UpdatesIn
  <2> HIDE DEF ckpt
  <2> QED
    BY <2>2 DEF Counted, Paired, Used
<1>5. /\ new => ~ Used(s, batch)
      /\ \A W \in SW : \A b : InWeights(W, b) => Used(s, b)
  BY <1>1 DEF Counted, Batched, Used, Counts
<1>6. /\ Once(Wd, gd) /\ \A b : InWeights(Wd, b) \/ InGrads(gd, b) => Used(s, b)
  <2>1. Wd \in WeightsAt(w, s) /\ gd \in GradsAt(w, s)
    BY <1>1 DEF WeightsAt, GradsAt, WeightsHeld, GradsHeld
  <2> HIDE DEF Wd, gd
  <2> QED
    BY <2>1 DEF Counted, Paired, Used
<1> HIDE DEF kind, batch, ckpt, SW, gd
<1>7. /\ Once(y.steps, r.grads.sum) /\ (~ r.grads.set => Once(y.steps, gd))
      /\ \A W \in SW : Once(W, r.grads.sum)
      /\ \A b : InWeights(y.steps, b) =>
            \/ InWeights(x.steps, b) \/ InGrads(q.grads.sum, b)
            \/ kind \in {"load", "restore"} /\ InWeights(ckpt.weights.steps, b)
      /\ \A b : InGrads(r.grads.sum, b) =>
            \/ InGrads(q.grads.sum, b)
            \/ Counts(kind) /\ b = batch
            \/ kind = "restore" /\ InGrads(GradSum(ckpt.grads), b)
  <2>1. Counts(kind) => /\ ~ InWeights(x.steps, batch) /\ ~ InGrads(q.grads.sum, batch)
                        /\ \A W \in SW : ~ InWeights(W, batch)
    BY <1>3, <1>5
  <2>2. kind \in {"load", "restore"} =>
           ckpt.weights.steps \in SW /\ \A W \in SW : Once(W, GradSum(ckpt.grads))
    BY <1>4
  <2>3. /\ Once(x.steps, q.grads.sum) /\ Once(x.steps, gd)
        /\ Fits(SW, q.grads.sum) /\ Fits(SW, gd)
    BY <1>3 DEF Fits
  <2>4. Does(kind, batch, ckpt, q, x, r, y) /\ q \in OwnRuntime(s) /\ x \in OwnWeights(s)
    BY <1>2
  <2> HIDE DEF new, d, Wd
  <2> QED
    BY <2>1, <2>2, <2>3, <2>4, DoesOnce
<1>8. /\ \A b : InWeights(y.steps, b) => Used(s, b)
      /\ \A b : InGrads(r.grads.sum, b) => Used(s, b) \/ (new /\ b = batch)
  BY <1>3, <1>4, <1>7
<1>9. \A b : ~ InGrads(<<>>, b)
  BY <1>3, OnceEmpty
<1>10. Once(y.steps, <<>>) /\ \A W \in SW : Once(W, <<>>)
  BY <1>3, <1>7, OnceEmpty
<1>11. /\ Running(w, s)' /\ op'[w].after.weights = y /\ op'[w].after.grads = r.grads.sum
       /\ Silent(s) => /\ Disk(w, s)' = d
                       /\ WeightsAt(w, s)' = {Wd, y.steps}
                       /\ GradsAt(w, s)' = {gd, r.grads.sum}
       /\ ~ Silent(s) => /\ (Disk(w, s)').meta # None
                         /\ WeightsAt(w, s)' = {y.steps}
                         /\ \A g \in GradsAt(w, s)' :
                              g \in {r.grads.sum, <<>>} \/ (~ r.grads.set /\ g = gd)
  BY ServedHolds DEF gd
<1>12. Silent(s) => y = x /\ r.grads = q.grads
  BY <1>2 DEF Silent, Does, kind
<1> HIDE DEF Wd
<1>13. \A W \in WeightsAt(w, s)' : \A g \in GradsAt(w, s)' : Once(W, g)
  BY <1>3, <1>6, <1>7, <1>10, <1>11, <1>12
<1>14. \A W \in SW : \A g \in GradsAt(w, s)' : Once(W, g)
  BY <1>3, <1>7, <1>10, <1>11
<1>15. /\ \A W \in WeightsAt(w, s)' : \A b : InWeights(W, b) => Used(s, b) \/ (new /\ b = batch)
       /\ \A g \in GradsAt(w, s)' : \A b : InGrads(g, b) => Used(s, b) \/ (new /\ b = batch)
  BY <1>6, <1>8, <1>9, <1>11
<1>16. (Disk(w, s)').meta = None => Disk(w, s)' = NoBlobs
  BY <1>1, <1>11 DEF Counted, Published
<1>17. ckpts[s] = None => \A v \in Workers : v # w => ~ Occupied(Disk(v, s), mem[v], s)
  BY <1>1, <1>3 DEF Counted, Published
<1>18. ~ Uncreated(s)' /\ Once(op'[w].after.weights.steps, op'[w].after.grads)
       /\ mem'[w].rt[s] # None
  <2>1. Workers' = Workers
    BY SettingKept
  <2> QED
    BY <1>7, <1>11, <2>1, OwnIsNotNone DEF Uncreated, Served
<1> HIDE DEF d
<1>19. new \in BOOLEAN
  BY DEF new, Counts
<1>20. new => Counts(pending[s].kind) /\ Running(w, s)'
  BY <1>11 DEF new, kind
<1> HIDE DEF new
<1> QED
  BY <1>13, <1>14, <1>15, <1>16, <1>17, <1>18, <1>19, <1>20, CountedAt DEF SW, batch

LEMMA RaisedCounted ==
    ASSUME setup' = setup, Inv, NEW w \in Workers, NEW s \in Sessions, Counted(s),
           Handled(w, s), Raised(w, s)
    PROVE  Counted(s)'
<1>1. /\ Free(s) /\ UNCHANGED <<local, remote, ckpts, jobs, custom, latest>> /\ op' = op
      /\ pending[s] # None /\ pending'[s] \in {pending[s], None}
      /\ \A v \in Workers : v # w => mem'[v] = mem[v]
  BY DEF Handled, Free, Raised, Inv
<1>2. \A v \in Workers : ~ Running(v, s)
  BY <1>1, IdleWhenFree
<1>3. DirOf' = DirOf /\ Workers' = Workers
  BY SettingKept
<1>4. /\ \A v \in Workers : ~ Running(v, s)' /\ Disk(v, s)' = Disk(v, s)
      /\ Uncreated(s)' <=> Uncreated(s)
  <2>1. \A v \in Workers : Running(v, s)' <=> Running(v, s)
    BY <1>1 DEF Running
  <2> QED
    BY <1>1, <1>2, <1>3, <2>1 DEF Disk, Uncreated
<1>5. CASE KeepsOne(mem[w], mem'[w], s)
  <2>1. \A v \in Workers : KeepsOne(mem[v], mem'[v], s)
    BY <1>1, <1>5 DEF KeepsOne
  <2>2. \A v \in Workers : local'[DirOf[v]][s] = local[DirOf[v]][s]
    BY <1>1
  <2>3. \A v \in Workers :
           /\ (Running(v, s)' <=> Running(v, s)) /\ Disk(v, s)' = Disk(v, s)
           /\ Running(v, s) => op'[v].after = op[v].after
           /\ KeepsOne(mem[v], mem'[v], s)
    BY <1>2, <1>4, <2>1
  <2> QED
    BY <1>1, <1>4, <2>2, <2>3, CountedSame
<1>6. CASE pending[s].kind # "init" /\ Took(w, s, mem'[w].rt[s], LiveWeights(mem'[w], s))
  <2> DEFINE q == mem'[w].rt[s]
             x == LiveWeights(mem'[w], s)
             d == local[DirOf[w]][s]
             SW == WeightsShared(remote[s], ckpts[s])
             Wd == UpdatesIn(d.weights)
             gd == GradSum(d.grads)
  <2>1. /\ Once(x.steps, q.grads.sum) /\ Once(x.steps, gd) /\ Once(Wd, q.grads.sum)
        /\ \A W \in SW : Once(W, q.grads.sum) /\ Once(W, gd)
        /\ \A b : InWeights(x.steps, b) \/ InGrads(q.grads.sum, b) => Used(s, b)
        /\ ckpts[s] = None => Occupied(d, mem[w], s)
    BY <1>2, <1>6, TookHeld
  <2>2. Disk(w, s) = d
    BY <1>2, IdleDisk
  <2>3. /\ Once(Wd, gd) /\ \A b : InWeights(Wd, b) \/ InGrads(gd, b) => Used(s, b)
    <3>1. Wd \in WeightsAt(w, s) /\ gd \in GradsAt(w, s)
      BY <2>2 DEF WeightsAt, GradsAt, WeightsHeld, GradsHeld
    <3> HIDE DEF Wd, gd
    <3> QED
      BY <3>1 DEF Counted, Paired, Used
  <2>4. WeightsAt(w, s)' = {Wd, x.steps} /\ GradsAt(w, s)' = {gd, q.grads.sum}
    <3>1. q # None
      BY <1>6, OwnIsNotNone DEF Took
    <3>2. /\ WeightsAt(w, s)' = WeightsHeld(Disk(w, s)', mem'[w], s)
          /\ GradsAt(w, s)' = GradsHeld(Disk(w, s)', mem'[w], s)
      BY WeightsNext
    <3>3. Disk(w, s)' = d
      BY <1>4, <2>2
    <3>4. /\ WeightsAt(w, s)' = WeightsHeld(d, mem'[w], s)
          /\ GradsAt(w, s)' = GradsHeld(d, mem'[w], s)
      BY <3>2, <3>3
    <3> QED
      BY <3>1, <3>4 DEF WeightsHeld, GradsHeld
  <2>5. latest[s] # None
    BY <1>1, <1>6 DEF Counted, Published
  <2>6. ~ Uncreated(s)' /\ mem'[w].rt[s] # None
    BY <1>4, <1>6, <2>5, OwnIsNotNone DEF Uncreated, Took
  <2>7. ckpts[s] = None => \A v \in Workers : v # w => ~ Occupied(Disk(v, s), mem[v], s)
    BY <2>1, <2>2 DEF Counted, Published
  <2>8. (Disk(w, s)').meta = None => Disk(w, s)' = NoBlobs
    BY <1>4 DEF Counted, Published
  <2> HIDE DEF q, x, d, Wd, gd, SW
  <2>9. /\ \A W \in WeightsAt(w, s)' : \A g \in GradsAt(w, s)' : Once(W, g)
        /\ \A W \in SW : \A g \in GradsAt(w, s)' : Once(W, g)
        /\ \A W \in WeightsAt(w, s)' : \A b : InWeights(W, b) => Used(s, b)
        /\ \A g \in GradsAt(w, s)' : \A b : InGrads(g, b) => Used(s, b)
    BY <2>1, <2>3, <2>4
  <2> DEFINE new == FALSE
  <2>10. new \in BOOLEAN /\ (new => Counts(pending[s].kind) /\ Running(w, s)')
    OBVIOUS
  <2>11. /\ \A W \in WeightsAt(w, s)' : \A b : InWeights(W, b) => Used(s, b) \/ (new /\ b = pending[s].batch)
         /\ \A g \in GradsAt(w, s)' : \A b : InGrads(g, b) => Used(s, b) \/ (new /\ b = pending[s].batch)
    BY <2>9
  <2> HIDE DEF new
  <2> QED
    BY <1>4, <2>6, <2>7, <2>8, <2>9, <2>10, <2>11, CountedAt DEF SW
<1> QED
  BY <1>5, <1>6 DEF Raised

LEMMA BegunCounted ==
    ASSUME setup' = setup, Inv, Typed, NEW w \in Workers, NEW s \in Sessions, Counted(s),
           Handled(w, s), pending' = pending, Begun(w, s)
    PROVE  Counted(s)'
<1> DEFINE marker == [NoBlobs EXCEPT !.meta = [ZeroMeta EXCEPT !.pristine = TRUE]]
<1>1. /\ Free(s) /\ UNCHANGED <<local, remote, ckpts, jobs, custom, latest>>
      /\ pending[s] # None /\ pending[s].kind = "init"
  BY DEF Handled, Free, Begun
<1>2. \A v \in Workers : ~ Running(v, s)
  BY <1>1, IdleWhenFree
<1>3. \A v \in Workers : /\ Unknown(mem[v], s) /\ local[DirOf[v]][s] = NoBlobs
                         /\ Disk(v, s) = NoBlobs
  <2>1. Uncreated(s)
    BY <1>1, <1>2 DEF Counted, Published, Uncreated
  <2> QED
    BY <1>2, <2>1, IdleDisk DEF Counted, Published
<1>4. PICK image \in {ImageOf(s, Pristine, FreshRuntime), marker} :
         op'[w] = [session |-> s, before |-> None, after |-> Snapshot(Pristine, FreshRuntime),
                   image |-> image, left |-> Writes(image), publish |-> FALSE]
  BY DEF Begun
<1>5. op'[w] # None /\ op'[w].session = s
  BY HandledTyped
<1>6. op'[w].after = Snapshot(Pristine, FreshRuntime) /\ op'[w].image = image
      /\ op'[w].left = Writes(image)
  BY <1>4
<1> DEFINE disk == [b \in Blobs |-> IF b \in Writes(image) THEN image[b] ELSE NoBlobs[b]]
<1>7. Disk(w, s)' = disk
  BY <1>1, <1>3, <1>5, <1>6, FaithfulNext
<1>8. image.grads = None /\ UpdatesIn(image.weights) = <<>> /\ image.meta # None
  <2> DEFINE z == [ZeroMeta EXCEPT !.pristine = TRUE]
  <2>1. ZeroMeta # None /\ z # None
    <3>1. ZeroMeta \in Meta /\ z \in Meta
      BY DEF ZeroMeta, Meta
    <3> QED
      BY <3>1, NoneAssumption
  <2>2. CASE image = marker
    <3> HIDE DEF z
    <3>1. marker = [NoBlobs EXCEPT !.meta = z]
      BY DEF marker, z
    <3> HIDE DEF marker
    <3> QED
      BY <2>1, <2>2, <3>1 DEF NoBlobs, UpdatesIn
  <2>3. CASE image = ImageOf(s, Pristine, FreshRuntime)
    <3>1. ~ FreshRuntime.grads.set /\ FreshRuntime.meta = ZeroMeta
      BY DEF FreshRuntime, NoGrads
    <3>2. Stored(s, Pristine).steps = <<>> /\ Stored(s, Pristine) # None
      BY Empty, StoredIs, OwnIsNotNone DEF Pristine
    <3> HIDE DEF marker, z
    <3> QED
      BY <2>1, <2>3, <3>1, <3>2 DEF ImageOf, UpdatesIn
  <2> HIDE DEF marker, z
  <2> QED
    BY <1>4, <2>2, <2>3
<1> HIDE DEF marker
<1>9. /\ disk.grads = None /\ disk.weights = image.weights /\ disk.meta # None
  BY <1>8 DEF Writes, Blobs, NoBlobs
<1> HIDE DEF disk
<1>10. FreshRuntime # None /\ FreshRuntime.grads.sum = <<>>
  BY RecordsOk, OwnIsNotNone DEF FreshRuntime, NoGrads
<1>11. mem'[w].rt[s] = FreshRuntime /\ LiveWeights(mem'[w], s).steps = <<>>
  BY DEF Begun, Pristine
<1>12. \A W \in WeightsAt(w, s)' : W = <<>>
  <2>1. WeightsAt(w, s)' = WeightsHeld(disk, mem'[w], s)
    BY <1>7, WeightsNext
  <2> QED
    BY <1>8, <1>9, <1>11, <2>1 DEF WeightsHeld
<1>13. \A g \in GradsAt(w, s)' : g = <<>>
  <2>1. GradsAt(w, s)' = GradsHeld(disk, mem'[w], s)
    BY <1>7, WeightsNext
  <2> QED
    BY <1>9, <1>10, <1>11, <2>1 DEF GradsHeld, GradSum
<1>14. /\ Once(<<>>, <<>>) /\ \A b : ~ InWeights(<<>>, b) /\ ~ InGrads(<<>>, b)
       /\ \A W \in WeightsShared(remote[s], ckpts[s]) : Once(W, <<>>)
  <2>1. \A W \in WeightsShared(remote[s], ckpts[s]) : Once(W, GradSum(remote[s].grads))
    BY DEF Counted, Paired, GradsShared
  <2>2. UpdatesIn(remote[s].weights) \in WeightsShared(remote[s], ckpts[s])
    BY DEF WeightsShared
  <2>3. \A W \in WeightsShared(remote[s], ckpts[s]) : Once(W, <<>>)
    BY <2>1, OnceEmpty
  <2>4. Once(<<>>, <<>>) /\ \A b : ~ InWeights(<<>>, b) /\ ~ InGrads(<<>>, b)
    BY <2>2, <2>3, OnceEmpty
  <2> QED
    BY <2>3, <2>4
<1>15. \A v \in Workers : ~ Occupied(Disk(v, s), mem[v], s)
  BY <1>3 DEF Occupied, Unknown, NoBlobs
<1>16. ~ Uncreated(s)'
  <2>1. Workers' = Workers /\ Running(w, s)'
    BY <1>5, SettingKept, FaithfulNext
  <2> QED
    BY <2>1 DEF Uncreated
<1>17. Once(op'[w].after.weights.steps, op'[w].after.grads)
  <2>1. op'[w].after.weights.steps = <<>> /\ op'[w].after.grads = <<>>
    BY <1>6, <1>10 DEF Snapshot, Pristine
  <2> QED
    BY <1>14, <2>1
<1> DEFINE new == FALSE
<1>18. /\ new \in BOOLEAN /\ (new => Counts(pending[s].kind) /\ Running(w, s)')
       /\ \A W \in WeightsAt(w, s)' : \A b : InWeights(W, b) => Used(s, b) \/ (new /\ b = pending[s].batch)
       /\ \A g \in GradsAt(w, s)' : \A b : InGrads(g, b) => Used(s, b) \/ (new /\ b = pending[s].batch)
  BY <1>12, <1>13, <1>14
<1> HIDE DEF new
<1>19. /\ \A W \in WeightsAt(w, s)' : \A g \in GradsAt(w, s)' : Once(W, g)
       /\ \A W \in WeightsShared(remote[s], ckpts[s]) : \A g \in GradsAt(w, s)' : Once(W, g)
  BY <1>12, <1>13, <1>14
<1>20. /\ (Disk(w, s)').meta = None => Disk(w, s)' = NoBlobs
       /\ mem'[w].rt[s] # None
  BY <1>7, <1>9, <1>10, <1>11
<1> QED
  BY <1>15, <1>16, <1>17, <1>18, <1>19, <1>20, CountedAt

LEMMA HandlerCounted ==
    ASSUME setup' = setup, Steady, CountInv, faults = 0,
           NEW w \in Workers, NEW s \in Sessions, HandlerStep(w, s)
    PROVE  CountInv'
<1>1. Inv /\ Typed /\ \A t \in Sessions : Counted(t)
  BY DEF CountInv
<1>2. Inv'
  BY <1>1, HandlerStepOk
<1>3. Anchored(mem[w], s) /\ (pending[s] # None /\ pending[s].kind = "init" => Unknown(mem[w], s))
  <2>0. Anchored(mem[w], s)
    BY <1>1 DEF Counted
  <2> SUFFICES ASSUME pending[s] # None, pending[s].kind = "init" PROVE Unknown(mem[w], s)
    BY <2>0
  <2>1. Free(s)
    BY <1>1 DEF HandlerStep, InitSession, LoadFails, ForwardBackward, CustomStep1, CustomStep2,
       Sample, OptimStep, SaveWeights, LoadWeights, Fetched, Free
  <2>2. Uncreated(s)
    BY <1>1, <2>1, IdleWhenFree DEF Counted, Published, Uncreated
  <2> QED
    BY <1>1, <2>2 DEF Counted, Published
<1>4. Handled(w, s)
  BY <1>1, <1>3, HandlerEffect
<1>5. Typed'
  BY <1>1, <1>4, HandledTyped
<1>6. ASSUME NEW t \in Sessions, t # s PROVE Counted(t)'
  BY <1>1, <1>4, <1>6, HandledSame, SameCounted
<1>7. Counted(s)'
  <2>1. CASE Raised(w, s)
    BY <1>1, <1>4, <2>1, RaisedCounted
  <2>2. CASE pending' = pending /\ Begun(w, s)
    BY <1>1, <1>4, <2>2, BegunCounted
  <2>3. ASSUME pending' = pending, NEW q, NEW x, NEW r, NEW y, Served(w, s, q, x, r, y)
        PROVE  Counted(s)'
    BY <1>1, <1>4, <2>3, ServedCounted
  <2> QED
    BY <1>4, <2>1, <2>2, <2>3 DEF Handled
<1>8. faults' = faults
  BY <1>4 DEF Handled
<1> QED
  BY <1>2, <1>5, <1>6, <1>7, <1>8 DEF CountInv

(* A session's client asks for its next job: a batch of its own, or the one *)
(* an answered custom step1 left.                                           *)
LEMMA SubmitCounted ==
    ASSUME setup' = setup, CountInv, faults = 0, NEW s \in Sessions, NEW kind, NEW batch,
           Submit(s, kind, batch), kind = "init" <=> latest[s] = None,
           jobs'[s] \in {jobs[s], jobs[s] + 1}, custom'[s] \in {custom[s], None},
           kind \notin {"init", "sample"} =>
              /\ jobs'[s] = jobs[s] + 1
              /\ \/ batch = <<s, jobs[s] + 1>>
                 \/ custom[s] # None /\ batch = custom[s] /\ custom'[s] = None,
           \A t \in Sessions : t # s => jobs'[t] = jobs[t] /\ custom'[t] = custom[t],
           Inv'
    PROVE  CountInv'
<1>1. /\ pending[s] = None /\ UNCHANGED <<mem, local, remote, ckpts, op, latest, faults>>
      /\ \A t \in Sessions : t # s => pending'[t] = pending[t]
      /\ pending'[s] = [kind |-> kind, batch |-> batch]
  BY DEF Submit, CountInv, Inv
<1>2. Inv /\ Typed /\ Counted(s) /\ \A v \in Workers : ~ Running(v, s)
  <2>1. \A v \in Workers : OperationOk(v)
    BY DEF CountInv, Inv
  <2> QED
    BY <1>1, <2>1 DEF CountInv, OperationOk, Running
<1>3. Workers' = Workers /\ DirOf' = DirOf
  BY SettingKept
<1>4. ASSUME NEW t \in Sessions, t # s PROVE Counted(t)'
  <2>1. \A v \in Workers : KeepsOne(mem[v], mem'[v], t)
    BY <1>1 DEF KeepsOne
  <2>2. Same(t)
    BY <1>1, <1>4, <2>1 DEF Same
  <2> QED
    BY <2>2, SameCounted DEF CountInv
<1>5. /\ \A v \in Workers : ~ Running(v, s)' /\ Disk(v, s)' = Disk(v, s)
      /\ Uncreated(s)' <=> Uncreated(s)
  <2>1. \A v \in Workers : ~ Running(v, s)'
    BY <1>1, <1>2 DEF Running
  <2> QED
    BY <1>1, <1>2, <1>3, <2>1 DEF Disk, Uncreated
<1>6. \A v \in Workers : WeightsAt(v, s)' = WeightsAt(v, s) /\ GradsAt(v, s)' = GradsAt(v, s)
  BY <1>1, <1>5, WeightsNext DEF WeightsAt, GradsAt
<1>7. Paired(s)'
  BY <1>1, <1>2, <1>3, <1>6 DEF Counted, Paired
<1>8. \A b : Used(s, b)' <=> Used(s, b)
  BY <1>1, <1>3, <1>6 DEF Used
<1>9. /\ \A b : b \in Issued(s) => b \in Issued(s)'
      /\ <<s, jobs[s] + 1>> \notin Issued(s)
      /\ jobs'[s] = jobs[s] + 1 => <<s, jobs[s] + 1>> \in Issued(s)'
  <2>1. jobs[s] \in Nat
    BY <1>2 DEF Inv
  <2>2. Issued(s)' = {s} \X (1 .. jobs'[s]) /\ Issued(s) = {s} \X (1 .. jobs[s])
    BY DEF Issued
  <2> QED
    BY <2>1, <2>2
<1>10. /\ \A b : Used(s, b) => b \in Issued(s)
       /\ custom[s] # None => custom[s] \in Issued(s) /\ ~ Used(s, custom[s])
  BY <1>2 DEF Counted, Batched, Unused
<1>11. Batched(s)'
  <2>1. pending'[s].kind = kind /\ pending'[s].batch = batch
    BY <1>1
  <2>2. \A b : Used(s, b)' => b \in Issued(s)'
    BY <1>8, <1>9, <1>10
  <2>3. custom'[s] # None => custom'[s] \in Issued(s)' /\ ~ Used(s, custom'[s])
    BY <1>9, <1>10
  <2>4. ASSUME kind \notin {"init", "sample"}
        PROVE  /\ batch \in Issued(s)' /\ ~ Used(s, batch)
               /\ custom'[s] # None => batch # custom'[s]
    BY <1>9, <1>10, <2>4
  <2> HIDE DEF Issued
  <2> QED
    BY <1>8, <2>1, <2>2, <2>3, <2>4 DEF Batched, Unused
<1>12. Published(s)'
  <2>1. pending'[s].kind = kind
    BY <1>1
  <2> QED
    BY <1>1, <1>2, <1>3, <1>5, <2>1 DEF Counted, Published, Occupied, Unknown
<1>13. Answered(s)'
  BY <1>1, <1>2, <1>3, <1>5 DEF Counted, Answered
<1>14. Typed'
  BY <1>1, <1>2, <1>3 DEF Typed
<1>15. \A v \in Workers' : Anchored(mem[v], s)'
  BY <1>1, <1>2, <1>3, AnchoredNext DEF Counted
<1> QED
  BY <1>1, <1>4, <1>7, <1>11, <1>12, <1>13, <1>14, <1>15 DEF CountInv, Counted

LEMMA ClientCounted ==
    ASSUME setup' = setup, CountInv, faults = 0, NEW s \in Sessions, ClientStep(s)
    PROVE  CountInv'
<1>1. /\ Inv' /\ Kinds \subseteq JobKinds \ {"init"}
      /\ jobs \in [Sessions -> Nat] /\ DOMAIN custom = Sessions
  BY ClientStepOk, SessionAssumption DEF CountInv, Inv, Kinds
<1>2. CASE SubmitInit(s)
  <2>1. /\ latest[s] = None /\ Submit(s, "init", None)
        /\ jobs'[s] = jobs[s] + 1 /\ custom' = custom
        /\ \A t \in Sessions : t # s => jobs'[t] = jobs[t]
    BY <1>1, <1>2 DEF SubmitInit
  <2> QED
    BY <1>1, <2>1, SubmitCounted
<1>3. ASSUME NEW kind \in JobKinds, SubmitJob(s, kind) PROVE CountInv'
  <2> DEFINE batch == IF kind = "custom2" THEN custom[s] ELSE <<s, jobs[s] + 1>>
  <2>1. /\ latest[s] # None /\ kind # "init" /\ Submit(s, kind, batch)
        /\ jobs'[s] = jobs[s] + 1
        /\ kind = "custom2" => custom[s] # None
        /\ custom'[s] = IF kind = "custom2" THEN None ELSE custom[s]
        /\ \A t \in Sessions : t # s => jobs'[t] = jobs[t] /\ custom'[t] = custom[t]
    BY <1>1, <1>3 DEF SubmitJob
  <2>2. \/ batch = <<s, jobs[s] + 1>>
        \/ custom[s] # None /\ batch = custom[s] /\ custom'[s] = None
    BY <2>1
  <2> HIDE DEF batch
  <2> QED
    BY <1>1, <2>1, <2>2, SubmitCounted
<1>4. CASE SubmitSample(s)
  BY <1>1, <1>4, SubmitCounted DEF SubmitSample
<1> QED
  BY <1>2, <1>3, <1>4 DEF ClientStep

LEMMA WriteCounted ==
    ASSUME setup' = setup, DirsApart, CountInv, faults = 0, NEW w \in Workers, NEW b \in Blobs,
           Write(w, b)
    PROVE  CountInv'
<1> SUFFICES ASSUME NEW s, s = op[w].session PROVE CountInv'
  OBVIOUS
<1>1. Inv /\ Typed /\ (\A t \in Sessions : Counted(t)) /\ Inv' /\ op[w] # None
  BY WriteOk DEF CountInv, Write
<1>2. s \in Sessions /\ \A v \in Workers : Running(v, s) => v = w
  BY <1>1, RunningFacts
<1>3. /\ UNCHANGED <<mem, remote, ckpts, pending, jobs, custom, latest, faults>>
      /\ \A v \in Workers : (Running(v, s)' <=> Running(v, s)) /\ Disk(v, s)' = Disk(v, s)
      /\ op'[w].after = op[w].after /\ Typed' /\ ~ Uncreated(s)'
      /\ \A t \in Sessions : t # s => Same(t)
  BY <1>1, WriteEffect
<1>4. \A t \in Sessions : t # s => Counted(t)'
  BY <1>1, <1>3, SameCounted
<1>5. \A v \in Workers : /\ (Running(v, s)' <=> Running(v, s)) /\ Disk(v, s)' = Disk(v, s)
                         /\ Running(v, s) => op'[v].after = op[v].after
                         /\ KeepsOne(mem[v], mem'[v], s)
  BY <1>2, <1>3 DEF KeepsOne
<1>6. Counted(s)'
  BY <1>1, <1>2, <1>3, <1>5, CountedSame
<1> QED
  BY <1>1, <1>3, <1>4, <1>6 DEF CountInv

(* The object store's weights are those of the first checkpoint. *)
LEMMA PublishCounted ==
    ASSUME setup' = setup, CountInv, faults = 0, NEW w \in Workers, Publish(w)
    PROVE  CountInv'
<1> SUFFICES ASSUME NEW s, s = op[w].session PROVE CountInv'
  OBVIOUS
<1> DEFINE d == local[DirOf[w]][s]
           far == remote[s]
           old == ckpts[s]
           copied == CopiedToRemote(w, s, Blobs)
           ckpt == Materialized(copied, old, Blobs)
           SW == WeightsShared(far, old)
           SG == GradsShared(far, old)
           Wd == UpdatesIn(d.weights)
           gd == GradSum(d.grads)
<1>1. Inv /\ Typed /\ (\A t \in Sessions : Counted(t)) /\ Inv' /\ op[w] # None
  BY PublishOk DEF CountInv, Publish, Copying
<1>2. /\ s \in Sessions /\ \A v \in Workers : Running(v, s) => v = w
      /\ d \in OwnBlobSet(s) /\ far \in OwnBlobSet(s) /\ (old # None => old \in OwnBlobSet(s))
  BY <1>1, RunningFacts DEF Inv, StoresOk
<1>3. /\ UNCHANGED <<mem, local, pending, jobs, custom, latest, faults>>
      /\ \A v \in Workers : (Running(v, s)' <=> Running(v, s)) /\ Disk(v, s)' = Disk(v, s)
      /\ Disk(w, s) = d /\ d.weights # None
      /\ remote'[s] = copied /\ ckpts'[s] = ckpt
      /\ op'[w].after = op[w].after /\ Typed' /\ ~ Uncreated(s)'
      /\ \A t \in Sessions : t # s => Same(t)
  BY <1>1, PublishEffect
<1>4. \A t \in Sessions : t # s => Counted(t)'
  BY <1>1, <1>3, SameCounted
<1>5. Workers' = Workers /\ DirOf' = DirOf
  BY SettingKept
<1>6. /\ copied.weights = IF far.weights # None THEN far.weights ELSE d.weights
      /\ copied.grads = IF far.grads # None THEN far.grads ELSE d.grads
      /\ ckpt.weights = copied.weights /\ copied.weights # None
      /\ ckpt.grads = IF copied.grads = None /\ old # None THEN old.grads ELSE copied.grads
      /\ ckpt \in OwnBlobSet(s)
  <2>1. copied = [b \in Blobs |-> IF far[b] # None THEN far[b] ELSE d[b]]
    BY DEF CopiedToRemote
  <2>2. ckpt = [b \in Blobs |-> IF copied[b] = None /\ old # None THEN old[b] ELSE copied[b]]
    BY DEF Materialized
  <2> HIDE DEF copied, ckpt, d, far, old
  <2>3. /\ copied.weights = IF far.weights # None THEN far.weights ELSE d.weights
        /\ copied.grads = IF far.grads # None THEN far.grads ELSE d.grads
        /\ copied.weights # None
        /\ ckpt.weights = IF copied.weights = None /\ old # None THEN old.weights ELSE copied.weights
        /\ ckpt.grads = IF copied.grads = None /\ old # None THEN old.grads ELSE copied.grads
    BY <1>3, <2>1, <2>2 DEF Blobs
  <2>4. copied \in OwnBlobSet(s)
    BY <1>2, <2>1 DEF OwnBlobSet, Blobs
  <2>5. ckpt \in OwnBlobSet(s)
    BY <1>2, <2>2, <2>4 DEF OwnBlobSet, Blobs
  <2> QED
    BY <2>3, <2>5
<1>7. ckpt # None
  BY <1>2, <1>6, OwnBlobsAreNotNone
<1>8. \A v \in Workers : WeightsAt(v, s)' = WeightsAt(v, s) /\ GradsAt(v, s)' = GradsAt(v, s)
  BY <1>3, WeightsNext DEF WeightsAt, GradsAt
<1>9. Wd \in WeightsAt(w, s) /\ gd \in GradsAt(w, s)
  BY <1>3 DEF WeightsAt, GradsAt, WeightsHeld, GradsHeld
<1> DEFINE SW2 == WeightsShared(copied, ckpt)
           SG2 == GradsShared(copied, ckpt)
<1>10. WeightsShared(remote[s], ckpts[s])' = SW2 /\ GradsShared(remote[s], ckpts[s])' = SG2
  BY <1>3 DEF WeightsShared, GradsShared
<1>11. /\ \A W \in SW : \A g \in SG : Once(W, g)
       /\ \A W \in SW : \A v \in Workers : \A g \in GradsAt(v, s) : Once(W, g)
       /\ \A v \in Workers : \A W \in WeightsAt(v, s) : \A g \in GradsAt(v, s) : Once(W, g)
  BY <1>1, <1>2 DEF Counted, Paired
<1>12. /\ old # None => far.weights # None
       /\ old = None => /\ far = NoBlobs
                        /\ \A u, v \in Workers : Occupied(Disk(u, s), mem[u], s)
                              /\ Occupied(Disk(v, s), mem[v], s) => u = v
       /\ \A v \in Workers : Disk(v, s).meta = None => Disk(v, s) = NoBlobs
  BY <1>1, <1>2 DEF Counted, Published
<1>13. /\ \A W \in SW2 : \A g \in SG2 : Once(W, g)
       /\ \A W \in SW2 : \A v \in Workers : \A g \in GradsAt(v, s) : Once(W, g)
       /\ \A W \in SW2 : W \in SW \/ W = Wd
       /\ \A g \in SG2 : g \in SG \/ g = gd
  <2>1. CASE old # None
    <3>1. UpdatesIn(far.weights) \in SW /\ GradSum(far.grads) \in SG /\ GradSum(old.grads) \in SG
      BY <2>1 DEF WeightsShared, GradsShared
    <3> HIDE DEF SW, SG, copied, ckpt, far, old, d
    <3>2. \A W \in SW2 : W = UpdatesIn(far.weights)
      BY <1>6, <1>12, <2>1 DEF WeightsShared
    <3>3. \A g \in SG2 : g \in {GradSum(far.grads), gd, GradSum(old.grads)}
      BY <1>6, <2>1 DEF GradsShared
    <3> HIDE DEF SW2, SG2, gd
    <3> QED
      BY <1>9, <1>11, <3>1, <3>2, <3>3
  <2>2. CASE old = None
    <3>1. SW2 = {Wd} /\ SG2 = {gd}
      <4>1. far.weights = None /\ far.grads = None
        BY <1>12, <2>2 DEF NoBlobs
      <4> HIDE DEF copied, ckpt, far, old, d
      <4>2. copied.weights = d.weights /\ copied.grads = d.grads
            /\ ckpt.weights = d.weights /\ ckpt.grads = d.grads
        BY <1>6, <2>2, <4>1
      <4> QED
        BY <1>7, <4>2 DEF WeightsShared, GradsShared
    <3>2. ASSUME NEW v \in Workers, v # w, NEW g \in GradsAt(v, s) PROVE g = <<>>
      <4>1. d.meta # None
        BY <1>3, <1>12 DEF NoBlobs
      <4>2. ~ Occupied(Disk(v, s), mem[v], s)
        BY <1>3, <1>12, <2>2, <3>2, <4>1 DEF Occupied
      <4>3. Disk(v, s) = NoBlobs /\ mem[v].rt[s] = None
        BY <1>12, <3>2, <4>2 DEF Occupied
      <4> QED
        BY <3>2, <4>3 DEF GradsAt, GradsHeld, GradSum, NoBlobs
    <3>3. Once(Wd, gd)
      BY <1>9, <1>11
    <3>4. Once(Wd, <<>>)
      BY <3>3, OnceEmpty
    <3> HIDE DEF SW2, SG2, Wd, gd, SW, SG
    <3> QED
      BY <1>9, <1>11, <3>1, <3>2, <3>3, <3>4
  <2> QED
    BY <2>1, <2>2
<1>14. Paired(s)'
  <2> HIDE DEF SW2, SG2
  <2> QED
    BY <1>5, <1>8, <1>10, <1>11, <1>13 DEF Paired
<1>15. \A b : Used(s, b)' => Used(s, b)
  <2> SUFFICES ASSUME NEW b, Used(s, b)' PROVE Used(s, b)
    OBVIOUS
  <2>1. \/ \E W \in SW2 : InWeights(W, b)
        \/ \E g \in SG2 : InGrads(g, b)
        \/ \E v \in Workers : \/ \E W \in WeightsAt(v, s) : InWeights(W, b)
                              \/ \E g \in GradsAt(v, s) : InGrads(g, b)
    BY <1>5, <1>8, <1>10 DEF Used
  <2>2. \/ \E W \in SW : InWeights(W, b)
        \/ \E g \in SG : InGrads(g, b)
        \/ \E v \in Workers : \/ \E W \in WeightsAt(v, s) : InWeights(W, b)
                              \/ \E g \in GradsAt(v, s) : InGrads(g, b)
    <3> HIDE DEF SW, SG, SW2, SG2, Wd, gd
    <3> QED
      BY <1>9, <1>13, <2>1
  <2> QED
    BY <2>2 DEF Used
<1> HIDE DEF SW, SG, SW2, SG2, Wd, gd
<1>16. Batched(s)'
  <2>1. Issued(s)' = Issued(s)
    BY <1>3 DEF Issued
  <2> QED
    BY <1>1, <1>2, <1>3, <1>5, <1>15, <2>1 DEF Counted, Batched, Unused
<1>17. Published(s)'
  <2>1. ckpts'[s] # None /\ remote'[s].weights # None
    BY <1>3, <1>6, <1>7
  <2> QED
    BY <1>1, <1>2, <1>3, <1>5, <2>1 DEF Counted, Published
<1>18. Answered(s)'
  BY <1>1, <1>2, <1>3, <1>5 DEF Counted, Answered
<1>19. \A v \in Workers' : Anchored(mem[v], s)'
  BY <1>1, <1>2, <1>3, <1>5, AnchoredNext DEF Counted
<1> QED
  BY <1>1, <1>3, <1>4, <1>14, <1>16, <1>17, <1>18, <1>19 DEF CountInv, Counted

LEMMA FinishCounted ==
    ASSUME setup' = setup, CountInv, faults = 0, NEW w \in Workers, Finish(w)
    PROVE  CountInv'
<1> SUFFICES ASSUME NEW s, s = op[w].session PROVE CountInv'
  OBVIOUS
<1>1. Inv /\ Typed /\ (\A t \in Sessions : Counted(t)) /\ Inv' /\ op[w] # None
  BY FinishOk DEF CountInv, Finish
<1>2. s \in Sessions /\ Running(w, s) /\ pending[s] # None
  BY <1>1, RunningFacts
<1>3. /\ UNCHANGED <<local, remote, ckpts, jobs, faults>>
      /\ \A v \in Workers : ~ Running(v, s)' /\ Disk(v, s)' = Disk(v, s)
      /\ latest'[s] = op[w].after /\ pending'[s] = None
      /\ custom'[s] = IF pending[s].kind = "custom1" THEN pending[s].batch ELSE custom[s]
      /\ \A v \in Workers : /\ KeepsOne(mem[v], mem'[v], s) /\ mem'[v].rt[s] = mem[v].rt[s]
                            /\ LiveWeights(mem'[v], s) = LiveWeights(mem[v], s)
      /\ Typed' /\ ~ Uncreated(s)'
      /\ \A t \in Sessions : t # s => Same(t)
  BY <1>1, <1>2, FinishEffect
<1>4. \A t \in Sessions : t # s => Counted(t)'
  BY <1>1, <1>3, SameCounted
<1>5. Workers' = Workers /\ DirOf' = DirOf
  BY SettingKept
<1>6. ASSUME NEW v \in Workers
      PROVE  WeightsAt(v, s)' = WeightsAt(v, s) /\ GradsAt(v, s)' = GradsAt(v, s)
  <2>1. /\ WeightsAt(v, s)' = WeightsHeld(Disk(v, s), mem'[v], s)
        /\ GradsAt(v, s)' = GradsHeld(Disk(v, s), mem'[v], s)
    BY <1>3, WeightsNext
  <2>2. /\ WeightsHeld(Disk(v, s), mem'[v], s) = WeightsHeld(Disk(v, s), mem[v], s)
        /\ GradsHeld(Disk(v, s), mem'[v], s) = GradsHeld(Disk(v, s), mem[v], s)
    BY <1>3 DEF WeightsHeld, GradsHeld
  <2> QED
    BY <2>1, <2>2 DEF WeightsAt, GradsAt
<1>7. Paired(s)'
  BY <1>1, <1>2, <1>3, <1>5, <1>6 DEF Counted, Paired
<1>8. \A b : Used(s, b)' <=> Used(s, b)
  BY <1>3, <1>5, <1>6 DEF Used
<1>9. Batched(s)'
  <2>1. Issued(s)' = Issued(s)
    BY <1>3 DEF Issued
  <2>2. /\ \A b : Used(s, b) => b \in Issued(s)
        /\ custom[s] # None => custom[s] \in Issued(s) /\ ~ Used(s, custom[s])
        /\ pending[s].kind = "custom1" => pending[s].batch \in Issued(s) /\ ~ Used(s, pending[s].batch)
    BY <1>1, <1>2 DEF Counted, Batched, Unused, Counts
  <2>3. custom'[s] # None => custom'[s] \in Issued(s) /\ ~ Used(s, custom'[s])
    BY <1>3, <2>2
  <2> QED
    BY <1>3, <1>8, <2>1, <2>2, <2>3 DEF Batched, Unused
<1>10. Published(s)'
  <2>1. \A v \in Workers : Occupied(Disk(v, s), mem[v], s)' <=> Occupied(Disk(v, s), mem[v], s)
    BY <1>3 DEF Occupied
  <2> QED
    BY <1>1, <1>2, <1>3, <1>5, <2>1 DEF Counted, Published
<1>11. Answered(s)'
  <2>1. Once(op[w].after.weights.steps, op[w].after.grads)
    BY <1>1, <1>2 DEF Counted, Answered
  <2> QED
    BY <1>3, <1>5, <2>1 DEF Answered
<1>12. \A v \in Workers' : Anchored(mem[v], s)'
  <2>1. \A v \in Workers : Anchored(mem[v], s) /\ KeepsOne(mem[v], mem'[v], s)
    BY <1>1, <1>2, <1>3 DEF Counted
  <2> QED
    BY <1>5, <2>1, AnchoredNext DEF KeepsOne, Anchored
<1> QED
  BY <1>1, <1>3, <1>4, <1>7, <1>9, <1>10, <1>11, <1>12 DEF CountInv, Counted

LEMMA CountInit == Init => CountInv
<1> SUFFICES ASSUME Init PROVE CountInv
  OBVIOUS
<1>1. /\ Inv /\ faults = 0 /\ \A w \in Workers : op[w] = None /\ mem[w] = FreshMemory
      /\ latest = [s \in Sessions |-> None]
  BY InitOk DEF Init
<1>2. Typed
  BY <1>1 DEF Typed
<1>3. ASSUME NEW s \in Sessions PROVE Counted(s)
  <2>1. \A w \in Workers : /\ ~ Running(w, s) /\ Unknown(mem[w], s)
                           /\ local[DirOf[w]][s] = NoBlobs
    <3>1. \A w \in Workers : DirOf[w] \in Dirs
      BY DEF Dirs, Range, Workers
    <3> QED
      BY <1>1, <3>1 DEF Init, Running, Unknown, FreshMemory
  <2>2. /\ remote[s] = NoBlobs /\ ckpts[s] = None /\ pending[s] = None /\ latest[s] = None
        /\ custom[s] = None
    BY DEF Init
  <2>3. \A w \in Workers : Disk(w, s) = NoBlobs
    BY <1>1, <2>1, IdleDisk
  <2>4. /\ NoBlobs.weights = None /\ NoBlobs.grads = None /\ NoBlobs.meta = None
        /\ UpdatesIn(None) = <<>> /\ GradSum(None) = <<>>
    BY DEF NoBlobs, UpdatesIn, GradSum
  <2>5. /\ \A w \in Workers : WeightsAt(w, s) = {<<>>} /\ GradsAt(w, s) = {<<>>}
        /\ WeightsShared(remote[s], ckpts[s]) = {<<>>} /\ GradsShared(remote[s], ckpts[s]) = {<<>>}
    BY <2>1, <2>2, <2>3, <2>4 DEF WeightsAt, GradsAt, WeightsHeld, GradsHeld, WeightsShared,
       GradsShared, Unknown
  <2>6. Once(<<>>, <<>>) /\ \A b : ~ InWeights(<<>>, b) /\ ~ InGrads(<<>>, b)
    <3>1. DOMAIN <<>> = {}
      OBVIOUS
    <3> QED
      BY <3>1 DEF Once, InWeights, InGrads
  <2>7. Paired(s)
    BY <2>5, <2>6 DEF Paired
  <2>8. Batched(s)
    BY <2>2, <2>5, <2>6 DEF Batched, Used
  <2>9. Published(s)
    BY <2>1, <2>2, <2>3, <2>4 DEF Published, Occupied, Unknown
  <2>10. Answered(s)
    BY <2>1, <2>2 DEF Answered
  <2>11. \A w \in Workers : Anchored(mem[w], s)
    BY <1>1, NoneAssumption DEF Anchored, FreshMemory
  <2> QED
    BY <2>7, <2>8, <2>9, <2>10, <2>11 DEF Counted
<1> QED
  BY <1>1, <1>2, <1>3 DEF CountInv

(* Faults are counted, and nothing uncounts them. *)
LEMMA FaultsCounted ==
    ASSUME Step PROVE faults' = faults \/ faults' = faults + 1
<1>1. ASSUME NEW s \in Sessions, ClientStep(s) PROVE faults' = faults
  BY <1>1 DEF ClientStep, SubmitInit, SubmitJob, SubmitSample, Submit
<1>2. ASSUME NEW w \in Workers, NEW s \in Sessions, HandlerStep(w, s) PROVE faults' = faults
  <2>1. /\ \A before, m, r, image, left, publish :
              Runs(w, s, before, m, r, image, left, publish) => faults' = faults
        /\ \A before, m, r, publish : Saves(w, s, before, m, r, publish) => faults' = faults
        /\ \A before, m, r : Reads(w, s, before, m, r) => faults' = faults
        /\ \A m : Raise(w, s, m) => faults' = faults
    BY DEF Runs, Saves, Reads, Raise
  <2>2. CASE InitSession(w, s)
    BY <2>1, <2>2 DEF InitSession
  <2>3. CASE LoadFails(w, s)
    BY <2>1, <2>3 DEF LoadFails
  <2>4. CASE ForwardBackward(w, s)
    BY <2>1, <2>4 DEF ForwardBackward
  <2>5. CASE CustomStep1(w, s)
    BY <2>1, <2>5 DEF CustomStep1
  <2>6. CASE CustomStep2(w, s)
    BY <2>1, <2>6 DEF CustomStep2
  <2>7. CASE Sample(w, s)
    BY <2>1, <2>7 DEF Sample
  <2>8. CASE OptimStep(w, s)
    BY <2>1, <2>8 DEF OptimStep
  <2>9. CASE SaveWeights(w, s)
    BY <2>1, <2>9 DEF SaveWeights
  <2>10. ASSUME NEW kind, LoadWeights(w, s, kind) PROVE faults' = faults
    BY <2>1, <2>10 DEF LoadWeights
  <2> QED
    BY <1>2, <2>2, <2>3, <2>4, <2>5, <2>6, <2>7, <2>8, <2>9, <2>10 DEF HandlerStep
<1> QED
  BY <1>1, <1>2 DEF Step, Write, Publish, Finish, Restart, WriteFails, PublishCut, ExtraLost, Fault

LEMMA CountNext == CountInv /\ Steady /\ DirsApart /\ [Next]_vars => CountInv'
<1> SUFFICES ASSUME CountInv, Steady, DirsApart, [Next]_vars PROVE CountInv'
  OBVIOUS
<1>1. Inv'
  BY NextOk DEF CountInv
<1>2. CASE UNCHANGED vars
  <2>1. setup' = setup /\ Workers' = Workers /\ faults' = faults
    BY <1>2, SettingKept DEF vars
  <2>2. ASSUME NEW t \in Sessions, Counted(t) PROVE Counted(t)'
    <3>1. Same(t)
      BY <1>2 DEF vars, Same, KeepsOne
    <3> QED
      BY <2>1, <2>2, <3>1, SameCounted
  <2>3. Typed => Typed'
    BY <1>2, <2>1 DEF vars, Typed
  <2> QED
    BY <1>1, <2>1, <2>2, <2>3 DEF CountInv
<1>3. CASE Next
  <2>1. setup' = setup /\ Step /\ faults \in Nat
    BY <1>3 DEF Next, CountInv
  <2>2. faults' = faults \/ faults' = faults + 1
    BY <2>1, FaultsCounted
  <2>3. CASE faults' = 0
    <3>1. faults = 0 /\ \A w \in Workers : ~ (Restart(w) \/ WriteFails(w) \/ PublishCut(w) \/ ExtraLost(w))
      BY <2>1, <2>2, <2>3 DEF Restart, WriteFails, PublishCut, ExtraLost, Fault
    <3> QED
      BY <2>1, <3>1, ClientCounted, HandlerCounted, WriteCounted, PublishCounted, FinishCounted
         DEF Step
  <2>4. CASE faults' # 0
    BY <1>1, <2>1, <2>2, <2>4 DEF CountInv
  <2> QED
    BY <2>3, <2>4
<1> QED
  BY <1>2, <1>3

LEMMA CountIsOnce == CountInv => CountedOnce
<1> SUFFICES ASSUME CountInv, faults = 0, NEW s \in Sessions, latest[s] # None,
                    NEW rounds, rounds = Rounds(latest[s]),
                    NEW i \in DOMAIN rounds, NEW k \in DOMAIN rounds,
                    NEW a \in DOMAIN rounds[i], NEW b \in DOMAIN rounds[k],
                    rounds[i][a] = rounds[k][b]
             PROVE  i = k /\ a = b
  BY DEF CountedOnce
<1> DEFINE W == latest[s].weights.steps
           g == latest[s].grads
<1>1. Once(W, g) /\ W \in Seq(Update)
  <2>1. latest[s] \in State
    BY DEF CountInv, Typed
  <2> QED
    BY <2>1 DEF CountInv, Counted, Answered, State, Weights
<1>2. rounds = Append(W, g)
  BY DEF Rounds
<1> HIDE DEF W, g
<1>3. /\ DOMAIN W = 1 .. Len(W) /\ Len(W) \in Nat /\ DOMAIN rounds = 1 .. Len(W) + 1
      /\ \A j \in DOMAIN W : rounds[j] = W[j]
      /\ rounds[Len(W) + 1] = g
  BY <1>1, <1>2
<1>4. \A j \in DOMAIN rounds : (j \in DOMAIN W /\ rounds[j] = W[j]) \/ (j = Len(W) + 1 /\ rounds[j] = g)
  BY <1>3
<1> QED
  BY <1>1, <1>4 DEF Once

(***************************************************************************)
(* Services whose workers have local disks of their own, and caches with   *)
(* room for every session if there are full-parameter ones among them, so  *)
(* that a job runs on what it loaded: a full-parameter session evicted by  *)
(* its own load is trained on the base model, its updates so far lost.     *)
(***************************************************************************)
ApartSetups ==
    \A u \in Setups :
        /\ \A v, w \in DOMAIN u.dirOf : u.dirOf[v] = u.dirOf[w] => v = w
        /\ \/ u.fullParam = {}
           \/ IsFiniteSet(Sessions) /\ Cardinality(Sessions) <= u.slots

LEMMA AlwaysCounted == ASSUME ApartSetups PROVE Spec => []CountInv
<1>1. CountInv => Steady /\ DirsApart
  BY DEF CountInv, Inv, ApartSetups, Steady, Roomy, MaxSlots, FP, FullParam, DirsApart,
     Workers, DirOf
<1>2. CountInv /\ [Next]_vars => CountInv'
  BY <1>1, CountNext
<1> QED
  BY <1>2, CountInit, PTL DEF Spec

(***************************************************************************)
(* With any number of workers, any clients and, up to the first fault,     *)
(* whatever checkpoints they save and load, the gradients of a batch enter *)
(* a session once (worker.py:1972-1979).                                   *)
(***************************************************************************)
THEOREM NoBatchCountsTwice == ASSUME ApartSetups PROVE Spec => []CountedOnce
BY AlwaysCounted, CountIsOnce, PTL
-----------------------------------------------------------------------------
(***************************************************************************)
(* The refinement.  Still(t): the step is a stutter of t's abstract state. *)
(***************************************************************************)
Still(t) == Now(t)' = Now(t) /\ CheckpointOf(t)' = CheckpointOf(t)

Others(s) == \A t \in Sessions : t # s => Still(t)
Becomes(s, st) == Now(s)' = st /\ CheckpointOf(s)' = CheckpointOf(s) /\ Others(s)

AbstractState == [s \in Sessions |-> Now(s)]
AbstractSaved == [s \in Sessions |-> CheckpointOf(s)]

LEMMA NowIs ==
    ASSUME Inv, NEW s \in Sessions
    PROVE  /\ (\A v \in Workers : ~ Running(v, s)) => Now(s) = latest[s]
           /\ \A w \in Workers : Running(w, s) => Now(s) = op[w].after
<1>1. (\A v \in Workers : ~ Running(v, s)) => ~ InFlight(s)
  BY DEF InFlight, Running
<1>2. ASSUME NEW w \in Workers, Running(w, s) PROVE Now(s) = op[w].after
  <2>1. \A v \in Workers : op[v] # None /\ op[v].session = s => v = w
    BY <1>2 DEF Inv, OperationOk, Running
  <2>2. op[w] # None /\ op[w].session = s
    BY <1>2 DEF Running
  <2>3. (CHOOSE v \in Workers : op[v] # None /\ op[v].session = s) = w
    BY <2>1, <2>2
  <2> QED
    BY <2>2, <2>3 DEF Now, InFlight
<1> QED
  BY <1>1, <1>2 DEF Now

LEMMA NowNext ==
    ASSUME Inv', setup' = setup, NEW s \in Sessions
    PROVE  /\ (\A v \in Workers : ~ Running(v, s)') => Now(s)' = latest'[s]
           /\ \A w \in Workers : Running(w, s)' => Now(s)' = op'[w].after
<1>0. Workers' = Workers
  BY SettingKept
<1>1. (\A v \in Workers : ~ Running(v, s)') => ~ InFlight(s)'
  BY <1>0 DEF InFlight, Running
<1>2. ASSUME NEW w \in Workers, Running(w, s)' PROVE Now(s)' = op'[w].after
  <2>1. \A v \in Workers : op'[v] # None /\ op'[v].session = s => v = w
    BY <1>0, <1>2 DEF Inv, OperationOk, Running
  <2>2. op'[w] # None /\ op'[w].session = s
    BY <1>2 DEF Running
  <2>3. (CHOOSE v \in Workers : op'[v] # None /\ op'[v].session = s) = w
    BY <2>1, <2>2
  <2> QED
    BY <1>0, <2>2, <2>3 DEF Now, InFlight
<1> QED
  BY <1>1, <1>2 DEF Now

LEMMA SameStill ==
    ASSUME Inv, Inv', setup' = setup, NEW t \in Sessions, Same(t) PROVE Still(t)
<1>1. CheckpointOf(t)' = CheckpointOf(t)
  BY DEF CheckpointOf, Same
<1>2. \A v \in Workers : Running(v, t)' <=> Running(v, t)
  BY SameOf
<1>3. CASE \E w \in Workers : Running(w, t)
  <2>1. PICK w \in Workers : Running(w, t)
    BY <1>3
  <2>2. op'[w] = op[w]
    BY <2>1 DEF Same, Running
  <2> QED
    BY <1>1, <1>2, <2>1, <2>2, NowIs, NowNext DEF Still
<1>4. CASE \A w \in Workers : ~ Running(w, t)
  BY <1>1, <1>2, <1>4, NowIs, NowNext DEF Still, Same
<1> QED
  BY <1>3, <1>4

LEMMA AbstractBecomes ==
    ASSUME NEW s \in Sessions, NEW st, Becomes(s, st)
    PROVE  /\ AbstractState' = [AbstractState EXCEPT ![s] = st]
           /\ AbstractSaved' = AbstractSaved
<1>1. \A t \in Sessions : Now(t)' = IF t = s THEN st ELSE Now(t)
  BY DEF Becomes, Others, Still
<1>2. \A t \in Sessions : CheckpointOf(t)' = CheckpointOf(t)
  BY DEF Becomes, Others, Still
<1>3. AbstractState' = [t \in Sessions |-> Now(t)'] /\ AbstractSaved' = [t \in Sessions |-> CheckpointOf(t)']
  BY DEF AbstractState, AbstractSaved
<1> QED
  BY <1>1, <1>2, <1>3 DEF AbstractState, AbstractSaved

LEMMA AllStill ==
    ASSUME \A t \in Sessions : Still(t)
    PROVE  UNCHANGED <<AbstractState, AbstractSaved>>
<1>1. AbstractState' = [t \in Sessions |-> Now(t)'] /\ AbstractSaved' = [t \in Sessions |-> CheckpointOf(t)']
  BY DEF AbstractState, AbstractSaved
<1> QED
  BY <1>1 DEF AbstractState, AbstractSaved, Still

(* The abstract operations, of the state a job finds and the state it leaves. *)
LEMMA ACreate ==
    ASSUME NEW s \in Sessions, Now(s) = None,
           Becomes(s, [weights |-> Pristine, grads |-> <<>>, opt |-> None])
    PROVE  Abstract!Create(s)
BY AbstractBecomes DEF Abstract!Create, Abstract!Fresh, Pristine, AbstractState, AbstractSaved

LEMMA AStored == \A s, x : Abstract!Stored(s, x) = Stored(s, x)
BY DEF Abstract!Stored, Stored

LEMMA AHeld ==
    ASSUME NEW s \in Sessions, NEW st \in State, Now(s) = st, NEW x \in AsKept(s, st.weights)
    PROVE  /\ [st EXCEPT !.weights = x] \in Abstract!Held(s)
           /\ [st EXCEPT !.weights = x] = [weights |-> x, grads |-> st.grads, opt |-> st.opt]
<1> DEFINE all == {[st EXCEPT !.weights = z] : z \in {st.weights, Stored(s, st.weights)}}
<1>1. Abstract!Held(s) = all
  BY AStored DEF Abstract!Held, AbstractState
<1>2. x \in {st.weights, Stored(s, st.weights)}
  BY DEF AsKept
<1> DEFINE new == [st EXCEPT !.weights = x]
<1>3. new \in all
  BY <1>2
<1>4. /\ DOMAIN new = {"weights", "grads", "opt"}
      /\ new = [f \in {"weights", "grads", "opt"} |-> new[f]]
      /\ new.weights = x /\ new.grads = st.grads /\ new.opt = st.opt
  BY DEF State
<1> HIDE DEF new, all
<1>5. new = [weights |-> new.weights, grads |-> new.grads, opt |-> new.opt]
  BY <1>4
<1> QED
  BY <1>1, <1>3, <1>4, <1>5 DEF new

LEMMA AAccumulate ==
    ASSUME NEW s \in Sessions, NEW st \in State, Now(s) = st, st # None, NEW b,
           NEW x \in AsKept(s, st.weights),
           ~ InGrads(st.grads, b), ~ InWeights(st.weights.steps, b),
           Becomes(s, [weights |-> x, grads |-> Append(st.grads, b), opt |-> st.opt])
    PROVE  Abstract!Accumulate(s, b)
<1>1. AbstractState[s] = st
  BY DEF AbstractState
<1>2. b \notin Abstract!Counted(s)
  <2>1. /\ \A c \in Abstract!Range(st.grads) : \E k \in DOMAIN st.grads : c = st.grads[k]
        /\ \A u \in Abstract!Range(st.weights.steps) :
              \E k \in DOMAIN st.weights.steps : u = st.weights.steps[k]
        /\ \A u : \A c \in Abstract!Range(u) : \E k \in DOMAIN u : c = u[k]
    BY DEF Abstract!Range
  <2>2. b \notin Abstract!Range(st.grads)
    BY <2>1 DEF InGrads
  <2>3. \A u \in Abstract!Range(st.weights.steps) : b \notin Abstract!Range(u)
    BY <2>1 DEF InWeights, InGrads
  <2> QED
    BY <1>1, <2>2, <2>3 DEF Abstract!Counted, AbstractState
<1> DEFINE h == [st EXCEPT !.weights = x]
<1>3. h \in Abstract!Held(s) /\ h = [weights |-> x, grads |-> st.grads, opt |-> st.opt]
  BY AHeld
<1> HIDE DEF h
<1>4. [h EXCEPT !.grads = Append(@, b)] = [weights |-> x, grads |-> Append(st.grads, b), opt |-> st.opt]
  <2> DEFINE more == Append(st.grads, b)
  <2>1. h.grads = st.grads
    BY <1>3
  <2> HIDE DEF more
  <2>2. [h EXCEPT !.grads = more] = [weights |-> x, grads |-> more, opt |-> st.opt]
    BY <1>3
  <2> QED
    BY <2>1, <2>2 DEF more
<1>5. /\ AbstractState' = [AbstractState EXCEPT ![s] = [h EXCEPT !.grads = Append(@, b)]]
      /\ AbstractSaved' = AbstractSaved
  BY <1>4, AbstractBecomes
<1> QED
  BY <1>1, <1>2, <1>3, <1>5 DEF Abstract!Accumulate, AbstractState, AbstractSaved

LEMMA AStep ==
    ASSUME NEW s \in Sessions, NEW st \in State, Now(s) = st, st # None,
           NEW x \in AsKept(s, st.weights),
           Becomes(s, [weights |-> Trained(x, st.grads), grads |-> <<>>,
                       opt |-> Append(IF st.opt = None THEN <<>> ELSE st.opt, st.grads)])
    PROVE  Abstract!Step(s)
<1> DEFINE h == [st EXCEPT !.weights = x]
           new == [weights |-> [h.weights EXCEPT !.steps = Append(@, h.grads)],
                   grads |-> <<>>,
                   opt |-> Append(IF h.opt = None THEN <<>> ELSE h.opt, h.grads)]
<1>1. h \in Abstract!Held(s) /\ h = [weights |-> x, grads |-> st.grads, opt |-> st.opt]
  BY AHeld
<1>2. AbstractState[s] = st
  BY DEF AbstractState
<1> HIDE DEF h
<1>3. h.weights = x /\ h.grads = st.grads /\ h.opt = st.opt
  BY <1>1
<1>4. new = [weights |-> Trained(x, st.grads), grads |-> <<>>,
             opt |-> Append(IF st.opt = None THEN <<>> ELSE st.opt, st.grads)]
  BY <1>3 DEF Trained
<1>5. AbstractState' = [AbstractState EXCEPT ![s] = new] /\ AbstractSaved' = AbstractSaved
  BY <1>4, AbstractBecomes
<1> QED
  BY <1>1, <1>2, <1>5 DEF Abstract!Step, AbstractState, AbstractSaved

LEMMA AReload ==
    ASSUME NEW s \in Sessions, NEW st \in State, Now(s) = st, st # None,
           NEW x \in AsKept(s, st.weights),
           Becomes(s, [weights |-> x, grads |-> st.grads, opt |-> st.opt])
    PROVE  Abstract!Reload(s) \/ UNCHANGED <<AbstractState, AbstractSaved>>
<1> DEFINE h == [st EXCEPT !.weights = x]
<1>1. h = [weights |-> x, grads |-> st.grads, opt |-> st.opt]
  BY AHeld
<1>2. AbstractState[s] = st
  BY DEF AbstractState
<1>3. AbstractState' = [AbstractState EXCEPT ![s] = h] /\ AbstractSaved' = AbstractSaved
  BY <1>1, AbstractBecomes
<1>4. CASE x = Stored(s, st.weights)
  <2>1. AbstractState' = [AbstractState EXCEPT ![s].weights = Stored(s, @)]
    BY <1>2, <1>3, <1>4
  <2> QED
    BY <1>2, <1>3, <2>1, AStored DEF Abstract!Reload, AbstractState, AbstractSaved
<1>5. CASE x = st.weights
  <2>1. h = st
    BY <1>5 DEF State
  <2>2. [AbstractState EXCEPT ![s] = st] = AbstractState
    BY <1>2 DEF AbstractState
  <2> HIDE DEF h
  <2> QED
    BY <1>3, <2>1, <2>2
<1> QED
  BY <1>4, <1>5 DEF AsKept

LEMMA ALoad ==
    ASSUME NEW s \in Sessions, NEW st \in State, Now(s) = st, NEW ck \in State, CheckpointOf(s) = ck,
           ck # None, NEW restore \in BOOLEAN,
           Becomes(s, IF restore THEN ck
                      ELSE [weights |-> ck.weights, grads |-> <<>>, opt |-> st.opt])
    PROVE  Abstract!Load(s, restore)
<1>1. [weights |-> ck.weights, grads |-> <<>>, opt |-> st.opt]
         = [st EXCEPT !.weights = ck.weights, !.grads = <<>>]
  <2> DEFINE new == [st EXCEPT !.weights = ck.weights, !.grads = <<>>]
  <2>1. /\ st = [f \in {"weights", "grads", "opt"} |-> st[f]]
        /\ DOMAIN st = {"weights", "grads", "opt"}
    BY DEF State
  <2>2. /\ DOMAIN new = {"weights", "grads", "opt"}
        /\ new = [f \in {"weights", "grads", "opt"} |-> new[f]]
        /\ new.weights = ck.weights /\ new.grads = <<>> /\ new.opt = st.opt
    BY <2>1
  <2> HIDE DEF new
  <2>3. new = [weights |-> new.weights, grads |-> new.grads, opt |-> new.opt]
    BY <2>2
  <2> QED
    BY <2>2, <2>3 DEF new
<1>2. AbstractState[s] = st /\ AbstractSaved[s] = ck
  BY DEF AbstractState, AbstractSaved
<1>3. /\ AbstractSaved' = AbstractSaved
      /\ AbstractState' = [AbstractState EXCEPT ![s] =
             IF restore THEN ck ELSE [@ EXCEPT !.weights = ck.weights, !.grads = <<>>]]
  BY <1>1, <1>2, AbstractBecomes
<1> QED
  BY <1>2, <1>3 DEF Abstract!Load, AbstractState, AbstractSaved

LEMMA ASave ==
    ASSUME NEW s \in Sessions, NEW st \in State, Now(s) = st, st # None, Now(s)' = st,
           CheckpointOf(s)' = [st EXCEPT !.weights = Stored(s, @)], Others(s)
    PROVE  Abstract!Save(s)
<1> DEFINE ck == [st EXCEPT !.weights = Stored(s, @)]
<1>1. AbstractState' = [t \in Sessions |-> Now(t)'] /\ AbstractSaved' = [t \in Sessions |-> CheckpointOf(t)']
  BY DEF AbstractState, AbstractSaved
<1>2. \A t \in Sessions : Now(t)' = Now(t) /\ CheckpointOf(t)' = IF t = s THEN ck ELSE CheckpointOf(t)
  BY DEF Others, Still
<1>3. AbstractState[s] = st
  BY DEF AbstractState
<1>4. AbstractState' = AbstractState /\ AbstractSaved' = [AbstractSaved EXCEPT ![s] = ck]
  BY <1>1, <1>2 DEF AbstractState, AbstractSaved
<1> QED
  BY <1>3, <1>4, AStored DEF Abstract!Save, AbstractState, AbstractSaved

(* The batches a session's client may submit, and those on their way. *)
Mine(s) == {s} \X (1 .. MaxJobs[s])
BatchesOf(s) ==
    /\ custom[s] # None => custom[s] \in Mine(s)
    /\ pending[s] # None /\ pending[s].kind \notin {"init", "sample"} => pending[s].batch \in Mine(s)
BatchesOk == \A s \in Sessions : BatchesOf(s)

LEMMA SubmitBatches ==
    ASSUME setup' = setup, Inv, BatchesOk, NEW s \in Sessions, ClientStep(s)
    PROVE  BatchesOk'
<1>1. /\ MaxJobs' = MaxJobs /\ MaxJobs \in [Sessions -> Nat] /\ jobs \in [Sessions -> Nat]
      /\ DOMAIN pending = Sessions /\ DOMAIN custom = Sessions
  BY SessionAssumption DEF MaxJobs, Inv
<1>2. \A t \in Sessions : Mine(t)' = Mine(t)
  BY <1>1 DEF Mine
<1>3. CASE SubmitInit(s)
  BY <1>1, <1>2, <1>3 DEF SubmitInit, Submit, BatchesOk, BatchesOf
<1>4. ASSUME NEW kind \in JobKinds, SubmitJob(s, kind) PROVE BatchesOk'
  <2> DEFINE batch == IF kind = "custom2" THEN custom[s] ELSE <<s, jobs[s] + 1>>
  <2>1. /\ batch \in Mine(s)
        /\ pending' = [pending EXCEPT ![s] = [kind |-> kind, batch |-> batch]]
        /\ custom' = [custom EXCEPT ![s] = IF kind = "custom2" THEN None ELSE @]
    BY <1>1, <1>4 DEF SubmitJob, Submit, BatchesOk, BatchesOf, Mine
  <2> HIDE DEF batch
  <2> QED
    BY <1>1, <1>2, <2>1 DEF BatchesOk, BatchesOf
<1>5. CASE SubmitSample(s)
  BY <1>1, <1>2, <1>5 DEF SubmitSample, Submit, BatchesOk, BatchesOf
<1> QED
  BY <1>3, <1>4, <1>5 DEF ClientStep

LEMMA BatchesNext ==
    ASSUME Calm, KeptInv, BatchesOk, [Next]_vars PROVE BatchesOk'
<1>1. CASE UNCHANGED vars
  BY <1>1 DEF vars, BatchesOk, BatchesOf, Mine, MaxJobs
<1>2. CASE Next
  <2>1. setup' = setup /\ Step /\ Inv
    BY <1>2 DEF Next, KeptInv
  <2>2. MaxJobs' = MaxJobs /\ DOMAIN pending = Sessions /\ DOMAIN custom = Sessions
    BY <2>1 DEF MaxJobs, Inv
  <2>3. \A t \in Sessions : Mine(t)' = Mine(t)
    BY <2>2 DEF Mine
  <2>4. ASSUME custom' = custom, pending' = pending \/ \E s \in Sessions : pending' = [pending EXCEPT ![s] = None]
        PROVE  BatchesOk'
    BY <2>2, <2>3, <2>4 DEF BatchesOk, BatchesOf
  <2>5. ASSUME NEW w \in Workers, NEW s \in Sessions, HandlerStep(w, s) PROVE BatchesOk'
    <3>1. Handled(w, s)
      BY <2>1, <2>5, StepIsHandled
    <3> QED
      BY <2>4, <3>1 DEF Handled, Raised
  <2>6. ASSUME NEW w \in Workers, Finish(w) PROVE BatchesOk'
    <3> DEFINE s == op[w].session
    <3>1. /\ op[w] # None /\ s \in Sessions /\ pending[s] # None
      BY <2>1, <2>6 DEF Finish, Inv, OperationOk
    <3>2. /\ pending' = [pending EXCEPT ![s] = None]
          /\ custom' = [custom EXCEPT ![s] = IF pending[s].kind = "custom1"
                                             THEN pending[s].batch ELSE @]
      BY <2>6 DEF Finish
    <3> HIDE DEF s
    <3> QED
      BY <2>2, <2>3, <3>1, <3>2 DEF BatchesOk, BatchesOf
  <2>7. ASSUME NEW w \in Workers, NEW b \in Blobs, Write(w, b) PROVE BatchesOk'
    BY <2>4, <2>7 DEF Write
  <2>8. ASSUME NEW w \in Workers,
               Publish(w) \/ Restart(w) \/ WriteFails(w) \/ PublishCut(w) \/ ExtraLost(w)
        PROVE  BatchesOk'
    BY <2>4, <2>8 DEF Publish, Restart, WriteFails, PublishCut, ExtraLost, Copying
  <2> QED
    BY <2>1, <2>5, <2>6, <2>7, <2>8, SubmitBatches DEF Step
<1> QED
  BY <1>1, <1>2

LEMMA CheckpointIsState ==
    ASSUME NEW s \in Sessions, StoresOk(s), ckpts[s] # None
    PROVE  CheckpointOf(s) \in State /\ CheckpointOf(s) # None
<1> DEFINE c == ckpts[s]
           g == IF c.grads = None THEN <<>> ELSE c.grads.sum
<1>1. c \in OwnBlobSet(s) /\ c.weights # None
  BY DEF StoresOk
<1>2. c.weights \in OwnWeights(s) /\ c.opt \in MaybeOpt(s) /\ c.grads \in OwnGradients(s) \cup {None}
  BY <1>1 DEF OwnBlobSet, MaybeWeights
<1>3. g \in OwnUpdate(s)
  BY <1>2, Empty DEF OwnGradients
<1>4. c.weights \in Weights /\ c.opt \in Optimizer /\ g \in Update
  BY <1>2, <1>3, OwnIsWeights, OwnUpdateIsUpdate, OwnIsSteps DEF MaybeWeights, MaybeOpt, Optimizer
<1>5. CheckpointOf(s) = [weights |-> c.weights, opt |-> c.opt, grads |-> g]
  BY DEF CheckpointOf
<1> HIDE DEF c, g
<1>6. CheckpointOf(s) \in State
  BY <1>4, <1>5 DEF State
<1> QED
  BY <1>6, StateIsBefore, NoneAssumption

(***************************************************************************)
(* A handler that ends is one operation of the session, or none.           *)
(***************************************************************************)
Refines == Abstract!Next \/ UNCHANGED <<AbstractState, AbstractSaved>>

LEMMA ServedRefines ==
    ASSUME setup' = setup, Calm, KeptInv, Inv', CountInv, BatchesOk, NEW w \in Workers, NEW s \in Sessions,
           Handled(w, s), pending' = pending, NEW q, NEW x, NEW r, NEW y, Served(w, s, q, x, r, y),
           Others(s)
    PROVE  Refines
<1> DEFINE st == latest[s]
           kind == pending[s].kind
           batch == pending[s].batch
           ck == CheckpointOf(s)
<1>1. /\ Inv /\ Typed /\ faults = 0 /\ KeptOf(s) /\ Counted(s) /\ pending[s] # None
      /\ \A v \in Workers : ~ Running(v, s)
  BY IdleWhenFree DEF KeptInv, CountInv, Handled, Free
<1>2. /\ Took(w, s, q, x) /\ Does(kind, batch, ckpts[s], q, x, r, y)
      /\ q \in OwnRuntime(s) /\ x \in OwnWeights(s) /\ r \in OwnRuntime(s) /\ y \in OwnWeights(s)
  BY DEF Served, Took
<1>3. st \in State /\ st # None /\ Now(s) = st
  <2>1. latest[s] # None
    BY <1>1 DEF KeptOf, Beginning, Served
  <2> QED
    BY <1>1, <2>1, NowIs DEF Typed
<1>4. x \in AsKept(s, st.weights) /\ q.grads.sum = st.grads /\ q.opt = st.opt
  <2>1. Faithful(w, s)
    BY <1>1, <1>3 DEF KeptOf, Uncreated
  <2> QED
    BY <1>1, <1>2, <2>1, TookLatest
<1>5. /\ Now(s)' = [weights |-> y, grads |-> r.grads.sum, opt |-> r.opt]
      /\ CheckpointOf(s)' = ck
  <2>1. op'[w] # None /\ op'[w].session = s
    BY <1>1, HandledTyped
  <2>2. Now(s)' = op'[w].after
    BY <2>1, NowNext, FaithfulNext
  <2>3. op'[w].after = Snapshot(y, r)
    BY DEF Served
  <2>4. ckpts' = ckpts
    BY DEF Handled
  <2> QED
    BY <2>2, <2>3, <2>4 DEF Snapshot, CheckpointOf
<1>6. Becomes(s, [weights |-> y, grads |-> r.grads.sum, opt |-> r.opt])
  BY <1>5 DEF Becomes
<1>7. st = [weights |-> st.weights, grads |-> st.grads, opt |-> st.opt]
  BY <1>3 DEF State
<1> HIDE DEF st, ck
<1>8. CASE kind \in {"fb", "custom2"}
  <2>1. y = x /\ r.opt = q.opt /\ r.grads.sum = Append(q.grads.sum, batch) /\ Counts(kind)
    BY <1>2, <1>8 DEF Does, Counts
  <2>2. ~ InGrads(st.grads, batch) /\ ~ InWeights(st.weights.steps, batch)
    <3>1. ~ Used(s, batch)
      BY <1>1, <2>1 DEF Counted, Batched, Counts
    <3>2. x.steps = st.weights.steps
      BY <1>3, <1>4, KeptOnce DEF State
    <3> QED
      BY <1>1, <1>2, <1>4, <3>1, <3>2, TookHeld
  <2>3. Becomes(s, [weights |-> x, grads |-> Append(st.grads, batch), opt |-> st.opt])
    BY <1>4, <1>6, <2>1
  <2>4. Abstract!Accumulate(s, batch)
    BY <1>3, <1>4, <2>2, <2>3, AAccumulate
  <2>5. batch \in UNION {{t} \X (1 .. u.maxJobs[t]) : t \in Sessions, u \in Setups}
    <3>1. batch \in {s} \X (1 .. setup.maxJobs[s]) /\ setup \in Setups
      BY <1>1, <1>8 DEF BatchesOk, BatchesOf, Mine, MaxJobs, Inv
    <3> HIDE DEF batch
    <3>2. {s} \X (1 .. setup.maxJobs[s])
             \in {{t} \X (1 .. u.maxJobs[t]) : t \in Sessions, u \in Setups}
      BY <3>1
    <3> DEFINE mine == {s} \X (1 .. setup.maxJobs[s])
               all == {{t} \X (1 .. u.maxJobs[t]) : t \in Sessions, u \in Setups}
    <3>3. batch \in mine /\ mine \in all
      BY <3>1, <3>2
    <3> HIDE DEF mine, all
    <3>4. batch \in UNION all
      BY <3>3
    <3> QED
      BY <3>4 DEF all
  <2> QED
    BY <2>4, <2>5 DEF Refines, Abstract!Next
<1>9. CASE kind \in {"custom1", "sample", "save"}
  <2>1. y = x /\ r.opt = q.opt /\ r.grads = q.grads
    BY <1>2, <1>9 DEF Does
  <2>2. Becomes(s, [weights |-> x, grads |-> st.grads, opt |-> st.opt])
    BY <1>4, <1>6, <2>1
  <2>3. Abstract!Reload(s) \/ UNCHANGED <<AbstractState, AbstractSaved>>
    BY <1>3, <1>4, <2>2, AReload
  <2> QED
    BY <2>3 DEF Refines, Abstract!Next
<1>10. CASE kind = "optim"
  <2>1. /\ y = Trained(x, q.grads.sum) /\ r.grads.sum = <<>>
        /\ r.opt = Append(IF q.opt = None THEN <<>> ELSE q.opt, q.grads.sum)
    BY <1>2, <1>10 DEF Does, ZeroGrads
  <2>2. Becomes(s, [weights |-> Trained(x, st.grads), grads |-> <<>>,
                    opt |-> Append(IF st.opt = None THEN <<>> ELSE st.opt, st.grads)])
    BY <1>4, <1>6, <2>1
  <2>3. Abstract!Step(s)
    BY <1>3, <1>4, <2>2, AStep
  <2> QED
    BY <2>3 DEF Refines, Abstract!Next
<1>11. CASE kind \in {"load", "restore"}
  <2> DEFINE restore == kind = "restore"
             c == ckpts[s]
  <2>1. c # None /\ StoresOk(s)
    BY <1>1, <1>11 DEF Inv, PendingOk
  <2>2. ck \in State /\ ck # None
    BY <2>1, CheckpointIsState DEF ck
  <2>3. /\ ck.weights = c.weights /\ ck.opt = c.opt
        /\ ck.grads = IF c.grads = None THEN <<>> ELSE c.grads.sum
        /\ ck = [weights |-> c.weights, grads |-> ck.grads, opt |-> c.opt]
    BY <2>1 DEF ck, CheckpointOf
  <2>4. /\ y = c.weights
        /\ r.grads = IF kind = "load" \/ c.grads = None THEN NoGrads ELSE c.grads
        /\ r.opt = IF kind = "load" THEN q.opt ELSE c.opt
    BY <1>2, <1>11 DEF Does
  <2>5. NoGrads.sum = <<>>
    BY DEF NoGrads
  <2> HIDE DEF c
  <2>6. Becomes(s, IF restore THEN ck ELSE [weights |-> ck.weights, grads |-> <<>>, opt |-> st.opt])
    <3>1. CASE restore
      <4>1. y = ck.weights /\ r.grads.sum = ck.grads /\ r.opt = ck.opt
        BY <2>3, <2>4, <2>5, <3>1
      <4>2. ck = [weights |-> y, grads |-> r.grads.sum, opt |-> r.opt]
        BY <2>3, <4>1
      <4> QED
        BY <1>6, <3>1, <4>2
    <3>2. CASE ~ restore
      <4>1. kind = "load"
        BY <1>11, <3>2
      <4>2. y = ck.weights /\ r.grads.sum = <<>> /\ r.opt = st.opt
        BY <1>4, <2>3, <2>4, <2>5, <4>1
      <4> QED
        BY <1>6, <3>2, <4>2
    <3> QED
      BY <3>1, <3>2
  <2>7. restore \in BOOLEAN
    OBVIOUS
  <2> HIDE DEF restore
  <2>8. Abstract!Load(s, restore)
    BY <1>3, <2>2, <2>6, <2>7, ALoad DEF ck
  <2> QED
    BY <2>7, <2>8 DEF Refines, Abstract!Next
<1> QED
  BY <1>2, <1>8, <1>9, <1>10, <1>11 DEF Does

LEMMA HandlerRefines ==
    ASSUME setup' = setup, Calm, KeptInv, Inv', CountInv, BatchesOk,
           NEW w \in Workers, NEW s \in Sessions, HandlerStep(w, s)
    PROVE  Refines
<1>1. /\ Handled(w, s) /\ Inv /\ Typed /\ KeptOf(s)
      /\ pending[s] # None /\ \A v \in Workers : ~ Running(v, s)
  BY StepIsHandled, IdleWhenFree DEF KeptInv, Handled, Free
<1>2. Others(s)
  BY <1>1, HandledSame, SameStill DEF Others
<1>3. Now(s) = latest[s] /\ CheckpointOf(s)' = CheckpointOf(s)
  BY <1>1, NowIs DEF Handled, CheckpointOf
<1>4. CASE Raised(w, s)
  <2>1. \A v \in Workers : ~ Running(v, s)'
    BY <1>1, <1>4 DEF Raised, Running
  <2>2. Now(s)' = latest'[s] /\ latest' = latest
    BY <1>1, <2>1, NowNext DEF Handled
  <2>3. \A t \in Sessions : Still(t)
    BY <1>2, <1>3, <2>2 DEF Still, Others
  <2> QED
    BY <2>3, AllStill DEF Refines
<1>5. CASE pending' = pending /\ Begun(w, s)
  <2>1. op'[w] # None /\ op'[w].session = s /\ op'[w].after = Snapshot(Pristine, FreshRuntime)
    <3>1. op'[w] # None /\ op'[w].session = s
      BY <1>1, <1>5, HandledTyped
    <3>2. PICK image : op'[w] = [session |-> s, before |-> None,
                                 after |-> Snapshot(Pristine, FreshRuntime), image |-> image,
                                 left |-> Writes(image), publish |-> FALSE]
      BY <1>5 DEF Begun
    <3>3. op'[w].after = Snapshot(Pristine, FreshRuntime)
      BY <3>2
    <3> QED
      BY <3>1, <3>3
  <2>2. Now(s)' = op'[w].after
    BY <2>1, NowNext, FaithfulNext
  <2>3. Snapshot(Pristine, FreshRuntime) = [weights |-> Pristine, grads |-> <<>>, opt |-> None]
    BY DEF Snapshot, FreshRuntime, NoGrads
  <2>4. latest[s] = None
    BY <1>1, <1>5 DEF KeptOf, Beginning, Begun
  <2>5. Becomes(s, [weights |-> Pristine, grads |-> <<>>, opt |-> None])
    BY <1>2, <1>3, <2>1, <2>2, <2>3 DEF Becomes
  <2>6. Abstract!Create(s)
    BY <1>3, <2>4, <2>5, ACreate
  <2> QED
    BY <2>6 DEF Refines, Abstract!Next
<1>6. ASSUME pending' = pending, NEW q, NEW x, NEW r, NEW y, Served(w, s, q, x, r, y)
      PROVE  Refines
  BY <1>1, <1>2, <1>6, ServedRefines
<1> QED
  BY <1>1, <1>4, <1>5, <1>6 DEF Handled

LEMMA ClientRefines ==
    ASSUME setup' = setup, Inv, Inv', NEW s \in Sessions, ClientStep(s)
    PROVE  Refines
<1>1. UNCHANGED <<op, latest, ckpts>>
  BY DEF ClientStep, SubmitInit, SubmitJob, SubmitSample, Submit
<1>2. ASSUME NEW t \in Sessions PROVE Still(t)
  <2>1. \A v \in Workers : Running(v, t)' <=> Running(v, t)
    BY <1>1 DEF Running
  <2>2. Now(t)' = Now(t)
    BY <1>1, <2>1, NowIs, NowNext
  <2> QED
    BY <1>1, <2>2 DEF Still, CheckpointOf
<1> QED
  BY <1>2, AllStill DEF Refines

LEMMA WriteRefines ==
    ASSUME setup' = setup, Calm, KeptInv, Inv', NEW w \in Workers, NEW b \in Blobs, Write(w, b)
    PROVE  Refines
<1> SUFFICES ASSUME NEW s, s = op[w].session PROVE Refines
  OBVIOUS
<1>1. Inv /\ Typed /\ op[w] # None
  BY DEF KeptInv, Write
<1>2. s \in Sessions /\ Running(w, s)
  BY <1>1, RunningFacts
<1>3. /\ Running(w, s)' /\ op'[w].after = op[w].after /\ ckpts' = ckpts
      /\ \A t \in Sessions : t # s => Same(t)
  BY <1>1, <1>2, CalmIsApart, WriteEffect
<1>4. Now(s)' = Now(s)
  BY <1>1, <1>2, <1>3, NowIs, NowNext
<1>5. \A t \in Sessions : Still(t)
  BY <1>1, <1>3, <1>4, SameStill DEF Still, CheckpointOf
<1> QED
  BY <1>5, AllStill DEF Refines

LEMMA FinishRefines ==
    ASSUME setup' = setup, Calm, KeptInv, Inv', NEW w \in Workers, Finish(w)
    PROVE  Refines
<1> SUFFICES ASSUME NEW s, s = op[w].session PROVE Refines
  OBVIOUS
<1>1. Inv /\ Typed /\ op[w] # None
  BY DEF KeptInv, Finish
<1>2. s \in Sessions /\ Running(w, s)
  BY <1>1, RunningFacts
<1>3. /\ \A v \in Workers : ~ Running(v, s)'
      /\ latest'[s] = op[w].after /\ ckpts' = ckpts
      /\ \A t \in Sessions : t # s => Same(t)
  BY <1>1, <1>2, FinishEffect
<1>4. Now(s)' = Now(s)
  BY <1>1, <1>2, <1>3, NowIs, NowNext
<1>5. \A t \in Sessions : Still(t)
  BY <1>1, <1>3, <1>4, SameStill DEF Still, CheckpointOf
<1> QED
  BY <1>5, AllStill DEF Refines

LEMMA PublishRefines ==
    ASSUME setup' = setup, Calm, KeptInv, KeptInv', NEW w \in Workers, Publish(w)
    PROVE  Refines
<1> SUFFICES ASSUME NEW s, s = op[w].session PROVE Refines
  OBVIOUS
<1> DEFINE d == local[DirOf[w]][s]
           st == op[w].after
<1>1. Inv /\ Inv' /\ Typed /\ op[w] # None
  BY DEF KeptInv, Publish, Copying
<1>2. /\ s \in Sessions /\ Running(w, s) /\ KeptOf(s) /\ Faithful(w, s) /\ ~ Uncreated(s)
      /\ st \in State /\ d \in OwnBlobSet(s)
  BY <1>1, RunningAlone, LocalOwn
<1>3. /\ Running(w, s)' /\ Disk(w, s)' = Disk(w, s) /\ Disk(w, s) = d /\ d.weights # None
      /\ remote'[s] = CopiedToRemote(w, s, Blobs)
      /\ ckpts'[s] = Materialized(CopiedToRemote(w, s, Blobs), ckpts[s], Blobs)
      /\ op[w].publish /\ op'[w].after = st
      /\ \A t \in Sessions : t # s => Same(t)
  BY <1>1, <1>2, PublishEffect
<1>4. /\ ckpts[s] = None /\ remote[s] = NoBlobs /\ d.weights = Stored(s, st.weights)
  BY <1>2, <1>3 DEF KeptOf, CarefulJob, Beginning
<1>5. ckpts'[s] = d /\ d # None
  <2> DEFINE copied == CopiedToRemote(w, s, Blobs)
  <2>1. [b \in Blobs |-> d[b]] = d
    BY <1>2, BlobsAreFields
  <2>2. copied = d
    <3>1. \A b \in Blobs : remote[s][b] = None
      BY <1>4 DEF NoBlobs, Blobs
    <3>2. copied = [b \in Blobs |-> d[b]]
      BY <3>1 DEF CopiedToRemote
    <3> QED
      BY <2>1, <3>2
  <2> HIDE DEF copied, d
  <2>3. Materialized(copied, ckpts[s], Blobs) = [b \in Blobs |-> d[b]]
    BY <1>4, <2>2 DEF Materialized
  <2>4. d # None
    BY <1>2, OwnBlobsAreNotNone
  <2> QED
    BY <1>3, <2>1, <2>2, <2>3, <2>4 DEF copied
<1>6. GradSum(d.grads) = st.grads /\ d.opt = st.opt
  <2>1. Mirrors(d, st, mem[w], remote[s], s)
    BY <1>2, <1>3 DEF Faithful, Current
  <2> HIDE DEF d, st
  <2> QED
    BY <2>1 DEF Mirrors
<1>7. Now(s) = st /\ Now(s)' = st /\ st # None
  BY <1>1, <1>2, <1>3, NowIs, NowNext, StateIsBefore, NoneAssumption
<1>8. CheckpointOf(s)' = [st EXCEPT !.weights = Stored(s, @)]
  <2>1. CheckpointOf(s)' = IF ckpts'[s] = None THEN None
                           ELSE [weights |-> ckpts'[s].weights, opt |-> ckpts'[s].opt,
                                 grads |-> GradSum(ckpts'[s].grads)]
    BY DEF CheckpointOf, GradSum
  <2> HIDE DEF d, st
  <2> DEFINE x == Stored(s, st.weights)
  <2>2. CheckpointOf(s)' = [weights |-> x, opt |-> st.opt, grads |-> st.grads]
    BY <1>4, <1>5, <1>6, <2>1
  <2>3. x \in AsKept(s, st.weights)
    BY DEF AsKept
  <2> HIDE DEF x
  <2>4. [st EXCEPT !.weights = x] = [weights |-> x, grads |-> st.grads, opt |-> st.opt]
    BY <1>2, <1>7, <2>3, AHeld
  <2> QED
    BY <2>2, <2>4 DEF x
<1>9. Others(s)
  BY <1>1, <1>3, SameStill DEF Others
<1>10. Abstract!Save(s)
  BY <1>2, <1>7, <1>8, <1>9, ASave
<1> QED
  BY <1>2, <1>10 DEF Refines, Abstract!Next

LEMMA NextRefines ==
    ASSUME Calm, KeptInv, KeptInv', CountInv, BatchesOk, [Next]_vars
    PROVE  Refines
<1>1. Inv /\ Inv'
  BY DEF KeptInv
<1>2. CASE UNCHANGED vars
  <2>1. setup' = setup
    BY <1>2 DEF vars
  <2>2. ASSUME NEW t \in Sessions PROVE Still(t)
    <3>1. Same(t)
      BY <1>2 DEF vars, Same, KeepsOne
    <3> QED
      BY <1>1, <2>1, <3>1, SameStill
  <2> QED
    BY <2>2, AllStill DEF Refines
<1>3. CASE Next
  <2>1. setup' = setup
    BY <1>3 DEF Next
  <2>2. \A w \in Workers : ~ (Restart(w) \/ WriteFails(w) \/ PublishCut(w) \/ ExtraLost(w))
    BY DEF Restart, WriteFails, PublishCut, ExtraLost, Fault, KeptInv, Calm
  <2> QED
    BY <1>1, <1>3, <2>1, <2>2, ClientRefines, HandlerRefines, WriteRefines, PublishRefines,
       FinishRefines DEF Next, Step
<1> QED
  BY <1>2, <1>3

LEMMA InitRefines ==
    ASSUME Init PROVE Abstract!Init /\ BatchesOk
<1>0. Wide \in SUBSET Sessions
  BY SessionAssumption DEF Init, Wide
<1>1. \A w \in Workers : op[w] = None
  BY DEF Init
<1>2. \A s \in Sessions : Now(s) = None /\ CheckpointOf(s) = None
  BY <1>1 DEF Init, Now, InFlight, CheckpointOf
<1>3. BatchesOk
  BY DEF Init, BatchesOk, BatchesOf
<1> QED
  BY <1>0, <1>2, <1>3 DEF Abstract!Init

LEMMA CalmIsApartSetups == CalmSetups => ApartSetups
BY DEF CalmSetups, ApartSetups

(***************************************************************************)
(* To its client a session is one that never left its worker's memory, but *)
(* for the precision a reload costs its weights: the jobs, evictions,      *)
(* reloads, saves and loads of a worker implement TrainingSession          *)
(* (worker.py:1053-1094 reloads, 1495-1660 saves).                         *)
(***************************************************************************)
THEOREM WorkerImplementsSession == ASSUME CalmSetups PROVE Spec => ImplementsSession
<1>1. Spec => [](Calm /\ KeptInv) /\ []CountInv
  BY AlwaysKept, AlwaysCounted, CalmIsApartSetups
<1>2. Calm /\ KeptInv /\ BatchesOk /\ [Next]_vars => BatchesOk'
  BY BatchesNext
<1>3. Init => BatchesOk /\ Abstract!Init
  BY InitRefines
<1>4. KeptInv /\ KeptInv' /\ Calm /\ CountInv /\ BatchesOk /\ [Next]_vars
        => [Abstract!Next /\ UNCHANGED Wide]_<<Wide, AbstractState, AbstractSaved>>
  <2>1. [Next]_vars => Wide' = Wide
    BY DEF Next, vars, Wide
  <2> QED
    BY <2>1, NextRefines DEF Refines
<1> QED
  BY <1>1, <1>2, <1>3, <1>4, PTL DEF Spec, ImplementsSession, Abstract!Session, AbstractState, AbstractSaved
=============================================================================
