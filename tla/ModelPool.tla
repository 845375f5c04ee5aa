----------------------------- MODULE ModelPool -----------------------------
(***************************************************************************)
(* The pool of base models build_default_model_pool builds: RewrapPool, or *)
(* TieredModelPool, which keeps models evicted from VRAM in host RAM and   *)
(* promotes them back.  Loading, promoting and demoting may each raise.    *)
(***************************************************************************)
EXTENDS BaseLoading, Naturals, Sequences
CONSTANTS Models, Describe,
          Settings       \* the settings a pool may be built with

\* What build_default_model_pool makes a pool of without raising.
Builds(c) == /\ DOMAIN c = {"kind", "vram", "host", "asked", "dtype", "requant", "fp8Device"}
             /\ c.kind \in {"rewrap", "tiered"}
             /\ c.vram \in Nat \ {0} /\ c.host \in Nat
             /\ c.kind = "rewrap" => c.host = 0
ASSUME SettingsAssumption == \A c \in Settings : Builds(c)

VARIABLES set,
          vram, host,    \* the models of each tier, least recently used first
          held,          \* the PoolSlot a model last had, and where its weights are at
          last,
          recency        \* history: the models in the order of their last use
vars == <<set, vram, host, held, last, recency>>

Rewrap == INSTANCE RewrapPool WITH slots <- vram
Members(s) == Rewrap!Members(s)
Without(s, m) == Rewrap!Without(s, m)
ToEnd(s, m) == Rewrap!ToEnd(s, m)
Newest(s, n) == Rewrap!Newest(s, n)
Oldest(s, n) == Rewrap!Oldest(s, n)
TornDown(f, models) == Rewrap!TornDown(f, models)
Returns(op, m, result, done) == Rewrap!Returns(op, m, result, done)
Raises(op, m, result) == Rewrap!Raises(op, m, result)

TypeOK ==
    /\ set \in Settings
    /\ vram \in Seq(Models) /\ host \in Seq(Models) /\ recency \in Seq(Models)
    /\ DOMAIN held = Models /\ \A m \in Models : "at" \in DOMAIN held[m]

Init ==
    /\ set \in Settings
    /\ vram = <<>> /\ host = <<>> /\ recency = <<>>
    /\ held = [m \in Models |-> NoSlot]
    /\ last = [op |-> "init", model |-> None, result |-> "none", slot |-> NoSlot, done |-> {}]

\* A call that served m used it.
Served == last.result \in {"hit", "promoted", "loaded"}
Uses(m) == recency' = IF Served' THEN ToEnd(recency, m) ELSE recency

RewrapCall ==
    /\ set.kind = "rewrap" /\ Rewrap!Next
    /\ UNCHANGED host /\ Uses(last'.model)

----------------------------------------------------------------------------
(* TieredModelPool *)
Get(m) ==
    /\ set.kind = "tiered" /\ Rewrap!Get(m)
    /\ UNCHANGED host /\ Uses(m)

\* _demote and _promote move the weights of slots, parameter by parameter: a move that
\* raises midway leaves them "split".
Moved(f, models, to) ==
    [m \in Models |-> IF m \in models THEN [f[m] EXCEPT !.at = to] ELSE f[m]]

\* _make_vram_room(1): the oldest slots leave VRAM, and the newest of what was in the
\* host tier and what now comes to it stay there.
DemotedToFront(h, leaving) == Newest(leaving \o h, set.host)   \* mutant of Demoted
Demoted(h, leaving) == Newest(h \o leaving, set.host)
SlotsDemoted(h, leaving) ==
    TornDown(Moved(held, Members(leaving), "host"), Members(Oldest(h \o leaving, set.host)))
StayingOldest == SubSeq(vram, 1, IF Len(vram) < set.vram THEN Len(vram) ELSE set.vram - 1)
                                                               \* mutant of Staying
Leaving == Oldest(vram, set.vram - 1)
Staying == Newest(vram, set.vram - 1)
MakesRoom(h, arriving) ==
    vram' = Staying \o arriving /\ host' = Demoted(h, Leaving)
\* The demotion of the oldest slot raises: it is then in neither tier, and what made
\* room for it in the host tier is gone.
DemotionRaises(h) ==
    /\ vram # <<>> /\ set.host > 0
    /\ vram' = Tail(vram) /\ host' = Newest(h, set.host - 1)
    /\ held' = TornDown(Moved(held, {Head(vram)}, "split"), Members(Oldest(h, set.host - 1)))

HitVram(m) == Rewrap!Hit(m) /\ UNCHANGED host

PromoteKeepingHost(m) ==                                        \* mutant of Promote
    /\ m \notin Members(vram) /\ m \in Members(host)
    /\ MakesRoom(host, <<m>>) /\ held' = Moved(SlotsDemoted(host, Leaving), {m}, "device")
    /\ Returns("get_or_load", m, "promoted", {})
PromoteRestoring(m) ==                                          \* mutant of Promote
    /\ m \notin Members(vram) /\ m \in Members(host)
    /\ MakesRoom(host, <<>>) /\ held' = Moved(SlotsDemoted(host, Leaving), {m}, "split")
    /\ Raises("get_or_load", m, "raised")
\* The slot leaves the host tier first: when making room or promoting raises, it is lost.
Promote(m) ==
    LET rest == Without(host, m)
        room == SlotsDemoted(rest, Leaving)
    IN  /\ m \notin Members(vram) /\ m \in Members(host)
        /\ \/ /\ MakesRoom(rest, <<m>>) /\ held' = Moved(room, {m}, "device")
              /\ Returns("get_or_load", m, "promoted", {})
           \/ /\ MakesRoom(rest, <<>>) /\ held' = Moved(room, {m}, "split")
              /\ Raises("get_or_load", m, "raised")
           \/ /\ Leaving # <<>> /\ DemotionRaises(rest)
              /\ Raises("get_or_load", m, "raised")

LoadCold(m) ==
    LET room == SlotsDemoted(host, Leaving)
    IN  /\ m \notin Members(vram) \cup Members(host)
        /\ \/ \E done \in SUBSET BestEffort :
                 /\ Loadable(Describe[m], set) /\ MakesRoom(host, <<m>>)
                 /\ held' = [room EXCEPT ![m] = SlotOf(Describe[m], set, done)]
                 /\ Returns("get_or_load", m, "loaded", done)
           \/ /\ MakesRoom(host, <<>>) /\ held' = room
              /\ Raises("get_or_load", m, Rewrap!Failure(m))
           \/ /\ Leaving # <<>> /\ DemotionRaises(host)
              /\ Raises("get_or_load", m, "raised")

GetOrLoad(m) ==
    /\ set.kind = "tiered"
    /\ HitVram(m) \/ Promote(m) \/ LoadCold(m)
    /\ UNCHANGED set /\ Uses(m)

Evict(m) ==
    /\ set.kind = "tiered"
    /\ vram' = Without(vram, m) /\ host' = Without(host, m)
    /\ held' = TornDown(held, {m} \cap (Members(vram) \cup Members(host)))
    /\ Rewrap!Call("evict", m, "done", NoSlot, {})
    /\ UNCHANGED <<set, recency>>

\* evict_lru demotes to the host tier where there is one.
EvictLru ==
    /\ set.kind = "tiered" /\ vram # <<>>
    /\ \/ /\ vram' = Tail(vram) /\ host' = Demoted(host, <<Head(vram)>>)
          /\ held' = SlotsDemoted(host, <<Head(vram)>>)
          /\ Rewrap!Call("evict_lru", Head(vram), "done", NoSlot, {})
       \/ DemotionRaises(host) /\ Raises("evict_lru", Head(vram), "raised")
    /\ UNCHANGED <<set, recency>>

Next == \/ RewrapCall
        \/ \E m \in Models : Get(m) \/ GetOrLoad(m) \/ Evict(m)
        \/ EvictLru
Spec == Init /\ [][Next]_vars

----------------------------------------------------------------------------
(* Properties *)

\* No model is resident twice, in one tier or in both, whatever raises in between.
TiersDisjoint ==
    /\ Members(vram) \cap Members(host) = {}
    /\ \A s \in {vram, host} : \A i, k \in DOMAIN s : s[i] = s[k] => i = k

\* Neither tier exceeds its slots, not even while a model is exchanged for another.
TiersBounded == Len(vram) <= set.vram /\ Len(host) <= set.host
\* A model the pool serves stands in one slot, of a tier that has that slot.
TiersSound == TiersDisjoint /\ TiersBounded

\* What leaves a tier is what was used least recently: from the oldest host slot to the
\* newest in VRAM, the models stand in the order of their last use.
Before(s, m, n) == \E i, k \in DOMAIN s : i < k /\ s[i] = m /\ s[k] = n
OldestLeavesFirst ==
    LET resident == host \o vram
    IN  \A i, k \in DOMAIN resident :
           i < k => Before(recency, resident[i], resident[k])

\* A tier lists only models whose weights are all there: one whose demotion or promotion
\* raised halfway, or whose slot was torn down, is in neither, and what a call returns is
\* the slot of the model it was asked for, whole and on the device
\* (model_pool.py:502-541, 569-587).
ResidentsAreWhole ==
    /\ \A m \in Members(vram) : held[m].at = "device"
    /\ \A m \in Members(host) : held[m].at = "host"
    /\ Served => last.model \in Members(vram) /\ last.slot = held[last.model]

\* With max_host_slots=0 a tiered pool takes the steps of RewrapModelPool with that pool's
\* own loading (model_pool.py:423): the same models stay, go and are returned, and a load
\* makes the same slot or fails in the same way.  Models the two loaders treat
\* differently are held to the first half only.
RewrapSet == [set EXCEPT !.kind = "rewrap"]
Own == INSTANCE RewrapPool WITH slots <- vram, set <- RewrapSet
LoadedAlike ==
    last.op = "get_or_load" /\ last.result # "hit" =>
       LET model == Describe[last.model]
       IN  /\ Loadable(model, set) = Loadable(model, RewrapSet)
           /\ last.result = "loaded" =>
                 SlotOf(model, set, last.done) = SlotOf(model, RewrapSet, last.done)
LoadsTheSameModels ==
    vram' \in {Own!Room, Append(Own!Room, last'.model)}
StepOfRewrap ==
    \/ UNCHANGED <<vram, held, last>>
    \/ \E m \in Models : Own!Get(m) \/ Own!GetOrLoad(m) \/ Own!Evict(m)
    \/ Own!EvictLru
TieredIsRewrap ==
    [][set.kind = "tiered" /\ set.host = 0 =>
          IF LoadedAlike' THEN StepOfRewrap ELSE LoadsTheSameModels]_vars

\* model_pool.py:423: the pool "behaves identically to RewrapModelPool".
TieredLoadsAlike == [](set.kind = "tiered" /\ set.host = 0 => LoadedAlike)
\* The slots of the rewrap pool can be trained on (model_pool.py:303, FP8Linear kernels
\* "are inference-only"), and a 1-bit base is not loaded in fp16 where the name or the
\* caller says that it is one (quantization.py).
SlotsServe ==
    \A m \in Members(vram) :
       /\ set.kind = "rewrap" => held[m].kernels # "fp8_linear"
       /\ held[m].scheme = "onebit" /\ Consults(Describe[m], set.asked)
             => held[m].dtype # "fp16"
=============================================================================
