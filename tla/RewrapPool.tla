----------------------------- MODULE RewrapPool -----------------------------
(***************************************************************************)
(* RewrapModelPool: at most set.vram base models, the least recently used  *)
(* torn down before another is loaded.  An ordered dict is the sequence of *)
(* its keys.  Calls are synchronous, so each is a step.                    *)
(***************************************************************************)
EXTENDS BaseLoading, Naturals, Sequences
CONSTANTS Models, Describe
VARIABLES set,      \* the settings of the pool
          slots,    \* the resident models, least recently used first
          held,     \* the PoolSlot a model last had, and where its weights are at
          last      \* the last call and what it came to

Members(s) == {s[i] : i \in DOMAIN s}
\* dict.pop, move_to_end and popitem(last=False) of an ordered dict
Without(s, m) ==
    IF m \in Members(s)
    THEN LET i == CHOOSE i \in DOMAIN s : s[i] = m
         IN  SubSeq(s, 1, i - 1) \o SubSeq(s, i + 1, Len(s))
    ELSE s
ToEnd(s, m) == Append(Without(s, m), m)
Newest(s, n) == IF Len(s) <= n THEN s ELSE SubSeq(s, Len(s) - n + 1, Len(s))
Oldest(s, n) == IF Len(s) <= n THEN <<>> ELSE SubSeq(s, 1, Len(s) - n)

\* _teardown_slot of those of the models that have a slot to give up
TornDown(f, models) == [m \in Models |-> IF m \in models THEN NoSlot ELSE f[m]]

Call(op, m, result, slot, done) ==
    last' = [op |-> op, model |-> m, result |-> result, slot |-> slot, done |-> done]
Returns(op, m, result, done) == Call(op, m, result, held'[m], done)
Raises(op, m, result) == Call(op, m, result, NoSlot, {})
\* The loader may fail on any model.
Failure(m) == IF Loadable(Describe[m], set) THEN "raised" ELSE "unloadable"

Get(m) ==
    /\ UNCHANGED <<set, held>>
    /\ IF m \in Members(slots)
       THEN slots' = ToEnd(slots, m) /\ Returns("get", m, "hit", {})
       ELSE UNCHANGED slots /\ Call("get", m, "none", NoSlot, {})

\* Room is made before the model is loaded, and stays made when loading fails.
Room == Newest(slots, set.vram - 1)
Roomier == TornDown(held, Members(Oldest(slots, set.vram - 1)))
Hit(m) ==
    /\ m \in Members(slots)
    /\ slots' = ToEnd(slots, m) /\ UNCHANGED held
    /\ Returns("get_or_load", m, "hit", {})
Load(m, done) ==
    /\ m \notin Members(slots) /\ Loadable(Describe[m], set)
    /\ slots' = Append(Room, m)
    /\ held' = [Roomier EXCEPT ![m] = SlotOf(Describe[m], set, done)]
    /\ Returns("get_or_load", m, "loaded", done)
LoadFails(m) ==
    /\ m \notin Members(slots)
    /\ slots' = Room /\ held' = Roomier
    /\ Raises("get_or_load", m, Failure(m))
GetOrLoad(m) ==
    /\ UNCHANGED set
    /\ Hit(m) \/ LoadFails(m) \/ \E done \in SUBSET BestEffort : Load(m, done)

Evict(m) ==
    /\ slots' = Without(slots, m) /\ held' = TornDown(held, {m} \cap Members(slots))
    /\ Call("evict", m, "done", NoSlot, {}) /\ UNCHANGED set
EvictLru ==
    /\ slots # <<>>
    /\ slots' = Tail(slots) /\ held' = TornDown(held, {Head(slots)})
    /\ Call("evict_lru", Head(slots), "done", NoSlot, {}) /\ UNCHANGED set

Next == \/ \E m \in Models : Get(m) \/ GetOrLoad(m) \/ Evict(m)
        \/ EvictLru
=============================================================================
