------------------------------ MODULE DataPath ------------------------------
(***************************************************************************)
(* One forward_backward from the posted data to the accumulated gradient.  *)
(* The gateway turns the datums into items one by one, awaiting the fetch  *)
(* of their images.  Each rank of the worker takes its share, lays it out  *)
(* in sub-batches and runs one forward and one backward per sub-batch;     *)
(* both are collectives of the sharded model, which averages the gradient  *)
(* over the ranks.  Rank 0 reports what it has seen.                       *)
(***************************************************************************)
EXTENDS TrainingBatch

CONSTANTS Posts,       \* requests: [data, loss, perDatum]
          Setups,      \* workers: [dp, strategy, packing, maxPacked, vlm]
          MaxImages, MaxBytes

\* A tensor as it is posted: integers, in rows that are not empty.
Tensor(td) ==
    /\ td.sparse \in BOOLEAN /\ td.shape \in Seq(Nat) /\ (Len(td.shape) = 2 => td.shape[2] # 0)
    /\ {td.data, td.cols, td.vals, td.crow} \subseteq Seq(Int)

\* The losses but cross_entropy are posted with hard labels and, for each datum, at least a
\* weight and an old logprob per id, if any, and no more than one for a text of one token.
Fitted(d) ==
    \A f \in DOMAIN d.inputs :
        IF f = "target_tokens" THEN Len(d.inputs[f].shape) < 2
        ELSE LET n == Len(Reshape(d.inputs[f]).rows)
             IN  n >= Len(d.ids) /\ (Len(Text(d.ids)) = 1 => n = 1)

\* A datum has some text, and its tensors are integers.
ASSUME DataPathAssumption ==
    /\ MaxImages \in Nat /\ MaxBytes \in Nat
    /\ \A p \in Posts :
           /\ p.data \in Seq(ToSet(p.data)) \ {<<>>}
           /\ \A d \in ToSet(p.data) :
                  /\ {d.ids, Text(d.ids)} \subseteq Seq(Int) \ {<<>>}
                  /\ \A f \in DOMAIN d.inputs : Tensor(d.inputs[f])
                  /\ p.loss # "cross_entropy" => Fitted(d)
           /\ p.loss \in {"cross_entropy", "gspo", "orpo"}
    /\ \A s \in Setups : /\ s.dp \in Nat \ {0} /\ s.strategy \in {"auto", "split", "replicate"}
                        /\ s.maxPacked \in Nat

VARIABLES post, setup,
          items,     \* what the gateway has made of the datums so far
          status,    \* of the request: "parsing", "queued", "refused"
          stage,     \* each rank: "idle", "forward", "backward", "done", "raised"
          batches,   \* each rank's sub-batches
          pass,      \* each rank's sub-batch in hand
          grad,      \* the averaged gradient: a fraction for each <<item, position, k>>
          pairs,     \* the pairs orpo has compared
          report     \* rank 0's counters and outputs, once it is done
passVars == <<post, setup, items, status, stage, batches, pass, grad, pairs, report>>

DPRanks == 0 .. setup.dp - 1
NoReport == [sequences |-> 0, tokens |-> 0, outputs |-> 0]

PassInit ==
    /\ post \in Posts /\ setup \in Setups
    /\ items = <<>> /\ status = "parsing"
    /\ stage = [r \in DPRanks |-> "idle"] /\ batches = [r \in DPRanks |-> <<>>]
    /\ pass = [r \in DPRanks |-> 1]
    /\ grad = <<>> /\ pairs = {} /\ report = NoReport

-----------------------------------------------------------------------------
(* The gateway.                                                            *)

Datum == post.data[Len(items) + 1]
Seen(n) == SubSeq(post.data, 1, n)
BatchPointers(n) == FoldLeft(LAMBDA a, d : a + Pointers(d), 0, Seen(n))
BatchBytes(n) == FoldLeft(LAMBDA a, d : a + ImageBytes(d, Len(d.images)), 0, Seen(n))

ImagesAccepted ==
    LET n == Len(items) + 1
    IN  /\ BatchPointers(n) <= MaxImages
        /\ ImagesResolve(Datum, MaxImages, MaxBytes)
        /\ BatchBytes(n) <= MaxBytes

Refuse ==
    /\ status' = "refused"
    /\ UNCHANGED <<post, setup, items, stage, batches, pass, grad, pairs, report>>

\* A fetch that fails, too many images or bytes, or a tensor that makes no sense.
Reject ==
    /\ status = "parsing"
    /\ Pointers(Datum) > 0 \/ ~ImagesAccepted \/ ~WellFormed(TrainingItem(Datum))
    /\ Refuse

Parse ==
    /\ status = "parsing"
    /\ ImagesAccepted /\ WellFormed(TrainingItem(Datum))
    /\ items' = Append(items, TrainingItem(Datum))
    /\ status' = IF Len(items') = Len(post.data) THEN "queued" ELSE "parsing"
    /\ UNCHANGED <<post, setup, stage, batches, pass, grad, pairs, report>>

-----------------------------------------------------------------------------
(* The ranks.                                                              *)

MyShare(r) == Share(setup.strategy, Len(items), setup.dp, r)

Read == IF setup.vlm THEN [i \in DOMAIN items |-> Stripped(items[i])] ELSE items

\* mutant of Packs: whether logprobs per datum are asked for is not looked at
PacksAnyway(r) == setup.packing /\ Packable(items, MyShare(r))
Packs(r) == setup.packing /\ ~post.perDatum /\ Packable(items, MyShare(r))

SubBatches(r) ==
    IF Packs(r)
    THEN LET bins == Bins(items, MyShare(r), PackLimit(items, MyShare(r), setup.maxPacked))
         IN  [b \in DOMAIN bins |-> <<PackedRow(items, bins[b])>>]
    ELSE <<Padded(Read, MyShare(r))>>

\* pack_sequences checks the lengths of the labels, the padded path what it lines up.
PrepareRaises(r) ==
    \/ AllocationRaises(setup.strategy, Len(items), setup.dp)
    \/ IF Packs(r) THEN \E i \in ToSet(MyShare(r)) : Len(items[i].labels.rows) # Len(items[i].ids)
       ELSE CollateRaises(Read, MyShare(r))

Prepare(r) ==
    /\ status = "queued" /\ stage[r] = "idle"
    /\ IF PrepareRaises(r)
       THEN stage' = [stage EXCEPT ![r] = "raised"] /\ UNCHANGED batches
       ELSE /\ stage' = [stage EXCEPT ![r] = "forward"]
            /\ batches' = [batches EXCEPT ![r] = SubBatches(r)]
    /\ UNCHANGED <<post, setup, items, status, pass, grad, pairs, report>>

Rows(r) == batches[r][pass[r]]
LossFails(r) ==
    \/ LossRaises(post.loss, Rows(r),
                  ~Packs(r) /\ \E i \in ToSet(MyShare(r)) : items[i].logprobs # Absent)
    \/ ~Packs(r) /\ Clash(Read, MyShare(r), post.loss)

\* The forward gathers the shards: all ranks, or none.  Then each computes its loss.
Forward ==
    /\ \A r \in DPRanks : stage[r] = "forward"
    /\ stage' = [r \in DPRanks |-> IF LossFails(r) THEN "raised" ELSE "backward"]
    /\ UNCHANGED <<post, setup, items, status, batches, pass, grad, pairs, report>>

\* A rank's sub-batches have their parts in the gradient by their counts of targets.
TokenTotal(r) ==
    Max({SumFunction([b \in DOMAIN batches[r] |-> TargetCount(batches[r][b])]), 1})
\* mutant of Scale: sub-batches count alike
ScaleAlike(r) == [n |-> 1, d |-> Len(batches[r])]
Scale(r) == [n |-> TargetCount(Rows(r)), d |-> TokenTotal(r)]

Keys(r) == {s \in Slots(Rows(r)) : Rows(r)[s[1]][s[2]].item # 0}
KeyOf(r, s) == <<Rows(r)[s[1]][s[2]].item, Rows(r)[s[1]][s[2]].pos, s[3]>>

\* What rank r adds for a key: its own scaled share, over the number of ranks.
Contribution(r, key) ==
    FoldFunction(Plus, Zero,
                 [s \in {x \in Keys(r) : KeyOf(r, x) = key} |->
                    Times(Times(CellShare(post.loss, Rows(r), s), Scale(r)), [n |-> 1, d |-> setup.dp])])

OldGrad(key) == IF key \in DOMAIN grad THEN grad[key] ELSE Zero

Reduced(key) == FoldFunction(Plus, OldGrad(key), [r \in DPRanks |-> Contribution(r, key)])

\* What rank 0 adds to the session's counters (of the last sub-batch in hand) and the
\* logprobs it returns for its own rows.
Reported ==
    [sequences |-> Len(Last(batches[0])), tokens |-> TokenTotal(0),
     outputs |-> IF post.perDatum THEN Len(batches[0][1]) ELSE 0]

Backward ==
    /\ \A r \in DPRanks : stage[r] = "backward"
    /\ LET touched == UNION {{KeyOf(r, s) : s \in Keys(r)} : r \in DPRanks}
       IN  grad' = [key \in DOMAIN grad \cup touched |-> Reduced(key)]
    /\ pairs' = IF post.loss = "orpo" THEN pairs \cup UNION {PairsOf(Rows(r)) : r \in DPRanks}
                ELSE pairs
    /\ stage' = [r \in DPRanks |-> IF pass[r] = Len(batches[r]) THEN "done" ELSE "forward"]
    /\ pass' = [r \in DPRanks |-> IF pass[r] = Len(batches[r]) THEN pass[r] ELSE pass[r] + 1]
    /\ report' = IF pass[0] = Len(batches[0]) THEN Reported ELSE report
    /\ UNCHANGED <<post, setup, items, status, batches>>

PassNext == Reject \/ Parse \/ Forward \/ Backward \/ \E r \in DPRanks : Prepare(r)

PassSpec == PassInit /\ [][PassNext]_passVars

-----------------------------------------------------------------------------
(* Properties.                                                             *)

Replicated == setup.dp = 1 \/ Resolved(setup.strategy, Len(items), setup.dp) = "replicate"
Finished == \A r \in DPRanks : stage[r] = "done"

PassTyped ==
    /\ status \in {"parsing", "queued", "refused"}
    /\ Len(items) <= Len(post.data) /\ \A i \in DOMAIN items : WellFormed(items[i])
    /\ stage \in [DPRanks -> {"idle", "forward", "backward", "done", "raised"}]
    /\ \A r \in DPRanks : /\ pass[r] \in 1 .. Max({Len(batches[r]), 1})
                          /\ stage[r] \in {"forward", "backward"} =>
                                 Rows(r) # <<>> /\ \A b \in DOMAIN Rows(r) : Rows(r)[b] # <<>>
    /\ \A key \in DOMAIN grad : key[1] \in DOMAIN items /\ grad[key].d > 0

(* Sparse weights reach the item whole: as long as the positions are distinct and
   inside the vector, each value is at its own position and no other weight is set. *)
SparseIsWhole ==
    \A i \in DOMAIN items :
        LET td == post.data[i].inputs["weights"]
        IN  "weights" \in DOMAIN post.data[i].inputs /\ td.sparse /\ Len(td.shape) = 1 =>
            /\ Len(items[i].weights.rows) = td.shape[1]
            /\ (\A m, n \in DOMAIN td.cols : td.cols[m] \in 0 .. td.shape[1] - 1
                                             /\ (m # n => td.cols[m] # td.cols[n])) =>
                 /\ \A n \in DOMAIN td.cols : items[i].weights.rows[td.cols[n] + 1] = <<td.vals[n]>>
                 /\ SumFunction([t \in DOMAIN items[i].weights.rows |-> items[i].weights.rows[t][1]])
                      = SumFunction(td.vals)

(* Every item is trained on: by every rank when the batch is replicated, by exactly
   one rank when it is split, in one cell of one sub-batch for each position. *)
TimesTrained(r, i) ==
    Cardinality({bs \in UNION {{<<b, s>> : s \in Slots(batches[r][b])} : b \in DOMAIN batches[r]} :
                    LET cell == batches[r][bs[1]][bs[2][1]][bs[2][2]]
                    IN  cell.item = i /\ cell.pos = 1 /\ bs[2][3] = 1})
EachItemTrained ==
    (\A r \in DPRanks : stage[r] \in {"forward", "backward", "done"}) =>
        \A i \in {j \in DOMAIN items : Read[j].ids # <<>>} :
            LET trained == {r \in DPRanks : TimesTrained(r, i) > 0}
            IN  /\ trained = DPRanks \/ (~Replicated /\ Cardinality(trained) = 1)
                /\ \A r \in trained : TimesTrained(r, i) = 1

(* A pack is no longer than max_packed_len unless it is one document alone, and no two
   packs would fit in one: first fit leaves nothing to gain by merging. *)
PackSize(r, b) == Len(batches[r][b][1])
PacksAreFull ==
    \A r \in DPRanks : stage[r] # "idle" /\ setup.packing /\ setup.maxPacked > 0 /\ Len(batches[r]) > 1 =>
        \A b \in DOMAIN batches[r] :
            /\ PackSize(r, b) <= setup.maxPacked
               \/ Cardinality(ItemsOf(batches[r][b][1])) = 1
            /\ \A c \in DOMAIN batches[r] \ {b} :
                   PackSize(r, b) + PackSize(r, c) > setup.maxPacked

(* From the wire to the passes: an item arrives whole, is trained once, in full packs. *)
ItemsWhole == SparseIsWhole /\ EachItemTrained /\ PacksAreFull

(* The reference: the gradient of the whole request on one rank in one forward, each
   item's weights its own, or one on every target when it has none. *)
Wanted(i, t, j) ==
    IF Read[i].labels.rows[t][j] = Masked THEN 0
    ELSE IF Read[i].weights = Absent THEN 1
    ELSE IF j \in DOMAIN Read[i].weights.rows[t] THEN Read[i].weights.rows[t][j] ELSE 0
Targets(S) == UNION {{<<i, t, j>> : t \in DOMAIN Read[i].ids, j \in 1 .. Len(Read[i].labels.rows[1])}
                     : i \in S}
WantedTotal(S) == SumFunction([k \in S |-> Wanted(k[1], k[2], k[3])])
WantedGrad(key, S) ==
    [n |-> Wanted(key[1], key[2], key[3]),
     d |-> IF post.loss = "cross_entropy" THEN Max({WantedTotal(S), 1})
           ELSE Max({WantedTotal({k \in S : k[1] = key[1]}), 1}) * Len(items)]

(* The first position of a document, which packing masks. *)
Unpacked(S) == IF \E r \in DPRanks : Packs(r) THEN {k \in S : k[2] # 1} ELSE S
\* The ranks see equal numbers of weighted targets, none of them of negative weight.
Even ==
    /\ \A q, r \in DPRanks :
           WantedTotal(Unpacked(Targets(ToSet(MyShare(q))))) = WantedTotal(Unpacked(Targets(ToSet(MyShare(r)))))
    /\ \A key \in Targets(DOMAIN items) : Wanted(key[1], key[2], key[3]) >= 0
\* An item's labels and weights are as many as its ids, and of one width.
Square(item) ==
    /\ Len(item.labels.rows) = Len(item.ids)
    /\ item.weights # Absent => Len(item.weights.rows) = Len(item.ids)
    /\ item.weights.dim = 2 => \A t \in DOMAIN item.weights.rows :
                                   Len(item.weights.rows[t]) = Len(item.labels.rows[1])
\* No item of width 1, or without weights, is among items with soft labels.
Uniform ==
    \A i \in DOMAIN items :
        /\ Square(Read[i]) /\ items[i].labels.dim = items[1].labels.dim
        /\ items[i].labels.dim = 2 => items[i].weights # Absent

(* The gradient left after all passes is the one of the whole request: through padding,
   packs and their scales, replication, and splits, for token means as long as the ranks'
   shares weigh the same, for sequence means always.  Packs are of texts without
   placeholders: packing does not cut them out. *)
GradientIsWhole ==
    Finished /\ post.loss \in {"cross_entropy", "gspo"} /\ Uniform
             /\ (\A r, q \in DPRanks : Packs(r) = Packs(q)) /\ (Packs(0) => Read = items)
             /\ (Replicated \/ Even \/ post.loss = "gspo") =>
        LET S == Unpacked(Targets(DOMAIN items))
        IN  \A key \in S : Same(OldGrad(key), WantedGrad(key, S))

(* orpo compares what the client put side by side: the pairs are the items 2p - 1 and
   2p of the request, all of them, whatever rank has them. *)
PairsKept ==
    Finished /\ post.loss = "orpo" =>
        pairs = {<<{2 * p - 1}, {2 * p}>> : p \in 1 .. Len(items) \div 2}

(* No rank waits in a collective for another that is not coming: once all have taken their
   shares they are in the same collective, or all have ended, when the ranks have the same
   work or the batch is split without packing among well-shaped items that all have what
   the loss needs.  With no wait but the collectives this is also why requests end. *)
SameWork ==
    \/ setup.dp = 1 \/ Replicated
    \/ /\ ~setup.packing \/ post.perDatum
       /\ \A i \in DOMAIN items :
              /\ Square(Read[i]) /\ items[i].labels.dim = 1 /\ items[i].weights.dim # 2
              /\ Over(Read[i], items[i].logprobs) = 0
              /\ items[i].logprobs.dim = items[1].logprobs.dim
Together == \/ \A r \in DPRanks : stage[r] = "forward"
            \/ \A r \in DPRanks : stage[r] = "backward"
            \/ \A r \in DPRanks : stage[r] \in {"done", "raised"}
NoneWaitsAlone == SameWork /\ (\A r \in DPRanks : stage[r] # "idle") => Together

-----------------------------------------------------------------------------
(* What the code's own text says and the code does not do (see the README). *)

(* "Both modes produce the same gradient" (batching.py:57): a split batch is trained on
   as it would be replicated. *)
SplitAsReplicated ==
    Finished /\ post.loss = "cross_entropy" /\ Uniform /\ (\A r \in DPRanks : ~Packs(r)) =>
        \A key \in Targets(DOMAIN items) : Same(OldGrad(key), WantedGrad(key, Targets(DOMAIN items)))

(* The sub-batches of a packed batch give the gradient of the single forward. *)
PackedAsPadded ==
    Finished /\ post.loss = "cross_entropy" /\ Replicated =>
        \A key \in Targets(DOMAIN items) :
            Uniform => Same(OldGrad(key), WantedGrad(key, Targets(DOMAIN items)))

(* A packed or split batch adds all its sequences to the session's count. *)
SequencesCounted == Finished => report.sequences = Len(items)

(* The logprobs asked for come back for every datum. *)
OutputPerDatum == Finished /\ post.perDatum => report.outputs = Len(items)

(* The ranks of a group make the same collectives whatever their shares. *)
AllTogether == (\A r \in DPRanks : stage[r] # "idle") => Together

(* orpo takes every batch with an even number of sequences. *)
OrpoTakesEven ==
    post.loss = "orpo" /\ Len(items) = Len(post.data) /\ Len(items) % 2 = 0 =>
        \A r \in DPRanks : stage[r] # "raised"

(* orpo averages a response over its targets when no weights are given. *)
OrpoOverTargets ==
    Finished /\ post.loss = "orpo" =>
        \A key \in Targets(DOMAIN items) :
            Same(OldGrad(key), [n |-> 2 * WantedGrad(key, Targets(DOMAIN items)).n,
                                d |-> WantedGrad(key, Targets(DOMAIN items)).d])

(* A batch with more images than the limit is refused. *)
ImagesBounded ==
    status = "queued" => FoldLeft(LAMBDA a, d : a + Len(d.images), 0, post.data) <= MaxImages
=============================================================================
