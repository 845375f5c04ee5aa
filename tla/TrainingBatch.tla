--------------------------- MODULE TrainingBatch ---------------------------
(***************************************************************************)
(* The data of a forward_backward, from the posted datums to the share of  *)
(* each loss term in the gradient: what the Tinker API makes of a datum,   *)
(* which items a rank of the worker trains on, how they are laid out in    *)
(* rows, and how a loss weighs the cells of the rows.  Token ids are 1     *)
(* (text), Vision (a placeholder) and Masked (the -100 of a label); a      *)
(* tensor is its rank and its rows, where a tensor of rank 1 has rows of   *)
(* one entry.  A conversion that raises is Raised.                         *)
(***************************************************************************)
EXTENDS Integers, Sequences, SequencesExt, FiniteSetsExt

Vision == 9
Masked == -100
Absent == [dim |-> 0, rows |-> <<>>]      \* no such field
Raised == [dim |-> -1, rows |-> <<>>]     \* the conversion raised

Vector(s) == [dim |-> 1, rows |-> [i \in DOMAIN s |-> <<s[i]>>]]
Matrix(s) == [dim |-> 2, rows |-> s]

-----------------------------------------------------------------------------
(* The gateway.  A TensorData is [shape, data, cols, vals, crow]; cols is  *)
(* <<>> and sparse is FALSE for a dense one.                               *)

\* The entry a vector gets at index i: the last value given for it.
EntryAt(td, i) ==
    LET hits == {j \in DOMAIN td.cols : td.cols[j] = i}
    IN  IF hits = {} THEN 0 ELSE td.vals[Max(hits)]

ExpandVector(td) == Vector([i \in 1 .. td.shape[1] |-> EntryAt(td, i - 1)])

\* One row of CSR data: a negative column counts from the end, as in Python.
ExpandRow(td, i) ==
    [c \in 1 .. td.shape[2] |->
        LET hits == {k \in td.crow[i] + 1 .. td.crow[i + 1] : td.cols[k] % td.shape[2] = c - 1}
        IN  IF hits = {} THEN 0 ELSE td.vals[Max(hits)]]

RowsInRange(td) ==
    /\ Len(td.crow) > td.shape[1]
    /\ \A i \in 1 .. td.shape[1] : \A k \in td.crow[i] + 1 .. td.crow[i + 1] :
           k \in DOMAIN td.cols /\ td.cols[k] \in -td.shape[2] .. td.shape[2] - 1

ExpandSparse(td) ==
    IF td.shape = <<>> \/ Len(td.cols) # Len(td.vals) THEN Raised
    ELSE IF Len(td.shape) = 1 \/ (Len(td.shape) = 2 /\ td.crow = <<>>) THEN ExpandVector(td)
    ELSE IF Len(td.shape) = 2 /\ RowsInRange(td)
         THEN Matrix([i \in 1 .. td.shape[1] |-> ExpandRow(td, i)])
    ELSE Raised

\* Rows of k entries as the data gives them, the last one shorter if it must be.
Chunks(data, k) ==
    [i \in 1 .. (Len(data) + k - 1) \div k |->
        SubSeq(data, (i - 1) * k + 1, Min({i * k, Len(data)}))]

Reshape(td) ==
    IF td.sparse THEN ExpandSparse(td)
    ELSE IF Len(td.shape) <= 1 THEN Vector(td.data)
    ELSE IF Len(td.shape) = 2 THEN Matrix(Chunks(td.data, td.shape[2]))
    ELSE Raised

\* Sum of the sizes of a datum's images, up to and with the j-th.
ImageBytes(datum, j) ==
    FoldLeft(LAMBDA a, im : a + im.size, 0, SubSeq(datum.images, 1, j))
Pointers(datum) == Len(SelectSeq(datum.images, LAMBDA im : im.pointer))

\* _resolve_image_asset_pointers: the size is only looked at after a fetch.
ImagesResolve(datum, maxImages, maxBytes) ==
    /\ Len(datum.images) <= maxImages
    /\ \A j \in DOMAIN datum.images :
           datum.images[j].pointer => ImageBytes(datum, j) <= maxBytes

Given(datum, field) == IF field \in DOMAIN datum.inputs THEN Reshape(datum.inputs[field]) ELSE Absent

\* The item a datum becomes.  Unknown inputs are dropped.
TrainingItem(datum) ==
    [ids |-> datum.ids,
     labels |-> IF "target_tokens" \in DOMAIN datum.inputs
                THEN Reshape(datum.inputs["target_tokens"]) ELSE Vector(datum.ids),
     weights |-> Given(datum, "weights"),
     logprobs |-> Given(datum, "logprobs"),
     images |-> datum.images # <<>>]

\* Old logprobs of rank 2 are refused; so is anything Reshape raises on.
WellFormed(item) ==
    /\ Raised \notin {item.labels, item.weights, item.logprobs}
    /\ item.logprobs.dim # 2

-----------------------------------------------------------------------------
(* The ranks of a data-parallel worker.  A batch is a sequence of indices  *)
(* of items.                                                               *)

Resolved(strategy, total, dp) ==
    IF strategy = "auto" THEN (IF total % dp = 0 THEN "split" ELSE "replicate") ELSE strategy

AllocationRaises(strategy, total, dp) ==
    dp > 1 /\ Resolved(strategy, total, dp) = "split" /\ total % dp # 0

\* mutant of Share: every rank's part starts one after the last rank's start
ShareOverlapping(strategy, total, dp, r) ==
    IF dp = 1 \/ Resolved(strategy, total, dp) = "replicate"
    THEN [i \in 1 .. total |-> i]
    ELSE [i \in 1 .. total \div dp |-> r + i]
\* mutant of Share: items dealt out in turn
ShareDealt(strategy, total, dp, r) ==
    IF dp = 1 \/ Resolved(strategy, total, dp) = "replicate"
    THEN [i \in 1 .. total |-> i]
    ELSE [i \in 1 .. total \div dp |-> (i - 1) * dp + r + 1]
\* The items of rank r out of 1 .. total.
Share(strategy, total, dp, r) ==
    IF dp = 1 \/ Resolved(strategy, total, dp) = "replicate"
    THEN [i \in 1 .. total |-> i]
    ELSE [i \in 1 .. total \div dp |-> r * (total \div dp) + i]

-----------------------------------------------------------------------------
(* Packing: first-fit decreasing over the lengths.                         *)

Size(items, S) == SumFunction([i \in S |-> Len(items[i].ids)])

\* Longest first, equal lengths in the order of the request.
Precedes(items, i, j) ==
    \/ Len(items[i].ids) > Len(items[j].ids)
    \/ Len(items[i].ids) = Len(items[j].ids) /\ i < j
ByLength(items, share) ==
    [n \in 1 .. Cardinality(ToSet(share)) |->
        CHOOSE i \in ToSet(share) :
            Cardinality({j \in ToSet(share) : Precedes(items, j, i)}) = n - 1]

Place(items, limit, bins, i) ==
    LET roomy == {b \in DOMAIN bins : Size(items, bins[b] \cup {i}) <= limit}
    IN  IF roomy = {} THEN Append(bins, {i})
        ELSE [bins EXCEPT ![Min(roomy)] = @ \cup {i}]

Bins(items, share, limit) ==
    FoldLeft(LAMBDA bins, i : Place(items, limit, bins, i), <<>>, ByLength(items, share))

\* max_packed_len, or one pack of everything when it is not set (0).
PackLimit(items, share, maxPacked) ==
    IF maxPacked > 0 THEN maxPacked ELSE Max({Size(items, ToSet(share)), 1})

Packable(items, share) ==
    \A i \in ToSet(share) :
        items[i].weights = Absent /\ items[i].logprobs = Absent
        /\ ~items[i].images /\ items[i].labels.dim # 2

-----------------------------------------------------------------------------
(* Rows.  A cell is [item, pos, labels, weights]: one label and one weight *)
(* for each k of the batch; item 0 is padding.                             *)

\* A document of a packed row: its first label is masked.
PackedDoc(items, i) ==
    [t \in DOMAIN items[i].ids |->
        [item |-> i, pos |-> t, weights |-> <<1>>,
         labels |-> IF t = 1 THEN <<Masked>> ELSE items[i].labels.rows[t]]]

\* The documents of a pack in the order of the request.
InOrder(bin) ==
    [n \in 1 .. Cardinality(bin) |->
        CHOOSE i \in bin : Cardinality({j \in bin : j < i}) = n - 1]

PackedRow(items, bin) ==
    FlattenSeq([n \in DOMAIN InOrder(bin) |-> PackedDoc(items, InOrder(bin)[n])])

\* The entries of s at the indices in S, in their order.
Kept(s, S) == [n \in DOMAIN InOrder(S) |-> s[InOrder(S)[n]]]
Without(s, x) == Kept(s, {n \in DOMAIN s : s[n] # x})

\* Without images a vision model's placeholders are cut out of ids and 1-D labels.
Text(s) == Without(s, Vision)
TextLabels(labels) ==
    IF labels.dim = 1 THEN [labels EXCEPT !.rows = Without(@, <<Vision>>)] ELSE labels
Stripped(item) ==
    IF item.images THEN item
    ELSE [item EXCEPT !.ids = Text(@), !.labels = TextLabels(@)]

\* The width of the labels: K of the first item with labels of rank 2.
Width(items, share) ==
    LET soft == {n \in DOMAIN share : items[share[n]].labels.dim = 2
                                       /\ items[share[n]].labels.rows # <<>>}
    IN  IF soft = {} THEN 0 ELSE Len(items[share[Min(soft)]].labels.rows[1])

Widened(x, k, filler) == [j \in 1 .. k |-> IF j = 1 THEN x[1] ELSE filler]

\* Labels that are short of the ids are padded like the ends of rows.
LabelAt(item, t, k) ==
    IF t \notin DOMAIN item.labels.rows THEN Widened(<<Masked>>, Max({k, 1}), Masked)
    ELSE IF k = 0 \/ item.labels.dim = 2 THEN item.labels.rows[t]
    ELSE Widened(item.labels.rows[t], k, Masked)

\* An item without weights beside others with: one each, or none at all when 2-D.
WeightAt(item, t, k, weighted) ==
    IF ~weighted THEN Widened(<<1>>, Max({k, 1}), 1)
    ELSE IF item.weights = Absent
         THEN (IF k = 0 THEN <<1>> ELSE Widened(<<0>>, k, 0))
    ELSE IF k = 0 \/ item.weights.dim = 2 THEN item.weights.rows[t]
    ELSE Widened(item.weights.rows[t], k, 0)

PadCell(k) ==
    [item |-> 0, pos |-> 0, labels |-> Widened(<<Masked>>, Max({k, 1}), Masked),
     weights |-> Widened(<<0>>, Max({k, 1}), 0)]

PaddedRow(items, i, maxLen, k, weights) ==
    [t \in 1 .. maxLen |->
        IF t > Len(items[i].ids) THEN PadCell(k)
        ELSE [item |-> i, pos |-> t, labels |-> LabelAt(items[i], t, k), weights |-> weights[t]]]

Weighted(items, share) == \E i \in ToSet(share) : items[i].weights # Absent
MaxLen(items, share) == Max({Len(items[i].ids) : i \in ToSet(share)})

\* How many rows more than ids a tensor has: the padding goes by the ids alone.
Over(item, tensor) == IF tensor = Absent THEN 0 ELSE Len(tensor.rows) - Len(item.ids)
LabelOvers(items, share) == {Over(items[i], items[i].labels) : i \in ToSet(share)}
WeightOvers(items, share) == {Over(items[i], items[i].weights) : i \in ToSet(share)}
LogprobOvers(items, share) == {Over(items[i], items[i].logprobs) : i \in ToSet(share)}

\* The widths of the weights' rows: K but for items with weights of rank 2 and no padding.
WeightWidths(items, share) ==
    (UNION {{Len(items[i].weights.rows[t]) : t \in DOMAIN items[i].weights.rows} :
            i \in {j \in ToSet(share) : items[j].weights.dim = 2}})
    \cup {Width(items, share) : i \in {j \in ToSet(share) : items[j].weights.dim # 2
                                         \/ Len(items[j].ids) < MaxLen(items, share)}}

\* What raises while an item's rows are built.  Only hard labels are counted.
Malformed(item, k, weighted) ==
    \/ k = 0 /\ Len(item.labels.rows) # Len(item.ids)
    \/ k > 0 /\ item.labels.rows = <<>>
    \/ k > 0 /\ item.labels.dim = 2 /\ \E t \in DOMAIN item.labels.rows :
                                            Len(item.labels.rows[t]) # k
    \/ weighted /\ item.weights # Absent
       /\ IF k = 0 THEN item.weights.dim = 2 /\ item.weights.rows # <<>> ELSE item.weights.rows = <<>>

\* A tensor is made of rows of one length only.
CollateRaises(items, share) ==
    LET weighted == Weighted(items, share)
    IN  \/ \E i \in ToSet(share) : Malformed(items[i], Width(items, share), weighted)
        \/ \E S \in {LabelOvers(items, share), LogprobOvers(items, share)}
                   \cup (IF weighted THEN {WeightOvers(items, share), WeightWidths(items, share)} ELSE {}) :
               \E x, y \in S : x # y

\* Every label of the batch has a weight of its own.
Level(items, share) ==
    /\ Weighted(items, share) \/ Width(items, share) = 0
    /\ \A i \in ToSet(share) :
           /\ Over(items[i], items[i].labels) = 0 /\ Over(items[i], items[i].weights) = 0
           /\ items[i].weights.dim = 2 => \A t \in DOMAIN items[i].weights.rows :
                                               Len(items[i].weights.rows[t]) = Width(items, share)

\* The sizes of the labels and of the weights.  Without weights the mask of the ids stands
\* for them, whose two axes meet the last two of soft labels.
LabelShape(items, share) ==
    <<Len(share), MaxLen(items, share) + Max(LabelOvers(items, share)), Max({Width(items, share), 1})>>
WeightShape(items, share) ==
    IF Weighted(items, share)
    THEN <<Len(share), MaxLen(items, share) + Max(WeightOvers(items, share)),
           Max(WeightWidths(items, share) \cup {1})>>
    ELSE <<1, Len(share), MaxLen(items, share)>>
Broadcasts(d, e) == \A a \in DOMAIN d : d[a] = e[a] \/ 1 \in {d[a], e[a]}

\* The weight of entry x of a tensor of that shape.
WeightIn(items, share, x) ==
    IF ~Weighted(items, share) THEN (IF x[3] <= Len(items[share[x[2]]].ids) THEN 1 ELSE 0)
    ELSE LET item == items[share[x[1]]]
         IN  IF x[2] > Len(item.ids) + Over(item, item.weights) THEN 0
             ELSE WeightAt(item, x[2], Width(items, share), TRUE)[x[3]]

\* What multiplies label s of a batch that is not level: torch stretches axes of size 1.
SpreadWeight(items, share, s) ==
    LET label == LabelShape(items, share)
        size == WeightShape(items, share)
        met == {x \in (1 .. size[1]) \X (1 .. size[2]) \X (1 .. size[3]) :
                   \A a \in 1 .. 3 : 1 \in {label[a], size[a]} \/ x[a] = s[a]}
    IN  SumFunction([x \in met |-> WeightIn(items, share, x)])

RowWeights(items, share, n) ==
    LET k == Width(items, share)
    IN  [t \in DOMAIN items[share[n]].ids |->
            IF Level(items, share) THEN WeightAt(items[share[n]], t, k, Weighted(items, share))
            ELSE [j \in 1 .. Max({k, 1}) |-> SpreadWeight(items, share, <<n, t, j>>)]]

Padded(items, share) ==
    [n \in DOMAIN share |->
        PaddedRow(items, share[n], MaxLen(items, share), Width(items, share), RowWeights(items, share, n))]

-----------------------------------------------------------------------------
(* The losses.  A sub-batch is a sequence of rows; a share of the gradient *)
(* is a fraction [n, d].                                                   *)

Zero == [n |-> 0, d |-> 1]
Plus(x, y) == [n |-> x.n * y.d + y.n * x.d, d |-> x.d * y.d]
Times(x, y) == [n |-> x.n * y.n, d |-> x.d * y.d]
Same(x, y) == x.n * y.d = y.n * x.d

Slots(rows) == UNION {{<<b, t, j>> : t \in DOMAIN rows[b], j \in DOMAIN rows[b][1].labels} :
                      b \in DOMAIN rows}
Valid(rows, s) == rows[s[1]][s[2]].labels[s[3]] # Masked
RawWeight(rows, s) == rows[s[1]][s[2]].weights[s[3]]
Effective(rows, s) == IF Valid(rows, s) THEN RawWeight(rows, s) ELSE 0

\* Targets that are not -100: the sub-batch's part in the token count.
TargetCount(rows) == Cardinality({s \in Slots(rows) : Valid(rows, s)})

EffectiveTotal(rows) == SumFunction([s \in Slots(rows) |-> Effective(rows, s)])
RowTotal(rows, b, W(_, _)) ==
    SumFunction([s \in {x \in Slots(rows) : x[1] = b} |-> W(rows, s)])

\* cross_entropy: the weighted mean over all cells.
TokenMean(rows, s) == [n |-> Effective(rows, s), d |-> Max({EffectiveTotal(rows), 1})]

\* gspo: the mean over the rows of each row's mean.
SequenceMean(rows, s) ==
    [n |-> Effective(rows, s), d |-> Max({RowTotal(rows, s[1], Effective), 1}) * Len(rows)]

\* orpo: the length-normalised score of a row, one of the pair of rows 2i and 2i + 1.
PairScore(rows, s) ==
    [n |-> Effective(rows, s),
     d |-> Max({RowTotal(rows, s[1], RawWeight), 1}) * (Len(rows) \div 2)]

CellShare(loss, rows, s) ==
    CASE loss = "cross_entropy" -> TokenMean(rows, s)
      [] loss = "gspo" -> SequenceMean(rows, s)
      [] loss = "orpo" -> PairScore(rows, s)

\* A loss raises without the old logprobs it needs and on an odd number of rows.
LossRaises(loss, rows, hasLogprobs) ==
    \/ loss = "gspo" /\ ~hasLogprobs
    \/ loss = "orpo" /\ Len(rows) % 2 # 0

\* So does any on sizes that do not meet: more labels than logits, weights or logprobs
\* that torch cannot stretch to the labels.
Clash(items, share, loss) ==
    \/ \E x \in LabelOvers(items, share) : x > 0
    \/ ~Level(items, share) /\ ~Broadcasts(WeightShape(items, share), LabelShape(items, share))
    \/ loss = "gspo" /\ \E x \in LogprobOvers(items, share) :
           ~Broadcasts(<<MaxLen(items, share) + x>>, <<MaxLen(items, share)>>)

\* The items of a row, and the chosen and rejected items a batch of rows pairs.
ItemsOf(row) == {row[t].item : t \in DOMAIN row} \ {0}
PairsOf(rows) ==
    {<<ItemsOf(rows[2 * p - 1]), ItemsOf(rows[2 * p])>> : p \in 1 .. Len(rows) \div 2}
=============================================================================
