----------------------------- MODULE MCDataPath -----------------------------
(* Instances of DataPath: datums of every shape the wire format knows, in   *)
(* requests of up to four, on one or two ranks.                             *)
EXTENDS DataPath

Dense(shape, data) ==
    [sparse |-> FALSE, shape |-> shape, data |-> data, cols |-> <<>>, vals |-> <<>>, crow |-> <<>>]
Sparse(shape, cols, vals, crow) ==
    [sparse |-> TRUE, shape |-> shape, data |-> <<>>, cols |-> cols, vals |-> vals, crow |-> crow]
D(ids, inputs) == [ids |-> ids, images |-> <<>>, inputs |-> inputs]
NoInputs == <<>>
Image(pointer, size) == [pointer |-> pointer, size |-> size]

Plain1 == D(<<1>>, NoInputs)
Plain2 == D(<<1, 1>>, NoInputs)
Plain3 == D(<<1, 1, 1>>, NoInputs)
\* A prompt of one masked target before two targets.
Prompt3 == D(<<1, 1, 1>>, [target_tokens |-> Dense(<<3>>, <<Masked, 1, 1>>)])
\* All targets masked.
Silent2 == D(<<1, 1>>, [target_tokens |-> Dense(<<2>>, <<Masked, Masked>>)])
Weighted2 == D(<<1, 1>>, [weights |-> Sparse(<<2>>, <<1>>, <<1>>, <<>>)])
Weighted3 == D(<<1, 1, 1>>, [weights |-> Sparse(<<3>>, <<0, 2>>, <<1, 2>>, <<>>)])
Negative2 == D(<<1, 1>>, [weights |-> Dense(<<2>>, <<-1, 2>>)])
WideWeights2 == D(<<1, 1>>, [weights |-> Dense(<<2, 2>>, <<1, 1, 1, 1>>)])
FirstSoft2 == D(<<1, 1>>, [target_tokens |-> Dense(<<2, 2>>, <<1, 1, 1, 1>>),
                           weights |-> Dense(<<2>>, <<1, 2>>)])
Weightless2 == D(<<1, 1>>, [weights |-> Dense(<<2>>, <<0, 0>>)])
\* The last position is past the end of the vector.
Past2 == D(<<1, 1>>, [weights |-> Sparse(<<2>>, <<0, 2>>, <<1, 1>>, <<>>)])
Soft3 == D(<<1, 1, 1>>, [target_tokens |-> Dense(<<3, 2>>, <<Masked, Masked, 1, 1, 1, 1>>),
                         weights |-> Sparse(<<3, 2>>, <<0, 1, 0>>, <<1, 1, 2>>, <<0, 0, 2, 3>>)])
SoftBare3 == D(<<1, 1, 1>>, [target_tokens |-> Dense(<<3, 2>>, <<1, 1, 1, 1, 1, 1>>)])
\* As many entries as tokens, so that the mask fits two items; weights a column wide; a row
\* short of the ids; one weight for two tokens.
SoftBare2 == D(<<1, 1>>, [target_tokens |-> Dense(<<2, 2>>, <<1, 1, Masked, 1>>)])
SoftNarrow2 == D(<<1, 1>>, [target_tokens |-> Dense(<<2, 2>>, <<1, 1, 1, 1>>),
                            weights |-> Dense(<<2, 1>>, <<1, 2>>)])
SoftShort2 == D(<<1, 1>>, [target_tokens |-> Dense(<<1, 2>>, <<1, 1>>), weights |-> Dense(<<2>>, <<1, 2>>)])
Lean2 == D(<<1, 1>>, [weights |-> Dense(<<1>>, <<2>>)])
\* Rows of CSR data that point past its values.
BadRows == D(<<1, 1>>, [weights |-> Sparse(<<2, 2>>, <<0>>, <<1>>, <<0, 1, 2>>)])
BadCount == D(<<1, 1>>, [weights |-> Sparse(<<2>>, <<0, 1>>, <<1>>, <<>>)])
Short3 == D(<<1, 1, 1>>, [target_tokens |-> Dense(<<2>>, <<1, 1>>)])
Old2 == D(<<1, 1>>, [logprobs |-> Dense(<<2>>, <<1, 1>>)])
Old3 == D(<<1, 1, 1>>, [logprobs |-> Dense(<<3>>, <<1, 1, 1>>),
                        target_tokens |-> Dense(<<3>>, <<Masked, 1, 1>>)])
OldLong2 == D(<<1, 1>>, [logprobs |-> Dense(<<3>>, <<1, 1, 1>>)])
SoftOld == D(<<1, 1>>, [logprobs |-> Dense(<<2, 1>>, <<1, 1>>)])
Vis3 == D(<<1, Vision, 1>>, NoInputs)
VisWeighted3 == D(<<1, Vision, 1>>, [weights |-> Dense(<<3>>, <<1, 1, 1>>)])
Pointed2 == [Plain2 EXCEPT !.images = <<Image(TRUE, 2)>>]
Encoded2 == [Plain2 EXCEPT !.images = <<Image(FALSE, 1), Image(FALSE, 1)>>]
Heavy2 == [Plain2 EXCEPT !.images = <<Image(FALSE, 2), Image(TRUE, 2)>>]

Request(data, loss, perDatum) == [data |-> data, loss |-> loss, perDatum |-> perDatum]
Of(S, n) == UNION {[1 .. m -> S] : m \in 1 .. n}
Requests(S, n, losses) == {Request(d, l, p) : d \in Of(S, n), l \in losses, p \in BOOLEAN}

MixedPosts ==
    Requests({Plain1, Plain2, Prompt3, Weighted3}, 4, {"cross_entropy"})
    \cup Requests({Silent2, Plain3, Lean2, Weighted2, Weightless2, Past2, Negative2, WideWeights2, Short3, Vis3, VisWeighted3,
                   BadRows, BadCount}, 2, {"cross_entropy"})
    \cup Requests({Soft3, SoftBare3, SoftBare2, SoftNarrow2, SoftShort2, FirstSoft2, Plain3}, 2, {"cross_entropy"})
    \cup Requests({Old2, Old3, Weighted2, OldLong2, SoftOld}, 2, {"gspo"})
    \cup Requests({Old2, Old3}, 4, {"gspo"})
    \cup Requests({Plain2, Prompt3}, 4, {"orpo"})
    \cup Requests({Pointed2, Encoded2, Heavy2, Plain2}, 3, {"cross_entropy"})

Setup(dp, strategy, packing, maxPacked, vlm) ==
    [dp |-> dp, strategy |-> strategy, packing |-> packing, maxPacked |-> maxPacked, vlm |-> vlm]

MixedSetups ==
    {Setup(1, "auto", FALSE, 0, TRUE), Setup(2, "auto", FALSE, 0, TRUE),
     Setup(2, "split", FALSE, 0, FALSE), Setup(2, "replicate", TRUE, 4, FALSE),
     Setup(1, "auto", TRUE, 0, TRUE), Setup(1, "auto", TRUE, 0, FALSE), Setup(1, "auto", TRUE, 4, FALSE),
     Setup(1, "auto", TRUE, 3, FALSE), Setup(1, "auto", TRUE, 2, FALSE),
     Setup(2, "auto", TRUE, 4, FALSE), Setup(2, "auto", TRUE, 0, FALSE)}

=============================================================================
