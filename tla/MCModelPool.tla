----------------------------- MODULE MCModelPool -----------------------------
(* Instances of ModelPool for TLC: a plain model, a vision model that only *)
(* the fallback loads, an FP8 and a 1-bit checkpoint, in pools of either   *)
(* kind and of different sizes.                                            *)
EXTENDS ModelPool, TLC
CONSTANTS plain, vision, fp8, bit

Plain == [causal |-> TRUE, vision |-> FALSE, processor |-> FALSE, quant |-> "none",
          hinted |-> FALSE]
Bases == (plain :> Plain)
      @@ (vision :> [Plain EXCEPT !.causal = FALSE, !.vision = TRUE])
      @@ (fp8 :> [Plain EXCEPT !.quant = "fp8"])
      @@ (bit :> [Plain EXCEPT !.quant = "bitnet", !.hinted = TRUE])
OneBit == [scheme |-> "onebit", force |-> FALSE]
Asking == {None, OneBit, [scheme |-> "none", force |-> TRUE]}
Pool(kind, vramSlots, hostSlots, asked) ==
    [kind |-> kind, vram |-> vramSlots, host |-> hostSlots, asked |-> asked, dtype |-> "fp16",
     requant |-> TRUE, fp8Device |-> vramSlots = 2]
Pools == {Pool("rewrap", n, 0, q) : n \in 1 .. 2, q \in Asking}
    \cup {Pool("tiered", n, h, None) : n \in 1 .. 2, h \in 0 .. 2}
=============================================================================
