----------------------------- MODULE MCTrainer -----------------------------
(***************************************************************************)
(* Two LoRA sessions beside two full-parameter ones or one, on a plain     *)
(* trainer, a trainer sharded by core FSDP2, and 1-bit and FP8 bases.      *)
(***************************************************************************)
EXTENDS Trainer, TLC
CONSTANTS l1, l2, f1, f2

LLF == {l1, l2, f1}
LFF == {l1, f1, f2}
ModesOf == [s \in Sessions |-> IF s \in {l1, l2} THEN "lora" ELSE "full"]

Plain == [quant |-> "none", hinted |-> FALSE, config |-> "none",
          requireFull |-> TRUE, coreDP |-> FALSE]
PlainBase == {Plain}
Sharded == {[Plain EXCEPT !.coreDP = TRUE]}
AnyBase == {Plain, [Plain EXCEPT !.coreDP = TRUE], [Plain EXCEPT !.hinted = TRUE]}
NamedFp8 == {[Plain EXCEPT !.quant = "fp8_torchao", !.config = "fp8_torchao", !.hinted = TRUE]}
StepsOf == [s \in Sessions |-> IF s = f1 THEN 2 ELSE 1]
OneSaver == {f1}
NoUses == {}
Alike == Permutations({l1, l2}) \cup Permutations({f1, f2})
=============================================================================
