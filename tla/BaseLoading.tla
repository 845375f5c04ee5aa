---------------------------- MODULE BaseLoading ----------------------------
(***************************************************************************)
(* How a pool loads a base model (hatchery/core/model_pool.py): which      *)
(* quantization the checkpoint and the caller ask for, which loader and    *)
(* kernels that leads to, and what the slot is told about it.              *)
(*                                                                         *)
(* A model is what its Hugging Face config shows:                          *)
(*   causal     it is registered with AutoModelForCausalLM                 *)
(*   vision     its class is one of _VLM_CLASS_NAMES                       *)
(*   processor  AutoProcessor can load its processor                       *)
(*   quant      "none", "fp8" (fine-grained), "bitnet", "torchao_fp8"      *)
(*   hinted     its name looks like a 1-bit model                          *)
(* and a pool's settings are its kind, the QuantConfig requested (or None),*)
(* the dtype, whether HATCHERY_FP8_REQUANT_TORCHAO is set and whether the  *)
(* device runs FP8.  A load takes three steps at best effort and goes on   *)
(* without those that raise; done is the set of those that worked.         *)
(***************************************************************************)
CONSTANT None

\* Reading the config for a 1-bit dtype, reading it for fine-grained FP8, and
\* quantizing to TorchAO what was dequantized.
BestEffort == {"adjust", "dequantize", "requantize"}

\* detect_quant_scheme: a TorchAO config is the more specific sign.
IsOnebit(model) == model.quant = "bitnet" \/ model.hinted
IsFp8Torchao(model) == model.quant = "torchao_fp8"
DetectScheme(model) ==
    IF IsFp8Torchao(model) THEN "fp8_torchao"
    ELSE IF IsOnebit(model) THEN "onebit" ELSE "none"

\* resolve_quant_scheme: force wins, then what was detected, then what was asked for.
ResolveScheme(model, asked) ==
    IF asked # None /\ asked.force THEN asked.scheme
    ELSE IF asked = None \/ DetectScheme(model) # "none" THEN DetectScheme(model)
    ELSE asked.scheme

\* _maybe_adjust_kwargs_for_quant consults the config only when quantization could
\* matter: the caller forces a scheme or names 1-bit, or the model's name hints at it.
Consults(model, asked) ==
    model.hinted \/ (asked # None /\ (asked.force \/ asked.scheme = "onebit"))
Injects(asked) == asked # None /\ asked.scheme = "fp8_torchao"
OnebitDtype(dtype) == IF dtype = "fp16" THEN "bf16" ELSE dtype
LoadDtype(model, set, done) ==
    IF /\ ~ Injects(set.asked) /\ Consults(model, set.asked) /\ "adjust" \in done
       /\ ResolveScheme(model, set.asked) = "onebit"
    THEN OnebitDtype(set.dtype) ELSE set.dtype

\* As the checkpoint is stored: TieredModelPool._load_base loads it so.
StoredKernels(model, set) ==
    IF Injects(set.asked) \/ IsFp8Torchao(model) THEN "torchao" ELSE "plain"
TieredKernels(model, set) ==
    IF StoredKernels(model, set) = "plain" /\ model.quant = "fp8" THEN "fp8_linear"
    ELSE StoredKernels(model, set)
\* RewrapModelPool._load_base dequantizes a checkpoint whose config it could read and
\* found to be fine-grained FP8, and
\* _maybe_requant_finegrained_fp8_to_torchao may quantize it again.
Dequantizes(model, done) == model.quant = "fp8" /\ "dequantize" \in done
Requantizes(set, done) == set.requant /\ set.fp8Device /\ "requantize" \in done
RewrapKernels(model, set, done) ==
    IF ~ Dequantizes(model, done) THEN TieredKernels(model, set)
    ELSE IF Requantizes(set, done) THEN "torchao" ELSE StoredKernels(model, set)
Kernels(model, set, done) == IF set.kind = "rewrap" THEN RewrapKernels(model, set, done)
                                                    ELSE TieredKernels(model, set)

\* Only the rewrap pool falls back to the image-text-to-text loader.
Loadable(model, set) == model.causal \/ (set.kind = "rewrap" /\ model.vision)

\* _detect_scheme_on_model looks at the config of the loaded model.
LoadedConfig(model, set) ==
    IF Injects(set.asked) THEN [model EXCEPT !.quant = "torchao_fp8"] ELSE model

\* _load_tokenizer_and_processor: without a processor the model is served as text only.
ServesVision(model) == model.vision /\ model.processor

\* The PoolSlot of a model that loaded, its weights on the device.
SlotOf(model, set, done) ==
    [scheme |-> ResolveScheme(LoadedConfig(model, set), set.asked),
     kernels |-> Kernels(model, set, done),
     dtype |-> LoadDtype(model, set, done),
     is_vlm |-> ServesVision(model),
     has_processor |-> ServesVision(model),
     at |-> "device"]
\* What a call returns that returns no slot, and what is left of a slot torn down.
NoSlot == [at |-> "nowhere"]
=============================================================================
