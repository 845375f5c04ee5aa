------------------------------ MODULE Trainer ------------------------------
(***************************************************************************)
(* VanillaTrainer (hatchery/core/trainer.py): one model in memory that     *)
(* serves LoRA sessions, each with an adapter on the pristine base, beside *)
(* full-parameter sessions, each with base weights of its own. The weights *)
(* of a session are swapped into the live base when the session becomes    *)
(* the active one.                                                         *)
(*                                                                         *)
(* Weights are the sequence of the sessions whose optimizer steps they     *)
(* carry, <<>> for untrained ones. Gradients are accumulated per parameter *)
(* name: a session's adapter has the session's name, the base parameters   *)
(* are "plain" before PEFT wraps the model and "wrapped" after it.         *)
(*                                                                         *)
(* PEFT is modelled from how the trainer uses it: creating an adapter      *)
(* freezes everything else, set_adapter makes one adapter trainable,       *)
(* leaving disable_adapter makes the current adapter trainable again.      *)
(*                                                                         *)
(* Uses names what clients and faults do here that the trainer does not    *)
(* stand: see Stands.                                                      *)
(***************************************************************************)
EXTENDS Naturals, FiniteSets, Sequences, SequencesExt, Functions

CONSTANTS
    Sessions, None,
    Modes,     \* session -> "lora" or "full", the mode it is created in
    Bases,     \* the settings a trainer may be built with
    Uses,      \* a subset of {"beside", "wrap_later", "reload_initial", "decay"}
    Savers,    \* bound: the sessions whose states are saved
    MaxSteps,  \* bound: session -> optimizer steps in its model's history
    MaxPasses  \* bound: passes accumulated before a step

ASSUME BoundsAssumption ==
    /\ IsFiniteSet(Sessions)
    /\ MaxSteps \in [Sessions -> Nat] /\ MaxPasses \in Nat \ {0}
    /\ Sessions \cap {None, "base", "plain", "wrapped"} = {}

VARIABLES
    setting,   \* [quant, hinted, config, requireFull, coreDP]
    scheme,    \* _quant_scheme
    net,       \* the model in memory; "aside": an adapter was given the base, pristine and
               \* frozen, while a full-parameter session stays the active one
    planned,   \* _parallel_applied
    specs,     \* the sessions in _specs
    grads,     \* _grad_accum
    moments,   \* _optimizer_state: None or [size, steps]
    saved,     \* session -> the last TrainerState returned for it, or None
    ran        \* what this operation's forward pass used: [session, base, lora], or None

vars == <<setting, scheme, net, planned, specs, grads, moments, saved, ran>>

Full(s) == Modes[s] = "full"
Names == Sessions \cup {"plain", "wrapped"}
NoGrads == [n \in {} |-> 0]
Gradients == UNION {[names -> Nat] : names \in SUBSET Names}
Moments == [size : Nat, steps : Nat]
States == [weights : Seq(Sessions) \cup {None}, grads : Gradients,
           moments : Moments \cup {None}]
Runs == [session : Sessions, base : Seq(Sessions), lora : Seq(Sessions) \cup {None}]
\* Nothing saved, run or held is "None".
ASSUME NoneAssumption ==
    /\ None \notin Seq(Sessions) /\ None \notin States /\ None \notin Runs
    /\ None \notin Nat \X Nat
MaxHistory == FoldFunction(+, 0, MaxSteps)
IsHistory(h) == h \in Seq(Sessions) /\ Len(h) <= MaxHistory
AreHistories(f) == DOMAIN f \subseteq Sessions /\ \A s \in DOMAIN f : IsHistory(f[s])

TypeOK ==
    /\ setting \in Bases /\ scheme \in {"none", "onebit", "fp8_torchao"}
    /\ IsHistory(net.base) /\ net.active \in Sessions \cup {None}
    /\ net.wrapped \in BOOLEAN /\ net.trainable \subseteq Sessions \cup {"base"}
    /\ AreHistories(net.lora) /\ AreHistories(net.kept)
    /\ net.adapter \in DOMAIN net.lora \cup {None}
    /\ planned \in BOOLEAN /\ specs \subseteq Sessions
    /\ \A s \in Sessions : DOMAIN grads[s] \subseteq Names
    /\ \A s \in specs : Full(s) <=> s \in DOMAIN net.kept
    /\ \A s \in specs : ~ Full(s) => s \in DOMAIN net.lora
-----------------------------------------------------------------------------
(* _load_base: what was asked for, then what the loaded config shows. *)
Asked(set) == IF set.quant = "fp8_torchao" THEN "fp8_torchao"
              ELSE IF set.quant = "onebit" \/ set.hinted THEN "onebit" ELSE "none"
Scheme(set) == IF set.config = "onebit" \/ set.hinted THEN "onebit"
               ELSE IF set.config = "fp8_torchao" THEN "fp8_torchao" ELSE Asked(set)

Init ==
    /\ setting \in Bases /\ scheme = Scheme(setting)
    /\ net = [base |-> <<>>, active |-> None, kept |-> NoGrads, lora |-> NoGrads,
              adapter |-> None, wrapped |-> FALSE, trainable |-> {}, aside |-> FALSE]
    /\ planned = FALSE /\ specs = {} /\ ran = None
    /\ grads = [s \in Sessions |-> NoGrads] /\ moments = [s \in Sessions |-> None]
    /\ saved = [s \in Sessions |-> None]
-----------------------------------------------------------------------------
(* Swapping weights: each operator is the model after one call. *)
With(f, s, v) == [x \in DOMAIN f \cup {s} |-> IF x = s THEN v ELSE f[x]]
Without(f, s) == [x \in DOMAIN f \ {s} |-> f[x]]

\* _stash_active_full_param_base: the live base, adapters left out, is the active
\* full-parameter session's snapshot.
Stashed(n) == IF n.active = None \/ n.active \notin DOMAIN n.kept THEN n
              ELSE [n EXCEPT !.kept = With(@, n.active, n.base)]
\* _restore_pristine_base, _restore_full_param_base
Pristine(n) == IF setting.coreDP /\ planned THEN n ELSE [n EXCEPT !.base = <<>>]
Restored(n, s) == [n EXCEPT !.base = n.kept[s]]
\* PEFT's set_adapter, and what leaving disable_adapter does.
SetAdapter(n, s) == [n EXCEPT !.adapter = s, !.trainable = (@ \cap {"base"}) \cup {s}]
Reenabled(n) == IF n.adapter = None THEN n ELSE SetAdapter(n, n.adapter)
\* _set_grad_for_session
Trainable(n, s) == IF Full(s) THEN [n EXCEPT !.trainable = {"base"}]
                              ELSE SetAdapter([n EXCEPT !.trainable = {}], s)

\* _active_module
SwappedUnstashed(n, s) == IF Full(s) THEN Restored(n, s) ELSE Pristine(n)  \* mutant of Swapped
Swapped(n, s) == IF Full(s) THEN Restored(Stashed(n), s) ELSE Pristine(Stashed(n))
Activated(n, s) ==
    IF n.active # s
    THEN Trainable([Swapped(n, s) EXCEPT !.active = s, !.aside = FALSE], s)
    ELSE IF Full(s) THEN n ELSE SetAdapter(n, s)

\* After a forward pass: a full-parameter one runs with the adapters disabled.
Passed(n, s) == IF Full(s) /\ n.wrapped THEN Reenabled(n) ELSE n
Forward(n, s) == [session |-> s, base |-> n.base,
                  lora |-> IF Full(s) THEN None ELSE n.lora[n.adapter]]
ParamNames(n) == (n.trainable \ {"base"}) \cup
                 (IF "base" \notin n.trainable THEN {}
                  ELSE IF n.wrapped THEN {"wrapped"} ELSE {"plain"})
-----------------------------------------------------------------------------
(* attach_session *)
FullActive == net.active # None /\ Full(net.active)
Stands(use, holds) == use \in Uses \/ holds

\* The trainer does not stand an operation that takes the adapter's base for the weights of
\* the session that is still the active one: one that runs, saves or stashes them.
BaseInPlace == Stands("beside", ~ net.aside)

\* The LoRA branch: PEFT wraps the base at the first adapter.
NewAdapter(n, s) == [n EXCEPT !.lora = With(@, s, <<>>), !.adapter = s,
                              !.wrapped = TRUE, !.trainable = {s}]
AttachedLora(n, s) ==
    LET clean == [Pristine(Stashed(n)) EXCEPT
                     !.aside = @ \/ n.active \in DOMAIN n.kept]
    IN IF s \in DOMAIN n.lora THEN SetAdapter(clean, s) ELSE NewAdapter(clean, s)
AttachedFull(n, s) == IF s \in specs THEN n ELSE [n EXCEPT !.kept = With(@, s, <<>>)]
Attached(n, s) == IF Full(s) THEN AttachedFull(n, s) ELSE AttachedLora(n, s)

\* The refusals: full-parameter sessions and second adapters under core FSDP2, LoRA on a
\* 1-bit base. FirstAdapter is "_peft is None", not "the plan is not applied yet".
FirstAdapter == ~ net.wrapped
Accepts(s) ==
    IF Full(s) THEN ~ setting.coreDP
    ELSE /\ ~ (scheme = "onebit" /\ setting.requireFull)
         /\ (setting.coreDP /\ planned) => s \in DOMAIN net.lora

\* What the trainer stands when a LoRA session arrives: a base that is in place and, when
\* PEFT has yet to wrap it, no full-parameter gradients that wait under its plain names.
Waiting(g) == \E p \in DOMAIN g : g[p] > 0
LoraArrives(s) ==
    \/ Full(s)
    \/ /\ BaseInPlace
       /\ Stands("wrap_later", net.wrapped \/ \A f \in Sessions : Full(f) =>
                    ~ Waiting(grads[f]) /\ (saved[f] # None => ~ Waiting(saved[f].grads)))

\* _apply_parallel_plan runs once, after the first adapter.
Plans(s) == ~ Full(s) /\ FirstAdapter /\ setting.coreDP /\ ~ planned

Attach(s) ==
    /\ Accepts(s) /\ LoraArrives(s) /\ s \notin specs
    /\ net' = Attached(net, s)
    /\ specs' = specs \cup {s} /\ planned' = (planned \/ Plans(s)) /\ ran' = None
    /\ UNCHANGED <<setting, scheme, grads, moments, saved>>

\* The plan raises after the adapter is in place: attach_session has done the rest.
PlanFails(s) ==
    /\ Accepts(s) /\ s \notin specs /\ Plans(s)
    /\ net' = Attached(net, s) /\ specs' = specs \cup {s} /\ ran' = None
    /\ UNCHANGED <<setting, scheme, planned, grads, moments, saved>>

\* init_session_state: an untrained full-parameter session saves no weights.
InitState(s) ==
    /\ Accepts(s) /\ LoraArrives(s) /\ s \notin specs /\ s \in Savers
    /\ net' = Attached(net, s)
    /\ specs' = specs \cup {s} /\ planned' = (planned \/ Plans(s)) /\ ran' = None
    /\ saved' = [saved EXCEPT ![s] = [weights |-> IF Full(s) THEN None ELSE net'.lora[s],
                                      grads |-> NoGrads, moments |-> None]]
    /\ UNCHANGED <<setting, scheme, grads, moments>>

\* detach_session. When PEFT drops its current adapter it falls back to another one.
Dropped(n, s) == Without(n.lora, s)
DetachedLora(n, s, next) ==
    LET left == [n EXCEPT !.lora = Dropped(n, s), !.trainable = @ \ {s}]
    IN IF n.adapter # s THEN left
       ELSE IF next = None THEN [left EXCEPT !.adapter = None] ELSE SetAdapter(left, next)
ReleasedInPlace(n, s) == IF n.active = s THEN [n EXCEPT !.active = None] ELSE n  \* mutant of Released
Released(n, s) == IF n.active = s THEN [Pristine(n) EXCEPT !.active = None, !.aside = FALSE]
                  ELSE n
Detach(s) ==
    /\ s \in specs /\ ~ setting.coreDP
    /\ \E next \in (IF DOMAIN net.lora \subseteq {s} THEN {None} ELSE DOMAIN net.lora \ {s}) :
         net' = Released(IF Full(s) THEN [net EXCEPT !.kept = Without(@, s)]
                                    ELSE DetachedLora(net, s, next), s)
    /\ specs' = specs \ {s}
    /\ grads' = [grads EXCEPT ![s] = NoGrads] /\ moments' = [moments EXCEPT ![s] = None]
    /\ ran' = None
    /\ UNCHANGED <<setting, scheme, planned, saved>>
-----------------------------------------------------------------------------
(* load_state and extract_state *)
\* load_state attaches the session first; an empty weights dict changes no weights.
LoadedFull(n, s, state) ==
    IF state.weights = None THEN n
    ELSE [n EXCEPT !.kept = With(@, s, state.weights),
                   !.base = IF n.active = s THEN state.weights ELSE @]
Loaded(n, s, state) ==
    IF Full(s) THEN LoadedFull(n, s, state)
    ELSE [n EXCEPT !.lora = With(@, s, state.weights)]

LoadState(s) ==
    /\ saved[s] # None /\ Accepts(s) /\ LoraArrives(s)
    /\ Stands("reload_initial", saved[s].weights # None \/ s \notin specs)
    /\ net' = Loaded(Attached(net, s), s, saved[s])
    /\ specs' = specs \cup {s} /\ planned' = (planned \/ Plans(s))
    /\ grads' = [grads EXCEPT ![s] = saved[s].grads]
    /\ moments' = [moments EXCEPT ![s] = saved[s].moments] /\ ran' = None
    /\ UNCHANGED <<setting, scheme, saved>>

\* The weights of a loaded full-parameter session are in the live base.
Weights(s) == IF ~ Full(s) THEN net.lora[s]
              ELSE IF net.active = s THEN net.base ELSE net.kept[s]
ExtractState(s) ==
    /\ s \in specs /\ s \in Savers /\ (net.active = s => BaseInPlace)
    /\ saved' = [saved EXCEPT ![s] = [weights |-> Weights(s), grads |-> grads[s],
                                      moments |-> moments[s]]]
    /\ ran' = None
    /\ UNCHANGED <<setting, scheme, net, planned, specs, grads, moments>>
-----------------------------------------------------------------------------
(* Operations *)
\* Without a trainable parameter the backward pass raises.
ForwardBackward(s) ==
    LET n == Activated(net, s)
        mine == {p \in ParamNames(n) : Full(s) => p \notin Sessions}
    IN /\ s \in specs /\ BaseInPlace /\ \A p \in DOMAIN grads[s] : grads[s][p] < MaxPasses
       /\ net' = Passed(n, s)
       /\ ran' = IF mine = {} THEN None ELSE Forward(n, s)
       /\ grads' = [grads EXCEPT ![s] =
              [p \in DOMAIN @ \cup mine |-> (IF p \in DOMAIN @ THEN @[p] ELSE 0)
                                            + (IF p \in mine THEN 1 ELSE 0)]]
       /\ UNCHANGED <<setting, scheme, planned, specs, moments, saved>>

\* forward_only, sample, compute_logprobs
Compute(s) ==
    LET n == Activated(net, s)
    IN /\ s \in specs /\ BaseInPlace
       /\ net' = Passed(n, s) /\ ran' = Forward(n, s)
       /\ UNCHANGED <<setting, scheme, planned, specs, grads, moments, saved>>

\* optim_step. A state made for another number of parameters is skipped without a word;
\* a parameter moves by its gradient, its momentum or the weight decay.
Fits(s, names) == moments[s] # None /\ moments[s].size = Cardinality(names)
Moves(s, p, names) ==
    /\ p \in DOMAIN grads[s]
    /\ \/ grads[s][p] > 0
       \/ "decay" \in Uses
       \/ Fits(s, names) /\ (Full(s) => p \notin Sessions)
Moved(n, s, names) ==
    [n EXCEPT
       !.base = IF \E p \in names \ Sessions : Moves(s, p, names) THEN Append(@, s) ELSE @,
       !.lora = [a \in DOMAIN @ |-> IF a \in names /\ Moves(s, a, names)
                                    THEN Append(@[a], s) ELSE @[a]]]
OptimStep(s) ==
    LET n == Activated(net, s)
        names == ParamNames(n)
    IN /\ s \in specs /\ BaseInPlace /\ DOMAIN grads[s] # {}
       /\ Len(Weights(s)) < MaxSteps[s]
       /\ \A a \in DOMAIN net.lora : Len(net.lora[a]) < MaxSteps[a]
       /\ net' = Moved(n, s, names)
       /\ grads' = [grads EXCEPT ![s] = [p \in names |-> 0]]
       /\ moments' = [moments EXCEPT ![s] =
              [size |-> Cardinality(names),
               steps |-> (IF Fits(s, names) THEN @.steps ELSE 0) + 1]]
       /\ ran' = None
       /\ UNCHANGED <<setting, scheme, planned, specs, saved>>

\* The guard of optim_step: the session has been made the active one by then.
StepRefused(s) ==
    /\ s \in specs /\ BaseInPlace /\ DOMAIN grads[s] = {}
    /\ net' = Activated(net, s) /\ ran' = None
    /\ UNCHANGED <<setting, scheme, planned, specs, grads, moments, saved>>

Next == \E s \in Sessions :
            \/ Attach(s) \/ PlanFails(s) \/ InitState(s) \/ Detach(s) \/ LoadState(s)
            \/ ExtractState(s) \/ ForwardBackward(s) \/ Compute(s) \/ OptimStep(s)
            \/ StepRefused(s)
Spec == Init /\ [][Next]_vars
-----------------------------------------------------------------------------
(* Properties *)
\* A history is a session's own when no other session took a step in it.
Foreign == MaxHistory + 1
Own(s, history) == IF \A i \in DOMAIN history : history[i] = s THEN Len(history) ELSE Foreign
Passes(g) == IF \A p \in DOMAIN g : g[p] = 0 THEN 0
             ELSE CHOOSE k \in 1..MaxPasses : \E p \in DOMAIN g : g[p] = k
\* While its base is aside a session's model is its stash.
ModelOf(s) == IF s \notin specs THEN 0
              ELSE Own(s, IF net.aside /\ net.active = s THEN net.kept[s] ELSE Weights(s))
Kept(state) == <<state.weights, state.grads>>
Private == INSTANCE PrivateModels WITH
    attached <- specs,
    weights <- [s \in Sessions |-> ModelOf(s)],
    waiting <- [s \in Sessions |-> Passes(grads[s])],
    saved <- [s \in Sessions |->
        IF saved[s] = None THEN None
        ELSE <<IF saved[s].weights = None THEN 0 ELSE Own(s, saved[s].weights),
               Passes(saved[s].grads)>>],
    computed <- IF ran = None THEN None
                ELSE <<ran.session,
                       IF Full(ran.session) THEN Own(ran.session, ran.base)
                       ELSE IF ran.base = <<>> THEN Own(ran.session, ran.lora) ELSE Foreign>>

\* LoRA and full-parameter sessions that share the trainer each train, save, load and run
\* a model of their own (the swapping in _active_module, stash and restore).
TrainsPrivately == Private!Spec

\* The session the trainer believes is loaded is the one in the live base: its own steps
\* and no fewer than it last stashed when it is a full-parameter session; the pristine base
\* when it is a LoRA session or there is none. While an adapter that was attached last has
\* the base, the active session's weights are in its stash.
LiveIsActive ==
    IF FullActive
    THEN /\ \A i \in DOMAIN net.base : net.base[i] = net.active
         /\ \/ Len(net.kept[net.active]) <= Len(net.base)
            \/ net.aside /\ net.base = <<>>
    ELSE net.base = <<>> /\ ~ net.aside

\* A session of a sharded trainer runs on a model the parallel plan has been applied to
\* (_apply_parallel_plan: "Called exactly once, the first time a session is attached").
ShardedWhenRun == setting.coreDP /\ ran # None => planned

\* An explicit fp8_torchao wins over a name that looks 1-bit (_load_base).
Fp8WinsOverName ==
    setting.quant = "fp8_torchao" /\ setting.config # "onebit" => scheme = "fp8_torchao"

\* The optimizer's moments follow the steps of the model they were made for.
MomentsFollow == \A s \in specs :
    moments[s] # None => moments[s].steps = Len(Weights(s))
=============================================================================
