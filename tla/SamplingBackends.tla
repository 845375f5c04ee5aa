-------------------------- MODULE SamplingBackends --------------------------
(***************************************************************************)
(* The sampling backends a deployment chooses from (config.sampling_backend*)
(* in hatchery/core/gateway.py and tinker_compat.py): an engine in the     *)
(* process or a pool of vLLM servers. The one that was not chosen is not   *)
(* built and does not move.                                                *)
(***************************************************************************)
EXTENDS Naturals

CONSTANTS Tasks, Nothing, SamplerUses, Paths, MaxCalls, MaxFaults,
          MaxEndpoints, MaxVersions, MaxSamples

VARIABLES backend,
          sleepMode, engine, flag, lock, pc, adapter, cached, answers, left,
          size, healthy, failures, turn, loaded, up, served, strays, calls,
          promised, replies, spent

InProcess == INSTANCE InProcessSampler WITH Uses <- SamplerUses, None <- Nothing
Remote == INSTANCE VLLMPool WITH Uses <- SamplerUses, None <- Nothing
\* "Nothing" is no version and no call.
ASSUME SamplersAssumption ==
    /\ MaxEndpoints \in Nat \ {0} /\ MaxFaults \in Nat
    /\ Nothing \notin Nat \cup Remote!Calls
engineVars == <<sleepMode, engine, flag, lock, pc, adapter, cached, answers, left>>
poolVars == <<size, healthy, failures, turn, loaded, up, served, strays, calls, promised,
              replies, spent>>
servingVars == <<backend, engineVars, poolVars>>

ServingInit ==
    /\ InProcess!Init /\ Remote!Init
    /\ \/ backend = "in_process" /\ size = 1
       \/ backend = "vllm" /\ ~ sleepMode
ServingNext ==
    \/ backend = "in_process" /\ InProcess!Next /\ UNCHANGED <<backend, poolVars>>
    \/ backend = "vllm" /\ Remote!Next /\ UNCHANGED <<backend, engineVars>>
\* Tasks go on with what they have begun (asyncio runs every ready task).
Fairness == \A t \in Tasks :
    /\ WF_servingVars(InProcess!TaskStep(t) /\ UNCHANGED <<backend, poolVars>>)
    /\ SF_servingVars(InProcess!Leave(t) /\ UNCHANGED <<backend, poolVars>>)
ServingSpec == ServingInit /\ [][ServingNext]_servingVars /\ Fairness
-----------------------------------------------------------------------------
(* The properties of the two, each explained where it is defined. *)
SamplersTyped == InProcess!TypeOK /\ Remote!TypeOK
EngineSound == InProcess!EngineSound
TasksFinish == <>[](InProcess!AllOut)
ServesPublished == Remote!ServesPublished
\* What the code's text says and the code does not do, or does only without some uses
\* (see the README).
BlockIsAwake == InProcess!BlockIsAwake
GeneratesAwake == InProcess!GeneratesAwake
FreshAdapter == InProcess!FreshAdapter
ReadyForSampling == Remote!ReadyForSampling
UnhealthyWasDown == Remote!UnhealthyWasDown
NeverStale == Remote!NeverStale
=============================================================================
