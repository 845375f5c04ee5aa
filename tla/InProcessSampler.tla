-------------------------- MODULE InProcessSampler --------------------------
(***************************************************************************)
(* InProcessInferenceSampler and InProcessVLLMSampler                      *)
(* (hatchery/core/sampling.py): an inference engine that shares a process, *)
(* and usually a GPU, with the trainer. Tasks build it, wake it for a      *)
(* block of samples (awake), put it to sleep again, and close it. wake,    *)
(* sleep, initialize and close take one asyncio.Lock; sample, publish and  *)
(* unload take none.                                                       *)
(*                                                                         *)
(* lock is the queue of the lock: its head holds it. Each asynchronous     *)
(* engine call is a pair of steps. The engine caches adapters by the       *)
(* integer id their name keeps (the comment in unload_adapter).            *)
(*                                                                         *)
(* Uses: "overlap" blocks of two tasks overlap, "close_busy" the sampler   *)
(* is closed inside a block, "republish" a name gets a second path.        *)
(***************************************************************************)
EXTENDS Naturals, Sequences, FiniteSets

CONSTANTS Tasks, Paths, None, Uses,
          MaxCalls,  \* bound: blocks entered, and calls of initialize and close
          MaxFaults  \* bound: engine calls that raise

VARIABLES sleepMode,  \* enable_sleep_mode
          engine,     \* _engine and where its weights are
          flag,       \* _is_awake
          lock,
          pc,         \* task -> where it is
          adapter,    \* the published path of the adapter, or None
          cached,     \* the path the engine loaded for the adapter's id, or None
          answers,    \* how samples inside awake blocks ended
          left        \* [calls, faults] still to come
vars == <<sleepMode, engine, flag, lock, pc, adapter, cached, answers, left>>

Free == lock = <<>>
Outside == {"out", "init", "close"}
InBlock(t) == pc[t] \in {"wake", "waking", "in", "generating", "leave", "sleeping"}
Fault == left.faults > 0 /\ left' = [left EXCEPT !.faults = @ - 1]
NoFault == UNCHANGED left
Goes(t, place) == pc' = [pc EXCEPT ![t] = place]
Waits(t, place) == Goes(t, place) /\ lock' = Append(lock, t)
Holds(t, place) == pc[t] = place /\ ~ Free /\ Head(lock) = t
Releases(t, place) == Goes(t, place) /\ lock' = Tail(lock)

TypeOK ==
    /\ sleepMode \in BOOLEAN /\ flag \in BOOLEAN
    /\ engine \in {"none", "awake", "asleep"}
    /\ lock \in Seq(Tasks)
    /\ adapter \in Paths \cup {None} /\ cached \in Paths \cup {None}
    /\ answers \subseteq {"fresh", "stale", "asleep", "closed"}
    /\ flag => engine # "none"

Init ==
    /\ sleepMode \in BOOLEAN /\ engine = "none" /\ flag = FALSE /\ lock = <<>>
    /\ pc = [t \in Tasks |-> "out"] /\ adapter = None /\ cached = None /\ answers = {}
    /\ left = [calls |-> MaxCalls, faults |-> MaxFaults]

kept == <<sleepMode, adapter, cached, answers>>
-----------------------------------------------------------------------------
(* initialize *)
Initialize(t) == /\ pc[t] = "out" /\ left.calls > 0
                 /\ left' = [left EXCEPT !.calls = @ - 1]
                 /\ Waits(t, "init") /\ UNCHANGED <<engine, flag, kept>>
BuildAgain(t) ==                                                \* mutant of Build
    /\ Holds(t, "init") /\ Goes(t, "building")
    /\ NoFault /\ UNCHANGED <<lock, engine, flag, kept>>
Build(t) ==
    /\ Holds(t, "init")
    /\ IF engine # "none" THEN Releases(t, "out") ELSE Goes(t, "building") /\ UNCHANGED lock
    /\ NoFault /\ UNCHANGED <<engine, flag, kept>>
\* A sampler that may sleep starts asleep, for the trainer to set up first.
Built(t) ==
    /\ Holds(t, "building")
    /\ \/ /\ engine' = "awake" /\ flag' = TRUE /\ cached' = None /\ NoFault
          /\ IF sleepMode THEN Goes(t, "presleep") /\ UNCHANGED lock ELSE Releases(t, "out")
       \/ /\ Fault /\ Releases(t, "out") /\ UNCHANGED <<engine, flag, cached>>
    /\ UNCHANGED <<sleepMode, adapter, answers>>
PutToSleep(t) ==
    /\ Holds(t, "presleep")
    /\ Releases(t, "out")
    /\ \/ engine' = "asleep" /\ flag' = FALSE /\ NoFault
       \/ Fault /\ UNCHANGED <<engine, flag>>
    /\ UNCHANGED kept
-----------------------------------------------------------------------------
(* awake: wake, the block, sleep *)
Enter(t) ==
    /\ pc[t] = "out" /\ left.calls > 0
    /\ "overlap" \in Uses \/ \A u \in Tasks : ~ InBlock(u)
    /\ "close_busy" \in Uses \/ \A u \in Tasks : pc[u] # "close"
    /\ left' = [left EXCEPT !.calls = @ - 1]
    /\ IF sleepMode THEN Waits(t, "wake") ELSE Goes(t, "in") /\ UNCHANGED lock
    /\ UNCHANGED <<engine, flag, kept>>
WakeHolding(t) ==                                               \* mutant of Wake
    /\ Holds(t, "wake")
    /\ CASE engine = "none" -> Goes(t, "out") /\ UNCHANGED lock
         [] flag -> Releases(t, "in")
         [] OTHER -> Goes(t, "waking") /\ UNCHANGED lock
    /\ NoFault /\ UNCHANGED <<engine, flag, kept>>
\* wake() raises before initialize(): the block is not entered.
Wake(t) ==
    /\ Holds(t, "wake")
    /\ CASE engine = "none" -> Releases(t, "out")
         [] flag -> Releases(t, "in")
         [] OTHER -> Goes(t, "waking") /\ UNCHANGED lock
    /\ NoFault /\ UNCHANGED <<engine, flag, kept>>
Woken(t) ==
    /\ Holds(t, "waking")
    /\ \/ engine' = "awake" /\ flag' = TRUE /\ Releases(t, "in") /\ NoFault
       \/ Fault /\ Releases(t, "out") /\ UNCHANGED <<engine, flag>>
    /\ UNCHANGED kept
Leave(t) ==
    /\ pc[t] = "in"
    /\ IF sleepMode THEN Waits(t, "leave") ELSE Goes(t, "out") /\ UNCHANGED lock
    /\ NoFault /\ UNCHANGED <<engine, flag, kept>>
Sleep(t) ==
    /\ Holds(t, "leave")
    /\ IF engine = "none" \/ ~ flag THEN Releases(t, "out")
       ELSE Goes(t, "sleeping") /\ UNCHANGED lock
    /\ NoFault /\ UNCHANGED <<engine, flag, kept>>
Slept(t) ==
    /\ Holds(t, "sleeping") /\ Releases(t, "out")
    /\ \/ engine' = "asleep" /\ flag' = FALSE /\ NoFault
       \/ Fault /\ UNCHANGED <<engine, flag>>
    /\ UNCHANGED kept
-----------------------------------------------------------------------------
(* sample, inside a block: the checks take no lock *)
Refused == IF engine = "none" THEN "closed" ELSE "asleep"
Sample(t) ==
    /\ pc[t] = "in"
    /\ IF engine = "none" \/ (sleepMode /\ ~ flag)
       THEN /\ answers' = answers \cup {Refused} /\ UNCHANGED cached
            /\ IF sleepMode THEN Waits(t, "leave") ELSE Goes(t, "out") /\ UNCHANGED lock
       ELSE /\ Goes(t, "generating") /\ UNCHANGED lock
            /\ answers' = answers \cup {IF cached \in {None, adapter} \/ adapter = None
                                       THEN "fresh" ELSE "stale"}
            /\ cached' = IF cached = None THEN adapter ELSE cached
    /\ NoFault /\ UNCHANGED <<sleepMode, engine, flag, adapter>>
Generated(t) ==
    /\ pc[t] = "generating"
    /\ \/ Goes(t, "in") /\ NoFault /\ UNCHANGED lock
       \/ /\ Fault
          /\ IF sleepMode THEN Waits(t, "leave") ELSE Goes(t, "out") /\ UNCHANGED lock
    /\ UNCHANGED <<engine, flag, kept>>

\* publish_adapter and unload_adapter; the id of a name is kept for ever.
Publish(p) ==
    /\ "republish" \in Uses \/ (adapter = None /\ cached \in {None, p})
    /\ adapter' = p
    /\ UNCHANGED <<sleepMode, engine, flag, lock, pc, cached, answers, left>>
Unload ==
    /\ adapter # None /\ adapter' = None
    /\ UNCHANGED <<sleepMode, engine, flag, lock, pc, cached, answers, left>>

\* close drops the engine, whatever runs on it.
Close(t) == /\ pc[t] = "out" /\ engine # "none" /\ left.calls > 0
            /\ "close_busy" \in Uses \/ \A u \in Tasks : ~ InBlock(u)
            /\ left' = [left EXCEPT !.calls = @ - 1]
            /\ Waits(t, "close") /\ UNCHANGED <<engine, flag, kept>>
Closed(t) ==
    /\ Holds(t, "close") /\ Releases(t, "out")
    /\ engine' = "none" /\ flag' = FALSE
    /\ NoFault /\ UNCHANGED kept

TaskStep(t) == \/ Build(t) \/ Built(t) \/ PutToSleep(t) \/ Wake(t) \/ Woken(t) \/ Leave(t)
               \/ Sleep(t) \/ Slept(t) \/ Generated(t) \/ Closed(t)
Next == \/ \E t \in Tasks : Initialize(t) \/ Enter(t) \/ Sample(t) \/ Close(t) \/ TaskStep(t)
        \/ \E p \in Paths : Publish(p)
        \/ Unload
\* Every task goes on with what it has begun; a block does not sample for ever.
Fairness == \A t \in Tasks : WF_vars(TaskStep(t)) /\ SF_vars(Leave(t))
Spec == Init /\ [][Next]_vars /\ Fairness
-----------------------------------------------------------------------------
(* Properties *)
\* The engine is never put to sleep or dropped under a generation (sample checks the
\* flag without the lock, and awake's exit sleeps it).
GeneratesAwake == \A t \in Tasks : pc[t] = "generating" => engine = "awake"

\* When nobody holds the lock, _is_awake says where the engine's weights are.
FlagIsEngine == Free => (flag <=> engine = "awake")

\* Outside the blocks the GPU is the trainer's: a sampler that may sleep is asleep,
\* unless an engine call raised (awake: "sampler is asleep here").
TrainerHasGpu ==
    sleepMode /\ Free /\ left.faults = MaxFaults /\ (\A t \in Tasks : pc[t] \in Outside)
        => engine # "awake"

\* A sample inside an awake block finds the sampler awake.
BlockIsAwake == "asleep" \notin answers
\* Who has the GPU, as the parties see it: generation and awake blocks find the engine
\* awake, the trainer finds it asleep, and the flag they go by tells the truth.
EngineSound == GeneratesAwake /\ FlagIsEngine /\ TrainerHasGpu /\ BlockIsAwake
\* A sample runs on the path published last under its adapter's name.
FreshAdapter == "stale" \notin answers

\* Tasks do not wait for the lock for ever, whatever call raises.
AllOut == \A t \in Tasks : pc[t] = "out"
TasksFinish == <>[]AllOut
=============================================================================
