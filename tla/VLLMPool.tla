------------------------------ MODULE VLLMPool ------------------------------
(***************************************************************************)
(* VLLMSamplingBackend (hatchery/core/sampling.py): a pool of vLLM servers *)
(* reached over HTTP. Endpoints are taken in turn, the unhealthy ones      *)
(* skipped; an adapter is loaded on the endpoint whose turn it is. Every   *)
(* HTTP call is a pair of steps, and the calls of concurrent tasks         *)
(* interleave; the backend has no lock.                                    *)
(*                                                                         *)
(* One adapter name, published in several versions, is enough: names do    *)
(* not interact. A vLLM server is modelled from how the backend uses it:   *)
(* it refuses to load a name it already serves and does not know a name it *)
(* was not given; when it cannot be reached it may keep its adapters or    *)
(* restart without them. Uses "race": clients unload while calls are under *)
(* way, or publish a name that is published.                               *)
(***************************************************************************)
EXTENDS Integers, FiniteSets

CONSTANTS Tasks, None, Uses, MaxEndpoints,
          MaxVersions, \* bound: versions of the adapter
          MaxFaults,   \* bound: endpoints lost, adapters rejected, answers lost
          MaxSamples   \* bound: samples sent

VARIABLES size,     \* len(endpoints)
          healthy, failures,
          turn,     \* _round_robin_idx, modulo the pool's size
          loaded,   \* the name is in _loaded_adapters
          up,       \* external: endpoint -> it answers
          served,   \* external: endpoint -> version of the adapter it serves, or None
          strays,   \* endpoints whose adapter the backend does not know of: the answer to
                    \* the load was lost, or the unload did not reach them
          calls,    \* task -> the HTTP call it waits for, or None
          promised, \* the version the last publish_adapter that returned was given, or None
          replies,  \* how samples ended
          spent     \* [version, faults, samples]
vars == <<size, healthy, failures, turn, loaded, up, served, strays, calls, promised, replies,
          spent>>

Endpoints == 0..(MaxEndpoints - 1)
Pool == 0..(size - 1)
Unhealthy == 3

\* A task's HTTP call: what it does, the endpoint it waits for, the version it is about.
Calls == [op : {"unload", "health"}, at : Nat]
         \cup [op : {"publish", "sample"}, at : Nat, version : Nat]

TypeOK ==
    /\ size \in 1..MaxEndpoints /\ turn \in Pool /\ loaded \in BOOLEAN
    /\ healthy \in [Endpoints -> BOOLEAN] /\ failures \in [Endpoints -> Nat]
    /\ strays \subseteq Pool
    /\ \A e \in Endpoints : e \notin Pool => served[e] = None /\ failures[e] = 0
    /\ \A t \in Tasks : calls[t] = None \/ (calls[t] \in Calls /\ calls[t].at \in Pool)

Init ==
    /\ size \in 1..MaxEndpoints /\ turn = 0 /\ loaded = FALSE
    /\ healthy = [e \in Endpoints |-> TRUE] /\ failures = [e \in Endpoints |-> 0]
    /\ up = [e \in Endpoints |-> TRUE] /\ served = [e \in Endpoints |-> None] /\ strays = {}
    /\ calls = [t \in Tasks |-> None] /\ promised = None /\ replies = {}
    /\ spent = [version |-> 0, faults |-> 0, samples |-> 0]
-----------------------------------------------------------------------------
(* _next_endpoint: the first healthy one from the turn on, or whoever's turn it is. *)
Nth(i) == (turn + i) % size
Pick == IF \E e \in Pool : healthy[e]
        THEN Nth(CHOOSE i \in Pool : /\ healthy[Nth(i)]
                                     /\ \A j \in Pool : j < i => ~ healthy[Nth(j)])
        ELSE Nth(0)
Sends(t, op) == calls' = [calls EXCEPT ![t] = op]
Idle(t) == calls[t] = None
Does(t, op) == ~ Idle(t) /\ calls[t].op = op
Racing == "race" \in Uses
Quiet == ~ Racing => \A t \in Tasks : Idle(t)
NoUnload == ~ Racing => ~ \E t \in Tasks : Does(t, "unload")
Done(t) == calls' = [calls EXCEPT ![t] = None]
Failing == spent.faults < MaxFaults /\ spent' = [spent EXCEPT !.faults = @ + 1]
pool == <<size, up>>
servers == <<served, strays>>

\* publish_adapter returns at once for a name that is loaded.
Publish(t) ==
    /\ Idle(t) /\ NoUnload /\ spent.version < MaxVersions
    /\ ~ Racing => promised = None /\ ~ \E u \in Tasks : Does(u, "publish")
    /\ spent' = [spent EXCEPT !.version = @ + 1]
    /\ IF loaded THEN promised' = spent'.version /\ UNCHANGED <<turn, calls>>
       ELSE /\ Sends(t, [op |-> "publish", at |-> Pick, version |-> spent'.version])
            /\ turn' = (Pick + 1) % size /\ UNCHANGED promised
    /\ UNCHANGED <<pool, healthy, failures, loaded, servers, replies>>
Loads(e, version) == served' = [served EXCEPT ![e] = version]
\* The server loads the adapter; or the call raises and the name is not marked loaded: the
\* server is down, rejects the adapter (its warning raises too: the logger of the standard
\* library takes no such keywords), or loads it and the answer is lost.
Published(t) ==
    /\ Does(t, "publish")
    /\ LET e == calls[t].at version == calls[t].version IN
       \/ /\ up[e] /\ served[e] = None /\ Loads(e, version)
          /\ loaded' = TRUE /\ promised' = version /\ UNCHANGED <<strays, spent>>
       \/ /\ ~ up[e] \/ served[e] # None
          /\ UNCHANGED <<servers, loaded, promised, spent>>
       \/ up[e] /\ Failing /\ UNCHANGED <<servers, loaded, promised>>
       \/ /\ up[e] /\ served[e] = None /\ Failing /\ Loads(e, version)
          /\ strays' = strays \cup {e} /\ UNCHANGED <<loaded, promised>>
    /\ Done(t) /\ UNCHANGED <<pool, healthy, failures, turn, replies>>

\* unload_adapter forgets the name, then asks every endpoint in turn, errors ignored.
Unload(t) ==
    /\ Idle(t) /\ Quiet /\ promised # None
    /\ loaded' = FALSE /\ promised' = None /\ Sends(t, [op |-> "unload", at |-> 0])
    /\ UNCHANGED <<pool, healthy, failures, turn, servers, replies, spent>>
Forgets(e) == /\ served' = [served EXCEPT ![e] = None] /\ strays' = strays \ {e}
Unloads(e) == IF up[e] THEN Forgets(e)
              ELSE /\ strays' = IF served[e] = None THEN strays ELSE strays \cup {e}
                   /\ UNCHANGED served
UnloadedFirst(t) ==                                             \* mutant of Unloaded
    /\ Does(t, "unload") /\ Unloads(calls[t].at) /\ Done(t)
    /\ UNCHANGED <<pool, healthy, failures, turn, loaded, promised, replies, spent>>
Unloaded(t) ==
    /\ Does(t, "unload")
    /\ LET e == calls[t].at
       IN /\ Unloads(e)
          /\ IF e + 1 \in Pool THEN Sends(t, [op |-> "unload", at |-> e + 1]) ELSE Done(t)
    /\ UNCHANGED <<pool, healthy, failures, turn, loaded, promised, replies, spent>>

\* sample goes to the next endpoint under the adapter's name.
Sample(t) ==
    /\ Idle(t) /\ NoUnload /\ promised # None /\ spent.samples < MaxSamples
    /\ Sends(t, [op |-> "sample", at |-> Pick, version |-> promised])
    /\ turn' = (Pick + 1) % size /\ spent' = [spent EXCEPT !.samples = @ + 1]
    /\ UNCHANGED <<pool, healthy, failures, loaded, servers, promised, replies>>
\* An error of any kind counts against the endpoint, the caller's included.
Reply(call) == IF ~ up[call.at] THEN "down"
               ELSE IF served[call.at] = None THEN "missing"
               ELSE IF served[call.at] = call.version THEN "fresh"
               ELSE IF call.at \in strays THEN "stray" ELSE "stale"
Sampled(t) ==
    /\ Does(t, "sample")
    /\ replies' = replies \cup {Reply(calls[t])}
    /\ LET e == calls[t].at
           ok == Reply(calls[t]) \notin {"down", "missing"}
       IN /\ failures' = [failures EXCEPT ![e] = IF ok THEN 0 ELSE @ + 1]
          /\ healthy' = [healthy EXCEPT ![e] = ok \/ (@ /\ failures'[e] < Unhealthy)]
    /\ Done(t) /\ UNCHANGED <<pool, turn, loaded, servers, promised, spent>>

\* health_check asks every endpoint in turn.
HealthCheck(t) ==
    /\ Idle(t) /\ Sends(t, [op |-> "health", at |-> 0])
    /\ ~ \E u \in Tasks : Does(u, "health")
    /\ UNCHANGED <<pool, healthy, failures, turn, loaded, servers, promised, replies, spent>>
CheckedPastEnd(t) ==                                            \* mutant of Checked
    /\ Does(t, "health")
    /\ LET e == calls[t].at
       IN /\ healthy' = [healthy EXCEPT ![e] = up[e]]
          /\ IF e + 1 \in 0..size THEN Sends(t, [op |-> "health", at |-> e + 1]) ELSE Done(t)
    /\ UNCHANGED <<pool, failures, turn, loaded, servers, promised, replies, spent>>
Checked(t) ==
    /\ Does(t, "health")
    /\ LET e == calls[t].at
       IN /\ healthy' = [healthy EXCEPT ![e] = up[e]]
          /\ IF e + 1 \in Pool THEN Sends(t, [op |-> "health", at |-> e + 1]) ELSE Done(t)
    /\ UNCHANGED <<pool, failures, turn, loaded, servers, promised, replies, spent>>

\* External: a server restarts without its adapters, or cannot be reached for a while.
Lose(e) == /\ up[e] /\ Failing /\ up' = [up EXCEPT ![e] = FALSE]
           /\ Forgets(e) \/ UNCHANGED servers
           /\ UNCHANGED <<size, healthy, failures, turn, loaded, calls, promised, replies>>
Recover(e) == /\ ~ up[e] /\ up' = [up EXCEPT ![e] = TRUE]
              /\ UNCHANGED <<size, healthy, failures, turn, loaded, servers, calls, promised,
                             replies, spent>>

Next == \/ \E t \in Tasks : \/ Publish(t) \/ Published(t) \/ Unload(t) \/ Unloaded(t)
                            \/ Sample(t) \/ Sampled(t) \/ HealthCheck(t) \/ Checked(t)
        \/ \E e \in Pool : Lose(e) \/ Recover(e)
Spec == Init /\ [][Next]_vars
-----------------------------------------------------------------------------
(* Properties *)
\* An adapter that was unloaded and published again is not answered from its old weights.
NeverStale == {"stale", "stray"} \cap replies = {}
\* A server that was told of every unload, and whose every load the backend knows of, never
\* answers from old weights.
StaleOnlyFromStrays == "stale" \notin replies

\* publish_adapter makes the name "loaded and ready for sampling": with one endpoint that
\* never failed, a sample of a published name finds it.
ReadyAlone == size = 1 /\ spent.faults = 0 => "missing" \notin replies
\* What the pool promises a client that publishes and samples in turn, through loads that
\* raise, lost answers, and servers that restart or keep their adapters out of reach: the
\* version published last answers, never an older one from a server the backend keeps
\* track of and, from a single server, never none.
ServesPublished == StaleOnlyFromStrays /\ ReadyAlone
\* The same for a pool of any size.
ReadyForSampling == spent.faults = 0 => "missing" \notin replies

\* An endpoint is taken out of rotation only when it was down at some time: the errors of
\* callers do not count against a healthy server.
UnhealthyWasDown == \A e \in Pool : spent.faults = 0 => healthy[e]
=============================================================================
