---------------------------- MODULE WorkerGroup ----------------------------
(***************************************************************************)
(* A worker of several ranks.  Rank 0, the coordinator, takes jobs from    *)
(* the queue and broadcasts them; the followers run the same handlers so   *)
(* that the collectives inside them match; the errors of all ranks decide  *)
(* whether rank 0 acks or nacks.  A broadcast, a gather or a collective    *)
(* inside a handler happens when every rank has entered it, and blocks     *)
(* until then.                                                             *)
(***************************************************************************)
EXTENDS Naturals, FiniteSets
CONSTANTS World,         \* the ranks are 0 .. World - 1
          Jobs, Kind,    \* "collective", "local" (no collective), "unknown", "wide"
          MaxAttempts,   \* deliveries before a nack fails the job
          MaxJobs,       \* the coordinator's max_jobs, 0 for none
          MaxFaults,     \* dequeues that raise and handlers that raise on one rank alone
          QueueFaults,   \* may a queue call of the coordinator raise?
          LoneBefore     \* may a handler raise on one rank alone before its collective?

ASSUME GroupAssumption ==
    /\ "none" \notin Jobs /\ World \in Nat \ {0, 1} /\ MaxAttempts \in Nat \ {0} /\ MaxJobs \in Nat
    /\ MaxFaults \in Nat /\ QueueFaults \in BOOLEAN /\ LoneBefore \in BOOLEAN
    /\ Kind \in [Jobs -> {"collective", "local", "unknown", "wide"}]

Ranks == 0 .. World - 1
None == "none"

VARIABLES queue, attempts,   \* the shared queue, of which rank 0 is the only consumer here
          at,                \* where each rank is in its loop
          bus,               \* the value rank 0 brings to the broadcast
          doing, err,        \* each rank's job, and whether its handler raised
          fate,              \* does this job's handler raise on every rank alike?
          changed,           \* how often each rank's handler changed its model for a job
          whole,             \* history: ranks whose last run of the job did not raise
          processed, faults
vars == <<queue, attempts, at, bus, doing, err, fate, changed, whole, processed, faults>>

Idle == [type |-> "idle", job |-> None]

TypeOK ==
    /\ queue \in [Jobs -> {"queued", "in_flight", "completed", "failed"}]
    /\ attempts \in [Jobs -> 0 .. MaxAttempts]
    /\ at \in [Ranks -> {"top", "bus", "running", "collective", "after", "gather",
                         "settle", "out", "dead"}]
    /\ bus \in [type : {"idle", "job", "shutdown"}, job : Jobs \cup {None}]
    /\ doing \in [Ranks -> Jobs \cup {None}] /\ err \in [Ranks -> BOOLEAN]
    /\ fate \in {"runs", "raises"}
    /\ \A r \in Ranks, j \in Jobs : changed[r][j] \in 0 .. MaxAttempts
    /\ whole \in [Jobs -> SUBSET Ranks]
    /\ processed \in Nat /\ faults \in 0 .. MaxFaults

Init ==
    /\ queue = [j \in Jobs |-> "queued"] /\ attempts = [j \in Jobs |-> 0]
    /\ at = [r \in Ranks |-> "top"] /\ bus = Idle
    /\ doing = [r \in Ranks |-> None] /\ err = [r \in Ranks |-> FALSE]
    /\ fate = "runs"
    /\ changed = [r \in Ranks |-> [j \in Jobs |-> 0]]
    /\ whole = [j \in Jobs |-> {}]
    /\ processed = 0 /\ faults = 0

QueueCall == UNCHANGED <<at, bus, doing, err, fate, changed, whole, processed, faults>>
AllAt(place) == \A r \in Ranks : at[r] = place
AllTo(place) == at' = [r \in Ranks |-> place]

----------------------------------------------------------------------------
Fault == faults < MaxFaults /\ faults' = faults + 1

(* The coordinator's loop: what it brings to the next broadcast. *)
Reached == MaxJobs > 0 /\ processed >= MaxJobs
Offers(message) == /\ at' = [at EXCEPT ![0] = "bus"] /\ bus' = message
                   /\ UNCHANGED <<err, fate, changed, whole, processed>>

PollQuietly ==                                                  \* mutant of Poll
    /\ at[0] = "top" /\ Reached
    /\ at' = [at EXCEPT ![0] = "out"]
    /\ UNCHANGED <<queue, attempts, bus, doing, err, fate, changed, whole, processed, faults>>
\* An empty queue and a dequeue that raises both end in an idle message (a queue that is
\* down comes back); so does a job that asks for more context parallelism than there is.
Poll ==
    /\ at[0] = "top"
    /\ \/ /\ Reached /\ Offers([type |-> "shutdown", job |-> None])
          /\ UNCHANGED <<queue, attempts, doing, faults>>
       \/ /\ ~Reached /\ Offers(Idle)
          /\ \/ (\A j \in Jobs : queue[j] # "queued") /\ UNCHANGED faults
             \/ QueueFaults /\ Fault
          /\ UNCHANGED <<queue, attempts, doing>>
       \/ \E j \in Jobs :
            /\ ~Reached /\ queue[j] = "queued"
            /\ queue' = [queue EXCEPT ![j] = "in_flight"]
            /\ attempts' = [attempts EXCEPT ![j] = @ + 1]
            /\ doing' = [doing EXCEPT ![0] = j] /\ UNCHANGED faults
            /\ Offers(IF Kind[j] = "wide" THEN Idle ELSE [type |-> "job", job |-> j])

ListenAndCount(r) ==                                            \* mutant of Listen
    /\ at[r] = "top" /\ r # 0
    /\ at' = [at EXCEPT ![r] = IF Reached THEN "out" ELSE "bus"]
    /\ UNCHANGED <<queue, attempts, bus, doing, err, fate, changed, whole, processed, faults>>
Listen(r) ==
    /\ at[r] = "top" /\ r # 0
    /\ at' = [at EXCEPT ![r] = "bus"]
    /\ UNCHANGED <<queue, attempts, bus, doing, err, fate, changed, whole, processed, faults>>

\* The broadcast.  Handlers are deterministic up to the faults of a rank: a job they
\* refuse (a missing session, a batch that does not divide) is refused on every rank.
Broadcast ==
    /\ AllAt("bus")
    /\ \/ bus.type = "shutdown" /\ AllTo("out") /\ UNCHANGED <<doing, fate>>
       \/ /\ bus.type = "idle" /\ UNCHANGED <<doing, fate>>
          /\ at' = [r \in Ranks |-> IF r = 0 /\ doing[0] # None THEN "settle" ELSE "top"]
       \/ /\ bus.type = "job" /\ AllTo("running")
          /\ doing' = [r \in Ranks |-> bus.job]
          /\ fate' \in {"runs", "raises"}
    /\ bus' = Idle /\ err' = [r \in Ranks |-> FALSE]
    /\ UNCHANGED <<queue, attempts, changed, whole, processed, faults>>

----------------------------------------------------------------------------
(* _execute_job, on every rank *)
Raises(r) == err' = [err EXCEPT ![r] = TRUE] /\ at' = [at EXCEPT ![r] = "gather"]
Changes(r) == changed' = [changed EXCEPT ![r][doing[r]] = @ + 1]

\* An unknown operation is refused with a result, not with an exception.
Run(r) ==
    /\ at[r] = "running"
    /\ \/ /\ fate = "raises" /\ Kind[doing[r]] # "unknown"
          /\ Raises(r) /\ UNCHANGED <<changed, faults>>
       \/ /\ fate = "runs" /\ Kind[doing[r]] = "collective"
          /\ at' = [at EXCEPT ![r] = "collective"] /\ UNCHANGED <<err, changed, faults>>
       \/ /\ fate = "runs" /\ Kind[doing[r]] = "local" /\ Changes(r)
          /\ at' = [at EXCEPT ![r] = "after"] /\ UNCHANGED <<err, faults>>
       \/ /\ Kind[doing[r]] = "unknown"
          /\ at' = [at EXCEPT ![r] = "gather"] /\ UNCHANGED <<err, changed, faults>>
       \/ /\ LoneBefore \/ Kind[doing[r]] = "local"
          /\ Kind[doing[r]] # "unknown" /\ Fault /\ Raises(r) /\ UNCHANGED changed
    /\ UNCHANGED <<queue, attempts, bus, doing, fate, whole, processed>>

CollectiveOnCoordinator ==                                      \* mutant of Collective
    /\ AllAt("collective") /\ AllTo("after")
    /\ changed' = [changed EXCEPT ![0][doing[0]] = @ + 1]
    /\ UNCHANGED <<queue, attempts, bus, doing, err, fate, whole, processed, faults>>
Collective ==
    /\ AllAt("collective") /\ AllTo("after")
    /\ changed' = [r \in Ranks |-> [changed[r] EXCEPT ![doing[r]] = @ + 1]]
    /\ UNCHANGED <<queue, attempts, bus, doing, err, fate, whole, processed, faults>>

\* The rest of the handler: only rank 0 persists, and any rank may still fail.
After(r) ==
    /\ at[r] = "after"
    /\ \/ at' = [at EXCEPT ![r] = "gather"] /\ UNCHANGED <<err, faults>>
       \/ Fault /\ Raises(r)
    /\ UNCHANGED <<queue, attempts, bus, doing, fate, changed, whole, processed>>

----------------------------------------------------------------------------
(* gather_errors, and the coordinator's answer *)
Gather ==
    /\ AllAt("gather")
    /\ at' = [r \in Ranks |-> IF r = 0 THEN "settle" ELSE "top"]
    /\ doing' = [r \in Ranks |-> IF r = 0 THEN doing[0] ELSE None]
    /\ whole' = [whole EXCEPT ![doing[0]] = {r \in Ranks : ~err[r]}]
    /\ UNCHANGED <<queue, attempts, bus, err, fate, changed, processed, faults>>

Nacked(j) == queue' = [queue EXCEPT ![j] = IF attempts[j] >= MaxAttempts THEN "failed"
                                           ELSE "queued"]
SettleOwn ==                                                    \* mutant of Settle
    LET j == doing[0]
    IN  /\ at[0] = "settle"
        /\ IF Kind[j] = "wide" \/ err[0] THEN Nacked(j)
           ELSE queue' = [queue EXCEPT ![j] = IF Kind[j] = "unknown" THEN "failed"
                                              ELSE "completed"]
        /\ processed' = IF Kind[j] = "wide" THEN processed ELSE processed + 1
        /\ at' = [at EXCEPT ![0] = "top"] /\ doing' = [doing EXCEPT ![0] = None]
        /\ UNCHANGED <<attempts, bus, err, fate, changed, whole, faults>>
Settle ==
    LET j == doing[0]
    IN  /\ at[0] = "settle"
        /\ IF Kind[j] = "wide" \/ \E r \in Ranks : err[r] THEN Nacked(j)
           ELSE queue' = [queue EXCEPT ![j] = IF Kind[j] = "unknown" THEN "failed"
                                              ELSE "completed"]
        /\ processed' = IF Kind[j] = "wide" THEN processed ELSE processed + 1
        /\ at' = [at EXCEPT ![0] = "top"] /\ doing' = [doing EXCEPT ![0] = None]
        /\ UNCHANGED <<attempts, bus, err, fate, changed, whole, faults>>

\* The ack, the nack or the pin raises: unlike _process_one's, the coordinator's loop does
\* not catch it, and run() ends on rank 0 with no shutdown message.
SettleRaises ==
    /\ at[0] = "settle" /\ QueueFaults
    /\ at' = [at EXCEPT ![0] = "dead"]
    /\ UNCHANGED <<queue, attempts, bus, doing, err, fate, changed, whole, processed, faults>>

\* An in-flight job whose coordinator is gone is redelivered, to another worker.
Next ==
    \/ Poll \/ Broadcast \/ Collective \/ Gather \/ Settle \/ SettleRaises
    \/ \E r \in Ranks : Listen(r) \/ Run(r) \/ After(r)

Fairness == /\ WF_vars(Poll) /\ WF_vars(Broadcast) /\ WF_vars(Collective) /\ WF_vars(Gather)
            /\ WF_vars(Settle)
            /\ \A r \in Ranks : WF_vars(Listen(r)) /\ WF_vars(Run(r)) /\ WF_vars(After(r))
Spec == Init /\ [][Next]_vars /\ Fairness

----------------------------------------------------------------------------
(* A job is acked as completed only when its handler ran to its end on every rank in that
   delivery: one rank's failure (an object it could not write) is not hidden by the others. *)
AckMeansAllRan ==
    \A j \in Jobs : queue[j] = "completed" => whole[j] = Ranks

(* Between jobs the shards agree: a collective handler has changed the model of every rank
   equally often, whatever was nacked, retried or refused. *)
RanksAgree ==
    (\A r \in Ranks : at[r] \in {"top", "bus", "settle", "out"}) =>
        \A j \in Jobs, r \in Ranks :
            Kind[j] = "collective" => changed[r][j] = changed[0][j]

(* Unless rank 0 has died, the group gets through its jobs: each is answered, and when
   max_jobs is reached every rank leaves its loop: no rank waits for a broadcast, a gather or a
   collective that the others will not enter. *)
GroupFinishes ==
    <>[](\/ at[0] = "dead"
         \/ AllAt("out")
         \/ ~Reached /\ \A j \in Jobs : queue[j] \in {"completed", "failed"})

(* When rank 0 has left its loop, every follower leaves it too (the coordinator's doc says
   that what it broadcasts keeps the followers from hanging for ever). *)
FollowersReleased == at[0] \in {"out", "dead"} ~> \A r \in Ranks \ {0} : at[r] = "out"
============================================================================
