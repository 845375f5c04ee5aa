-------------------------- MODULE GatewaySessions --------------------------
(***************************************************************************)
(* The life of a session at the gateway: the metadata row that creation,   *)
(* resume, deletion and every operation read and then write in separate    *)
(* awaits, the user's quota, the job rows beside the queue, and the blobs  *)
(* of the live state, which a worker writes while the gateway copies or    *)
(* deletes them (hatchery/core/gateway.py and tinker_compat.py).           *)
(*                                                                         *)
(* One user owns every session.  A session is created once, by the native  *)
(* API, by create_model or as a sampler; a request is one POST, GET  *)
(* or DELETE on an existing session.  A step is what runs between two      *)
(* awaits that touch shared state.                                         *)
(***************************************************************************)
EXTENDS Naturals, Sequences, FiniteSets
CONSTANTS Sessions, Reqs,
          Scenarios,           \* how each session is created, what each request asks
          Parts,               \* the blobs of a state, in the order they are written
          MaxSessions,         \* the user's max_concurrent_sessions
          ListLimit,           \* the default limit of list_sessions
          Fleets,              \* the statuses the worker may have at first
          MaxGen, MaxFaults, MaxFleetChanges     \* bounds of the model

ASSUME SessionsAssumption ==
    /\ IsFiniteSet(Sessions) /\ IsFiniteSet(Reqs)
    /\ Sessions \cap Reqs = {}
    /\ \A c \in Scenarios :
          /\ c.via \in [Sessions -> {"native", "tinker", "sampler", "never"}]
          /\ c.asks \in [Reqs -> [kind : STRING, session : Sessions]]
    /\ Parts \in Seq(STRING) /\ Len(Parts) > 0
ASSUME LimitsAssumption ==
    /\ MaxSessions \in Nat \ {0} /\ ListLimit \in Nat \ {0}
    /\ Fleets \subseteq {"unregistered", "idle", "draining", "offline"}
    /\ MaxGen \in Nat \ {0} /\ MaxFaults \in Nat /\ MaxFleetChanges \in Nat

VARIABLES
    scenario,    \* the requests of the run
    row,         \* a session's status in the metadata store
    create,      \* how far the creation of a session has come
    req,         \* how far the handler of a request has come
    part,        \* the next blob the handler of a request copies or deletes
    queue,       \* the jobs of a session that wait or run
    writing,     \* the next blob the worker writes for the head of a queue, 0: none
    answer,      \* what the queue has to say about a job
    jobRow,      \* a job's status in the metadata store
    live, ckpt,  \* the blobs of the live state and of the checkpoint: 0, or a generation
    gen,         \* how many states the worker has written for a session, up to MaxGen
    recorded,    \* sessions whose checkpoint has a record
    fleet,       \* the status under which the worker is registered
    faults, changes,
    raced,       \* history: two creations counted the sessions side by side
    revived,     \* history: sessions that became active again
    quiet        \* history: requests that ended a session with nothing else in flight
vars == <<scenario, row, create, req, part, queue, writing, answer, jobRow, live, ckpt, gen,
          recorded, fleet, faults, changes, raced, revived, quiet>>
work == <<queue, writing, answer, gen>>
bounds == <<scenario, faults, changes>>

Jobs == Sessions \cup Reqs \cup {<<s, "load">> : s \in Sessions}
NativeKinds == {"op", "get", "delete", "checkpoint"}
TinkerKinds == {"post", "unload", "save_state", "drop_checkpoint"}
Via(s) == scenario.via[s]
Kind(r) == scenario.asks[r].kind
Session(r) == scenario.asks[r].session
Ended == {"new", "done", "refused", "failed", "stranded", "lost"}
Blank == [k \in DOMAIN Parts |-> 0]

TypeOK ==
    /\ scenario \in Scenarios
    /\ row \in [Sessions -> {"absent", "active", "failed", "terminated"}]
    /\ create \in [Sessions -> {"new", "counted", "recorded", "screened", "waiting", "ready",
                                "loading", "done", "refused", "failed", "stranded", "lost"}]
    /\ req \in [Reqs -> {"new", "checked", "touched", "clearing", "waiting",
                         "done", "refused", "failed", "lost"}]
    /\ part \in [Reqs -> 1 .. Len(Parts) + 1]
    /\ queue \in [Sessions -> Seq(Jobs)]
    /\ writing \in [Sessions -> 0 .. Len(Parts)]
    /\ answer \in [Jobs -> {"none", "completed", "failed"}]
    /\ jobRow \in [Jobs -> {"none", "queued", "completed", "failed", "timed_out"}]
    /\ live \in [Sessions -> [DOMAIN Parts -> 0 .. MaxGen]]
    /\ ckpt \in [Sessions -> [DOMAIN Parts -> 0 .. MaxGen]]
    /\ gen \in [Sessions -> 0 .. MaxGen] /\ recorded \subseteq Sessions
    /\ fleet \in {"unregistered", "idle", "draining", "offline"}
    /\ raced \in BOOLEAN /\ revived \subseteq Sessions
    /\ quiet \subseteq Reqs

Init ==
    /\ scenario \in Scenarios
    /\ row = [s \in Sessions |-> "absent"] /\ create = [s \in Sessions |-> "new"]
    /\ req = [r \in Reqs |-> "new"] /\ part = [r \in Reqs |-> 1]
    /\ queue = [s \in Sessions |-> <<>>] /\ writing = [s \in Sessions |-> 0]
    /\ answer = [j \in Jobs |-> "none"] /\ jobRow = [j \in Jobs |-> "none"]
    /\ live = [s \in Sessions |-> Blank] /\ ckpt = [s \in Sessions |-> Blank]
    /\ gen = [s \in Sessions |-> 0] /\ recorded = {}
    /\ fleet \in Fleets /\ faults = 0 /\ changes = 0
    /\ raced = FALSE /\ revived = {}
    /\ quiet = {}

----------------------------------------------------------------------------
(* Shared pieces *)
SetStatus(s, status) ==                                  \* metadata.update_session
    /\ row' = [row EXCEPT ![s] = status]
    /\ revived' = IF status = "active" /\ row[s] \in {"failed", "terminated"}
                  THEN revived \cup {s} ELSE revived

\* _enqueue_job: the job's row, then the queue.
EnqueueJob(s, j) ==
    /\ jobRow' = [jobRow EXCEPT ![j] = "queued"]
    /\ queue' = [queue EXCEPT ![s] = Append(@, j)]
    /\ UNCHANGED <<writing, answer, gen>>
\* The queue refuses: the row stays behind, and nobody catches the exception.
EnqueueRaises(j) ==
    /\ faults < MaxFaults /\ faults' = faults + 1
    /\ jobRow' = [jobRow EXCEPT ![j] = "queued"]
    /\ UNCHANGED <<work, scenario, changes>>

ResultsInTime(j) == {answer[j]} \ {"none"}                 \* mutant of Results
\* What wait_for_result may return: the answer, or a timeout.
Results(j) == IF answer[j] = "none" THEN {"timed_out"} ELSE {answer[j]}
UpdateJob(j, status) == jobRow' = [jobRow EXCEPT ![j] = status]

----------------------------------------------------------------------------
(* Creation: POST /v1/sessions, /create_model, /create_sampling_session *)
AtCreate(s, pc) == create' = [create EXCEPT ![s] = pc]

Active == {s \in Sessions : row[s] = "active"}
Listed == IF Cardinality(Active) < ListLimit THEN Cardinality(Active) ELSE ListLimit

CountLoosely(s) ==                                      \* mutant of CountSessions
    /\ create[s] = "new" /\ Via(s) # "never"
    /\ IF Listed > MaxSessions THEN AtCreate(s, "refused") ELSE AtCreate(s, "counted")
    /\ raced' = (raced \/ \E t \in Sessions : create[t] = "counted")
    /\ UNCHANGED <<row, req, part, work, jobRow, live, ckpt, recorded, fleet, bounds,
                   revived, quiet>>
CountSessions(s) ==
    /\ create[s] = "new" /\ Via(s) # "never"
    /\ IF Listed >= MaxSessions THEN AtCreate(s, "refused") ELSE AtCreate(s, "counted")
    /\ raced' = (raced \/ \E t \in Sessions : create[t] = "counted")
    /\ UNCHANGED <<row, req, part, work, jobRow, live, ckpt, recorded, fleet, bounds,
                   revived, quiet>>

RecordSession(s) ==
    /\ create[s] = "counted" /\ SetStatus(s, "active")
    /\ AtCreate(s, IF Via(s) = "native" THEN "recorded" ELSE "screened")
    /\ UNCHANGED <<req, part, work, jobRow, live, ckpt, recorded, fleet, bounds, raced,
                   quiet>>

\* Only the native API looks at the registered workers, and only if there are any.
ScreenWorkers(s) ==
    /\ create[s] = "recorded"
    /\ IF fleet \in {"unregistered", "idle"}
       THEN AtCreate(s, "screened") /\ UNCHANGED <<row, revived>>
       ELSE AtCreate(s, "failed") /\ SetStatus(s, "failed")
    /\ UNCHANGED <<req, part, work, jobRow, live, ckpt, recorded, fleet, bounds, raced,
                   quiet>>

\* The Tinker routes ask the pre-op hooks once the row is there: one that refuses (no
\* credit left) raises, and neither it nor a refusing queue takes the row back.
HookRefuses(s) ==
    /\ create[s] = "screened" /\ Via(s) # "native"
    /\ AtCreate(s, "stranded")
    /\ UNCHANGED <<row, req, part, work, jobRow, live, ckpt, recorded, fleet, bounds, raced,
                   revived, quiet>>
SubmitInit(s) ==
    /\ create[s] = "screened"
    /\ \/ EnqueueJob(s, s) /\ AtCreate(s, "waiting") /\ UNCHANGED bounds
       \/ EnqueueRaises(s) /\ AtCreate(s, "stranded")
    /\ UNCHANGED <<row, req, part, live, ckpt, recorded, fleet, raced, revived, quiet>>

InitAnsweredUnmarked(s) ==                              \* mutant of InitAnswered
    /\ create[s] = "waiting"
    /\ \E result \in Results(s) :
          /\ IF Via(s) = "native" THEN UpdateJob(s, result) ELSE UNCHANGED jobRow
          /\ AtCreate(s, IF result = "completed" THEN "done" ELSE "failed")
    /\ UNCHANGED <<row, revived, req, part, work, live, ckpt, recorded, fleet, bounds, raced,
                   quiet>>
InitAnswered(s) ==
    /\ create[s] = "waiting"
    /\ \E result \in Results(s) :
          /\ IF Via(s) = "native" THEN UpdateJob(s, result) ELSE UNCHANGED jobRow
          /\ IF result = "completed"
             THEN /\ AtCreate(s, IF Via(s) = "sampler" THEN "ready" ELSE "done")
                  /\ UNCHANGED <<row, revived>>
             ELSE AtCreate(s, "failed") /\ SetStatus(s, "failed")
    /\ UNCHANGED <<req, part, work, live, ckpt, recorded, fleet, bounds, raced, quiet>>

\* A sampler made from a checkpoint loads it with a second job.
SubmitLoad(s) ==
    /\ create[s] = "ready"
    /\ \/ EnqueueJob(s, <<s, "load">>) /\ AtCreate(s, "loading") /\ UNCHANGED bounds
       \/ EnqueueRaises(<<s, "load">>) /\ AtCreate(s, "stranded")
    /\ UNCHANGED <<row, req, part, live, ckpt, recorded, fleet, raced, revived, quiet>>
LoadAnswered(s) ==
    /\ create[s] = "loading"
    /\ \E result \in Results(<<s, "load">>) :
          IF result = "completed"
          THEN AtCreate(s, "done") /\ UNCHANGED <<row, revived>>
          ELSE AtCreate(s, "failed") /\ SetStatus(s, "failed")
    /\ UNCHANGED <<req, part, work, jobRow, live, ckpt, recorded, fleet, bounds, raced,
                   quiet>>

Creation(s) ==
    \/ CountSessions(s) \/ RecordSession(s) \/ ScreenWorkers(s) \/ HookRefuses(s)
    \/ SubmitInit(s) \/ InitAnswered(s) \/ SubmitLoad(s) \/ LoadAnswered(s)

----------------------------------------------------------------------------
(* Requests on a session *)
AtReq(r, pc) == req' = [req EXCEPT ![r] = pc]
Untouched == UNCHANGED <<create, fleet, raced>>

AdmitsAll(r) == row[Session(r)] # "absent"               \* mutant of Admits
\* get_session, the owner and the status: resume_session refuses only what was
\* terminated, everything else only what is not active.
Admits(r) == IF Kind(r) = "resume" THEN row[Session(r)] \notin {"absent", "terminated"}
                                   ELSE row[Session(r)] = "active"
ReadSession(r) ==
    /\ req[r] = "new" /\ Kind(r) # "none" /\ row[Session(r)] # "absent"
    /\ AtReq(r, IF Admits(r) THEN "checked" ELSE "refused")
    /\ Untouched
    /\ UNCHANGED <<row, part, work, jobRow, live, ckpt, recorded, bounds, revived, quiet>>

\* The end of _get_owned_session, and of resume_session: the row becomes ACTIVE,
\* whatever it is by now.
Touch(r) ==
    /\ req[r] = "checked" /\ Kind(r) \in NativeKinds \cup {"resume"}
    /\ SetStatus(Session(r), "active")
    /\ AtReq(r, IF Kind(r) \in {"resume", "get"} THEN "done" ELSE "touched")
    /\ Untouched
    /\ UNCHANGED <<part, work, jobRow, live, ckpt, recorded, bounds, quiet>>

Past(r) == IF Kind(r) \in NativeKinds THEN "touched" ELSE "checked"

\* _run_op enqueues and waits; the Tinker routes answer with a future.
RunOp(r) ==
    /\ Kind(r) \in {"op", "post"} /\ req[r] = Past(r)
    /\ \/ /\ EnqueueJob(Session(r), r) /\ UNCHANGED bounds
          /\ AtReq(r, IF Kind(r) = "op" THEN "waiting" ELSE "done")
       \/ EnqueueRaises(r) /\ AtReq(r, "failed")
    /\ Untouched
    /\ UNCHANGED <<row, part, live, ckpt, recorded, revived, quiet>>
OpAnswered(r) ==
    /\ req[r] = "waiting"
    /\ \E result \in Results(r) :
          /\ UpdateJob(r, result)
          /\ AtReq(r, IF result = "completed" THEN "done" ELSE "failed")
    /\ Untouched
    /\ UNCHANGED <<row, part, work, live, ckpt, recorded, bounds, revived, quiet>>

\* Nothing else is under way that read the session's row while it was active.
NothingElse(r) ==
    LET s == Session(r)
    IN  /\ create[s] \in Ended /\ queue[s] = <<>>
        /\ \A q \in Reqs \ {r} : Session(q) = s => req[q] \in Ended

\* delete_session and unload_model: the row, then the blobs one by one.
Terminate(r) ==
    /\ Kind(r) \in {"delete", "unload"} /\ req[r] = Past(r)
    /\ SetStatus(Session(r), "terminated") /\ AtReq(r, "clearing")
    /\ quiet' = IF NothingElse(r) THEN quiet \cup {r} ELSE quiet
    /\ Untouched
    /\ UNCHANGED <<part, work, jobRow, live, ckpt, recorded, bounds>>

DeleteBlob(r) ==
    /\ req[r] = "clearing"
    /\ live' = [live EXCEPT ![Session(r)][part[r]] = 0]
    /\ part' = [part EXCEPT ![r] = @ + 1]
    /\ IF part[r] = Len(Parts)
       THEN AtReq(r, "done") ELSE UNCHANGED req
    /\ Untouched
    /\ UNCHANGED <<row, work, jobRow, ckpt, recorded, bounds, revived, quiet>>

\* save_state, and save_weights of the native API, which copies the weights only:
\* a blob that is not there is skipped, but without weights there is nothing to save.
CopyBlob(r) ==
    LET s == Session(r)
        last == IF Kind(r) = "checkpoint" THEN 1 ELSE Len(Parts)
    IN  /\ Kind(r) \in {"save_state", "checkpoint"} /\ req[r] = Past(r)
        /\ IF part[r] = 1 /\ live[s][1] = 0
           THEN AtReq(r, "refused") /\ UNCHANGED <<part, ckpt, recorded>>
           ELSE /\ ckpt' = IF live[s][part[r]] = 0 THEN ckpt
                           ELSE [ckpt EXCEPT ![s][part[r]] = live[s][part[r]]]
                /\ part' = [part EXCEPT ![r] = @ + 1]
                /\ IF part[r] < last THEN UNCHANGED <<req, recorded>>
                   ELSE /\ AtReq(r, "done")
                        /\ recorded' = IF Kind(r) = "save_state" THEN recorded \cup {s}
                                                                 ELSE recorded
        /\ Untouched
        /\ UNCHANGED <<row, work, jobRow, live, bounds, revived, quiet>>

\* delete_checkpoint: the blobs one by one; the record stays.
DropCheckpoint(r) ==
    /\ Kind(r) = "drop_checkpoint" /\ req[r] = Past(r)
    /\ ckpt' = [ckpt EXCEPT ![Session(r)][part[r]] = 0]
    /\ part' = [part EXCEPT ![r] = @ + 1]
    /\ IF part[r] = Len(Parts) THEN AtReq(r, "done") ELSE UNCHANGED req
    /\ Untouched
    /\ UNCHANGED <<row, work, jobRow, live, recorded, bounds, revived, quiet>>

Handling(r) ==
    \/ ReadSession(r) \/ Touch(r) \/ RunOp(r) \/ OpAnswered(r) \/ Terminate(r)
    \/ DeleteBlob(r) \/ CopyBlob(r) \/ DropCheckpoint(r)

----------------------------------------------------------------------------
(* The worker, as the gateway knows it: a session's jobs run in order, and *)
(* one that succeeds writes the blobs of the new state before it answers.  *)
Answered(s, result) ==
    /\ answer' = [answer EXCEPT ![Head(queue[s])] = result]
    /\ queue' = [queue EXCEPT ![s] = Tail(@)]
Gateway == UNCHANGED <<row, create, req, part, jobRow, ckpt, recorded, fleet, bounds,
                       raced, revived, quiet>>

StartJob(s) ==
    /\ queue[s] # <<>> /\ writing[s] = 0
    /\ \/ \E result \in {"completed", "failed"} :      \* it changed nothing
             Answered(s, result) /\ UNCHANGED <<writing, gen>>
       \/ /\ writing' = [writing EXCEPT ![s] = 1]
          /\ gen' = [gen EXCEPT ![s] = IF @ = MaxGen THEN @ ELSE @ + 1]
          /\ UNCHANGED <<queue, answer>>
    /\ UNCHANGED live /\ Gateway
WriteBlob(s) ==
    /\ writing[s] > 0
    /\ live' = [live EXCEPT ![s][writing[s]] = gen[s]]
    /\ IF writing[s] = Len(Parts)
       THEN Answered(s, "completed") /\ writing' = [writing EXCEPT ![s] = 0]
       ELSE writing' = [writing EXCEPT ![s] = @ + 1] /\ UNCHANGED <<queue, answer>>
    /\ UNCHANGED gen /\ Gateway

----------------------------------------------------------------------------
(* The compute backend's record of the worker *)
FleetChange(status) ==
    /\ changes < MaxFleetChanges /\ changes' = changes + 1 /\ fleet' = status
    /\ UNCHANGED <<scenario, row, create, req, part, work, jobRow, live, ckpt, recorded, faults,
                   raced, revived, quiet>>
RegisterWorker == FleetChange("idle")
Heartbeat == fleet # "unregistered" /\ FleetChange("idle")
DrainWorker == fleet # "unregistered" /\ FleetChange("draining")
TerminateWorker == fleet # "unregistered" /\ FleetChange("offline")
UnregisterWorker == FleetChange("unregistered")

\* The gateway restarts: every handler is gone.
Restart ==
    /\ faults < MaxFaults /\ faults' = faults + 1
    /\ create' = [s \in Sessions |-> IF create[s] \in Ended THEN create[s] ELSE "lost"]
    /\ req' = [r \in Reqs |-> IF req[r] \in Ended THEN req[r] ELSE "lost"]
    /\ UNCHANGED <<scenario, row, part, work, jobRow, live, ckpt, recorded, fleet, changes,
                   raced, revived, quiet>>

Next == \/ \E s \in Sessions : Creation(s) \/ StartJob(s) \/ WriteBlob(s)
        \/ \E r \in Reqs : Handling(r)
        \/ RegisterWorker \/ Heartbeat \/ DrainWorker \/ TerminateWorker \/ UnregisterWorker
        \/ Restart

\* Handlers run on the gateway's event loop and every wait has a timeout.  Nothing is
\* assumed of the worker.
Fairness == /\ \A s \in Sessions : WF_vars(Creation(s))
            /\ \A r \in Reqs : WF_vars(Handling(r))
Spec == Init /\ [][Next]_vars /\ Fairness

----------------------------------------------------------------------------
(* Properties *)

\* A user exceeds the quota only when two creations counted side by side or a
\* session that was failed or terminated came back (and when the quota is within
\* what one page of list_sessions can count).
QuotaUnlessRaced ==
    MaxSessions <= ListLimit /\ ~ raced /\ revived = {} => Cardinality(Active) <= MaxSessions

\* A session deleted while nothing else of it was in flight stays terminated, and
\* once that DELETE has answered none of its live blobs is there or comes back.
QuietEndIsFinal ==
    \A r \in quiet :
       /\ row[Session(r)] = "terminated"
       /\ req[r] = "done" => live[Session(r)] = Blank

\* Who holds a place of the quota: a session whose creation runs or succeeded, one that a
\* late request revived, and one whose creation an exception or the gateway's death cut off
\* behind its row, which the code leaves ACTIVE.  A creation that told its client that it
\* failed, timed out or found no worker holds none, however late its job runs and whatever
\* requests came between.
ActiveIsBacked ==
    \A s \in Active :
       \/ create[s] \in {"recorded", "screened", "waiting", "ready", "loading", "done"}
       \/ create[s] \in {"stranded", "lost"}
       \/ s \in revived

\* Whatever the workers do, every handler ends, and the job row of one of the native
\* API that answered is not left QUEUED.
HandlersEnd ==
    <>[](/\ \A s \in Sessions :
               /\ create[s] \in Ended
               /\ create[s] = "done" /\ Via(s) = "native" => jobRow[s] = "completed"
         /\ \A r \in Reqs :
               /\ req[r] \in Ended
               /\ req[r] = "done" /\ Kind(r) = "op" => jobRow[r] = "completed")

\* gateway.py:913, 410 "Session was terminated", and tests/test_gateway.py:223, after a
\* DELETE "Subsequent access should fail": a terminated session stays so.
TerminatedStays == [][\A s \in Sessions : row[s] = "terminated" => row'[s] = "terminated"]_vars

\* gateway.py:749 "Max N concurrent sessions", as the 429 says: a session whose creation a
\* hook or the queue refused is not one of them.
RefusedFreesPlace == \A s \in Active : create[s] # "stranded"

\* tinker_compat.py:1918, with save_state "training can be resumed exactly where it left
\* off": the blobs of a recorded checkpoint belong to one state.
SavedWhole ==
    \A s \in recorded : \A i, k \in DOMAIN Parts :
        ckpt[s][i] # 0 /\ ckpt[s][k] # 0 => ckpt[s][i] = ckpt[s][k]
=============================================================================
