----------------------- MODULE GatewaySessionsProofs -----------------------
(***************************************************************************)
(* What holds of the sessions at the gateway for any sessions, requests,   *)
(* quotas and states of the workers.                                       *)
(*                                                                         *)
(* Three arguments.  A row exists only after its creation counted          *)
(* (Rowless), so a row that turns active is new, backed or revived.        *)
(* Without a race at most one creation has counted and not yet recorded,   *)
(* and its place is still free (Room).  When a session ends quietly, every *)
(* other request on it has ended or has yet to read the row, which it then *)
(* finds terminated, and there is no job left that could write (Calm).     *)
(***************************************************************************)
EXTENDS GatewaySessions, TLAPS, FiniteSetTheorems, SequenceTheorems

(* No session has a row before its creation counted, and a request that got past its check *)
(* found a row.                                                                            *)
Rowless ==
    /\ \A s \in Sessions : create[s] \in {"new", "counted", "refused"} => row[s] = "absent"
    /\ \A r \in Reqs : req[r] \in {"checked", "touched", "clearing", "waiting"}
                          => row[Session(r)] # "absent"

(* A request that is to copy or delete blobs has some left; the worker writes for a job. *)
Placed ==
    /\ \A r \in Reqs : /\ req[r] \in {"new", "checked", "touched", "clearing"}
                             => part[r] \in 1 .. Len(Parts)
                       /\ Kind(r) \in {"delete", "unload"} /\ req[r] \in {"new", "checked", "touched"}
                             => part[r] = 1
                       /\ req[r] = "clearing" => Kind(r) \in {"delete", "unload"}
    /\ \A s \in Sessions : writing[s] > 0 => queue[s] # <<>>

Backed == \A s \in Sessions : row[s] = "active" =>
             create[s] \notin {"failed", "refused", "new"} \/ s \in revived

(* Whoever counted, alone, still has room. *)
Counted == {s \in Sessions : create[s] = "counted"}
Room == MaxSessions <= ListLimit /\ ~ raced /\ revived = {} =>
          /\ \A s, t \in Counted : s = t
          /\ Cardinality(Active) <= MaxSessions
          /\ Counted # {} => Cardinality(Active) < MaxSessions

(* What a quiet end leaves of its session. *)
CalmAt(r) ==
    LET s == Session(r)
    IN  /\ row[s] = "terminated" /\ create[s] \in Ended \ {"new"} /\ queue[s] = <<>>
        /\ req[r] \in {"clearing", "done", "lost"}
        /\ \A q \in Reqs \ {r} : Session(q) = s => req[q] \in Ended
        /\ req[r] = "clearing" => \A k \in DOMAIN Parts : k < part[r] => live[s][k] = 0
        /\ req[r] = "done" => live[s] = Blank
Calm == \A r \in quiet : CalmAt(r)

Inv == TypeOK /\ Rowless /\ Placed /\ Backed /\ Calm
-----------------------------------------------------------------------------
LEMMA Facts == /\ IsFiniteSet(Sessions) /\ Parts \in Seq(STRING) /\ Len(Parts) \in Nat
               /\ Len(Parts) > 0 /\ DOMAIN Parts = 1 .. Len(Parts)
               /\ MaxGen \in Nat /\ MaxGen > 0 /\ MaxSessions \in Nat /\ MaxSessions > 0
               /\ ListLimit \in Nat
BY SessionsAssumption, LimitsAssumption

LEMMA SessionOf == ASSUME TypeOK, NEW r \in Reqs PROVE Session(r) \in Sessions
BY SessionsAssumption DEF TypeOK, Session

(* The scenario is chosen once. *)
LEMMA Choices == ASSUME [Next]_vars
                 PROVE  /\ scenario' = scenario
                        /\ \A r \in Reqs : Session(r)' = Session(r) /\ Kind(r)' = Kind(r)
                        /\ \A s \in Sessions : Via(s)' = Via(s)
<1>1. scenario' = scenario
  BY DEF Next, vars, Creation, CountSessions, RecordSession, ScreenWorkers, SubmitInit,
     InitAnswered, HookRefuses, SubmitLoad, LoadAnswered, Handling, ReadSession, Touch, RunOp, OpAnswered,
     Terminate, DeleteBlob, CopyBlob, DropCheckpoint, StartJob, WriteBlob, Gateway,
     RegisterWorker, Heartbeat, DrainWorker, TerminateWorker, UnregisterWorker, FleetChange,
     Restart, bounds, EnqueueRaises
<1> QED
  BY <1>1 DEF Session, Kind, Via

LEMMA InvInit == Init => Inv
<1> SUFFICES ASSUME Init PROVE Inv
  OBVIOUS
<1>1. Blank \in [DOMAIN Parts -> 0 .. MaxGen]
  BY Facts DEF Blank
<1>2. TypeOK
  <2>1. <<>> \in Seq(Jobs) /\ 1 \in 1 .. Len(Parts) + 1 /\ 0 \in 0 .. Len(Parts) /\ 0 \in 0 .. MaxGen
    BY Facts
  <2>2. fleet \in {"unregistered", "idle", "draining", "offline"}
    BY LimitsAssumption DEF Init
  <2> QED
    BY <1>1, <2>1, <2>2 DEF Init, TypeOK
<1>3. Rowless /\ Placed /\ Backed /\ Calm
  BY Facts DEF Init, Rowless, Placed, Backed, Calm
<1> QED
  BY <1>2, <1>3 DEF Inv

(* A session about which something is still to happen has not ended quietly. *)
LEMMA NotOver ==
    ASSUME Inv, NEW s \in Sessions, create[s] \notin Ended \ {"new"} \/ queue[s] # <<>>
    PROVE  \A r \in Reqs : Session(r) = s => r \notin quiet
BY DEF Inv, Calm, CalmAt

LEMMA NotOverYet ==
    ASSUME Inv, NEW r \in Reqs, req[r] \in {"checked", "touched", "waiting"}
    PROVE  \A q \in Reqs : Session(q) = Session(r) => q \notin quiet
BY DEF Inv, Calm, CalmAt, Ended

(* What a step does to a session that has not ended quietly leaves the others calm. *)
LEMMA CalmKept ==
    ASSUME Inv, [Next]_vars, NEW s \in Sessions,
           \A r \in Reqs : Session(r) = s => r \notin quiet,
           \A t \in Sessions : t # s => /\ row'[t] = row[t] /\ create'[t] = create[t]
                                       /\ queue'[t] = queue[t] /\ live'[t] = live[t],
           \A r \in Reqs : Session(r) # s => req'[r] = req[r] /\ part'[r] = part[r]
    PROVE  \A r \in quiet : CalmAt(r)'
<1>1. \A r \in quiet : r \in Reqs /\ Session(r) \in Sessions /\ Session(r) # s
  BY SessionOf DEF Inv, TypeOK
<1>2. \A q \in Reqs : Session(q)' = Session(q)
  BY Choices
<1>3. ASSUME NEW r \in quiet PROVE CalmAt(r)'
  <2>1. CalmAt(r)
    BY DEF Inv, Calm
  <2>2. Session(r)' = Session(r) /\ r \in Reqs
    BY <1>1, <1>2
  <2>3. /\ row'[Session(r)] = row[Session(r)] /\ create'[Session(r)] = create[Session(r)]
        /\ queue'[Session(r)] = queue[Session(r)] /\ live'[Session(r)] = live[Session(r)]
        /\ req'[r] = req[r] /\ part'[r] = part[r]
    BY <1>1
  <2>4. \A q \in Reqs : Session(q) = Session(r) => req'[q] = req[q]
    BY <1>1
  <2> QED
    BY <2>1, <2>2, <2>3, <2>4, <1>2 DEF CalmAt, Ended, Blank
<1> QED
  BY <1>3
-----------------------------------------------------------------------------
(* Creation *)
LEMMA JobsOf == \A s \in Sessions : s \in Jobs /\ <<s, "load">> \in Jobs
BY DEF Jobs

(* A step of the creation of s touches no request and no blob. *)
CreationDoes(s) ==
    /\ UNCHANGED <<scenario, req, part, writing, answer, gen, live, ckpt, recorded, fleet,
                   quiet>>
    /\ create[s] \notin Ended \ {"new"}
    /\ create' = [create EXCEPT ![s] = create'[s]]
    /\ create'[s] \in {"counted", "recorded", "screened", "waiting", "ready", "loading",
                       "done", "refused", "failed", "stranded", "lost"}
    /\ \/ row' = row /\ revived' = revived
       \/ /\ create[s] # "new" /\ create'[s] \notin {"counted", "refused"}
          /\ \/ row' = [row EXCEPT ![s] = "failed"] /\ revived' = revived
             \/ /\ row' = [row EXCEPT ![s] = "active"] /\ create[s] = "counted"
                /\ revived' = IF row[s] \in {"failed", "terminated"}
                              THEN revived \cup {s} ELSE revived
                /\ create'[s] \in {"recorded", "screened"}
    /\ create'[s] \in {"counted", "refused"} => create[s] = "new"
    /\ create'[s] = "failed" => row'[s] = "failed"
    /\ create[s] = "counted" => row'[s] = "active"
    /\ \/ queue' = queue /\ jobRow' = jobRow
       \/ queue' = queue /\ \E j \in Jobs, status \in {"queued", "completed", "failed", "timed_out"} :
                                jobRow' = [jobRow EXCEPT ![j] = status]
       \/ \E j \in Jobs : /\ queue' = [queue EXCEPT ![s] = Append(@, j)]
                          /\ jobRow' = [jobRow EXCEPT ![j] = "queued"]
    /\ raced' \in BOOLEAN

LEMMA CreationFrame == ASSUME Inv, NEW s \in Sessions, Creation(s) PROVE CreationDoes(s)
<1> USE DEF CreationDoes, AtCreate, work, bounds, SetStatus, EnqueueJob, EnqueueRaises, UpdateJob, Results, Ended
<1>1. CASE CountSessions(s)
  BY <1>1 DEF CountSessions, Inv, TypeOK
<1>2. CASE RecordSession(s)
  BY <1>2 DEF RecordSession, Inv, TypeOK
<1>3. CASE ScreenWorkers(s)
  BY <1>3 DEF ScreenWorkers, Inv, TypeOK
<1>4. CASE SubmitInit(s)
  BY <1>4, JobsOf DEF SubmitInit, Inv, TypeOK
<1>8. CASE HookRefuses(s)
  BY <1>8 DEF HookRefuses, Inv, TypeOK
<1>5. CASE InitAnswered(s)
  BY <1>5, JobsOf DEF InitAnswered, Inv, TypeOK
<1>6. CASE SubmitLoad(s)
  BY <1>6, JobsOf DEF SubmitLoad, Inv, TypeOK
<1>7. CASE LoadAnswered(s)
  BY <1>7, JobsOf DEF LoadAnswered, Inv, TypeOK
<1> QED
  BY <1>1, <1>2, <1>3, <1>4, <1>5, <1>6, <1>7, <1>8 DEF Creation

LEMMA InvCreation == ASSUME Inv, NEW s \in Sessions, Creation(s) PROVE Inv'
<1>1. [Next]_vars
  BY DEF Next
<1>0. CreationDoes(s)
  BY CreationFrame
<1>2. TypeOK'
  <2>1. /\ create' \in [Sessions -> {"new", "counted", "recorded", "screened", "waiting", "ready",
                                     "loading", "done", "refused", "failed", "stranded", "lost"}]
        /\ row' \in [Sessions -> {"absent", "active", "failed", "terminated"}]
        /\ revived' \subseteq Sessions
    <3>1. /\ create \in [Sessions -> {"new", "counted", "recorded", "screened", "waiting", "ready",
                                     "loading", "done", "refused", "failed", "stranded", "lost"}]
          /\ row \in [Sessions -> {"absent", "active", "failed", "terminated"}]
          /\ revived \subseteq Sessions
      BY DEF Inv, TypeOK
    <3>2. create' = [create EXCEPT ![s] = create'[s]]
          /\ create'[s] \in {"counted", "recorded", "screened", "waiting", "ready", "loading",
                             "done", "refused", "failed", "stranded", "lost"}
      BY <1>0 DEF CreationDoes
    <3>3. /\ \/ row' = row \/ row' = [row EXCEPT ![s] = "failed"] \/ row' = [row EXCEPT ![s] = "active"]
          /\ revived' = revived \/ revived' = revived \cup {s}
      BY <1>0, Zenon DEF CreationDoes
    <3>4. create' \in [Sessions -> {"new", "counted", "recorded", "screened", "waiting", "ready",
                                     "loading", "done", "refused", "failed", "stranded", "lost"}]
      BY <3>1, <3>2
    <3> QED
      BY <3>1, <3>3, <3>4
  <2>2. queue' \in [Sessions -> Seq(Jobs)]
    <3>1. \A j \in Jobs : Append(queue[s], j) \in Seq(Jobs)
      BY DEF Inv, TypeOK
    <3>2. queue \in [Sessions -> Seq(Jobs)]
      BY DEF Inv, TypeOK
    <3>3. queue' = queue \/ \E j \in Jobs : queue' = [queue EXCEPT ![s] = Append(@, j)]
      BY <1>0 DEF CreationDoes
    <3> QED
      BY <3>1, <3>2, <3>3
  <2>3. jobRow' \in [Jobs -> {"none", "queued", "completed", "failed", "timed_out"}]
    BY <1>0 DEF CreationDoes, Inv, TypeOK
  <2> QED
    BY <1>0, <2>1, <2>2, <2>3 DEF CreationDoes, Inv, TypeOK
<1>3. /\ \A t \in Sessions : t # s => row'[t] = row[t] /\ create'[t] = create[t]
                                    /\ queue'[t] = queue[t]
      /\ row'[s] \in {row[s], "active", "failed"}
      /\ \A t \in Sessions : queue[t] # <<>> => queue'[t] # <<>>
  <2>1. \A j \in Jobs : Append(queue[s], j) # <<>>
    <3>1. queue[s] \in Seq(Jobs)
      BY DEF Inv, TypeOK
    <3> QED
      BY <3>1, AppendProperties
  <2> QED
    BY <1>0, <2>1 DEF CreationDoes, Inv, TypeOK
<1>4. \A r \in Reqs : Session(r)' = Session(r) /\ Kind(r)' = Kind(r) /\ Session(r) \in Sessions
  BY <1>1, Choices, SessionOf DEF Inv
<1>5. Rowless'
  <2>1. ASSUME NEW t \in Sessions, create'[t] \in {"new", "counted", "refused"}
        PROVE  row'[t] = "absent"
    BY <1>0, <1>3, <2>1 DEF CreationDoes, Inv, Rowless, TypeOK
  <2>2. \A t \in Sessions : row[t] # "absent" => row'[t] # "absent"
    BY <1>3
  <2> QED
    BY <1>0, <1>4, <2>1, <2>2 DEF CreationDoes, Inv, Rowless
<1>6. Placed'
  BY <1>0, <1>3, <1>4 DEF CreationDoes, Inv, Placed
<1>7. Backed'
  <2>1. ASSUME NEW t \in Sessions, row'[t] = "active"
        PROVE  create'[t] \notin {"failed", "refused", "new"} \/ t \in revived'
    <3>1. CASE t # s
      BY <1>0, <1>3, <2>1, <3>1 DEF CreationDoes, Inv, Backed, TypeOK
    <3>2. CASE t = s
      BY <1>0, <2>1, <3>2 DEF CreationDoes, Inv, Backed, TypeOK, Rowless
    <3> QED
      BY <3>1, <3>2
  <2> QED
    BY <2>1 DEF Backed
<1>8. Calm'
  <2>1. \A r \in Reqs : Session(r) = s => r \notin quiet
    BY <1>0, NotOver DEF CreationDoes
  <2>2. \A r \in quiet : CalmAt(r)'
    BY <1>0, <1>1, <1>3, <2>1, CalmKept DEF CreationDoes
  <2> QED
    BY <1>0, <2>2 DEF CreationDoes, Calm
<1> QED
  BY <1>2, <1>5, <1>6, <1>7, <1>8 DEF Inv
-----------------------------------------------------------------------------
(* Requests *)

(* A request that goes on from its check, with no blob deleted: the row it may write is of a *)
(* session that has one.                                                                     *)
HandlingDoes(r) ==
    LET s == Session(r)
    IN  /\ UNCHANGED <<scenario, create, writing, answer, gen, live, fleet, raced, quiet>>
        /\ req[r] \in {"new", "checked", "touched", "waiting"}
        /\ req' = [req EXCEPT ![r] = req'[r]]
        /\ req'[r] \in {"checked", "touched", "waiting", "done", "refused", "failed"}
        /\ Kind(r) \in {"delete", "unload"} /\ req'[r] \in {"checked", "touched"} => part' = part
        /\ req[r] = "new" => /\ row[s] # "absent" /\ req'[r] \in {"checked", "refused"}
                             /\ row' = row /\ queue' = queue /\ part' = part
                             /\ row[s] = "terminated" => req'[r] = "refused"
        /\ \/ part' = part
           \/ /\ part' = [part EXCEPT ![r] = @ + 1] /\ req[r] \in {"checked", "touched"}
              /\ part[r] \in 1 .. Len(Parts)
              /\ req'[r] = "done" \/ part[r] < Len(Parts)
        /\ \/ row' = row /\ revived' = revived
           \/ /\ row' = [row EXCEPT ![s] = "active"] /\ req[r] = "checked"
              /\ revived' = IF row[s] \in {"failed", "terminated"} THEN revived \cup {s}
                                                                   ELSE revived
        /\ queue' = queue \/ queue' = [queue EXCEPT ![s] = Append(@, r)]
        /\ \/ jobRow' = jobRow
           \/ \E status \in {"queued", "completed", "failed", "timed_out"} :
                 jobRow' = [jobRow EXCEPT ![r] = status]
        /\ \/ ckpt' = ckpt
           \/ \E k \in DOMAIN Parts, g \in 0 .. MaxGen : ckpt' = [ckpt EXCEPT ![s][k] = g]

LEMMA HandlingFrame ==
    ASSUME Inv, NEW r \in Reqs, ReadSession(r) \/ Touch(r) \/ RunOp(r) \/ OpAnswered(r)
                              \/ CopyBlob(r) \/ DropCheckpoint(r)
    PROVE  HandlingDoes(r)
<1>0. Session(r) \in Sessions
  BY SessionOf DEF Inv
<1> USE DEF HandlingDoes, AtReq, work, bounds, Untouched, NativeKinds, Past
<1>1. CASE ReadSession(r)
  BY <1>1 DEF ReadSession, Admits, Inv, TypeOK
<1>2. CASE Touch(r)
  BY <1>2 DEF Touch, SetStatus, Inv, TypeOK
<1>3. CASE RunOp(r)
  BY <1>3 DEF RunOp, EnqueueJob, EnqueueRaises, Inv, TypeOK
<1>4. CASE OpAnswered(r)
  <2>1. r \in Jobs /\ answer[r] \in {"none", "completed", "failed"}
    BY DEF Jobs, Inv, TypeOK
  <2>2. Results(r) \subseteq {"completed", "failed", "timed_out"}
    BY <2>1 DEF Results
  <2> QED
    BY <1>4, <2>2 DEF OpAnswered, UpdateJob, Inv, TypeOK
<1>5. CASE CopyBlob(r)
  <2>1. req[r] \in {"checked", "touched"} /\ part[r] \in DOMAIN Parts /\ part[r] \in 1 .. Len(Parts)
    BY <1>5, Facts DEF CopyBlob, Inv, Placed
  <2>2. live[Session(r)][part[r]] \in 0 .. MaxGen
    BY <1>0, <2>1 DEF Inv, TypeOK
  <2>3. /\ UNCHANGED <<scenario, row, create, queue, writing, answer, gen, jobRow, live, fleet,
                       raced, revived, quiet>>
        /\ Kind(r) \in {"save_state", "checkpoint"}
    BY <1>5 DEF CopyBlob
  <2>4. CASE part[r] = 1 /\ live[Session(r)][1] = 0
    BY <1>5, <2>1, <2>3, <2>4 DEF CopyBlob, Inv, TypeOK
  <2>5. CASE ~ (part[r] = 1 /\ live[Session(r)][1] = 0)
    <3>1. ckpt' = ckpt \/ ckpt' = [ckpt EXCEPT ![Session(r)][part[r]] = live[Session(r)][part[r]]]
      BY <1>5, <2>5 DEF CopyBlob
    <3>2. part' = [part EXCEPT ![r] = @ + 1]
      BY <1>5, <2>5 DEF CopyBlob
    <3>3. \/ req' = req /\ part[r] < Len(Parts)
          \/ req' = [req EXCEPT ![r] = "done"]
      BY <1>5, <2>1, <2>5, Facts DEF CopyBlob
    <3> QED
      BY <2>1, <2>2, <2>3, <3>1, <3>2, <3>3 DEF Inv, TypeOK
  <2> QED
    BY <2>4, <2>5
<1>6. CASE DropCheckpoint(r)
  <2>1. req[r] \in {"checked", "touched"} /\ part[r] \in DOMAIN Parts /\ part[r] \in 1 .. Len(Parts)
        /\ 0 \in 0 .. MaxGen
    BY <1>6, Facts DEF DropCheckpoint, Inv, Placed
  <2>2. \/ part[r] < Len(Parts) /\ req' = req
        \/ req' = [req EXCEPT ![r] = "done"]
    BY <1>6, <2>1, Facts DEF DropCheckpoint
  <2> QED
    BY <1>6, <2>1, <2>2 DEF DropCheckpoint, Inv, TypeOK
<1> QED
  BY <1>1, <1>2, <1>3, <1>4, <1>5, <1>6

(* A request other than one that ends its session. *)
LEMMA InvHandling ==
    ASSUME Inv, NEW r \in Reqs, ReadSession(r) \/ Touch(r) \/ RunOp(r) \/ OpAnswered(r)
                              \/ CopyBlob(r) \/ DropCheckpoint(r)
    PROVE  Inv'
<1> DEFINE s == Session(r)
<1>0. HandlingDoes(r)
  BY HandlingFrame
<1>1. [Next]_vars
  BY DEF Next, Handling
<1>2. s \in Sessions
  BY SessionOf DEF Inv
<1>3. req' \in [Reqs -> {"new", "checked", "touched", "clearing", "waiting", "done", "refused",
                         "failed", "lost"}]
  <2>1. /\ req' = [req EXCEPT ![r] = req'[r]]
        /\ req'[r] \in {"checked", "touched", "waiting", "done", "refused", "failed"}
    BY <1>0 DEF HandlingDoes
  <2> QED
    BY <2>1 DEF Inv, TypeOK
<1>4. part' \in [Reqs -> 1 .. Len(Parts) + 1]
  <2>1. part' = part \/ (part' = [part EXCEPT ![r] = @ + 1] /\ part[r] \in 1 .. Len(Parts))
    BY <1>0 DEF HandlingDoes
  <2>2. part \in [Reqs -> 1 .. Len(Parts) + 1]
    BY DEF Inv, TypeOK
  <2>3. part[r] \in 1 .. Len(Parts) => part[r] + 1 \in 1 .. Len(Parts) + 1
    BY Facts
  <2> QED
    BY <2>1, <2>2, <2>3
<1>5. row' \in [Sessions -> {"absent", "active", "failed", "terminated"}]
      /\ revived' \subseteq Sessions
  <2>1. /\ row' = row \/ row' = [row EXCEPT ![s] = "active"]
        /\ revived' = revived \/ revived' = revived \cup {s}
    BY <1>0 DEF HandlingDoes
  <2> QED
    BY <1>2, <2>1 DEF Inv, TypeOK
<1>6. queue' \in [Sessions -> Seq(Jobs)] /\ \A t \in Sessions : queue[t] # <<>> => queue'[t] # <<>>
  <2>1. queue' = queue \/ queue' = [queue EXCEPT ![s] = Append(@, r)]
    BY <1>0 DEF HandlingDoes
  <2>2. queue \in [Sessions -> Seq(Jobs)] /\ r \in Jobs
    BY DEF Inv, TypeOK, Jobs
  <2>3. Append(queue[s], r) \in Seq(Jobs) /\ Append(queue[s], r) # <<>>
    BY <1>2, <2>2, AppendProperties
  <2> QED
    BY <1>2, <2>1, <2>2, <2>3
<1>7. TypeOK'
  <2>1. jobRow' \in [Jobs -> {"none", "queued", "completed", "failed", "timed_out"}]
    BY <1>0 DEF HandlingDoes, Inv, TypeOK
  <2>2. ckpt' \in [Sessions -> [DOMAIN Parts -> 0 .. MaxGen]]
    <3>1. ckpt \in [Sessions -> [DOMAIN Parts -> 0 .. MaxGen]]
      BY DEF Inv, TypeOK
    <3>2. \/ ckpt' = ckpt
          \/ \E k \in DOMAIN Parts, g \in 0 .. MaxGen : ckpt' = [ckpt EXCEPT ![s][k] = g]
      BY <1>0 DEF HandlingDoes
    <3> QED
      BY <1>2, <3>1, <3>2
  <2>3. recorded' \subseteq Sessions
    BY <1>2 DEF ReadSession, Touch, RunOp, OpAnswered, CopyBlob, DropCheckpoint, Inv, TypeOK
  <2>4. UNCHANGED <<scenario, create, writing, answer, gen, live, fleet, raced, quiet>>
    BY <1>0 DEF HandlingDoes
  <2> QED
    BY <1>3, <1>4, <1>5, <1>6, <2>1, <2>2, <2>3, <2>4 DEF Inv, TypeOK
<1>8. /\ \A q \in Reqs : Session(q)' = Session(q) /\ Kind(q)' = Kind(q)
      /\ \A q \in Reqs : q # r => req'[q] = req[q] /\ part'[q] = part[q]
      /\ \A t \in Sessions : t # s => row'[t] = row[t] /\ queue'[t] = queue[t]
  <2>1. \A q \in Reqs : Session(q)' = Session(q) /\ Kind(q)' = Kind(q)
    BY <1>1, Choices
  <2>2. \A q \in Reqs : q # r => req'[q] = req[q] /\ part'[q] = part[q]
    BY <1>0 DEF HandlingDoes, Inv, TypeOK
  <2>3. \A t \in Sessions : t # s => row'[t] = row[t] /\ queue'[t] = queue[t]
    BY <1>0 DEF HandlingDoes, Inv, TypeOK
  <2> QED
    BY <2>1, <2>2, <2>3
\* Only the row of a session that has one is written.
<1>9. row'[s] # row[s] => row[s] # "absent" /\ row'[s] = "active"
  BY <1>0, <1>2 DEF HandlingDoes, Inv, TypeOK, Rowless
<1>10. Rowless'
  <2>1. ASSUME NEW t \in Sessions, create[t] \in {"new", "counted", "refused"}
        PROVE  row'[t] = "absent"
    BY <1>8, <1>9, <2>1 DEF Inv, Rowless
  <2>2. ASSUME NEW q \in Reqs, req'[q] \in {"checked", "touched", "clearing", "waiting"}
        PROVE  row'[Session(q)] # "absent"
    <3>1. row[Session(q)] # "absent"
      <4>1. CASE q # r
        BY <4>1, <2>2, <1>8 DEF Inv, Rowless
      <4>2. CASE q = r
        BY <4>2, <1>0 DEF HandlingDoes, Inv, Rowless
      <4> QED
        BY <4>1, <4>2
    <3>2. Session(q) \in Sessions
      BY SessionOf DEF Inv
    <3> QED
      BY <3>1, <3>2, <1>8, <1>9
  <2> QED
    BY <1>0, <1>8, <2>1, <2>2 DEF HandlingDoes, Rowless
<1>11. Placed'
  <2>1. ASSUME NEW q \in Reqs
        PROVE  /\ req'[q] \in {"new", "checked", "touched", "clearing"}
                     => part'[q] \in 1 .. Len(Parts)
               /\ Kind(q) \in {"delete", "unload"} /\ req'[q] \in {"new", "checked", "touched"}
                     => part'[q] = 1
               /\ req'[q] = "clearing" => Kind(q) \in {"delete", "unload"}
    <3>1. CASE q # r
      BY <3>1, <1>8 DEF Inv, Placed
    <3>2. CASE q = r
      <4>1. CASE part' = part
        <5>1. /\ req[r] \in {"new", "checked", "touched", "waiting"}
              /\ req'[r] \in {"checked", "touched", "waiting", "done", "refused", "failed"}
              /\ req'[r] \in {"checked", "touched"} => req[r] \in {"new", "checked", "touched"}
          BY <1>0, <3>2 DEF HandlingDoes, ReadSession, Touch, RunOp, OpAnswered, CopyBlob,
             DropCheckpoint, AtReq, Inv, TypeOK
        <5> QED
          BY <3>2, <4>1, <5>1 DEF Inv, Placed
      <4>2. CASE part' = [part EXCEPT ![r] = @ + 1] /\ part[r] \in 1 .. Len(Parts)
                 /\ (req'[r] = "done" \/ part[r] < Len(Parts))
        <5>1. part'[r] = part[r] + 1 /\ part[r] \in Nat
          BY <4>2, Facts DEF Inv, TypeOK
        <5>2. req'[r] \in {"checked", "touched", "waiting", "done", "refused", "failed"}
              /\ (Kind(r) \in {"delete", "unload"} /\ req'[r] \in {"checked", "touched"}
                     => part' = part)
          BY <1>0 DEF HandlingDoes
        <5>3. part' # part
          BY <5>1
        <5> QED
          BY <3>2, <4>2, <5>1, <5>2, <5>3, Facts
      <4> QED
        BY <1>0, <4>1, <4>2 DEF HandlingDoes
    <3> QED
      BY <3>1, <3>2
  <2> QED
    BY <1>0, <1>6, <1>8, <2>1 DEF HandlingDoes, Inv, Placed
<1>12. Backed'
  <2>1. ASSUME NEW t \in Sessions, row'[t] = "active"
        PROVE  create[t] \notin {"failed", "refused", "new"} \/ t \in revived'
    <3>1. row[t] \in {"absent", "active", "failed", "terminated"} /\ revived \subseteq revived'
      BY <1>0 DEF HandlingDoes, Inv, TypeOK
    <3>2. CASE row[t] = "active"
      BY <3>1, <3>2 DEF Inv, Backed
    <3>3. CASE row[t] # "active"
      BY <3>1, <3>3, <2>1, <1>0, <1>8, <1>9 DEF HandlingDoes
    <3> QED
      BY <3>2, <3>3
  <2> QED
    BY <1>0, <2>1 DEF HandlingDoes, Backed
<1>13. Calm'
  <2>1. CASE req[r] # "new"
    <3>1. \A q \in Reqs : Session(q) = s => q \notin quiet
      BY <2>1, <1>0, NotOverYet DEF HandlingDoes
    <3>2. \A q \in quiet : CalmAt(q)'
      BY <1>0, <1>1, <1>2, <1>8, <3>1, CalmKept DEF HandlingDoes
    <3> QED
      BY <1>0, <3>2 DEF HandlingDoes, Calm
  \* A request that begins on a session that ended is refused.
  <2>2. CASE req[r] = "new"
    <3>1. ASSUME NEW q \in quiet PROVE CalmAt(q)'
      <4>1. CalmAt(q) /\ q \in Reqs /\ q # r
        BY <2>2 DEF Inv, Calm, CalmAt, TypeOK
      <4>2. row' = row /\ queue' = queue /\ part' = part /\ live' = live /\ create' = create
            /\ req'[q] = req[q]
        BY <1>0, <1>8, <2>2, <4>1 DEF HandlingDoes
      <4>3. Session(q) = s => req'[r] \in Ended
        BY <1>0, <2>2, <4>1 DEF HandlingDoes, CalmAt, Ended
      <4> QED
        BY <1>8, <4>1, <4>2, <4>3 DEF CalmAt, Ended, Blank
    <3> QED
      BY <1>0, <3>1 DEF HandlingDoes, Calm
  <2> QED
    BY <2>1, <2>2
<1> QED
  BY <1>7, <1>10, <1>11, <1>12, <1>13 DEF Inv

(* The end of a session: quiet, or beside something that is still under way. *)
LEMMA InvTerminate == ASSUME Inv, NEW r \in Reqs, Terminate(r) PROVE Inv'
<1> DEFINE s == Session(r)
<1>1. [Next]_vars /\ s \in Sessions
  BY SessionOf DEF Next, Handling, Inv
<1>2. /\ UNCHANGED <<scenario, create, part, queue, writing, answer, gen, jobRow, live, ckpt,
                     recorded, fleet, raced>>
      /\ Kind(r) \in {"delete", "unload"} /\ req[r] \in {"checked", "touched"}
      /\ row' = [row EXCEPT ![s] = "terminated"] /\ revived' = revived
      /\ req' = [req EXCEPT ![r] = "clearing"]
      /\ quiet' = IF NothingElse(r) THEN quiet \cup {r} ELSE quiet
  BY DEF Terminate, Untouched, work, bounds, SetStatus, AtReq, Past
<1>3. \A q \in Reqs : Session(q)' = Session(q) /\ Kind(q)' = Kind(q) /\ Session(q) \in Sessions
  BY <1>1, Choices, SessionOf DEF Inv
<1>4. TypeOK'
  BY <1>1, <1>2 DEF Inv, TypeOK
<1>5. row[s] # "absent" /\ create[s] \notin {"new", "counted", "refused"}
  BY <1>1, <1>2 DEF Inv, Rowless
<1>6. Rowless'
  BY <1>1, <1>2, <1>3, <1>5 DEF Inv, TypeOK, Rowless
<1>7. Placed'
  BY <1>2, <1>3 DEF Inv, TypeOK, Placed
<1>8. Backed'
  BY <1>1, <1>2 DEF Inv, TypeOK, Backed
<1>9. Calm'
  <2>1. \A q \in Reqs : Session(q) = s => q \notin quiet
    BY <1>2, NotOverYet DEF HandlingDoes
  <2>2. \A q \in quiet : CalmAt(q)'
    <3>1. \A t \in Sessions : t # s => row'[t] = row[t]
      BY <1>2 DEF Inv, TypeOK
    <3>2. \A q \in Reqs : Session(q) # s => req'[q] = req[q]
      BY <1>2 DEF Inv, TypeOK
    <3> QED
      BY <1>1, <1>2, <2>1, <3>1, <3>2, CalmKept
  <2>3. ASSUME NothingElse(r) PROVE CalmAt(r)'
    <3>1. create[s] \in Ended \ {"new"} /\ queue[s] = <<>>
          /\ \A q \in Reqs \ {r} : Session(q) = s => req[q] \in Ended
      BY <1>5, <2>3 DEF NothingElse
    <3>2. part[r] = 1
      BY <1>2 DEF Inv, Placed
    <3>3. row'[s] = "terminated" /\ req'[r] = "clearing" /\ \A q \in Reqs \ {r} : req'[q] = req[q]
      BY <1>1, <1>2 DEF Inv, TypeOK
    <3>4. \A k \in DOMAIN Parts : ~ (k < 1)
      BY Facts
    <3> QED
      BY <1>2, <1>3, <3>1, <3>2, <3>3, <3>4 DEF CalmAt, Ended
  <2> QED
    BY <1>2, <2>2, <2>3 DEF Calm
<1> QED
  BY <1>4, <1>6, <1>7, <1>8, <1>9 DEF Inv

(* A session that ended quietly loses its blobs in order. *)
LEMMA InvDeleteBlob == ASSUME Inv, NEW r \in Reqs, DeleteBlob(r) PROVE Inv'
<1> DEFINE s == Session(r)
<1>1. [Next]_vars /\ s \in Sessions
  BY SessionOf DEF Next, Handling, Inv
<1>2. part[r] \in 1 .. Len(Parts) /\ part[r] \in DOMAIN Parts
  BY Facts DEF DeleteBlob, Inv, Placed
<1>3. /\ UNCHANGED <<scenario, row, create, queue, writing, answer, gen, jobRow, ckpt, recorded,
                     fleet, raced, revived, quiet>>
      /\ req[r] = "clearing"
      /\ live' = [live EXCEPT ![s][part[r]] = 0]
      /\ part' = [part EXCEPT ![r] = @ + 1]
      /\ req' = IF part[r] = Len(Parts) THEN [req EXCEPT ![r] = "done"] ELSE req
  BY DEF DeleteBlob, Untouched, work, bounds, AtReq
<1>4. \A q \in Reqs : Session(q)' = Session(q) /\ Kind(q)' = Kind(q) /\ Session(q) \in Sessions
  BY <1>1, Choices, SessionOf DEF Inv
<1>5. live' \in [Sessions -> [DOMAIN Parts -> 0 .. MaxGen]]
  <2>1. live \in [Sessions -> [DOMAIN Parts -> 0 .. MaxGen]] /\ 0 \in 0 .. MaxGen
    BY Facts DEF Inv, TypeOK
  <2> QED
    BY <1>1, <1>2, <1>3, <2>1
<1>6. part' \in [Reqs -> 1 .. Len(Parts) + 1] /\ part'[r] = part[r] + 1
  <2>1. part \in [Reqs -> 1 .. Len(Parts) + 1] /\ part[r] + 1 \in 1 .. Len(Parts) + 1
    BY <1>2, Facts DEF Inv, TypeOK
  <2> QED
    BY <1>3, <2>1
<1>7. TypeOK'
  BY <1>3, <1>5, <1>6 DEF Inv, TypeOK
<1>8. Rowless' /\ Backed'
  BY <1>3, <1>4 DEF Inv, TypeOK, Rowless, Backed
<1>9. Placed'
  <2>1. ASSUME NEW q \in Reqs, q # r PROVE req'[q] = req[q] /\ part'[q] = part[q]
    BY <1>3, <2>1 DEF Inv, TypeOK
  <2>2. req'[r] = "done" \/ (req'[r] = "clearing" /\ part'[r] \in 1 .. Len(Parts))
    BY <1>2, <1>3, <1>6, Facts DEF Inv, TypeOK
  <2>3. Kind(r) \in {"delete", "unload"}
    BY <1>3 DEF Inv, Placed
  <2> QED
    BY <1>3, <1>4, <2>1, <2>2, <2>3 DEF Inv, Placed
<1>10. Calm'
  <2>1. ASSUME NEW q \in quiet, Session(q) # s PROVE CalmAt(q)'
    <3>1. q \in Reqs /\ CalmAt(q) /\ q # r
      BY <2>1 DEF Inv, TypeOK, Calm
    <3>2. live'[Session(q)] = live[Session(q)] /\ req'[q] = req[q] /\ part'[q] = part[q]
          /\ \A p \in Reqs : Session(p) = Session(q) => req'[p] = req[p]
      BY <2>1, <1>3, <1>4, <3>1 DEF Inv, TypeOK
    <3> QED
      BY <1>3, <1>4, <3>1, <3>2 DEF CalmAt, Ended, Blank
  <2>2. ASSUME NEW q \in quiet, Session(q) = s PROVE CalmAt(q)'
    <3>1. q = r /\ CalmAt(r)
      BY <2>2, <1>3 DEF Inv, TypeOK, Calm, CalmAt, Ended
    <3>2. \A k \in DOMAIN Parts : k < part[r] + 1 => live'[s][k] = 0
      <4>1. \A k \in DOMAIN Parts : live'[s][k] = IF k = part[r] THEN 0 ELSE live[s][k]
        BY <1>1, <1>3 DEF Inv, TypeOK
      <4>2. \A k \in DOMAIN Parts : k < part[r] => live[s][k] = 0
        BY <3>1, <1>3 DEF CalmAt
      <4> QED
        BY <4>1, <4>2, <1>2, Facts
    <3>3. part[r] = Len(Parts) => live'[s] = Blank
      BY <3>2, <1>1, <1>5, Facts DEF Blank
    <3>4. /\ req'[r] = IF part[r] = Len(Parts) THEN "done" ELSE "clearing"
          /\ \A p \in Reqs \ {r} : req'[p] = req[p]
      BY <1>3 DEF Inv, TypeOK
    <3> QED
      BY <1>3, <1>4, <1>6, <3>1, <3>2, <3>3, <3>4 DEF CalmAt, Ended, Blank
  <2> QED
    BY <1>3, <2>1, <2>2 DEF Calm
<1> QED
  BY <1>7, <1>8, <1>9, <1>10 DEF Inv
-----------------------------------------------------------------------------
(* The worker writes and answers only for a session with a job. *)
LEMMA InvWorker == ASSUME Inv, NEW s \in Sessions, StartJob(s) \/ WriteBlob(s) PROVE Inv'
<1>1. [Next]_vars
  BY DEF Next
<1>2. queue[s] # <<>> /\ queue[s] \in Seq(Jobs)
  BY DEF StartJob, WriteBlob, Inv, Placed, TypeOK
<1>3. Head(queue[s]) \in Jobs /\ Tail(queue[s]) \in Seq(Jobs)
  BY <1>2, HeadTailProperties
<1>4. UNCHANGED <<scenario, row, create, req, part, jobRow, ckpt, recorded, fleet, raced, revived,
                  quiet>>
  BY DEF StartJob, WriteBlob, Gateway, bounds
<1>5. /\ queue' = queue \/ (queue' = [queue EXCEPT ![s] = Tail(@)] /\ writing'[s] = 0)
      /\ answer' = answer \/ \E result \in {"completed", "failed"} :
                                answer' = [answer EXCEPT ![Head(queue[s])] = result]
      /\ writing' = writing \/ (\E n \in 0 .. Len(Parts) : writing' = [writing EXCEPT ![s] = n])
      /\ gen' = gen \/ (\E g \in 0 .. MaxGen : gen' = [gen EXCEPT ![s] = g])
      /\ live' = live \/ (\E k \in DOMAIN Parts, g \in 0 .. MaxGen : live' = [live EXCEPT ![s][k] = g])
  <2>1. /\ writing \in [Sessions -> 0 .. Len(Parts)] /\ gen \in [Sessions -> 0 .. MaxGen]
        /\ writing[s] \in 0 .. Len(Parts) /\ gen[s] \in 0 .. MaxGen
    BY DEF Inv, TypeOK
  <2>2. CASE StartJob(s)
    <3>1. CASE UNCHANGED <<writing, gen>>
      BY <2>1, <2>2, <3>1 DEF StartJob, Answered
    <3>2. CASE /\ writing' = [writing EXCEPT ![s] = 1]
               /\ gen' = [gen EXCEPT ![s] = IF @ = MaxGen THEN @ ELSE @ + 1]
               /\ UNCHANGED <<queue, answer>>
      <4>1. 1 \in 0 .. Len(Parts) /\ (IF gen[s] = MaxGen THEN gen[s] ELSE gen[s] + 1) \in 0 .. MaxGen
        BY <2>1, Facts
      <4> QED
        BY <2>2, <3>2, <4>1 DEF StartJob
    <3> QED
      BY <2>2, <3>1, <3>2 DEF StartJob
  <2>3. CASE WriteBlob(s)
    <3>1. writing[s] \in DOMAIN Parts
      BY <2>1, <2>3, Facts DEF WriteBlob
    <3>2. CASE writing[s] = Len(Parts)
      <4>1. /\ Answered(s, "completed") /\ writing' = [writing EXCEPT ![s] = 0]
            /\ live' = [live EXCEPT ![s][writing[s]] = gen[s]] /\ gen' = gen
        BY <2>3, <3>2 DEF WriteBlob
      <4>2. writing'[s] = 0 /\ 0 \in 0 .. Len(Parts)
        BY <2>1, <4>1, Facts
      <4> QED
        BY <2>1, <3>1, <4>1, <4>2 DEF Answered
    <3>3. CASE writing[s] # Len(Parts)
      <4>1. writing[s] + 1 \in 0 .. Len(Parts)
        BY <2>1, <3>3, Facts
      <4> QED
        BY <2>1, <2>3, <3>1, <3>3, <4>1 DEF WriteBlob
    <3> QED
      BY <3>2, <3>3
  <2> QED
    BY <2>2, <2>3
<1>6. TypeOK'
  <2>1. queue' \in [Sessions -> Seq(Jobs)] /\ writing' \in [Sessions -> 0 .. Len(Parts)]
    <3>1. queue \in [Sessions -> Seq(Jobs)] /\ writing \in [Sessions -> 0 .. Len(Parts)]
      BY DEF Inv, TypeOK
    <3>2. queue' \in [Sessions -> Seq(Jobs)]
      BY <1>3, <1>5, <3>1
    <3>3. writing' \in [Sessions -> 0 .. Len(Parts)]
      BY <1>5, <3>1
    <3> QED
      BY <3>2, <3>3
  <2>2. answer' \in [Jobs -> {"none", "completed", "failed"}] /\ gen' \in [Sessions -> 0 .. MaxGen]
    <3>1. answer \in [Jobs -> {"none", "completed", "failed"}] /\ gen \in [Sessions -> 0 .. MaxGen]
      BY DEF Inv, TypeOK
    <3>2. answer' \in [Jobs -> {"none", "completed", "failed"}]
      BY <1>3, <1>5, <3>1
    <3>3. gen' \in [Sessions -> 0 .. MaxGen]
      BY <1>5, <3>1
    <3> QED
      BY <3>2, <3>3
  <2>3. live' \in [Sessions -> [DOMAIN Parts -> 0 .. MaxGen]]
    <3>1. live \in [Sessions -> [DOMAIN Parts -> 0 .. MaxGen]]
      BY DEF Inv, TypeOK
    <3>2. CASE live' = live
      BY <3>1, <3>2
    <3>3. ASSUME NEW k \in DOMAIN Parts, NEW g \in 0 .. MaxGen, live' = [live EXCEPT ![s][k] = g]
          PROVE  live' \in [Sessions -> [DOMAIN Parts -> 0 .. MaxGen]]
      <4>1. [live[s] EXCEPT ![k] = g] \in [DOMAIN Parts -> 0 .. MaxGen]
        BY <3>1
      <4> QED
        BY <3>1, <3>3, <4>1
    <3> QED
      BY <1>5, <3>2, <3>3
  <2> QED
    BY <1>4, <2>1, <2>2, <2>3 DEF Inv, TypeOK
<1>7. \A r \in Reqs : Session(r)' = Session(r) /\ Kind(r)' = Kind(r)
  BY <1>1, Choices
<1>8. Rowless' /\ Backed'
  BY <1>4, <1>7 DEF Inv, Rowless, Backed
<1>9. Placed'
  <2>1. ASSUME NEW t \in Sessions, writing'[t] > 0 PROVE queue'[t] # <<>>
    <3>1. CASE t # s
      BY <2>1, <3>1, <1>5 DEF Inv, TypeOK, Placed
    <3>2. CASE t = s
      BY <2>1, <3>2, <1>2, <1>5
    <3> QED
      BY <3>1, <3>2
  <2> QED
    BY <1>4, <1>7, <2>1 DEF Inv, Placed
<1>10. Calm'
  <2>1. \A r \in Reqs : Session(r) = s => r \notin quiet
    BY <1>2, NotOver
  <2>2. \A t \in Sessions : t # s => queue'[t] = queue[t] /\ live'[t] = live[t]
    BY <1>5 DEF Inv, TypeOK
  <2> QED
    BY <1>1, <1>4, <2>1, <2>2, CalmKept DEF Calm
<1> QED
  BY <1>6, <1>8, <1>9, <1>10 DEF Inv

LEMMA InvFleet ==
    ASSUME Inv, RegisterWorker \/ Heartbeat \/ DrainWorker \/ TerminateWorker \/ UnregisterWorker
                \/ UNCHANGED vars
    PROVE  Inv'
<1>1. /\ UNCHANGED <<scenario, row, create, req, part, queue, writing, answer, gen, jobRow, live,
                     ckpt, recorded, raced, revived, quiet>>
      /\ fleet' \in {"unregistered", "idle", "draining", "offline"}
  BY DEF RegisterWorker, Heartbeat, DrainWorker, TerminateWorker, UnregisterWorker, FleetChange,
     vars, work, Inv, TypeOK
<1>2. \A r \in Reqs : Session(r)' = Session(r) /\ Kind(r)' = Kind(r)
  BY <1>1 DEF Session, Kind
<1>3. TypeOK'
  BY <1>1 DEF Inv, TypeOK
<1>4. Rowless' /\ Placed' /\ Backed'
  BY <1>1, <1>2 DEF Inv, Rowless, Placed, Backed
<1>5. ASSUME NEW r \in quiet PROVE CalmAt(r)'
  <2>1. CalmAt(r) /\ r \in Reqs /\ Session(r)' = Session(r)
    BY <1>2 DEF Inv, TypeOK, Calm
  <2>2. \A q \in Reqs : Session(q)' = Session(q)
    BY <1>2
  <2> QED
    BY <1>1, <2>1, <2>2 DEF CalmAt, Ended, Blank
<1>6. Calm'
  BY <1>1, <1>5 DEF Calm
<1> QED
  BY <1>3, <1>4, <1>6 DEF Inv

(* A restart ends every handler where it stands. *)
LEMMA InvRestart == ASSUME Inv, Restart PROVE Inv'
<1>1. /\ UNCHANGED <<scenario, row, part, queue, writing, answer, gen, jobRow, live, ckpt, recorded,
                     fleet, raced, revived, quiet>>
      /\ create' = [s \in Sessions |-> IF create[s] \in Ended THEN create[s] ELSE "lost"]
      /\ req' = [r \in Reqs |-> IF req[r] \in Ended THEN req[r] ELSE "lost"]
  BY DEF Restart, work
<1>2. \A r \in Reqs : Session(r)' = Session(r) /\ Kind(r)' = Kind(r) /\ Session(r) \in Sessions
  BY <1>1, SessionOf DEF Session, Kind, Inv
<1>3. TypeOK'
  BY <1>1 DEF Inv, TypeOK, Ended
<1>4. Rowless' /\ Backed'
  BY <1>1, <1>2 DEF Inv, TypeOK, Rowless, Backed, Ended
<1>5. Placed'
  BY <1>1, <1>2 DEF Inv, Placed, Ended
<1>6. ASSUME NEW r \in quiet PROVE CalmAt(r)'
  <2>1. CalmAt(r) /\ r \in Reqs
    BY DEF Inv, TypeOK, Calm
  <2>2. req'[r] \in {"done", "lost"} /\ (req'[r] = "done" => req[r] = "done")
    BY <1>1, <2>1 DEF CalmAt, Ended
  <2> QED
    BY <1>1, <1>2, <2>1, <2>2 DEF CalmAt, Ended, Blank
<1> QED
  BY <1>1, <1>3, <1>4, <1>5, <1>6 DEF Inv, Calm

LEMMA InvNext == ASSUME Inv, [Next]_vars PROVE Inv'
BY InvCreation, InvHandling, InvTerminate, InvDeleteBlob, InvWorker, InvFleet, InvRestart
   DEF Next, Handling

(* Whatever is created, asked, deleted, restarted or written late: a session that ended with *)
(* nothing else in flight stays terminated and empty, and a creation that told its client it *)
(* failed has no active row that nobody revived.                                             *)
THEOREM SessionsInvariant == Spec => [](TypeOK /\ QuietEndIsFinal /\ ActiveIsBacked)
<1>1. Init => Inv
  BY InvInit
<1>2. Inv /\ [Next]_vars => Inv'
  BY InvNext
<1>3. Inv => TypeOK /\ QuietEndIsFinal /\ ActiveIsBacked
  <2>1. Inv => TypeOK /\ QuietEndIsFinal
    BY DEF Inv, Calm, CalmAt, QuietEndIsFinal
  <2>2. ASSUME Inv, NEW s \in Active
        PROVE  \/ create[s] \in {"recorded", "screened", "waiting", "ready", "loading", "done"}
               \/ create[s] \in {"stranded", "lost"} \/ s \in revived
    <3>1. s \in Sessions /\ row[s] = "active"
      BY DEF Active
    <3>2. create[s] # "counted"
      BY <2>2, <3>1 DEF Inv, Rowless
    <3> QED
      BY <2>2, <3>1, <3>2 DEF Inv, Backed, TypeOK
  <2> QED
    BY <2>1, <2>2 DEF ActiveIsBacked
<1> QED
  BY <1>1, <1>2, <1>3, PTL DEF Spec

(* A row is ACTIVE only for a creation under way or done, for one that an exception or a   *)
(* restart cut off behind its row, and for one a late request revived: a creation whose    *)
(* client heard that it failed, timed out or found no worker gave its place back.          *)
THEOREM ActiveSessionsAreBacked == Spec => []ActiveIsBacked
BY SessionsInvariant, PTL
-----------------------------------------------------------------------------
(* The quota *)
LEMMA Sizes == ASSUME NEW S \in SUBSET Sessions
               PROVE  /\ Cardinality(S) \in Nat
                      /\ \A T \in SUBSET S : Cardinality(T) <= Cardinality(S)
                      /\ \A s \in Sessions : Cardinality(S \cup {s}) <= Cardinality(S) + 1
<1>1. IsFiniteSet(S)
  BY Facts, FS_Subset
<1>2. \A T \in SUBSET S : Cardinality(T) <= Cardinality(S)
  BY <1>1, FS_Subset
<1>3. \A s \in Sessions : Cardinality(S \cup {s}) <= Cardinality(S) + 1
  BY <1>1, FS_AddElement, FS_CardinalityType
<1> QED
  BY <1>1, <1>2, <1>3, FS_CardinalityType

LEMMA RoomInit == Init => Room
<1> SUFFICES ASSUME Init PROVE Room
  OBVIOUS
<1>1. Active = {} /\ Counted = {}
  BY DEF Init, Active, Counted
<1> QED
  BY <1>1, Facts, FS_EmptySet DEF Room

(* Fewer active rows and nobody newly counted leave the room there was. *)
LEMMA RoomKept == ASSUME Room, Counted' \subseteq Counted, Active' \subseteq Active,
                         ~ raced' => ~ raced, revived \subseteq revived'
                  PROVE  Room'
<1>1. Active \in SUBSET Sessions /\ Cardinality(Active') <= Cardinality(Active)
  BY Sizes DEF Active
<1>2. Cardinality(Active) \in Nat /\ Cardinality(Active') \in Nat
  BY <1>1, Sizes
<1> QED
  BY <1>1, <1>2, Facts DEF Room

LEMMA RoomCount == ASSUME Inv, Room, NEW s \in Sessions, CountSessions(s) PROVE Room'
<1>1. /\ create[s] = "new" /\ row' = row /\ revived' = revived
      /\ create' = [create EXCEPT ![s] = IF Listed >= MaxSessions THEN "refused" ELSE "counted"]
      /\ raced' = (raced \/ Counted # {})
  BY DEF CountSessions, AtCreate, Counted
<1>2. Active' = Active
  BY <1>1 DEF Active
<1>3. CASE Listed >= MaxSessions
  <2>1. Counted' \subseteq Counted
    BY <1>1, <1>3 DEF Counted, Inv, TypeOK
  <2>2. ~ raced' => ~ raced
    BY <1>1
  <2> QED
    BY <1>1, <1>2, <2>1, <2>2, RoomKept DEF Room
<1>4. CASE ~ (Listed >= MaxSessions)
  <2> SUFFICES ASSUME MaxSessions <= ListLimit, ~ raced', revived' = {}
               PROVE  /\ \A t, u \in Counted' : t = u
                      /\ Cardinality(Active') < MaxSessions
    <3>1. Cardinality(Active') \in Nat
      BY <1>2, Sizes DEF Active
    <3> QED
      BY <3>1, Facts DEF Room
  <2>1. Counted = {}
    BY <1>1
  <2>2. Counted' = {s}
    BY <1>1, <1>4, <2>1 DEF Counted, Inv, TypeOK
  <2>3. Cardinality(Active) \in Nat
    BY Sizes DEF Active
  <2> QED
    BY <1>2, <1>4, <2>2, <2>3, Facts DEF Listed
<1> QED
  BY <1>3, <1>4

LEMMA RoomRecord == ASSUME Inv, Room, NEW s \in Sessions, RecordSession(s) PROVE Room'
<1>1. /\ create[s] = "counted" /\ raced' = raced /\ revived \subseteq revived'
      /\ row' = [row EXCEPT ![s] = "active"]
      /\ create' = [create EXCEPT ![s] = create'[s]] /\ create'[s] # "counted"
  BY DEF RecordSession, SetStatus, AtCreate, Inv, TypeOK
<1>2. Active' = Active \cup {s} /\ Counted' = Counted \ {s} /\ s \in Counted
  BY <1>1 DEF Active, Counted, Inv, TypeOK
<1>3. Cardinality(Active) \in Nat /\ Cardinality(Active') <= Cardinality(Active) + 1
      /\ Cardinality(Active') \in Nat
  BY <1>2, Sizes DEF Active
<1> QED
  BY <1>1, <1>2, <1>3, Facts DEF Room

LEMMA RoomNext == ASSUME Inv, Room, [Next]_vars PROVE Room'
<1>1. ASSUME NEW s \in Sessions, CreationDoes(s), create[s] # "counted", create'[s] # "counted",
             raced' = raced
      PROVE  Room'
  <2>1. Counted' \subseteq Counted
    BY <1>1 DEF CreationDoes, Counted, Inv, TypeOK
  <2>2. revived \subseteq revived' /\ (row' = row \/ row' = [row EXCEPT ![s] = "failed"])
    BY <1>1 DEF CreationDoes
  <2>3. Active' \subseteq Active
    BY <2>2 DEF Active, Inv, TypeOK
  <2> QED
    BY <1>1, <2>1, <2>2, <2>3, RoomKept
<1>2. ASSUME NEW s \in Sessions, Creation(s) PROVE Room'
  <2>1. CASE CountSessions(s)
    BY <2>1, RoomCount
  <2>2. CASE RecordSession(s)
    BY <2>2, RoomRecord
  <2>3. CASE ScreenWorkers(s) \/ HookRefuses(s) \/ SubmitInit(s) \/ InitAnswered(s) \/ SubmitLoad(s) \/ LoadAnswered(s)
    <3>1. create[s] # "counted" /\ create'[s] # "counted" /\ raced' = raced
      BY <2>3 DEF ScreenWorkers, HookRefuses, SubmitInit, InitAnswered, SubmitLoad, LoadAnswered, AtCreate, Inv,
         TypeOK
    <3> QED
      BY <1>1, <1>2, <3>1, CreationFrame
  <2> QED
    BY <1>2, <2>1, <2>2, <2>3 DEF Creation
<1>3. ASSUME NEW r \in Reqs, HandlingDoes(r) PROVE Room'
  <2>1. Counted' = Counted /\ raced' = raced /\ revived \subseteq revived'
    BY <1>3 DEF HandlingDoes, Counted
  <2>2. CASE row' = row
    BY <2>1, <2>2, RoomKept DEF Active
  <2>3. CASE row' # row
    <3>1. /\ row' = [row EXCEPT ![Session(r)] = "active"] /\ req[r] = "checked"
          /\ Session(r) \in Sessions
          /\ row[Session(r)] \in {"failed", "terminated"} => Session(r) \in revived'
      BY <1>3, <2>3, SessionOf DEF HandlingDoes, Inv
    <3>2. row[Session(r)] \in {"failed", "terminated", "active"}
      BY <3>1 DEF Inv, Rowless, TypeOK
    <3>3. CASE row[Session(r)] = "active"
      BY <2>1, <3>1, <3>3, RoomKept DEF Active, Inv, TypeOK
    <3>4. CASE row[Session(r)] # "active"
      BY <3>1, <3>2, <3>4 DEF Room
    <3> QED
      BY <3>3, <3>4
  <2> QED
    BY <2>2, <2>3
<1>4. ASSUME NEW r \in Reqs, Terminate(r) PROVE Room'
  <2>1. /\ create' = create /\ raced' = raced /\ revived' = revived
        /\ row' = [row EXCEPT ![Session(r)] = "terminated"]
    BY <1>4 DEF Terminate, SetStatus, Untouched
  <2>2. Active' \subseteq Active /\ Counted' = Counted
    BY <2>1 DEF Active, Counted, Inv, TypeOK
  <2> QED
    BY <2>1, <2>2, RoomKept
<1>5. CASE UNCHANGED <<row, create, raced, revived>>
  BY <1>5, RoomKept DEF Active, Counted
<1>6. ASSUME NEW r \in Reqs, DeleteBlob(r) PROVE Room'
  BY <1>5, <1>6 DEF DeleteBlob, Untouched
<1>7. ASSUME NEW s \in Sessions, StartJob(s) \/ WriteBlob(s) PROVE Room'
  BY <1>5, <1>7 DEF StartJob, WriteBlob, Gateway
<1>8. CASE RegisterWorker \/ Heartbeat \/ DrainWorker \/ TerminateWorker \/ UnregisterWorker
  BY <1>5, <1>8 DEF RegisterWorker, Heartbeat, DrainWorker, TerminateWorker, UnregisterWorker,
     FleetChange
<1>9. CASE Restart
  <2>1. Active' = Active /\ Counted' \subseteq Counted /\ raced' = raced /\ revived' = revived
    BY <1>9 DEF Restart, Active, Counted, Ended, Inv, TypeOK
  <2> QED
    BY <2>1, RoomKept
<1>10. CASE UNCHANGED vars
  BY <1>5, <1>10 DEF vars
<1> QED
  BY <1>2, <1>3, <1>4, <1>6, <1>7, <1>8, <1>9, <1>10, HandlingFrame DEF Next, Handling

(* However many sessions are created and by whichever route: unless two creations counted side *)
(* by side or an ended session came back, a user never has more active sessions than the quota. *)
THEOREM QuotaHolds == Spec => []QuotaUnlessRaced
<1>1. Init => Inv /\ Room
  BY InvInit, RoomInit
<1>2. (Inv /\ Room) /\ [Next]_vars => (Inv /\ Room)'
  BY InvNext, RoomNext
<1>3. Room => QuotaUnlessRaced
  BY DEF Room, QuotaUnlessRaced
<1> QED
  BY <1>1, <1>2, <1>3, PTL DEF Spec
=============================================================================
