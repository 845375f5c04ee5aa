------------------------- MODULE SqliteQueueProofs -------------------------
(***************************************************************************)
(* What the durable queue guarantees for any number of processes, jobs and *)
(* workers.                                                                *)
(*                                                                         *)
(* The argument: sequence numbers are drawn one after the other from a     *)
(* counter that is never below any number in use (RowDiscipline), so a     *)
(* number identifies its row and a row's number is above those of all rows *)
(* that were in the table when it was drawn.  Dequeue takes the smallest   *)
(* queued number of a session with nothing in flight: when it takes a job, *)
(* whatever precedes it is neither queued nor in flight, hence answered,   *)
(* and answers stay.                                                       *)
(***************************************************************************)
EXTENDS SqliteQueue, TLAPS

(* A job in the middle of enqueue has no row, and its number is in use by *)
(* nobody else.                                                            *)
DrawDiscipline ==
    \A g \in Gateways : drawn[g] # None =>
        /\ drawn[g].job \in Called
        /\ rows[drawn[g].job] = None
        /\ drawn[g].seq <= value
        /\ \A h \in Gateways : drawn[h] # None /\ h # g =>
              drawn[h].job # drawn[g].job /\ drawn[h].seq # drawn[g].seq
        /\ \A k \in preceding[drawn[g].job] : rows[k].seq < drawn[g].seq

RowDiscipline ==
    \A j \in Stored :
        /\ rows[j].seq <= value
        /\ \A k \in preceding[j] : rows[k].seq < rows[j].seq

PrecedingStored == \A j \in Jobs : preceding[j] \subseteq Stored

Inv ==
    /\ TypeOK
    /\ OneInFlightPerSession
    /\ DistinctSeqs
    /\ DrawDiscipline
    /\ RowDiscipline
    /\ PrecedingStored
    /\ RunsAfterPredecessors
    /\ RetryBudget

-----------------------------------------------------------------------------
USE DEF Jobs, Session, Stored, InState, Called, WaitForResult

(* The initial state satisfies the invariant. *)
LEMMA InvInit == Init => Inv
BY NoneAssumption, BoundAssumption
   DEF Init, Inv, TypeOK, OneInFlightPerSession, DistinctSeqs, DrawDiscipline,
       RowDiscipline, PrecedingStored, RunsAfterPredecessors, RetryBudget

(* Called jobs are job ids, and what is stored is a row. *)
LEMMA StoredFacts ==
    ASSUME TypeOK
    PROVE  /\ Called \subseteq Jobs
           /\ \A j \in Called : calls[j] \in QueuedJob
           /\ \A j \in Stored : /\ rows[j] \in Row
                                /\ rows[j].seq \in Nat
                                /\ rows[j].attempts \in Nat
                                /\ rows[j].state \in States
                                /\ rows[j].left \in 0 .. VisibilityTimeout
           /\ \A j \in Jobs : rows[j] # None => j \in Stored
           /\ \A j \in Jobs : preceding[j] \subseteq Jobs
           /\ \A g \in Gateways : drawn[g] # None =>
                 drawn[g] \in Draw /\ drawn[g].job \in Jobs /\ drawn[g].seq \in Nat
<1>1. DOMAIN calls = 1 .. Len(calls) /\ Len(calls) \in Nat /\ Len(calls) <= MaxJobs
  BY DEF TypeOK
<1>2. Called \subseteq Jobs /\ \A j \in Called : calls[j] \in QueuedJob
  BY <1>1, BoundAssumption DEF TypeOK
<1>3. \A j \in Stored : rows[j] \in Row
  BY <1>2 DEF TypeOK
<1> QED
  BY <1>2, <1>3 DEF TypeOK, Row, Draw

(* A drawn number is above every number in the table and every other draw. *)
LEMMA InvNextSeq ==
    ASSUME Inv, NEW g \in Gateways, NEW spec \in JobSpecs, NextSeq(g, spec)
    PROVE  Inv'
<1> DEFINE id == Len(calls) + 1
<1> DEFINE draw == [job |-> id, seq |-> value + 1]
<1>1. /\ TypeOK /\ id \in Jobs /\ value \in Nat /\ calls \in Seq(QueuedJob)
      /\ spec \in QueuedJob
  BY SpecsAssumption DEF Inv, NextSeq, TypeOK
<1>2. /\ draw \in Draw /\ draw # None
      /\ draw.job = id /\ draw.seq = value + 1 /\ id = Len(calls) + 1
  BY <1>1, NoneAssumption DEF Draw
<1>3. /\ calls' \in Seq(QueuedJob) /\ Len(calls') = id /\ DOMAIN calls' = 1 .. id
      /\ DOMAIN calls = 1 .. Len(calls) /\ Len(calls) \in Nat
      /\ \A j \in DOMAIN calls : j # id /\ j \in DOMAIN calls' /\ calls'[j] = calls[j]
  BY <1>1 DEF NextSeq
<1>4. /\ rows[id] = None
      /\ drawn' = [drawn EXCEPT ![g] = draw]
      /\ preceding' = [preceding EXCEPT ![id] = Stored]
      /\ id # None
  BY <1>1, <1>3, NoneAssumption DEF TypeOK, NextSeq
<1> HIDE DEF id, draw
<1>5. Stored' = Stored /\ \A st : InState(st)' = InState(st)
  BY <1>1, <1>3, <1>4 DEF NextSeq
<1>6. TypeOK'
  <2>1. preceding' \in [Jobs -> SUBSET Jobs] /\ drawn' \in [Gateways -> Draw \cup {None}]
    BY <1>1, <1>2, <1>4, StoredFacts DEF TypeOK
  <2>2. \A j \in Jobs : rows[j] # None => j \in DOMAIN calls'
    BY <1>1, <1>3 DEF TypeOK
  <2> QED
    BY <1>1, <1>2, <1>3, <2>1, <2>2 DEF TypeOK, NextSeq, Jobs
<1>7. /\ drawn \in [Gateways -> Draw \cup {None}]
      /\ drawn'[g] = draw /\ \A h \in Gateways : h # g => drawn'[h] = drawn[h]
      /\ value' = value + 1 /\ rows' = rows /\ drawn[g] = None
      /\ preceding \in [Jobs -> SUBSET Jobs]
      /\ preceding'[id] = Stored /\ \A j \in Jobs : j # id => preceding'[j] = preceding[j]
  BY <1>1, <1>4 DEF TypeOK, NextSeq
<1>8. \A j \in Stored : rows[j] \in Row /\ rows[j].seq \in Nat /\ rows[j].seq <= value /\ j # id
  BY <1>1, <1>4, StoredFacts DEF Inv, RowDiscipline
<1>9. DistinctSeqs'
  BY <1>1, <1>2, <1>5, <1>7, <1>8 DEF Inv, DistinctSeqs
<1>10. DrawDiscipline'
  <2>1. ASSUME NEW h \in Gateways, h # g, drawn[h] # None
        PROVE  /\ drawn[h] \in Draw /\ drawn[h].seq \in Nat /\ drawn[h].seq <= value
               /\ drawn[h].job \in Called /\ drawn[h].job # id /\ rows[drawn[h].job] = None
    BY <2>1, <1>1, <1>4, <1>3, StoredFacts DEF Inv, DrawDiscipline
  <2>2. \A k \in preceding'[id] : rows'[k].seq < draw.seq
    BY <1>1, <1>2, <1>7, <1>8
  <2> QED
    BY <2>1, <2>2, <1>1, <1>2, <1>3, <1>4, <1>7 DEF Inv, DrawDiscipline
<1>11. RowDiscipline'
  BY <1>1, <1>5, <1>7, <1>8, StoredFacts DEF Inv, RowDiscipline
<1>12. PrecedingStored'
  BY <1>5, <1>7 DEF Inv, PrecedingStored
<1>13. OneInFlightPerSession' /\ RetryBudget'
  BY <1>3, <1>5, <1>7 DEF Inv, OneInFlightPerSession, RetryBudget
<1>14. RunsAfterPredecessors'
  <2>1. \A j \in Stored : j \in Jobs /\ preceding'[j] = preceding[j] /\ preceding[j] \subseteq Stored
    BY <1>1, <1>7, <1>8, StoredFacts DEF Inv, PrecedingStored
  <2> QED
    BY <2>1, <1>3, <1>5, <1>7 DEF Inv, RunsAfterPredecessors
<1> QED
  BY <1>6, <1>9, <1>10, <1>11, <1>12, <1>13, <1>14 DEF Inv

(* The INSERT turns a draw into a row with the drawn number. *)
LEMMA InvInsertRow ==
    ASSUME Inv, NEW g \in Gateways, InsertRow(g)
    PROVE  Inv'
<1> DEFINE id == drawn[g].job
<1> DEFINE new == [seq |-> drawn[g].seq, state |-> "queued", worker_id |-> None,
                   left |-> 0, attempts |-> 0]
<1>1. /\ TypeOK /\ drawn[g] # None /\ drawn[g].job = id /\ id \in Jobs
      /\ rows' = [rows EXCEPT ![id] = new]
      /\ drawn' = [drawn EXCEPT ![g] = None]
      /\ UNCHANGED <<calls, value, accum_pins, preceding, told>>
  BY StoredFacts DEF Inv, InsertRow
<1>2. /\ new \in Row /\ new # None /\ new.seq = drawn[g].seq /\ new.state = "queued"
      /\ new.attempts = 0 /\ new.worker_id = None /\ drawn[g].seq \in Nat
  BY <1>1, StoredFacts, BoundAssumption, NoneAssumption DEF Row, States
<1> HIDE DEF id, new
<1>3. /\ id \in Called /\ rows[id] = None /\ drawn[g].seq <= value /\ value \in Nat
      /\ \A k \in preceding[id] : rows[k].seq < drawn[g].seq
      /\ \A h \in Gateways : drawn[h] # None /\ h # g =>
            drawn[h].job # id /\ drawn[h].seq # drawn[g].seq
  BY <1>1 DEF Inv, DrawDiscipline, TypeOK
<1>4. /\ rows \in [Jobs -> Row \cup {None}] /\ rows'[id] = new
      /\ \A j \in Jobs : j # id => rows'[j] = rows[j]
      /\ drawn \in [Gateways -> Draw \cup {None}]
      /\ drawn'[g] = None /\ \A h \in Gateways : h # g => drawn'[h] = drawn[h]
  BY <1>1 DEF TypeOK
<1>5. /\ Stored' = Stored \cup {id} /\ id \notin Stored /\ Stored \subseteq Jobs
      /\ \A j \in Stored : rows'[j] = rows[j]
  BY <1>1, <1>2, <1>3, <1>4, StoredFacts
<1>6. /\ InState("inflight")' = InState("inflight")
      /\ InState("completed")' = InState("completed")
      /\ InState("failed")' = InState("failed")
      /\ InState("queued")' = InState("queued") \cup {id}
  BY <1>2, <1>4, <1>5
<1>7. TypeOK'
  <2>1. rows' \in [Jobs -> Row \cup {None}] /\ drawn' \in [Gateways -> Draw \cup {None}]
    BY <1>1, <1>2, <1>4 DEF TypeOK
  <2> QED
    BY <2>1, <1>1, <1>2, <1>3, <1>4 DEF TypeOK
<1>8. DistinctSeqs'
  BY <1>1, <1>2, <1>3, <1>4, <1>5 DEF Inv, DistinctSeqs
<1>9. PrecedingStored'
  BY <1>1, <1>5 DEF Inv, PrecedingStored
<1>10. /\ \A j \in Jobs : \A k \in preceding[j] : rows'[k] = rows[k]
       /\ \A h \in Gateways : drawn[h] # None => drawn[h].job \in Jobs
  BY <1>1, <1>5, StoredFacts DEF Inv, PrecedingStored
<1>11. DrawDiscipline'
  BY <1>1, <1>3, <1>4, <1>10 DEF Inv, DrawDiscipline
<1>12. RowDiscipline'
  BY <1>1, <1>2, <1>3, <1>4, <1>5, <1>10 DEF Inv, RowDiscipline
<1>13. OneInFlightPerSession' /\ RunsAfterPredecessors'
  BY <1>1, <1>6 DEF Inv, OneInFlightPerSession, RunsAfterPredecessors
<1>14. RetryBudget'
  BY <1>1, <1>2, <1>4, <1>5, <1>6, BoundAssumption DEF Inv, RetryBudget
<1> QED
  BY <1>7, <1>8, <1>9, <1>11, <1>12, <1>13, <1>14 DEF Inv

(* Giving up an enqueue only forgets a number. *)
LEMMA InvEnqueueDies ==
    ASSUME Inv, NEW g \in Gateways, EnqueueDies(g)
    PROVE  Inv'
<1>1. /\ UNCHANGED <<calls, value, rows, accum_pins, preceding, told>>
      /\ drawn \in [Gateways -> Draw \cup {None}]
      /\ drawn' = [drawn EXCEPT ![g] = None]
  BY DEF Inv, TypeOK, EnqueueDies
<1>2. /\ drawn' \in [Gateways -> Draw \cup {None}]
      /\ \A h \in Gateways : drawn'[h] # None => drawn'[h] = drawn[h]
  BY <1>1
<1>3. TypeOK' /\ PrecedingStored' /\ RowDiscipline' /\ OneInFlightPerSession'
      /\ RunsAfterPredecessors' /\ RetryBudget'
  BY <1>1, <1>2 DEF Inv, TypeOK, PrecedingStored, RowDiscipline,
       OneInFlightPerSession, RunsAfterPredecessors, RetryBudget
<1>4. DistinctSeqs' /\ DrawDiscipline'
  BY <1>1, <1>2 DEF Inv, DistinctSeqs, DrawDiscipline
<1> QED
  BY <1>3, <1>4 DEF Inv

-----------------------------------------------------------------------------
(* Steps that keep every row and its number keep the number discipline. *)
LEMMA RowsKept ==
    ASSUME Inv, TypeOK', UNCHANGED <<calls, value, drawn, preceding>>,
           \A j \in Jobs : /\ rows'[j] = None <=> rows[j] = None
                           /\ rows[j] # None => rows'[j].seq = rows[j].seq
    PROVE  /\ Stored' = Stored
           /\ DistinctSeqs' /\ DrawDiscipline' /\ RowDiscipline' /\ PrecedingStored'
<1>1. TypeOK
  BY DEF Inv
<1>2. Called \subseteq Jobs /\ \A j \in Jobs : preceding[j] \subseteq Stored
  BY <1>1, StoredFacts DEF Inv, PrecedingStored
<1>3. Stored' = Stored
  BY <1>2
<1>4. /\ \A j \in Stored : rows'[j].seq = rows[j].seq
      /\ \A g \in Gateways : drawn[g] # None => drawn[g].job \in Jobs
  BY <1>1, <1>2, StoredFacts
<1>5. DistinctSeqs' /\ PrecedingStored'
  BY <1>3, <1>4 DEF Inv, DistinctSeqs, PrecedingStored
<1>6. DrawDiscipline'
  BY <1>2, <1>3, <1>4 DEF Inv, DrawDiscipline
<1>7. RowDiscipline'
  BY <1>2, <1>3, <1>4 DEF Inv, RowDiscipline
<1> QED
  BY <1>3, <1>5, <1>6, <1>7

(* What wait_for_result reports, by the state of the row. *)
LEMMA AnsweredIffTerminal ==
    \A j \in Jobs : WaitForResult(j) # None <=>
                     j \in InState("completed") \cup InState("failed")
BY NoneAssumption DEF Answers

(* Steps that start no job and take back no answer keep what runs in order. *)
LEMMA NothingStarts ==
    ASSUME Inv, TypeOK', UNCHANGED <<calls, preceding>>, Stored' = Stored,
           \A j \in Stored :
              /\ rows'[j].state = "inflight" => rows[j].state = "inflight"
              /\ rows[j].state \in {"completed", "failed"} =>
                    rows'[j].state \in {"completed", "failed"}
    PROVE  OneInFlightPerSession' /\ RunsAfterPredecessors'
<1>1. InState("inflight")' \subseteq InState("inflight")
  OBVIOUS
<1>2. \A j \in Jobs : WaitForResult(j) # None => WaitForResult(j)' # None
  BY NoneAssumption DEF Answers
<1>3. \A j \in InState("inflight") : preceding[j] \subseteq Jobs
  BY StoredFacts DEF Inv
<1> QED
  BY <1>1, <1>2, <1>3 DEF Inv, OneInFlightPerSession, RunsAfterPredecessors

(* What a transition leaves of a row, and the states it can put it in. *)
Rewrites(new, row, st, worker) ==
    /\ new \in Row /\ new # None /\ new.seq = row.seq
    /\ new.attempts = row.attempts /\ new.state = st /\ new.worker_id = worker

LEMMA RowUpdate ==
    \A row \in Row :
        /\ Rewrites(Moved(row, "queued", None, 0), row, "queued", None)
        /\ Rewrites(Moved(row, "completed", None, 0), row, "completed", None)
        /\ Rewrites(Moved(row, "failed", None, 0), row, "failed", None)
        /\ \A w \in Workers :
              Rewrites(Moved(row, "inflight", w, VisibilityTimeout), row, "inflight", w)
<1>1. ASSUME NEW row \in Row, NEW st \in States, NEW worker \in Workers \cup {None},
             NEW time \in 0 .. VisibilityTimeout
      PROVE  Rewrites(Moved(row, st, worker, time), row, st, worker)
  <2> DEFINE new == [row EXCEPT !.state = st, !.worker_id = worker, !.left = time]
  <2>1. /\ new \in Row /\ new.seq = row.seq /\ new.attempts = row.attempts
        /\ new.state = st /\ new.worker_id = worker
    BY DEF Row
  <2>2. new # None /\ Moved(row, st, worker, time) = new
    BY <2>1, NoneAssumption DEF Moved
  <2> HIDE DEF new
  <2> QED
    BY <2>1, <2>2 DEF Rewrites
<1> TAKE row \in Row
<1>2. /\ "queued" \in States /\ "inflight" \in States
      /\ "completed" \in States /\ "failed" \in States
      /\ None \in Workers \cup {None} /\ \A w \in Workers : w \in Workers \cup {None}
      /\ 0 \in 0 .. VisibilityTimeout
      /\ VisibilityTimeout \in 0 .. VisibilityTimeout
  BY BoundAssumption DEF States
<1>3. Rewrites(Moved(row, "queued", None, 0), row, "queued", None)
  BY <1>1, <1>2
<1>4. Rewrites(Moved(row, "completed", None, 0), row, "completed", None)
  BY <1>1, <1>2
<1>5. Rewrites(Moved(row, "failed", None, 0), row, "failed", None)
  BY <1>1, <1>2
<1>6. ASSUME NEW w \in Workers
      PROVE  Rewrites(Moved(row, "inflight", w, VisibilityTimeout), row, "inflight", w)
  BY <1>1, <1>2
<1> QED
  BY <1>3, <1>4, <1>5, <1>6

(* dequeue: what it takes is preceded by answered jobs only. *)
LEMMA InvDequeue ==
    ASSUME Inv, NEW w \in Workers, NEW r \in Stored \cup {None}, Dequeue(w, r)
    PROVE  /\ Inv' /\ Stored' = Stored
           /\ \A j \in Stored : rows[j].state \in {"completed", "failed"} =>
                 rows'[j].state \in {"completed", "failed"}
<1>1. /\ TypeOK /\ UNCHANGED <<calls, value, drawn, preceding, told>>
      /\ Stored \subseteq Jobs /\ None \notin Stored
      /\ rows' = [j \in Jobs |->
            IF r # None /\ j = r
            THEN Moved(Release(j), "inflight", w, VisibilityTimeout)
            ELSE Release(j)]
      /\ accum_pins' = [s \in Sessions |-> PinAfterRelease(s)]
  BY StoredFacts, NoneAssumption DEF Inv, Dequeue
<1>2. \A j \in Jobs : j \notin Stored => Release(j) = None /\ rows[j] = None
  BY <1>1, StoredFacts DEF Release, Lapsed
<1>3. \A j \in Stored :
         /\ Release(j) \in Row /\ Release(j) # None /\ rows[j] # None
         /\ Release(j).seq = rows[j].seq /\ Release(j).attempts = rows[j].attempts
         /\ Release(j).worker_id # None <=> Release(j).state = "inflight"
         /\ Release(j).state = "inflight" <=> j \in InflightAfterRelease
         /\ Release(j).state = "queued" <=> j \in QueuedAfterRelease
         /\ rows[j].state \in {"completed", "failed"} => Release(j) = rows[j]
         /\ Release(j).state = "inflight" => rows[j].state = "inflight"
  <2> TAKE j \in Stored
  <2>1. /\ rows[j] \in Row /\ rows[j] # None /\ j \in Jobs
        /\ rows[j].worker_id # None <=> rows[j].state = "inflight"
    BY <1>1, StoredFacts DEF TypeOK
  <2>2. CASE j \in Lapsed
    <3> DEFINE released == Moved(rows[j], "queued", None, 0)
    <3>1. Release(j) = released /\ rows[j].state = "inflight"
      BY <2>2 DEF Release, Lapsed
    <3>2. /\ released \in Row /\ released.state = "queued" /\ released.worker_id = None
          /\ released.seq = rows[j].seq /\ released.attempts = rows[j].attempts
      BY <2>1, RowUpdate DEF Rewrites
    <3> HIDE DEF released
    <3> QED
      BY <2>1, <2>2, <3>1, <3>2, NoneAssumption DEF InflightAfterRelease, QueuedAfterRelease
  <2>3. CASE j \notin Lapsed
    BY <2>1, <2>3 DEF Release, InflightAfterRelease, QueuedAfterRelease
  <2> QED
    BY <2>2, <2>3
<1>4. /\ r \in Stored => /\ r # None /\ rows'[r] \in Row /\ rows'[r] # None /\ rows'[r].seq = rows[r].seq
                         /\ rows'[r].attempts = rows[r].attempts
                         /\ rows'[r].state = "inflight" /\ rows'[r].worker_id = w
      /\ \A j \in Jobs : j # r => rows'[j] = Release(j)
  <2>1. r \in Stored => rows'[r] = Moved(Release(r), "inflight", w, VisibilityTimeout)
    BY <1>1
  <2>3. r \in Stored => r # None /\ Release(r) \in Row /\ Release(r).seq = rows[r].seq
                         /\ Release(r).attempts = rows[r].attempts
    BY <1>1, <1>3
  <2>4. \A j \in Jobs : j # r => rows'[j] = Release(j)
    BY <1>1
  <2> QED
    BY <2>1, <2>3, <2>4, RowUpdate DEF Rewrites
<1>5. TypeOK'
  <2>1. rows' \in [Jobs -> Row \cup {None}]
    BY <1>1, <1>2, <1>3, <1>4
  <2>2. accum_pins' \in [Sessions -> Pin \cup {None}]
    BY <1>1 DEF TypeOK, PinAfterRelease
  <2>3. \A j \in Jobs : rows'[j] # None =>
           j \in Called' /\ (rows'[j].worker_id # None <=> rows'[j].state = "inflight")
    <3> TAKE j \in Jobs
    <3> HAVE rows'[j] # None
    <3>1. j \in Stored
      BY <1>1, <1>2, <1>4
    <3>2. w # None
      BY NoneAssumption
    <3>3. CASE j = r
      BY <1>1, <1>4, <3>1, <3>2, <3>3
    <3>4. CASE j # r
      BY <1>1, <1>3, <1>4, <3>1, <3>4
    <3> QED
      BY <3>3, <3>4
  <2> QED
    BY <1>1, <2>1, <2>2, <2>3 DEF TypeOK
<1>6. \A j \in Jobs : /\ rows'[j] = None <=> rows[j] = None
                      /\ rows[j] # None => rows'[j].seq = rows[j].seq
  BY <1>1, <1>2, <1>3, <1>4, StoredFacts
<1>7. /\ Stored' = Stored
      /\ DistinctSeqs' /\ DrawDiscipline' /\ RowDiscipline' /\ PrecedingStored'
  BY <1>1, <1>5, <1>6, RowsKept
<1>8. r \in Stored => r \in QueuedAfterRelease /\ Eligible(r, w)
  BY <1>1 DEF Dequeue, Selects, Eligible, SessionHead
<1>9. \A j \in Stored : rows[j].state \in {"completed", "failed"} =>
         rows'[j].state \in {"completed", "failed"}
  BY <1>1, <1>3, <1>4, <1>8
<1>10. RetryBudget'
  <2>1. \A j \in Stored : /\ rows'[j].attempts = rows[j].attempts
                          /\ rows'[j].state \in {"queued", "inflight"} =>
                                rows[j].state \in {"queued", "inflight"}
    BY <1>1, <1>3, <1>4, <1>8 DEF QueuedAfterRelease, InflightAfterRelease, Lapsed
  <2> QED
    <3>1. \A j \in (InState("queued") \cup InState("inflight"))' :
             /\ j \in InState("queued") \cup InState("inflight")
             /\ rows'[j].attempts = rows[j].attempts
      <4> TAKE j \in (InState("queued") \cup InState("inflight"))'
      <4>1. j \in Stored /\ rows'[j].state \in {"queued", "inflight"}
        BY <1>7
      <4> QED
        BY <4>1, <2>1
    <3> QED
      BY <3>1 DEF Inv, RetryBudget
<1>11. \A k \in InState("inflight")' : k = r \/ k \in InflightAfterRelease
  BY <1>1, <1>3, <1>4, <1>7
<1>12. OneInFlightPerSession'
  <2> SUFFICES ASSUME NEW j \in InState("inflight")', NEW k \in InState("inflight")',
                      Session(j) = Session(k)
               PROVE  j = k
    BY <1>1 DEF OneInFlightPerSession
  <2>1. j \in Stored /\ k \in Stored
    BY <1>7
  <2>2. j = r => k \notin InflightAfterRelease
    BY <1>8, <2>1 DEF Eligible
  <2>3. k = r => j \notin InflightAfterRelease
    BY <1>8, <2>1 DEF Eligible
  <2>4. j \in InflightAfterRelease /\ k \in InflightAfterRelease => j = k
    BY DEF Inv, OneInFlightPerSession, InflightAfterRelease
  <2> QED
    BY <1>11, <2>2, <2>3, <2>4
<1>13. RunsAfterPredecessors'
  <2> SUFFICES ASSUME NEW j \in InState("inflight")', NEW k \in preceding[j],
                      Session(k) = Session(j)
               PROVE  WaitForResult(k)' # None
    BY <1>1 DEF RunsAfterPredecessors
  <2>1. j \in Stored /\ k \in Stored /\ k \in Jobs
    BY <1>1, <1>7 DEF Inv, PrecedingStored
  <2>2. CASE j \in InflightAfterRelease
    <3>1. WaitForResult(k) # None
      BY <2>2 DEF Inv, RunsAfterPredecessors, InflightAfterRelease
    <3>2. rows[k].state \in {"completed", "failed"}
      BY <2>1, <3>1, AnsweredIffTerminal
    <3> QED
      BY <1>7, <1>9, <2>1, <3>2, NoneAssumption DEF Answers
  <2>3. CASE j = r /\ j \in Stored
    <3>1. rows[k].seq < rows[j].seq /\ rows[k].seq \in Nat /\ rows[j].seq \in Nat
      BY <1>1, <2>1, StoredFacts DEF Inv, RowDiscipline
    <3>2. k \notin QueuedAfterRelease
      BY <1>8, <2>3, <3>1 DEF Eligible, SessionHead
    <3>3. k \notin InflightAfterRelease
      BY <1>8, <2>3 DEF Eligible
    <3>4. rows[k].state \in {"completed", "failed"}
      BY <1>1, <2>1, <3>2, <3>3, StoredFacts
         DEF QueuedAfterRelease, InflightAfterRelease, States
    <3> QED
      BY <1>7, <1>9, <2>1, <3>4, NoneAssumption DEF Answers
  <2> QED
    BY <1>11, <2>1, <2>2, <2>3
<1> QED
  BY <1>5, <1>7, <1>9, <1>10, <1>12, <1>13 DEF Inv

(* Rewriting one row under its number, without starting it. *)
LEMMA InvRewrite ==
    ASSUME Inv, NEW j \in Stored, NEW new \in Row,
           new.seq = rows[j].seq, new.worker_id = None, new.state # "inflight",
           rows[j].state \in {"completed", "failed"} => new.state \in {"completed", "failed"},
           new.state = "queued" => new.attempts < MaxAttempts,
           rows' = [rows EXCEPT ![j] = new],
           told' \in [Jobs -> Answers \cup {None}],
           UNCHANGED <<calls, value, drawn, accum_pins, preceding>>
    PROVE  /\ Inv' /\ Stored' = Stored
           /\ \A k \in Stored : rows[k].state \in {"completed", "failed"} =>
                 rows'[k].state \in {"completed", "failed"}
<1>1. /\ TypeOK /\ j \in Jobs /\ Stored \subseteq Jobs /\ new # None
      /\ rows \in [Jobs -> Row \cup {None}] /\ rows'[j] = new
      /\ \A k \in Jobs : k # j => rows'[k] = rows[k]
  BY StoredFacts, NoneAssumption DEF Inv, TypeOK
<1>2. TypeOK'
  <2>1. rows' \in [Jobs -> Row \cup {None}]
    BY <1>1
  <2> QED
    BY <1>1, <2>1 DEF TypeOK
<1>3. /\ Stored' = Stored
      /\ DistinctSeqs' /\ DrawDiscipline' /\ RowDiscipline' /\ PrecedingStored'
  <2>1. \A k \in Jobs : /\ rows'[k] = None <=> rows[k] = None
                        /\ rows[k] # None => rows'[k].seq = rows[k].seq
    BY <1>1
  <2> QED
    BY <1>2, <2>1, RowsKept
<1>4. \A k \in Stored :
         /\ rows'[k].state = "inflight" => rows[k].state = "inflight"
         /\ rows[k].state \in {"completed", "failed"} =>
               rows'[k].state \in {"completed", "failed"}
  BY <1>1
<1>5. OneInFlightPerSession' /\ RunsAfterPredecessors'
  BY <1>2, <1>3, <1>4, NothingStarts
<1>6. RetryBudget'
  BY <1>1, <1>3 DEF Inv, RetryBudget
<1> QED
  BY <1>2, <1>3, <1>4, <1>5, <1>6 DEF Inv

(* ack: the row is completed under its number, whatever its state was. *)
LEMMA InvAck ==
    ASSUME Inv, NEW j \in Stored, NEW status \in Answers, Ack(j, status)
    PROVE  /\ Inv' /\ Stored' = Stored
           /\ \A k \in Stored : rows[k].state \in {"completed", "failed"} =>
                 rows'[k].state \in {"completed", "failed"}
<1> DEFINE new == Moved(rows[j], "completed", None, 0)
<1>1. rows[j] \in Row
  BY StoredFacts DEF Inv
<1>2. /\ new \in Row /\ new.seq = rows[j].seq /\ new.state = "completed"
      /\ new.worker_id = None
  BY <1>1, RowUpdate DEF Rewrites
<1>3. /\ rows' = [rows EXCEPT ![j] = new]
      /\ told' \in [Jobs -> Answers \cup {None}]
      /\ UNCHANGED <<calls, value, drawn, accum_pins, preceding>>
  BY DEF Inv, TypeOK, Ack
<1> HIDE DEF new
<1> QED
  BY <1>2, <1>3, InvRewrite

(* nack: only a row in flight is rewritten, and queued only within budget. *)
LEMMA InvNack ==
    ASSUME Inv, NEW j \in Stored, Nack(j), rows[j].state = "inflight"
    PROVE  /\ Inv' /\ Stored' = Stored
           /\ \A k \in Stored : rows[k].state \in {"completed", "failed"} =>
                 rows'[k].state \in {"completed", "failed"}
<1> DEFINE counted == [rows[j] EXCEPT !.attempts = @ + 1]
<1>0. rows \in [Jobs -> Row \cup {None}] /\ j \in Jobs
  BY StoredFacts DEF Inv, TypeOK
<1> DEFINE st == IF rows[j].attempts + 1 >= MaxAttempts THEN "failed" ELSE "queued"
<1> DEFINE new == AfterAttempt(rows[j])
<1>1. rows[j] \in Row /\ rows[j].attempts \in Nat
  BY StoredFacts DEF Inv
<1>2. counted \in Row /\ counted.seq = rows[j].seq /\ counted.attempts = rows[j].attempts + 1
  BY <1>1 DEF Row
<1>3. /\ st \in States /\ st # "inflight"
      /\ st = "queued" => rows[j].attempts + 1 < MaxAttempts
  BY <1>1, BoundAssumption DEF States
<1>4. /\ rows' = [rows EXCEPT ![j] = new]
      /\ told' \in [Jobs -> Answers \cup {None}]
      /\ UNCHANGED <<calls, value, drawn, accum_pins, preceding>>
  <2>1. told \in [Jobs -> Answers \cup {None}]
    BY DEF Inv, TypeOK
  <2> QED
    <3>1. NackAttempt(j)
      BY DEF Nack
    <3>2. /\ rows' = [rows EXCEPT ![j] = new]
          /\ UNCHANGED <<calls, value, drawn, accum_pins, preceding>>
      BY <3>1 DEF NackAttempt
    <3>3. told' = told \/ told' = [told EXCEPT ![j] = "failed"]
      BY <3>1 DEF NackAttempt
    <3> QED
      BY <2>1, <3>2, <3>3 DEF Answers
<1>5. new = Moved(counted, st, None, 0)
  BY DEF AfterAttempt
<1> HIDE DEF counted, st, new
<1>6. /\ new \in Row /\ new.seq = rows[j].seq /\ new.state = st
      /\ new.worker_id = None /\ new.attempts = rows[j].attempts + 1
  BY <1>5, <1>2, RowUpdate DEF Rewrites, st
<1> QED
  BY <1>3, <1>4, <1>6, InvRewrite

(* Time only shortens what is left. *)
LEMMA InvTick ==
    ASSUME Inv, Tick
    PROVE  /\ Inv' /\ Stored' = Stored
           /\ \A k \in Stored : rows[k].state \in {"completed", "failed"} =>
                 rows'[k].state \in {"completed", "failed"}
<1>1. /\ TypeOK /\ Stored \subseteq Jobs
      /\ UNCHANGED <<calls, value, drawn, preceding, told>>
      /\ rows' = [j \in Jobs |->
            IF rows[j] = None THEN None ELSE [rows[j] EXCEPT !.left = Elapse(@)]]
      /\ accum_pins' = [s \in Sessions |->
            IF accum_pins[s] = None THEN None
            ELSE [accum_pins[s] EXCEPT !.left = Elapse(@)]]
  BY StoredFacts DEF Inv, Tick
<1>2. ASSUME NEW row \in Row
      PROVE  LET new == [row EXCEPT !.left = Elapse(@)] IN
             /\ new \in Row /\ new # None /\ new.seq = row.seq /\ new.state = row.state
             /\ new.attempts = row.attempts /\ new.worker_id = row.worker_id
  BY BoundAssumption, NoneAssumption DEF Row, Elapse
<1>3. /\ \A j \in Stored : /\ rows'[j] \in Row /\ rows'[j] # None
                           /\ rows'[j].seq = rows[j].seq /\ rows'[j].state = rows[j].state
                           /\ rows'[j].attempts = rows[j].attempts
                           /\ rows'[j].worker_id = rows[j].worker_id
      /\ \A j \in Jobs : j \notin Stored => rows'[j] = None /\ rows[j] = None
  BY <1>1, <1>2, StoredFacts
<1>4. TypeOK'
  <2>1. rows' \in [Jobs -> Row \cup {None}]
    BY <1>1, <1>3
  <2>2. ASSUME NEW p \in Pin
        PROVE  [p EXCEPT !.left = Elapse(@)] \in Pin
    BY BoundAssumption DEF Pin, Elapse
  <2>3. accum_pins' \in [Sessions -> Pin \cup {None}]
    BY <1>1, <2>2 DEF TypeOK
  <2>4. \A j \in Jobs : rows'[j] # None =>
           j \in Called' /\ (rows'[j].worker_id # None <=> rows'[j].state = "inflight")
    BY <1>1, <1>3 DEF TypeOK
  <2> QED
    BY <1>1, <2>1, <2>3, <2>4 DEF TypeOK
<1>5. /\ Stored' = Stored
      /\ DistinctSeqs' /\ DrawDiscipline' /\ RowDiscipline' /\ PrecedingStored'
  <2>1. \A j \in Jobs : /\ rows'[j] = None <=> rows[j] = None
                        /\ rows[j] # None => rows'[j].seq = rows[j].seq
    BY <1>1, <1>3, StoredFacts
  <2> QED
    BY <1>1, <1>4, <2>1, RowsKept
<1>6. OneInFlightPerSession' /\ RunsAfterPredecessors'
  BY <1>1, <1>3, <1>4, <1>5, NothingStarts
<1>7. RetryBudget'
  BY <1>1, <1>3, <1>5 DEF Inv, RetryBudget
<1> QED
  BY <1>3, <1>4, <1>5, <1>6, <1>7 DEF Inv

(* Pins touch nothing else. *)
LEMMA InvPins ==
    ASSUME Inv, UNCHANGED <<calls, value, drawn, rows, preceding, told>>,
           accum_pins' \in [Sessions -> Pin \cup {None}]
    PROVE  Inv' /\ UNCHANGED rows /\ Stored' = Stored
BY DEF Inv, TypeOK, OneInFlightPerSession, DistinctSeqs, DrawDiscipline,
       RowDiscipline, PrecedingStored, RunsAfterPredecessors, RetryBudget

AnswersKept == \A j \in Jobs : WaitForResult(j) # None => WaitForResult(j)' # None

(* Every step preserves the invariant and every answer. *)
LEMMA InvNext == Inv /\ [Next]_vars => Inv' /\ AnswersKept
<1> SUFFICES ASSUME Inv, [Next]_vars
             PROVE  Inv' /\ AnswersKept
  OBVIOUS
<1>1. ASSUME Stored' = Stored,
             \A k \in Stored : rows[k].state \in {"completed", "failed"} =>
                rows'[k].state \in {"completed", "failed"}
      PROVE  AnswersKept
  BY <1>1, NoneAssumption DEF AnswersKept, Answers
<1>2. ASSUME UNCHANGED rows, Called \subseteq Called'
      PROVE  AnswersKept
  BY <1>2, NoneAssumption DEF AnswersKept, Answers
<1>3. CASE UNCHANGED vars
  <2>1. Inv'
    BY <1>3, InvPins DEF vars, Inv, TypeOK
  <2> QED
    BY <1>2, <1>3, <2>1 DEF vars
<1>4. ASSUME NEW g \in Gateways, NEW spec \in JobSpecs, NextSeq(g, spec)
      PROVE  Inv' /\ AnswersKept
  <2>1. calls \in Seq(QueuedJob) /\ spec \in QueuedJob
    BY SpecsAssumption DEF Inv, TypeOK
  <2>2. Called \subseteq Called' /\ UNCHANGED rows
    BY <1>4, <2>1 DEF NextSeq
  <2> QED
    BY <1>2, <1>4, <2>2, InvNextSeq
<1>5. ASSUME NEW g \in Gateways, InsertRow(g)
      PROVE  Inv' /\ AnswersKept
  <2>1. /\ rows[drawn[g].job] = None /\ drawn[g].job \in Jobs
        /\ \A j \in Jobs : j # drawn[g].job => rows'[j] = rows[j]
        /\ UNCHANGED calls
    BY <1>5, StoredFacts DEF Inv, InsertRow, DrawDiscipline, TypeOK
  <2>2. AnswersKept
    BY <2>1, NoneAssumption DEF AnswersKept, Answers
  <2> QED
    BY <1>5, <2>2, InvInsertRow
<1>6. ASSUME NEW g \in Gateways, EnqueueDies(g)
      PROVE  Inv' /\ AnswersKept
  BY <1>2, <1>6, InvEnqueueDies DEF EnqueueDies
<1>7. ASSUME NEW w \in Workers, NEW r \in Stored \cup {None}, Dequeue(w, r)
      PROVE  Inv' /\ AnswersKept
  BY <1>1, <1>7, InvDequeue
<1>8. ASSUME NEW j \in Stored, NEW status \in Answers, Ack(j, status)
      PROVE  Inv' /\ AnswersKept
  BY <1>1, <1>8, InvAck
<1>9. ASSUME NEW j \in Stored, Nack(j)
      PROVE  Inv' /\ AnswersKept
  <2>1. CASE rows[j].state = "inflight"
    BY <1>1, <1>9, <2>1, InvNack
  <2>2. CASE rows[j].state # "inflight"
    BY <1>3, <1>9, <2>2 DEF Nack
  <2> QED
    BY <2>1, <2>2
<1>10. ASSUME NEW s \in Sessions, NEW w \in Workers, SetAccumPin(s, w)
       PROVE  Inv' /\ AnswersKept
  <2>1. [owner |-> w, left |-> PinTTL] \in Pin
    BY BoundAssumption DEF Pin
  <2>2. /\ accum_pins' \in [Sessions -> Pin \cup {None}]
        /\ UNCHANGED <<calls, value, drawn, rows, preceding, told>>
    BY <1>10, <2>1 DEF Inv, TypeOK, SetAccumPin
  <2> QED
    BY <1>2, <2>2, InvPins
<1>11. ASSUME NEW s \in Sessions, ClearAccumPin(s)
       PROVE  Inv' /\ AnswersKept
  <2>1. /\ accum_pins' \in [Sessions -> Pin \cup {None}]
        /\ UNCHANGED <<calls, value, drawn, rows, preceding, told>>
    BY <1>11 DEF Inv, TypeOK, ClearAccumPin
  <2> QED
    BY <1>2, <2>1, InvPins
<1>12. CASE Tick
  BY <1>1, <1>12, InvTick
<1> QED
  BY <1>3, <1>4, <1>5, <1>6, <1>7, <1>8, <1>9, <1>10, <1>11, <1>12 DEF Next

LEMMA Invariance == Spec => []Inv
<1>1. Init => Inv
  BY InvInit
<1>2. Inv /\ [Next]_vars => Inv'
  BY InvNext
<1> QED
  BY <1>1, <1>2, PTL DEF Spec

(***************************************************************************)
(* For any number of gateways, workers and jobs: the table is type         *)
(* correct, at most one row per session is in flight, sequence numbers are *)
(* never shared (although enqueue is two transactions, and may be cut      *)
(* short), and attempts stay within the budget.                            *)
(***************************************************************************)
THEOREM TableInvariant ==
    Spec => [](TypeOK /\ OneInFlightPerSession /\ DistinctSeqs /\ RetryBudget)
<1>1. Inv => TypeOK /\ OneInFlightPerSession /\ DistinctSeqs /\ RetryBudget
  BY DEF Inv
<1> QED
  BY <1>1, Invariance, PTL

(***************************************************************************)
(* A job runs only when every job of its session that was in the table     *)
(* before its enqueue began has been answered.                             *)
(***************************************************************************)
THEOREM OrderInvariant == Spec => []RunsAfterPredecessors
<1>1. Inv => RunsAfterPredecessors
  BY DEF Inv
<1> QED
  BY <1>1, Invariance, PTL

(***************************************************************************)
(* An answer a client may have read is never taken back.                   *)
(***************************************************************************)
THEOREM AnswersArePermanent == Spec => AnswersStay
<1>1. Inv /\ [Next]_vars => [AnswersKept]_vars
  BY InvNext
<1>2. [][AnswersKept]_vars => AnswersStay
  BY PTL DEF AnswersStay, AnswersKept
<1> QED
  BY <1>1, <1>2, Invariance, PTL DEF Spec
=============================================================================
