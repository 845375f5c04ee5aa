--------------------------- MODULE JobQueueProofs ---------------------------
(***************************************************************************)
(* Machine-checked proofs about JobQueue, for every set of sessions,       *)
(* workers and jobs, and for a caller that acks, nacks and pins as it      *)
(* likes; then about WorkerPool, the workers' real loop against that       *)
(* queue, for any number of workers that die and are slow.                 *)
(***************************************************************************)
EXTENDS WorkerPool, TLAPS, FiniteSetTheorems

(***************************************************************************)
(* What putting an element in front of a sequence does.                    *)
(***************************************************************************)
LEMMA ConsProperties ==
    ASSUME NEW S, NEW q \in Seq(S), NEW e \in S
    PROVE  /\ <<e>> \o q \in Seq(S)
           /\ Len(<<e>> \o q) = Len(q) + 1
           /\ (<<e>> \o q)[1] = e
           /\ \A i \in 1 .. Len(q) : (<<e>> \o q)[i + 1] = q[i]
           /\ <<e>> \o q # <<>>
  <1>1. <<e>> \in Seq(S) /\ Len(<<e>>) = 1 /\ <<e>>[1] = e
    OBVIOUS
  <1>2. /\ <<e>> \o q \in Seq(S)
        /\ Len(<<e>> \o q) = Len(q) + 1
        /\ (<<e>> \o q)[1] = e
        /\ \A i \in 1 .. Len(q) : (<<e>> \o q)[i + 1] = q[i]
    BY <1>1
  <1> QED
    BY <1>2

LEMMA AppendProperties ==
    ASSUME NEW S, NEW q \in Seq(S), NEW e \in S
    PROVE  /\ Append(q, e) \in Seq(S)
           /\ DOMAIN q = 1 .. Len(q) /\ Len(q) \in Nat
           /\ Len(Append(q, e)) = Len(q) + 1
           /\ DOMAIN Append(q, e) = 1 .. Len(Append(q, e))
           /\ \A i \in DOMAIN q : Append(q, e)[i] = q[i]
           /\ Append(q, e)[Len(q) + 1] = e
  OBVIOUS

(***************************************************************************)
(* The part of the state that decides where a job is: the tables agree and *)
(* deques are in order.  It is inductive.                                  *)
(***************************************************************************)
Placement == TypeOK /\ SingleInFlight /\ SessionFIFO

(* A deque of session s: ids of jobs of s in increasing order. *)
Ordered(q, s) ==
    /\ q \in Seq(Jobs)
    /\ \A i \in 1 .. Len(q) : q[i] \in JobsOf(s)
    /\ \A i, k \in 1 .. Len(q) : i < k => q[i] < q[k]

LEMMA ConsOrdered ==
    ASSUME NEW s, NEW q, Ordered(q, s), NEW j \in JobsOf(s), j \in Jobs,
           \A i \in 1 .. Len(q) : j < q[i]
    PROVE  /\ Ordered(<<j>> \o q, s)
           /\ Range(<<j>> \o q) = {j} \cup Range(q)
  <1> DEFINE p == <<j>> \o q
  <1>1. /\ p \in Seq(Jobs) /\ q \in Seq(Jobs)
        /\ Len(p) = Len(q) + 1
        /\ p[1] = j
        /\ \A i \in 1 .. Len(q) : p[i + 1] = q[i]
    BY ConsProperties DEF Ordered
  <1>2. Len(q) \in Nat /\ DOMAIN p = 1 .. Len(p) /\ DOMAIN q = 1 .. Len(q)
    BY <1>1
  <1> HIDE DEF p
  <1>3. \A i \in 1 .. Len(p) : i = 1 \/ (i - 1 \in 1 .. Len(q) /\ p[i] = q[i - 1])
    <2> SUFFICES ASSUME NEW i \in 1 .. Len(p), i # 1
                 PROVE  i - 1 \in 1 .. Len(q) /\ p[i] = q[i - 1]
      OBVIOUS
    <2>1. i - 1 \in 1 .. Len(q) /\ (i - 1) + 1 = i
      BY <1>1, <1>2
    <2> QED
      BY <2>1, <1>1
  <1>4. \A i \in 1 .. Len(p) : p[i] \in JobsOf(s)
    BY <1>1, <1>3 DEF Ordered
  <1>5. \A i, k \in 1 .. Len(p) : i < k => p[i] < p[k]
    <2> SUFFICES ASSUME NEW i \in 1 .. Len(p), NEW k \in 1 .. Len(p), i < k
                 PROVE  p[i] < p[k]
      OBVIOUS
    <2>1. k # 1 /\ k - 1 \in 1 .. Len(q) /\ p[k] = q[k - 1]
      BY <1>2, <1>3
    <2>2. CASE i = 1
      BY <2>1, <2>2, <1>1
    <2>3. CASE i # 1
      <3>1. i - 1 \in 1 .. Len(q) /\ p[i] = q[i - 1] /\ i - 1 < k - 1
        BY <2>3, <1>3, <1>2
      <3> QED
        BY <3>1, <2>1 DEF Ordered
    <2> QED
      BY <2>2, <2>3
  <1>6. \A k : k \in {p[i] : i \in DOMAIN p}
               <=> k = j \/ k \in {q[i] : i \in DOMAIN q}
    <2>1. ASSUME NEW k, k \in {p[i] : i \in DOMAIN p}
          PROVE  k = j \/ k \in {q[i] : i \in DOMAIN q}
      <3>1. PICK i \in DOMAIN p : k = p[i]
        BY <2>1
      <3>2. i = 1 \/ (i - 1 \in DOMAIN q /\ p[i] = q[i - 1])
        BY <1>2, <1>3
      <3> QED
        BY <3>1, <3>2, <1>1
    <2>2. 1 \in DOMAIN p /\ p[1] = j
      BY <1>1, <1>2
    <2>3. ASSUME NEW i \in DOMAIN q
          PROVE  i + 1 \in DOMAIN p /\ p[i + 1] = q[i]
      BY <1>1, <1>2
    <2> QED
      BY <2>1, <2>2, <2>3
  <1>7. Ordered(p, s)
    BY <1>1, <1>4, <1>5 DEF Ordered
  <1>8. Range(p) = {j} \cup Range(q)
    BY <1>6 DEF Range
  <1> QED
    BY <1>7, <1>8 DEF p

LEMMA TailOrdered ==
    ASSUME NEW s, NEW q, Ordered(q, s), q # <<>>
    PROVE  /\ Head(q) \in JobsOf(s) /\ Head(q) \in Jobs
           /\ Ordered(Tail(q), s)
           /\ \A i \in DOMAIN Tail(q) : Head(q) < Tail(q)[i]
           /\ Range(q) = {Head(q)} \cup Range(Tail(q))
  <1> DEFINE t == Tail(q)
  <1>1. /\ q \in Seq(Jobs) /\ t \in Seq(Jobs)
        /\ Len(q) \in Nat /\ Len(q) > 0
        /\ Len(t) = Len(q) - 1
        /\ Head(q) = q[1]
        /\ \A i \in 1 .. Len(t) : t[i] = q[i + 1]
        /\ DOMAIN q = 1 .. Len(q) /\ DOMAIN t = 1 .. Len(t)
    BY DEF Ordered
  <1> HIDE DEF t
  <1>2. \A i \in 1 .. Len(t) : i + 1 \in 1 .. Len(q)
    BY <1>1
  <1>3. 1 \in 1 .. Len(q)
    BY <1>1
  <1>4. Head(q) \in JobsOf(s) /\ Head(q) \in Jobs
    BY <1>1, <1>3 DEF Ordered
  <1>5. \A i \in 1 .. Len(t) : t[i] \in JobsOf(s) /\ q[1] < t[i]
    BY <1>1, <1>2, <1>3 DEF Ordered
  <1>6. \A i, k \in 1 .. Len(t) : i < k => t[i] < t[k]
    BY <1>1, <1>2 DEF Ordered
  <1>7. \A k : k \in {q[i] : i \in DOMAIN q}
               <=> k = Head(q) \/ k \in {t[i] : i \in DOMAIN t}
    <2>1. ASSUME NEW i \in DOMAIN q, i # 1
          PROVE  i - 1 \in DOMAIN t /\ t[i - 1] = q[i]
      BY <1>1, <2>1
    <2>2. ASSUME NEW i \in DOMAIN t
          PROVE  i + 1 \in DOMAIN q /\ q[i + 1] = t[i]
      BY <1>1, <1>2
    <2> QED
      BY <2>1, <2>2, <1>1, <1>3
  <1>8. Range(q) = {Head(q)} \cup Range(t)
    BY <1>7 DEF Range
  <1> QED
    BY <1>1, <1>4, <1>5, <1>6, <1>8 DEF Ordered, t

(***************************************************************************)
(* What _requeue_expired leaves behind: the lapsed job of a session, if    *)
(* there is one, is back at the head, and the lock of a session is free    *)
(* exactly when nothing of it is in flight any more.                       *)
(***************************************************************************)
LEMMA DequesOrdered ==
    ASSUME Placement, NEW s \in Sessions
    PROVE  /\ Ordered(session_queues[s], s)
           /\ \A j \in JobsOf(s), i \in DOMAIN session_queues[s] :
                 inflight[j] # None => j < session_queues[s][i]
  <1>1. session_queues[s] \in Seq(Jobs)
    BY DEF Placement, TypeOK
  <1>2. DOMAIN session_queues[s] = 1 .. Len(session_queues[s])
    BY <1>1
  <1> QED
    BY <1>1, <1>2 DEF Placement, SessionFIFO, Ordered

LEMMA SubmittedAreJobs ==
    ASSUME TypeOK
    PROVE  /\ Submitted \subseteq Jobs
           /\ Submitted = 1 .. Len(submitted)
           /\ Len(submitted) \in Nat
           /\ \A j \in Submitted : Session(j) \in Sessions /\ submitted[j] \in QueuedJob
  <1>1. submitted \in Seq(QueuedJob) /\ Len(submitted) <= MaxJobs
    BY DEF TypeOK
  <1>2. Submitted = 1 .. Len(submitted) /\ Len(submitted) \in Nat
    BY <1>1 DEF Submitted
  <1>3. \A j \in Submitted : submitted[j] \in QueuedJob
    BY <1>1, <1>2
  <1> QED
    BY <1>1, <1>2, <1>3, BoundAssumption DEF Jobs, Session, QueuedJob

LEMMA NoneIsNoJob == \A j \in Jobs : j # None
  BY NoneAssumption

LEMMA RequeueFacts ==
    ASSUME Placement, NEW s \in Sessions
    PROVE  /\ Ordered(QueueAfterRequeue(s), s)
           /\ Range(QueueAfterRequeue(s)) = Waiting(s) \cup ExpiredOf(s)
           /\ LockAfterRequeue(s) # None =>
                 /\ LockAfterRequeue(s) = inflight_by_session[s]
                 /\ ExpiredOf(s) = {}
           /\ \A j \in JobsOf(s) : inflight[j] # None /\ j \notin Expired =>
                 /\ QueueAfterRequeue(s) = session_queues[s]
                 /\ LockAfterRequeue(s) = j
  <1> USE NoneIsNoJob
  <1>1. Ordered(session_queues[s], s)
    BY DequesOrdered
  <1>2. Submitted \subseteq Jobs
    BY SubmittedAreJobs DEF Placement
  <1>3. ExpiredOf(s) \subseteq pending_expired
    BY <1>2 DEF Placement, SingleInFlight, ExpiredOf, Expired
  <1>4. \A j \in JobsOf(s) : inflight[j] # None => inflight_by_session[s] = j
    BY <1>2 DEF Placement, SingleInFlight, JobsOf
  <1>5. ExpiredOf(s) \subseteq JobsOf(s) /\ \A j \in ExpiredOf(s) : inflight[j] # None
    BY DEF ExpiredOf, Expired, JobsOf
  <1>6. CASE ExpiredOf(s) = {}
    <2>1. QueueAfterRequeue(s) = session_queues[s]
      BY <1>6 DEF QueueAfterRequeue
    <2>2. LockAfterRequeue(s) = inflight_by_session[s]
      BY <1>6 DEF LockAfterRequeue
    <2> QED
      BY <2>1, <2>2, <1>1, <1>4, <1>6 DEF Waiting
  <1>7. CASE ExpiredOf(s) # {}
    <2> DEFINE back == ExpiredOf(s) \cap pending_expired
               j == CHOOSE k \in back : TRUE
    <2>1. back = ExpiredOf(s)
      BY <1>3
    <2>2. j \in ExpiredOf(s)
      BY <2>1, <1>7
    <2>3. QueueAfterRequeue(s) = <<j>> \o session_queues[s]
      BY <2>1, <1>7 DEF QueueAfterRequeue
    <2>4. LockAfterRequeue(s) = None
      BY <1>7 DEF LockAfterRequeue
    <2> HIDE DEF j, back
    <2>5. \A k \in JobsOf(s) : inflight[k] # None => k = j
      BY <1>4, <1>5, <2>2
    <2>6. ExpiredOf(s) = {j}
      BY <2>2, <2>5, <1>5
    <2>7. j \in JobsOf(s) /\ j \in Jobs
      BY <2>2, <1>2, <1>5 DEF JobsOf
    <2>8. \A i \in 1 .. Len(session_queues[s]) : j < session_queues[s][i]
      <3>1. session_queues[s] \in Seq(Jobs)
        BY <1>1 DEF Ordered
      <3>2. DOMAIN session_queues[s] = 1 .. Len(session_queues[s])
        BY <3>1
      <3> QED
        BY <3>2, <2>2, <2>7, <1>5, DequesOrdered
    <2>9. /\ Ordered(QueueAfterRequeue(s), s)
          /\ Range(QueueAfterRequeue(s)) = {j} \cup Waiting(s)
      BY <1>1, <2>3, <2>7, <2>8, ConsOrdered DEF Waiting
    <2>10. j \in Expired
      BY <2>2 DEF ExpiredOf
    <2> QED
      BY <2>4, <2>5, <2>6, <2>9, <2>10
  <1> QED
    BY <1>6, <1>7

(***************************************************************************)
(* The job dequeue selects is the head of its own session's deque, and     *)
(* that session is free.                                                   *)
(***************************************************************************)
LEMMA SelectedIsHead ==
    ASSUME Placement, NEW w \in Workers, NEW r \in Submitted, Dequeue(w, r)
    PROVE  /\ Session(r) \in Sessions
           /\ r = Head(QueueAfterRequeue(Session(r)))
           /\ QueueAfterRequeue(Session(r)) # <<>>
           /\ LockAfterRequeue(Session(r)) = None
  <1>1. r \in Jobs /\ r # None
    BY SubmittedAreJobs, NoneIsNoJob DEF Placement
  <1>2. r \in Candidates(w)
    BY <1>1 DEF Dequeue, Selects, Visible
  <1>3. PICK t \in Reached(w) : r = Head(QueueAfterRequeue(t))
    BY <1>2 DEF Candidates
  <1>4. t \in Sessions /\ QueueAfterRequeue(t) # <<>> /\ LockAfterRequeue(t) = None
    BY <1>3 DEF Reached
  <1>5. Ordered(QueueAfterRequeue(t), t)
    BY <1>4, RequeueFacts
  <1>6. r \in JobsOf(t)
    BY <1>3, <1>4, <1>5, TailOrdered
  <1> QED
    BY <1>3, <1>4, <1>6 DEF JobsOf

-----------------------------------------------------------------------------
(***************************************************************************)
(* Placement is inductive: one lemma per operation of the queue.           *)
(***************************************************************************)
LEMMA PlacementInit == Init => Placement
  <1> SUFFICES ASSUME Init PROVE Placement
    OBVIOUS
  <1> USE DEF Init
  <1>1. TypeOK
    BY BoundAssumption DEF TypeOK, Jobs
  <1>2. SingleInFlight
    BY DEF SingleInFlight
  <1>3. SessionFIFO
    BY DEF SessionFIFO
  <1> QED
    BY <1>1, <1>2, <1>3 DEF Placement

LEMMA PlacementDequeue ==
    ASSUME Placement, NEW w \in Workers, NEW r \in Submitted \cup {None}, Dequeue(w, r)
    PROVE  /\ TypeOK'
           /\ SingleInFlight'
           /\ SessionFIFO'
  <1> USE NoneIsNoJob
  <1> DEFINE Q(s) == QueueAfterRequeue(s)
             L(s) == LockAfterRequeue(s)
  <1>1. Submitted \subseteq Jobs /\ (\A j \in Submitted : Session(j) \in Sessions)
    BY SubmittedAreJobs DEF Placement
  <1>2. ASSUME NEW s \in Sessions
        PROVE  /\ Ordered(Q(s), s)
               /\ L(s) # None => L(s) = inflight_by_session[s] /\ ExpiredOf(s) = {}
               /\ \A j \in JobsOf(s) : inflight[j] # None /\ j \notin Expired =>
                     Q(s) = session_queues[s] /\ L(s) = j
    BY <1>2, RequeueFacts
  <1>3. ASSUME r # None
        PROVE  /\ r \in Submitted /\ r \in Jobs /\ Session(r) \in Sessions
               /\ r = Head(Q(Session(r))) /\ Q(Session(r)) # <<>>
               /\ L(Session(r)) = None
    BY <1>1, <1>3, SelectedIsHead
  <1>4. submitted' = submitted /\ Submitted' = Submitted
        /\ (\A j : Session(j)' = Session(j)) /\ (\A s : JobsOf(s)' = JobsOf(s))
    BY DEF Dequeue, Submitted, Session, JobsOf
  <1>5. ASSUME NEW s \in Sessions
        PROVE  /\ session_queues'[s] =
                    IF r # None /\ Session(r) = s THEN Tail(Q(s)) ELSE Q(s)
               /\ inflight_by_session'[s] =
                    IF r # None /\ Session(r) = s THEN r ELSE L(s)
    BY <1>5 DEF Dequeue
  <1>6. ASSUME NEW j \in Jobs
        PROVE  inflight'[j] =
                 IF j = r THEN [worker |-> w, left |-> VisibilityTimeout]
                 ELSE IF j \in Expired THEN None ELSE inflight[j]
    BY <1>6 DEF Dequeue
  <1>7. [worker |-> w, left |-> VisibilityTimeout] # None
        /\ [worker |-> w, left |-> VisibilityTimeout] \in InflightEntry
    BY NoneAssumption, BoundAssumption DEF InflightEntry
  <1> HIDE DEF Q, L
  <1>8. ASSUME NEW s \in Sessions
        PROVE  Ordered(session_queues'[s], s)
    BY <1>2, <1>3, <1>5, <1>8, TailOrdered
  <1>9. TypeOK'
    <2>1. session_queues' \in [Sessions -> Seq(Jobs)]
      <3>1. session_queues' = [s \in Sessions |-> session_queues'[s]]
        BY DEF Dequeue
      <3> QED
        BY <3>1, <1>8 DEF Ordered
    <2>2. inflight_by_session' \in [Sessions -> Jobs \cup {None}]
      <3>1. inflight_by_session' = [s \in Sessions |-> inflight_by_session'[s]]
        BY DEF Dequeue
      <3>2. \A s \in Sessions : inflight_by_session'[s] \in Jobs \cup {None}
        BY <1>2, <1>3, <1>5 DEF Placement, TypeOK
      <3> QED
        BY <3>1, <3>2
    <2>3. inflight' \in [Jobs -> InflightEntry \cup {None}]
      BY <1>7 DEF Dequeue, Placement, TypeOK
    <2>4. pending_expired' \subseteq Jobs
      BY <1>3 DEF Dequeue, Placement, TypeOK
    <2>5. accum_pins' \in [Sessions -> Pin \cup {None}]
      BY DEF Dequeue, Placement, TypeOK
    <2> QED
      BY <2>1, <2>2, <2>3, <2>4, <2>5 DEF Dequeue, Placement, TypeOK
  <1>10. ASSUME NEW j \in Jobs, inflight'[j] # None, j # r
         PROVE  /\ j \in Submitted /\ Session(j) \in Sessions
                /\ j \notin Expired /\ inflight[j] # None /\ inflight'[j] = inflight[j]
                /\ Q(Session(j)) = session_queues[Session(j)]
                /\ L(Session(j)) = j
                /\ r # None => Session(r) # Session(j)
    <2>1. j \notin Expired /\ inflight[j] # None /\ inflight'[j] = inflight[j]
      BY <1>6, <1>10
    <2>2. j \in Submitted /\ Session(j) \in Sessions
      BY <2>1, <1>1 DEF Placement, SingleInFlight
    <2>3. j \in JobsOf(Session(j))
      BY <2>2 DEF JobsOf
    <2> QED
      BY <2>1, <2>2, <2>3, <1>2, <1>3
  <1>11. SingleInFlight'
    <2>1. ASSUME NEW s \in Sessions, inflight_by_session'[s] # None
          PROVE  inflight_by_session'[s] \in JobsOf(s) /\ inflight'[inflight_by_session'[s]] # None
      <3>1. CASE r # None /\ Session(r) = s
        BY <3>1, <1>3, <1>5, <1>6, <1>7 DEF JobsOf
      <3>2. CASE ~ (r # None /\ Session(r) = s)
        <4> DEFINE j == inflight_by_session[s]
        <4>1. inflight_by_session'[s] = j /\ j # None /\ ExpiredOf(s) = {}
          BY <3>2, <2>1, <1>2, <1>5
        <4>2. j \in JobsOf(s) /\ inflight[j] # None
          BY <4>1 DEF Placement, SingleInFlight
        <4>3. j \in Jobs /\ j \notin Expired /\ j # r
          BY <4>1, <4>2, <3>2, <1>1 DEF JobsOf, ExpiredOf
        <4> QED
          BY <4>1, <4>2, <4>3, <1>6
      <3> QED
        BY <3>1, <3>2
    <2>2. ASSUME NEW j \in Jobs, inflight'[j] # None
          PROVE  j \in Submitted /\ inflight_by_session'[Session(j)] = j
      <3>1. CASE j = r
        BY <3>1, <1>3, <1>5
      <3>2. CASE j # r
        BY <3>2, <2>2, <1>5, <1>10
      <3> QED
        BY <3>1, <3>2
    <2>3. pending_expired' = {j \in Jobs : inflight'[j] # None}
      <3>1. pending_expired = {j \in Jobs : inflight[j] # None}
        BY DEF Placement, SingleInFlight
      <3>2. pending_expired' = (pending_expired \ Expired) \cup (IF r = None THEN {} ELSE {r})
        BY DEF Dequeue
      <3> QED
        BY <3>1, <3>2, <1>3, <1>6, <1>7
    <2> QED
      BY <2>1, <2>2, <2>3, <1>4 DEF SingleInFlight
  <1>12. SessionFIFO'
    <2>1. ASSUME NEW s \in Sessions
          PROVE  DOMAIN session_queues'[s] = 1 .. Len(session_queues'[s])
      BY <1>8 DEF Ordered
    <2>2. ASSUME NEW s \in Sessions, NEW j \in JobsOf(s),
                 NEW i \in DOMAIN session_queues'[s], inflight'[j] # None
          PROVE  j < session_queues'[s][i]
      <3>1. j \in Jobs /\ Session(j) = s
        BY <1>1 DEF JobsOf
      <3>2. CASE j = r
        <4>1. session_queues'[s] = Tail(Q(s)) /\ Q(s) # <<>> /\ r = Head(Q(s))
          BY <3>1, <3>2, <1>3, <1>5
        <4> QED
          BY <4>1, <3>2, <1>2, <2>2, TailOrdered
      <3>3. CASE j # r
        <4>1. session_queues'[s] = session_queues[s] /\ inflight[j] # None
          BY <3>1, <3>3, <2>2, <1>5, <1>10
        <4> QED
          BY <4>1, <2>2, DequesOrdered
      <3> QED
        BY <3>2, <3>3
    <2> QED
      BY <1>4, <1>8, <2>1, <2>2 DEF SessionFIFO, Ordered
  <1> QED
    BY <1>9, <1>11, <1>12
LEMMA PlacementEnqueue ==
    ASSUME Placement, NEW spec \in JobSpecs, Enqueue(spec)
    PROVE  Placement'
  <1> USE NoneIsNoJob
  <1> DEFINE id == Len(submitted) + 1
             t == spec.session
  <1>1. /\ submitted \in Seq(QueuedJob) /\ Len(submitted) \in Nat
        /\ Submitted = 1 .. Len(submitted) /\ Submitted \subseteq Jobs
        /\ \A j \in Submitted : Session(j) \in Sessions
    BY SubmittedAreJobs DEF Placement, TypeOK
  <1>2. spec \in QueuedJob /\ t \in Sessions /\ id \in Jobs /\ id \in Nat /\ id <= MaxJobs
    BY <1>1, JobSpecsAssumption, BoundAssumption DEF QueuedJob, Enqueue, Jobs
  <1>3. submitted' \in Seq(QueuedJob) /\ Len(submitted') = id
        /\ Submitted' = Submitted \cup {id} /\ id \notin Submitted
        /\ (\A j \in Submitted : submitted'[j] = submitted[j]) /\ submitted'[id] = spec
    BY <1>1, <1>2 DEF Enqueue, Submitted
  <1>4. /\ \A j \in Submitted : Session(j)' = Session(j) /\ j < id
        /\ \A j : j = id => Session(j)' = t
    BY <1>1, <1>3 DEF Session
  <1>5. \A s \in Sessions : JobsOf(s)' = IF s = t THEN JobsOf(s) \cup {id} ELSE JobsOf(s)
    BY <1>3, <1>4 DEF JobsOf
  <1>6. inflight[id] = None
    BY <1>2, <1>3 DEF Placement, SingleInFlight
  <1>7. ASSUME NEW s \in Sessions
        PROVE  session_queues'[s] = IF s = t THEN Append(session_queues[s], id) ELSE session_queues[s]
    BY <1>7, <1>2 DEF Enqueue, Placement, TypeOK
  <1> HIDE DEF id, t
  <1>8. ASSUME NEW s \in Sessions, s = t
        PROVE  /\ session_queues'[s] \in Seq(Jobs)
               /\ DOMAIN session_queues'[s] = 1 .. Len(session_queues'[s])
               /\ Len(session_queues[s]) \in Nat
               /\ DOMAIN session_queues[s] = 1 .. Len(session_queues[s])
               /\ Len(session_queues'[s]) = Len(session_queues[s]) + 1
               /\ \A i \in DOMAIN session_queues[s] : session_queues'[s][i] = session_queues[s][i]
               /\ session_queues'[s][Len(session_queues[s]) + 1] = id
    <2>1. session_queues[s] \in Seq(Jobs)
      BY DEF Placement, TypeOK
    <2>2. session_queues'[s] = Append(session_queues[s], id)
      BY <1>7, <1>8
    <2> QED
      BY <2>1, <2>2, <1>2, AppendProperties
  <1>9. TypeOK'
    <2>1. session_queues' \in [Sessions -> Seq(Jobs)]
      <3>1. \A s \in Sessions : session_queues'[s] \in Seq(Jobs)
        BY <1>7, <1>8 DEF Placement, TypeOK
      <3>2. session_queues' = [s \in Sessions |-> session_queues'[s]]
        BY <1>2 DEF Enqueue, Placement, TypeOK
      <3> QED
        BY <3>1, <3>2
    <2>2. exclusive' \in [Jobs -> 0 .. AffinityWindow]
      BY BoundAssumption DEF Enqueue, Placement, TypeOK
    <2> QED
      BY <2>1, <2>2, <1>2, <1>3 DEF Enqueue, Placement, TypeOK
  <1>10. SingleInFlight'
    <2>1. inflight' = inflight /\ inflight_by_session' = inflight_by_session
          /\ pending_expired' = pending_expired
      BY DEF Enqueue
    <2>2. \A s \in Sessions : JobsOf(s) \subseteq JobsOf(s)'
      BY <1>5
    <2> QED
      BY <2>1, <2>2, <1>1, <1>3, <1>4 DEF Placement, SingleInFlight
  <1>11. SessionFIFO'
    <2>1. ASSUME NEW s \in Sessions
          PROVE  /\ \A i \in DOMAIN session_queues'[s] : session_queues'[s][i] \in JobsOf(s)'
                 /\ \A i, k \in DOMAIN session_queues'[s] :
                       i < k => session_queues'[s][i] < session_queues'[s][k]
                 /\ \A j \in JobsOf(s)', i \in DOMAIN session_queues'[s] :
                       inflight'[j] # None => j < session_queues'[s][i]
      <3>0. /\ \A i \in DOMAIN session_queues[s] : session_queues[s][i] \in JobsOf(s)
            /\ \A i, k \in DOMAIN session_queues[s] :
                  i < k => session_queues[s][i] < session_queues[s][k]
            /\ \A j \in JobsOf(s), i \in DOMAIN session_queues[s] :
                  inflight[j] # None => j < session_queues[s][i]
        BY DEF Placement, SessionFIFO
      <3>1. inflight' = inflight
        BY DEF Enqueue
      <3>2. CASE s # t
        BY <3>0, <3>1, <3>2, <1>5, <1>7
      <3>3. CASE s = t
        <4>1. \A i \in DOMAIN session_queues'[s] :
                \/ i \in DOMAIN session_queues[s] /\ session_queues'[s][i] = session_queues[s][i]
                \/ i = Len(session_queues[s]) + 1 /\ session_queues'[s][i] = id
          BY <3>3, <1>8
        <4>2. JobsOf(s)' = JobsOf(s) \cup {id} /\ \A j \in JobsOf(s) : j < id
          BY <3>3, <1>4, <1>5 DEF JobsOf
        <4>3. \A i \in DOMAIN session_queues'[s] : session_queues'[s][i] \in JobsOf(s)'
          BY <3>0, <4>1, <4>2
        <4>4. \A i, k \in DOMAIN session_queues'[s] :
                 i < k => session_queues'[s][i] < session_queues'[s][k]
          BY <3>0, <3>3, <4>1, <4>2, <1>8
        <4>5. \A j \in JobsOf(s)', i \in DOMAIN session_queues'[s] :
                 inflight'[j] # None => j < session_queues'[s][i]
          BY <3>0, <3>1, <4>1, <4>2, <1>6
        <4> QED
          BY <4>3, <4>4, <4>5
      <3> QED
        BY <3>2, <3>3
    <2> QED
      BY <2>1 DEF SessionFIFO
  <1> QED
    BY <1>9, <1>10, <1>11 DEF Placement

(***************************************************************************)
(* Releasing an in-flight job leaves the three tables in agreement.        *)
(***************************************************************************)
LEMMA DropInflightKeepsTables ==
    ASSUME Placement, NEW j \in Submitted, inflight[j] # None, DropInflight(j),
           submitted' = submitted
    PROVE  /\ SingleInFlight'
           /\ inflight' \in [Jobs -> InflightEntry \cup {None}]
           /\ inflight_by_session' \in [Sessions -> Jobs \cup {None}]
           /\ pending_expired' \subseteq Jobs
           /\ inflight'[j] = None
           /\ \A k \in Jobs : inflight'[k] # None => inflight[k] # None /\ k # j
           /\ \A k \in JobsOf(Session(j)) : inflight'[k] = None
  <1> USE NoneIsNoJob
  <1>1. Submitted \subseteq Jobs /\ (\A k \in Submitted : Session(k) \in Sessions)
    BY SubmittedAreJobs DEF Placement
  <1>2. Submitted' = Submitted /\ (\A k : Session(k)' = Session(k))
        /\ (\A s : JobsOf(s)' = JobsOf(s))
    BY DEF Submitted, Session, JobsOf
  <1>3. ASSUME NEW k \in Jobs
        PROVE  inflight'[k] = IF k = j THEN None ELSE inflight[k]
    BY <1>1 DEF DropInflight, Placement, TypeOK
  <1>4. ASSUME NEW s \in Sessions
        PROVE  inflight_by_session'[s] = IF s = Session(j) THEN None ELSE inflight_by_session[s]
    BY <1>1 DEF DropInflight, Placement, TypeOK
  <1>5. inflight_by_session[Session(j)] = j /\ j \in Jobs
    BY <1>1 DEF Placement, SingleInFlight
  <1>6. \A k \in Jobs : inflight'[k] # None => k # j /\ inflight[k] # None
    BY <1>3
  <1>7. \A k \in JobsOf(Session(j)) : inflight'[k] = None
    BY <1>1, <1>5, <1>6 DEF Placement, SingleInFlight, JobsOf
  <1>8. SingleInFlight'
    <2>1. ASSUME NEW s \in Sessions, inflight_by_session'[s] # None
          PROVE  inflight_by_session'[s] \in JobsOf(s) /\ inflight'[inflight_by_session'[s]] # None
      <3>1. s # Session(j) /\ inflight_by_session'[s] = inflight_by_session[s]
        BY <2>1, <1>4
      <3>2. inflight_by_session[s] \in JobsOf(s) /\ inflight[inflight_by_session[s]] # None
        BY <2>1, <3>1 DEF Placement, SingleInFlight
      <3>3. inflight_by_session[s] # j /\ inflight_by_session[s] \in Jobs
        BY <3>1, <3>2, <1>1 DEF JobsOf
      <3> QED
        BY <3>1, <3>2, <3>3, <1>3
    <2>2. ASSUME NEW k \in Jobs, inflight'[k] # None
          PROVE  k \in Submitted /\ inflight_by_session'[Session(k)] = k
      <3>1. k # j /\ inflight[k] # None
        BY <2>2, <1>6
      <3>2. k \in Submitted /\ inflight_by_session[Session(k)] = k
        BY <3>1 DEF Placement, SingleInFlight
      <3> QED
        BY <3>1, <3>2, <1>1, <1>4, <1>5
    <2>3. pending_expired' = {k \in Jobs : inflight'[k] # None}
      BY <1>3 DEF DropInflight, Placement, SingleInFlight
    <2> QED
      BY <2>1, <2>2, <2>3, <1>2 DEF SingleInFlight
  <1>9. /\ inflight' \in [Jobs -> InflightEntry \cup {None}]
        /\ inflight_by_session' \in [Sessions -> Jobs \cup {None}]
        /\ pending_expired' \subseteq Jobs
    BY DEF DropInflight, Placement, TypeOK
  <1> QED
    BY <1>3, <1>5, <1>6, <1>7, <1>8, <1>9

LEMMA PlacementAck ==
    ASSUME Placement, NEW j \in Submitted, NEW status \in Statuses, Ack(j, status)
    PROVE  Placement'
  <1>1. Submitted \subseteq Jobs
    BY SubmittedAreJobs DEF Placement
  <1>2. /\ submitted' = submitted /\ session_queues' = session_queues
        /\ Submitted' = Submitted /\ (\A s : JobsOf(s)' = JobsOf(s))
    BY DEF Ack, Submitted, Session, JobsOf
  <1>3. /\ SingleInFlight'
        /\ inflight' \in [Jobs -> InflightEntry \cup {None}]
        /\ inflight_by_session' \in [Sessions -> Jobs \cup {None}]
        /\ pending_expired' \subseteq Jobs
        /\ \A k \in Jobs : inflight'[k] # None => inflight[k] # None
    <2>1. CASE inflight[j] # None
      BY <2>1, <1>2, DropInflightKeepsTables DEF Ack
    <2>2. CASE inflight[j] = None
      BY <2>2, <1>2 DEF Ack, Placement, TypeOK, SingleInFlight, Session
    <2> QED
      BY <2>1, <2>2
  <1>4. TypeOK'
    BY <1>3 DEF Ack, Placement, TypeOK
  <1>5. SessionFIFO'
    <2>1. \A s : JobsOf(s) \subseteq Jobs
      BY <1>1 DEF JobsOf
    <2> QED
      BY <2>1, <1>2, <1>3 DEF Placement, SessionFIFO
  <1> QED
    BY <1>3, <1>4, <1>5 DEF Placement

LEMMA PlacementNack ==
    ASSUME Placement, NEW j \in Submitted, Nack(j)
    PROVE  Placement'
  <1> USE NoneIsNoJob
  <1>1. Submitted \subseteq Jobs /\ j \in Jobs /\ Session(j) \in Sessions
    BY SubmittedAreJobs DEF Placement
  <1>2. CASE inflight[j] = None
    BY <1>2 DEF Nack, queueVars, Placement, TypeOK, SingleInFlight, SessionFIFO,
                Submitted, Session, JobsOf
  <1>3. CASE inflight[j] # None
    <2>1. /\ submitted' = submitted
          /\ Submitted' = Submitted /\ (\A s : JobsOf(s)' = JobsOf(s))
      BY <1>3 DEF Nack, Submitted, Session, JobsOf
    <2>2. /\ SingleInFlight'
          /\ inflight' \in [Jobs -> InflightEntry \cup {None}]
          /\ inflight_by_session' \in [Sessions -> Jobs \cup {None}]
          /\ pending_expired' \subseteq Jobs
          /\ \A k \in Jobs : inflight'[k] # None => inflight[k] # None
          /\ \A k \in JobsOf(Session(j)) : inflight'[k] = None
      BY <1>3, <2>1, DropInflightKeepsTables DEF Nack
    <2>3. /\ attempts' \in [Jobs -> Nat]
          /\ dead_letter' \subseteq Jobs
          /\ results' \in [Jobs -> Statuses \cup {None}]
          /\ exclusive' = exclusive /\ accum_pins' = accum_pins
      <3>1. attempts' = [attempts EXCEPT ![j] = @ + 1]
            /\ exclusive' = exclusive /\ accum_pins' = accum_pins
        BY <1>3 DEF Nack
      <3>2. attempts' \in [Jobs -> Nat]
        <4>1. attempts \in [Jobs -> Nat] /\ attempts[j] + 1 \in Nat
          BY <1>1 DEF Placement, TypeOK
        <4>2. attempts' = [attempts EXCEPT ![j] = attempts[j] + 1]
          BY <3>1
        <4> QED
          BY <4>1, <4>2
      <3>3. \/ UNCHANGED <<dead_letter, results>>
            \/ /\ dead_letter' = dead_letter \cup ({j} \cap pending_expired)
               /\ results' = [results EXCEPT ![j] = "failed"]
        BY <1>3 DEF Nack
      <3>4. "failed" \in Statuses
        BY DEF Statuses
      <3>5. results \in [Jobs -> Statuses \cup {None}] /\ dead_letter \subseteq Jobs
        BY DEF Placement, TypeOK
      <3>6. dead_letter' \subseteq Jobs
        BY <1>1, <3>3, <3>5
      <3>7. results' \in [Jobs -> Statuses \cup {None}]
        BY <1>1, <3>3, <3>4, <3>5
      <3> QED
        BY <3>1, <3>2, <3>6, <3>7
    <2>4. ASSUME NEW s \in Sessions
          PROVE  /\ Ordered(session_queues[s], s)
                 /\ \A k \in JobsOf(s), i \in DOMAIN session_queues[s] :
                       inflight[k] # None => k < session_queues[s][i]
      BY <2>4, DequesOrdered
    <2>5. CASE session_queues' = session_queues
      <3>1. TypeOK'
        BY <2>1, <2>2, <2>3, <2>5 DEF Placement, TypeOK
      <3>2. SessionFIFO'
        <4>1. \A s : JobsOf(s) \subseteq Jobs
          BY <1>1 DEF JobsOf
        <4> QED
          BY <4>1, <2>1, <2>2, <2>5 DEF Placement, SessionFIFO
      <3> QED
        BY <2>2, <3>1, <3>2 DEF Placement
    <2>6. CASE session_queues' = [session_queues EXCEPT ![Session(j)] = <<j>> \o @]
      <3> DEFINE t == Session(j)
      <3>1. session_queues'[t] = <<j>> \o session_queues[t]
        BY <1>1, <2>6 DEF Placement, TypeOK
      <3>2. \A s \in Sessions : s # t => session_queues'[s] = session_queues[s]
        BY <2>6 DEF Placement, TypeOK
      <3>3. j \in JobsOf(t)
        BY DEF JobsOf
      <3> HIDE DEF t
      <3>4. t \in Sessions
        BY <1>1 DEF t
      <3>5. DOMAIN session_queues[t] = 1 .. Len(session_queues[t])
        BY <2>4, <3>4 DEF Ordered
      <3>6. \A i \in 1 .. Len(session_queues[t]) : j < session_queues[t][i]
        BY <1>3, <2>4, <3>3, <3>4, <3>5
      <3>7. Ordered(session_queues'[t], t)
        BY <1>1, <2>4, <3>1, <3>3, <3>4, <3>6, ConsOrdered
      <3>8. \A s \in Sessions : Ordered(session_queues'[s], s)
        BY <2>4, <3>2, <3>7
      <3>9. session_queues' \in [Sessions -> Seq(Jobs)]
        <4>1. session_queues' = [s \in Sessions |-> session_queues'[s]]
          BY <2>6 DEF Placement, TypeOK
        <4> QED
          BY <4>1, <3>8 DEF Ordered
      <3>10. TypeOK'
        BY <2>1, <2>2, <2>3, <3>9 DEF Placement, TypeOK
      <3>11. ASSUME NEW s \in Sessions, NEW k \in JobsOf(s),
                    NEW i \in DOMAIN session_queues'[s], inflight'[k] # None
             PROVE  k < session_queues'[s][i]
        <4>1. s # t /\ k \in Jobs
          BY <1>1, <2>2, <3>11 DEF t, JobsOf
        <4> QED
          BY <4>1, <2>2, <2>4, <3>2, <3>11
      <3>12. \A s \in Sessions : DOMAIN session_queues'[s] = 1 .. Len(session_queues'[s])
        BY <3>8 DEF Ordered
      <3>13. SessionFIFO'
        BY <2>1, <3>8, <3>11, <3>12 DEF SessionFIFO, Ordered
      <3> QED
        BY <2>2, <3>10, <3>13 DEF Placement
    <2> QED
      BY <1>3, <2>5, <2>6 DEF Nack
  <1> QED
    BY <1>2, <1>3

LEMMA PlacementPins ==
    ASSUME Placement, NEW s \in Sessions,
           (\E w \in Workers : SetAccumPin(s, w)) \/ ClearAccumPin(s)
    PROVE  Placement'
  <1>1. accum_pins' \in [Sessions -> Pin \cup {None}]
    <2>1. CASE ClearAccumPin(s)
      BY <2>1 DEF ClearAccumPin, Placement, TypeOK
    <2>2. ASSUME NEW w \in Workers, SetAccumPin(s, w)
          PROVE  accum_pins' \in [Sessions -> Pin \cup {None}]
      <3>1. [owner |-> w, left |-> PinTTL] \in Pin
        BY BoundAssumption DEF Pin
      <3> QED
        BY <3>1, <2>2 DEF SetAccumPin, Placement, TypeOK
    <2> QED
      BY <2>1, <2>2
  <1>2. UNCHANGED <<submitted, session_queues, inflight_by_session, inflight,
                    pending_expired, exclusive, results, attempts, dead_letter>>
    BY DEF SetAccumPin, ClearAccumPin
  <1> QED
    BY <1>1, <1>2 DEF Placement, TypeOK, SingleInFlight, SessionFIFO,
                      Submitted, Session, JobsOf

LEMMA PlacementTick ==
    ASSUME Placement, Tick
    PROVE  /\ Placement'
           /\ \A j \in Jobs : inflight'[j] # None <=> inflight[j] # None
  <1>1. \A n, m \in Nat : n \in 0 .. m => Elapse(n) \in 0 .. m
    BY DEF Elapse
  <1>2. ASSUME NEW j \in Jobs
        PROVE  /\ inflight'[j] # None <=> inflight[j] # None
               /\ inflight'[j] \in InflightEntry \cup {None}
    <2>1. CASE inflight[j] = None
      BY <2>1 DEF Tick
    <2>2. CASE inflight[j] # None
      <3>1. inflight[j] \in InflightEntry
        BY <2>2 DEF Placement, TypeOK
      <3>2. inflight'[j] = [inflight[j] EXCEPT !.left = Elapse(@)]
        BY <2>2 DEF Tick
      <3>3. inflight'[j] \in InflightEntry
        BY <3>1, <3>2, <1>1, BoundAssumption DEF InflightEntry
      <3> QED
        BY <2>2, <3>3, NoneAssumption
    <2> QED
      BY <2>1, <2>2
  <1>3. inflight' \in [Jobs -> InflightEntry \cup {None}]
    BY <1>2 DEF Tick
  <1>4. accum_pins' \in [Sessions -> Pin \cup {None}]
    BY <1>1, BoundAssumption DEF Tick, Placement, TypeOK, Pin
  <1>5. exclusive' \in [Jobs -> 0 .. AffinityWindow]
    BY <1>1, BoundAssumption DEF Tick, Placement, TypeOK
  <1>6. UNCHANGED <<submitted, session_queues, inflight_by_session,
                    pending_expired, results, attempts, dead_letter>>
    BY DEF Tick
  <1>7. Submitted' = Submitted /\ (\A j : Session(j)' = Session(j))
        /\ (\A s : JobsOf(s)' = JobsOf(s)) /\ Submitted \subseteq Jobs
    BY <1>6, SubmittedAreJobs DEF Submitted, Session, JobsOf, Placement
  <1>8. TypeOK'
    BY <1>3, <1>4, <1>5, <1>6 DEF Placement, TypeOK
  <1>9. SingleInFlight'
    BY <1>2, <1>6, <1>7 DEF Placement, SingleInFlight, JobsOf
  <1>10. SessionFIFO'
    BY <1>2, <1>6, <1>7 DEF Placement, SessionFIFO, JobsOf
  <1> QED
    BY <1>2, <1>8, <1>9, <1>10 DEF Placement
(***************************************************************************)
(* THEOREM 1.  Whatever order acks, nacks, timeouts and pins arrive in,    *)
(* the in-flight tables agree (at most one job per session is in flight,   *)
(* memory.py:17) and every deque is in submission order behind the job in  *)
(* flight (memory.py:11).                                                  *)
(***************************************************************************)
THEOREM PlacementInvariant == Spec => [](TypeOK /\ SingleInFlight /\ SessionFIFO)
  <1>1. Init => Placement
    BY PlacementInit
  <1>2. Placement /\ [Next]_queueVars => Placement'
    <2> SUFFICES ASSUME Placement, [Next]_queueVars
                 PROVE  Placement'
      OBVIOUS
    <2>1. ASSUME NEW spec \in JobSpecs, Enqueue(spec) PROVE Placement'
      BY <2>1, PlacementEnqueue
    <2>2. ASSUME NEW w \in Workers, NEW r \in Submitted \cup {None}, Dequeue(w, r)
          PROVE  Placement'
      BY <2>2, PlacementDequeue DEF Placement
    <2>3. ASSUME NEW j \in Submitted, NEW status \in Statuses, Ack(j, status)
          PROVE  Placement'
      BY <2>3, PlacementAck
    <2>4. ASSUME NEW j \in Submitted, Nack(j) PROVE Placement'
      BY <2>4, PlacementNack
    <2>5. ASSUME NEW s \in Sessions,
                 (\E w \in Workers : SetAccumPin(s, w)) \/ ClearAccumPin(s)
          PROVE  Placement'
      BY <2>5, PlacementPins
    <2>6. CASE Tick
      BY <2>6, PlacementTick
    <2>7. CASE UNCHANGED queueVars
      BY <2>7 DEF queueVars, Placement, TypeOK, SingleInFlight, SessionFIFO,
                  Submitted, Session, JobsOf
    <2> QED
      BY <2>1, <2>2, <2>3, <2>4, <2>5, <2>6, <2>7 DEF Next
  <1> QED
    BY <1>1, <1>2, PTL DEF Spec, Placement

-----------------------------------------------------------------------------
(***************************************************************************)
(* The accounting invariants need one more fact: nothing is recorded about *)
(* a job before it is submitted.                                           *)
(***************************************************************************)
Unsubmitted ==
    \A j \in Jobs \ Submitted :
        inflight[j] = None /\ attempts[j] = 0 /\ j \notin dead_letter

Accounting == NoJobLost /\ RetryBudget /\ RunsInOrder /\ Unsubmitted

LEMMA ConsRange ==
    ASSUME NEW S, NEW q \in Seq(S), NEW e \in S
    PROVE  Range(<<e>> \o q) = {e} \cup Range(q)
  <1> DEFINE p == <<e>> \o q
  <1>1. /\ p \in Seq(S) /\ Len(p) = Len(q) + 1 /\ p[1] = e
        /\ \A i \in 1 .. Len(q) : p[i + 1] = q[i]
    BY ConsProperties
  <1>2. DOMAIN p = 1 .. Len(p) /\ DOMAIN q = 1 .. Len(q) /\ Len(q) \in Nat
    BY <1>1
  <1> HIDE DEF p
  <1>3. ASSUME NEW i \in DOMAIN p PROVE p[i] \in {e} \cup Range(q)
    <2>1. CASE i = 1
      BY <2>1, <1>1
    <2>2. CASE i # 1
      <3>1. i - 1 \in DOMAIN q /\ p[i] = q[i - 1]
        BY <2>2, <1>1, <1>2
      <3> QED
        BY <3>1 DEF Range
    <2> QED
      BY <2>1, <2>2
  <1>4. e \in Range(p)
    <2>1. 1 \in DOMAIN p
      BY <1>1, <1>2
    <2> QED
      BY <2>1, <1>1 DEF Range
  <1>5. ASSUME NEW i \in DOMAIN q PROVE q[i] \in Range(p)
    <2>1. i + 1 \in DOMAIN p /\ p[i + 1] = q[i]
      BY <1>1, <1>2
    <2> QED
      BY <2>1 DEF Range
  <1>6. Range(p) = {e} \cup Range(q)
    BY <1>3, <1>4, <1>5 DEF Range
  <1> QED
    BY <1>6 DEF p

LEMMA AppendRange ==
    ASSUME NEW S, NEW q \in Seq(S), NEW e \in S
    PROVE  Range(Append(q, e)) = Range(q) \cup {e}
  <1> DEFINE p == Append(q, e)
  <1>1. /\ DOMAIN q = 1 .. Len(q) /\ Len(q) \in Nat
        /\ Len(p) = Len(q) + 1 /\ DOMAIN p = 1 .. Len(p)
        /\ \A i \in DOMAIN q : p[i] = q[i]
        /\ p[Len(q) + 1] = e
    BY AppendProperties
  <1> HIDE DEF p
  <1>2. DOMAIN p = DOMAIN q \cup {Len(q) + 1}
    BY <1>1
  <1>3. Range(p) = Range(q) \cup {e}
    BY <1>1, <1>2 DEF Range
  <1> QED
    BY <1>3 DEF p

(***************************************************************************)
(* What dequeue moves: lapsed jobs from in flight back to their deques,    *)
(* the selected job from the front of its deque to in flight.              *)
(***************************************************************************)
LEMMA DequeueMoves ==
    ASSUME Placement, NEW w \in Workers, NEW r \in Submitted \cup {None}, Dequeue(w, r)
    PROVE  /\ \A j \in Jobs : inflight'[j] # None <=>
                 j = r \/ (inflight[j] # None /\ j \notin Expired)
           /\ \A s \in Sessions :
                 Waiting(s)' \cup {j \in {r} : r # None /\ Session(j) = s}
                   = Waiting(s) \cup ExpiredOf(s)
           /\ r # None =>
                 /\ \A k \in Waiting(Session(r))' : r < k
                 /\ \A k \in JobsOf(Session(r)) : inflight[k] = None \/ k \in Expired
  <1> USE NoneIsNoJob
  <1> DEFINE Q(s) == QueueAfterRequeue(s)
             L(s) == LockAfterRequeue(s)
  <1>1. Submitted \subseteq Jobs /\ (\A j \in Submitted : Session(j) \in Sessions)
    BY SubmittedAreJobs DEF Placement
  <1>2. ASSUME NEW s \in Sessions
        PROVE  /\ Ordered(Q(s), s)
               /\ Range(Q(s)) = Waiting(s) \cup ExpiredOf(s)
               /\ \A j \in JobsOf(s) : inflight[j] # None /\ j \notin Expired => L(s) = j
    BY <1>2, RequeueFacts
  <1>3. ASSUME r # None
        PROVE  /\ r \in Submitted /\ r \in Jobs /\ Session(r) \in Sessions
               /\ r = Head(Q(Session(r))) /\ Q(Session(r)) # <<>>
               /\ L(Session(r)) = None
    BY <1>1, <1>3, SelectedIsHead
  <1>4. ASSUME NEW s \in Sessions
        PROVE  session_queues'[s] = IF r # None /\ Session(r) = s THEN Tail(Q(s)) ELSE Q(s)
    BY <1>4 DEF Dequeue
  <1>5. [worker |-> w, left |-> VisibilityTimeout] # None
    BY NoneAssumption, BoundAssumption DEF InflightEntry
  <1>6. \A j \in Jobs : inflight'[j] # None <=>
           j = r \/ (inflight[j] # None /\ j \notin Expired)
    BY <1>5 DEF Dequeue
  <1> HIDE DEF Q, L
  <1>7. ASSUME NEW s \in Sessions
        PROVE  Waiting(s)' \cup {j \in {r} : r # None /\ Session(j) = s}
                 = Waiting(s) \cup ExpiredOf(s)
    <2>1. CASE r # None /\ Session(r) = s
      <3>1. Range(Q(s)) = {r} \cup Range(session_queues'[s])
        BY <2>1, <1>2, <1>3, <1>4, TailOrdered
      <3> QED
        BY <3>1, <2>1, <1>2 DEF Waiting
    <2>2. CASE ~ (r # None /\ Session(r) = s)
      BY <2>2, <1>2, <1>4 DEF Waiting
    <2> QED
      BY <2>1, <2>2
  <1>8. ASSUME r # None
        PROVE  \A k \in Waiting(Session(r))' : r < k
    <2> DEFINE t == Tail(Q(Session(r)))
    <2>1. \A i \in DOMAIN t : r < t[i]
      BY <1>2, <1>3, <1>8, TailOrdered
    <2>2. session_queues'[Session(r)] = t
      BY <1>3, <1>4, <1>8
    <2>3. submitted' = submitted
      BY DEF Dequeue
    <2>4. Waiting(Session(r))' = Range(t)
      BY <2>2, <2>3 DEF Waiting, Session
    <2> QED
      BY <2>1, <2>4 DEF Range
  <1>9. ASSUME r # None
        PROVE  \A k \in JobsOf(Session(r)) : inflight[k] = None \/ k \in Expired
    BY <1>1, <1>2, <1>3, <1>9 DEF JobsOf
  <1> QED
    BY <1>6, <1>7, <1>8, <1>9

LEMMA AccountingInit == Init => Accounting
  BY BoundAssumption DEF Init, Accounting, NoJobLost, RetryBudget, RunsInOrder,
                         Unsubmitted, Submitted

(***************************************************************************)
(* When a step submits nothing, the accounting invariants only depend on   *)
(* which jobs may still run, in flight or waiting.                         *)
(***************************************************************************)
MayRun(j) == inflight[j] # None \/ j \in Waiting(Session(j))

LEMMA AccountingByMayRun ==
    ASSUME Accounting, submitted' = submitted, Submitted \subseteq Jobs,
           \A j \in Submitted : MayRun(j)' => MayRun(j),
           \A j \in Submitted : MayRun(j) => MayRun(j)' \/ results'[j] # None,
           \A j \in Submitted : results[j] # None => results'[j] # None,
           \A j \in Submitted : MayRun(j)' => attempts'[j] < MaxAttempts /\ j \notin dead_letter',
           \A j \in Submitted : j \in dead_letter' => j \in dead_letter \/ results'[j] # None,
           \A j \in Submitted : inflight'[j] # None =>
               \/ inflight[j] # None
               \/ \A k \in JobsOf(Session(j)) : k < j => results'[k] # None,
           \A j \in Jobs \ Submitted : /\ inflight'[j] = inflight[j]
                                       /\ attempts'[j] = attempts[j]
                                       /\ j \in dead_letter' => j \in dead_letter
    PROVE  Accounting'
  <1>1. /\ Submitted' = Submitted /\ (\A j : Session(j)' = Session(j))
        /\ (\A s : JobsOf(s)' = JobsOf(s))
    BY DEF Submitted, Session, JobsOf
  <1>2. NoJobLost'
    <2>1. \A j \in Submitted : MayRun(j)' \/ results'[j] # None
      BY DEF Accounting, NoJobLost, MayRun
    <2> QED
      BY <1>1, <2>1 DEF NoJobLost, MayRun
  <1>3. RetryBudget'
    <2>1. \A j \in Submitted : j \in dead_letter' => results'[j] # None
      BY DEF Accounting, RetryBudget
    <2> QED
      BY <1>1, <2>1 DEF RetryBudget, MayRun
  <1>4. RunsInOrder'
    <2> SUFFICES ASSUME NEW j \in Submitted, inflight'[j] # None,
                        NEW k \in JobsOf(Session(j)), k < j
                 PROVE  results'[k] # None
      BY <1>1 DEF RunsInOrder, JobsOf, Submitted, Session
    <2>1. k \in Submitted
      BY DEF JobsOf
    <2> QED
      BY <2>1 DEF Accounting, RunsInOrder
  <1>5. Unsubmitted'
    BY <1>1 DEF Accounting, Unsubmitted
  <1> QED
    BY <1>2, <1>3, <1>4, <1>5 DEF Accounting

LEMMA AccountingDequeue ==
    ASSUME Placement, Accounting, NEW w \in Workers,
           NEW r \in Submitted \cup {None}, Dequeue(w, r)
    PROVE  Accounting'
  <1> USE NoneIsNoJob
  <1>1. Submitted \subseteq Jobs /\ (\A j \in Submitted : Session(j) \in Sessions)
    BY SubmittedAreJobs DEF Placement
  <1>2. /\ submitted' = submitted
        /\ results' = results /\ attempts' = attempts /\ dead_letter' = dead_letter
        /\ (\A j : Session(j)' = Session(j))
    BY DEF Dequeue, Session
  <1>3. \A j \in Jobs : inflight'[j] # None <=>
           j = r \/ (inflight[j] # None /\ j \notin Expired)
    BY DequeueMoves
  <1>4. ASSUME NEW j \in Submitted, NEW s \in Sessions, Session(j) = s
        PROVE  /\ MayRun(j)' <=> inflight'[j] # None \/ j \in Waiting(s)'
               /\ j \in Waiting(s)' \/ j = r <=> j \in Waiting(s) \/ j \in Expired \/ j = r
               /\ j \in Waiting(s)' => j \in Waiting(s) \/ j \in Expired
               /\ j = r => MayRun(j)
    <2>1. Waiting(s)' \cup {k \in {r} : r # None /\ Session(k) = s}
            = Waiting(s) \cup ExpiredOf(s)
      BY DequeueMoves
    <2>2. MayRun(j)' <=> inflight'[j] # None \/ j \in Waiting(s)'
      BY <1>2, <1>4 DEF MayRun, Waiting
    <2>3. j \in ExpiredOf(s) <=> j \in Expired
      BY <1>4 DEF ExpiredOf
    <2>4. j \in Expired => inflight[j] # None
      BY DEF Expired
    <2> QED
      BY <2>1, <2>2, <2>3, <2>4, <1>1, <1>4 DEF MayRun
  <1>5. ASSUME NEW j \in Submitted
        PROVE  MayRun(j)' <=> MayRun(j)
    <2>1. \E s \in Sessions : Session(j) = s
      BY <1>1
    <2>2. PICK s \in Sessions : Session(j) = s
      BY <2>1
    <2>3. j \in Expired => inflight[j] # None
      BY DEF Expired
    <2> QED
      BY <1>1, <1>3, <1>4, <2>2, <2>3 DEF MayRun
  <1>6. ASSUME r # None, NEW k \in JobsOf(Session(r)), k < r
        PROVE  results[k] # None
    <2>1. /\ \A i \in Waiting(Session(r))' : r < i
          /\ inflight[k] = None \/ k \in Expired
      BY <1>6, DequeueMoves
    <2>2. k \in Submitted /\ Session(k) = Session(r) /\ k \in Nat /\ r \in Nat
      BY <1>1, <1>6 DEF JobsOf, Jobs
    <2>3. \E s \in Sessions : Session(r) = s
      BY <1>1, <1>6
    <2>4. PICK s \in Sessions : Session(r) = s
      BY <2>3
    <2>5. \A i \in Waiting(s)' : r < i
      BY <2>1, <2>4, <1>2 DEF Waiting
    <2>6. k \notin Waiting(s)' /\ k # r
      BY <2>2, <2>5, <1>6
    <2>7. k \notin Waiting(s) /\ k \notin Expired
      BY <2>2, <2>4, <2>6, <1>4
    <2> QED
      BY <2>1, <2>2, <2>4, <2>7 DEF Accounting, NoJobLost
  <1>7. \A j \in Submitted : inflight'[j] # None =>
           inflight[j] # None \/ \A k \in JobsOf(Session(j)) : k < j => results'[k] # None
    BY <1>1, <1>2, <1>3, <1>6
  <1>8. \A j \in Jobs \ Submitted : inflight'[j] = inflight[j]
    <2>1. ASSUME NEW j \in Jobs \ Submitted PROVE inflight'[j] = inflight[j]
      BY <1>3 DEF Accounting, Unsubmitted
    <2> QED
      BY <2>1
  <1>9. \A j \in Submitted : MayRun(j)' => attempts'[j] < MaxAttempts /\ j \notin dead_letter'
    BY <1>2, <1>5 DEF Accounting, RetryBudget, MayRun
  <1> HIDE DEF MayRun
  <1> QED
    BY <1>1, <1>2, <1>5, <1>7, <1>8, <1>9, AccountingByMayRun

LEMMA AccountingEnqueue ==
    ASSUME Placement, Accounting, NEW spec \in JobSpecs, Enqueue(spec)
    PROVE  Accounting'
  <1> USE NoneIsNoJob
  <1> DEFINE id == Len(submitted) + 1
             t == spec.session
  <1>1. /\ submitted \in Seq(QueuedJob) /\ Len(submitted) \in Nat
        /\ Submitted = 1 .. Len(submitted) /\ Submitted \subseteq Jobs
        /\ \A j \in Submitted : Session(j) \in Sessions
    BY SubmittedAreJobs DEF Placement, TypeOK
  <1>2. spec \in QueuedJob /\ t \in Sessions /\ id \in Jobs /\ id \in Nat
    BY <1>1, JobSpecsAssumption DEF QueuedJob, Enqueue
  <1>3. /\ Submitted' = Submitted \cup {id} /\ id \notin Submitted
        /\ \A j \in Submitted : submitted'[j] = submitted[j] /\ j < id
        /\ submitted'[id] = spec
    BY <1>1, <1>2 DEF Enqueue, Submitted
  <1>4. /\ \A j \in Submitted : Session(j)' = Session(j)
        /\ \A j : j = id => Session(j)' = t
    BY <1>3 DEF Session
  <1>5. UNCHANGED <<inflight, results, attempts, dead_letter>>
    BY DEF Enqueue
  <1>6. inflight[id] = None /\ attempts[id] = 0 /\ id \notin dead_letter
    BY <1>2, <1>3 DEF Accounting, Unsubmitted
  <1>7. ASSUME NEW s \in Sessions
        PROVE  Range(session_queues'[s]) =
                 IF s = t THEN Waiting(s) \cup {id} ELSE Waiting(s)
    <2>1. session_queues[s] \in Seq(Jobs)
      BY DEF Placement, TypeOK
    <2>2. session_queues'[s] = IF s = t THEN Append(session_queues[s], id) ELSE session_queues[s]
      BY <1>2 DEF Enqueue, Placement, TypeOK
    <2> HIDE DEF id, t
    <2>3. Range(Append(session_queues[s], id)) = Range(session_queues[s]) \cup {id}
      BY <2>1, <1>2, AppendRange
    <2> QED
      BY <2>2, <2>3 DEF Waiting
  <1> HIDE DEF id, t
  <1>8. ASSUME NEW j \in Submitted
        PROVE  /\ Waiting(Session(j))' = Range(session_queues'[Session(j)])
               /\ j \in Waiting(Session(j))' <=> j \in Waiting(Session(j))
    <2>1. Waiting(Session(j))' = Range(session_queues'[Session(j)])
      BY <1>4 DEF Waiting
    <2>2. \E s \in Sessions : s = Session(j)
      BY <1>1
    <2> QED
      BY <2>1, <2>2, <1>3, <1>7
  <1>9. \A j : j = id => j \in Waiting(Session(j))'
    <2>1. id \in Range(session_queues'[t])
      BY <1>2, <1>7
    <2> QED
      BY <2>1, <1>4 DEF Waiting
  <1>10. NoJobLost'
    BY <1>3, <1>5, <1>8, <1>9 DEF Accounting, NoJobLost
  <1>11. RetryBudget'
    BY <1>3, <1>5, <1>6, <1>8, BoundAssumption DEF Accounting, RetryBudget
  <1>12. RunsInOrder'
    <2> SUFFICES ASSUME NEW j \in Submitted', inflight'[j] # None,
                        NEW k \in Submitted', Session(k)' = Session(j)', k < j
                 PROVE  results'[k] # None
      BY DEF RunsInOrder, JobsOf
    <2>1. j \in Submitted
      BY <1>3, <1>5, <1>6
    <2>2. k \in Submitted
      BY <2>1, <1>1, <1>2, <1>3
    <2> QED
      BY <2>1, <2>2, <1>4, <1>5 DEF Accounting, RunsInOrder, JobsOf
  <1>13. Unsubmitted'
    BY <1>3, <1>5 DEF Accounting, Unsubmitted
  <1> QED
    BY <1>10, <1>11, <1>12, <1>13 DEF Accounting

LEMMA AccountingAck ==
    ASSUME Placement, Accounting, NEW j \in Submitted, NEW status \in Statuses,
           Ack(j, status)
    PROVE  Accounting'
  <1>1. Submitted \subseteq Jobs
    BY SubmittedAreJobs DEF Placement
  <1>2. submitted' = submitted /\ dead_letter' = dead_letter
        /\ (\A k : Session(k)' = Session(k)) /\ (\A k : Waiting(Session(k))' = Waiting(Session(k)))
    BY DEF Ack, Session, Waiting
  <1>3. \A k \in Jobs : inflight'[k] # None => inflight[k] # None
    <2>1. CASE inflight[j] # None
      BY <2>1, <1>2, DropInflightKeepsTables DEF Ack
    <2>2. CASE inflight[j] = None
      BY <2>2 DEF Ack
    <2> QED
      BY <2>1, <2>2
  <1>4. \A k \in Jobs : k # j => inflight'[k] = inflight[k]
    BY DEF Ack, DropInflight, Placement, TypeOK
  <1>5. \A k \in Jobs : results'[k] = IF k = j THEN status ELSE results[k]
    BY DEF Ack, Placement, TypeOK
  <1>6. \A k \in Jobs : attempts'[k] = IF k = j THEN 0 ELSE attempts[k]
    BY DEF Ack, Placement, TypeOK
  <1>7. status # None
    BY NoneAssumption
  <1>8. \A k \in Submitted : MayRun(k)' => MayRun(k)
    BY <1>1, <1>2, <1>3 DEF MayRun
  <1>9. \A k \in Submitted : MayRun(k) => MayRun(k)' \/ results'[k] # None
    BY <1>1, <1>2, <1>4, <1>5, <1>7 DEF MayRun
  <1>10. \A k \in Submitted : MayRun(k)' => attempts'[k] < MaxAttempts /\ k \notin dead_letter'
    BY <1>1, <1>2, <1>6, <1>8, BoundAssumption DEF Accounting, RetryBudget, MayRun
  <1> HIDE DEF MayRun
  <1> QED
    BY <1>1, <1>2, <1>3, <1>4, <1>5, <1>6, <1>7, <1>8, <1>9, <1>10, AccountingByMayRun

LEMMA AccountingNack ==
    ASSUME Placement, Accounting, NEW j \in Submitted, Nack(j)
    PROVE  Accounting'
  <1> USE NoneIsNoJob
  <1>1. Submitted \subseteq Jobs /\ j \in Jobs /\ Session(j) \in Sessions
        /\ (\A k \in Submitted : Session(k) \in Sessions)
    BY SubmittedAreJobs DEF Placement
  <1>2. submitted' = submitted /\ (\A k : Session(k)' = Session(k))
        /\ (\A k : Waiting(Session(k))' = Range(session_queues'[Session(k)]))
    BY DEF Nack, queueVars, DropInflight, Session, Waiting
  <1>3. CASE inflight[j] = None
    <2>1. UNCHANGED queueVars
      BY <1>3 DEF Nack
    <2> QED
      BY <2>1 DEF queueVars, Accounting, NoJobLost, RetryBudget, RunsInOrder,
                  Unsubmitted, Waiting, Session, JobsOf, Submitted
  <1>4. CASE inflight[j] # None
    <2>1. inflight'[j] = None /\ \A k \in Jobs : inflight'[k] # None => inflight[k] # None
      BY <1>2, <1>4, DropInflightKeepsTables DEF Nack
    <2>2. \A k \in Jobs : k # j => inflight'[k] = inflight[k]
      BY <1>4 DEF Nack, DropInflight, Placement, TypeOK
    <2>3. \A k \in Jobs : attempts'[k] = IF k = j THEN attempts[j] + 1 ELSE attempts[k]
      BY <1>4 DEF Nack, Placement, TypeOK
    <2>4. MayRun(j) /\ j \notin dead_letter
      BY <1>4 DEF MayRun, Accounting, RetryBudget
    <2>5. CASE attempts[j] + 1 >= MaxAttempts \/ j \notin pending_expired
      <3>1. /\ dead_letter' \subseteq dead_letter \cup {j}
            /\ \A k \in Jobs : results'[k] = IF k = j THEN "failed" ELSE results[k]
            /\ session_queues' = session_queues
        BY <1>4, <2>5 DEF Nack, Placement, TypeOK
      <3>2. "failed" # None
        BY NoneAssumption DEF Statuses
      <3>3. \A k : Waiting(Session(k))' = Waiting(Session(k))
        BY <3>1, <1>2 DEF Waiting
      <3>4. j \notin Waiting(Session(j))
        <4>1. j \in JobsOf(Session(j))
          BY DEF JobsOf
        <4>2. \A i \in DOMAIN session_queues[Session(j)] : j < session_queues[Session(j)][i]
          BY <1>1, <1>4, <4>1, DequesOrdered
        <4>3. j \in Nat
          BY <1>1 DEF Jobs
        <4> QED
          BY <4>2, <4>3 DEF Waiting, Range
      <3>5. \A k \in Submitted : MayRun(k)' => MayRun(k) /\ k # j
        BY <1>1, <2>1, <3>3, <3>4 DEF MayRun
      <3>6. \A k \in Submitted : MayRun(k) => MayRun(k)' \/ results'[k] # None
        BY <1>1, <2>2, <3>1, <3>2, <3>3 DEF MayRun
      <3>7. \A k \in Submitted : MayRun(k)' => attempts'[k] < MaxAttempts /\ k \notin dead_letter'
        BY <1>1, <2>3, <3>1, <3>5 DEF Accounting, RetryBudget, MayRun
      <3> HIDE DEF MayRun
      <3> QED
        BY <1>1, <1>2, <2>1, <2>2, <2>3, <3>1, <3>2, <3>5, <3>6, <3>7, AccountingByMayRun
    <2>6. CASE ~ (attempts[j] + 1 >= MaxAttempts \/ j \notin pending_expired)
      <3>1. dead_letter' = dead_letter /\ results' = results
            /\ session_queues' = [session_queues EXCEPT ![Session(j)] = <<j>> \o @]
        BY <1>4, <2>6 DEF Nack
      <3>2. \A s \in Sessions : session_queues'[s] =
               IF s = Session(j) THEN <<j>> \o session_queues[s] ELSE session_queues[s]
        BY <1>1, <3>1 DEF Placement, TypeOK
      <3>3. \A s \in Sessions : Range(session_queues'[s]) =
               IF s = Session(j) THEN {j} \cup Waiting(s) ELSE Waiting(s)
        <4> SUFFICES ASSUME NEW s \in Sessions
                     PROVE  Range(session_queues'[s]) =
                              IF s = Session(j) THEN {j} \cup Waiting(s) ELSE Waiting(s)
          OBVIOUS
        <4>1. session_queues[s] \in Seq(Jobs)
          BY DEF Placement, TypeOK
        <4> QED
          BY <4>1, <3>2, <1>1, ConsRange DEF Waiting
      <3>4. \A k \in Submitted : k \in Waiting(Session(k))' <=> k = j \/ k \in Waiting(Session(k))
        BY <1>1, <1>2, <3>3
      <3>5. \A k \in Submitted : MayRun(k)' <=> MayRun(k)
        BY <1>1, <2>1, <2>2, <2>4, <3>4 DEF MayRun
      <3>6. attempts[j] + 1 < MaxAttempts
        BY <1>1, <2>6, BoundAssumption DEF Placement, TypeOK
      <3>7. \A k \in Submitted : MayRun(k)' => attempts'[k] < MaxAttempts /\ k \notin dead_letter'
        BY <1>1, <2>3, <2>4, <3>1, <3>5, <3>6 DEF Accounting, RetryBudget, MayRun
      <3> HIDE DEF MayRun
      <3> QED
        BY <1>1, <1>2, <2>1, <2>2, <2>3, <3>1, <3>5, <3>7, AccountingByMayRun
    <2> QED
      BY <2>5, <2>6
  <1> QED
    BY <1>3, <1>4

LEMMA AccountingOther ==
    ASSUME Placement, Accounting,
           UNCHANGED <<submitted, session_queues, results, attempts, dead_letter>>,
           \A j \in Jobs : inflight'[j] # None <=> inflight[j] # None
    PROVE  Accounting'
  <1>1. Submitted \subseteq Jobs
    BY SubmittedAreJobs DEF Placement
  <1>2. /\ Submitted' = Submitted /\ (\A j : Session(j)' = Session(j))
        /\ (\A j : Waiting(Session(j))' = Waiting(Session(j)))
        /\ (\A s : JobsOf(s)' = JobsOf(s))
    BY DEF Submitted, Session, Waiting, JobsOf
  <1>3. NoJobLost'
    BY <1>1, <1>2 DEF Accounting, NoJobLost
  <1>4. RetryBudget'
    BY <1>1, <1>2 DEF Accounting, RetryBudget
  <1>5. RunsInOrder'
    <2>1. \A j : JobsOf(Session(j))' = JobsOf(Session(j))
      BY DEF Submitted, Session, JobsOf
    <2> QED
      BY <1>1, <1>2, <2>1 DEF Accounting, RunsInOrder
  <1>6. Unsubmitted'
    BY <1>2 DEF Accounting, Unsubmitted
  <1> QED
    BY <1>3, <1>4, <1>5, <1>6 DEF Accounting

LEMMA InductiveInvariant == Spec => [](Placement /\ Accounting)
  <1>1. Init => Accounting
    BY AccountingInit
  <1>2. Placement /\ Accounting /\ [Next]_queueVars => Accounting'
    <2> SUFFICES ASSUME Placement, Accounting, [Next]_queueVars
                 PROVE  Accounting'
      OBVIOUS
    <2>1. ASSUME NEW spec \in JobSpecs, Enqueue(spec) PROVE Accounting'
      BY <2>1, AccountingEnqueue
    <2>2. ASSUME NEW w \in Workers, NEW r \in Submitted \cup {None}, Dequeue(w, r)
          PROVE  Accounting'
      BY <2>2, AccountingDequeue
    <2>3. ASSUME NEW j \in Submitted, NEW status \in Statuses, Ack(j, status)
          PROVE  Accounting'
      BY <2>3, AccountingAck
    <2>4. ASSUME NEW j \in Submitted, Nack(j) PROVE Accounting'
      BY <2>4, AccountingNack
    <2>5. ASSUME NEW s \in Sessions,
                 (\E w \in Workers : SetAccumPin(s, w)) \/ ClearAccumPin(s)
          PROVE  Accounting'
      BY <2>5, AccountingOther DEF SetAccumPin, ClearAccumPin
    <2>6. CASE Tick
      BY <2>6, PlacementTick, AccountingOther DEF Tick
    <2>7. CASE UNCHANGED queueVars
      BY <2>7, AccountingOther DEF queueVars
    <2> QED
      BY <2>1, <2>2, <2>3, <2>4, <2>5, <2>6, <2>7 DEF Next
  <1>3. Spec => []Placement
    BY PlacementInvariant, PTL DEF Placement
  <1> QED
    BY <1>1, <1>2, <1>3, PTL DEF Spec

(***************************************************************************)
(* THEOREM 2.  No accepted job is lost, retries stay within their budget   *)
(* and jobs of a session run in submission order, for every schedule of    *)
(* acks, nacks and timeouts, including those of workers that no longer own *)
(* the job they report.                                                    *)
(***************************************************************************)
THEOREM AccountingInvariant == Spec => [](NoJobLost /\ RetryBudget /\ RunsInOrder)
  BY InductiveInvariant, PTL DEF Accounting

(* What enqueue accepted is waiting, in flight or has a result, at any time (memory.py:110). *)
THEOREM NoAcceptedJobIsLost == Spec => []NoJobLost
  BY AccountingInvariant, PTL

(* No job goes back to the queue after the nack that uses its budget up, and a dead letter is *)
(* answered and final (memory.py:266-280); redeliveries after a visibility timeout count as   *)
(* no attempt.                                                                                *)
THEOREM RetriesStayInBudget == Spec => []RetryBudget
  BY AccountingInvariant, PTL

-----------------------------------------------------------------------------
(***************************************************************************)
(* The session of every submission, as the dispatcher's order.             *)
(***************************************************************************)
Order == [j \in Submitted |-> Session(j)]

LEMMA OrderIsSequence ==
    ASSUME TypeOK
    PROVE  /\ Order \in Seq(Sessions)
           /\ Len(Order) = Len(submitted)
           /\ DOMAIN Order = Submitted
           /\ \A j \in Submitted : Order[j] = Session(j)
  <1>1. /\ Submitted = 1 .. Len(submitted) /\ Len(submitted) \in Nat
        /\ \A j \in Submitted : Session(j) \in Sessions
    BY SubmittedAreJobs
  <1>2. Order \in [1 .. Len(submitted) -> Sessions]
    BY <1>1 DEF Order
  <1>3. Order \in Seq(Sessions) /\ Len(Order) = Len(submitted)
    BY <1>1, <1>2
  <1> QED
    BY <1>1, <1>3 DEF Order

LEMMA DispatchEnqueue ==
    ASSUME Placement, Placement', NEW spec \in JobSpecs, Enqueue(spec)
    PROVE  Dispatcher!Submit(spec.session)
  <1>1. Order' = Append(Order, spec.session)
    <2>1. /\ Order \in Seq(Sessions) /\ Len(Order) = Len(submitted)
          /\ DOMAIN Order = Submitted
          /\ \A j \in Submitted : Order[j] = Session(j)
      BY OrderIsSequence DEF Placement
    <2>2. /\ submitted \in Seq(QueuedJob) /\ Len(submitted) \in Nat
          /\ Submitted = 1 .. Len(submitted)
      BY SubmittedAreJobs DEF Placement, TypeOK
    <2>3. spec \in QueuedJob /\ spec.session \in Sessions
      BY JobSpecsAssumption DEF QueuedJob
    <2>4. /\ Submitted' = 1 .. Len(submitted) + 1
          /\ \A j \in Submitted : submitted'[j] = submitted[j]
          /\ submitted'[Len(submitted) + 1] = spec
      BY <2>2, <2>3 DEF Enqueue, Submitted
    <2>5. Order' = [j \in 1 .. Len(submitted) + 1 |-> submitted'[j].session]
      BY <2>4 DEF Order, Session
    <2>6. Append(Order, spec.session) =
            [j \in 1 .. Len(submitted) + 1 |-> submitted'[j].session]
      <3> DEFINE p == Append(Order, spec.session)
                 o == [j \in 1 .. Len(submitted) + 1 |-> submitted'[j].session]
      <3>1. /\ p \in Seq(Sessions)
            /\ Len(p) = Len(submitted) + 1
            /\ DOMAIN p = 1 .. Len(p)
            /\ \A j \in Submitted : p[j] = Order[j]
            /\ p[Len(submitted) + 1] = spec.session
        BY <2>1, <2>3, AppendProperties
      <3>2. \A j \in 1 .. Len(submitted) + 1 : p[j] = submitted'[j].session
        BY <3>1, <2>1, <2>2, <2>4 DEF Session
      <3>3. p = [j \in DOMAIN p |-> p[j]]
        BY <3>1
      <3> HIDE DEF p
      <3>4. p = o
        BY <3>1, <3>2, <3>3
      <3> QED
        BY <3>4 DEF p
    <2> QED
      BY <2>5, <2>6
  <1>2. Len(Order) = Len(submitted)
    BY OrderIsSequence DEF Placement
  <1>3. Len(submitted) + 1 \in Jobs /\ inflight_by_session' = inflight_by_session
        /\ results' = results
    BY DEF Enqueue
  <1> QED
    BY <1>1, <1>2, <1>3 DEF Dispatcher!Submit, Order

LEMMA DispatchDequeue ==
    ASSUME Placement, Accounting, Placement', Accounting', NEW w \in Workers,
           NEW r \in Submitted \cup {None}, Dequeue(w, r)
    PROVE  Dispatcher!Lapse \/ (r \in Jobs /\ Dispatcher!Grant(r))
  <1> USE NoneIsNoJob
  <1> DEFINE lapsing == {s \in Sessions : LockAfterRequeue(s) = None}
             freed == [s \in Sessions |-> IF s \in lapsing THEN None ELSE inflight_by_session[s]]
  <1>1. Submitted \subseteq Jobs /\ (\A j \in Submitted : Session(j) \in Sessions)
    BY SubmittedAreJobs DEF Placement
  <1>2. \A s \in Sessions : freed[s] = LockAfterRequeue(s)
    BY DEF LockAfterRequeue
  <1>3. Order' = Order /\ results' = results
    BY DEF Order, Dequeue, Submitted, Session
  <1>4. lapsing \in SUBSET Sessions
    OBVIOUS
  <1>5. CASE r = None
    <2>1. inflight_by_session' = freed
      BY <1>5, <1>2 DEF Dequeue
    <2> QED
      BY <2>1, <1>3, <1>4 DEF Dispatcher!Lapse, Order
  <1>6. CASE r # None
    <2>1. r \in Submitted /\ Session(r) \in Sessions /\ LockAfterRequeue(Session(r)) = None
      BY <1>1, <1>6, SelectedIsHead
    <2>2. inflight_by_session' = [freed EXCEPT ![Session(r)] = r]
      BY <1>2, <1>6, <2>1 DEF Dequeue
    <2>3. Order[r] = Session(r) /\ DOMAIN Order = Submitted
      BY <2>1, OrderIsSequence DEF Placement
    <2>4. freed[Session(r)] = None
      BY <1>2, <2>1
    <2>5. inflight'[r] # None /\ r \in Submitted' /\ Session(r)' = Session(r)
      <3>1. r \in Jobs
        BY <1>1, <2>1
      <3> QED
        BY <3>1, <2>1, DequeueMoves DEF Dequeue, Submitted, Session
    <2>6. \A k \in 1 .. (r - 1) : Order[k] = Order[r] => results[k] # None
      <3> SUFFICES ASSUME NEW k \in 1 .. (r - 1), Order[k] = Order[r]
                   PROVE  results[k] # None
        OBVIOUS
      <3>1. Submitted = 1 .. Len(submitted) /\ Len(submitted) \in Nat
        BY SubmittedAreJobs DEF Placement
      <3>2. k \in Submitted /\ k < r
        BY <3>1, <2>1
      <3>3. Session(k) = Session(r)
        BY <3>2, <2>1, OrderIsSequence DEF Placement
      <3>4. k \in JobsOf(Session(r))
        BY <3>2, <3>3 DEF JobsOf
      <3>5. submitted' = submitted
        BY DEF Dequeue
      <3>6. JobsOf(Session(r))' = JobsOf(Session(r))
        BY <3>5 DEF JobsOf, Session, Submitted
      <3> QED
        BY <2>5, <3>2, <3>4, <3>6, <1>3 DEF Accounting, RunsInOrder
    <2> HIDE DEF lapsing
    <2>7. \E l \in SUBSET Sessions :
             LET f == [s \in Sessions |-> IF s \in l THEN None ELSE inflight_by_session[s]]
             IN  /\ r \in DOMAIN Order
                 /\ f[Order[r]] = None
                 /\ \A k \in 1 .. (r - 1) : Order[k] = Order[r] => results[k] # None
                 /\ inflight_by_session' = [f EXCEPT ![Order[r]] = r]
                 /\ UNCHANGED <<Order, results>>
      <3> WITNESS lapsing \in SUBSET Sessions
      <3> QED
        BY <1>3, <2>1, <2>2, <2>3, <2>4, <2>6
    <2> QED
      BY <1>1, <2>1, <2>7 DEF Dispatcher!Grant, Dispatcher!EarlierAnswered, Order
  <1> QED
    BY <1>5, <1>6

(* Freeing the session of an in-flight job is what an answer or a lapse does. *)
LEMMA DropInflightFrees ==
    ASSUME Placement, NEW j \in Submitted, inflight[j] # None, DropInflight(j)
    PROVE  /\ inflight_by_session[Session(j)] = j
           /\ inflight_by_session' = [inflight_by_session EXCEPT ![Session(j)] = None]
  <1>1. Submitted \subseteq Jobs
    BY SubmittedAreJobs DEF Placement
  <1> QED
    BY <1>1 DEF DropInflight, Placement, SingleInFlight

LEMMA DispatchAnswer ==
    ASSUME Placement, NEW j \in Submitted, NEW status \in Statuses,
           results' = [results EXCEPT ![j] = status], submitted' = submitted,
           IF inflight[j] # None THEN DropInflight(j)
                                 ELSE inflight_by_session' = inflight_by_session
    PROVE  Dispatcher!Answer(j, status)
  <1> USE NoneIsNoJob
  <1>1. Submitted \subseteq Jobs /\ Session(j) \in Sessions
    BY SubmittedAreJobs DEF Placement
  <1>2. Order' = Order
    BY DEF Order, Submitted, Session
  <1>3. Order[j] = Session(j) /\ j \in DOMAIN Order
    BY OrderIsSequence DEF Placement
  <1>4. inflight_by_session' = [inflight_by_session EXCEPT
           ![Session(j)] = IF inflight_by_session[Session(j)] = j THEN None
                           ELSE inflight_by_session[Session(j)]]
    <2>1. CASE inflight[j] # None
      BY <2>1, DropInflightFrees
    <2>2. CASE inflight[j] = None
      <3>1. inflight_by_session[Session(j)] # j
        BY <1>1, <2>2 DEF Placement, SingleInFlight
      <3>2. inflight_by_session \in [Sessions -> Jobs \cup {None}]
        BY DEF Placement, TypeOK
      <3> QED
        BY <1>1, <2>2, <3>1, <3>2
    <2> QED
      BY <2>1, <2>2
  <1> QED
    BY <1>2, <1>3, <1>4 DEF Dispatcher!Answer, Order

LEMMA DispatchNack ==
    ASSUME Placement, NEW j \in Submitted, Nack(j)
    PROVE  \/ Dispatcher!Lapse
           \/ \E status \in Statuses : Dispatcher!Answer(j, status)
           \/ UNCHANGED <<Order, inflight_by_session, results>>
  <1>1. Order' = Order /\ submitted' = submitted
    BY DEF Nack, queueVars, DropInflight, Order, Submitted, Session
  <1>2. CASE inflight[j] = None
    BY <1>1, <1>2 DEF Nack, queueVars
  <1>3. CASE inflight[j] # None
    <2>1. DropInflight(j)
      BY <1>3 DEF Nack
    <2>2. CASE results' = [results EXCEPT ![j] = "failed"]
      <3>1. "failed" \in Statuses
        BY DEF Statuses
      <3>2. Dispatcher!Answer(j, "failed")
        BY <1>1, <1>3, <2>1, <2>2, <3>1, DispatchAnswer
      <3> QED
        BY <3>1, <3>2
    <2>3. CASE results' = results
      <3> DEFINE lapsing == {Session(j)}
      <3>1. Session(j) \in Sessions
        BY SubmittedAreJobs DEF Placement
      <3>2. inflight_by_session' =
              [s \in Sessions |-> IF s \in lapsing THEN None ELSE inflight_by_session[s]]
        BY <1>3, <2>1, <3>1, DropInflightFrees DEF Placement, TypeOK
      <3>3. lapsing \in SUBSET Sessions
        BY <3>1
      <3> QED
        BY <1>1, <2>3, <3>2, <3>3 DEF Dispatcher!Lapse, Order
    <2> QED
      BY <1>3, <2>2, <2>3 DEF Nack
  <1> QED
    BY <1>2, <1>3

(***************************************************************************)
(* THEOREM 3.  The queue implements the session dispatcher: whatever its   *)
(* callers do, jobs of a session are handed out one at a time, in order,   *)
(* each after every earlier one was answered, and answers are not revoked. *)
(***************************************************************************)
THEOREM ImplementsDispatcher == Spec => ImplementsDispatch
  <1>1. Init => Dispatcher!DispatchInit
    <2> SUFFICES ASSUME Init PROVE Dispatcher!DispatchInit
      OBVIOUS
    <2>1. Order = <<>>
      <3>1. TypeOK /\ Len(submitted) = 0
        BY PlacementInit DEF Placement, Init
      <3>2. Order \in Seq(Sessions) /\ Len(Order) = 0
        BY <3>1, OrderIsSequence
      <3> QED
        BY <3>2
    <2> QED
      BY <2>1 DEF Dispatcher!DispatchInit, Init, Order
  <1>2. Placement /\ Placement' /\ Accounting /\ Accounting' /\ [Next]_queueVars
          => [Dispatcher!DispatchNext]_(Dispatcher!dispatchVars)
    <2> SUFFICES ASSUME Placement, Placement', Accounting, Accounting', [Next]_queueVars
                 PROVE  Dispatcher!DispatchNext \/ UNCHANGED <<Order, inflight_by_session, results>>
      BY DEF Dispatcher!dispatchVars, Order
    <2> USE DEF Dispatcher!DispatchNext
    <2>1. ASSUME NEW spec \in JobSpecs, Enqueue(spec) PROVE Dispatcher!DispatchNext
      <3>1. spec.session \in Sessions
        BY JobSpecsAssumption DEF QueuedJob
      <3> QED
        BY <2>1, <3>1, DispatchEnqueue
    <2>2. ASSUME NEW w \in Workers, NEW r \in Submitted \cup {None}, Dequeue(w, r)
          PROVE  Dispatcher!DispatchNext
      <3>1. Dispatcher!Lapse \/ (r \in Jobs /\ Dispatcher!Grant(r))
        BY <2>2, DispatchDequeue
      <3> QED
        BY <3>1
    <2>3. ASSUME NEW j \in Submitted, NEW status \in Statuses, Ack(j, status)
          PROVE  Dispatcher!DispatchNext
      <3>1. j \in Jobs
        BY SubmittedAreJobs DEF Placement
      <3>2. Dispatcher!Answer(j, status)
        BY <2>3, DispatchAnswer DEF Ack
      <3> QED
        BY <3>1, <3>2
    <2>4. ASSUME NEW j \in Submitted, Nack(j)
          PROVE  Dispatcher!DispatchNext \/ UNCHANGED <<Order, inflight_by_session, results>>
      <3>1. j \in Jobs
        BY SubmittedAreJobs DEF Placement
      <3> QED
        BY <2>4, <3>1, DispatchNack
    <2>5. CASE \/ \E s \in Sessions, w \in Workers : SetAccumPin(s, w)
               \/ \E s \in Sessions : ClearAccumPin(s)
               \/ Tick
               \/ UNCHANGED queueVars
      BY <2>5 DEF SetAccumPin, ClearAccumPin, Tick, queueVars, Order, Submitted, Session
    <2> QED
      BY <2>1, <2>2, <2>3, <2>4, <2>5 DEF Next
  <1>3. Spec => [](Placement /\ Accounting)
    BY InductiveInvariant
  <1> QED
    BY <1>1, <1>2, <1>3, PTL DEF Spec, ImplementsDispatch, Dispatcher!Dispatch
-----------------------------------------------------------------------------
(***************************************************************************)
(* The worker loop against the queue.  Outside lapsed sessions a worker    *)
(* that has a job and has not acked it is the one the queue's in-flight    *)
(* table names for it, and a job a worker has acked can no longer run.  So *)
(* a late nack finds nothing to drop, no two workers hold one session, and *)
(* the pin a worker sets is about a session only it holds.                 *)
(***************************************************************************)
Working(w) == stage[w] \notin {"idle", "acked"}
InFlightAt(j, w) == inflight[j] # None /\ inflight[j].worker = w

(* What the queue knows of the job a worker has. *)
Accounted(w) ==
    stage[w] = "idle" \/ Session(holding[w]) \in lapsed
    \/ IF stage[w] = "acked" THEN ~ MayRun(holding[w]) ELSE InFlightAt(holding[w], w)

PoolInv ==
    /\ Placement /\ PoolTypeOK
    /\ \A w \in Workers : Accounted(w)
    /\ PinKeepsPeersOut
-----------------------------------------------------------------------------
(***************************************************************************)
(* The queue: what its operations do to a job other than their own.        *)
(***************************************************************************)
LEMMA DequeueKeepsOthers ==
    ASSUME Placement, NEW w \in Workers, NEW r \in Submitted \cup {None}, Dequeue(w, r),
           NEW j \in Submitted
    PROVE  /\ MayRun(j)' => MayRun(j)
           /\ j = r => MayRun(j) /\ InFlightAt(j, w)'
           /\ inflight[j] # None /\ j \notin Expired =>
                 inflight'[j] = inflight[j] /\ j # r /\ (r # None => Session(r) # Session(j))
<1> USE NoneIsNoJob
<1>1. /\ Submitted \subseteq Jobs /\ Session(j) \in Sessions /\ j \in Jobs
      /\ submitted' = submitted /\ Session(j)' = Session(j)
  BY SubmittedAreJobs DEF Placement, Dequeue, Session
<1>2. /\ Waiting(Session(j))' \cup {k \in {r} : r # None /\ Session(k) = Session(j)}
            = Waiting(Session(j)) \cup ExpiredOf(Session(j))
      /\ inflight'[j] # None <=> j = r \/ (inflight[j] # None /\ j \notin Expired)
  BY <1>1, DequeueMoves
<1>3. j \in ExpiredOf(Session(j)) => inflight[j] # None
  BY DEF ExpiredOf, Expired
<1>4. MayRun(j)' <=> inflight'[j] # None \/ j \in Waiting(Session(j))'
  BY <1>1 DEF MayRun, Waiting
<1>5. j = r => j \in Waiting(Session(j)) \cup ExpiredOf(Session(j))
  BY <1>1, <1>2
<1>6. inflight'[j] = IF j = r THEN [worker |-> w, left |-> VisibilityTimeout]
                     ELSE IF j \in Expired THEN None ELSE inflight[j]
  BY <1>1 DEF Dequeue
<1>7. [worker |-> w, left |-> VisibilityTimeout] # None
  BY NoneAssumption, BoundAssumption DEF InflightEntry
<1>8. ASSUME inflight[j] # None, j \notin Expired
      PROVE  j # r /\ (r # None => Session(r) # Session(j))
  <2>1. LockAfterRequeue(Session(j)) = j
    BY <1>1, <1>8, RequeueFacts DEF JobsOf
  <2>2. r # None => LockAfterRequeue(Session(r)) = None
    BY SelectedIsHead
  <2> QED
    BY <1>1, <2>1, <2>2
<1> QED
  BY <1>1, <1>2, <1>3, <1>4, <1>5, <1>6, <1>7, <1>8 DEF MayRun, InFlightAt

LEMMA EnqueueKeepsOthers ==
    ASSUME Placement, NEW spec \in JobSpecs, Enqueue(spec), NEW j \in Submitted
    PROVE  /\ j \in Submitted' /\ Session(j)' = Session(j) /\ Session(j) \in Sessions
           /\ MayRun(j)' => MayRun(j)
<1> DEFINE id == Len(submitted) + 1
<1>1. /\ submitted \in Seq(QueuedJob) /\ Submitted = 1 .. Len(submitted)
      /\ Len(submitted) \in Nat /\ j \in Jobs /\ Session(j) \in Sessions
  BY SubmittedAreJobs DEF Placement, TypeOK
<1>2. spec \in QueuedJob /\ spec.session \in Sessions /\ id \in Jobs
  BY <1>1, JobSpecsAssumption DEF QueuedJob, Enqueue
<1>3. Submitted' = 1 .. Len(submitted) + 1 /\ submitted'[j] = submitted[j] /\ j # id
  BY <1>1, <1>2 DEF Enqueue, Submitted
<1>4. session_queues[Session(j)] \in Seq(Jobs)
  BY <1>1 DEF Placement, TypeOK
<1>5. session_queues'[Session(j)] = IF Session(j) = spec.session
                                    THEN Append(session_queues[Session(j)], id)
                                    ELSE session_queues[Session(j)]
  BY <1>1, <1>2 DEF Enqueue, Placement, TypeOK
<1>6. Range(session_queues'[Session(j)]) \subseteq Waiting(Session(j)) \cup {id}
  BY <1>2, <1>4, <1>5, AppendRange DEF Waiting
<1>7. Session(j)' = Session(j) /\ inflight' = inflight
  BY <1>3 DEF Session, Enqueue
<1>8. MayRun(j)' => MayRun(j)
  BY <1>3, <1>6, <1>7 DEF MayRun, Waiting
<1> QED
  BY <1>1, <1>3, <1>7, <1>8

LEMMA InFlightNotWaiting ==
    ASSUME Placement, NEW j \in Submitted, inflight[j] # None
    PROVE  j \notin Waiting(Session(j))
<1>1. j \in Jobs /\ Session(j) \in Sessions /\ j \in JobsOf(Session(j))
  BY SubmittedAreJobs DEF Placement, JobsOf
<1>2. \A i \in DOMAIN session_queues[Session(j)] : j < session_queues[Session(j)][i]
  BY <1>1, DequesOrdered
<1>3. j \in Nat
  BY <1>1 DEF Jobs
<1> QED
  BY <1>2, <1>3 DEF Waiting, Range

LEMMA AckKeepsOthers ==
    ASSUME Placement, NEW j \in Submitted, NEW status, Ack(j, status), NEW k \in Submitted
    PROVE  /\ UNCHANGED <<submitted, accum_pins>>
           /\ k # j => inflight'[k] = inflight[k]
           /\ MayRun(k)' => MayRun(k)
           /\ inflight[j] # None => ~ MayRun(j)'
<1>1. submitted' = submitted /\ session_queues' = session_queues /\ accum_pins' = accum_pins
  BY DEF Ack
<1>2. /\ \A x : Session(x)' = Session(x) /\ Waiting(Session(x))' = Waiting(Session(x))
      /\ j \in Jobs /\ k \in Jobs
  BY <1>1, SubmittedAreJobs DEF Session, Waiting, Placement
<1>3. inflight' = [inflight EXCEPT ![j] = None] \/ (inflight[j] = None /\ inflight' = inflight)
  BY DEF Ack, DropInflight
<1>4. /\ k # j => inflight'[k] = inflight[k]
      /\ inflight'[j] = None
  BY <1>2, <1>3 DEF Placement, TypeOK
<1>5. inflight[j] # None => j \notin Waiting(Session(j))
  BY InFlightNotWaiting
<1> QED
  BY <1>1, <1>2, <1>4, <1>5 DEF MayRun

LEMMA NackKeepsOthers ==
    ASSUME Placement, NEW j \in Submitted, Nack(j), NEW k \in Submitted
    PROVE  /\ UNCHANGED <<submitted, accum_pins>>
           /\ k # j => inflight'[k] = inflight[k]
           /\ MayRun(k)' => MayRun(k)
<1> USE NoneIsNoJob
<1>1. CASE inflight[j] = None
  BY <1>1 DEF Nack, queueVars, MayRun, Waiting, Session
<1>2. CASE inflight[j] # None
  <2>1. submitted' = submitted /\ accum_pins' = accum_pins
    BY <1>2 DEF Nack
  <2>2. /\ j \in Jobs /\ k \in Jobs /\ Session(j) \in Sessions /\ Session(k) \in Sessions
        /\ Session(k)' = Session(k)
    BY <2>1, SubmittedAreJobs DEF Placement, Session
  <2>3. inflight' = [inflight EXCEPT ![j] = None]
    BY <1>2 DEF Nack, DropInflight
  <2>4. /\ inflight'[j] = None /\ (k # j => inflight'[k] = inflight[k])
    BY <2>2, <2>3 DEF Placement, TypeOK
  <2>5. session_queues[Session(k)] \in Seq(Jobs)
    BY <2>2 DEF Placement, TypeOK
  <2>6. \/ session_queues'[Session(k)] = session_queues[Session(k)]
        \/ session_queues'[Session(k)] = <<j>> \o session_queues[Session(k)]
    <3>1. session_queues \in [Sessions -> Seq(Jobs)]
      BY DEF Placement, TypeOK
    <3>2. \/ session_queues' = session_queues
          \/ session_queues' = [session_queues EXCEPT ![Session(j)] = <<j>> \o @]
      BY <1>2 DEF Nack
    <3> QED
      BY <2>2, <3>1, <3>2
  <2>7. Range(session_queues'[Session(k)]) \subseteq {j} \cup Waiting(Session(k))
    BY <2>2, <2>5, <2>6, ConsRange DEF Waiting
  <2>8. MayRun(k)' => MayRun(k)
    BY <1>2, <2>2, <2>4, <2>7 DEF MayRun, Waiting
  <2> QED
    BY <2>1, <2>4, <2>8
<1> QED
  BY <1>1, <1>2

LEMMA TickKeepsJobs ==
    ASSUME Placement, Tick, NEW j \in Submitted, NEW w
    PROVE  /\ MayRun(j)' => MayRun(j)
           /\ InFlightAt(j, w) => InFlightAt(j, w)'
<1>1. j \in Jobs /\ inflight \in [Jobs -> InflightEntry \cup {None}]
  BY SubmittedAreJobs DEF Placement, TypeOK
<1>2. inflight'[j] # None <=> inflight[j] # None
  BY <1>1, PlacementTick
<1>3. inflight[j] # None => inflight'[j].worker = inflight[j].worker
  <2>1. ASSUME inflight[j] # None
        PROVE  inflight'[j] = [inflight[j] EXCEPT !.left = Elapse(@)] /\ inflight[j] \in InflightEntry
    BY <1>1, <2>1 DEF Tick
  <2> QED
    BY <2>1 DEF InflightEntry
<1>4. submitted' = submitted /\ session_queues' = session_queues
  BY DEF Tick
<1> QED
  BY <1>2, <1>3, <1>4 DEF MayRun, InFlightAt, Waiting, Session

-----------------------------------------------------------------------------
(***************************************************************************)
(* The pool: what the invariant says of one worker, and of two.            *)
(***************************************************************************)
LEMMA Held ==
    ASSUME PoolInv, NEW w \in Workers, stage[w] # "idle"
    PROVE  /\ holding[w] \in Submitted /\ holding[w] \in Jobs /\ w \in up
           /\ holding[w] # None /\ Session(holding[w]) \in Sessions
  BY SubmittedAreJobs, NoneIsNoJob DEF PoolInv, PoolTypeOK, Placement

(* A job one worker is working on is not the job another one has. *)
LEMMA HoldersDiffer ==
    ASSUME PoolInv, NEW v \in Workers, NEW w \in Workers, v # w, Working(v),
           stage[w] # "idle", Session(holding[v]) \notin lapsed
    PROVE  holding[v] # holding[w]
<1>1. InFlightAt(holding[v], v)
  BY DEF PoolInv, Accounted, Working
<1>2. Session(holding[w]) \in lapsed \/ ~ MayRun(holding[w]) \/ InFlightAt(holding[w], w)
  BY DEF PoolInv, Accounted
<1> QED
  BY <1>1, <1>2 DEF InFlightAt, MayRun

LEMMA OneWorkerPerSession == PoolInv => SerializedUnlessLapsed
<1> SUFFICES ASSUME PoolInv, NEW s \in Sessions \ lapsed, NEW v \in Workers, NEW w \in Workers,
                    Holds(v, s), Holds(w, s), v # w
             PROVE  FALSE
  BY DEF SerializedUnlessLapsed
<1>1. /\ Working(v) /\ Working(w)
      /\ Session(holding[v]) = s /\ Session(holding[w]) = s
  BY DEF Holds, Working
<1>2. inflight[holding[v]] # None /\ inflight[holding[w]] # None
  BY <1>1 DEF PoolInv, Accounted, Working, InFlightAt
<1>3. holding[v] \in Jobs /\ holding[w] \in Jobs
  BY <1>1, Held DEF Working
<1>4. inflight_by_session[s] = holding[v] /\ inflight_by_session[s] = holding[w]
  BY <1>1, <1>2, <1>3 DEF PoolInv, Placement, SingleInFlight
<1> QED
  BY <1>1, <1>4, HoldersDiffer DEF Working

(* A step of one worker about its own job leaves the others accounted for. *)
LEMMA OthersAccounted ==
    ASSUME PoolInv, NEW w \in Workers, stage[w] # "idle",
           submitted' = submitted, lapsed' = lapsed,
           \A k \in Submitted : k # holding[w] => inflight'[k] = inflight[k],
           \A k \in Submitted : MayRun(k)' => MayRun(k),
           NEW v \in Workers, v # w, stage'[v] = stage[v], holding'[v] = holding[v]
    PROVE  Accounted(v)'
<1> DEFINE j == holding[v]
<1>1. CASE stage[v] = "idle"
  BY <1>1 DEF Accounted
<1>2. CASE stage[v] # "idle"
  <2>1. /\ Session(j)' = Session(j) /\ Session(holding[v])' = Session(j)'
        /\ MayRun(holding[v])' <=> MayRun(j)'
        /\ j \in Submitted
    BY <1>2, Held DEF Session, MayRun, Waiting
  <2>2. CASE Session(j) \in lapsed
    BY <2>1, <2>2 DEF Accounted, Session
  <2>3. CASE Session(j) \notin lapsed /\ stage[v] = "acked"
    <3>1. ~ MayRun(j)
      BY <2>3 DEF PoolInv, Accounted
    <3>2. ~ MayRun(j)'
      BY <2>1, <3>1
    <3> QED
      BY <2>1, <2>3, <3>2 DEF Accounted
  <2>4. CASE Session(j) \notin lapsed /\ stage[v] # "acked"
    <3>1. j # holding[w]
      BY <1>2, <2>4, HoldersDiffer DEF Working
    <3>2. InFlightAt(j, v)
      BY <1>2, <2>4 DEF PoolInv, Accounted
    <3>3. InFlightAt(holding[v], v)'
      BY <2>1, <3>1, <3>2 DEF InFlightAt
    <3> QED
      BY <2>4, <3>3 DEF Accounted
  <2> QED
    BY <2>2, <2>3, <2>4
<1> QED
  BY <1>1, <1>2

(* Pins that stay as they are keep peers out of the sessions nobody new holds. *)
LEMMA PinsStay ==
    ASSUME PinKeepsPeersOut, accum_pins' = accum_pins, lapsed' = lapsed,
           \A v \in Workers, s \in Sessions : Holds(v, s)' => Holds(v, s)
    PROVE  PinKeepsPeersOut'
  BY DEF PinKeepsPeersOut

LEMMA FinishKeepsInv ==
    ASSUME PoolInv, NEW w \in Workers, stage[w] # "idle", Finish(w), raises' \in 0 .. MaxRaises,
           \/ Nack(holding[w]) \/ (\E status \in Statuses : Ack(holding[w], status))
           \/ UNCHANGED queueVars
    PROVE  PoolInv'
<1> DEFINE j == holding[w]
<1>1. j \in Submitted /\ Placement
  BY Held DEF PoolInv
<1>2. Placement'
  <2>1. CASE UNCHANGED queueVars
    BY <1>1, <2>1 DEF queueVars, Placement, TypeOK, SingleInFlight, SessionFIFO,
                      Submitted, Session, JobsOf
  <2> QED
    BY <1>1, <2>1, PlacementNack, PlacementAck
<1>3. /\ submitted' = submitted /\ accum_pins' = accum_pins
      /\ \A k \in Submitted : k # j => inflight'[k] = inflight[k]
      /\ \A k \in Submitted : MayRun(k)' => MayRun(k)
  <2>1. CASE UNCHANGED queueVars
    BY <2>1 DEF queueVars, MayRun, Waiting, Session
  <2>2. CASE Nack(j)
    BY <1>1, <2>2, NackKeepsOthers
  <2>3. CASE \E status \in Statuses : Ack(j, status)
    BY <1>1, <2>3, AckKeepsOthers
  <2> QED
    BY <2>1, <2>2, <2>3
<1>4. /\ stage' = [stage EXCEPT ![w] = "idle"] /\ holding' = [holding EXCEPT ![w] = None]
      /\ lease' = [lease EXCEPT ![w] = 0] /\ lapsed' = lapsed
      /\ UNCHANGED <<up, slow, accepted>>
  BY DEF Finish, Goto
<1>5. PoolTypeOK'
  BY <1>3, <1>4, PoolAssumption, BoundAssumption DEF PoolInv, PoolTypeOK, Stages, Submitted
<1>6. stage'[w] = "idle" /\ \A v \in Workers : v # w => stage'[v] = stage[v] /\ holding'[v] = holding[v]
  BY <1>4 DEF PoolInv, PoolTypeOK
<1> HIDE DEF j
<1>7. \A v \in Workers : Accounted(v)'
  <2> SUFFICES ASSUME NEW v \in Workers PROVE Accounted(v)'
    OBVIOUS
  <2>1. CASE v = w
    BY <2>1, <1>6 DEF Accounted
  <2>2. CASE v # w
    BY <2>2, <1>3, <1>4, <1>6, OthersAccounted DEF j
  <2> QED
    BY <2>1, <2>2
<1>8. \A v \in Workers, s \in Sessions : Holds(v, s)' => Holds(v, s)
  BY <1>3, <1>6 DEF Holds, Session
<1>9. PinKeepsPeersOut'
  BY <1>3, <1>4, <1>8, PinsStay DEF PoolInv
<1> QED
  BY <1>2, <1>5, <1>7, <1>9 DEF PoolInv

LEMMA StartKeepsInv ==
    ASSUME PoolInv, NEW w \in Workers, StartHandler(w)
    PROVE  PoolInv'
<1>1. /\ stage[w] = "fetched" /\ stage' = [stage EXCEPT ![w] = "running"]
      /\ accepted' = accepted \cup {holding[w]}
      /\ UNCHANGED <<queueVars, up, holding, lease, slow, raises, lapsed>>
  BY DEF StartHandler, At, Goto
<1>2. Placement'
  BY <1>1 DEF PoolInv, queueVars, Placement, TypeOK, SingleInFlight, SessionFIFO,
              Submitted, Session, JobsOf
<1>3. PoolTypeOK'
  BY <1>1, Held DEF PoolInv, PoolTypeOK, Stages, queueVars, Submitted
<1>4. stage'[w] = "running" /\ \A v \in Workers : v # w => stage'[v] = stage[v]
  BY <1>1 DEF PoolInv, PoolTypeOK
<1>5. \A v \in Workers : Accounted(v)'
  BY <1>1, <1>4 DEF PoolInv, Accounted, queueVars, MayRun, Waiting, InFlightAt, Session
<1>6. \A v \in Workers, s \in Sessions : Holds(v, s)' => Holds(v, s)
  BY <1>1, <1>4 DEF Holds, Session, queueVars
<1>7. PinKeepsPeersOut'
  BY <1>1, <1>6, PinsStay DEF PoolInv, queueVars
<1> QED
  BY <1>2, <1>3, <1>5, <1>7 DEF PoolInv

(* The worker that sets a pin is the only one that holds the session. *)
LEMMA ReturnsKeepsInv ==
    ASSUME PoolInv, NEW w \in Workers, HandlerReturns(w)
    PROVE  PoolInv'
<1> DEFINE s == Session(holding[w])
<1>1. /\ stage[w] = "running" /\ stage' = [stage EXCEPT ![w] = "pinned"]
      /\ UNCHANGED <<up, holding, lease, slow, raises, accepted, lapsed>>
  BY DEF HandlerReturns, At, Goto
<1>2. s \in Sessions /\ holding[w] \in Submitted
  BY <1>1, Held
<1>3. SetAccumPin(s, w) \/ ClearAccumPin(s) \/ UNCHANGED queueVars
  BY DEF HandlerReturns, UpdateAccumPin, Session
<1>4. /\ UNCHANGED <<submitted, session_queues, inflight>>
      /\ \A r \in Sessions : r # s => accum_pins'[r] = accum_pins[r]
      /\ \/ accum_pins' = accum_pins
         \/ accum_pins'[s] = None
         \/ accum_pins'[s] = [owner |-> w, left |-> PinTTL]
  BY <1>2, <1>3 DEF SetAccumPin, ClearAccumPin, queueVars, PoolInv, Placement, TypeOK
<1>5. Placement'
  <2>1. CASE UNCHANGED queueVars
    BY <2>1 DEF PoolInv, queueVars, Placement, TypeOK, SingleInFlight, SessionFIFO,
                Submitted, Session, JobsOf
  <2> QED
    BY <1>2, <1>3, <2>1, PlacementPins DEF PoolInv
<1>6. PoolTypeOK'
  BY <1>1, <1>4 DEF PoolInv, PoolTypeOK, Stages, Submitted
<1>7. stage'[w] = "pinned" /\ \A v \in Workers : v # w => stage'[v] = stage[v]
  BY <1>1 DEF PoolInv, PoolTypeOK
<1> HIDE DEF s
<1>8. \A v \in Workers : Accounted(v)'
  BY <1>1, <1>4, <1>7 DEF PoolInv, Accounted, MayRun, Waiting, InFlightAt, Session
<1>9. \A v \in Workers, r \in Sessions : Holds(v, r)' => Holds(v, r)
  BY <1>1, <1>4, <1>7 DEF Holds, Session
<1>10. PinKeepsPeersOut'
  <2> SUFFICES ASSUME NEW r \in Sessions \ lapsed, NEW v \in Workers, Holds(v, r),
                      accum_pins'[r] # None, accum_pins'[r].left > 0
               PROVE  accum_pins'[r].owner = v
    BY <1>1, <1>9 DEF PinKeepsPeersOut
  <2>1. CASE accum_pins'[r] = accum_pins[r]
    BY <2>1 DEF PoolInv, PinKeepsPeersOut
  <2>2. CASE r = s /\ accum_pins'[s] = [owner |-> w, left |-> PinTTL]
    <3>1. Holds(w, r)
      BY <1>1, <2>2 DEF Holds, s
    <3> QED
      BY <2>2, <3>1, OneWorkerPerSession DEF SerializedUnlessLapsed
  <2> QED
    BY <1>4, <2>1, <2>2
<1> QED
  BY <1>5, <1>6, <1>8, <1>10 DEF PoolInv

LEMMA AckCompletedKeepsInv ==
    ASSUME PoolInv, NEW w \in Workers, AckCompleted(w)
    PROVE  PoolInv'
<1> DEFINE j == holding[w]
<1>1. /\ stage[w] = "pinned" /\ stage' = [stage EXCEPT ![w] = "acked"]
      /\ Ack(j, "completed")
      /\ UNCHANGED <<up, holding, lease, slow, raises, accepted, lapsed>>
  BY DEF AckCompleted, At, Goto
<1>2. j \in Submitted /\ Placement
  BY <1>1, Held DEF PoolInv
<1>3. Placement'
  BY <1>1, <1>2, PlacementAck DEF Statuses
<1>4. /\ submitted' = submitted /\ accum_pins' = accum_pins
      /\ \A k \in Submitted : k # j => inflight'[k] = inflight[k]
      /\ \A k \in Submitted : MayRun(k)' => MayRun(k)
      /\ inflight[j] # None => ~ MayRun(j)'
  BY <1>1, <1>2, AckKeepsOthers
<1>5. PoolTypeOK'
  BY <1>1, <1>4 DEF PoolInv, PoolTypeOK, Stages, Submitted
<1>6. stage'[w] = "acked" /\ \A v \in Workers : v # w => stage'[v] = stage[v]
  BY <1>1 DEF PoolInv, PoolTypeOK
<1>7. Accounted(w)'
  <2>1. Session(j) \in lapsed \/ inflight[j] # None
    BY <1>1 DEF PoolInv, Accounted, InFlightAt
  <2>2. Session(holding[w])' = Session(j) /\ (MayRun(holding[w])' <=> MayRun(j)')
    BY <1>1, <1>4 DEF Session, MayRun, Waiting
  <2> QED
    BY <1>1, <1>4, <1>6, <2>1, <2>2 DEF Accounted
<1> HIDE DEF j
<1>8. \A v \in Workers : v # w => Accounted(v)'
  BY <1>1, <1>4, <1>6, OthersAccounted DEF j
<1>9. \A v \in Workers, s \in Sessions : Holds(v, s)' => Holds(v, s)
  BY <1>1, <1>4, <1>6 DEF Holds, Session
<1>10. PinKeepsPeersOut'
  BY <1>1, <1>4, <1>9, PinsStay DEF PoolInv
<1> QED
  BY <1>3, <1>5, <1>7, <1>8, <1>10 DEF PoolInv

LEMMA SubmitKeepsInv ==
    ASSUME PoolInv, NEW spec \in JobSpecs, Submit(spec)
    PROVE  PoolInv'
<1>1. Enqueue(spec) /\ UNCHANGED poolVars /\ Placement
  BY DEF Submit, PoolInv
<1>2. Placement'
  BY <1>1, PlacementEnqueue
<1>3. inflight' = inflight /\ accum_pins' = accum_pins
  BY <1>1 DEF Enqueue
<1>4. \A j \in Submitted : j \in Submitted' /\ Session(j)' = Session(j)
  BY <1>1, EnqueueKeepsOthers
<1>5. \A v \in Workers : stage[v] # "idle" =>
         /\ holding[v] \in Submitted /\ Session(holding[v])' = Session(holding[v])
         /\ MayRun(holding[v])' => MayRun(holding[v])
  <2> SUFFICES ASSUME NEW v \in Workers, stage[v] # "idle"
               PROVE  /\ holding[v] \in Submitted /\ Session(holding[v])' = Session(holding[v])
                      /\ MayRun(holding[v])' => MayRun(holding[v])
    OBVIOUS
  <2>1. holding[v] \in Submitted /\ holding'[v] = holding[v]
    BY <1>1, Held DEF poolVars
  <2>2. PICK j \in Submitted : j = holding[v]
    BY <2>1
  <2>3. Session(holding[v])' = Session(j)' /\ (MayRun(holding[v])' <=> MayRun(j)')
    BY <2>1, <2>2 DEF Session, MayRun, Waiting
  <2>4. Session(holding[v]) = Session(j) /\ (MayRun(holding[v]) <=> MayRun(j))
    BY <2>2 DEF Session, MayRun, Waiting
  <2>5. Session(j)' = Session(j) /\ (MayRun(j)' => MayRun(j))
    BY <1>1, EnqueueKeepsOthers
  <2>6. Session(holding[v])' = Session(holding[v])
    BY <2>3, <2>4, <2>5
  <2>7. MayRun(holding[v])' => MayRun(holding[v])
    BY <2>3, <2>4, <2>5
  <2> QED
    BY <2>1, <2>6, <2>7
<1>6. PoolTypeOK'
  <2>1. Submitted \subseteq Submitted'
    BY <1>4
  <2> QED
    BY <1>1, <2>1 DEF PoolInv, PoolTypeOK, poolVars
<1>7. \A v \in Workers : Accounted(v)'
  BY <1>1, <1>3, <1>5 DEF PoolInv, Accounted, InFlightAt, poolVars
<1>8. \A v \in Workers, s \in Sessions : Holds(v, s)' => Holds(v, s)
  BY <1>1, <1>5 DEF Holds, poolVars
<1>9. PinKeepsPeersOut'
  BY <1>1, <1>3, <1>8, PinsStay DEF PoolInv, poolVars
<1> QED
  BY <1>2, <1>6, <1>7, <1>9 DEF PoolInv

(* What a poll hands out is nobody else's, unless its session lapsed. *)
LEMMA PollKeepsInv ==
    ASSUME PoolInv, NEW w \in Workers, NEW r \in Submitted \cup {None}, Poll(w, r)
    PROVE  PoolInv'
<1> USE NoneIsNoJob
<1>1. /\ Placement /\ Dequeue(w, r) /\ submitted' = submitted
      /\ stage[w] = "idle" /\ w \in up
      /\ lapsed' = lapsed \cup {Session(j) : j \in Expired}
      /\ UNCHANGED <<up, slow, raises, accepted>>
  BY DEF PoolInv, Poll, At, Dequeue
<1>2. Placement'
  BY <1>1, PlacementDequeue DEF Placement
<1>3. IF r = None THEN UNCHANGED <<stage, holding, lease>>
      ELSE /\ stage' = [stage EXCEPT ![w] = "fetched"]
           /\ holding' = [holding EXCEPT ![w] = r]
           /\ lease' = [lease EXCEPT ![w] = VisibilityTimeout]
  BY DEF Poll, Goto
<1>4. \A j \in Submitted : /\ j \in Jobs /\ Session(j) \in Sessions /\ Session(j)' = Session(j)
  BY <1>1, SubmittedAreJobs DEF Session, Placement
<1>5. /\ r # None => stage'[w] = "fetched" /\ holding'[w] = r
      /\ r = None => stage'[w] = "idle"
      /\ \A v \in Workers : v # w => stage'[v] = stage[v] /\ holding'[v] = holding[v]
  BY <1>1, <1>3 DEF PoolInv, PoolTypeOK
<1>6. PoolTypeOK'
  <2>1. lapsed' \subseteq Sessions
    BY <1>1, <1>4 DEF Expired, PoolInv, PoolTypeOK
  <2>2. Submitted' = Submitted
    BY <1>1 DEF Submitted
  <2> QED
    BY <1>1, <1>3, <1>4, <2>1, <2>2, BoundAssumption DEF PoolInv, PoolTypeOK, Stages
<1>7. ASSUME NEW v \in Workers, v # w, stage[v] # "idle"
      PROVE  /\ Session(holding[v])' = Session(holding[v]) /\ Accounted(v)'
             /\ Session(holding[v]) \notin lapsed' /\ Working(v) =>
                  (r # None => Session(r) # Session(holding[v]))
  <2> DEFINE j == holding[v]
  <2>1. /\ j \in Submitted /\ holding'[v] = j /\ stage'[v] = stage[v]
        /\ Session(holding[v])' = Session(j) /\ (MayRun(holding[v])' <=> MayRun(j)')
    BY <1>1, <1>5, <1>7, Held DEF Session, MayRun, Waiting
  <2>2. /\ MayRun(j)' => MayRun(j)
        /\ inflight[j] # None /\ j \notin Expired =>
               inflight'[j] = inflight[j] /\ j # r /\ (r # None => Session(r) # Session(j))
    BY <1>1, <2>1, DequeueKeepsOthers
  <2>3. Session(j) \notin lapsed' => Session(j) \notin lapsed /\ j \notin Expired
    BY <1>1
  <2>4. Session(j) \notin lapsed /\ Working(v) => InFlightAt(j, v)
    BY <1>7 DEF PoolInv, Accounted, Working
  <2>5. Session(j) \notin lapsed /\ stage[v] = "acked" => ~ MayRun(j)
    BY <1>7 DEF PoolInv, Accounted
  <2>6. Session(j) \notin lapsed' /\ Working(v) => InFlightAt(holding[v], v)'
    BY <2>1, <2>2, <2>3, <2>4 DEF InFlightAt
  <2> HIDE DEF j
  <2>7. Accounted(v)'
    BY <1>7, <2>1, <2>2, <2>3, <2>5, <2>6 DEF Accounted, Working
  <2> QED
    BY <2>1, <2>2, <2>3, <2>4, <2>7 DEF j, InFlightAt
<1>8. \A v \in Workers : Accounted(v)'
  <2> SUFFICES ASSUME NEW v \in Workers PROVE Accounted(v)'
    OBVIOUS
  <2>1. CASE v = w
    <3>1. r # None => InFlightAt(holding[w], w)'
      <4>1. r # None => InFlightAt(r, w)'
        BY <1>1, DequeueKeepsOthers
      <4> QED
        BY <4>1, <1>5 DEF InFlightAt
    <3> QED
      BY <2>1, <3>1, <1>5 DEF Accounted
  <2>2. CASE v # w /\ stage[v] = "idle"
    BY <2>2, <1>5 DEF Accounted
  <2> QED
    BY <2>1, <2>2, <1>7
<1>9. PinKeepsPeersOut'
  <2> SUFFICES ASSUME NEW s \in Sessions, s \notin lapsed', NEW v \in Workers, Holds(v, s)',
                      accum_pins'[s] # None, accum_pins'[s].left > 0
               PROVE  accum_pins'[s].owner = v
    BY DEF PinKeepsPeersOut
  <2>1. accum_pins'[s] = accum_pins[s] /\ ~ (s \in Reached(w) /\ PinLapsed(s)) /\ s \notin lapsed
    BY <1>1 DEF Dequeue
  <2>2. CASE v # w
    <3>1. Holds(v, s)
      <4>1. stage[v] # "idle" /\ stage[v] # "acked" /\ Session(holding[v])' = s
        BY <2>2, <1>5 DEF Holds
      <4> QED
        BY <2>2, <4>1, <1>7 DEF Holds
    <3> QED
      BY <2>1, <3>1 DEF PoolInv, PinKeepsPeersOut
  <2>3. CASE v = w
    <3>1. r # None /\ r \in Submitted
      BY <2>3, <1>5 DEF Holds
    <3>2. Session(r) = s
      BY <2>3, <3>1, <1>1, <1>5 DEF Holds, Session
    <3>3. r \in Candidates(w)
      BY <1>1, <3>1 DEF Dequeue, Selects, Visible
    <3>4. PICK t \in Reached(w) : PinAllows(t, w) /\ r = Head(QueueAfterRequeue(t))
      BY <3>3 DEF Candidates
    <3>5. t \in Sessions /\ QueueAfterRequeue(t) # <<>>
      BY <3>4 DEF Reached
    <3>6. Ordered(QueueAfterRequeue(t), t)
      BY <1>1, <3>5, RequeueFacts
    <3>7. t = s
      BY <3>2, <3>4, <3>5, <3>6, TailOrdered DEF JobsOf
    <3> QED
      BY <2>1, <2>3, <3>4, <3>7 DEF PinAllows, PinLapsed
  <2> QED
    BY <2>2, <2>3
<1> QED
  BY <1>2, <1>6, <1>8, <1>9 DEF PoolInv

LEMMA CrashKeepsInv ==
    ASSUME PoolInv, NEW w \in Workers, Crash(w)
    PROVE  PoolInv'
<1>1. /\ UNCHANGED queueVars /\ lapsed' = lapsed /\ up' = up \ {w}
      /\ UNCHANGED <<slow, raises, accepted>>
      /\ stage' = [stage EXCEPT ![w] = "idle"] /\ holding' = [holding EXCEPT ![w] = None]
      /\ lease' = [lease EXCEPT ![w] = 0]
  BY DEF Crash
<1>2. Placement'
  BY <1>1 DEF PoolInv, queueVars, Placement, TypeOK, SingleInFlight, SessionFIFO,
              Submitted, Session, JobsOf
<1>3. PoolTypeOK'
  BY <1>1, BoundAssumption DEF PoolInv, PoolTypeOK, Stages, queueVars, Submitted
<1>4. stage'[w] = "idle" /\ \A v \in Workers : v # w => stage'[v] = stage[v] /\ holding'[v] = holding[v]
  BY <1>1 DEF PoolInv, PoolTypeOK
<1>5. \A v \in Workers : Accounted(v)'
  BY <1>1, <1>4 DEF PoolInv, Accounted, queueVars, MayRun, Waiting, InFlightAt, Session
<1>6. \A v \in Workers, s \in Sessions : Holds(v, s)' => Holds(v, s)
  BY <1>1, <1>4 DEF Holds, Session, queueVars
<1>7. PinKeepsPeersOut'
  BY <1>1, <1>6, PinsStay DEF PoolInv, queueVars
<1> QED
  BY <1>2, <1>3, <1>5, <1>7 DEF PoolInv

LEMMA TimeKeepsInv ==
    ASSUME PoolInv, TimePasses
    PROVE  PoolInv'
<1>1. /\ Placement /\ Tick /\ submitted' = submitted
      /\ slow + Cardinality(Outlived) <= MaxSlow /\ slow' = slow + Cardinality(Outlived)
      /\ lease' = [v \in Workers |-> Elapse(lease[v])]
      /\ UNCHANGED <<up, holding, stage, raises, accepted, lapsed>>
  BY DEF PoolInv, TimePasses, Tick
<1>2. Placement'
  BY <1>1, PlacementTick
<1>3. Cardinality(Outlived) \in Nat
  <2>1. Outlived \subseteq Workers
    BY DEF Outlived
  <2> QED
    BY <2>1, PoolAssumption, FS_Subset, FS_CardinalityType
<1>4. \A n \in 0 .. VisibilityTimeout : Elapse(n) \in 0 .. VisibilityTimeout
  BY BoundAssumption DEF Elapse
<1>5. PoolTypeOK'
  BY <1>1, <1>3, <1>4, PoolAssumption DEF PoolInv, PoolTypeOK, Submitted
<1>6. \A v \in Workers : Accounted(v)'
  <2> SUFFICES ASSUME NEW v \in Workers, stage[v] # "idle" PROVE Accounted(v)'
    BY <1>1 DEF Accounted
  <2> DEFINE j == holding[v]
  <2>1. /\ j \in Submitted /\ Session(holding[v])' = Session(j)
        /\ (MayRun(holding[v])' <=> MayRun(j)') /\ (InFlightAt(holding[v], v)' <=> InFlightAt(j, v)')
    BY <1>1, Held DEF Session, MayRun, Waiting, InFlightAt
  <2>2. (MayRun(j)' => MayRun(j)) /\ (InFlightAt(j, v) => InFlightAt(j, v)')
    BY <1>1, <2>1, TickKeepsJobs
  <2>3. Session(j) \in lapsed \/ IF stage[v] = "acked" THEN ~ MayRun(j) ELSE InFlightAt(j, v)
    BY DEF PoolInv, Accounted
  <2> HIDE DEF j
  <2> QED
    BY <1>1, <2>1, <2>2, <2>3 DEF Accounted
<1>7. PinKeepsPeersOut'
  <2> SUFFICES ASSUME NEW s \in Sessions \ lapsed, NEW v \in Workers, Holds(v, s),
                      accum_pins'[s] # None, accum_pins'[s].left > 0
               PROVE  accum_pins'[s].owner = v
    BY <1>1 DEF PinKeepsPeersOut, Holds, Session
  <2>1. /\ accum_pins[s] # None /\ accum_pins[s] \in Pin
        /\ accum_pins'[s] = [accum_pins[s] EXCEPT !.left = Elapse(@)]
    BY <1>1 DEF Tick, Placement, TypeOK
  <2>2. accum_pins[s].left \in Nat /\ accum_pins'[s].owner = accum_pins[s].owner
        /\ accum_pins'[s].left = Elapse(accum_pins[s].left)
    BY <2>1, BoundAssumption DEF Pin
  <2>3. accum_pins[s].left > 0
    BY <2>2 DEF Elapse
  <2> QED
    BY <2>1, <2>2, <2>3 DEF PoolInv, PinKeepsPeersOut
<1> QED
  BY <1>2, <1>5, <1>6, <1>7 DEF PoolInv
-----------------------------------------------------------------------------
LEMMA PoolInitInv == PoolInit => PoolInv
<1> SUFFICES ASSUME PoolInit PROVE PoolInv
  OBVIOUS
<1>1. Placement
  BY PlacementInit DEF PoolInit
<1>2. PoolTypeOK
  BY PoolAssumption, BoundAssumption DEF PoolInit, PoolTypeOK, Stages
<1>3. \A w \in Workers : Accounted(w)
  BY DEF PoolInit, Accounted
<1>4. PinKeepsPeersOut
  BY DEF PoolInit, Init, PinKeepsPeersOut
<1> QED
  BY <1>1, <1>2, <1>3, <1>4 DEF PoolInv

LEMMA WorkerStepKeepsInv ==
    ASSUME PoolInv, NEW w \in Workers, WorkerStep(w)
    PROVE  PoolInv'
<1>1. raises \in 0 .. MaxRaises /\ MaxRaises \in Nat
  BY PoolAssumption DEF PoolInv, PoolTypeOK
<1>2. CASE RejectCp(w)
  BY <1>1, <1>2, FinishKeepsInv DEF RejectCp, At
<1>3. CASE StartHandler(w)
  BY <1>3, StartKeepsInv
<1>4. CASE HandlerReturns(w)
  BY <1>4, ReturnsKeepsInv
<1>5. CASE AckCompleted(w)
  BY <1>5, AckCompletedKeepsInv
<1>6. CASE AfterAck(w)
  BY <1>1, <1>6, FinishKeepsInv DEF AfterAck, At
<1>7. CASE AfterAckRaises(w)
  BY <1>1, <1>7, FinishKeepsInv DEF AfterAckRaises, At
<1>8. CASE AckRefused(w)
  BY <1>1, <1>8, FinishKeepsInv DEF AckRefused, At, Statuses
<1>9. CASE HandlerRaises(w)
  BY <1>1, <1>9, FinishKeepsInv DEF HandlerRaises, At
<1> QED
  BY <1>2, <1>3, <1>4, <1>5, <1>6, <1>7, <1>8, <1>9 DEF WorkerStep

LEMMA PoolStepKeepsInv == PoolInv /\ [PoolNext]_vars => PoolInv'
<1> SUFFICES ASSUME PoolInv, [PoolNext]_vars PROVE PoolInv'
  OBVIOUS
<1>1. CASE UNCHANGED vars
  BY <1>1 DEF vars, poolVars, queueVars, PoolInv, Placement, TypeOK, SingleInFlight,
              SessionFIFO, Submitted, Session, JobsOf, PoolTypeOK, Accounted, MayRun,
              Waiting, InFlightAt, PinKeepsPeersOut, Holds
<1>2. CASE PoolNext
  BY <1>2, SubmitKeepsInv, PollKeepsInv, WorkerStepKeepsInv, CrashKeepsInv, TimeKeepsInv
     DEF PoolNext, PollAny
<1> QED
  BY <1>1, <1>2

(***************************************************************************)
(* However workers die, are slow, raise after an ack or ack a second time: *)
(* the pool's tables agree; outside sessions that lost a job to the        *)
(* visibility timeout no two workers process one session (memory.py:19),   *)
(* and no worker processes a session pinned to another (worker.py:694).    *)
(***************************************************************************)
THEOREM PoolInvariant ==
    PoolSpec => [](PoolTypeOK /\ SerializedUnlessLapsed /\ PinKeepsPeersOut)
<1>1. PoolSpec => []PoolInv
  BY PoolInitInv, PoolStepKeepsInv, PTL DEF PoolSpec
<1>2. PoolInv => PoolTypeOK /\ SerializedUnlessLapsed /\ PinKeepsPeersOut
  BY OneWorkerPerSession DEF PoolInv
<1> QED
  BY <1>1, <1>2, PTL

(* While a session is pinned to a worker in the middle of an accumulation cycle, no other *)
(* worker processes it (worker.py:694), outside sessions that lost a job to a timeout.    *)
THEOREM PinnedSessionsStay == PoolSpec => []PinKeepsPeersOut
BY PoolInvariant, PTL

(***************************************************************************)
(* The worker loop only does to the queue what the queue allows anybody:   *)
(* every step of the pool is an operation of the queue or leaves it alone. *)
(* What is proved of the queue for any caller holds for the real workers.  *)
(***************************************************************************)
LEMMA PoolStepIsQueueStep ==
    ASSUME PoolInv, [PoolNext]_vars PROVE [Next]_queueVars
<1>1. ASSUME NEW w \in Workers, stage[w] # "idle"
      PROVE  holding[w] \in Submitted /\ Session(holding[w]) \in Sessions
  BY <1>1, SubmittedAreJobs DEF PoolInv, PoolTypeOK, Placement
<1>2. ASSUME NEW w \in Workers, Nack(holding[w]), stage[w] # "idle" PROVE Next
  BY <1>1, <1>2 DEF Next
<1>3. ASSUME NEW w \in Workers, NEW status \in Statuses, Ack(holding[w], status),
             stage[w] # "idle"
      PROVE  Next
  BY <1>1, <1>3 DEF Next
<1>4. ASSUME NEW w \in Workers, UpdateAccumPin(w), stage[w] # "idle"
      PROVE  [Next]_queueVars
  <2> DEFINE j == holding[w]
  <2>1. j \in Submitted /\ submitted[j].session \in Sessions
    BY <1>1, <1>4 DEF Session
  <2> QED
    BY <1>4, <2>1 DEF UpdateAccumPin, Next
<1>5. ASSUME NEW w \in Workers, WorkerStep(w) PROVE [Next]_queueVars
  BY <1>2, <1>3, <1>4, <1>5
     DEF WorkerStep, RejectCp, StartHandler, HandlerReturns, AckCompleted, AfterAck,
         AfterAckRaises, AckRefused, HandlerRaises, At, Statuses
<1>6. ASSUME NEW w \in Workers, PollAny(w) PROVE Next
  BY <1>6 DEF PollAny, Poll, Next
<1>7. ASSUME NEW spec \in JobSpecs, Submit(spec) PROVE Next
  BY <1>7 DEF Submit, Next
<1>8. CASE TimePasses
  BY <1>8 DEF TimePasses, Next
<1>9. ASSUME NEW w \in Workers, Crash(w) PROVE UNCHANGED queueVars
  BY <1>9 DEF Crash
<1>10. CASE UNCHANGED vars
  BY <1>10 DEF vars
<1> QED
  BY <1>5, <1>6, <1>7, <1>8, <1>9, <1>10 DEF PoolNext

(* The pool of real workers is one of the callers the queue was proved for. *)
THEOREM PoolUsesQueueAsAllowed == PoolSpec => Spec
<1>1. PoolInit => Init
  BY DEF PoolInit
<1>2. PoolInv /\ [PoolNext]_vars => [Next]_queueVars
  BY PoolStepIsQueueStep
<1>3. PoolSpec => []PoolInv
  BY PoolInitInv, PoolStepKeepsInv, PTL DEF PoolSpec
<1> QED
  BY <1>1, <1>2, <1>3, PTL DEF PoolSpec, Spec

(* So, as the workers really poll, pin, ack and die, their queue is the abstract dispatcher *)
(* of each session's jobs, the property the pool's run checks.                              *)
THEOREM PoolImplementsDispatcher == PoolSpec => ImplementsDispatch
BY PoolUsesQueueAsAllowed, ImplementsDispatcher, PTL
=============================================================================
