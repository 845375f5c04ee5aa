------------------------- MODULE WorkerGroupProofs -------------------------
(***************************************************************************)
(* What a group of ranks guarantees for any number of ranks and jobs,      *)
(* whatever jobs raise, on whichever ranks.                                *)
(*                                                                         *)
(* The argument: the group is at any time either looping or working        *)
(* (Phase).  While it works every rank has the coordinator's job, which is *)
(* in flight, so a collective changes all ranks for one job; while it      *)
(* loops nobody's error flag moves, so what rank 0 settles by is what all  *)
(* ranks reported in that delivery.                                        *)
(***************************************************************************)
EXTENDS WorkerGroup, DataPath, FiniteSetTheorems, WellFoundedInduction, TLAPS

Types ==
    /\ queue \in [Jobs -> {"queued", "in_flight", "completed", "failed"}]
    /\ attempts \in [Jobs -> 0 .. MaxAttempts]
    /\ at \in [Ranks -> {"top", "bus", "running", "collective", "after", "gather",
                         "settle", "out", "dead"}]
    /\ bus \in [type : {"idle", "job", "shutdown"}, job : Jobs \cup {None}]
    /\ doing \in [Ranks -> Jobs \cup {None}] /\ err \in [Ranks -> BOOLEAN]
    /\ fate \in {"runs", "raises"}
    /\ changed \in [Ranks -> [Jobs -> Nat]]
    /\ whole \in [Jobs -> SUBSET Ranks]
    /\ processed \in Nat /\ faults \in 0 .. MaxFaults

Looping ==
    /\ at[0] \in {"top", "bus", "settle", "out", "dead"}
    /\ \A r \in Ranks \ {0} : at[r] \in {"top", "bus", "out"}
Working ==
    /\ \A r \in Ranks : at[r] \in {"running", "collective", "after", "gather"}
                        /\ doing[r] = doing[0]
    /\ doing[0] \in Jobs /\ Kind[doing[0]] # "wide" /\ queue[doing[0]] = "in_flight"
Phase == Looping \/ Working

(* What rank 0 holds on its way through the loop. *)
Coordinator ==
    /\ at[0] \in {"top", "out"} => doing[0] = None
    /\ at[0] \in {"bus", "settle"} /\ doing[0] # None => queue[doing[0]] = "in_flight"
    /\ at[0] = "settle" => doing[0] # None
    /\ at[0] = "bus" /\ bus.type = "job" => bus.job = doing[0] /\ doing[0] # None
                                            /\ Kind[doing[0]] # "wide"
    /\ at[0] = "bus" /\ bus.type = "idle" /\ doing[0] # None => Kind[doing[0]] = "wide"
    /\ at[0] = "bus" /\ bus.type = "shutdown" => doing[0] = None

(* What rank 0 settles by is what the ranks reported of this delivery. *)
Heard ==
    at[0] = "settle" /\ Kind[doing[0]] # "wide" =>
        whole[doing[0]] = {r \in Ranks : ~ err[r]}

(* A delivery changes a rank's model once at most, after it began. *)
Pending(r, j) == \/ at[r] \in {"running", "collective"} /\ doing[r] = j
                 \/ at[0] = "bus" /\ doing[0] = j
Deliveries ==
    \A j \in Jobs :
        /\ queue[j] = "queued" => attempts[j] < MaxAttempts
        /\ \A r \in Ranks : /\ changed[r][j] <= attempts[j]
                            /\ Pending(r, j) => changed[r][j] < attempts[j]

(* Between jobs and during them, for every rank. *)
InStep == \A j \in Jobs, r \in Ranks :
              Kind[j] = "collective" => changed[r][j] = changed[0][j]

Inv == /\ Types /\ Phase /\ Coordinator /\ Heard /\ Deliveries /\ InStep
       /\ AckMeansAllRan
-----------------------------------------------------------------------------
LEMMA Ranks0 == 0 \in Ranks /\ Ranks \subseteq Nat /\ None \notin Jobs
BY GroupAssumption, SMT DEF Ranks, None

(* Initially the group loops and nothing was delivered. *)
LEMMA InvInit == Init => Inv
BY Ranks0, GroupAssumption DEF Init, Inv, Types, Phase, Looping, Coordinator, Heard,
   Deliveries, Pending, InStep, AckMeansAllRan, Idle

(* The invariant gives the module's own properties. *)
LEMMA InvImplies == Inv => TypeOK /\ AckMeansAllRan /\ RanksAgree
<1> SUFFICES ASSUME Inv PROVE TypeOK /\ RanksAgree
  BY DEF Inv
<1>1. \A r \in Ranks, j \in Jobs : changed[r][j] \in 0 .. MaxAttempts
  BY GroupAssumption DEF Inv, Types, Deliveries
<1> QED
  BY <1>1 DEF Inv, Types, TypeOK, InStep, RanksAgree

LEMMA InvPoll == ASSUME Inv, Poll PROVE Inv'
<1>1. Looping /\ at[0] = "top" /\ doing[0] = None
  BY Ranks0 DEF Inv, Phase, Working, Poll, Coordinator
<1>2. CASE UNCHANGED <<queue, attempts, doing>>
           /\ (faults' = faults \/ Fault)
           /\ \E type \in {"shutdown", "idle"} : Offers([type |-> type, job |-> None])
  BY <1>1, <1>2, Ranks0, GroupAssumption DEF Inv, Types, Phase, Looping, Coordinator,
     Heard, Deliveries, Pending, InStep, AckMeansAllRan, Offers, Fault
<1>3. ASSUME NEW j \in Jobs, queue[j] = "queued",
             queue' = [queue EXCEPT ![j] = "in_flight"],
             attempts' = [attempts EXCEPT ![j] = @ + 1],
             doing' = [doing EXCEPT ![0] = j], UNCHANGED faults,
             Offers(IF Kind[j] = "wide" THEN Idle ELSE [type |-> "job", job |-> j])
      PROVE  Inv'
  <2>1. Types'
    BY <1>3, Ranks0, GroupAssumption DEF Inv, Types, Deliveries, Offers, Idle
  <2>2. at' = [at EXCEPT ![0] = "bus"] /\ UNCHANGED <<err, fate, changed, whole, processed>>
        /\ bus' = IF Kind[j] = "wide" THEN Idle ELSE [type |-> "job", job |-> j]
    BY <1>3 DEF Offers
  <2>3. Looping' /\ Coordinator'
    BY <1>1, <1>3, <2>2, Ranks0 DEF Inv, Types, Looping, Coordinator, Idle
  <2>4. Heard' /\ InStep' /\ AckMeansAllRan'
    BY <1>3, <2>2, Ranks0 DEF Inv, Types, Heard, InStep, AckMeansAllRan
  <2>5. Deliveries'
    BY <1>1, <1>3, <2>2, Ranks0, GroupAssumption
       DEF Inv, Types, Looping, Deliveries, Pending
  <2> QED
    BY <2>1, <2>3, <2>4, <2>5 DEF Inv, Phase
<1> QED
  BY <1>2, <1>3 DEF Poll, Idle

LEMMA InvListen == ASSUME Inv, NEW r \in Ranks, Listen(r) PROVE Inv'
BY Ranks0 DEF Inv, Types, Phase, Looping, Working, Coordinator, Heard, Deliveries,
   Pending, InStep, AckMeansAllRan, Listen

LEMMA InvBroadcast == ASSUME Inv, Broadcast PROVE Inv'
<1>1. Looping /\ at[0] = "bus" /\ \A r \in Ranks : at[r] = "bus"
  BY Ranks0 DEF Inv, Phase, Working, Broadcast, AllAt
<1>2. Types'
  BY <1>1, Ranks0 DEF Inv, Types, Broadcast, AllTo, Coordinator, Idle
<1>3. CASE bus.type = "job"
  <2>1. /\ bus.job = doing[0] /\ doing[0] \in Jobs /\ Kind[doing[0]] # "wide"
        /\ queue[doing[0]] = "in_flight"
    BY <1>1, <1>3, Ranks0 DEF Inv, Types, Coordinator
  <2>2. Working'
    BY <1>1, <1>3, <2>1, Ranks0 DEF Broadcast, AllTo, Working
  <2>3. Coordinator' /\ Heard' /\ InStep' /\ AckMeansAllRan'
    BY <1>1, <1>3, Ranks0 DEF Inv, Types, Broadcast, AllTo, Coordinator, Heard, InStep,
       AckMeansAllRan
  <2>4. Deliveries'
    BY <1>1, <1>3, <2>1, Ranks0 DEF Inv, Types, Broadcast, AllTo, Deliveries, Pending
  <2> QED
    BY <1>2, <2>2, <2>3, <2>4 DEF Inv, Phase
<1>4. CASE bus.type # "job"
  <2>1. /\ at'[0] \in {"top", "settle", "out"}
        /\ at'[0] = "settle" => doing[0] # None /\ bus.type = "idle"
        /\ at'[0] \in {"top", "out"} => doing[0] = None
        /\ \A r \in Ranks \ {0} : at'[r] \in {"top", "out"}
        /\ bus' = Idle /\ err' = [r \in Ranks |-> FALSE]
        /\ UNCHANGED <<queue, attempts, doing, fate, changed, whole, processed, faults>>
    BY <1>1, <1>4, Ranks0 DEF Inv, Types, Broadcast, AllTo, Coordinator
  <2>2. Looping' /\ Coordinator'
    BY <1>1, <2>1, Ranks0 DEF Looping, Inv, Coordinator
  <2>3. at'[0] = "settle" => Kind[doing[0]] = "wide"
    BY <1>1, <2>1 DEF Inv, Coordinator
  <2>4. Heard' /\ InStep' /\ AckMeansAllRan'
    BY <2>1, <2>3 DEF Inv, Heard, InStep, AckMeansAllRan
  <2>5. Deliveries'
    BY <1>1, <2>1, Ranks0 DEF Inv, Deliveries, Pending
  <2> QED
    BY <1>2, <2>2, <2>4, <2>5 DEF Inv, Phase
<1> QED
  BY <1>3, <1>4

(* A handler runs while the group works. *)
LEMMA InvRun == ASSUME Inv, NEW r \in Ranks, Run(r) \/ After(r) PROVE Inv'
<1>1. /\ Working /\ at[0] \in {"running", "collective", "after", "gather"}
      /\ doing[r] = doing[0] /\ doing[r] \in Jobs
  BY Ranks0 DEF Inv, Phase, Looping, Working, Run, After
<1>2. /\ at[r] \in {"running", "after"}
      /\ at' = [at EXCEPT ![r] = at'[r]]
      /\ at'[r] \in {"collective", "after", "gather"}
      /\ at'[r] = "collective" => at[r] = "running"
      /\ \/ changed' = changed
         \/ /\ changed' = [changed EXCEPT ![r][doing[r]] = @ + 1]
            /\ at[r] = "running" /\ at'[r] = "after" /\ Kind[doing[r]] = "local"
  BY DEF Inv, Types, Run, After, Raises, Changes
<1>3. UNCHANGED <<queue, attempts, bus, doing, fate, whole, processed>>
  BY DEF Run, After
<1>4. Types'
  <2>a. /\ err' = err \/ err' = [err EXCEPT ![r] = TRUE]
        /\ faults' = faults \/ (faults < MaxFaults /\ faults' = faults + 1)
    <3>1. ASSUME Run(r) PROVE err' = err \/ err' = [err EXCEPT ![r] = TRUE]
      BY <3>1, Zenon DEF Run, Raises
    <3>2. ASSUME After(r) PROVE err' = err \/ err' = [err EXCEPT ![r] = TRUE]
      BY <3>2, Zenon DEF After, Raises
    <3>3. faults' = faults \/ (faults < MaxFaults /\ faults' = faults + 1)
      BY Zenon DEF Run, After, Fault
    <3> QED
      BY <3>1, <3>2, <3>3
  <2>b. /\ err \in [Ranks -> BOOLEAN] /\ faults \in 0 .. MaxFaults /\ MaxFaults \in Nat
        /\ changed \in [Ranks -> [Jobs -> Nat]]
    BY GroupAssumption DEF Inv, Types
  <2>1. err' \in [Ranks -> BOOLEAN] /\ faults' \in 0 .. MaxFaults
    <3>1. err' \in [Ranks -> BOOLEAN]
      BY <2>a, <2>b
    <3>2. faults' \in 0 .. MaxFaults
      BY <2>a, <2>b
    <3> QED
      BY <3>1, <3>2
  <2>2. at' \in [Ranks -> {"top", "bus", "running", "collective", "after", "gather",
                            "settle", "out", "dead"}]
    BY <1>2 DEF Inv, Types
  <2>3. changed' \in [Ranks -> [Jobs -> Nat]]
    <3>1. CASE changed' = changed
      BY <3>1, <2>b
    <3>2. CASE changed' = [changed EXCEPT ![r][doing[r]] = @ + 1]
      BY <3>2, <2>b, <1>1
    <3> QED
      BY <3>1, <3>2, <1>2
  <2> QED
    BY <1>3, <2>1, <2>2, <2>3 DEF Inv, Types
<1>5. Working' /\ Coordinator' /\ Heard' /\ AckMeansAllRan'
  <2>1. at \in [Ranks -> {"top", "bus", "running", "collective", "after", "gather",
                          "settle", "out", "dead"}]
    BY DEF Inv, Types
  <2>2. Working'
    BY <1>1, <1>2, <1>3, <2>1 DEF Working
  <2>3. at'[0] \in {"running", "collective", "after", "gather"}
    BY <2>2, Ranks0 DEF Working
  <2>4. Coordinator' /\ Heard'
    BY <2>3, <1>3 DEF Coordinator, Heard
  <2>5. AckMeansAllRan'
    BY <1>3 DEF Inv, AckMeansAllRan
  <2> QED
    BY <2>2, <2>4, <2>5
<1>6. Deliveries'
  <2>1. changed \in [Ranks -> [Jobs -> Nat]] /\ attempts \in [Jobs -> 0 .. MaxAttempts]
    BY DEF Inv, Types
  <2>2. \A s \in Ranks, j \in Jobs :
           \/ changed'[s][j] = changed[s][j]
           \/ /\ s = r /\ j = doing[r] /\ changed'[s][j] = changed[s][j] + 1
              /\ at[r] = "running" /\ at'[r] = "after"
    BY <1>1, <1>2, <2>1
  <2>3. \A s \in Ranks, j \in Jobs : Pending(s, j)' => Pending(s, j) /\ ~ (s = r /\ at'[r] = "after")
    BY <1>1, <1>2, <1>3, Ranks0 DEF Inv, Types, Working, Pending
  <2>4. ASSUME NEW s \in Ranks, NEW j \in Jobs
        PROVE  changed'[s][j] <= attempts[j] /\ (Pending(s, j)' => changed'[s][j] < attempts[j])
    <3>1. changed[s][j] <= attempts[j] /\ (Pending(s, j) => changed[s][j] < attempts[j])
      BY DEF Inv, Deliveries
    <3>2. CASE changed'[s][j] = changed[s][j]
      BY <3>1, <3>2, <2>3
    <3>3. CASE /\ s = r /\ j = doing[r] /\ changed'[s][j] = changed[s][j] + 1
               /\ at[r] = "running" /\ at'[r] = "after"
      <4>1. Pending(s, j) /\ ~ Pending(s, j)'
        BY <3>3, <2>3 DEF Pending
      <4> QED
        BY <4>1, <3>1, <3>3, <2>1, GroupAssumption
    <3> QED
      BY <2>2, <3>2, <3>3
  <2> QED
    BY <1>3, <2>4 DEF Inv, Deliveries
<1>7. InStep'
  BY <1>1, <1>2, <1>3, Ranks0 DEF Inv, Types, InStep
<1> QED
  BY <1>4, <1>5, <1>6, <1>7 DEF Inv, Phase

(* All ranks have the same job in a collective. *)
LEMMA InvCollective == ASSUME Inv, Collective PROVE Inv'
<1>1. Working /\ at[0] = "collective" /\ \A r \in Ranks : at[r] = "collective"
  BY Ranks0 DEF Inv, Phase, Looping, Collective, AllAt
<1>2. /\ at' = [r \in Ranks |-> "after"]
      /\ changed' = [r \in Ranks |-> [changed[r] EXCEPT ![doing[r]] = @ + 1]]
      /\ UNCHANGED <<queue, attempts, bus, doing, err, fate, whole, processed, faults>>
  BY DEF Collective, AllTo
<1>3. \A r \in Ranks, j \in Jobs :
         changed'[r][j] = IF j = doing[0] THEN changed[r][j] + 1 ELSE changed[r][j]
  BY <1>1, <1>2 DEF Working, Inv, Types
<1>4. Types'
  BY <1>1, <1>2 DEF Inv, Types, Working
<1>5. Working' /\ Coordinator' /\ Heard' /\ AckMeansAllRan'
  BY <1>1, <1>2, Ranks0 DEF Inv, Types, Working, Coordinator, Heard, AckMeansAllRan
<1>6. Deliveries'
  BY <1>1, <1>2, <1>3, Ranks0 DEF Inv, Types, Deliveries, Pending, Working
<1>7. InStep'
  <2>1. \A j \in Jobs, r \in Ranks : Kind[j] = "collective" => changed'[r][j] = changed'[0][j]
    BY <1>3, Ranks0 DEF Inv, InStep
  <2> QED
    BY <2>1 DEF InStep
<1> QED
  BY <1>4, <1>5, <1>6, <1>7 DEF Inv, Phase

LEMMA InvGather == ASSUME Inv, Gather PROVE Inv'
<1>1. Working /\ at[0] = "gather" /\ \A r \in Ranks : at[r] = "gather"
  BY Ranks0 DEF Inv, Phase, Looping, Gather, AllAt
<1>2. Types'
  BY <1>1, Ranks0 DEF Inv, Types, Gather
<1>3. Looping' /\ Coordinator' /\ Heard' /\ AckMeansAllRan' /\ InStep'
  BY <1>1, Ranks0 DEF Inv, Types, Working, Looping, Coordinator, Heard, AckMeansAllRan,
     InStep, Gather
<1>4. Deliveries'
  BY <1>1, Ranks0 DEF Inv, Types, Deliveries, Pending, Gather
<1> QED
  BY <1>2, <1>3, <1>4 DEF Inv, Phase

(* Rank 0 completes a job only if no rank reported an error. *)
LEMMA InvSettle == ASSUME Inv, Settle PROVE Inv'
<1> DEFINE j == doing[0]
<1>1. Looping /\ at[0] = "settle" /\ j \in Jobs /\ queue[j] = "in_flight"
  BY Ranks0 DEF Inv, Types, Phase, Working, Coordinator, Settle
<1>2. /\ queue' = [queue EXCEPT ![j] = queue'[j]]
      /\ queue'[j] \in {"queued", "completed", "failed"}
      /\ queue'[j] = "queued" => attempts[j] < MaxAttempts
      /\ queue'[j] = "completed" => Kind[j] # "wide" /\ \A r \in Ranks : ~ err[r]
  BY <1>1, Ranks0, GroupAssumption DEF Inv, Types, Settle, Nacked
<1>3. /\ at' = [at EXCEPT ![0] = "top"] /\ doing' = [doing EXCEPT ![0] = None]
      /\ UNCHANGED <<attempts, bus, err, fate, changed, whole, faults>>
      /\ processed' \in Nat
  BY DEF Settle, Inv, Types
<1> HIDE DEF j
<1>4. Types'
  BY <1>1, <1>2, <1>3, Ranks0 DEF Inv, Types
<1>5. Looping' /\ Coordinator' /\ Heard' /\ InStep'
  BY <1>1, <1>3, Ranks0 DEF Inv, Types, Looping, Coordinator, Heard, InStep
<1>6. AckMeansAllRan'
  BY <1>1, <1>2, <1>3, Ranks0 DEF Inv, Types, AckMeansAllRan, Heard, j
<1>7. Deliveries'
  BY <1>1, <1>2, <1>3, Ranks0 DEF Inv, Types, Deliveries, Pending, Looping
<1> QED
  BY <1>4, <1>5, <1>6, <1>7 DEF Inv, Phase

LEMMA InvSettleRaises == ASSUME Inv, SettleRaises PROVE Inv'
BY Ranks0 DEF Inv, Types, Phase, Looping, Working, Coordinator, Heard, Deliveries,
   Pending, InStep, AckMeansAllRan, SettleRaises

LEMMA InvNext == ASSUME Inv, [Next]_vars PROVE Inv'
<1>1. CASE UNCHANGED vars
  BY <1>1 DEF vars, Inv, Types, Phase, Looping, Working, Coordinator, Heard, Deliveries,
     Pending, InStep, AckMeansAllRan
<1> QED
  BY <1>1, InvPoll, InvListen, InvBroadcast, InvRun, InvCollective, InvGather, InvSettle,
     InvSettleRaises DEF Next

(* Whatever handlers raise on whichever ranks: a job acked as completed ran to its end on  *)
(* every rank in that delivery, and the ranks' models have gone through the same           *)
(* collective jobs equally often.                                                          *)
THEOREM GroupInvariant == Spec => [](TypeOK /\ AckMeansAllRan /\ RanksAgree)
<1>1. Init => Inv
  BY InvInit
<1>2. Inv /\ [Next]_vars => Inv'
  BY InvNext
<1>3. Inv => TypeOK /\ AckMeansAllRan /\ RanksAgree
  BY InvImplies
<1> QED
  BY <1>1, <1>2, <1>3, PTL DEF Spec

(* The ranks of a sharded model never drift apart: outside a job each has gone through     *)
(* the same collectives, whichever ranks failed in whichever deliveries.                   *)
THEOREM RanksStayInStep == Spec => []RanksAgree
BY GroupInvariant, PTL

-----------------------------------------------------------------------------
(***************************************************************************)
(* DataPath: one forward_backward, for any requests and workers.           *)
(*                                                                         *)
(* The argument: once the request is queued what a rank makes of it is     *)
(* settled (Settled): its share, its sub-batches, whether taking them or   *)
(* its loss raises.  Ranks with the same work therefore go through the     *)
(* same phases of the same passes (Alike, Abreast), and a batch that orpo  *)
(* does not refuse is in one padded pass of an even number of rows in the  *)
(* order of the request (Paired), since a pack is a pass of one row.       *)
(*                                                                         *)
(* Induction: a set of naturals with 0 and with what follows its members   *)
(* is all of them, since there is no least one that it leaves out.         *)
(***************************************************************************)
LEMMA LeastNat == ASSUME NEW T \in SUBSET Nat, T # {} PROVE \E i \in T : \A j \in T : i <= j
<1>1. \E i \in T : \A j \in T : ~ (<<j, i>> \in OpToRel(<, Nat))
  BY NatLessThanWellFounded, WFMin, Zenon
<1>2. PICK i \in T : \A j \in T : ~ (j < i)
  BY <1>1 DEF OpToRel
<1>3. \A j \in T : i <= j
  BY <1>2
<1> QED
  BY <1>3

LEMMA AllNaturals ==
    ASSUME NEW S \in SUBSET Nat, 0 \in S, \A n \in S : n + 1 \in S
    PROVE  S = Nat
<1> SUFFICES ASSUME Nat \ S # {} PROVE FALSE
  OBVIOUS
<1>1. PICK i \in Nat \ S : \A j \in Nat \ S : i <= j
  BY LeastNat
<1>2. i # 0 /\ i - 1 \in Nat /\ i - 1 \notin Nat \ S
  BY <1>1
<1> QED
  BY <1>1, <1>2

(* A finite set of naturals has a greatest element. *)
LEMMA GreatestNat ==
    ASSUME NEW S \in SUBSET Nat, IsFiniteSet(S), S # {}
    PROVE  Max(S) \in S /\ \A y \in S : y <= Max(S)
<1> DEFINE Bounded(T) == T = {} \/ \E x \in T : \A y \in T : y <= x
           Sizes == {n \in Nat : \A T \in SUBSET Nat :
                        IsFiniteSet(T) /\ Cardinality(T) = n => Bounded(T)}
<1>1. 0 \in Sizes
  BY FS_EmptySet
<1>2. ASSUME NEW n \in Sizes PROVE n + 1 \in Sizes
  <2> SUFFICES ASSUME NEW T \in SUBSET Nat, IsFiniteSet(T), Cardinality(T) = n + 1, T # {}
               PROVE  \E x \in T : \A y \in T : y <= x
    OBVIOUS
  <2>1. PICK z : z \in T
    OBVIOUS
  <2>2. IsFiniteSet(T \ {z}) /\ Cardinality(T \ {z}) = n
    <3>1. IsFiniteSet(T \ {z}) /\ Cardinality(T \ {z}) = Cardinality(T) - 1
      BY <2>1, FS_RemoveElement
    <3> QED
      BY <3>1
  <2>3. Bounded(T \ {z})
    BY <2>2
  <2>4. CASE T \ {z} = {}
    BY <2>1, <2>4
  <2>5. CASE T \ {z} # {}
    <3>1. PICK x \in T \ {z} : \A y \in T \ {z} : y <= x
      BY <2>3, <2>5
    <3>2. CASE z <= x
      BY <3>1, <3>2
    <3>3. CASE ~ (z <= x)
      BY <2>1, <3>1, <3>3
    <3> QED
      BY <3>2, <3>3
  <2> QED
    BY <2>4, <2>5
<1>3. Sizes = Nat
  <2> HIDE DEF Sizes
  <2>1. Sizes \in SUBSET Nat
    BY DEF Sizes
  <2> QED
    BY <1>1, <1>2, <2>1, AllNaturals
<1>4. \E x \in S : \A y \in S : y <= x
  BY <1>3, FS_CardinalityType
<1>5. \E x \in S : \A y \in S : x >= y
  BY <1>4
<1>6. Max(S) \in S /\ \A y \in S : Max(S) >= y
  BY <1>5, Zenon DEF Max
<1> QED
  BY <1>6

(* A fold over a finite set has a value for each of its subsets (MapThenFoldSet), and it is
   of the type that a step keeps. *)
Folds(g, D, pick, base, step) ==
    g = [s \in SUBSET D |-> IF s = {} THEN base ELSE step[<<pick[s], g[s \ {pick[s]}]>>]]

LEMMA FoldExists ==
    ASSUME NEW D, IsFiniteSet(D), NEW pick, \A s \in SUBSET D : s # {} => pick[s] \in s,
           NEW base, NEW step
    PROVE  \E g : Folds(g, D, pick, base, step)
<1> DEFINE Small(n) == {s \in SUBSET D : Cardinality(s) <= n}
           Unrolled(g, n) == [s \in Small(n) |->
               IF s = {} THEN base ELSE step[<<pick[s], g[s \ {pick[s]}]>>]]
           Sizes == {n \in Nat : \E g : g = Unrolled(g, n)}
<1>1. \A s \in SUBSET D : IsFiniteSet(s) /\ Cardinality(s) \in Nat
  BY FS_Subset, FS_CardinalityType
<1>2. 0 \in Sizes
  <2> DEFINE g == [s \in Small(0) |-> base]
  <2>1. \A s \in Small(0) : s = {}
    BY <1>1, FS_EmptySet
  <2>2. g = Unrolled(g, 0)
    BY <2>1
  <2> QED
    BY <2>2
<1>3. ASSUME NEW n \in Sizes PROVE n + 1 \in Sizes
  <2>1. PICK g : g = Unrolled(g, n)
    OBVIOUS
  <2> DEFINE h == Unrolled(g, n + 1)
  <2>2. \A s \in Small(n) : s \in Small(n + 1) /\ h[s] = g[s]
    <3> SUFFICES ASSUME NEW s \in Small(n) PROVE s \in Small(n + 1) /\ h[s] = g[s]
      OBVIOUS
    <3>1. s \in Small(n + 1)
      BY <1>1
    <3>2. g[s] = Unrolled(g, n)[s]
      BY <2>1
    <3> QED
      BY <3>1, <3>2
  <2>3. \A s \in Small(n + 1) : s # {} => s \ {pick[s]} \in Small(n)
    <3> SUFFICES ASSUME NEW s \in Small(n + 1), s # {} PROVE s \ {pick[s]} \in Small(n)
      OBVIOUS
    <3>1. pick[s] \in s /\ IsFiniteSet(s)
      BY <1>1
    <3>2. Cardinality(s \ {pick[s]}) = Cardinality(s) - 1
      BY <3>1, FS_RemoveElement
    <3> QED
      BY <1>1, <3>2
  <2>4. \A s \in Small(n + 1) : h[s] = Unrolled(h, n + 1)[s]
    BY <2>2, <2>3
  <2>5. h = Unrolled(h, n + 1)
    BY <2>4
  <2>6. \E f : f = Unrolled(f, n + 1)
    BY <2>5, Zenon
  <2> HIDE DEF Unrolled
  <2> QED
    BY <2>6
<1>4. Sizes = Nat
  <2> HIDE DEF Sizes
  <2>1. Sizes \in SUBSET Nat
    BY DEF Sizes
  <2> QED
    BY <1>2, <1>3, <2>1, AllNaturals
<1>5. Small(Cardinality(D)) = SUBSET D /\ Cardinality(D) \in Nat
  BY FS_Subset, FS_CardinalityType
<1>6. PICK g : g = Unrolled(g, Cardinality(D))
  BY <1>4, <1>5
<1>7. Folds(g, D, pick, base, step)
  BY <1>5, <1>6 DEF Folds
<1> QED
  BY <1>7

(* What holds of no element, and of a set when it holds without the one picked, holds of all
   subsets of a finite set. *)
LEMMA SubsetInduction ==
    ASSUME NEW D, IsFiniteSet(D), NEW pick, \A s \in SUBSET D : s # {} => pick[s] \in s,
           NEW A, NEW g, g[{}] \in A,
           \A s \in SUBSET D : s # {} /\ g[s \ {pick[s]}] \in A => g[s] \in A
    PROVE  \A s \in SUBSET D : g[s] \in A
<1> DEFINE Sizes == {n \in Nat : \A s \in SUBSET D : Cardinality(s) = n => g[s] \in A}
<1>1. \A s \in SUBSET D : IsFiniteSet(s) /\ Cardinality(s) \in Nat
  BY FS_Subset, FS_CardinalityType
<1>3. 0 \in Sizes
  BY <1>1, FS_EmptySet
<1>4. ASSUME NEW n \in Sizes PROVE n + 1 \in Sizes
  <2> SUFFICES ASSUME NEW s \in SUBSET D, Cardinality(s) = n + 1 PROVE g[s] \in A
    OBVIOUS
  <2>1. s # {}
    <3>1. Cardinality({}) = 0 /\ n \in Nat
      BY FS_EmptySet
    <3> QED
      BY <3>1
  <2>2. pick[s] \in s /\ Cardinality(s \ {pick[s]}) = n
    <3>1. pick[s] \in s /\ IsFiniteSet(s)
      BY <1>1, <2>1
    <3>2. Cardinality(s \ {pick[s]}) = Cardinality(s) - 1
      BY <3>1, FS_RemoveElement
    <3> QED
      BY <3>1, <3>2
  <2>3. g[s \ {pick[s]}] \in A
    BY <2>2
  <2> QED
    BY <2>1, <2>3
<1>5. Sizes = Nat
  <2> HIDE DEF Sizes
  <2>1. Sizes \in SUBSET Nat
    BY DEF Sizes
  <2> QED
    BY <1>3, <1>4, <2>1, AllNaturals
<1> QED
  BY <1>1, <1>5
-----------------------------------------------------------------------------
(* Packing: every document finds a bin, so a share that is not empty has packs. *)
(* A document has a place in a pack there is, or in a new one. *)
LEMMA PlaceSome ==
    ASSUME NEW docs, NEW limit, NEW I, NEW bins \in Seq(SUBSET I), NEW i \in I
    PROVE  Place(docs, limit, bins, i) \in Seq(SUBSET I) \ {<<>>}
<1> DEFINE roomy == {b \in DOMAIN bins : Size(docs, bins[b] \cup {i}) <= limit}
           m == Min(roomy)
<1>1. CASE roomy = {}
  <2>1. Append(bins, {i}) \in Seq(SUBSET I) \ {<<>>}
    OBVIOUS
  <2> QED
    BY <1>1, <2>1 DEF Place
<1>2. CASE roomy # {}
  <2> HIDE DEF m
  <2>1. bins # <<>>
    <3>1. PICK b : b \in DOMAIN bins
      BY <1>2
    <3> QED
      BY <3>1
  <2> DEFINE placed == [bins EXCEPT ![m] = @ \cup {i}]
  <2>2. DOMAIN bins = 1 .. Len(bins) /\ Len(bins) \in Nat \ {0}
    BY <2>1
  <2>3. \A b \in DOMAIN bins : placed[b] \in SUBSET I
    OBVIOUS
  <2>4. placed \in [1 .. Len(bins) -> SUBSET I]
    BY <2>2, <2>3
  <2>5. placed \in Seq(SUBSET I) /\ placed # <<>>
    <3> HIDE DEF placed
    <3>1. placed \in Seq(SUBSET I) /\ DOMAIN placed = 1 .. Len(bins)
      BY <2>2, <2>4
    <3> QED
      BY <2>2, <3>1
  <2>6. Place(docs, limit, bins, i) = placed
    BY <1>2 DEF Place, m
  <2> QED
    BY <2>5, <2>6
<1> QED
  BY <1>1, <1>2

LEMMA BinsSome ==
    ASSUME NEW docs, NEW share, IsFiniteSet(ToSet(share)), ToSet(share) # {}, NEW limit
    PROVE  Bins(docs, share, limit) \in Seq(SUBSET ToSet(ByLength(docs, share))) \ {<<>>}
<1> DEFINE q == ByLength(docs, share)
           D == DOMAIN q
           I == ToSet(q)
           A == Seq(SUBSET I)
           pick == [s \in SUBSET D |-> Max(s)]
           step == [p \in D \X A |-> Place(docs, limit, p[2], q[p[1]])]
           Steps(g) == g = [s \in SUBSET D |->
                               IF s = {} THEN <<>>
                               ELSE Place(docs, limit, g[s \ {Max(s)}], q[Max(s)])]
           f == CHOOSE g : Steps(g)
<1>1. D = 1 .. Cardinality(ToSet(share)) /\ Cardinality(ToSet(share)) \in Nat \ {0}
  BY FS_CardinalityType, FS_EmptySet DEF ByLength
<1>2. IsFiniteSet(D) /\ D \in SUBSET Nat /\ D # {}
  <2> HIDE DEF D
  <2>1. IsFiniteSet(D)
    BY <1>1, FS_Interval
  <2>2. D \in SUBSET Nat /\ 1 \in D
    BY <1>1
  <2> QED
    BY <2>1, <2>2
<1>3. \A s \in SUBSET D : s # {} => Max(s) \in s
  <2> HIDE DEF D
  <2> SUFFICES ASSUME NEW s \in SUBSET D, s # {} PROVE Max(s) \in s
    OBVIOUS
  <2>1. IsFiniteSet(s) /\ s \in SUBSET Nat
    BY <1>2, FS_Subset
  <2> QED
    BY <2>1, GreatestNat
<1>4. \A x \in D, a \in A : Place(docs, limit, a, q[x]) \in A \ {<<>>}
  <2> SUFFICES ASSUME NEW x \in D, NEW a \in A PROVE Place(docs, limit, a, q[x]) \in A \ {<<>>}
    OBVIOUS
  <2>1. q[x] \in I
    BY DEF ToSet
  <2> HIDE DEF q, D, I
  <2> QED
    BY <2>1, PlaceSome
<1>5. Bins(docs, share, limit) = f[D]
  BY DEF Bins, FoldLeft, MapThenFoldSet
<1>0. <<>> \in A
  OBVIOUS
<1> HIDE DEF q, D, I, A
<1>6. \A s \in SUBSET D : s # {} => pick[s] \in s
  BY <1>3
<1>7. \E g : Steps(g)
  <2>2. \A x \in D, a \in A : step[<<x, a>>] \in A
    BY <1>4
  <2> HIDE DEF pick, step
  <2>4. PICK g : Folds(g, D, pick, <<>>, step)
    BY <1>2, <1>6, FoldExists
  <2>5. \A s \in SUBSET D : g[s] = IF s = {} THEN <<>> ELSE step[<<pick[s], g[s \ {pick[s]}]>>]
    BY <2>4 DEF Folds
  <2>7. ASSUME NEW s \in SUBSET D, s # {} /\ g[s \ {pick[s]}] \in A PROVE g[s] \in A
    <3>1. pick[s] \in D
      BY <1>6, <2>7
    <3> QED
      BY <2>2, <2>5, <2>7, <3>1
  <2>8. g[{}] \in A
    BY <1>0, <2>5
  <2>9. \A s \in SUBSET D : g[s] \in A
    BY <1>2, <1>6, <2>7, <2>8, SubsetInduction
  <2>10. \A s \in SUBSET D : s # {} =>
           step[<<pick[s], g[s \ {pick[s]}]>>] = Place(docs, limit, g[s \ {Max(s)}], q[Max(s)])
    <3> SUFFICES ASSUME NEW s \in SUBSET D, s # {}
                 PROVE  step[<<pick[s], g[s \ {pick[s]}]>>]
                          = Place(docs, limit, g[s \ {Max(s)}], q[Max(s)])
      OBVIOUS
    <3>1. pick[s] = Max(s) /\ Max(s) \in D /\ g[s \ {Max(s)}] \in A
      BY <1>3, <2>9 DEF pick
    <3> QED
      BY <3>1 DEF step
  <2>11. Steps(g)
    BY <2>4, <2>10 DEF Folds
  <2> QED
    BY <2>11
<1>8. Steps(f)
  BY <1>7
<1>9. \A s \in SUBSET D : f[s] = IF s = {} THEN <<>>
                                   ELSE Place(docs, limit, f[s \ {Max(s)}], q[Max(s)])
  BY <1>8
<1> HIDE DEF f
<1>10. \A s \in SUBSET D : s # {} /\ f[s \ {pick[s]}] \in A => f[s] \in A \ {<<>>}
  <2> SUFFICES ASSUME NEW s \in SUBSET D, s # {}, f[s \ {pick[s]}] \in A PROVE f[s] \in A \ {<<>>}
    OBVIOUS
  <2>1. pick[s] = Max(s) /\ Max(s) \in D
    BY <1>3
  <2> QED
    BY <1>4, <1>9, <2>1
<1>11. f[{}] \in A
  BY <1>0, <1>9
<1>12. \A s \in SUBSET D : f[s] \in A
  BY <1>2, <1>6, <1>10, <1>11, SubsetInduction
<1>13. f[D \ {pick[D]}] \in A
  BY <1>12
<1>14. f[D] \in A \ {<<>>}
  BY <1>2, <1>10, <1>13
<1> QED
  BY <1>5, <1>14 DEF A, I, q

(* The gateway's part: the items are the conversions of the first datums, in their order. *)
Parsed ==
    /\ post \in Posts /\ setup \in Setups
    /\ Len(items) \in 0 .. Len(post.data)
    /\ items = [i \in 1 .. Len(items) |-> TrainingItem(post.data[i])]
    /\ \A i \in DOMAIN items : WellFormed(items[i])
    /\ status \in {"parsing", "queued", "refused"}
    /\ status = "parsing" => Len(items) < Len(post.data)
    /\ status = "queued" => Len(items) = Len(post.data)
    /\ status # "queued" => \A r \in DPRanks : stage[r] = "idle"

(* The ranks' parts: what a rank works through are its own sub-batches. *)
AtWork(r) == stage[r] \in {"forward", "backward", "done"}
Taken ==
    /\ stage \in [DPRanks -> {"idle", "forward", "backward", "done", "raised"}]
    /\ DOMAIN batches = DPRanks /\ pass \in [DPRanks -> Nat]
    /\ \A r \in DPRanks :
           /\ AtWork(r) => ~PrepareRaises(r) /\ batches[r] = SubBatches(r)
           /\ stage[r] = "idle" => pass[r] = 1

(* The request and the worker are known, and the items are all there. *)
Setting == Parsed /\ status = "queued"

(* What the assumptions say of the request and of the worker's ranks. *)
LEMMA SetupTyped ==
    ASSUME Parsed
    PROVE  /\ setup.dp \in Nat \ {0} /\ setup.strategy \in {"auto", "split", "replicate"}
           /\ 0 \in DPRanks /\ \A r \in DPRanks : r \in Nat /\ r < setup.dp
           /\ Len(items) \in Nat /\ DOMAIN items = 1 .. Len(items)
           /\ post.data \in Seq(ToSet(post.data)) /\ Len(post.data) >= 1
<1>1. setup.dp \in Nat \ {0} /\ setup.strategy \in {"auto", "split", "replicate"}
  BY DataPathAssumption DEF Parsed
<1>2. post.data \in Seq(ToSet(post.data)) /\ post.data # <<>>
  BY DataPathAssumption DEF Parsed
<1>3. Len(post.data) \in Nat /\ Len(post.data) >= 1
  BY <1>2
<1>4. Len(items) \in Nat /\ DOMAIN items = 1 .. Len(items)
  BY <1>3 DEF Parsed
<1> QED
  BY <1>1, <1>2, <1>3, <1>4 DEF DPRanks

-----------------------------------------------------------------------------
(* Shares. *)
(* n divided evenly. *)
LEMMA Parts ==
    ASSUME NEW n \in Nat, NEW d \in Nat \ {0}, n % d = 0
    PROVE  n \div d \in Nat /\ n = d * (n \div d)
OBVIOUS

(* Item i of part r is one of the whole. *)
LEMMA PartInside ==
    ASSUME NEW d \in Nat \ {0}, NEW m \in Nat, NEW r \in Nat, r < d, NEW i \in 1 .. m
    PROVE  r * m + i \in 1 .. d * m
<1>1. r * m \in Nat /\ d * m \in Nat /\ (r + 1) * m <= d * m
  OBVIOUS
<1>2. (r + 1) * m = r * m + m
  OBVIOUS
<1> QED
  BY <1>1, <1>2

(* A rank's share is everything when the batch is replicated, else an equal run of it. *)
LEMMA ShareInside ==
    ASSUME Parsed, NEW r \in DPRanks, ~AllocationRaises(setup.strategy, Len(items), setup.dp)
    PROVE  /\ Replicated => MyShare(r) = [i \in 1 .. Len(items) |-> i]
           /\ ~Replicated =>
                 /\ Len(items) \div setup.dp \in Nat
                 /\ Len(items) = setup.dp * (Len(items) \div setup.dp)
                 /\ MyShare(r) = [i \in 1 .. Len(items) \div setup.dp |->
                                      r * (Len(items) \div setup.dp) + i]
           /\ ToSet(MyShare(r)) \subseteq DOMAIN items
           /\ \E m \in Nat : DOMAIN MyShare(r) = 1 .. m /\ Len(MyShare(r)) = m
<1> USE SetupTyped
<1>1. CASE Replicated
  <2>1. MyShare(r) = [i \in 1 .. Len(items) |-> i]
    BY <1>1 DEF Replicated, MyShare, Share
  <2>2. ToSet(MyShare(r)) = 1 .. Len(items) /\ DOMAIN MyShare(r) = 1 .. Len(items)
        /\ Len(MyShare(r)) = Len(items)
    BY <2>1 DEF ToSet
  <2> QED
    BY <1>1, <2>1, <2>2
<1>2. CASE ~Replicated
  <2>1. Len(items) % setup.dp = 0
    BY <1>2 DEF AllocationRaises, Replicated, Resolved
  <2> DEFINE m == Len(items) \div setup.dp
  <2>2. m \in Nat /\ Len(items) = setup.dp * m
    BY <2>1, Parts
  <2>3. MyShare(r) = [i \in 1 .. m |-> r * m + i]
    BY <1>2 DEF Replicated, MyShare, Share
  <2> HIDE DEF m
  <2>4. \A i \in 1 .. m : r * m + i \in 1 .. Len(items)
    BY <2>2, PartInside
  <2>5. ToSet(MyShare(r)) \subseteq DOMAIN items
    BY <2>3, <2>4 DEF ToSet
  <2>6. DOMAIN MyShare(r) = 1 .. m /\ Len(MyShare(r)) = m
    BY <2>2, <2>3
  <2> QED
    BY <1>2, <2>2, <2>3, <2>5, <2>6 DEF m
<1> QED
  BY <1>1, <1>2

(* No rank is left without an item. *)
LEMMA ShareSome ==
    ASSUME Setting, NEW r \in DPRanks, ~AllocationRaises(setup.strategy, Len(items), setup.dp)
    PROVE  1 \in DOMAIN MyShare(r) /\ ToSet(MyShare(r)) # {} /\ IsFiniteSet(ToSet(MyShare(r)))
<1> USE DEF Setting
<1>1. Len(items) \in Nat /\ Len(items) >= 1 /\ setup.dp \in Nat \ {0} /\ DOMAIN items = 1 .. Len(items)
  BY SetupTyped DEF Parsed
<1>2. 1 \in DOMAIN MyShare(r)
  <2>1. CASE Replicated
    BY <1>1, <2>1, ShareInside
  <2>2. CASE ~Replicated
    <3> DEFINE m == Len(items) \div setup.dp
    <3>1. m \in Nat /\ Len(items) = setup.dp * m /\ DOMAIN MyShare(r) = 1 .. m
      BY <2>2, ShareInside
    <3> HIDE DEF m
    <3>2. m # 0
      BY <1>1, <3>1
    <3> QED
      BY <3>1, <3>2
  <2> QED
    BY <2>1, <2>2
<1>3. IsFiniteSet(ToSet(MyShare(r)))
  <2>1. IsFiniteSet(DOMAIN items)
    BY <1>1, FS_Interval
  <2>2. ToSet(MyShare(r)) \subseteq DOMAIN items
    BY ShareInside
  <2> QED
    BY <2>1, <2>2, FS_Subset
<1> QED
  BY <1>2, <1>3 DEF ToSet
-----------------------------------------------------------------------------
(* Ranks with the same work fare alike. *)
(* The labels of an item are a tensor. *)
LEMMA LabelsRecord ==
    ASSUME NEW i, items[i] = TrainingItem(post.data[i])
    PROVE  \E a, b : items[i].labels = [dim |-> a, rows |-> b]
<1>1. items[i].labels \in {Reshape(post.data[i].inputs["target_tokens"]), Vector(post.data[i].ids)}
  BY DEF TrainingItem
<1>2. \A s : \E a, b : Vector(s) = [dim |-> a, rows |-> b]
  BY DEF Vector
<1>3. \A s : \E a, b : Matrix(s) = [dim |-> a, rows |-> b]
  BY DEF Matrix
<1>4. \E a, b : Raised = [dim |-> a, rows |-> b]
  BY DEF Raised
<1>5. \A td : \E a, b : ExpandSparse(td) = [dim |-> a, rows |-> b]
  BY <1>2, <1>3, <1>4 DEF ExpandSparse, ExpandVector
<1>6. \A td : \E a, b : Reshape(td) = [dim |-> a, rows |-> b]
  BY <1>2, <1>3, <1>4, <1>5 DEF Reshape
<1> QED
  BY <1>1, <1>2, <1>6

(* What a rank reads has the shapes that came from the gateway, and some text. *)
LEMMA ReadShapes ==
    ASSUME Parsed
    PROVE  /\ DOMAIN Read = DOMAIN items
           /\ \A i \in DOMAIN items : /\ Read[i].labels.dim = items[i].labels.dim
                                       /\ Read[i].logprobs = items[i].logprobs
                                       /\ Read[i].weights = items[i].weights
                                       /\ Read[i].ids \in Seq(Int) \ {<<>>}
<1>1. \A i \in DOMAIN items : items[i] = TrainingItem(post.data[i]) /\ i \in 1 .. Len(post.data)
  BY SetupTyped DEF Parsed
<1>2. \A i \in DOMAIN items : /\ items[i] = [ids |-> items[i].ids, labels |-> items[i].labels,
                                   weights |-> items[i].weights, logprobs |-> items[i].logprobs,
                                   images |-> items[i].images]
                              /\ items[i].ids = post.data[i].ids
  BY <1>1 DEF TrainingItem
<1>3. \A i \in DOMAIN items : /\ items[i].ids \in Seq(Int) \ {<<>>}
                              /\ Text(items[i].ids) \in Seq(Int) \ {<<>>}
  <2> SUFFICES ASSUME NEW i \in DOMAIN items
               PROVE  {items[i].ids, Text(items[i].ids)} \subseteq Seq(Int) \ {<<>>}
    OBVIOUS
  <2>1. post.data[i] \in ToSet(post.data)
    BY <1>1, SetupTyped DEF ToSet
  <2>2. {post.data[i].ids, Text(post.data[i].ids)} \subseteq Seq(Int) \ {<<>>}
    BY <2>1, DataPathAssumption DEF Parsed
  <2>3. items[i].ids = post.data[i].ids
    BY <1>2
  <2> QED
    BY <2>2, <2>3
<1>4. CASE ~setup.vlm
  BY <1>3, <1>4 DEF Read
<1>5. CASE setup.vlm
  <2>1. DOMAIN Read = DOMAIN items /\ \A i \in DOMAIN items : Read[i] = Stripped(items[i])
    BY <1>5 DEF Read
  <2>2. ASSUME NEW i \in DOMAIN items
        PROVE  /\ Stripped(items[i]).labels.dim = items[i].labels.dim
               /\ Stripped(items[i]).logprobs = items[i].logprobs
               /\ Stripped(items[i]).weights = items[i].weights
               /\ Stripped(items[i]).ids \in {items[i].ids, Text(items[i].ids)}
    <3> DEFINE l == items[i].labels
    <3>1. /\ items[i] = [ids |-> items[i].ids, labels |-> l, weights |-> items[i].weights,
                         logprobs |-> items[i].logprobs, images |-> items[i].images]
          /\ \E a, b : l = [dim |-> a, rows |-> b]
      BY <1>1, <1>2, LabelsRecord
    <3>2. TextLabels(l).dim = l.dim
      <4> HIDE DEF l
      <4> QED
        BY <3>1 DEF TextLabels
    <3>3. CASE items[i].images
      BY <3>3 DEF Stripped
    <3>4. CASE ~items[i].images
      <4>1. Stripped(items[i]) = [items[i] EXCEPT !.ids = Text(@), !.labels = TextLabels(@)]
        BY <3>4 DEF Stripped
      <4> HIDE DEF l
      <4>2. Stripped(items[i]).labels = TextLabels(l)
        BY <3>1, <4>1 DEF l
      <4>3. /\ Stripped(items[i]).logprobs = items[i].logprobs
            /\ Stripped(items[i]).weights = items[i].weights
            /\ Stripped(items[i]).ids = Text(items[i].ids)
        BY <3>1, <4>1
      <4> QED
        BY <3>2, <4>2, <4>3 DEF l
    <3> QED
      BY <3>3, <3>4
  <2> QED
    BY <1>3, <2>1, <2>2
<1> QED
  BY <1>4, <1>5
(* An item has old logprobs unless their rank is 0: no conversion returns rank 0. *)
LEMMA ScalarDims ==
    ASSUME Parsed, NEW i \in DOMAIN items
    PROVE  items[i].logprobs = Absent <=> items[i].logprobs.dim = 0
<1>1. items[i] = TrainingItem(post.data[i])
  BY SetupTyped DEF Parsed
<1>2. items[i].logprobs = Given(post.data[i], "logprobs")
  BY <1>1 DEF TrainingItem
<1>3. ASSUME NEW td PROVE Reshape(td).dim # 0
  <2>1. \A x : Vector(x).dim = 1 /\ Matrix(x).dim = 2 /\ Raised.dim = -1
    BY DEF Vector, Matrix, Raised
  <2>2. ExpandSparse(td).dim # 0
    <3> HIDE DEF Vector, Matrix, Raised
    <3> QED
      BY <2>1 DEF ExpandSparse, ExpandVector
  <2> QED
    BY <2>1, <2>2 DEF Reshape
<1>4. Absent.dim = 0
  BY DEF Absent
<1> QED
  BY <1>2, <1>3, <1>4 DEF Given

(* The values of a function on a finite set are finitely many. *)
LEMMA FiniteImage ==
    ASSUME NEW S, IsFiniteSet(S), NEW f
    PROVE  IsFiniteSet({f[x] : x \in S})
<1> DEFINE T == {f[x] : x \in S}
           g == [x \in S |-> f[x]]
<1>1. g \in [S -> T] /\ \A t \in T : \E x \in S : g[x] = t
  OBVIOUS
<1>2. g \in Surjection(S, T)
  BY <1>1 DEF Surjection
<1> QED
  BY <1>2, FS_Surjection

(* The longest. *)
LEMMA Longest ==
    ASSUME NEW docs, NEW S, IsFiniteSet(S), S # {}, \A i \in S : Len(docs[i].ids) \in Nat
    PROVE  LET L == Max({Len(docs[i].ids) : i \in S})
           IN  L \in Nat /\ \A i \in S : Len(docs[i].ids) <= L
<1> DEFINE f == [i \in S |-> Len(docs[i].ids)]
           lens == {Len(docs[i].ids) : i \in S}
<1>1. lens = {f[i] : i \in S} /\ lens \in SUBSET Nat /\ lens # {}
  OBVIOUS
<1>2. IsFiniteSet(lens)
  <2>1. IsFiniteSet({f[i] : i \in S})
    <3> HIDE DEF f
    <3> QED
      BY FiniteImage
  <2> QED
    BY <1>1, <2>1
<1>3. \A i \in S : Len(docs[i].ids) \in lens
  OBVIOUS
<1> HIDE DEF lens
<1>4. Max(lens) \in lens /\ \A y \in lens : y <= Max(lens)
  BY <1>1, <1>2, GreatestNat
<1> QED
  BY <1>1, <1>3, <1>4 DEF lens

(* The case of SameWork that is not replication: a batch split without packing, of well-shaped items that have the same inputs. *)
Scalar ==
    /\ ~setup.packing \/ post.perDatum
    /\ \A i \in DOMAIN items :
           /\ Square(Read[i]) /\ items[i].labels.dim = 1 /\ items[i].weights.dim # 2
           /\ Over(Read[i], items[i].logprobs) = 0
           /\ items[i].logprobs.dim = items[1].logprobs.dim

(* The rows of a share are as long as its longest item. *)
LEMMA LongestRow ==
    ASSUME Setting, NEW r \in DPRanks, ~AllocationRaises(setup.strategy, Len(items), setup.dp)
    PROVE  /\ MaxLen(Read, MyShare(r)) \in Nat
           /\ \A i \in ToSet(MyShare(r)) : /\ Len(Read[i].ids) \in Nat \ {0}
                                           /\ Len(Read[i].ids) <= MaxLen(Read, MyShare(r))
<1>1. ToSet(MyShare(r)) \subseteq DOMAIN items
  BY ShareInside DEF Setting
<1>2. ToSet(MyShare(r)) # {} /\ IsFiniteSet(ToSet(MyShare(r)))
  BY ShareSome
<1>3. \A i \in ToSet(MyShare(r)) : Len(Read[i].ids) \in Nat \ {0}
  <2>1. \A i \in DOMAIN items : Read[i].ids \in Seq(Int) \ {<<>>}
    BY ReadShapes DEF Setting
  <2>2. \A s \in Seq(Int) \ {<<>>} : Len(s) \in Nat \ {0}
    OBVIOUS
  <2> QED
    BY <1>1, <2>1, <2>2
<1> QED
  BY <1>2, <1>3, Longest DEF MaxLen

(* Each rank's part is then one padded sub-batch without soft labels, and whether it has the
   logprobs a loss needs is the same for all. *)
LEMMA ScalarRank ==
    ASSUME Setting, Scalar, NEW r \in DPRanks,
           ~AllocationRaises(setup.strategy, Len(items), setup.dp)
    PROVE  /\ ~PrepareRaises(r) /\ ~Packs(r)
           /\ SubBatches(r) = <<Padded(Read, MyShare(r))>>
           /\ ~Clash(Read, MyShare(r), post.loss)
           /\ (\E i \in ToSet(MyShare(r)) : items[i].logprobs # Absent) <=> items[1].logprobs.dim # 0
<1> USE DEF Setting
<1>1. ~Packs(r)
  BY DEF Packs, Scalar
<1>2. SubBatches(r) = <<Padded(Read, MyShare(r))>>
  BY <1>1 DEF SubBatches
<1>3. ToSet(MyShare(r)) \subseteq DOMAIN items
  BY ShareInside
<1>4. \A n \in DOMAIN MyShare(r) : MyShare(r)[n] \in DOMAIN items
  BY <1>3 DEF ToSet
<1>5. Width(Read, MyShare(r)) = 0
  <2>1. \A n \in DOMAIN MyShare(r) : Read[MyShare(r)[n]].labels.dim # 2
    <3>1. \A i \in DOMAIN items : Read[i].labels.dim = items[i].labels.dim
      BY ReadShapes
    <3>2. \A i \in DOMAIN items : items[i].labels.dim = 1
      BY DEF Scalar
    <3> HIDE DEF Setting
    <3> QED
      BY <1>4, <3>1, <3>2
  <2> QED
    BY <2>1 DEF Width
<1> DEFINE share == MyShare(r)
           T == ToSet(share)
<1>6. \A i \in T : /\ Len(Read[i].ids) \in Nat /\ Read[i].weights.dim # 2
                   /\ Len(Read[i].labels.rows) = Len(Read[i].ids)
                   /\ Read[i].weights # Absent => Len(Read[i].weights.rows) = Len(Read[i].ids)
                   /\ Over(Read[i], Read[i].logprobs) = 0
  <2>1. \A i \in DOMAIN items : Read[i].weights = items[i].weights /\ Read[i].logprobs = items[i].logprobs
    BY ReadShapes
  <2>2. \A i \in T : Len(Read[i].ids) \in Nat
    BY LongestRow
  <2> HIDE DEF Setting
  <2> QED
    BY <1>3, <2>1, <2>2 DEF Scalar, Square
<1>6a. \A i \in T : Over(Read[i], Read[i].labels) = 0 /\ Over(Read[i], Read[i].weights) = 0
  BY <1>6 DEF Over
<1>6b. /\ \A x \in LabelOvers(Read, share) : x = 0
       /\ \A x \in WeightOvers(Read, share) : x = 0
       /\ \A x \in LogprobOvers(Read, share) : x = 0
       /\ \A x \in WeightWidths(Read, share) : x = 0
  <2> HIDE DEF share, Setting
  <2>1. \A x \in LabelOvers(Read, share) : x = 0
    BY <1>6a DEF LabelOvers
  <2>2. \A x \in WeightOvers(Read, share) : x = 0
    BY <1>6a DEF WeightOvers
  <2>3. \A x \in LogprobOvers(Read, share) : x = 0
    BY <1>6 DEF LogprobOvers
  <2>4. Width(Read, share) = 0 /\ {j \in ToSet(share) : Read[j].weights.dim = 2} = {}
    <3>1. Width(Read, share) = 0
      BY <1>5 DEF share
    <3>2. \A j \in ToSet(share) : Read[j].weights.dim # 2
      BY <1>6
    <3> QED
      BY <3>1, <3>2
  <2>5. \A x \in WeightWidths(Read, share) : x = 0
    BY <2>4 DEF WeightWidths
  <2> QED
    BY <2>1, <2>2, <2>3, <2>5
<1>6c. MaxLen(Read, share) \in Nat
  BY LongestRow
<1> HIDE DEF share, Setting
<1>7. ~CollateRaises(Read, share)
  <2>1. \A i \in T : ~Malformed(Read[i], 0, Weighted(Read, share))
    BY <1>6 DEF Malformed
  <2> HIDE DEF T
  <2> QED
    BY <1>5, <1>6b, <2>1 DEF CollateRaises, T, share
<1>7a. ~Clash(Read, share, post.loss)
  <2>1. Level(Read, share)
    BY <1>5, <1>6, <1>6a DEF Level, share
  <2>2. Broadcasts(<<MaxLen(Read, share) + 0>>, <<MaxLen(Read, share)>>)
    BY <1>6c DEF Broadcasts
  <2> DEFINE long == MaxLen(Read, share)
  <2>3. \A x \in LogprobOvers(Read, share) : Broadcasts(<<long + x>>, <<long>>)
    <3> SUFFICES ASSUME NEW x \in LogprobOvers(Read, share) PROVE Broadcasts(<<long + x>>, <<long>>)
      OBVIOUS
    <3>1. x = 0
      BY <1>6b
    <3> QED
      BY <2>2, <3>1
  <2>4. ~ \E x \in LabelOvers(Read, share) : x > 0
    BY <1>6b
  <2> QED
    BY <2>1, <2>3, <2>4 DEF Clash
<1> USE DEF Setting, share
<1>8. ~PrepareRaises(r)
  BY <1>1, <1>7 DEF PrepareRaises
<1>9. (\E i \in ToSet(MyShare(r)) : items[i].logprobs # Absent) <=> items[1].logprobs.dim # 0
  <2>1. \A i \in DOMAIN items : (items[i].logprobs # Absent) <=> (items[1].logprobs.dim # 0)
    BY ScalarDims DEF Scalar
  <2>2. \E i \in ToSet(MyShare(r)) : i \in DOMAIN items
    BY <1>3, ShareSome
  <2> QED
    BY <1>3, <2>1, <2>2
<1> QED
  BY <1>1, <1>2, <1>7a, <1>8, <1>9

(* Padding gives one row for each item of the share. *)
LEMMA PaddedLen ==
    ASSUME Setting, NEW r \in DPRanks, ~AllocationRaises(setup.strategy, Len(items), setup.dp)
    PROVE  Len(Padded(Read, MyShare(r))) = Len(MyShare(r)) /\ Len(MyShare(r)) \in Nat
<1> DEFINE p == Padded(Read, MyShare(r))
<1>1. PICK m \in Nat : DOMAIN MyShare(r) = 1 .. m /\ Len(MyShare(r)) = m
  BY ShareInside DEF Setting
<1>2. \E F : p = [n \in 1 .. m |-> F[n]]
  <2>1. p = [n \in 1 .. m |-> p[n]]
    BY <1>1 DEF Padded
  <2> QED
    BY <2>1
<1> QED
  BY <1>1, <1>2

(* With the same work, taking it raises for all or none, makes as many sub-batches on each,
   and the loss of a pass raises for all or none. *)
LEMMA Alike ==
    ASSUME Setting, SameWork, NEW q \in DPRanks, NEW r \in DPRanks
    PROVE  /\ PrepareRaises(q) <=> PrepareRaises(r)
           /\ ~PrepareRaises(r) => Len(SubBatches(q)) = Len(SubBatches(r))
           /\ (/\ ~PrepareRaises(r) /\ pass[q] = pass[r]
               /\ batches[q] = SubBatches(q) /\ batches[r] = SubBatches(r) /\ pass[r] \in 1 .. Len(SubBatches(r)))
                 => (LossFails(q) <=> LossFails(r))
<1>1. CASE Replicated
  <2>1. MyShare(q) = MyShare(r)
    BY <1>1 DEF MyShare, Share, Replicated
  <2>2. (Packs(q) <=> Packs(r)) /\ SubBatches(q) = SubBatches(r)
        /\ (PrepareRaises(q) <=> PrepareRaises(r))
    BY <2>1 DEF Packs, SubBatches, PrepareRaises
  <2> QED
    BY <2>1, <2>2 DEF LossFails, Rows
<1>2. CASE ~Replicated /\ AllocationRaises(setup.strategy, Len(items), setup.dp)
  BY <1>2 DEF PrepareRaises
<1>3. CASE ~Replicated /\ ~AllocationRaises(setup.strategy, Len(items), setup.dp)
  <2>1. Scalar
    BY <1>3 DEF SameWork, Scalar, Replicated
  <2> DEFINE With(s) == \E i \in ToSet(MyShare(s)) : items[i].logprobs # Absent
  <2>2. ASSUME NEW s \in {q, r}
        PROVE  /\ ~PrepareRaises(s) /\ ~Packs(s) /\ Len(SubBatches(s)) = 1
               /\ SubBatches(s)[1] = Padded(Read, MyShare(s))
               /\ ~Clash(Read, MyShare(s), post.loss)
               /\ With(s) <=> items[1].logprobs.dim # 0
    BY <1>3, <2>1, ScalarRank
  <2>3. Len(MyShare(q)) = Len(MyShare(r))
    BY <1>3, ShareInside DEF Setting
  <2>4. Len(Padded(Read, MyShare(q))) = Len(Padded(Read, MyShare(r)))
    BY <1>3, <2>3, PaddedLen
  <2>5. ASSUME NEW s \in {q, r}, pass[s] \in 1 .. Len(SubBatches(s)), batches[s] = SubBatches(s)
        PROVE  LossFails(s) <=> \/ post.loss = "gspo" /\ items[1].logprobs.dim = 0
                                \/ post.loss = "orpo" /\ Len(Padded(Read, MyShare(s))) % 2 # 0
    <3>1. Rows(s) = Padded(Read, MyShare(s))
      BY <2>2, <2>5 DEF Rows
    <3>2. With(s) <=> \E i \in ToSet(MyShare(s)) : items[i].logprobs # Absent
      OBVIOUS
    <3> HIDE DEF With
    <3>3. LossFails(s) <=> \/ post.loss = "gspo" /\ ~With(s)
                           \/ post.loss = "orpo" /\ Len(Rows(s)) % 2 # 0
      BY <2>2, <3>2 DEF LossFails, LossRaises
    <3> QED
      BY <2>2, <3>1, <3>3
  <2> QED
    BY <2>2, <2>4, <2>5
<1> QED
  BY <1>1, <1>2, <1>3

(* A share gives at least one sub-batch, a pack makes one of a single row. *)
LEMMA SubBatchesSome ==
    ASSUME Setting, NEW r \in DPRanks, ~PrepareRaises(r)
    PROVE  /\ Len(SubBatches(r)) \in Nat \ {0} /\ DOMAIN SubBatches(r) = 1 .. Len(SubBatches(r))
           /\ Packs(r) => Len(SubBatches(r)[1]) = 1
           /\ ~Packs(r) => SubBatches(r) = <<Padded(Read, MyShare(r))>>
<1>1. CASE ~Packs(r)
  BY <1>1 DEF SubBatches
<1>2. CASE Packs(r)
  <2> DEFINE limit == PackLimit(items, MyShare(r), setup.maxPacked)
             bins == Bins(items, MyShare(r), limit)
             I == ToSet(ByLength(items, MyShare(r)))
  <2>1. ~AllocationRaises(setup.strategy, Len(items), setup.dp)
    BY DEF PrepareRaises
  <2>2. ToSet(MyShare(r)) # {} /\ IsFiniteSet(ToSet(MyShare(r)))
    BY <2>1, ShareSome
  <2>3. bins \in Seq(SUBSET I) \ {<<>>}
    <3> HIDE DEF limit
    <3> QED
      BY <2>2, BinsSome
  <2>4. SubBatches(r) = [b \in DOMAIN bins |-> <<PackedRow(items, bins[b])>>]
    BY <1>2 DEF SubBatches
  <2> HIDE DEF bins, I
  <2>5. Len(bins) \in Nat \ {0} /\ DOMAIN bins = 1 .. Len(bins)
    BY <2>3
  <2>6. Len(SubBatches(r)) = Len(bins) /\ DOMAIN SubBatches(r) = 1 .. Len(bins)
    BY <2>4, <2>5
  <2>7. SubBatches(r)[1] = <<PackedRow(items, bins[1])>>
    BY <2>4, <2>5
  <2> QED
    BY <1>2, <2>5, <2>6, <2>7
<1> QED
  BY <1>1, <1>2

(* Ranks with the same work are side by side: taking their shares, which succeeds for all
   or for none, or in one phase of one pass. *)
Taking(r) ==
    /\ pass[r] = 1 /\ stage[r] \in {"idle", "forward", "raised"}
    /\ stage[r] = "forward" => ~PrepareRaises(r)
    /\ stage[r] = "raised" => PrepareRaises(r)
Abreast ==
    SameWork => \/ \A r \in DPRanks : Taking(r)
                \/ \A q, r \in DPRanks : /\ stage[q] = stage[r] /\ stage[r] # "idle"
                                         /\ pass[q] = pass[r]

(* orpo makes one pass, over an even number of rows: a pack is a sub-batch of one row. *)
Paired ==
    post.loss = "orpo" =>
        /\ \A r \in DPRanks :
               /\ AtWork(r) => pass[r] = 1
               /\ stage[r] \in {"backward", "done"} =>
                      ~Packs(r) /\ Len(SubBatches(r)[1]) % 2 = 0
        /\ \/ pairs = {} /\ \A r \in DPRanks : stage[r] # "done"
           \/ /\ \A r \in DPRanks : stage[r] = "done"
              /\ pairs = UNION {PairsOf(SubBatches(r)[1]) : r \in DPRanks}

(* A rank at work is in one of its own sub-batches. *)
InPass ==
    \A r \in DPRanks : AtWork(r) => pass[r] \in 1 .. Len(SubBatches(r))

PassInv == Parsed /\ Taken /\ InPass /\ Abreast /\ Paired

(* The invariant, step by step. *)
LEMMA PassStarts == PassInit => PassInv
<1> SUFFICES ASSUME PassInit PROVE PassInv
  OBVIOUS
<1> USE DEF PassInit
<1>1. post.data \in Seq(ToSet(post.data)) /\ post.data # <<>>
  BY DataPathAssumption
<1>2. Parsed
  <2>1. Len(post.data) \in Nat \ {0}
    BY <1>1
  <2> QED
    BY <2>1 DEF Parsed
<1>3. Taken
  BY DEF Taken, AtWork
<1>4. InPass
  BY DEF InPass, AtWork
<1>5. Abreast
  BY DEF Abreast, Taking
<1>6. Paired
  BY DEF Paired, AtWork
<1> QED
  BY <1>2, <1>3, <1>4, <1>5, <1>6 DEF PassInv

LEMMA ParseKeeps ==
    ASSUME PassInv, Reject \/ Parse
    PROVE  PassInv'
<1> USE DEF PassInv
<1>1. status = "parsing" /\ \A r \in DPRanks : stage[r] = "idle" /\ pass[r] = 1
  BY DEF Reject, Parse, Parsed, Taken
<1>2. UNCHANGED <<post, setup, stage, batches, pass, grad, pairs, report>>
  BY DEF Reject, Refuse, Parse
<1>3. DPRanks' = DPRanks
  BY <1>2 DEF DPRanks
<1>4. Parsed'
  <2>1. CASE Reject
    BY <2>1, <1>1, <1>2, <1>3 DEF Reject, Refuse, Parsed
  <2>2. CASE Parse
    <3> DEFINE n == Len(items)
    <3>1. n \in Nat /\ n < Len(post.data) /\ Len(post.data) \in Nat
      BY <1>1, SetupTyped DEF Parsed
    <3>2. items' = Append(items, TrainingItem(post.data[n + 1])) /\ WellFormed(TrainingItem(post.data[n + 1]))
      BY <2>2 DEF Parse, Datum
    <3>3. items = [i \in 1 .. n |-> TrainingItem(post.data[i])]
      BY DEF Parsed
    <3> HIDE DEF n
    <3>4. items' = [i \in 1 .. n + 1 |-> TrainingItem(post.data[i])]
      BY <3>1, <3>2, <3>3
    <3>5. Len(items') = n + 1
      BY <3>1, <3>4
    <3>6. \A i \in DOMAIN items' : WellFormed(items'[i])
      BY <3>1, <3>2, <3>3, <3>4 DEF Parsed
    <3>7. status' = IF Len(items') = Len(post.data) THEN "queued" ELSE "parsing"
      BY <2>2 DEF Parse
    <3> QED
      BY <1>1, <1>2, <1>3, <3>1, <3>4, <3>5, <3>6, <3>7 DEF Parsed
  <2> QED
    BY <2>1, <2>2
<1>5. Taken'
  BY <1>1, <1>2, <1>3 DEF Taken, AtWork
<1>6. InPass'
  BY <1>1, <1>2, <1>3 DEF InPass, AtWork
<1>7. Abreast'
  BY <1>1, <1>2, <1>3 DEF Abreast, Taking
<1>8. Paired'
  BY <1>1, <1>2, <1>3 DEF Paired, AtWork
<1> QED
  BY <1>4, <1>5, <1>6, <1>7, <1>8

(* Once the request is queued, what a rank makes of it is settled. *)
LEMMA Settled ==
    ASSUME UNCHANGED <<post, setup, items, status>>
    PROVE  /\ DPRanks' = DPRanks /\ SameWork' = SameWork
           /\ \A r : /\ SubBatches(r)' = SubBatches(r)
                     /\ PrepareRaises(r)' <=> PrepareRaises(r)
                     /\ Packs(r)' <=> Packs(r)
<1>1. DPRanks' = DPRanks
  BY DEF DPRanks
<1>2. SameWork' = SameWork
  BY <1>1 DEF SameWork, Replicated, Read
<1>3. ASSUME NEW r PROVE (Packs(r)' <=> Packs(r)) /\ MyShare(r)' = MyShare(r) /\ Read' = Read
  BY DEF Packs, MyShare, Read
<1>4. ASSUME NEW r PROVE SubBatches(r)' = SubBatches(r)
  BY <1>3 DEF SubBatches
<1>5. ASSUME NEW r PROVE PrepareRaises(r)' <=> PrepareRaises(r)
  BY <1>3 DEF PrepareRaises
<1> QED
  BY <1>1, <1>2, <1>3, <1>4, <1>5

LEMMA PrepareKeeps ==
    ASSUME PassInv, NEW r \in DPRanks, Prepare(r)
    PROVE  PassInv'
<1> USE DEF PassInv
<1>1. /\ status = "queued" /\ stage[r] = "idle"
      /\ UNCHANGED <<post, setup, items, status, pass, grad, pairs, report>>
  BY DEF Prepare
<1>2. Setting /\ pass[r] = 1
  BY <1>1 DEF Setting, Taken
<1>3. /\ DPRanks' = DPRanks /\ SameWork' = SameWork
      /\ \A q : /\ SubBatches(q)' = SubBatches(q)
                /\ PrepareRaises(q)' <=> PrepareRaises(q)
                /\ Packs(q)' <=> Packs(q)
  BY <1>1, Settled
<1>4. /\ stage' = [stage EXCEPT ![r] = IF PrepareRaises(r) THEN "raised" ELSE "forward"]
      /\ batches' = IF PrepareRaises(r) THEN batches ELSE [batches EXCEPT ![r] = SubBatches(r)]
  BY DEF Prepare
<1>5. \A q \in DPRanks : q # r => stage'[q] = stage[q] /\ batches'[q] = batches[q]
  BY <1>4 DEF Taken
<1>6. /\ stage'[r] = IF PrepareRaises(r) THEN "raised" ELSE "forward"
      /\ ~PrepareRaises(r) => batches'[r] = SubBatches(r)
  BY <1>4 DEF Taken
<1>7. stage' \in [DPRanks -> {"idle", "forward", "backward", "done", "raised"}] /\ DOMAIN batches' = DPRanks
  BY <1>4 DEF Taken
<1>8. Parsed'
  BY <1>1, <1>3 DEF Parsed
<1>9. Taken'
  BY <1>1, <1>2, <1>3, <1>5, <1>6, <1>7 DEF Taken, AtWork
<1>10. InPass'
  <2>1. ~PrepareRaises(r) => 1 \in 1 .. Len(SubBatches(r))
    BY <1>2, SubBatchesSome
  <2> QED
    BY <1>1, <1>2, <1>3, <1>5, <1>6, <2>1 DEF InPass, AtWork
<1>11. Abreast'
  <2>1. SameWork => \A q \in DPRanks : Taking(q)
    BY <1>1 DEF Abreast
  <2>2. SameWork => \A q \in DPRanks : Taking(q)'
    BY <2>1, <1>1, <1>2, <1>3, <1>5, <1>6 DEF Taking
  <2> QED
    BY <1>3, <2>2 DEF Abreast
<1>12. Paired'
  BY <1>1, <1>2, <1>3, <1>5, <1>6 DEF Paired, AtWork
<1> QED
  BY <1>8, <1>9, <1>10, <1>11, <1>12

LEMMA ForwardKeeps ==
    ASSUME PassInv, Forward
    PROVE  PassInv'
<1> USE DEF PassInv
<1>1. /\ \A r \in DPRanks : stage[r] = "forward"
      /\ UNCHANGED <<post, setup, items, status, batches, pass, grad, pairs, report>>
      /\ stage' = [r \in DPRanks |-> IF LossFails(r) THEN "raised" ELSE "backward"]
  BY DEF Forward
<1>2. Setting
  <2>1. 0 \in DPRanks
    BY SetupTyped
  <2> QED
    BY <1>1, <2>1 DEF Setting, Parsed
<1>3. /\ DPRanks' = DPRanks /\ SameWork' = SameWork
      /\ \A q : /\ SubBatches(q)' = SubBatches(q)
                /\ PrepareRaises(q)' <=> PrepareRaises(q)
                /\ Packs(q)' <=> Packs(q)
  BY <1>1, Settled
<1>4. \A r \in DPRanks : /\ ~PrepareRaises(r) /\ batches[r] = SubBatches(r)
                         /\ pass[r] \in 1 .. Len(SubBatches(r))
  BY <1>1 DEF Taken, InPass, AtWork
<1>5. \A r \in DPRanks : stage'[r] = IF LossFails(r) THEN "raised" ELSE "backward"
  BY <1>1
<1>6. Parsed'
  BY <1>1, <1>2, <1>3 DEF Parsed, Setting
<1>7. Taken'
  BY <1>1, <1>3, <1>4, <1>5 DEF Taken, AtWork
<1>8. InPass'
  BY <1>1, <1>3, <1>4, <1>5 DEF InPass, AtWork
<1>9. Abreast'
  <2> SUFFICES ASSUME SameWork, NEW q \in DPRanks, NEW r \in DPRanks
               PROVE  stage'[q] = stage'[r] /\ stage'[r] # "idle" /\ pass[q] = pass[r]
    BY <1>1, <1>3 DEF Abreast
  <2>1. pass[q] = pass[r]
    BY <1>1 DEF Abreast, Taking
  <2>2. LossFails(q) <=> LossFails(r)
    BY <1>2, <1>4, <2>1, Alike
  <2> QED
    BY <1>5, <2>1, <2>2
<1>10. Paired'
  <2> SUFFICES ASSUME post.loss = "orpo"
               PROVE  /\ \A r \in DPRanks :
                            /\ pass[r] = 1
                            /\ stage'[r] = "backward" => ~Packs(r) /\ Len(SubBatches(r)[1]) % 2 = 0
                      /\ pairs = {}
    BY <1>1, <1>3, <1>5 DEF Paired, AtWork
  <2>1. pairs = {}
    <3>1. 0 \in DPRanks
      BY SetupTyped
    <3> QED
      BY <1>1, <3>1 DEF Paired
  <2>2. ASSUME NEW r \in DPRanks, ~LossFails(r) PROVE ~Packs(r) /\ Len(SubBatches(r)[1]) % 2 = 0
    <3>1. pass[r] = 1 /\ Rows(r) = SubBatches(r)[1]
      BY <1>1, <1>4 DEF Paired, AtWork, Rows
    <3>2. Len(Rows(r)) % 2 = 0
      BY <2>2 DEF LossFails, LossRaises
    <3>3. Packs(r) => Len(SubBatches(r)[1]) = 1
      BY <1>2, <1>4, SubBatchesSome
    <3>4. Len(SubBatches(r)[1]) % 2 = 0
      BY <3>1, <3>2
    <3>5. Len(SubBatches(r)[1]) # 1
      <4>1. 1 % 2 # 0
        OBVIOUS
      <4> QED
        BY <3>4, <4>1, Zenon
    <3> QED
      BY <3>3, <3>4, <3>5
  <2> QED
    BY <1>1, <1>5, <2>1, <2>2 DEF Paired, AtWork
<1> QED
  BY <1>6, <1>7, <1>8, <1>9, <1>10

LEMMA BackwardKeeps ==
    ASSUME PassInv, Backward
    PROVE  PassInv'
<1> USE DEF PassInv
<1>1. /\ \A r \in DPRanks : stage[r] = "backward"
      /\ UNCHANGED <<post, setup, items, status, batches>>
      /\ stage' = [r \in DPRanks |-> IF pass[r] = Len(batches[r]) THEN "done" ELSE "forward"]
      /\ pass' = [r \in DPRanks |-> IF pass[r] = Len(batches[r]) THEN pass[r] ELSE pass[r] + 1]
      /\ post.loss = "orpo" => pairs' = pairs \cup UNION {PairsOf(Rows(r)) : r \in DPRanks}
  BY DEF Backward
<1>0. 0 \in DPRanks
  BY SetupTyped
<1>2. Setting
  BY <1>0, <1>1 DEF Setting, Parsed
<1>3. /\ DPRanks' = DPRanks /\ SameWork' = SameWork
      /\ \A q : /\ SubBatches(q)' = SubBatches(q)
                /\ PrepareRaises(q)' <=> PrepareRaises(q)
                /\ Packs(q)' <=> Packs(q)
  BY <1>1, Settled
<1>4. \A r \in DPRanks : /\ ~PrepareRaises(r) /\ batches[r] = SubBatches(r)
                         /\ pass[r] \in 1 .. Len(SubBatches(r)) /\ Len(SubBatches(r)) \in Nat
  <2>1. \A r \in DPRanks : /\ ~PrepareRaises(r) /\ batches[r] = SubBatches(r)
                           /\ pass[r] \in 1 .. Len(SubBatches(r))
    BY <1>1 DEF Taken, InPass, AtWork
  <2>2. \A r \in DPRanks : Len(SubBatches(r)) \in Nat
    BY <1>2, <2>1, SubBatchesSome
  <2> QED
    BY <2>1, <2>2
<1>5. \A r \in DPRanks :
         /\ stage'[r] = IF pass[r] = Len(SubBatches(r)) THEN "done" ELSE "forward"
         /\ pass'[r] = IF pass[r] = Len(SubBatches(r)) THEN pass[r] ELSE pass[r] + 1
  BY <1>1, <1>4
<1>6. Parsed'
  BY <1>1, <1>2, <1>3 DEF Parsed, Setting
<1>7. Taken'
  <2>1. stage' \in [DPRanks -> {"idle", "forward", "backward", "done", "raised"}]
        /\ pass' \in [DPRanks -> Nat]
    BY <1>1 DEF Taken
  <2> QED
    BY <1>1, <1>3, <1>4, <1>5, <2>1 DEF Taken, AtWork
<1>8. InPass'
  BY <1>1, <1>3, <1>4, <1>5 DEF InPass, AtWork
<1>9. Abreast'
  <2> SUFFICES ASSUME SameWork, NEW q \in DPRanks, NEW r \in DPRanks
               PROVE  stage'[q] = stage'[r] /\ stage'[r] # "idle" /\ pass'[q] = pass'[r]
    BY <1>1, <1>3 DEF Abreast
  <2>1. pass[q] = pass[r]
    BY <1>1 DEF Abreast, Taking
  <2>2. Len(SubBatches(q)) = Len(SubBatches(r))
    BY <1>2, <1>4, Alike
  <2> QED
    BY <1>5, <2>1, <2>2
<1>10. Paired'
  <2> SUFFICES ASSUME post.loss = "orpo" PROVE Paired'
    BY <1>1 DEF Paired
  <2>1. \A r \in DPRanks : pass[r] = 1 /\ ~Packs(r) /\ Len(SubBatches(r)[1]) % 2 = 0
    BY <1>1 DEF Paired, AtWork
  <2>2. \A r \in DPRanks : Len(SubBatches(r)) = 1 /\ Rows(r) = SubBatches(r)[1]
    <3>1. \A r \in DPRanks : SubBatches(r) = <<Padded(Read, MyShare(r))>>
      BY <1>2, <1>4, <2>1, SubBatchesSome
    <3>2. \A r \in DPRanks : Len(SubBatches(r)) = 1
      BY <3>1
    <3> QED
      BY <1>4, <2>1, <3>2 DEF Rows
  <2>3. \A r \in DPRanks : stage'[r] = "done" /\ pass'[r] = 1
    BY <1>5, <2>1, <2>2
  <2>4. pairs = {}
    BY <1>0, <1>1 DEF Paired
  <2>5. pairs' = UNION {PairsOf(SubBatches(r)[1]) : r \in DPRanks}
    <3>1. {PairsOf(Rows(r)) : r \in DPRanks} = {PairsOf(SubBatches(r)[1]) : r \in DPRanks}
      BY <2>2
    <3> QED
      BY <1>1, <2>4, <3>1
  <2>6. {PairsOf(SubBatches(r)[1]) : r \in DPRanks}' = {PairsOf(SubBatches(r)[1]) : r \in DPRanks}
    BY <1>3
  <2> QED
    BY <1>1, <1>3, <2>1, <2>3, <2>5, <2>6 DEF Paired, AtWork
<1> QED
  BY <1>6, <1>7, <1>8, <1>9, <1>10

(* The invariant of a pass: the items are the gateway's conversions in order, ranks at work
   hold their own settled sub-batches, and move together when their work is the same. *)
THEOREM PassHolds == PassSpec => []PassInv
<1>1. PassInit => PassInv
  BY PassStarts
<1>2. PassInv /\ [PassNext]_passVars => PassInv'
  <2> SUFFICES ASSUME PassInv, [PassNext]_passVars PROVE PassInv'
    OBVIOUS
  <2>1. CASE Reject \/ Parse
    BY <2>1, ParseKeeps
  <2>2. CASE Forward
    BY <2>2, ForwardKeeps
  <2>3. CASE Backward
    BY <2>3, BackwardKeeps
  <2>4. CASE \E r \in DPRanks : Prepare(r)
    BY <2>4, PrepareKeeps
  <2>5. CASE UNCHANGED passVars
    <3>1. UNCHANGED <<post, setup, items, status>> /\ UNCHANGED <<stage, batches, pass, pairs>>
      BY <2>5 DEF passVars
    <3>2. /\ DPRanks' = DPRanks /\ SameWork' = SameWork
          /\ \A q : /\ SubBatches(q)' = SubBatches(q)
                    /\ PrepareRaises(q)' <=> PrepareRaises(q)
                    /\ Packs(q)' <=> Packs(q)
      BY <3>1, Settled
    <3>3. Parsed'
      BY <3>1, <3>2 DEF PassInv, Parsed
    <3>4. Taken' /\ InPass'
      BY <3>1, <3>2 DEF PassInv, Taken, InPass, AtWork
    <3>5. Abreast'
      BY <3>1, <3>2 DEF PassInv, Abreast, Taking
    <3>6. {PairsOf(SubBatches(r)[1]) : r \in DPRanks}' = {PairsOf(SubBatches(r)[1]) : r \in DPRanks}
      BY <3>2
    <3>7. Paired'
      BY <3>1, <3>2, <3>6 DEF PassInv, Paired, AtWork
    <3> QED
      BY <3>3, <3>4, <3>5, <3>7 DEF PassInv
  <2> QED
    BY <2>1, <2>2, <2>3, <2>4, <2>5 DEF PassNext
<1> QED
  BY <1>1, <1>2, PTL DEF PassSpec

(* No rank waits in a collective for one that is not coming, when all have the same work:
   the forward and backward of _handle_forward_backward are entered by all or by none. *)
THEOREM RanksMoveTogether == PassSpec => []NoneWaitsAlone
<1>1. PassInv => NoneWaitsAlone
  <2> SUFFICES ASSUME PassInv, SameWork, \A r \in DPRanks : stage[r] # "idle" PROVE Together
    BY DEF NoneWaitsAlone
  <2>1. 0 \in DPRanks
    BY SetupTyped DEF PassInv
  <2>2. CASE \A q, r \in DPRanks : stage[q] = stage[r]
    BY <2>1, <2>2 DEF PassInv, Taken, Together
  <2>3. CASE \A r \in DPRanks : Taking(r)
    <3>1. \A r \in DPRanks : stage[r] = IF PrepareRaises(r) THEN "raised" ELSE "forward"
      BY <2>3 DEF Taking
    <3>2. Setting
      BY <2>1 DEF Setting, PassInv, Parsed
    <3>3. \A q, r \in DPRanks : PrepareRaises(q) <=> PrepareRaises(r)
      BY <3>2, Alike
    <3> QED
      BY <3>1, <3>3 DEF Together
  <2> QED
    BY <2>2, <2>3 DEF PassInv, Abreast
<1> QED
  BY <1>1, PassHolds, PTL

(* A padded row is of one item, and padding. *)
LEMMA RowOfItem ==
    ASSUME Setting, NEW r \in DPRanks, ~AllocationRaises(setup.strategy, Len(items), setup.dp),
           NEW n \in DOMAIN MyShare(r)
    PROVE  ItemsOf(Padded(Read, MyShare(r))[n]) = {MyShare(r)[n]}
<1> DEFINE share == MyShare(r)
           long == MaxLen(Read, share)
           k == Width(Read, share)
           i == share[n]
           weights == RowWeights(Read, share, n)
           row == PaddedRow(Read, i, long, k, weights)
<1>1. i \in ToSet(share) /\ ToSet(share) \subseteq DOMAIN items
  BY ShareInside DEF Setting, ToSet
<1>2. i \in Nat /\ i # 0
  BY <1>1, SetupTyped DEF Setting
<1>3. Len(Read[i].ids) \in Nat /\ Len(Read[i].ids) >= 1 /\ Len(Read[i].ids) <= long
  BY <1>1, LongestRow
<1>4. long \in Nat /\ long >= 1
  BY <1>3, LongestRow
<1>5. Padded(Read, share)[n] = row
  BY DEF Padded
<1>6. DOMAIN row = 1 .. long
      /\ \A t \in 1 .. long : row[t].item = IF t > Len(Read[i].ids) THEN 0 ELSE i
  <2> HIDE DEF i, long, k, weights
  <2> QED
    BY DEF PaddedRow, PadCell
<1>7. row[1].item = i /\ 1 \in 1 .. long
  BY <1>1, <1>3, <1>4, <1>6
<1> HIDE DEF row
<1>8. ItemsOf(row) = {i}
  BY <1>2, <1>6, <1>7 DEF ItemsOf
<1> QED
  BY <1>5, <1>8
(* The pairs of a padded share are its neighbours, first with second. *)
LEMMA PairsOfShare ==
    ASSUME Setting, NEW r \in DPRanks, ~AllocationRaises(setup.strategy, Len(items), setup.dp)
    PROVE  PairsOf(Padded(Read, MyShare(r)))
             = {<<{MyShare(r)[2 * p - 1]}, {MyShare(r)[2 * p]}>> : p \in 1 .. Len(MyShare(r)) \div 2}
<1> DEFINE share == MyShare(r)
           rows == Padded(Read, share)
<1>1. Len(rows) = Len(share) /\ Len(share) \in Nat
  BY PaddedLen
<1>2. DOMAIN share = 1 .. Len(share)
  BY ShareInside DEF Setting
<1>3. \A p \in 1 .. Len(share) \div 2 : 2 * p - 1 \in DOMAIN share /\ 2 * p \in DOMAIN share
  <2> DEFINE m == Len(share)
  <2>1. m \in Nat
    BY <1>1
  <2> HIDE DEF m
  <2>2. \A p \in 1 .. m \div 2 : 2 * p - 1 \in 1 .. m /\ 2 * p \in 1 .. m
    BY <2>1
  <2> QED
    BY <1>2, <2>2 DEF m
<1>4. \A n \in DOMAIN share : ItemsOf(rows[n]) = {share[n]}
  BY RowOfItem
<1> HIDE DEF share, rows
<1>5. \A p \in 1 .. Len(share) \div 2 :
         <<ItemsOf(rows[2 * p - 1]), ItemsOf(rows[2 * p])>> = <<{share[2 * p - 1]}, {share[2 * p]}>>
  BY <1>3, <1>4
<1>6. PairsOf(rows) = {<<{share[2 * p - 1]}, {share[2 * p]}>> : p \in 1 .. Len(share) \div 2}
  BY <1>1, <1>5 DEF PairsOf
<1> QED
  BY <1>6 DEF share, rows

(* Halves of equal parts: pair h * r + p of the whole is pair p of part r. *)
LEMMA Halves ==
    ASSUME NEW d \in Nat \ {0}, NEW m \in Nat, m % 2 = 0
    PROVE  /\ \A r \in 0 .. d - 1, p \in 1 .. m \div 2 : r * (m \div 2) + p \in 1 .. (d * m) \div 2
           /\ \A n \in 1 .. (d * m) \div 2 :
                  \E r \in 0 .. d - 1, p \in 1 .. m \div 2 : n = r * (m \div 2) + p
           /\ m = 2 * (m \div 2) /\ m \div 2 \in Nat
<1> DEFINE h == m \div 2
<1>1. h \in Nat /\ m = 2 * h
  OBVIOUS
<1> HIDE DEF h
<1>2. (d * m) \div 2 = d * h
  <2>1. d * m = 2 * (d * h) /\ d * h \in Nat
    BY <1>1
  <2>2. \A x \in Nat : (2 * x) \div 2 = x
    OBVIOUS
  <2> QED
    BY <2>1, <2>2
<1>3. \A r \in 0 .. d - 1, p \in 1 .. h : r * h + p \in 1 .. d * h
  <2> SUFFICES ASSUME NEW r \in 0 .. d - 1, NEW p \in 1 .. h PROVE r * h + p \in 1 .. d * h
    OBVIOUS
  <2>1. r \in Nat /\ r < d
    OBVIOUS
  <2> QED
    BY <1>1, <2>1, PartInside
<1>4. ASSUME NEW n \in 1 .. d * h PROVE \E r \in 0 .. d - 1, p \in 1 .. h : n = r * h + p
  <2>1. h \in Nat \ {0}
    BY <1>1
  <2> DEFINE r == (n - 1) \div h
             p == ((n - 1) % h) + 1
  <2>2. n - 1 \in Nat /\ n - 1 < d * h
    BY <1>1
  <2>3. r \in Nat /\ p \in 1 .. h /\ n = h * r + p
    <3> DEFINE x == n - 1
    <3>1. x \in Nat
      BY <2>2
    <3> HIDE DEF x
    <3>2. x % h \in 0 .. h - 1
      BY <2>1, <3>1
    <3>3. x \div h \in Nat
      BY <2>1, <3>1
    <3>4. x % h = x - h * (x \div h)
      BY <2>1, <3>1
    <3> QED
      BY <2>1, <3>2, <3>3, <3>4 DEF x
  <2> HIDE DEF r, p
  <2>4. r < d
    <3> SUFFICES ASSUME r >= d PROVE FALSE
      BY <2>3
    <3>1. h * r >= h * d
      BY <2>1, <2>3
    <3> QED
      BY <2>1, <2>2, <2>3, <3>1
  <2> QED
    BY <2>1, <2>3, <2>4
<1> QED
  BY <1>1, <1>2, <1>3, <1>4 DEF h
(* The pairs orpo compares are items 2p - 1 and 2p of the request, all of them, on however
   many ranks and however the batch is shared (_orpo in losses.py). *)
THEOREM PairsStayTogether == PassSpec => []PairsKept
<1> DEFINE n == Len(items)
           Expected == {<<{2 * p - 1}, {2 * p}>> : p \in 1 .. n \div 2}
<1>1. ASSUME PassInv, Finished, post.loss = "orpo" PROVE pairs = Expected
  <2> USE <1>1 DEF PassInv
  <2>1. /\ 0 \in DPRanks /\ setup.dp \in Nat \ {0} /\ DPRanks = 0 .. setup.dp - 1
        /\ n \in Nat /\ \A r \in DPRanks : r \in Nat
    BY SetupTyped DEF DPRanks
  <2>2. Setting
    BY <2>1 DEF Setting, Finished, Parsed
  <2>3. \A r \in DPRanks : /\ ~PrepareRaises(r) /\ ~Packs(r)
                           /\ Len(SubBatches(r)[1]) % 2 = 0
    BY DEF Finished, Taken, AtWork, Paired
  <2>4. pairs = UNION {PairsOf(SubBatches(r)[1]) : r \in DPRanks}
    BY <2>1 DEF Finished, Paired
  <2>5. \A r \in DPRanks : SubBatches(r)[1] = Padded(Read, MyShare(r))
    <3>1. \A r \in DPRanks : SubBatches(r) = <<Padded(Read, MyShare(r))>>
      BY <2>2, <2>3, SubBatchesSome
    <3> QED
      BY <3>1
  <2>6. ~AllocationRaises(setup.strategy, n, setup.dp)
    BY <2>1, <2>3 DEF PrepareRaises
  <2> DEFINE Mine(r) == {<<{MyShare(r)[2 * p - 1]}, {MyShare(r)[2 * p]}>> : p \in 1 .. Len(MyShare(r)) \div 2}
  <2>7. \A r \in DPRanks : PairsOf(SubBatches(r)[1]) = Mine(r)
    BY <2>2, <2>5, <2>6, PairsOfShare
  <2>8. \A r \in DPRanks : Len(MyShare(r)) % 2 = 0
    BY <2>2, <2>3, <2>5, <2>6, PaddedLen
  <2>9. pairs = UNION {Mine(r) : r \in DPRanks}
    <3> HIDE DEF Mine
    <3>1. {PairsOf(SubBatches(r)[1]) : r \in DPRanks} = {Mine(r) : r \in DPRanks}
      BY <2>7
    <3> QED
      BY <2>4, <3>1
  <2>10. CASE Replicated
    <3>1. ASSUME NEW r \in DPRanks PROVE Mine(r) = Expected
      <4>1. MyShare(r) = [i \in 1 .. n |-> i] /\ Len(MyShare(r)) = n
        BY <2>1, <2>6, <2>10, ShareInside
      <4>2. \A p \in 1 .. n \div 2 : MyShare(r)[2 * p - 1] = 2 * p - 1 /\ MyShare(r)[2 * p] = 2 * p
        <5> HIDE DEF n
        <5>1. \A p \in 1 .. n \div 2 : 2 * p - 1 \in 1 .. n /\ 2 * p \in 1 .. n
          BY <2>1
        <5> QED
          BY <4>1, <5>1
      <4> QED
        BY <4>1, <4>2
    <3> HIDE DEF Mine, Expected
    <3> QED
      BY <2>1, <2>9, <3>1
  <2>11. CASE ~Replicated
    <3> DEFINE d == setup.dp
               m == n \div d
               h == m \div 2
    <3>1. m \in Nat /\ n = d * m
      BY <2>1, <2>6, <2>11, ShareInside
    <3>2. \A r \in DPRanks : MyShare(r) = [i \in 1 .. m |-> r * m + i] /\ Len(MyShare(r)) = m
      <4>1. \A r \in DPRanks : MyShare(r) = [i \in 1 .. m |-> r * m + i]
        BY <2>6, <2>11, ShareInside
      <4> HIDE DEF m
      <4> QED
        BY <3>1, <4>1
    <3>3. m % 2 = 0
      BY <2>1, <2>8, <3>2
    <3> HIDE DEF m
    <3>4. /\ \A r \in DPRanks, p \in 1 .. h : r * h + p \in 1 .. n \div 2
          /\ \A q \in 1 .. n \div 2 : \E r \in DPRanks, p \in 1 .. h : q = r * h + p
          /\ m = 2 * h /\ h \in Nat
      <4> HIDE DEF n, d
      <4>1. d \in Nat \ {0} /\ DPRanks = 0 .. d - 1
        BY <2>1 DEF d
      <4>2. /\ \A r \in 0 .. d - 1, p \in 1 .. h : r * h + p \in 1 .. (d * m) \div 2
            /\ \A q \in 1 .. (d * m) \div 2 : \E r \in 0 .. d - 1, p \in 1 .. h : q = r * h + p
            /\ m = 2 * h /\ h \in Nat
        BY <3>1, <3>3, <4>1, Halves
      <4> HIDE DEF h
      <4> QED
        BY <3>1, <4>1, <4>2
    <3> HIDE DEF h
    <3>5. ASSUME NEW r \in DPRanks, NEW p \in 1 .. h
          PROVE  /\ MyShare(r)[2 * p - 1] = 2 * (r * h + p) - 1
                 /\ MyShare(r)[2 * p] = 2 * (r * h + p)
      <4>1. 2 * p - 1 \in 1 .. m /\ 2 * p \in 1 .. m
        BY <3>4
      <4>2. r * m = 2 * (r * h) /\ r * h \in Nat
        BY <2>1, <3>4
      <4>3. MyShare(r)[2 * p - 1] = r * m + (2 * p - 1) /\ MyShare(r)[2 * p] = r * m + 2 * p
        BY <3>2, <4>1
      <4> QED
        BY <4>2, <4>3
    <3>6. \A r \in DPRanks : Mine(r) = {<<{2 * (r * h + p) - 1}, {2 * (r * h + p)}>> : p \in 1 .. h}
      <4>1. \A r \in DPRanks : Len(MyShare(r)) \div 2 = h
        BY <3>2 DEF h
      <4> QED
        BY <3>5, <4>1
    <3> HIDE DEF Mine
    <3>7. UNION {Mine(r) : r \in DPRanks} \subseteq Expected
      <4> SUFFICES ASSUME NEW r \in DPRanks, NEW p \in 1 .. h
                   PROVE  <<{2 * (r * h + p) - 1}, {2 * (r * h + p)}>> \in Expected
        BY <3>6
      <4> QED
        BY <3>4
    <3>8. Expected \subseteq UNION {Mine(r) : r \in DPRanks}
      <4> SUFFICES ASSUME NEW q \in 1 .. n \div 2
                   PROVE  \E r \in DPRanks : <<{2 * q - 1}, {2 * q}>> \in Mine(r)
        OBVIOUS
      <4>1. PICK r \in DPRanks, p \in 1 .. h : q = r * h + p
        BY <3>4
      <4> QED
        BY <3>6, <4>1
    <3> QED
      BY <2>9, <3>7, <3>8
  <2> QED
    BY <2>10, <2>11
<1>2. PassInv => PairsKept
  BY <1>1 DEF PairsKept
<1> QED
  BY <1>2, PassHolds, PTL

-----------------------------------------------------------------------------
(***************************************************************************)
(* Sums.  A set of subsets of D with {} that has, with a set, the set with *)
(* one element more has D itself.                                          *)
(***************************************************************************)
LEMMA ByAdding ==
    ASSUME NEW D, IsFiniteSet(D), NEW T, {} \in T,
           \A s \in SUBSET D : \A x \in D \ s : s \in T => s \cup {x} \in T
    PROVE  D \in T
<1> DEFINE Sizes == {n \in Nat : \A s \in SUBSET D : Cardinality(s) = n => s \in T}
<1>1. \A s \in SUBSET D : IsFiniteSet(s) /\ Cardinality(s) \in Nat
  BY FS_Subset, FS_CardinalityType
<1>2. 0 \in Sizes
  BY <1>1, FS_EmptySet
<1>3. ASSUME NEW n \in Sizes PROVE n + 1 \in Sizes
  <2> SUFFICES ASSUME NEW s \in SUBSET D, Cardinality(s) = n + 1 PROVE s \in T
    OBVIOUS
  <2>1. s # {}
    <3>1. Cardinality({}) = 0 /\ n \in Nat
      BY FS_EmptySet
    <3> QED
      BY <3>1
  <2>2. PICK x : x \in s
    BY <2>1
  <2>3. Cardinality(s \ {x}) = n
    <3>1. Cardinality(s \ {x}) = Cardinality(s) - 1
      BY <1>1, <2>2, FS_RemoveElement
    <3> QED
      BY <3>1
  <2>4. s \ {x} \in T
    BY <2>3
  <2>5. (s \ {x}) \cup {x} = s /\ x \in D \ (s \ {x})
    BY <2>2
  <2> QED
    BY <2>4, <2>5
<1>4. Sizes = Nat
  <2> HIDE DEF Sizes
  <2>1. Sizes \in SUBSET Nat
    BY DEF Sizes
  <2> QED
    BY <1>2, <1>3, <2>1, AllNaturals
<1> QED
  BY <1>1, <1>4

(* What a fold of the community modules unfolds to: the element it chooses first, and the
   fold of the others.  The step is a function here, of pairs. *)
Chosen(S) == CHOOSE x \in S : TRUE
Sum(f, S) == SumFunctionOnSet(f, S)

LEMMA SumUnfolds ==
    ASSUME NEW D, IsFiniteSet(D), NEW f, \A x \in D : f[x] \in Int
    PROVE  /\ \A S \in SUBSET D : Sum(f, S) \in Int
           /\ \A S \in SUBSET D : S # {} => /\ Chosen(S) \in S
                                            /\ Sum(f, S) = f[Chosen(S)] + Sum(f, S \ {Chosen(S)})
           /\ Sum(f, {}) = 0
<1> DEFINE Steps(g, S) == g = [s \in SUBSET S |->
                                 IF s = {} THEN 0 ELSE f[Chosen(s)] + g[s \ {Chosen(s)}]]
           Fold(S) == CHOOSE g : Steps(g, S)
<1>1. \A S : Sum(f, S) = Fold(S)[S]
  BY DEF Sum, SumFunctionOnSet, FoldFunctionOnSet, MapThenFoldSet, Chosen
<1>2. \A S : S # {} => Chosen(S) \in S
  BY DEF Chosen
<1> HIDE DEF Fold
<1>3. ASSUME NEW S \in SUBSET D
      PROVE  /\ \A s \in SUBSET S : Fold(S)[s] \in Int
             /\ \A s \in SUBSET S : Fold(S)[s] = IF s = {} THEN 0
                                                 ELSE f[Chosen(s)] + Fold(S)[s \ {Chosen(s)}]
  <2> DEFINE pick == [s \in SUBSET S |-> Chosen(s)]
             step == [p \in S \X Int |-> f[p[1]] + p[2]]
  <2>1. \A s \in SUBSET S : s # {} => pick[s] \in s /\ pick[s] = Chosen(s)
    BY <1>2
  <2>2. \A x \in S, a \in Int : step[<<x, a>>] = f[x] + a /\ f[x] + a \in Int
    OBVIOUS
  <2>3. IsFiniteSet(S)
    BY FS_Subset
  <2> HIDE DEF pick, step
  <2>4. PICK g : Folds(g, S, pick, 0, step)
    BY <2>1, <2>3, FoldExists
  <2>5. g[{}] = 0 /\ \A s \in SUBSET S : s # {} => g[s] = step[<<pick[s], g[s \ {pick[s]}]>>]
    BY <2>4 DEF Folds
  <2>6. ASSUME NEW s \in SUBSET S, s # {} /\ g[s \ {pick[s]}] \in Int PROVE g[s] \in Int
    <3>1. pick[s] \in S
      BY <2>1, <2>6
    <3>2. step[<<pick[s], g[s \ {pick[s]}]>>] \in Int
      BY <2>2, <2>6, <3>1
    <3> QED
      BY <2>5, <2>6, <3>2
  <2>7. g[{}] \in Int
    BY <2>5
  <2>8. \A s \in SUBSET S : g[s] \in Int
    BY <2>1, <2>3, <2>6, <2>7, SubsetInduction
  <2>9. \A s \in SUBSET S : s # {} => step[<<pick[s], g[s \ {pick[s]}]>>] = f[Chosen(s)] + g[s \ {Chosen(s)}]
    BY <2>1, <2>2, <2>8
  <2>10. Steps(g, S)
    BY <2>4, <2>9 DEF Folds
  <2>11. Steps(Fold(S), S)
    BY <2>10 DEF Fold
  <2> DEFINE h == Fold(S)
  <2>12. h[{}] = 0 /\ \A s \in SUBSET S : s # {} => h[s] = f[Chosen(s)] + h[s \ {Chosen(s)}]
    BY <2>11
  <2>13. \A s \in SUBSET S : s # {} /\ h[s \ {pick[s]}] \in Int => h[s] \in Int
    BY <2>1, <2>12
  <2>14. h[{}] \in Int
    BY <2>12
  <2> HIDE DEF h
  <2>15. \A s \in SUBSET S : h[s] \in Int
    BY <2>1, <2>3, <2>13, <2>14, SubsetInduction
  <2> QED
    BY <2>12, <2>15 DEF h
<1>4. Sum(f, {}) = 0
  BY <1>1, <1>3
<1> DEFINE T == {s \in SUBSET D : \A S \in SUBSET D : s \subseteq S => Fold(S)[s] = Sum(f, s)}
<1>5. ASSUME NEW s \in SUBSET D, s # {}, s \ {Chosen(s)} \in T PROVE s \in T
  <2> SUFFICES ASSUME NEW S \in SUBSET D, s \subseteq S PROVE Fold(S)[s] = Fold(s)[s]
    BY <1>1
  <2> DEFINE c == Chosen(s)
  <2>1. c \in s
    BY <1>2, <1>5
  <2> HIDE DEF c
  <2>2. Fold(S)[s \ {c}] = Sum(f, s \ {c}) /\ Fold(s)[s \ {c}] = Sum(f, s \ {c})
    BY <1>5 DEF c
  <2>3. Fold(S)[s] = f[c] + Fold(S)[s \ {c}] /\ Fold(s)[s] = f[c] + Fold(s)[s \ {c}]
    BY <1>3, <1>5 DEF c
  <2> QED
    BY <2>2, <2>3
<1>6. {} \in T
  BY <1>3, <1>4
<1>7. SUBSET D \subseteq T
  <2> DEFINE pick == [s \in SUBSET D |-> Chosen(s)]
             g == [s \in SUBSET D |-> s]
  <2>1. \A s \in SUBSET D : s # {} => pick[s] \in s /\ pick[s] = Chosen(s)
    BY <1>2
  <2>2. \A s \in SUBSET D : s # {} /\ g[s \ {pick[s]}] \in T => g[s] \in T
    BY <1>5, <2>1
  <2>3. g[{}] \in T
    BY <1>6
  <2> HIDE DEF T, pick
  <2>4. \A s \in SUBSET D : g[s] \in T
    <3> HIDE DEF g
    <3> QED
      BY <2>1, <2>2, <2>3, SubsetInduction
  <2> QED
    BY <2>4
<1>8. ASSUME NEW S \in SUBSET D, S # {}
      PROVE  /\ Chosen(S) \in S
             /\ Sum(f, S) = f[Chosen(S)] + Sum(f, S \ {Chosen(S)})
  <2>1. Chosen(S) \in S
    BY <1>2, <1>8
  <2>2. Fold(S)[S] = f[Chosen(S)] + Fold(S)[S \ {Chosen(S)}]
    BY <1>3, <1>8
  <2>3. Fold(S)[S \ {Chosen(S)}] = Sum(f, S \ {Chosen(S)})
    BY <1>7
  <2> QED
    BY <1>1, <2>1, <2>2, <2>3
<1>9. \A S \in SUBSET D : Sum(f, S) \in Int
  BY <1>1, <1>3
<1> QED
  BY <1>4, <1>8, <1>9

(* Any element can be the first. *)
LEMMA SumAny ==
    ASSUME NEW D, IsFiniteSet(D), NEW f, \A x \in D : f[x] \in Int, NEW x \in D
    PROVE  Sum(f, D) = f[x] + Sum(f, D \ {x})
<1> DEFINE Sizes == {n \in Nat : \A s \in SUBSET D : Cardinality(s) = n =>
                        \A y \in s : Sum(f, s) = f[y] + Sum(f, s \ {y})}
<1>1. \A s \in SUBSET D : IsFiniteSet(s) /\ Cardinality(s) \in Nat
  BY FS_Subset, FS_CardinalityType
<1>2. /\ \A S \in SUBSET D : Sum(f, S) \in Int
      /\ \A S \in SUBSET D : S # {} => /\ Chosen(S) \in S
                                       /\ Sum(f, S) = f[Chosen(S)] + Sum(f, S \ {Chosen(S)})
  BY SumUnfolds
<1>3. 0 \in Sizes
  BY <1>1, FS_EmptySet
<1>4. ASSUME NEW n \in Sizes PROVE n + 1 \in Sizes
  <2> SUFFICES ASSUME NEW s \in SUBSET D, Cardinality(s) = n + 1, NEW y \in s
               PROVE  Sum(f, s) = f[y] + Sum(f, s \ {y})
    OBVIOUS
  <2> DEFINE c == Chosen(s)
  <2>1. c \in s /\ Sum(f, s) = f[c] + Sum(f, s \ {c})
    BY <1>2
  <2> HIDE DEF c
  <2>2. CASE c = y
    BY <2>1, <2>2
  <2>3. CASE c # y
    <3>1. Cardinality(s \ {c}) = n /\ Cardinality(s \ {y}) = n
      <4>1. Cardinality(s \ {c}) = Cardinality(s) - 1 /\ Cardinality(s \ {y}) = Cardinality(s) - 1
        BY <1>1, <2>1, FS_RemoveElement
      <4> QED
        BY <4>1
    <3>2. Sum(f, s \ {c}) = f[y] + Sum(f, (s \ {c}) \ {y})
      BY <2>3, <3>1
    <3>3. Sum(f, s \ {y}) = f[c] + Sum(f, (s \ {y}) \ {c})
      BY <2>1, <2>3, <3>1
    <3>4. (s \ {c}) \ {y} = (s \ {y}) \ {c}
      OBVIOUS
    <3> DEFINE rest == Sum(f, (s \ {y}) \ {c})
    <3>5. f[c] \in Int /\ f[y] \in Int /\ rest \in Int
      BY <1>2, <2>1
    <3>6. Sum(f, s) = f[c] + (f[y] + rest) /\ Sum(f, s \ {y}) = f[c] + rest
      BY <2>1, <3>2, <3>3, <3>4
    <3> HIDE DEF rest
    <3> QED
      BY <3>5, <3>6
  <2> QED
    BY <2>2, <2>3
<1>5. Sizes = Nat
  <2> HIDE DEF Sizes
  <2>1. Sizes \in SUBSET Nat
    BY DEF Sizes
  <2> QED
    BY <1>3, <1>4, <2>1, AllNaturals
<1> QED
  BY <1>1, <1>5

(* A sum is an integer, and one element adds its value. *)
LEMMA SumAdds ==
    ASSUME NEW D, IsFiniteSet(D), NEW f, \A x \in D : f[x] \in Int
    PROVE  /\ \A S \in SUBSET D : Sum(f, S) \in Int
           /\ \A S \in SUBSET D : \A x \in D \ S : Sum(f, S \cup {x}) = Sum(f, S) + f[x]
           /\ Sum(f, {}) = 0
<1>1. (\A S \in SUBSET D : Sum(f, S) \in Int) /\ Sum(f, {}) = 0
  BY SumUnfolds
<1>2. ASSUME NEW S \in SUBSET D, NEW x \in D \ S PROVE Sum(f, S \cup {x}) = Sum(f, S) + f[x]
  <2> DEFINE E == S \cup {x}
  <2>1. IsFiniteSet(E) /\ x \in E /\ \A y \in E : f[y] \in Int
    BY FS_Subset
  <2> HIDE DEF E
  <2>2. Sum(f, E) = f[x] + Sum(f, E \ {x})
    BY <2>1, SumAny
  <2>3. E \ {x} = S
    BY DEF E
  <2>4. f[x] \in Int /\ Sum(f, S) \in Int
    BY <1>1
  <2>5. Sum(f, E) = f[x] + Sum(f, S)
    BY <2>2, <2>3
  <2>6. Sum(f, E) = Sum(f, S) + f[x]
    BY <2>4, <2>5
  <2> QED
    BY <2>6 DEF E
<1> QED
  BY <1>1, <1>2

(* A sum depends on the values; one of zeros is zero, one of naturals is none smaller than
   any of them, one of zeros and ones counts the ones. *)
LEMMA SumSame ==
    ASSUME NEW D, IsFiniteSet(D), NEW f, NEW g, \A x \in D : f[x] \in Int /\ g[x] = f[x]
    PROVE  Sum(g, D) = Sum(f, D)
<1> DEFINE T == {s \in SUBSET D : Sum(g, s) = Sum(f, s)}
<1>1. /\ \A S \in SUBSET D : \A x \in D \ S : Sum(f, S \cup {x}) = Sum(f, S) + f[x]
      /\ Sum(f, {}) = 0
  BY SumAdds
<1>2. /\ \A S \in SUBSET D : \A x \in D \ S : Sum(g, S \cup {x}) = Sum(g, S) + g[x]
      /\ Sum(g, {}) = 0
  BY SumAdds
<1>3. D \in T
  <2>1. {} \in T
    BY <1>1, <1>2
  <2>2. \A s \in SUBSET D : \A x \in D \ s : s \in T => s \cup {x} \in T
    BY <1>1, <1>2
  <2> HIDE DEF T
  <2> QED
    BY <2>1, <2>2, ByAdding
<1> QED
  BY <1>3

LEMMA SumZero ==
    ASSUME NEW D, IsFiniteSet(D), NEW f, \A x \in D : f[x] = 0
    PROVE  Sum(f, D) = 0
<1> DEFINE T == {s \in SUBSET D : Sum(f, s) = 0}
<1>1. /\ \A S \in SUBSET D : \A x \in D \ S : Sum(f, S \cup {x}) = Sum(f, S) + f[x]
      /\ Sum(f, {}) = 0
  BY SumAdds
<1>2. {} \in T
  BY <1>1
<1>3. \A s \in SUBSET D : \A x \in D \ s : s \in T => s \cup {x} \in T
  BY <1>1
<1> HIDE DEF T
<1>4. D \in T
  BY <1>2, <1>3, ByAdding
<1> QED
  BY <1>4 DEF T

LEMMA SumNatural ==
    ASSUME NEW D, IsFiniteSet(D), NEW f, \A x \in D : f[x] \in Nat
    PROVE  Sum(f, D) \in Nat /\ \A x \in D : f[x] <= Sum(f, D)
<1> DEFINE T == {s \in SUBSET D : Sum(f, s) \in Nat /\ \A y \in s : f[y] <= Sum(f, s)}
<1>1. /\ \A S \in SUBSET D : \A x \in D \ S : Sum(f, S \cup {x}) = Sum(f, S) + f[x]
      /\ Sum(f, {}) = 0
  BY SumAdds
<1>2. {} \in T
  BY <1>1
<1>3. \A s \in SUBSET D : \A x \in D \ s : s \in T => s \cup {x} \in T
  <2> SUFFICES ASSUME NEW s \in SUBSET D, NEW x \in D \ s, s \in T PROVE s \cup {x} \in T
    OBVIOUS
  <2> DEFINE a == Sum(f, s)
             z == Sum(f, s \cup {x})
  <2>1. z = a + f[x]
    BY <1>1
  <2>2. f[x] \in Nat /\ a \in Nat /\ \A y \in s : f[y] \in Nat /\ f[y] <= a
    OBVIOUS
  <2> HIDE DEF a, z
  <2>3. z \in Nat /\ f[x] <= z /\ \A y \in s : f[y] <= z
    BY <2>1, <2>2
  <2>4. z \in Nat /\ \A y \in s \cup {x} : f[y] <= z
    BY <2>3
  <2> QED
    BY <2>4 DEF z
<1> HIDE DEF T
<1>4. D \in T
  BY <1>2, <1>3, ByAdding
<1> QED
  BY <1>4 DEF T

LEMMA SumCounts ==
    ASSUME NEW D, IsFiniteSet(D), NEW f, \A x \in D : f[x] \in {0, 1}
    PROVE  Sum(f, D) = Cardinality({x \in D : f[x] = 1})
<1> DEFINE Ones(s) == {x \in s : f[x] = 1}
           T == {s \in SUBSET D : Sum(f, s) = Cardinality(Ones(s))}
<1>1. /\ \A S \in SUBSET D : \A x \in D \ S : Sum(f, S \cup {x}) = Sum(f, S) + f[x]
      /\ Sum(f, {}) = 0 /\ \A S \in SUBSET D : Sum(f, S) \in Int
  BY SumAdds
<1>2. {} \in T
  BY <1>1, FS_EmptySet
<1>3. \A s \in SUBSET D : \A x \in D \ s : s \in T => s \cup {x} \in T
  <2> SUFFICES ASSUME NEW s \in SUBSET D, NEW x \in D \ s, s \in T PROVE s \cup {x} \in T
    OBVIOUS
  <2>1. Sum(f, s \cup {x}) = Sum(f, s) + f[x] /\ Sum(f, s) = Cardinality(Ones(s)) /\ Sum(f, s) \in Int
    BY <1>1
  <2>2. CASE f[x] = 0
    <3>1. Ones(s \cup {x}) = Ones(s)
      BY <2>2
    <3> QED
      BY <2>1, <2>2, <3>1
  <2>3. CASE f[x] = 1
    <3>1. Ones(s \cup {x}) = Ones(s) \cup {x} /\ x \notin Ones(s)
      BY <2>3
    <3>2. IsFiniteSet(Ones(s))
      BY FS_Subset
    <3> HIDE DEF Ones
    <3>3. Cardinality(Ones(s) \cup {x}) = Cardinality(Ones(s)) + 1
      BY <3>1, <3>2, FS_AddElement
    <3> QED
      BY <2>1, <2>3, <3>1, <3>3
  <2> QED
    BY <2>2, <2>3
<1> HIDE DEF T
<1>4. D \in T
  BY <1>2, <1>3, ByAdding
<1> QED
  BY <1>4 DEF T

(* Two parts. *)
LEMMA SumJoins ==
    ASSUME NEW A, NEW B, IsFiniteSet(A), IsFiniteSet(B), A \cap B = {},
           NEW f, \A x \in A \cup B : f[x] \in Int
    PROVE  Sum(f, A \cup B) = Sum(f, A) + Sum(f, B)
<1> DEFINE D == A \cup B
           T == {s \in SUBSET B : Sum(f, A \cup s) = Sum(f, A) + Sum(f, s)}
<1>1. IsFiniteSet(D)
  BY FS_Union
<1>2. /\ \A S \in SUBSET D : Sum(f, S) \in Int
      /\ \A S \in SUBSET D : \A x \in D \ S : Sum(f, S \cup {x}) = Sum(f, S) + f[x]
      /\ Sum(f, {}) = 0
  <2>1. \A x \in D : f[x] \in Int
    OBVIOUS
  <2> HIDE DEF D
  <2> QED
    BY <1>1, <2>1, SumAdds
<1>3. {} \in T
  <2>1. A \in SUBSET D /\ A \cup {} = A
    OBVIOUS
  <2> QED
    BY <1>2, <2>1
<1>4. \A s \in SUBSET B : \A x \in B \ s : s \in T => s \cup {x} \in T
  <2> SUFFICES ASSUME NEW s \in SUBSET B, NEW x \in B \ s, s \in T PROVE s \cup {x} \in T
    OBVIOUS
  <2>1. A \cup s \in SUBSET D /\ x \in D \ (A \cup s) /\ s \in SUBSET D /\ x \in D \ s /\ A \in SUBSET D
    OBVIOUS
  <2>2. Sum(f, (A \cup s) \cup {x}) = Sum(f, A \cup s) + f[x]
    BY <1>2, <2>1
  <2>3. Sum(f, s \cup {x}) = Sum(f, s) + f[x]
    BY <1>2, <2>1
  <2>4. Sum(f, A) \in Int /\ Sum(f, s) \in Int /\ f[x] \in Int
    BY <1>2, <2>1
  <2>5. (A \cup s) \cup {x} = A \cup (s \cup {x})
    OBVIOUS
  <2>6. Sum(f, (A \cup s) \cup {x}) = (Sum(f, A) + Sum(f, s)) + f[x]
    BY <2>2
  <2>7. (Sum(f, A) + Sum(f, s)) + f[x] = Sum(f, A) + (Sum(f, s) + f[x])
    BY <2>4
  <2>8. Sum(f, A \cup (s \cup {x})) = Sum(f, A) + Sum(f, s \cup {x})
    BY <2>3, <2>5, <2>6, <2>7
  <2> QED
    BY <2>8
<1> HIDE DEF T
<1>5. B \in T
  BY <1>3, <1>4, ByAdding
<1> QED
  BY <1>5 DEF T

(* Many parts: P gives one for each b. *)
LEMMA SumOfParts ==
    ASSUME NEW B, IsFiniteSet(B), NEW P, \A b \in B : IsFiniteSet(P[b]),
           \A b, c \in B : b # c => P[b] \cap P[c] = {},
           NEW f, \A b \in B : \A x \in P[b] : f[x] \in Int
    PROVE  /\ IsFiniteSet(UNION {P[b] : b \in B})
           /\ Sum(f, UNION {P[b] : b \in B}) = Sum([b \in B |-> Sum(f, P[b])], B)
<1> DEFINE All(s) == UNION {P[b] : b \in s}
           g == [b \in B |-> Sum(f, P[b])]
           T == {s \in SUBSET B : IsFiniteSet(All(s)) /\ Sum(f, All(s)) = Sum(g, s)}
<1>1. \A b \in B : Sum(f, P[b]) \in Int
  BY SumAdds
<1>2. /\ \A S \in SUBSET B : \A x \in B \ S : Sum(g, S \cup {x}) = Sum(g, S) + g[x]
      /\ Sum(g, {}) = 0
  <2>1. \A b \in B : g[b] \in Int
    BY <1>1
  <2> HIDE DEF g
  <2> QED
    BY <2>1, SumAdds
<1>3. {} \in T
  <2>1. All({}) = {}
    OBVIOUS
  <2>2. Sum(f, {}) = 0
    BY SumAdds, FS_EmptySet
  <2> QED
    BY <1>2, <2>1, <2>2, FS_EmptySet
<1>4. \A s \in SUBSET B : \A x \in B \ s : s \in T => s \cup {x} \in T
  <2> SUFFICES ASSUME NEW s \in SUBSET B, NEW x \in B \ s, s \in T PROVE s \cup {x} \in T
    OBVIOUS
  <2>1. All(s \cup {x}) = All(s) \cup P[x] /\ All(s) \cap P[x] = {}
    OBVIOUS
  <2>2. \A y \in All(s) \cup P[x] : f[y] \in Int
    OBVIOUS
  <2>3. IsFiniteSet(All(s)) /\ IsFiniteSet(P[x]) /\ Sum(f, All(s)) = Sum(g, s)
    OBVIOUS
  <2> HIDE DEF All
  <2>4. IsFiniteSet(All(s) \cup P[x]) /\ Sum(f, All(s) \cup P[x]) = Sum(f, All(s)) + Sum(f, P[x])
    BY <2>1, <2>2, <2>3, SumJoins, FS_Union
  <2>5. Sum(g, s \cup {x}) = Sum(g, s) + Sum(f, P[x])
    BY <1>2
  <2> QED
    BY <2>1, <2>3, <2>4, <2>5
<1> HIDE DEF T, g
<1>5. B \in T
  BY <1>3, <1>4, ByAdding
<1> QED
  BY <1>5 DEF T, g

(* Moved: what m does not reach is zero. *)
LEMMA SumMoved ==
    ASSUME NEW D, IsFiniteSet(D), NEW E, IsFiniteSet(E), NEW m,
           \A x \in D : m[x] \in E, \A x, y \in D : m[x] = m[y] => x = y,
           NEW f, NEW g, \A y \in E : g[y] \in Int, \A x \in D : f[x] = g[m[x]],
           \A y \in E : (\A x \in D : m[x] # y) => g[y] = 0
    PROVE  Sum(f, D) = Sum(g, E)
<1> DEFINE Image(s) == {m[x] : x \in s}
           T == {s \in SUBSET D : Sum(f, s) = Sum(g, Image(s))}
<1>1. \A x \in D : f[x] \in Int
  OBVIOUS
<1>2. /\ \A S \in SUBSET D : \A x \in D \ S : Sum(f, S \cup {x}) = Sum(f, S) + f[x]
      /\ Sum(f, {}) = 0
  BY <1>1, SumAdds
<1>3. /\ \A S \in SUBSET E : \A x \in E \ S : Sum(g, S \cup {x}) = Sum(g, S) + g[x]
      /\ Sum(g, {}) = 0 /\ \A S \in SUBSET E : Sum(g, S) \in Int
  BY SumAdds
<1>4. {} \in T
  <2>1. Image({}) = {}
    OBVIOUS
  <2> QED
    BY <1>2, <1>3, <2>1
<1>5. \A s \in SUBSET D : \A x \in D \ s : s \in T => s \cup {x} \in T
  <2> SUFFICES ASSUME NEW s \in SUBSET D, NEW x \in D \ s, s \in T PROVE s \cup {x} \in T
    OBVIOUS
  <2>1. Image(s \cup {x}) = Image(s) \cup {m[x]} /\ Image(s) \in SUBSET E /\ m[x] \in E \ Image(s)
    OBVIOUS
  <2>2. Sum(f, s) = Sum(g, Image(s)) /\ f[x] = g[m[x]]
    OBVIOUS
  <2> HIDE DEF Image
  <2>3. Sum(f, s \cup {x}) = Sum(f, s) + f[x]
    BY <1>2
  <2>4. Sum(g, Image(s) \cup {m[x]}) = Sum(g, Image(s)) + g[m[x]]
    BY <1>3, <2>1
  <2>5. Sum(f, s \cup {x}) = Sum(g, Image(s \cup {x}))
    BY <2>1, <2>2, <2>3, <2>4
  <2> QED
    BY <2>5
<1>6. D \in T
  <2> HIDE DEF T
  <2> QED
    BY <1>4, <1>5, ByAdding
<1> DEFINE I == Image(D)
           R == E \ I
<1>7. I \subseteq E /\ I \cup R = E /\ I \cap R = {} /\ \A y \in R : g[y] = 0
  OBVIOUS
<1>8. Sum(f, D) = Sum(g, I)
  BY <1>6
<1> HIDE DEF I, R
<1>9. IsFiniteSet(I) /\ IsFiniteSet(R)
  <2>1. R \subseteq E
    BY <1>7
  <2> QED
    BY <1>7, <2>1, FS_Subset
<1>10. Sum(g, R) = 0
  BY <1>7, <1>9, SumZero
<1>11. Sum(g, I \cup R) = Sum(g, I) + Sum(g, R)
  BY <1>7, <1>9, SumJoins
<1>12. Sum(g, I) \in Int
  BY <1>3, <1>7
<1>13. Sum(g, E) = Sum(g, I) + 0
  BY <1>7, <1>10, <1>11
<1>14. Sum(g, E) = Sum(g, I)
  BY <1>12, <1>13
<1> QED
  BY <1>8, <1>14

(* Equal terms. *)
LEMMA SumAlike ==
    ASSUME NEW D, IsFiniteSet(D), NEW f, NEW v \in Int, \A x \in D : f[x] = v
    PROVE  Sum(f, D) = Cardinality(D) * v
<1> DEFINE T == {s \in SUBSET D : Sum(f, s) = Cardinality(s) * v}
<1>1. /\ \A S \in SUBSET D : \A x \in D \ S : Sum(f, S \cup {x}) = Sum(f, S) + f[x]
      /\ Sum(f, {}) = 0
  BY SumAdds
<1>2. {} \in T
  BY <1>1, FS_EmptySet
<1>3. \A s \in SUBSET D : \A x \in D \ s : s \in T => s \cup {x} \in T
  <2> SUFFICES ASSUME NEW s \in SUBSET D, NEW x \in D \ s, s \in T PROVE s \cup {x} \in T
    OBVIOUS
  <2>1. IsFiniteSet(s) /\ Cardinality(s) \in Nat
    BY FS_Subset, FS_CardinalityType
  <2>2. Cardinality(s \cup {x}) = Cardinality(s) + 1
    BY <2>1, FS_AddElement
  <2>3. Sum(f, s \cup {x}) = Cardinality(s) * v + v
    BY <1>1
  <2>4. (Cardinality(s) + 1) * v = Cardinality(s) * v + v
    BY <2>1
  <2> QED
    BY <2>2, <2>3, <2>4
<1> HIDE DEF T
<1>4. D \in T
  BY <1>2, <1>3, ByAdding
<1> QED
  BY <1>4 DEF T

-----------------------------------------------------------------------------
(* Orders.  In a finite set ordered by R each rank is that of one element: sorted by
   rank, every element comes once. *)
Below(D, R, x) == {j \in D : <<j, x>> \in R}

LEMMA Ranked ==
    ASSUME NEW D, IsFiniteSet(D), NEW R,
           \A x \in D : <<x, x>> \notin R,
           \A x, y \in D : x # y => <<x, y>> \in R \/ <<y, x>> \in R,
           \A x, y, z \in D : <<x, y>> \in R /\ <<y, z>> \in R => <<x, z>> \in R
    PROVE  \A n \in 1 .. Cardinality(D) : \E x \in D :
              /\ Cardinality(Below(D, R, x)) = n - 1
              /\ \A y \in D : Cardinality(Below(D, R, y)) = n - 1 => y = x
<1> USE DEF Below
<1> DEFINE Before(x) == Below(D, R, x)
           N == Cardinality(D)
           rank == [x \in D |-> Cardinality(Before(x)) + 1]
<1>1. \A x \in D : IsFiniteSet(Before(x)) /\ Cardinality(Before(x)) \in Nat /\ x \notin Before(x)
  <2>1. \A x \in D : IsFiniteSet(Before(x))
    BY FS_Subset
  <2> QED
    BY <2>1, FS_CardinalityType
<1>2. N \in Nat
  BY FS_CardinalityType
<1>3. ASSUME NEW x \in D PROVE rank[x] \in 1 .. N
  <2>1. Before(x) \cup {x} \in SUBSET D
    OBVIOUS
  <2>2. Cardinality(Before(x) \cup {x}) = Cardinality(Before(x)) + 1
    <3> HIDE DEF Before
    <3> QED
      BY <1>1, FS_AddElement
  <2>3. Cardinality(Before(x) \cup {x}) <= N
    BY <2>1, FS_Subset
  <2> HIDE DEF Before
  <2> QED
    BY <1>1, <1>2, <2>2, <2>3
<1>4. ASSUME NEW x \in D, NEW y \in D, <<x, y>> \in R PROVE rank[x] < rank[y]
  <2>1. Before(x) \cup {x} \in SUBSET Before(y)
    BY <1>4
  <2> HIDE DEF Before
  <2>2. Cardinality(Before(x) \cup {x}) = Cardinality(Before(x)) + 1
    BY <1>1, FS_AddElement
  <2>3. Cardinality(Before(x) \cup {x}) <= Cardinality(Before(y))
    BY <1>1, <2>1, FS_Subset
  <2> QED
    BY <1>1, <2>2, <2>3
<1>5. \A x, y \in D : rank[x] = rank[y] => x = y
  <2> SUFFICES ASSUME NEW x \in D, NEW y \in D, rank[x] = rank[y], x # y PROVE FALSE
    OBVIOUS
  <2>1. rank[x] < rank[y] \/ rank[y] < rank[x]
    BY <1>4
  <2>2. rank[x] \in Int /\ rank[y] \in Int
    BY <1>3
  <2> HIDE DEF rank
  <2> QED
    BY <2>1, <2>2
<1>6. rank \in Surjection(D, 1 .. N)
  <2> HIDE DEF N
  <2>1. rank \in Injection(D, 1 .. N)
    <3>1. rank \in [D -> 1 .. N]
      BY <1>3
    <3> HIDE DEF rank
    <3> QED
      BY <1>5, <3>1 DEF Injection, IsInjective
  <2>2. IsFiniteSet(1 .. N) /\ Cardinality(1 .. N) = N
    BY <1>2, FS_Interval
  <2>3. Cardinality(D) = Cardinality(1 .. N)
    BY <2>2 DEF N
  <2> HIDE DEF rank
  <2> QED
    BY <2>1, <2>2, <2>3, FS_Injection
<1>7. \A n \in 1 .. N : \E x \in D : rank[x] = n
  <2> HIDE DEF rank, N
  <2> QED
    BY <1>6 DEF Surjection
<1> SUFFICES ASSUME NEW n \in 1 .. N
             PROVE  \E x \in D : /\ Cardinality(Before(x)) = n - 1
                                 /\ \A y \in D : Cardinality(Before(y)) = n - 1 => y = x
  OBVIOUS
<1>8. PICK x \in D : rank[x] = n
  BY <1>7
<1>9. \A y \in D : Cardinality(Before(y)) = n - 1 <=> rank[y] = n
  <2> SUFFICES ASSUME NEW y \in D PROVE Cardinality(Before(y)) = n - 1 <=> rank[y] = n
    OBVIOUS
  <2>2. rank[y] = Cardinality(Before(y)) + 1
    OBVIOUS
  <2> HIDE DEF Before, N
  <2>1. Cardinality(Before(y)) \in Nat /\ n \in Int
    BY <1>1, <1>2
  <2> QED
    BY <2>1, <2>2
<1> HIDE DEF rank, Before
<1> QED
  BY <1>5, <1>8, <1>9

(* Sorted: a sequence that has the element of rank n - 1 at n has every element once. *)
LEMMA Sorted ==
    ASSUME NEW D, IsFiniteSet(D), NEW q, NEW R,
           \A x \in D : <<x, x>> \notin R,
           \A x, y \in D : x # y => <<x, y>> \in R \/ <<y, x>> \in R,
           \A x, y, z \in D : <<x, y>> \in R /\ <<y, z>> \in R => <<x, z>> \in R,
           q = [n \in 1 .. Cardinality(D) |-> q[n]],
           \A n \in 1 .. Cardinality(D), x \in D :
               Cardinality(Below(D, R, x)) = n - 1 =>
                   q[n] \in D /\ Cardinality(Below(D, R, q[n])) = n - 1
    PROVE  /\ Cardinality(D) \in Nat
           /\ q \in [1 .. Cardinality(D) -> D]
           /\ \A m, n \in 1 .. Cardinality(D) : q[m] = q[n] => m = n
           /\ \A x \in D : \E n \in 1 .. Cardinality(D) : q[n] = x
           /\ \A m, n \in 1 .. Cardinality(D) : m < n => <<q[m], q[n]>> \in R
<1> DEFINE N == Cardinality(D)
           Before(x) == Below(D, R, x)
<1>1. N \in Nat
  BY FS_CardinalityType
<1>2. \A n \in 1 .. N : \E x \in D : /\ Cardinality(Before(x)) = n - 1
                                      /\ \A y \in D : Cardinality(Before(y)) = n - 1 => y = x
  BY Ranked
<1>3. \A n \in 1 .. N, x \in D :
         Cardinality(Before(x)) = n - 1 => q[n] \in D /\ Cardinality(Before(q[n])) = n - 1
  OBVIOUS
<1>9. \A x, y \in D : <<x, y>> \in R => Before(x) \subseteq Before(y)
  BY DEF Below
<1>10. \A x \in D : IsFiniteSet(Before(x)) /\ Cardinality(Before(x)) \in Nat
  <2>1. \A x \in D : IsFiniteSet(Before(x))
    BY FS_Subset DEF Below
  <2> QED
    BY <2>1, FS_CardinalityType
<1>0. q = [n \in 1 .. N |-> q[n]]
  OBVIOUS
<1> HIDE DEF Before
<1>4. \A n \in 1 .. N : q[n] \in D /\ Cardinality(Before(q[n])) = n - 1
  BY <1>2, <1>3
<1>5. \A x \in D : \E n \in 1 .. N : q[n] = x
  <2> SUFFICES ASSUME NEW x \in D PROVE \E n \in 1 .. N : q[n] = x
    OBVIOUS
  <2> DEFINE n == Cardinality(Before(x)) + 1
  <2>1. n \in 1 .. N
    <3>1. Before(x) \cup {x} \in SUBSET D /\ x \notin Before(x)
      BY DEF Before, Below
    <3>2. Cardinality(Before(x) \cup {x}) = Cardinality(Before(x)) + 1
      BY <1>10, <3>1, FS_AddElement
    <3>3. Cardinality(Before(x) \cup {x}) <= N
      BY <3>1, FS_Subset
    <3> QED
      BY <1>1, <1>10, <3>2, <3>3
  <2>2. Cardinality(Before(x)) = n - 1
    BY <1>10
  <2> HIDE DEF n
  <2> QED
    BY <1>2, <1>4, <2>1, <2>2
<1>6. ASSUME NEW m \in 1 .. N, NEW n \in 1 .. N, q[m] = q[n] PROVE m = n
  <2>1. m - 1 = n - 1
    BY <1>4, <1>6
  <2> QED
    BY <1>1, <2>1
<1>7. ASSUME NEW m \in 1 .. N, NEW n \in 1 .. N, m < n PROVE <<q[m], q[n]>> \in R
  <2> SUFFICES ASSUME <<q[n], q[m]>> \in R PROVE FALSE
    <3>1. m # n
      BY <1>1, <1>7
    <3>2. q[m] # q[n]
      BY <1>6, <3>1
    <3> QED
      BY <1>4, <3>2
  <2>1. Before(q[n]) \in SUBSET Before(q[m])
    BY <1>4, <1>9
  <2>2. Cardinality(Before(q[n])) <= Cardinality(Before(q[m]))
    BY <1>4, <1>10, <2>1, FS_Subset
  <2>3. n - 1 <= m - 1
    BY <1>4, <2>2
  <2> QED
    BY <1>1, <1>7, <2>3
<1>8. q \in [1 .. N -> D]
  BY <1>0, <1>4
<1> QED
  BY <1>1, <1>5, <1>6, <1>7, <1>8

(* ByLength of packing: every item of the share once. *)
LEMMA ByLengthSorted ==
    ASSUME NEW docs, NEW share, IsFiniteSet(ToSet(share)), ToSet(share) \in SUBSET Nat,
           \A i \in ToSet(share) : Len(docs[i].ids) \in Nat
    PROVE  LET D == ToSet(share)  q == ByLength(docs, share)
           IN  /\ Cardinality(D) \in Nat
               /\ q \in [1 .. Cardinality(D) -> D]
               /\ \A m, n \in 1 .. Cardinality(D) : q[m] = q[n] => m = n
               /\ \A x \in D : \E n \in 1 .. Cardinality(D) : q[n] = x
<1> DEFINE D == ToSet(share)
           R == {p \in D \X D : Precedes(docs, p[1], p[2])}
           q == ByLength(docs, share)
<1>1. \A i, j \in D : <<i, j>> \in R <=> Precedes(docs, i, j)
  OBVIOUS
<1>2. \A i, j \in D : Precedes(docs, i, j) <=> \/ Len(docs[i].ids) > Len(docs[j].ids)
                                               \/ Len(docs[i].ids) = Len(docs[j].ids) /\ i < j
  BY DEF Precedes
<1>3. \A x \in D : {j \in D : Precedes(docs, j, x)} = Below(D, R, x)
  BY <1>1 DEF Below
<1>4. /\ q = [n \in 1 .. Cardinality(D) |-> q[n]]
      /\ \A n \in 1 .. Cardinality(D), x \in D :
             Cardinality(Below(D, R, x)) = n - 1 =>
                 q[n] \in D /\ Cardinality(Below(D, R, q[n])) = n - 1
  <2> DEFINE F(n) == CHOOSE i \in D : Cardinality({j \in D : Precedes(docs, j, i)}) = n - 1
  <2>0. q = [n \in 1 .. Cardinality(D) |-> F(n)]
    BY DEF ByLength
  <2> HIDE DEF F, q
  <2>1. q = [n \in 1 .. Cardinality(D) |-> q[n]]
    BY <2>0
  <2>2. ASSUME NEW n \in 1 .. Cardinality(D), NEW x \in D, Cardinality({j \in D : Precedes(docs, j, x)}) = n - 1
        PROVE  q[n] \in D /\ Cardinality({j \in D : Precedes(docs, j, q[n])}) = n - 1
    BY <2>0, <2>2, Zenon DEF F
  <2> HIDE DEF R, q
  <2> QED
    BY <1>3, <2>1, <2>2
<1> HIDE DEF R, q
<1>5. D \in SUBSET Nat /\ \A i \in D : Len(docs[i].ids) \in Nat
  OBVIOUS
<1> HIDE DEF D
<1>6. \A x \in D : <<x, x>> \notin R
  BY <1>1, <1>2, <1>5
<1>7. \A x, y \in D : x # y => <<x, y>> \in R \/ <<y, x>> \in R
  BY <1>1, <1>2, <1>5
<1>8. \A x, y, z \in D : <<x, y>> \in R /\ <<y, z>> \in R => <<x, z>> \in R
  <2> SUFFICES ASSUME NEW x \in D, NEW y \in D, NEW z \in D, <<x, y>> \in R, <<y, z>> \in R
               PROVE  <<x, z>> \in R
    OBVIOUS
  <2>1. /\ Len(docs[x].ids) \in Nat /\ Len(docs[y].ids) \in Nat /\ Len(docs[z].ids) \in Nat
        /\ x \in Nat /\ y \in Nat /\ z \in Nat
    BY <1>5
  <2>2. /\ Len(docs[x].ids) > Len(docs[y].ids) \/ (Len(docs[x].ids) = Len(docs[y].ids) /\ x < y)
        /\ Len(docs[y].ids) > Len(docs[z].ids) \/ (Len(docs[y].ids) = Len(docs[z].ids) /\ y < z)
    BY <1>1, <1>2
  <2>3. Len(docs[x].ids) > Len(docs[z].ids) \/ (Len(docs[x].ids) = Len(docs[z].ids) /\ x < z)
    <3> DEFINE a == Len(docs[x].ids)
               b == Len(docs[y].ids)
               c == Len(docs[z].ids)
    <3>1. a \in Nat /\ b \in Nat /\ c \in Nat
          /\ (a > b \/ (a = b /\ x < y)) /\ (b > c \/ (b = c /\ y < z))
      BY <2>1, <2>2
    <3> HIDE DEF a, b, c
    <3>2. a > c \/ (a = c /\ x < z)
      BY <2>1, <3>1
    <3> QED
      BY <3>2 DEF a, c
  <2> QED
    BY <1>1, <1>2, <2>3
<1>9. IsFiniteSet(D)
  BY DEF D
<1>10. /\ Cardinality(D) \in Nat
       /\ q \in [1 .. Cardinality(D) -> D]
       /\ \A m, n \in 1 .. Cardinality(D) : q[m] = q[n] => m = n
       /\ \A x \in D : \E n \in 1 .. Cardinality(D) : q[n] = x
  BY <1>4, <1>6, <1>7, <1>8, <1>9, Sorted
<1> QED
  BY <1>10 DEF D, q

(* InOrder: the numbers of a finite set, each once, in their order. *)
LEMMA InOrderSorted ==
    ASSUME NEW D \in SUBSET Nat, IsFiniteSet(D)
    PROVE  /\ Cardinality(D) \in Nat
           /\ InOrder(D) \in [1 .. Cardinality(D) -> D]
           /\ \A m, n \in 1 .. Cardinality(D) : InOrder(D)[m] = InOrder(D)[n] => m = n
           /\ \A x \in D : \E n \in 1 .. Cardinality(D) : InOrder(D)[n] = x
<1> DEFINE R == {p \in D \X D : p[1] < p[2]}
           q == InOrder(D)
<1>1. \A i, j \in D : <<i, j>> \in R <=> i < j
  OBVIOUS
<1>3. \A x \in D : {j \in D : j < x} = Below(D, R, x)
  BY <1>1 DEF Below
<1>4. /\ q = [n \in 1 .. Cardinality(D) |-> q[n]]
      /\ \A n \in 1 .. Cardinality(D), x \in D :
             Cardinality(Below(D, R, x)) = n - 1 =>
                 q[n] \in D /\ Cardinality(Below(D, R, q[n])) = n - 1
  <2> DEFINE F(n) == CHOOSE i \in D : Cardinality({j \in D : j < i}) = n - 1
  <2>0. q = [n \in 1 .. Cardinality(D) |-> F(n)]
    BY DEF InOrder
  <2> HIDE DEF F, q
  <2>1. q = [n \in 1 .. Cardinality(D) |-> q[n]]
    BY <2>0
  <2>2. ASSUME NEW n \in 1 .. Cardinality(D), NEW x \in D, Cardinality({j \in D : j < x}) = n - 1
        PROVE  q[n] \in D /\ Cardinality({j \in D : j < q[n]}) = n - 1
    BY <2>0, <2>2, Zenon DEF F
  <2> HIDE DEF R, q
  <2> QED
    BY <1>3, <2>1, <2>2
<1> HIDE DEF R, q
<1>6. \A x \in D : <<x, x>> \notin R
  BY <1>1
<1>7. \A x, y \in D : x # y => <<x, y>> \in R \/ <<y, x>> \in R
  BY <1>1
<1>8. \A x, y, z \in D : <<x, y>> \in R /\ <<y, z>> \in R => <<x, z>> \in R
  BY <1>1
<1>10. /\ Cardinality(D) \in Nat
       /\ q \in [1 .. Cardinality(D) -> D]
       /\ \A m, n \in 1 .. Cardinality(D) : q[m] = q[n] => m = n
       /\ \A x \in D : \E n \in 1 .. Cardinality(D) : q[n] = x
  BY <1>4, <1>6, <1>7, <1>8, Sorted
<1> QED
  BY <1>10 DEF q

LEMMA SubsetsByPicking ==
    ASSUME NEW D, IsFiniteSet(D), NEW pick, \A s \in SUBSET D : s # {} => pick[s] \in s,
           NEW T, {} \in T, \A s \in SUBSET D : s # {} /\ s \ {pick[s]} \in T => s \in T
    PROVE  \A s \in SUBSET D : s \in T
<1> DEFINE g == [s \in SUBSET D |-> s]
<1>1. g[{}] \in T
  OBVIOUS
<1>2. \A s \in SUBSET D : s # {} /\ g[s \ {pick[s]}] \in T => g[s] \in T
  OBVIOUS
<1>3. \A s \in SUBSET D : g[s] \in T
  <2> HIDE DEF g
  <2> QED
    BY <1>1, <1>2, SubsetInduction
<1> QED
  BY <1>3

-----------------------------------------------------------------------------
(* Packing.  The sizes of sets of documents are sums. *)
LEMMA Sizes ==
    ASSUME NEW docs, NEW S, IsFiniteSet(S), \A i \in S : Len(docs[i].ids) \in Nat
    PROVE  /\ \A A \in SUBSET S : Size(docs, A) \in Nat
           /\ \A A \in SUBSET S : \A i \in S \ A : Size(docs, A \cup {i}) = Size(docs, A) + Size(docs, {i})
           /\ \A A \in SUBSET S : Size(docs, A) = Sum([i \in S |-> Len(docs[i].ids)], A)
           /\ Size(docs, {}) = 0 /\ \A i \in S : Size(docs, {i}) = Len(docs[i].ids)
<1> DEFINE f == [i \in S |-> Len(docs[i].ids)]
<1>1. ASSUME NEW A \in SUBSET S PROVE Size(docs, A) = Sum(f, A)
  <2> DEFINE g == [i \in A |-> Len(docs[i].ids)]
  <2>1. IsFiniteSet(A) /\ \A x \in A : f[x] \in Int /\ g[x] = f[x]
    BY FS_Subset
  <2>2. Size(docs, A) = Sum(g, A)
    BY DEF Size, Sum, SumFunction
  <2> HIDE DEF f, g
  <2> QED
    BY <2>1, <2>2, SumSame
<1>2. \A x \in S : f[x] \in Nat
  OBVIOUS
<1> HIDE DEF f
<1>3. /\ \A A \in SUBSET S : \A x \in S \ A : Sum(f, A \cup {x}) = Sum(f, A) + f[x]
      /\ Sum(f, {}) = 0
  BY <1>2, SumAdds
<1>4. ASSUME NEW A \in SUBSET S PROVE Sum(f, A) \in Nat
  <2>1. IsFiniteSet(A)
    BY FS_Subset
  <2> QED
    BY <1>2, <2>1, SumNatural
<1>5. ASSUME NEW i \in S PROVE Sum(f, {i}) = f[i]
  <2>1. Sum(f, {} \cup {i}) = Sum(f, {}) + f[i]
    BY <1>3
  <2>2. {} \cup {i} = {i}
    OBVIOUS
  <2> QED
    BY <1>2, <1>3, <2>1, <2>2
<1>6. ASSUME NEW A \in SUBSET S, NEW i \in S \ A
      PROVE  Size(docs, A \cup {i}) = Size(docs, A) + Size(docs, {i})
  <2>1. A \cup {i} \in SUBSET S /\ {i} \in SUBSET S
    OBVIOUS
  <2> QED
    BY <1>1, <1>3, <1>5, <2>1
<1>7. \A i \in S : Size(docs, {i}) = Len(docs[i].ids)
  BY <1>1, <1>5 DEF f
<1> QED
  BY <1>1, <1>3, <1>4, <1>6, <1>7 DEF f

(* What first fit keeps: every document of S is in one bin, a bin is within the limit or of
   one document, and two bins would not fit in one. *)
Filled(docs, limit, bins, S) ==
    /\ bins \in Seq(SUBSET S) /\ UNION {bins[b] : b \in DOMAIN bins} = S
    /\ \A b \in DOMAIN bins : bins[b] # {} /\ (Size(docs, bins[b]) <= limit \/ \E i \in S : bins[b] = {i})
    /\ \A b, c \in DOMAIN bins : b # c =>
           /\ bins[b] \cap bins[c] = {}
           /\ Size(docs, bins[b]) + Size(docs, bins[c]) > limit

LEMMA PlaceFills ==
    ASSUME NEW docs, NEW limit \in Nat, NEW S, NEW i, i \notin S, IsFiniteSet(S),
           \A j \in S \cup {i} : Len(docs[j].ids) \in Nat,
           NEW bins, Filled(docs, limit, bins, S)
    PROVE  Filled(docs, limit, Place(docs, limit, bins, i), S \cup {i})
<1> DEFINE roomy == {b \in DOMAIN bins : Size(docs, bins[b] \cup {i}) <= limit}
           U == S \cup {i}
           N == Len(bins)
<1>0. IsFiniteSet(U)
  BY FS_AddElement
<1>1. /\ \A A \in SUBSET U : Size(docs, A) \in Nat
      /\ \A A \in SUBSET U : \A j \in U \ A : Size(docs, A \cup {j}) = Size(docs, A) + Size(docs, {j})
  BY <1>0, Sizes
<1>2. /\ N \in Nat /\ DOMAIN bins = 1 .. N /\ \A b \in 1 .. N : bins[b] \in SUBSET S
      /\ bins \in Seq(SUBSET U)
  BY DEF Filled
<1>3. UNION {bins[b] : b \in 1 .. N} = S
  BY <1>2 DEF Filled
<1>4. \A b \in 1 .. N : bins[b] # {} /\ (Size(docs, bins[b]) <= limit \/ \E j \in S : bins[b] = {j})
  BY <1>2 DEF Filled
<1>5. \A b, c \in 1 .. N : b # c => /\ bins[b] \cap bins[c] = {}
                                    /\ Size(docs, bins[b]) + Size(docs, bins[c]) > limit
  BY <1>2 DEF Filled
<1>6. \A b \in 1 .. N : Size(docs, bins[b]) \in Nat /\ Size(docs, {i}) \in Nat
                        /\ Size(docs, bins[b] \cup {i}) = Size(docs, bins[b]) + Size(docs, {i})
  <2> SUFFICES ASSUME NEW b \in 1 .. N
               PROVE  Size(docs, bins[b]) \in Nat /\ Size(docs, {i}) \in Nat
                        /\ Size(docs, bins[b] \cup {i}) = Size(docs, bins[b]) + Size(docs, {i})
    OBVIOUS
  <2>1. bins[b] \in SUBSET U /\ i \in U \ bins[b] /\ {i} \in SUBSET U
    BY <1>2
  <2> HIDE DEF U
  <2> QED
    BY <1>1, <2>1
<1> HIDE DEF N
<1>7. CASE roomy = {}
  <2> DEFINE new == Append(bins, {i})
  <2>1. Place(docs, limit, bins, i) = new
    BY <1>7 DEF Place
  <2>2. /\ new \in Seq(SUBSET U) /\ DOMAIN new = 1 .. N + 1 /\ new[N + 1] = {i}
        /\ \A b \in 1 .. N : new[b] = bins[b]
    BY <1>2 DEF N
  <2>3. \A b \in 1 .. N + 1 : b \in 1 .. N \/ b = N + 1
    BY <1>2
  <2>9. N + 1 \in 1 .. N + 1 /\ \A b \in 1 .. N : b \in 1 .. N + 1
    BY <1>2
  <2>4. \A b \in 1 .. N : Size(docs, bins[b]) + Size(docs, {i}) > limit
    <3> SUFFICES ASSUME NEW b \in 1 .. N PROVE Size(docs, bins[b]) + Size(docs, {i}) > limit
      OBVIOUS
    <3> DEFINE a == Size(docs, bins[b])
               e == Size(docs, {i})
               u == Size(docs, bins[b] \cup {i})
    <3>1. ~ (u <= limit)
      BY <1>2, <1>7
    <3>2. a \in Nat /\ e \in Nat /\ u = a + e
      BY <1>6
    <3> HIDE DEF a, e, u
    <3>3. a + e > limit
      BY <3>1, <3>2
    <3> QED
      BY <3>3 DEF a, e
  <2> HIDE DEF new, U
  <2>5. UNION {new[b] : b \in DOMAIN new} = U
    <3>1. U = S \cup {i}
      BY DEF U
    <3>2. \A b \in DOMAIN new : new[b] \subseteq U
      <4> SUFFICES ASSUME NEW b \in DOMAIN new PROVE new[b] \subseteq U
        OBVIOUS
      <4>1. CASE b = N + 1
        BY <2>2, <3>1, <4>1
      <4>2. CASE b \in 1 .. N
        BY <1>2, <2>2, <3>1, <4>2
      <4> QED
        BY <2>2, <2>3, <4>1, <4>2
    <3>3. \A x \in U : \E b \in DOMAIN new : x \in new[b]
      <4> SUFFICES ASSUME NEW x \in U PROVE \E b \in DOMAIN new : x \in new[b]
        OBVIOUS
      <4>1. CASE x = i
        BY <2>2, <2>9, <4>1
      <4>2. CASE x \in S
        <5>1. PICK b \in 1 .. N : x \in bins[b]
          BY <1>3, <4>2
        <5> QED
          BY <2>2, <2>9, <5>1
      <4> QED
        BY <3>1, <4>1, <4>2
    <3> QED
      BY <3>2, <3>3
  <2>6. ASSUME NEW b \in 1 .. N + 1
        PROVE  new[b] # {} /\ (Size(docs, new[b]) <= limit \/ \E j \in U : new[b] = {j})
    <3>1. CASE b = N + 1
      BY <2>2, <3>1 DEF U
    <3>2. CASE b \in 1 .. N
      BY <1>4, <2>2, <3>2 DEF U
    <3> QED
      BY <2>3, <3>1, <3>2
  <2>7. ASSUME NEW b \in 1 .. N + 1, NEW c \in 1 .. N + 1, b # c
        PROVE  new[b] \cap new[c] = {} /\ Size(docs, new[b]) + Size(docs, new[c]) > limit
    <3>1. CASE b \in 1 .. N /\ c \in 1 .. N
      BY <1>5, <2>2, <2>7, <3>1
    <3>2. CASE b \in 1 .. N /\ c = N + 1
      <4>1. new[b] \cap new[c] = {}
        BY <1>2, <2>2, <3>2
      <4> QED
        BY <2>2, <2>4, <3>2, <4>1
    <3>3. CASE b = N + 1 /\ c \in 1 .. N
      <4>1. new[b] \cap new[c] = {}
        BY <1>2, <2>2, <3>3
      <4>2. Size(docs, bins[c]) + Size(docs, {i}) = Size(docs, {i}) + Size(docs, bins[c])
        <5>1. \A a, e \in Nat : a + e = e + a
          OBVIOUS
        <5> QED
          BY <1>6, <3>3, <5>1
      <4> QED
        BY <2>2, <2>4, <3>3, <4>1, <4>2
    <3> QED
      BY <2>3, <2>7, <3>1, <3>2, <3>3
  <2>8. Filled(docs, limit, new, U)
    BY <2>2, <2>5, <2>6, <2>7 DEF Filled
  <2> QED
    BY <2>1, <2>8 DEF U
<1>8. CASE roomy # {}
  <2> DEFINE m == Min(roomy)
             new == [bins EXCEPT ![m] = @ \cup {i}]
  <2>1. Place(docs, limit, bins, i) = new
    BY <1>8 DEF Place
  <2>2. m \in roomy
    <3>1. roomy \in SUBSET Nat
      BY <1>2
    <3> HIDE DEF roomy
    <3>2. \E x \in roomy : \A y \in roomy : x <= y
      BY <1>8, <3>1, LeastNat
    <3> QED
      BY <3>2, Zenon DEF Min
  <2>3. m \in 1 .. N /\ Size(docs, bins[m] \cup {i}) <= limit
    BY <1>2, <2>2
  <2> HIDE DEF m
  <2>4. /\ DOMAIN new = 1 .. N /\ new[m] = bins[m] \cup {i}
        /\ \A b \in 1 .. N : b # m => new[b] = bins[b]
    BY <1>2, <2>3
  <2>5. new \in Seq(SUBSET U) /\ new \in [1 .. N -> SUBSET U]
    <3>1. new \in [1 .. N -> SUBSET U]
      BY <1>2, <2>3
    <3> HIDE DEF new
    <3> QED
      BY <1>2, <3>1
  <2> HIDE DEF new
  <2>6. UNION {new[b] : b \in DOMAIN new} = U
    <3>1. \A b \in 1 .. N : new[b] \subseteq U
      <4>1. \A b \in 1 .. N : new[b] \in SUBSET U
        BY <2>4, <2>5
      <4> QED
        BY <4>1
    <3>2. \A x \in U : \E b \in 1 .. N : x \in new[b]
      <4> SUFFICES ASSUME NEW x \in U PROVE \E b \in 1 .. N : x \in new[b]
        OBVIOUS
      <4>1. CASE x = i
        BY <2>3, <2>4, <4>1
      <4>2. CASE x # i
        <5>1. PICK b \in 1 .. N : x \in bins[b]
          BY <1>3, <4>2
        <5> QED
          BY <2>4, <5>1
      <4> QED
        BY <4>1, <4>2
    <3> QED
      BY <2>4, <3>1, <3>2
  <2>7. ASSUME NEW b \in 1 .. N
        PROVE  new[b] # {} /\ (Size(docs, new[b]) <= limit \/ \E j \in U : new[b] = {j})
    <3>1. CASE b = m
      BY <2>3, <2>4, <3>1
    <3>2. CASE b # m
      BY <1>4, <2>4, <3>2
    <3> QED
      BY <3>1, <3>2
  <2>8. ASSUME NEW b \in 1 .. N
        PROVE  Size(docs, new[b]) \in Nat /\ Size(docs, new[b]) >= Size(docs, bins[b])
               /\ bins[b] \subseteq new[b] /\ new[b] \subseteq bins[b] \cup (IF b = m THEN {i} ELSE {})
    <3>1. CASE b = m
      <4>1. \A a, e \in Nat : a + e \in Nat /\ a + e >= a
        OBVIOUS
      <4> QED
        BY <1>6, <2>4, <3>1, <4>1
    <3>2. CASE b # m
      <4>1. \A a \in Nat : a >= a
        OBVIOUS
      <4> QED
        BY <1>6, <2>4, <3>2, <4>1
    <3> QED
      BY <3>1, <3>2
  <2>9. ASSUME NEW b \in 1 .. N, NEW c \in 1 .. N, b # c
        PROVE  new[b] \cap new[c] = {} /\ Size(docs, new[b]) + Size(docs, new[c]) > limit
    <3>1. bins[b] \cap bins[c] = {} /\ Size(docs, bins[b]) + Size(docs, bins[c]) > limit
      BY <1>5, <2>9
    <3>2. i \notin bins[b] /\ i \notin bins[c]
      BY <1>2
    <3>3. new[b] \cap new[c] = {}
      BY <2>8, <2>9, <3>1, <3>2
    <3>4. Size(docs, new[b]) + Size(docs, new[c]) > limit
      <4>1. \A x, y, a, e \in Nat : x >= a /\ y >= e /\ a + e > limit => x + y > limit
        OBVIOUS
      <4> QED
        BY <1>6, <2>8, <3>1, <4>1
    <3> QED
      BY <3>3, <3>4
  <2>10. Filled(docs, limit, new, U)
    BY <2>4, <2>5, <2>6, <2>7, <2>9 DEF Filled
  <2> QED
    BY <2>1, <2>10 DEF U
<1> QED
  BY <1>7, <1>8

(* The recurrence of Bins over the sorted documents. *)
Turns(share) == 1 .. Cardinality(ToSet(share))
Grows(f, docs, limit, share) ==
    /\ f[{}] = <<>>
    /\ \A s \in SUBSET Turns(share) : s # {} =>
           /\ f[s] = Place(docs, limit, f[s \ {Max(s)}], ByLength(docs, share)[Max(s)])
           /\ f[s] \in Seq(SUBSET ToSet(ByLength(docs, share))) \ {<<>>}

LEMMA BinsSteps ==
    ASSUME NEW docs, NEW share, IsFiniteSet(ToSet(share)), NEW limit
    PROVE  /\ IsFiniteSet(Turns(share)) /\ \A s \in SUBSET Turns(share) : s # {} => Max(s) \in s
           /\ \E f : Bins(docs, share, limit) = f[Turns(share)] /\ Grows(f, docs, limit, share)
<1> DEFINE q == ByLength(docs, share)
           D == Turns(share)
           I == ToSet(q)
           A == Seq(SUBSET I)
           pick == [s \in SUBSET D |-> Max(s)]
           step == [p \in D \X A |-> Place(docs, limit, p[2], q[p[1]])]
           Steps(g) == g = [s \in SUBSET DOMAIN q |->
                               IF s = {} THEN <<>>
                               ELSE Place(docs, limit, g[s \ {Max(s)}], q[Max(s)])]
           f == CHOOSE g : Steps(g)
<1>1. D = DOMAIN q /\ D = 1 .. Cardinality(ToSet(share)) /\ Cardinality(ToSet(share)) \in Nat
  BY FS_CardinalityType DEF ByLength, Turns
<1>2. IsFiniteSet(D) /\ D \in SUBSET Nat
  <2> HIDE DEF D
  <2>1. IsFiniteSet(D)
    BY <1>1, FS_Interval
  <2> QED
    BY <1>1, <2>1
<1>3. \A s \in SUBSET D : s # {} => Max(s) \in s
  <2> SUFFICES ASSUME NEW s \in SUBSET D, s # {} PROVE Max(s) \in s
    OBVIOUS
  <2>1. IsFiniteSet(s) /\ s \in SUBSET Nat
    BY <1>2, FS_Subset
  <2> QED
    BY <2>1, GreatestNat
<1>4. \A x \in D, a \in A : Place(docs, limit, a, q[x]) \in A \ {<<>>}
  <2> SUFFICES ASSUME NEW x \in D, NEW a \in A PROVE Place(docs, limit, a, q[x]) \in A \ {<<>>}
    OBVIOUS
  <2>1. q[x] \in I
    BY <1>1 DEF ToSet
  <2> HIDE DEF I
  <2> QED
    BY <2>1, PlaceSome
<1>5. Bins(docs, share, limit) = f[D]
  <2>1. Bins(docs, share, limit) = f[DOMAIN q]
    BY DEF Bins, FoldLeft, MapThenFoldSet
  <2> HIDE DEF f, q, D
  <2> QED
    BY <1>1, <2>1
<1>0. <<>> \in A
  OBVIOUS
<1> HIDE DEF q, D, I, A
<1>6. \A s \in SUBSET D : s # {} => pick[s] \in s
  BY <1>3
<1>7. \E g : Steps(g)
  <2>2. \A x \in D, a \in A : step[<<x, a>>] \in A
    BY <1>4
  <2> HIDE DEF pick, step
  <2>4. PICK g : Folds(g, D, pick, <<>>, step)
    BY <1>2, <1>6, FoldExists
  <2>5. \A s \in SUBSET D : g[s] = IF s = {} THEN <<>> ELSE step[<<pick[s], g[s \ {pick[s]}]>>]
    BY <2>4 DEF Folds
  <2>7. ASSUME NEW s \in SUBSET D, s # {} /\ g[s \ {pick[s]}] \in A PROVE g[s] \in A
    <3>1. pick[s] \in D
      BY <1>6, <2>7
    <3> QED
      BY <2>2, <2>5, <2>7, <3>1
  <2>8. g[{}] \in A
    BY <1>0, <2>5
  <2>9. \A s \in SUBSET D : g[s] \in A
    BY <1>2, <1>6, <2>7, <2>8, SubsetInduction
  <2>10. \A s \in SUBSET D : s # {} =>
           step[<<pick[s], g[s \ {pick[s]}]>>] = Place(docs, limit, g[s \ {Max(s)}], q[Max(s)])
    <3> SUFFICES ASSUME NEW s \in SUBSET D, s # {}
                 PROVE  step[<<pick[s], g[s \ {pick[s]}]>>]
                          = Place(docs, limit, g[s \ {Max(s)}], q[Max(s)])
      OBVIOUS
    <3>1. pick[s] = Max(s) /\ Max(s) \in D /\ g[s \ {Max(s)}] \in A
      BY <1>3, <2>9 DEF pick
    <3> QED
      BY <3>1 DEF step
  <2>11. D = DOMAIN q
    BY <1>1
  <2>12. Steps(g)
    BY <2>4, <2>10, <2>11 DEF Folds
  <2> QED
    BY <2>12
<1>8. Steps(f)
  BY <1>7
<1>9. \A s \in SUBSET D : f[s] = IF s = {} THEN <<>>
                                   ELSE Place(docs, limit, f[s \ {Max(s)}], q[Max(s)])
  BY <1>1, <1>8
<1> HIDE DEF f
<1>10. \A s \in SUBSET D : s # {} /\ f[s \ {pick[s]}] \in A => f[s] \in A \ {<<>>}
  <2> SUFFICES ASSUME NEW s \in SUBSET D, s # {}, f[s \ {pick[s]}] \in A PROVE f[s] \in A \ {<<>>}
    OBVIOUS
  <2>1. pick[s] = Max(s) /\ Max(s) \in D
    BY <1>3
  <2> QED
    BY <1>4, <1>9, <2>1
<1>11. f[{}] \in A /\ f[{}] = <<>>
  BY <1>0, <1>9
<1>12. \A s \in SUBSET D : f[s] \in A
  BY <1>2, <1>6, <1>10, <1>11, SubsetInduction
<1>13. \A s \in SUBSET D : s # {} => /\ f[s] = Place(docs, limit, f[s \ {Max(s)}], q[Max(s)])
                                     /\ f[s] \in A \ {<<>>}
  BY <1>9, <1>10, <1>12
<1>14. /\ IsFiniteSet(D) /\ (\A s \in SUBSET D : s # {} => Max(s) \in s)
       /\ Bins(docs, share, limit) = f[D]
       /\ f[{}] = <<>>
  BY <1>2, <1>3, <1>5, <1>11
<1> HIDE DEF pick
<1>15. Grows(f, docs, limit, share)
  BY <1>13, <1>14 DEF Grows, A, I, D, q
<1> QED
  BY <1>14, <1>15 DEF D

LEMMA BinsSome1 ==
    ASSUME NEW docs, NEW share, IsFiniteSet(ToSet(share)), ToSet(share) # {}, NEW limit
    PROVE  Bins(docs, share, limit) \in Seq(SUBSET ToSet(ByLength(docs, share))) \ {<<>>}
<1>1. Turns(share) # {} /\ Turns(share) \in SUBSET Turns(share)
  <2>1. Cardinality(ToSet(share)) \in Nat \ {0}
    BY FS_CardinalityType, FS_EmptySet
  <2>2. 1 \in Turns(share)
    BY <2>1 DEF Turns
  <2> QED
    BY <2>2
<1>2. PICK f : Bins(docs, share, limit) = f[Turns(share)] /\ Grows(f, docs, limit, share)
  BY BinsSteps
<1> QED
  BY <1>1, <1>2 DEF Grows

(* First fit packs the share. *)
LEMMA BinsFill ==
    ASSUME NEW docs, NEW share, IsFiniteSet(ToSet(share)), ToSet(share) \in SUBSET Nat,
           \A i \in ToSet(share) : Len(docs[i].ids) \in Nat, NEW limit \in Nat
    PROVE  Filled(docs, limit, Bins(docs, share, limit), ToSet(share))
<1> DEFINE S == ToSet(share)
           D == Turns(share)
           q == ByLength(docs, share)
           Of(s) == {q[n] : n \in s}
<1>1. /\ q \in [D -> S]
      /\ \A m, n \in D : q[m] = q[n] => m = n
      /\ \A x \in S : \E n \in D : q[n] = x
  BY ByLengthSorted DEF Turns
<1>2. IsFiniteSet(D) /\ \A s \in SUBSET D : s # {} => Max(s) \in s
  BY BinsSteps
<1>0. PICK f : Bins(docs, share, limit) = f[D] /\ Grows(f, docs, limit, share)
  BY BinsSteps
<1>3. /\ f[{}] = <<>>
      /\ \A s \in SUBSET D : s # {} => f[s] = Place(docs, limit, f[s \ {Max(s)}], q[Max(s)])
  BY <1>0 DEF Grows
<1>4. \A x \in S : Len(docs[x].ids) \in Nat
  OBVIOUS
<1>5. IsFiniteSet(S)
  OBVIOUS
<1> HIDE DEF S, D, q
<1> DEFINE T == {s \in SUBSET D : Filled(docs, limit, f[s], Of(s))}
           pick == [s \in SUBSET D |-> Max(s)]
<1>6. {} \in T
  <2>1. f[{}] = <<>> /\ Of({}) = {}
    BY <1>3
  <2>2. <<>> \in Seq(SUBSET {}) /\ DOMAIN <<>> = {}
    OBVIOUS
  <2>3. Filled(docs, limit, <<>>, {})
    BY <2>2 DEF Filled
  <2> QED
    BY <2>1, <2>3
<1>7. ASSUME NEW s \in SUBSET D, s # {}, s \ {Max(s)} \in T PROVE s \in T
  <2> DEFINE m == Max(s)
  <2>1. m \in s /\ f[s] = Place(docs, limit, f[s \ {m}], q[m])
    BY <1>2, <1>3, <1>7
  <2>2. Filled(docs, limit, f[s \ {m}], Of(s \ {m}))
    BY <1>7
  <2> HIDE DEF m
  <2>3. q[m] \notin Of(s \ {m}) /\ Of(s) = Of(s \ {m}) \cup {q[m]} /\ Of(s) \in SUBSET S
    BY <1>1, <2>1
  <2> HIDE DEF Of
  <2>4. IsFiniteSet(Of(s \ {m}))
    <3>1. Of(s \ {m}) \in SUBSET S
      BY <2>3
    <3> QED
      BY <1>5, <3>1, FS_Subset
  <2>5. \A j \in Of(s \ {m}) \cup {q[m]} : Len(docs[j].ids) \in Nat
    BY <1>4, <2>3
  <2>6. Filled(docs, limit, Place(docs, limit, f[s \ {m}], q[m]), Of(s \ {m}) \cup {q[m]})
    BY <2>2, <2>3, <2>4, <2>5, PlaceFills
  <2> QED
    BY <2>1, <2>3, <2>6
<1>8. D \in T
  <2>1. \A s \in SUBSET D : s # {} => pick[s] \in s /\ pick[s] = Max(s)
    BY <1>2
  <2>2. \A s \in SUBSET D : s # {} /\ s \ {pick[s]} \in T => s \in T
    BY <1>7, <2>1
  <2> HIDE DEF T, pick
  <2>3. \A s \in SUBSET D : s \in T
    BY <1>2, <1>6, <2>1, <2>2, SubsetsByPicking
  <2> QED
    BY <2>3
<1>9. Of(D) = S
  BY <1>1
<1>10. Filled(docs, limit, f[D], Of(D))
  BY <1>8
<1> HIDE DEF Of
<1> QED
  BY <1>0, <1>9, <1>10 DEF S

-----------------------------------------------------------------------------
(* Documents one after the other.  What a definition by steps over 1 .. N comes to: there is
   such a function, and the chosen one is. *)
Joining(g, seqs, n) == g = [i \in 1 .. n |-> IF i = 1 THEN seqs[i] ELSE g[i - 1] \o seqs[i]]
Joined(seqs, n) == CHOOSE g : Joining(g, seqs, n)

LEMMA JoiningOnce ==
    ASSUME NEW seqs, NEW N \in Nat \ {0}
    PROVE  /\ Joined(seqs, N)[1] = seqs[1]
           /\ \A i \in 1 .. N - 1 : Joined(seqs, N)[i + 1] = Joined(seqs, N)[i] \o seqs[i + 1]
<1> DEFINE Some(n) == \E g : Joining(g, seqs, n)
           ns == {n \in Nat : Some(n)}
<1>1. 0 \in ns
  <2> DEFINE g == [i \in 1 .. 0 |-> IF i = 1 THEN seqs[i] ELSE seqs[i]]
  <2>1. g = [i \in 1 .. 0 |-> IF i = 1 THEN seqs[i] ELSE g[i - 1] \o seqs[i]]
    OBVIOUS
  <2>2. Joining(g, seqs, 0)
    BY <2>1 DEF Joining
  <2> QED
    BY <2>2
<1>2. ASSUME NEW n \in ns PROVE n + 1 \in ns
  <2>0. n \in Nat /\ Some(n)
    OBVIOUS
  <2>1. PICK g : Joining(g, seqs, n)
    BY <2>0
  <2>2. \A i \in 1 .. n : g[i] = IF i = 1 THEN seqs[i] ELSE g[i - 1] \o seqs[i]
    BY <2>1 DEF Joining
  <2> DEFINE F(i) == IF i = 1 THEN seqs[i] ELSE g[i - 1] \o seqs[i]
             h == [i \in 1 .. n + 1 |-> F(i)]
  <2>3. \A i \in 1 .. n : g[i] = F(i)
    BY <2>2
  <2>4. \A i \in 1 .. n + 1 : F(i) = IF i = 1 THEN seqs[i] ELSE g[i - 1] \o seqs[i]
    OBVIOUS
  <2> HIDE DEF F
  <2>5. \A i \in 1 .. n + 1 : i # 1 => i - 1 \in 1 .. n /\ i - 1 \in 1 .. n + 1
    BY <2>0
  <2>6. \A i \in 1 .. n + 1 : h[i] = F(i)
    OBVIOUS
  <2>7. \A i \in 1 .. n : h[i] = g[i]
    BY <2>0, <2>3, <2>6
  <2>8. \A i \in 1 .. n + 1 : F(i) = IF i = 1 THEN seqs[i] ELSE h[i - 1] \o seqs[i]
    BY <2>4, <2>5, <2>7
  <2>9. h = [i \in 1 .. n + 1 |-> IF i = 1 THEN seqs[i] ELSE h[i - 1] \o seqs[i]]
    <3> DEFINE G(i) == IF i = 1 THEN seqs[i] ELSE h[i - 1] \o seqs[i]
    <3>1. \A i \in 1 .. n + 1 : F(i) = G(i)
      BY <2>8
    <3>2. [i \in 1 .. n + 1 |-> F(i)] = [i \in 1 .. n + 1 |-> G(i)]
      <4> HIDE DEF G
      <4> QED
        BY <3>1
    <3> QED
      BY <3>2
  <2>10. Joining(h, seqs, n + 1)
    BY <2>9 DEF Joining
  <2>11. Some(n + 1)
    BY <2>10
  <2> HIDE DEF Some
  <2> QED
    BY <2>0, <2>11
<1>3. Some(N)
  <2> HIDE DEF Some
  <2>1. ns = Nat
    <3> HIDE DEF ns
    <3>1. ns \in SUBSET Nat
      BY DEF ns
    <3> QED
      BY <1>1, <1>2, <3>1, AllNaturals
  <2> QED
    BY <2>1
<1> DEFINE f == Joined(seqs, N)
<1>4. Joining(f, seqs, N)
  BY <1>3, Zenon DEF Joined
<1>5. \A i \in 1 .. N : f[i] = IF i = 1 THEN seqs[i] ELSE f[i - 1] \o seqs[i]
  <2> HIDE DEF f
  <2> QED
    BY <1>4 DEF Joining
<1> HIDE DEF f
<1>6. 1 \in 1 .. N /\ \A i \in 1 .. N - 1 : i + 1 \in 1 .. N /\ i + 1 # 1 /\ (i + 1) - 1 = i
  OBVIOUS
<1>7. f[1] = seqs[1] /\ \A i \in 1 .. N - 1 : f[i + 1] = f[i] \o seqs[i + 1]
  BY <1>5, <1>6
<1> QED
  BY <1>7 DEF f

(* By steps up to N. *)
LEMMA UpTo ==
    ASSUME NEW N \in Nat \ {0}, NEW S, 1 \in S, \A i \in 1 .. N - 1 : i \in S => i + 1 \in S
    PROVE  \A i \in 1 .. N : i \in S
<1> DEFINE ns == {i \in Nat : i \in 1 .. N => i \in S}
<1>1. 0 \in ns
  OBVIOUS
<1>2. ASSUME NEW i \in ns PROVE i + 1 \in ns
  <2>1. CASE i = 0
    BY <2>1
  <2>2. CASE i # 0
    BY <2>2
  <2> QED
    BY <2>1, <2>2
<1>3. ns = Nat
  <2> HIDE DEF ns
  <2>1. ns \in SUBSET Nat
    BY DEF ns
  <2> QED
    BY <1>1, <1>2, <2>1, AllNaturals
<1> QED
  BY <1>3

(* A sum over 1 .. N grows by the next term. *)
LEMMA SumUpTo ==
    ASSUME NEW N \in Nat \ {0}, NEW len \in [1 .. N -> Nat]
    PROVE  /\ Sum(len, 1 .. 1) = len[1]
           /\ \A i \in 1 .. N - 1 : Sum(len, 1 .. i + 1) = Sum(len, 1 .. i) + len[i + 1]
<1> DEFINE D == 1 .. N
<1>1. IsFiniteSet(D) /\ \A x \in D : len[x] \in Int
  BY FS_Interval
<1>2. 1 .. 1 = {} \cup {1} /\ 1 \in D \ {} /\ {} \in SUBSET D
  OBVIOUS
<1>3. ASSUME NEW i \in 1 .. N - 1
      PROVE  1 .. i + 1 = (1 .. i) \cup {i + 1} /\ i + 1 \in D \ (1 .. i) /\ 1 .. i \in SUBSET D
  OBVIOUS
<1> HIDE DEF D
<1>4. /\ \A S \in SUBSET D : \A x \in D \ S : Sum(len, S \cup {x}) = Sum(len, S) + len[x]
      /\ Sum(len, {}) = 0
  BY <1>1, SumAdds
<1>5. Sum(len, 1 .. 1) = len[1]
  <2>1. Sum(len, {} \cup {1}) = 0 + len[1] /\ len[1] \in Int
    BY <1>1, <1>2, <1>4
  <2> QED
    BY <1>2, <2>1
<1>6. ASSUME NEW i \in 1 .. N - 1 PROVE Sum(len, 1 .. i + 1) = Sum(len, 1 .. i) + len[i + 1]
  <2> DEFINE A == 1 .. i
             B == 1 .. i + 1
  <2>1. B = A \cup {i + 1} /\ i + 1 \in D \ A /\ A \in SUBSET D
    BY <1>3
  <2> HIDE DEF A, B
  <2>2. Sum(len, A \cup {i + 1}) = Sum(len, A) + len[i + 1]
    BY <1>4, <2>1
  <2> QED
    BY <2>1, <2>2 DEF A, B
<1> QED
  BY <1>5, <1>6

(* Where each part begins and ends: L gives the ends. *)
LEMMA Ends ==
    ASSUME NEW N \in Nat \ {0}, NEW len \in [1 .. N -> Nat], NEW L, L[1] = len[1],
           \A i \in 1 .. N - 1 : L[i + 1] = L[i] + len[i + 1]
    PROVE  /\ \A n \in 1 .. N : L[n] \in Nat /\ len[n] <= L[n] /\ L[n] = Sum(len, 1 .. n)
           /\ \A m, n \in 1 .. N : m < n => L[m] <= L[n] - len[n]
           /\ \A k \in 1 .. L[N] : \E n \in 1 .. N : k > L[n] - len[n] /\ k <= L[n]
<1>1. 1 \in 1 .. N /\ \A i \in 1 .. N - 1 : i \in 1 .. N /\ i + 1 \in 1 .. N
  OBVIOUS
<1>2. /\ Sum(len, 1 .. 1) = len[1]
      /\ \A i \in 1 .. N - 1 : Sum(len, 1 .. i + 1) = Sum(len, 1 .. i) + len[i + 1]
  BY SumUpTo
<1> DEFINE S1 == {n \in 1 .. N : L[n] \in Nat /\ len[n] <= L[n] /\ L[n] = Sum(len, 1 .. n)}
<1>3. \A n \in 1 .. N : n \in S1
  <2>1. 1 \in S1
    BY <1>1, <1>2
  <2>2. ASSUME NEW i \in 1 .. N - 1, i \in S1 PROVE i + 1 \in S1
    <3>1. L[i] \in Nat /\ L[i] = Sum(len, 1 .. i) /\ i + 1 \in 1 .. N
      BY <1>1, <2>2
    <3>2. L[i + 1] = L[i] + len[i + 1] /\ len[i + 1] \in Nat /\ L[i + 1] = Sum(len, 1 .. i + 1)
      BY <1>2, <3>1
    <3> QED
      BY <3>1, <3>2
  <2> HIDE DEF S1
  <2> QED
    BY <2>1, <2>2, UpTo
<1>4. \A n \in 1 .. N : L[n] \in Nat /\ len[n] <= L[n] /\ L[n] = Sum(len, 1 .. n)
  BY <1>3
<1> HIDE DEF S1
<1> DEFINE S2 == {n \in 1 .. N : \A m \in 1 .. n : m # n => L[m] <= L[n] - len[n]}
<1>5. \A n \in 1 .. N : n \in S2
  <2>1. 1 \in S2
    BY <1>1
  <2>2. ASSUME NEW i \in 1 .. N - 1, i \in S2 PROVE i + 1 \in S2
    <3>1. i + 1 \in 1 .. N /\ i \in 1 .. N /\ L[i + 1] = L[i] + len[i + 1]
          /\ len[i + 1] \in Nat /\ L[i] \in Nat /\ len[i] \in Nat
      BY <1>1, <1>4
    <3>2. L[i + 1] - len[i + 1] = L[i]
      BY <3>1
    <3>3. ASSUME NEW m \in 1 .. i + 1, m # i + 1 PROVE L[m] <= L[i]
      <4>1. CASE m = i
        BY <3>1, <4>1
      <4>2. CASE m # i
        <5>1. m \in 1 .. i /\ m \in 1 .. N
          BY <3>3
        <5>2. L[m] <= L[i] - len[i] /\ L[m] \in Nat
          BY <1>4, <2>2, <4>2, <5>1
        <5> QED
          BY <3>1, <5>2
      <4> QED
        BY <4>1, <4>2
    <3> QED
      BY <3>1, <3>2, <3>3
  <2> HIDE DEF S2
  <2> QED
    BY <2>1, <2>2, UpTo
<1>6. \A m, n \in 1 .. N : m < n => L[m] <= L[n] - len[n]
  <2> SUFFICES ASSUME NEW m \in 1 .. N, NEW n \in 1 .. N, m < n PROVE L[m] <= L[n] - len[n]
    OBVIOUS
  <2>1. m \in 1 .. n /\ m # n
    OBVIOUS
  <2> QED
    BY <1>5, <2>1
<1> HIDE DEF S2
<1> DEFINE S3 == {i \in 1 .. N : \A k \in 1 .. L[i] : \E n \in 1 .. N : k > L[n] - len[n] /\ k <= L[n]}
<1>7. \A i \in 1 .. N : i \in S3
  <2>1. 1 \in S3
    <3>1. L[1] - len[1] = 0 /\ L[1] \in Nat
      BY <1>1, <1>4
    <3> QED
      BY <1>1, <3>1
  <2>2. ASSUME NEW i \in 1 .. N - 1, i \in S3 PROVE i + 1 \in S3
    <3>1. i + 1 \in 1 .. N /\ i \in 1 .. N /\ L[i + 1] = L[i] + len[i + 1]
          /\ len[i + 1] \in Nat /\ L[i] \in Nat
      BY <1>1, <1>4
    <3>2. L[i + 1] - len[i + 1] = L[i] /\ L[i + 1] \in Nat
      BY <3>1
    <3>3. ASSUME NEW k \in 1 .. L[i + 1] PROVE \E n \in 1 .. N : k > L[n] - len[n] /\ k <= L[n]
      <4>1. CASE k \in 1 .. L[i]
        BY <2>2, <4>1
      <4>2. CASE k \notin 1 .. L[i]
        <5>1. k > L[i] /\ k <= L[i + 1]
          BY <3>1, <3>2, <4>2
        <5> QED
          BY <3>1, <3>2, <5>1
      <4> QED
        BY <4>1, <4>2
    <3> QED
      BY <3>1, <3>3
  <2> HIDE DEF S3
  <2> QED
    BY <2>1, <2>2, UpTo
<1>8. N \in 1 .. N
  OBVIOUS
<1> QED
  BY <1>4, <1>6, <1>7, <1>8

LEMMA TwoParts ==
    ASSUME NEW X, NEW a \in Seq(X), NEW c \in Seq(X), NEW b, b = a \o c
    PROVE  /\ b \in Seq(X) /\ Len(b) = Len(a) + Len(c)
           /\ \A k \in 1 .. Len(a) : b[k] = a[k]
           /\ \A t \in 1 .. Len(c) : b[Len(a) + t] = c[t]
OBVIOUS

(* Each entry of each sequence has a place of its own in the whole, and there is nothing
   else in it. *)
Strung(F, seqs, start) ==
    /\ \A n \in DOMAIN seqs : \A t \in 1 .. Len(seqs[n]) :
           start[n] + t \in 1 .. Len(F) /\ F[start[n] + t] = seqs[n][t]
    /\ \A m, n \in DOMAIN seqs : \A t \in 1 .. Len(seqs[m]), u \in 1 .. Len(seqs[n]) :
           start[m] + t = start[n] + u => m = n /\ t = u
    /\ \A k \in 1 .. Len(F) : \E n \in DOMAIN seqs : \E t \in 1 .. Len(seqs[n]) : k = start[n] + t

LEMMA Flattened ==
    ASSUME NEW X, NEW seqs \in Seq(Seq(X)), seqs # <<>>
    PROVE  /\ FlattenSeq(seqs) \in Seq(X)
           /\ \E start : Strung(FlattenSeq(seqs), seqs, start)
           /\ Len(FlattenSeq(seqs)) = Sum([n \in DOMAIN seqs |-> Len(seqs[n])], DOMAIN seqs)
<1> DEFINE N == Len(seqs)
           f == Joined(seqs, N)
           len == [n \in 1 .. N |-> Len(seqs[n])]
           L == [n \in 1 .. N |-> Len(f[n])]
<1>1. N \in Nat \ {0} /\ DOMAIN seqs = 1 .. N /\ \A n \in 1 .. N : seqs[n] \in Seq(X)
  OBVIOUS
<1>2. FlattenSeq(seqs) = f[N]
  BY <1>1 DEF FlattenSeq, Joined, Joining
<1> HIDE DEF N
<1>3. f[1] = seqs[1] /\ \A i \in 1 .. N - 1 : f[i + 1] = f[i] \o seqs[i + 1]
  BY <1>1, JoiningOnce
<1> HIDE DEF f
<1>4. 1 \in 1 .. N /\ N \in 1 .. N /\ \A i \in 1 .. N - 1 : i \in 1 .. N /\ i + 1 \in 1 .. N
  BY <1>1
<1>5. \A n \in 1 .. N : len[n] \in Nat /\ len[n] = Len(seqs[n])
  BY <1>1
<1>6. \A n \in 1 .. N : L[n] = Len(f[n])
  OBVIOUS
<1>7. len \in [1 .. N -> Nat] /\ len = [n \in DOMAIN seqs |-> Len(seqs[n])]
  BY <1>1
<1> HIDE DEF len, L
<1>8. ASSUME NEW i \in 1 .. N - 1, f[i] \in Seq(X)
      PROVE  /\ f[i + 1] \in Seq(X) /\ Len(f[i + 1]) = Len(f[i]) + Len(seqs[i + 1])
             /\ \A k \in 1 .. Len(f[i]) : f[i + 1][k] = f[i][k]
             /\ \A t \in 1 .. Len(seqs[i + 1]) : f[i + 1][Len(f[i]) + t] = seqs[i + 1][t]
  <2> DEFINE c == seqs[i + 1]
             a == f[i]
             b == f[i + 1]
  <2>1. a \in Seq(X) /\ c \in Seq(X) /\ b = a \o c
    BY <1>1, <1>3, <1>4, <1>8
  <2> HIDE DEF a, b, c
  <2>2. /\ b \in Seq(X) /\ Len(b) = Len(a) + Len(c)
        /\ \A k \in 1 .. Len(a) : b[k] = a[k]
        /\ \A t \in 1 .. Len(c) : b[Len(a) + t] = c[t]
    BY <2>1, TwoParts
  <2> QED
    BY <2>2 DEF a, b, c
<1> DEFINE S1 == {n \in 1 .. N : f[n] \in Seq(X)}
<1>9. \A n \in 1 .. N : n \in S1
  <2>1. 1 \in S1
    <3>1. f[1] \in Seq(X)
      <4>1. seqs[1] \in Seq(X)
        BY <1>1, <1>4
      <4> QED
        BY <1>3, <4>1
    <3> QED
      BY <1>4, <3>1
  <2>2. \A i \in 1 .. N - 1 : i \in S1 => i + 1 \in S1
    BY <1>4, <1>8
  <2> HIDE DEF S1
  <2> QED
    BY <1>1, <2>1, <2>2, UpTo
<1>10. \A n \in 1 .. N : f[n] \in Seq(X)
  BY <1>9
<1> HIDE DEF S1
<1>11. L[1] = len[1] /\ \A i \in 1 .. N - 1 : L[i + 1] = L[i] + len[i + 1]
  <2>1. L[1] = len[1]
    BY <1>3, <1>4, <1>5, <1>6
  <2>2. ASSUME NEW i \in 1 .. N - 1 PROVE L[i + 1] = L[i] + len[i + 1]
    <3>1. i \in 1 .. N /\ i + 1 \in 1 .. N /\ f[i] \in Seq(X)
      BY <1>4, <1>10
    <3>2. Len(f[i + 1]) = Len(f[i]) + Len(seqs[i + 1])
      BY <1>8, <3>1
    <3> QED
      BY <1>5, <1>6, <3>1, <3>2
  <2> QED
    BY <2>1, <2>2
<1>12. /\ \A n \in 1 .. N : L[n] \in Nat /\ len[n] <= L[n] /\ L[n] = Sum(len, 1 .. n)
       /\ \A m, n \in 1 .. N : m < n => L[m] <= L[n] - len[n]
       /\ \A k \in 1 .. L[N] : \E n \in 1 .. N : k > L[n] - len[n] /\ k <= L[n]
  BY <1>1, <1>7, <1>11, Ends
<1>13. \A n \in 1 .. N : \A t \in 1 .. len[n] : f[n][(L[n] - len[n]) + t] = seqs[n][t]
  <2> SUFFICES ASSUME NEW n \in 1 .. N, NEW t \in 1 .. len[n] PROVE f[n][(L[n] - len[n]) + t] = seqs[n][t]
    OBVIOUS
  <2>1. CASE n = 1
    <3>1. (L[1] - len[1]) + t = t
      BY <1>4, <1>5, <1>11
    <3> QED
      BY <1>3, <2>1, <3>1
  <2>2. CASE n # 1
    <3> DEFINE i == n - 1
    <3>1. i \in 1 .. N - 1 /\ n = i + 1
      BY <1>1, <2>2
    <3> HIDE DEF i
    <3>2. L[n] = L[i] + len[n] /\ i \in 1 .. N
      BY <1>4, <1>11, <3>1
    <3>3. f[i] \in Seq(X) /\ Len(f[i]) = L[i] /\ Len(seqs[n]) = len[n]
          /\ L[i] \in Nat /\ len[n] \in Nat
      BY <1>5, <1>6, <1>10, <1>12, <3>2
    <3>4. (L[n] - len[n]) + t = L[i] + t
      BY <3>2, <3>3
    <3>5. \A u \in 1 .. Len(seqs[n]) : f[n][Len(f[i]) + u] = seqs[n][u]
      BY <1>8, <3>1, <3>3
    <3>6. f[n][L[i] + t] = seqs[n][t]
      BY <3>3, <3>5
    <3> QED
      BY <3>4, <3>6
  <2> QED
    BY <2>1, <2>2
<1> DEFINE S2 == {i \in 1 .. N : \A n \in 1 .. i : L[n] <= L[i] /\ \A k \in 1 .. L[n] : f[i][k] = f[n][k]}
<1>14. \A i \in 1 .. N : i \in S2
  <2>1. 1 \in S2
    <3>1. \A n \in 1 .. 1 : n = 1
      OBVIOUS
    <3>2. L[1] <= L[1]
      BY <1>4, <1>12
    <3> QED
      BY <1>4, <3>1, <3>2
  <2>2. ASSUME NEW i \in 1 .. N - 1, i \in S2 PROVE i + 1 \in S2
    <3> DEFINE j == i + 1
    <3>0. /\ j \in 1 .. N /\ i \in 1 .. N /\ L[j] = L[i] + len[j] /\ i \in Nat
          /\ \A n \in 1 .. j : n \in 1 .. N /\ (n = j \/ n \in 1 .. i)
      BY <1>1, <1>4, <1>11
    <3>1. \A k \in 1 .. Len(f[i]) : f[j][k] = f[i][k]
      BY <1>8, <1>10, <3>0
    <3>9. j \in S2 => i + 1 \in S2
      OBVIOUS
    <3> HIDE DEF j
    <3>2. L[i] \in Nat /\ len[j] \in Nat /\ L[j] \in Nat /\ Len(f[i]) = L[i]
      BY <1>5, <1>6, <1>12, <3>0
    <3>3. \A k \in 1 .. L[i] : f[j][k] = f[i][k]
      BY <3>1, <3>2
    <3>4. L[i] <= L[j]
      BY <3>0, <3>2
    <3>5. ASSUME NEW n \in 1 .. j
          PROVE  L[n] <= L[j] /\ \A k \in 1 .. L[n] : f[j][k] = f[n][k]
      <4>1. CASE n = j
        BY <3>2, <4>1
      <4>2. CASE n # j
        <5>1. n \in 1 .. i /\ n \in 1 .. N
          BY <3>0, <4>2
        <5>2. L[n] <= L[i] /\ (\A k \in 1 .. L[n] : f[i][k] = f[n][k]) /\ L[n] \in Nat
          BY <1>12, <2>2, <5>1
        <5>3. \A k \in 1 .. L[n] : k \in 1 .. L[i]
          BY <3>2, <5>2
        <5>4. \A k \in 1 .. L[n] : f[j][k] = f[n][k]
          BY <3>3, <5>2, <5>3
        <5>5. L[n] <= L[j]
          BY <3>2, <3>4, <5>2
        <5> QED
          BY <5>4, <5>5
      <4> QED
        BY <4>1, <4>2
    <3> QED
      BY <3>0, <3>5, <3>9
  <2> HIDE DEF S2
  <2> QED
    BY <1>1, <2>1, <2>2, UpTo
<1>15. ASSUME NEW n \in 1 .. N PROVE L[n] <= L[N] /\ \A k \in 1 .. L[n] : f[N][k] = f[n][k]
  <2>1. N \in S2 /\ n \in 1 .. N
    BY <1>4, <1>14
  <2> QED
    BY <2>1
<1> HIDE DEF S2
<1> DEFINE start == [n \in 1 .. N |-> L[n] - len[n]]
           F == f[N]
<1>16. \A n \in 1 .. N : start[n] = L[n] - len[n]
  OBVIOUS
<1>17. Len(F) = L[N] /\ F \in Seq(X)
  BY <1>4, <1>6, <1>10
<1> HIDE DEF start, F
<1>18. ASSUME NEW n \in 1 .. N, NEW t \in 1 .. len[n]
       PROVE  start[n] + t \in 1 .. L[n] /\ start[n] + t \in 1 .. Len(F) /\ F[start[n] + t] = seqs[n][t]
  <2>1. L[n] \in Nat /\ len[n] \in Nat /\ len[n] <= L[n] /\ L[n] <= L[N] /\ L[N] \in Nat
    BY <1>4, <1>5, <1>12, <1>15
  <2>2. start[n] + t \in 1 .. L[n] /\ start[n] + t \in 1 .. L[N] /\ start[n] + t = (L[n] - len[n]) + t
    BY <1>16, <2>1
  <2>3. F[start[n] + t] = f[n][start[n] + t]
    BY <1>15, <2>2 DEF F
  <2> QED
    BY <1>13, <1>17, <2>2, <2>3
<1>19. ASSUME NEW m \in 1 .. N, NEW n \in 1 .. N, NEW t \in 1 .. len[m], NEW u \in 1 .. len[n],
              start[m] + t = start[n] + u
       PROVE  m = n /\ t = u
  <2>1. /\ L[m] \in Nat /\ L[n] \in Nat /\ len[m] \in Nat /\ len[n] \in Nat
        /\ start[m] = L[m] - len[m] /\ start[n] = L[n] - len[n] /\ m \in Nat /\ n \in Nat
    BY <1>1, <1>5, <1>12, <1>16
  <2>2. ~ (m < n)
    <3> SUFFICES ASSUME m < n PROVE FALSE
      OBVIOUS
    <3>1. L[m] <= L[n] - len[n]
      BY <1>12
    <3> QED
      BY <1>19, <2>1, <3>1
  <2>3. ~ (n < m)
    <3> SUFFICES ASSUME n < m PROVE FALSE
      OBVIOUS
    <3>1. L[n] <= L[m] - len[m]
      BY <1>12
    <3> QED
      BY <1>19, <2>1, <3>1
  <2>4. m = n
    BY <2>1, <2>2, <2>3
  <2> QED
    BY <1>19, <2>1, <2>4
<1>20. ASSUME NEW k \in 1 .. Len(F) PROVE \E n \in 1 .. N : \E t \in 1 .. len[n] : k = start[n] + t
  <2>1. PICK n \in 1 .. N : k > L[n] - len[n] /\ k <= L[n]
    BY <1>12, <1>17
  <2>2. L[n] \in Nat /\ len[n] \in Nat /\ start[n] = L[n] - len[n]
    BY <1>5, <1>12, <1>16
  <2>3. k - start[n] \in 1 .. len[n] /\ k = start[n] + (k - start[n])
    BY <1>17, <2>1, <2>2
  <2> QED
    BY <2>3
<1>21. Strung(F, seqs, start)
  <2>1. DOMAIN seqs = 1 .. N /\ \A n \in 1 .. N : Len(seqs[n]) = len[n]
    BY <1>1, <1>5
  <2>2. \A n \in DOMAIN seqs : \A t \in 1 .. Len(seqs[n]) :
           start[n] + t \in 1 .. Len(F) /\ F[start[n] + t] = seqs[n][t]
    BY <1>18, <2>1
  <2>3. \A m, n \in DOMAIN seqs : \A t \in 1 .. Len(seqs[m]), u \in 1 .. Len(seqs[n]) :
           start[m] + t = start[n] + u => m = n /\ t = u
    BY <1>19, <2>1, Zenon
  <2>4. \A k \in 1 .. Len(F) : \E n \in DOMAIN seqs : \E t \in 1 .. Len(seqs[n]) : k = start[n] + t
    <3> SUFFICES ASSUME NEW k \in 1 .. Len(F)
                 PROVE  \E n \in DOMAIN seqs : \E t \in 1 .. Len(seqs[n]) : k = start[n] + t
      OBVIOUS
    <3>1. PICK n \in 1 .. N : \E t \in 1 .. len[n] : k = start[n] + t
      BY <1>20
    <3>2. 1 .. Len(seqs[n]) = 1 .. len[n] /\ n \in DOMAIN seqs
      BY <2>1
    <3> QED
      BY <3>1, <3>2
  <2> QED
    BY <2>2, <2>3, <2>4 DEF Strung
<1>22. Len(F) = Sum([n \in DOMAIN seqs |-> Len(seqs[n])], DOMAIN seqs)
  BY <1>1, <1>4, <1>7, <1>12, <1>17
<1> QED
  BY <1>2, <1>17, <1>21, <1>22 DEF F

-----------------------------------------------------------------------------
(* The shapes of what is posted. *)
Shaped(t) ==
    /\ t.dim \in {1, 2} /\ t.rows \in Seq(Seq(Int))
    /\ \A n \in DOMAIN t.rows : Len(t.rows[n]) >= 1 /\ (t.dim = 1 => Len(t.rows[n]) = 1)

LEMMA VectorShaped ==
    ASSUME NEW s \in Seq(Int)
    PROVE  Shaped(Vector(s)) /\ Vector(s).dim = 1 /\ Vector(s).rows = [i \in DOMAIN s |-> <<s[i]>>]
<1> DEFINE rows == [i \in DOMAIN s |-> <<s[i]>>]
<1>1. Vector(s).dim = 1 /\ Vector(s).rows = rows
  BY DEF Vector
<1>2. Len(s) \in Nat /\ DOMAIN s = 1 .. Len(s) /\ \A i \in 1 .. Len(s) : s[i] \in Int
  OBVIOUS
<1>3. \A x \in Int : <<x>> \in Seq(Int) /\ Len(<<x>>) = 1
  OBVIOUS
<1>4. rows \in Seq(Seq(Int)) /\ DOMAIN rows = 1 .. Len(s) /\ \A i \in 1 .. Len(s) : Len(rows[i]) = 1
  BY <1>2, <1>3
<1> HIDE DEF rows
<1>5. Shaped(Vector(s))
  <2> DEFINE v == Vector(s)
  <2>1. v.dim = 1 /\ v.rows = rows
    BY <1>1
  <2>5. ASSUME NEW n \in DOMAIN rows PROVE Len(rows[n]) = 1 /\ Len(rows[n]) >= 1
    <3>1. Len(rows[n]) = 1
      BY <1>4
    <3> QED
      BY <3>1
  <2> HIDE DEF v
  <2>2. v.dim \in {1, 2}
    BY <2>1
  <2>3. \A n \in DOMAIN v.rows : Len(v.rows[n]) >= 1 /\ (v.dim = 1 => Len(v.rows[n]) = 1)
    BY <2>1, <2>5
  <2>4. v.rows \in Seq(Seq(Int))
    BY <1>4, <2>1
  <2> QED
    BY <2>2, <2>3, <2>4 DEF Shaped, v
<1> QED
  BY <1>1, <1>5 DEF rows

(* The value a vector has at an index is one of those given, the last, or zero. *)
LEMMA LastGiven ==
    ASSUME NEW hits, NEW cols \in Seq(Int), hits \subseteq DOMAIN cols, hits # {}
    PROVE  Max(hits) \in hits
<1>1. DOMAIN cols = 1 .. Len(cols) /\ Len(cols) \in Nat
  OBVIOUS
<1>2. IsFiniteSet(1 .. Len(cols))
  BY <1>1, FS_Interval
<1>3. hits \in SUBSET Nat /\ IsFiniteSet(hits)
  <2>1. hits \subseteq 1 .. Len(cols)
    BY <1>1
  <2> QED
    BY <1>2, <2>1, FS_Subset
<1> QED
  BY <1>3, GreatestNat

LEMMA EntryTyped ==
    ASSUME NEW td, Tensor(td), Len(td.cols) = Len(td.vals), NEW i
    PROVE  EntryAt(td, i) \in Int
<1> DEFINE hits == {j \in DOMAIN td.cols : td.cols[j] = i}
<1>1. td.cols \in Seq(Int) /\ td.vals \in Seq(Int)
  BY DEF Tensor
<1>2. hits \subseteq DOMAIN td.cols
  OBVIOUS
<1>3. EntryAt(td, i) = IF hits = {} THEN 0 ELSE td.vals[Max(hits)]
  BY DEF EntryAt
<1> HIDE DEF hits
<1>4. hits # {} => Max(hits) \in DOMAIN td.vals
  <2>1. DOMAIN td.cols = DOMAIN td.vals
    BY <1>1
  <2> QED
    BY <1>1, <1>2, <2>1, LastGiven
<1> QED
  BY <1>1, <1>3, <1>4

LEMMA SparseShaped ==
    ASSUME NEW td, Tensor(td), ExpandSparse(td) # Raised
    PROVE  Shaped(ExpandSparse(td))
<1>1. /\ td.shape \in Seq(Nat) /\ (Len(td.shape) = 2 => td.shape[2] # 0)
      /\ td.data \in Seq(Int) /\ td.cols \in Seq(Int) /\ td.vals \in Seq(Int) /\ td.crow \in Seq(Int)
  BY DEF Tensor
<1>2. td.shape # <<>> /\ Len(td.cols) = Len(td.vals)
  BY DEF ExpandSparse
<1>3. td.shape[1] \in Nat
  <2>1. Len(td.shape) \in Nat /\ Len(td.shape) # 0
    BY <1>1, <1>2
  <2> QED
    BY <1>1, <2>1
<1>4. CASE Len(td.shape) = 1 \/ (Len(td.shape) = 2 /\ td.crow = <<>>)
  <2> DEFINE s == [i \in 1 .. td.shape[1] |-> EntryAt(td, i - 1)]
  <2>1. ExpandSparse(td) = Vector(s)
    BY <1>2, <1>4 DEF ExpandSparse, ExpandVector
  <2>2. \A i \in 1 .. td.shape[1] : EntryAt(td, i - 1) \in Int
    BY <1>2, EntryTyped
  <2>3. s \in Seq(Int)
    BY <1>3, <2>2
  <2> HIDE DEF s
  <2> QED
    BY <2>1, <2>3, VectorShaped
<1>5. CASE ~ (Len(td.shape) = 1 \/ (Len(td.shape) = 2 /\ td.crow = <<>>))
  <2>1. /\ Len(td.shape) = 2 /\ RowsInRange(td)
        /\ ExpandSparse(td) = Matrix([i \in 1 .. td.shape[1] |-> ExpandRow(td, i)])
    BY <1>2, <1>5 DEF ExpandSparse
  <2>2. td.shape[2] \in Nat \ {0}
    BY <1>1, <2>1
  <2>3. ASSUME NEW i \in 1 .. td.shape[1]
        PROVE  ExpandRow(td, i) \in Seq(Int) /\ Len(ExpandRow(td, i)) = td.shape[2]
    <3> DEFINE hits(c) == {k \in td.crow[i] + 1 .. td.crow[i + 1] : td.cols[k] % td.shape[2] = c - 1}
    <3>1. ExpandRow(td, i) = [c \in 1 .. td.shape[2] |-> IF hits(c) = {} THEN 0 ELSE td.vals[Max(hits(c))]]
      BY DEF ExpandRow
    <3>2. \A c : hits(c) \subseteq DOMAIN td.cols
      BY <2>1 DEF RowsInRange
    <3> HIDE DEF hits
    <3>3. ASSUME NEW c PROVE (IF hits(c) = {} THEN 0 ELSE td.vals[Max(hits(c))]) \in Int
      <4>1. hits(c) # {} => Max(hits(c)) \in DOMAIN td.vals
        <5>1. DOMAIN td.cols = DOMAIN td.vals
          BY <1>1, <1>2
        <5> QED
          BY <1>1, <3>2, <5>1, LastGiven
      <4> QED
        BY <1>1, <4>1
    <3> QED
      BY <2>2, <3>1, <3>3
  <2> DEFINE rows == [i \in 1 .. td.shape[1] |-> ExpandRow(td, i)]
  <2>4. rows \in Seq(Seq(Int)) /\ DOMAIN rows = 1 .. td.shape[1]
        /\ \A i \in 1 .. td.shape[1] : Len(rows[i]) = td.shape[2]
    <3> DEFINE part(i) == ExpandRow(td, i)
    <3>1. rows = [i \in 1 .. td.shape[1] |-> part(i)]
          /\ \A i \in 1 .. td.shape[1] : part(i) \in Seq(Int) /\ Len(part(i)) = td.shape[2]
      BY <2>3
    <3> HIDE DEF part
    <3>2. td.shape[1] \in Nat
      BY <1>3
    <3>3. rows \in Seq(Seq(Int))
      BY <3>1, <3>2
    <3>4. DOMAIN rows = 1 .. td.shape[1]
      OBVIOUS
    <3>5. \A i \in 1 .. td.shape[1] : Len(rows[i]) = td.shape[2]
      <4> HIDE DEF rows
      <4>1. \A i \in 1 .. td.shape[1] : rows[i] = part(i)
        BY <3>1
      <4> QED
        BY <3>1, <4>1
    <3> QED
      BY <3>3, <3>4, <3>5
  <2>5. Matrix(rows).dim = 2 /\ Matrix(rows).rows = rows
    BY DEF Matrix
  <2> HIDE DEF rows
  <2>6. Shaped(Matrix(rows))
    BY <2>2, <2>4, <2>5 DEF Shaped
  <2> QED
    BY <2>1, <2>6 DEF rows
<1> QED
  BY <1>4, <1>5

(* The rows of a dense tensor. *)
LEMMA MinOfTwo ==
    ASSUME NEW a \in Int, NEW b \in Int
    PROVE  Min({a, b}) \in {a, b} /\ Min({a, b}) <= a /\ Min({a, b}) <= b
<1>1. \E x \in {a, b} : \A y \in {a, b} : x =< y
  <2>1. a =< b \/ b =< a
    OBVIOUS
  <2> QED
    BY <2>1
<1>2. Min({a, b}) \in {a, b} /\ \A y \in {a, b} : Min({a, b}) =< y
  BY <1>1, Zenon DEF Min
<1> QED
  BY <1>2

LEMMA ChunksRows ==
    ASSUME NEW s \in Seq(Int), NEW k \in Nat \ {0}
    PROVE  Chunks(s, k) \in Seq(Seq(Int)) /\ \A n \in DOMAIN Chunks(s, k) : Len(Chunks(s, k)[n]) >= 1
<1> DEFINE l == Len(s)
           m == (l + k - 1) \div k
           from(i) == (i - 1) * k + 1
           to(i) == Min({i * k, l})
           rows == [i \in 1 .. m |-> SubSeq(s, from(i), to(i))]
<1>1. Chunks(s, k) = rows
  BY DEF Chunks
<1>2. l \in Nat
  OBVIOUS
<1>3. m \in Nat /\ k * m <= l + k - 1
  <2> DEFINE x == l + k - 1
  <2>1. x \in Nat
    BY <1>2
  <2> HIDE DEF x
  <2>2. x \div k \in Nat /\ k * (x \div k) <= x
    BY <2>1
  <2> QED
    BY <2>2 DEF x
<1> HIDE DEF m
<1>4. ASSUME NEW i \in 1 .. m
      PROVE  from(i) \in Nat /\ from(i) >= 1 /\ to(i) \in Nat /\ from(i) <= to(i) /\ to(i) <= l
  <2>1. i \in Nat /\ i >= 1 /\ i <= m
    BY <1>3
  <2>2. (i - 1) * k = i * k - k /\ i * k \in Nat
    BY <2>1
  <2>3. i * k <= k * m
    BY <1>3, <2>1
  <2>4. i * k - k >= 0
    <3>1. (i - 1) * k \in Nat
      BY <2>1
    <3> QED
      BY <2>2, <3>1
  <2> DEFINE y == i * k
             z == k * m
  <2>5. y \in Nat /\ z \in Int /\ y <= z /\ z <= l + k - 1 /\ y - k >= 0 /\ from(i) = y - k + 1
    BY <1>3, <2>2, <2>3, <2>4
  <2>6. to(i) = Min({y, l})
    OBVIOUS
  <2> HIDE DEF y, z, from, to, l
  <2>7. to(i) \in {y, l} /\ to(i) <= y /\ to(i) <= l
    <3>1. y \in Int /\ l \in Int
      BY <1>2, <2>5
    <3>2. Min({y, l}) \in {y, l} /\ Min({y, l}) <= y /\ Min({y, l}) <= l
      BY <3>1, MinOfTwo
    <3> QED
      BY <2>6, <3>2
  <2>8. y - k + 1 <= l /\ y - k + 1 <= y
    BY <1>2, <2>5
  <2> QED
    BY <1>2, <2>5, <2>7, <2>8
<1>5. ASSUME NEW i \in 1 .. m PROVE SubSeq(s, from(i), to(i)) \in Seq(Int) /\ Len(SubSeq(s, from(i), to(i))) >= 1
  <2> DEFINE a == from(i)
             b == to(i)
  <2>1. a \in Nat /\ a >= 1 /\ b \in Nat /\ a <= b /\ b <= Len(s)
    BY <1>4
  <2> HIDE DEF a, b
  <2>2. SubSeq(s, a, b) \in Seq(Int) /\ Len(SubSeq(s, a, b)) >= 1
    BY <2>1
  <2> QED
    BY <2>2 DEF a, b
<1>6. rows \in Seq(Seq(Int)) /\ DOMAIN rows = 1 .. m /\ \A i \in 1 .. m : Len(rows[i]) >= 1
  <2> DEFINE part(i) == SubSeq(s, from(i), to(i))
  <2>1. rows = [i \in 1 .. m |-> part(i)] /\ \A i \in 1 .. m : part(i) \in Seq(Int) /\ Len(part(i)) >= 1
    BY <1>5
  <2> HIDE DEF part, rows
  <2> QED
    BY <1>3, <2>1
<1> HIDE DEF rows
<1> QED
  BY <1>1, <1>6

LEMMA ReshapeShaped ==
    ASSUME NEW td, Tensor(td), Reshape(td) # Raised
    PROVE  Shaped(Reshape(td))
<1>1. CASE td.sparse
  BY <1>1, SparseShaped DEF Reshape
<1>2. CASE ~td.sparse
  <2>1. td.shape \in Seq(Nat) /\ (Len(td.shape) = 2 => td.shape[2] # 0) /\ td.data \in Seq(Int)
    BY DEF Tensor
  <2>2. CASE Len(td.shape) <= 1
    <3>1. Reshape(td) = Vector(td.data)
      BY <1>2, <2>2 DEF Reshape
    <3> QED
      BY <2>1, <3>1, VectorShaped
  <2>3. CASE ~ (Len(td.shape) <= 1) /\ Len(td.shape) = 2
    <3> DEFINE rows == Chunks(td.data, td.shape[2])
    <3>1. Reshape(td) = Matrix(rows)
      BY <1>2, <2>3 DEF Reshape
    <3>2. td.shape[2] \in Nat \ {0}
      BY <2>1, <2>3
    <3> HIDE DEF rows
    <3>3. rows \in Seq(Seq(Int)) /\ \A n \in DOMAIN rows : Len(rows[n]) >= 1
      BY <2>1, <3>2, ChunksRows DEF rows
    <3>4. Matrix(rows).dim = 2 /\ Matrix(rows).rows = rows
      BY DEF Matrix
    <3> QED
      BY <3>1, <3>3, <3>4 DEF Shaped
  <2> QED
    BY <1>2, <2>2, <2>3 DEF Reshape
<1> QED
  BY <1>1, <1>2

(* The items have labels of that shape, and weights of it or none, as posted and as read. *)
LEMMA PostedTensors ==
    ASSUME Parsed, NEW i \in DOMAIN items
    PROVE  /\ i \in Nat \ {0} /\ items[i] = TrainingItem(post.data[i])
           /\ post.data[i].ids \in Seq(Int) \ {<<>>}
           /\ \A f \in DOMAIN post.data[i].inputs : Tensor(post.data[i].inputs[f])
<1>1. items[i] = TrainingItem(post.data[i]) /\ i \in 1 .. Len(post.data) /\ i \in 1 .. Len(items) /\ Len(items) \in Nat
  BY SetupTyped DEF Parsed
<1>2. post.data[i] \in ToSet(post.data)
  BY <1>1, SetupTyped DEF ToSet
<1>3. {post.data[i].ids, Text(post.data[i].ids)} \subseteq Seq(Int) \ {<<>>}
      /\ \A f \in DOMAIN post.data[i].inputs : Tensor(post.data[i].inputs[f])
  BY <1>2, DataPathAssumption DEF Parsed
<1> QED
  BY <1>1, <1>3

LEMMA ItemsShaped ==
    ASSUME Parsed, NEW i \in DOMAIN items
    PROVE  /\ Shaped(items[i].labels)
           /\ items[i].weights = Absent \/ Shaped(items[i].weights)
<1> DEFINE d == post.data[i]
<1>1. /\ items[i] = TrainingItem(d)
      /\ d.ids \in Seq(Int)
      /\ \A f \in DOMAIN d.inputs : Tensor(d.inputs[f])
  BY PostedTensors
<1>2. items[i].labels # Raised /\ items[i].weights # Raised
  BY DEF Parsed, WellFormed
<1> HIDE DEF d
<1>3. /\ items[i].labels = IF "target_tokens" \in DOMAIN d.inputs
                           THEN Reshape(d.inputs["target_tokens"]) ELSE Vector(d.ids)
      /\ items[i].weights = IF "weights" \in DOMAIN d.inputs THEN Reshape(d.inputs["weights"]) ELSE Absent
  BY <1>1 DEF TrainingItem, Given
<1>4. Shaped(items[i].labels)
  BY <1>1, <1>2, <1>3, ReshapeShaped, VectorShaped
<1>5. items[i].weights = Absent \/ Shaped(items[i].weights)
  BY <1>1, <1>2, <1>3, ReshapeShaped
<1> QED
  BY <1>4, <1>5

LEMMA KeptTyped ==
    ASSUME NEW X, NEW s \in Seq(X), NEW S \in SUBSET DOMAIN s
    PROVE  Kept(s, S) \in Seq(X) /\ \A n \in DOMAIN Kept(s, S) : \E m \in DOMAIN s : Kept(s, S)[n] = s[m]
<1> DEFINE q == InOrder(S)
           N == Cardinality(S)
<1>1. DOMAIN s = 1 .. Len(s) /\ Len(s) \in Nat /\ \A m \in DOMAIN s : s[m] \in X
  OBVIOUS
<1>2. IsFiniteSet(S) /\ S \in SUBSET Nat
  <2>1. IsFiniteSet(1 .. Len(s))
    BY <1>1, FS_Interval
  <2> QED
    BY <1>1, <2>1, FS_Subset
<1>3. N \in Nat /\ q \in [1 .. N -> S]
  BY <1>2, InOrderSorted
<1>4. Kept(s, S) = [n \in DOMAIN q |-> s[q[n]]]
  BY DEF Kept
<1> HIDE DEF q, N
<1>5. \A n \in 1 .. N : q[n] \in DOMAIN s
  BY <1>3
<1>6. Kept(s, S) = [n \in 1 .. N |-> s[q[n]]]
  BY <1>3, <1>4
<1>7. \A n \in 1 .. N : s[q[n]] \in X
  BY <1>1, <1>5
<1> QED
  BY <1>3, <1>5, <1>6, <1>7

LEMMA ReadShaped ==
    ASSUME Parsed, NEW i \in DOMAIN items
    PROVE  /\ Shaped(Read[i].labels)
           /\ Read[i].weights = Absent \/ Shaped(Read[i].weights)
<1>1. Shaped(items[i].labels) /\ (items[i].weights = Absent \/ Shaped(items[i].weights))
  BY ItemsShaped
<1>2. Read[i].weights = items[i].weights /\ Read[i].labels.dim = items[i].labels.dim
  BY ReadShapes
<1>3. CASE Read[i].labels = items[i].labels
  BY <1>1, <1>2, <1>3
<1>4. CASE Read[i].labels # items[i].labels
  <2> DEFINE l == items[i].labels
             S == {n \in DOMAIN l.rows : l.rows[n] # <<Vision>>}
  <2>1. setup.vlm /\ Read[i] = Stripped(items[i])
    BY <1>4 DEF Read
  <2>2. items[i] = [ids |-> items[i].ids, labels |-> items[i].labels, weights |-> items[i].weights,
                    logprobs |-> items[i].logprobs, images |-> items[i].images]
    BY PostedTensors DEF TrainingItem
  <2>3. l.dim = 1 /\ Read[i].labels = [l EXCEPT !.rows = Kept(l.rows, S)]
    <3>1. ~items[i].images
      BY <1>4, <2>1 DEF Stripped
    <3>2. Stripped(items[i]).labels = TextLabels(l)
      <4>1. Stripped(items[i]) = [items[i] EXCEPT !.ids = Text(@), !.labels = TextLabels(@)]
        BY <3>1 DEF Stripped
      <4> QED
        BY <2>2, <4>1
    <3>3. TextLabels(l) = IF l.dim = 1 THEN [l EXCEPT !.rows = Kept(l.rows, S)] ELSE l
      BY DEF TextLabels, Without
    <3> HIDE DEF S, l
    <3> QED
      BY <1>4, <2>1, <3>2, <3>3 DEF l
  <2>4. Read[i].labels.rows = Kept(l.rows, S)
    <3>1. \E a, b : l = [dim |-> a, rows |-> b]
      BY PostedTensors, LabelsRecord
    <3> HIDE DEF l, S
    <3> QED
      BY <2>3, <3>1
  <2>5. l.rows \in Seq(Seq(Int)) /\ \A n \in DOMAIN l.rows : Len(l.rows[n]) = 1
    BY <1>1, <2>3 DEF Shaped
  <2> DEFINE rows == Kept(l.rows, S)
  <2>6. S \in SUBSET DOMAIN l.rows
    OBVIOUS
  <2> HIDE DEF l, S
  <2>7. rows \in Seq(Seq(Int)) /\ \A n \in DOMAIN rows : \E m \in DOMAIN l.rows : rows[n] = l.rows[m]
    BY <2>5, <2>6, KeptTyped
  <2> HIDE DEF rows
  <2>8. \A n \in DOMAIN rows : Len(rows[n]) = 1
    BY <2>5, <2>7
  <2>9. Read[i].labels.dim = 1 /\ Read[i].labels.rows = rows
    BY <1>2, <2>3, <2>4 DEF rows, l
  <2>10. \A n \in DOMAIN rows : Len(rows[n]) >= 1
    <3> SUFFICES ASSUME NEW n \in DOMAIN rows PROVE Len(rows[n]) >= 1
      OBVIOUS
    <3> DEFINE m == Len(rows[n])
    <3>1. m = 1
      BY <2>8
    <3> HIDE DEF m
    <3>2. m >= 1
      BY <3>1
    <3> QED
      BY <3>2 DEF m
  <2> QED
    BY <1>1, <1>2, <2>7, <2>8, <2>9, <2>10 DEF Shaped
<1> QED
  BY <1>3, <1>4

-----------------------------------------------------------------------------
(* What is posted for a weight is at its position. *)
LEMMA SparsesWhole == ASSUME Parsed PROVE SparseIsWhole
<1> SUFFICES ASSUME NEW i \in DOMAIN items,
                    "weights" \in DOMAIN post.data[i].inputs,
                    post.data[i].inputs["weights"].sparse, Len(post.data[i].inputs["weights"].shape) = 1
             PROVE  LET td == post.data[i].inputs["weights"]
                        rows == items[i].weights.rows
                    IN  /\ Len(rows) = td.shape[1]
                        /\ (\A m, n \in DOMAIN td.cols : td.cols[m] \in 0 .. td.shape[1] - 1
                                                         /\ (m # n => td.cols[m] # td.cols[n])) =>
                             /\ \A n \in DOMAIN td.cols : rows[td.cols[n] + 1] = <<td.vals[n]>>
                             /\ SumFunction([t \in DOMAIN rows |-> rows[t][1]]) = SumFunction(td.vals)
  BY DEF SparseIsWhole
<1> DEFINE td == post.data[i].inputs["weights"]
           rows == items[i].weights.rows
           N == td.shape[1]
           s == [t \in 1 .. N |-> EntryAt(td, t - 1)]
<1>1. Tensor(td) /\ items[i] = TrainingItem(post.data[i])
  BY PostedTensors
<1>2. items[i].weights = ExpandSparse(td) /\ items[i].weights # Raised
  <2>1. items[i].weights = Given(post.data[i], "weights")
    BY <1>1 DEF TrainingItem
  <2>2. Given(post.data[i], "weights") = Reshape(td)
    BY DEF Given
  <2>3. Reshape(td) = ExpandSparse(td)
    BY DEF Reshape
  <2>4. Raised \notin {items[i].labels, items[i].weights, items[i].logprobs}
    BY DEF Parsed, WellFormed
  <2> QED
    BY <2>1, <2>2, <2>3, <2>4
<1>3. Len(td.shape) = 1 /\ td.sparse
  OBVIOUS
<1> HIDE DEF td
<1>4. td.cols \in Seq(Int) /\ td.vals \in Seq(Int) /\ td.shape \in Seq(Nat)
  BY <1>1 DEF Tensor
<1>5. Len(td.cols) = Len(td.vals)
  BY <1>2, <1>3 DEF ExpandSparse
<1>6. N \in Nat
  BY <1>3, <1>4
<1>7. items[i].weights = Vector(s)
  BY <1>2, <1>3, <1>5 DEF ExpandSparse, ExpandVector, Raised
<1>8. \A t \in 1 .. N : EntryAt(td, t - 1) \in Int
  BY <1>1, <1>5, EntryTyped
<1>9. s \in Seq(Int) /\ DOMAIN s = 1 .. N
  BY <1>6, <1>8
<1>10. rows = [t \in 1 .. N |-> <<s[t]>>]
  <2> HIDE DEF s, N
  <2> QED
    BY <1>7, <1>9, VectorShaped
<1>11. \A t \in 1 .. N : s[t] = EntryAt(td, t - 1)
  OBVIOUS
<1> HIDE DEF rows, N, s
<1>12. Len(rows) = N /\ DOMAIN rows = 1 .. N /\ \A t \in 1 .. N : rows[t] = <<s[t]>>
  BY <1>6, <1>10
<1>13. DOMAIN td.cols = DOMAIN td.vals /\ DOMAIN td.vals = 1 .. Len(td.vals) /\ Len(td.vals) \in Nat
  BY <1>4, <1>5
<1> DEFINE C == DOMAIN td.cols
<1>14. ASSUME \A m, n \in C : td.cols[m] \in 0 .. N - 1 /\ (m # n => td.cols[m] # td.cols[n])
       PROVE  /\ \A n \in C : rows[td.cols[n] + 1] = <<td.vals[n]>>
              /\ SumFunction([t \in DOMAIN rows |-> rows[t][1]]) = SumFunction(td.vals)
  <2>1. ASSUME NEW n \in C PROVE td.cols[n] + 1 \in 1 .. N /\ s[td.cols[n] + 1] = td.vals[n]
    <3>1. td.cols[n] + 1 \in 1 .. N /\ (td.cols[n] + 1) - 1 = td.cols[n]
      BY <1>4, <1>6, <1>14
    <3> DEFINE hits == {j \in C : td.cols[j] = td.cols[n]}
    <3>2. hits = {n}
      BY <1>14
    <3>3. Max(hits) \in hits
      <4>1. hits \subseteq C /\ hits # {}
        BY <3>2
      <4> HIDE DEF hits
      <4> QED
        BY <1>4, <4>1, LastGiven
    <3>4. EntryAt(td, td.cols[n]) = td.vals[n]
      <4>1. EntryAt(td, td.cols[n]) = IF hits = {} THEN 0 ELSE td.vals[Max(hits)]
        BY DEF EntryAt
      <4> HIDE DEF hits
      <4> QED
        BY <3>2, <3>3, <4>1
    <3> QED
      BY <1>11, <3>1, <3>4
  <2>2. \A n \in C : rows[td.cols[n] + 1] = <<td.vals[n]>>
    BY <1>12, <2>1
  <2> DEFINE E == 1 .. N
             m == [n \in C |-> td.cols[n] + 1]
             g == [t \in DOMAIN rows |-> rows[t][1]]
  <2>3. \A t \in E : g[t] = s[t] /\ g[t] \in Int
    BY <1>9, <1>12
  <2>4. ASSUME NEW y \in E, \A x \in C : m[x] # y PROVE g[y] = 0
    <3>1. {j \in C : td.cols[j] = y - 1} = {}
      <4> SUFFICES ASSUME NEW j \in C, td.cols[j] = y - 1 PROVE FALSE
        OBVIOUS
      <4>1. m[j] = (y - 1) + 1 /\ y \in Int
        OBVIOUS
      <4>2. m[j] = y
        BY <4>1
      <4> QED
        BY <2>4, <4>2
    <3>2. EntryAt(td, y - 1) = 0
      BY <3>1 DEF EntryAt
    <3> QED
      BY <1>11, <2>3, <3>2
  <2>5. \A x \in C : m[x] \in E /\ td.vals[x] = g[m[x]]
    BY <2>1, <2>3
  <2>6. \A x, y \in C : m[x] = m[y] => x = y
    <3> SUFFICES ASSUME NEW x \in C, NEW y \in C, m[x] = m[y] PROVE x = y
      OBVIOUS
    <3>1. td.cols[x] \in Int /\ td.cols[y] \in Int /\ td.cols[x] + 1 = td.cols[y] + 1
      BY <1>4
    <3>2. td.cols[x] = td.cols[y]
      BY <3>1
    <3> QED
      BY <1>14, <3>2
  <2>7. IsFiniteSet(C) /\ IsFiniteSet(E)
    <3>1. C = 1 .. Len(td.vals)
      BY <1>13
    <3> QED
      BY <1>6, <1>13, <3>1, FS_Interval
  <2>8. Sum(td.vals, C) = Sum(g, E)
    <3> DEFINE f == td.vals
    <3>1. \A x \in C : f[x] = g[m[x]]
      BY <2>5
    <3>2. \A y \in E : g[y] \in Int
      BY <2>3
    <3>3. \A x \in C : m[x] \in E
      BY <2>5
    <3> HIDE DEF C, E, m, g, f
    <3>4. Sum(f, C) = Sum(g, E)
      BY <2>4, <2>6, <2>7, <3>1, <3>2, <3>3, SumMoved
    <3> QED
      BY <3>4 DEF f
  <2>9. SumFunction(td.vals) = Sum(td.vals, C)
    BY <1>13 DEF SumFunction, Sum
  <2>10. SumFunction(g) = Sum(g, E)
    <3>1. DOMAIN g = E
      BY <1>12
    <3> HIDE DEF g, E
    <3> QED
      BY <3>1 DEF SumFunction, Sum
  <2> QED
    BY <2>2, <2>8, <2>9, <2>10
<1> QED
  BY <1>12, <1>14 DEF td, rows, N

-----------------------------------------------------------------------------
(* The cells of a padded row. *)
LEMMA Widths ==
    ASSUME NEW k \in Nat
    PROVE  Max({k, 1}) \in Nat \ {0} /\ Max({k, 1}) = IF k = 0 THEN 1 ELSE k
<1>1. IsFiniteSet({k, 1}) /\ {k, 1} \in SUBSET Nat /\ {k, 1} # {}
  <2>1. IsFiniteSet({1}) /\ {k, 1} = {1} \cup {k}
    BY FS_Singleton
  <2>2. IsFiniteSet({1} \cup {k})
    BY <2>1, FS_AddElement
  <2> QED
    BY <2>1, <2>2
<1>2. Max({k, 1}) \in {k, 1} /\ \A y \in {k, 1} : y <= Max({k, 1})
  BY <1>1, GreatestNat
<1> QED
  BY <1>2

(* The items whose labels a batch of width k can line up. *)
Lies(item, k) ==
    /\ item.ids \in Seq(Int) /\ Len(item.ids) \in Nat \ {0}
    /\ Shaped(item.labels) /\ (k = 0 => item.labels.dim = 1)
    /\ \A t \in DOMAIN item.labels.rows : k > 0 /\ item.labels.dim = 2 => Len(item.labels.rows[t]) = k

LEMMA LabelsAt ==
    ASSUME NEW item, NEW k \in Nat, NEW t, Lies(item, k)
    PROVE  /\ DOMAIN LabelAt(item, t, k) = 1 .. Max({k, 1})
           /\ t \in DOMAIN item.labels.rows /\ (k = 0 \/ item.labels.dim = 2) =>
                  /\ LabelAt(item, t, k) = item.labels.rows[t]
                  /\ Len(item.labels.rows[t]) = Max({k, 1})
<1>0. CASE t \notin DOMAIN item.labels.rows
  <2>1. LabelAt(item, t, k) = [j \in 1 .. Max({k, 1}) |-> IF j = 1 THEN <<Masked>>[1] ELSE Masked]
    BY <1>0 DEF LabelAt, Widened
  <2> QED
    BY <1>0, <2>1
<1> SUFFICES ASSUME t \in DOMAIN item.labels.rows
             PROVE  /\ DOMAIN LabelAt(item, t, k) = 1 .. Max({k, 1})
                    /\ k = 0 \/ item.labels.dim = 2 =>
                           /\ LabelAt(item, t, k) = item.labels.rows[t]
                           /\ Len(item.labels.rows[t]) = Max({k, 1})
  BY <1>0
<1> DEFINE row == item.labels.rows[t]
           K == Max({k, 1})
<1>1. K = IF k = 0 THEN 1 ELSE k
  BY Widths
<1>2. row \in Seq(Int) /\ (item.labels.dim = 1 => Len(row) = 1) /\ item.labels.dim \in {1, 2}
  BY DEF Lies, Shaped
<1>3. LabelAt(item, t, k) = IF k = 0 \/ item.labels.dim = 2 THEN row
                            ELSE [j \in 1 .. k |-> IF j = 1 THEN row[1] ELSE Masked]
  BY DEF LabelAt, Widened
<1>4. k > 0 /\ item.labels.dim = 2 => Len(row) = k
  BY DEF Lies
<1>5. k = 0 => item.labels.dim = 1
  BY DEF Lies
<1> HIDE DEF row, K
<1>6. DOMAIN row = 1 .. Len(row)
  BY <1>2
<1>7. CASE k = 0
  BY <1>1, <1>2, <1>3, <1>5, <1>6, <1>7 DEF row, K
<1>8. CASE k # 0 /\ item.labels.dim = 2
  BY <1>1, <1>2, <1>3, <1>4, <1>6, <1>8 DEF row, K
<1>9. CASE k # 0 /\ item.labels.dim # 2
  BY <1>1, <1>3, <1>9 DEF row, K
<1> QED
  BY <1>7, <1>8, <1>9

(* The items whose labels and weights are as many as their ids. *)
Fits(item, k, w) ==
    /\ Lies(item, k) /\ Len(item.labels.rows) = Len(item.ids)
    /\ \/ item.weights = Absent
       \/ /\ w /\ Shaped(item.weights) /\ Len(item.weights.rows) = Len(item.ids)
          /\ item.weights.dim = 2 =>
                 k # 0 /\ \A t \in 1 .. Len(item.ids) : Len(item.weights.rows[t]) = k

(* What the reference wants of an item's position. *)
WeightOf(item, t, j) ==
    IF item.weights = Absent THEN 1
    ELSE IF j \in DOMAIN item.weights.rows[t] THEN item.weights.rows[t][j] ELSE 0
WantedOf(item, t, j) == IF item.labels.rows[t][j] = Masked THEN 0 ELSE WeightOf(item, t, j)

LEMMA WeightsAt ==
    ASSUME NEW item, NEW k \in Nat, NEW w \in BOOLEAN, Fits(item, k, w), NEW t \in 1 .. Len(item.ids),
           NEW K, K = Max({k, 1}), NEW j \in 1 .. K
    PROVE  /\ WeightAt(item, t, k, w)[j] \in Int
           /\ k = 0 \/ item.weights # Absent => WeightAt(item, t, k, w)[j] = WeightOf(item, t, j)
<1> DEFINE row == item.weights.rows[t]
<1>1. K = (IF k = 0 THEN 1 ELSE k) /\ K \in Nat /\ j \in 1 .. K
  BY Widths
<1>2. /\ ~w => WeightAt(item, t, k, w) = [l \in 1 .. K |-> IF l = 1 THEN <<1>>[1] ELSE 1]
      /\ w /\ item.weights = Absent /\ k = 0 => WeightAt(item, t, k, w) = <<1>>
      /\ w /\ item.weights = Absent /\ k # 0 =>
             WeightAt(item, t, k, w) = [l \in 1 .. k |-> IF l = 1 THEN <<0>>[1] ELSE 0]
      /\ w /\ item.weights # Absent /\ (k = 0 \/ item.weights.dim = 2) => WeightAt(item, t, k, w) = row
      /\ w /\ item.weights # Absent /\ ~ (k = 0 \/ item.weights.dim = 2) =>
             WeightAt(item, t, k, w) = [l \in 1 .. k |-> IF l = 1 THEN row[1] ELSE 0]
  BY DEF WeightAt, Widened
<1>3. item.weights # Absent =>
         /\ w /\ row \in Seq(Int) /\ item.weights.dim \in {1, 2}
         /\ (item.weights.dim = 1 => Len(row) = 1)
         /\ (item.weights.dim = 2 => k # 0 /\ Len(row) = k)
  <2> SUFFICES ASSUME item.weights # Absent
               PROVE  /\ w /\ row \in Seq(Int) /\ item.weights.dim \in {1, 2}
                      /\ (item.weights.dim = 1 => Len(row) = 1)
                      /\ (item.weights.dim = 2 => k # 0 /\ Len(row) = k)
    OBVIOUS
  <2>1. /\ w /\ Shaped(item.weights) /\ Len(item.weights.rows) = Len(item.ids)
        /\ item.weights.dim = 2 => k # 0 /\ Len(row) = k
    BY DEF Fits
  <2>2. t \in DOMAIN item.weights.rows
    <3>1. item.weights.rows \in Seq(Seq(Int))
      BY <2>1 DEF Shaped
    <3> QED
      BY <2>1, <3>1
  <2> QED
    BY <2>1, <2>2 DEF Shaped
<1> DEFINE x == WeightAt(item, t, k, w)
           none == item.weights = Absent
           flat == item.weights.dim # 2
<1>4. /\ ~w => x = [l \in 1 .. K |-> 1] /\ none
      /\ w /\ none /\ k = 0 => x = <<1>>
      /\ w /\ none /\ k # 0 => x = [l \in 1 .. k |-> 0]
      /\ w /\ ~none /\ (k = 0 \/ ~flat) => x = row
      /\ w /\ ~none /\ ~ (k = 0 \/ ~flat) => x = [l \in 1 .. k |-> IF l = 1 THEN row[1] ELSE 0]
  <2>1. <<1>>[1] = 1 /\ <<0>>[1] = 0
    OBVIOUS
  <2>2. [l \in 1 .. K |-> IF l = 1 THEN <<1>>[1] ELSE 1] = [l \in 1 .. K |-> 1]
        /\ [l \in 1 .. k |-> IF l = 1 THEN <<0>>[1] ELSE 0] = [l \in 1 .. k |-> 0]
    BY <2>1
  <2>3. ~w => item.weights = Absent
    BY <1>3
  <2> HIDE DEF row
  <2> QED
    BY <1>2, <2>2, <2>3
<1>5. ~none => /\ w /\ row \in Seq(Int) /\ (flat => Len(row) = 1) /\ (~flat => k # 0 /\ Len(row) = k)
  BY <1>3
<1> SUFFICES /\ x[j] \in Int
             /\ k = 0 \/ ~none => x[j] = IF none THEN 1 ELSE IF j \in DOMAIN row THEN row[j] ELSE 0
  BY DEF WeightOf
<1> HIDE DEF row, x, none, flat
<1>6. CASE ~w
  <2>1. x[j] = 1 /\ none
    BY <1>1, <1>4, <1>6
  <2> QED
    BY <2>1
<1>7. CASE w /\ none /\ k = 0
  <2>1. j = 1 /\ x = <<1>>
    BY <1>1, <1>4, <1>7
  <2>2. x[j] = 1
    BY <2>1
  <2> QED
    BY <1>7, <2>2
<1>8. CASE w /\ none /\ k # 0
  <2>1. x = [l \in 1 .. k |-> 0] /\ j \in 1 .. k
    BY <1>1, <1>4, <1>8
  <2>2. x[j] = 0
    BY <2>1
  <2> QED
    BY <1>8, <2>2
<1>9. CASE w /\ ~none
  <2>1. row \in Seq(Int) /\ DOMAIN row = 1 .. Len(row) /\ Len(row) \in Nat
    BY <1>5, <1>9
  <2>2. CASE k = 0 \/ ~flat
    <3>1. j \in DOMAIN row /\ x = row
      BY <1>1, <1>4, <1>5, <1>9, <2>1, <2>2
    <3> QED
      BY <1>9, <2>1, <3>1
  <2>3. CASE ~ (k = 0 \/ ~flat)
    <3>1. Len(row) = 1 /\ j \in 1 .. k
      BY <1>1, <1>5, <1>9, <2>3
    <3>2. x = [l \in 1 .. k |-> IF l = 1 THEN row[1] ELSE 0]
      BY <1>4, <1>9, <2>3
    <3>3. x[j] = IF j = 1 THEN row[1] ELSE 0
      BY <3>1, <3>2
    <3>4. 1 \in DOMAIN row /\ row[1] \in Int /\ (j \in DOMAIN row <=> j = 1)
      <4>1. DOMAIN row = 1 .. 1
        BY <2>1, <3>1
      <4>2. j \in Int
        BY <1>1
      <4>3. 1 \in DOMAIN row /\ (j \in DOMAIN row <=> j = 1)
        BY <4>1, <4>2
      <4> QED
        BY <2>1, <4>3
    <3> QED
      BY <1>9, <3>3, <3>4
  <2> QED
    BY <2>2, <2>3
<1> QED
  BY <1>6, <1>7, <1>8, <1>9

(* A row: the item's positions, then padding. *)
Counted(cell, j) == IF cell.labels[j] = Masked THEN 0 ELSE cell.weights[j]
Lined(row, item, i, L, K) ==
    /\ DOMAIN row = 1 .. L /\ DOMAIN row[1].labels = 1 .. K
    /\ \A t \in 1 .. L : \A j \in 1 .. K :
           /\ t > Len(item.ids) => row[t].item = 0 /\ row[t].labels[j] = Masked
           /\ ~ (t > Len(item.ids)) => row[t].item = i /\ row[t].pos = t

LEMMA RowCells ==
    ASSUME NEW docs, NEW i, NEW k \in Nat, Lies(docs[i], k), NEW L \in Nat, Len(docs[i].ids) <= L,
           NEW ws, NEW row, row = PaddedRow(docs, i, L, k, ws), NEW K, K = Max({k, 1})
    PROVE  K \in Nat \ {0} /\ Lined(row, docs[i], i, L, K)
<1> DEFINE item == docs[i]
           N == Len(item.ids)
<1>1. N \in Nat \ {0} /\ N <= L /\ Lies(item, k)
  BY DEF Lies
<1>2. K \in Nat \ {0} /\ K = IF k = 0 THEN 1 ELSE k
  BY Widths
<1>3. row = [t \in 1 .. L |->
              IF t > N THEN PadCell(k)
              ELSE [item |-> i, pos |-> t, labels |-> LabelAt(item, t, k), weights |-> ws[t]]]
  BY DEF PaddedRow
<1>4. PadCell(k).item = 0 /\ \A j \in 1 .. K : PadCell(k).labels[j] = Masked
  <2>1. PadCell(k).item = 0 /\ PadCell(k).labels = [j \in 1 .. K |-> IF j = 1 THEN <<Masked>>[1] ELSE Masked]
    BY DEF PadCell, Widened
  <2>2. <<Masked>>[1] = Masked
    OBVIOUS
  <2> QED
    BY <2>1, <2>2
<1>5. DOMAIN LabelAt(item, 1, k) = 1 .. K
  BY <1>1, LabelsAt
<1> HIDE DEF item, N
<1>7. 1 \in 1 .. L /\ ~ (1 > N)
  BY <1>1
<1>8. DOMAIN row = 1 .. L /\ DOMAIN row[1].labels = 1 .. K
  <2>1. row[1].labels = LabelAt(item, 1, k)
    BY <1>3, <1>7
  <2> QED
    BY <1>3, <1>5, <2>1
<1>9. ASSUME NEW t \in 1 .. L, t > N, NEW j \in 1 .. K PROVE row[t].item = 0 /\ row[t].labels[j] = Masked
  BY <1>3, <1>4, <1>9
<1>10. ASSUME NEW t \in 1 .. L, ~ (t > N) PROVE row[t].item = i /\ row[t].pos = t
  BY <1>3, <1>10
<1> QED
  BY <1>2, <1>8, <1>9, <1>10 DEF item, N, Lined

(* In a row of an item that fits its cells count as the reference counts them. *)
Counts(row, item, k, K) ==
    \A t \in 1 .. Len(item.ids) : \A j \in 1 .. K :
        /\ row[t].weights[j] \in Int
        /\ k = 0 \/ (item.labels.dim = 2 /\ item.weights # Absent) =>
              WantedOf(item, t, j) = Counted(row[t], j)

LEMMA RowCounts ==
    ASSUME NEW docs, NEW i, NEW k \in Nat, NEW w \in BOOLEAN, Fits(docs[i], k, w),
           NEW L \in Nat, Len(docs[i].ids) <= L,
           NEW ws, \A t \in 1 .. Len(docs[i].ids) : ws[t] = WeightAt(docs[i], t, k, w),
           NEW row, row = PaddedRow(docs, i, L, k, ws), NEW K, K = Max({k, 1})
    PROVE  Counts(row, docs[i], k, K)
<1> DEFINE item == docs[i]
           N == Len(item.ids)
<1>1. N \in Nat \ {0} /\ N <= L /\ Fits(item, k, w) /\ Lies(item, k)
  BY DEF Fits, Lies
<1>2. row = [t \in 1 .. L |->
              IF t > N THEN PadCell(k)
              ELSE [item |-> i, pos |-> t, labels |-> LabelAt(item, t, k), weights |-> ws[t]]]
  BY DEF PaddedRow
<1>3. \A t \in 1 .. N : ws[t] = WeightAt(item, t, k, w)
  OBVIOUS
<1> HIDE DEF item
<1> SUFFICES ASSUME NEW t \in 1 .. N, NEW j \in 1 .. K
             PROVE  /\ row[t].weights[j] \in Int
                    /\ k = 0 \/ (item.labels.dim = 2 /\ item.weights # Absent) =>
                          WantedOf(item, t, j) = Counted(row[t], j)
  BY DEF Counts, item
<1>4. t \in DOMAIN item.labels.rows
  <2>1. item.labels.rows \in Seq(Seq(Int)) /\ Len(item.labels.rows) = N
    BY <1>1 DEF Fits, Lies, Shaped, N
  <2> QED
    BY <2>1
<1>5. k = 0 \/ item.labels.dim = 2 => LabelAt(item, t, k) = item.labels.rows[t]
  BY <1>1, <1>4, LabelsAt
<1>6. /\ WeightAt(item, t, k, w)[j] \in Int
      /\ k = 0 \/ item.weights # Absent => WeightAt(item, t, k, w)[j] = WeightOf(item, t, j)
  BY <1>1, WeightsAt
<1>7. row[t].labels = LabelAt(item, t, k) /\ row[t].weights = WeightAt(item, t, k, w)
  <2> HIDE DEF N
  <2>1. t \in 1 .. L /\ ~ (t > N)
    BY <1>1
  <2> QED
    BY <1>2, <1>3, <2>1
<1> QED
  BY <1>5, <1>6, <1>7 DEF WantedOf, Counted

LEMMA FiniteTriples ==
    ASSUME NEW A, IsFiniteSet(A), NEW B, IsFiniteSet(B), NEW C, IsFiniteSet(C)
    PROVE  IsFiniteSet(A \X B \X C)
<1> DEFINE S == (A \X B) \X C
           f == [x \in S |-> <<x[1][1], x[1][2], x[2]>>]
<1>1. IsFiniteSet(S)
  BY FS_Product
<1>2. A \X B \X C \subseteq {f[x] : x \in S}
  <2> SUFFICES ASSUME NEW a \in A, NEW b \in B, NEW c \in C PROVE <<a, b, c>> \in {f[x] : x \in S}
    OBVIOUS
  <2>1. <<<<a, b>>, c>> \in S /\ f[<<<<a, b>>, c>>] = <<a, b, c>>
    OBVIOUS
  <2> QED
    BY <2>1
<1>3. IsFiniteSet({f[x] : x \in S})
  <2> HIDE DEF f, S
  <2> QED
    BY <1>1, FiniteImage
<1> QED
  BY <1>2, <1>3, FS_Subset

(* Rows that hold, at the slots that slot gives, the places P and no other cell that counts. *)
Places(docs, S, K) == {p \in S \X Nat \X (1 .. K) : p[2] \in 1 .. Len(docs[p[1]].ids)}
KeyAt(rows, s) == <<rows[s[1]][s[2]].item, rows[s[1]][s[2]].pos, s[3]>>
LaidOut(rows, P, slot) ==
    /\ IsFiniteSet(Slots(rows))
    /\ \A p \in P : slot[p] \in Slots(rows) /\ KeyAt(rows, slot[p]) = p
    /\ \A s \in Slots(rows) :
           /\ rows[s[1]][s[2]].item = 0 => ~Valid(rows, s)
           /\ rows[s[1]][s[2]].item # 0 => KeyAt(rows, s) \in P /\ slot[KeyAt(rows, s)] = s

LEMMA EvenSlots ==
    ASSUME NEW rows, NEW M, DOMAIN rows = M, NEW T, NEW J,
           \A b \in M : DOMAIN rows[b] = T /\ DOMAIN rows[b][1].labels = J
    PROVE  \A s : s \in Slots(rows) <=> s \in M \X T \X J
<1>1. ASSUME NEW s \in Slots(rows) PROVE s \in M \X T \X J
  <2>1. PICK b \in DOMAIN rows : s \in {<<b, t, j>> : t \in DOMAIN rows[b], j \in DOMAIN rows[b][1].labels}
    BY DEF Slots
  <2>2. PICK t \in DOMAIN rows[b], j \in DOMAIN rows[b][1].labels : s = <<b, t, j>>
    BY <2>1
  <2> QED
    BY <2>2
<1>2. ASSUME NEW b \in M, NEW t \in T, NEW j \in J PROVE <<b, t, j>> \in Slots(rows)
  <2>1. <<b, t, j>> \in {<<b, x, y>> : x \in DOMAIN rows[b], y \in DOMAIN rows[b][1].labels}
    OBVIOUS
  <2> QED
    BY <2>1 DEF Slots
<1> QED
  BY <1>1, <1>2

Distinct(q) == \A a, b \in DOMAIN q : q[a] = q[b] => a = b
AllLie(docs, share, k) ==
    \A n \in DOMAIN share : share[n] \in Nat \ {0} /\ Lies(docs[share[n]], k)

(* A share of items that fit: soft labels have weights. *)
Fitting(docs, share, k) ==
    /\ k = 0 \/ Weighted(docs, share)
    /\ \A n \in DOMAIN share : Fits(docs[share[n]], k, Weighted(docs, share))

LEMMA FittingLevel ==
    ASSUME NEW docs, NEW share, NEW k \in Nat, k = Width(docs, share), Fitting(docs, share, k)
    PROVE  Level(docs, share)
<1>1. \A i \in ToSet(share) : Fits(docs[i], k, Weighted(docs, share))
  BY DEF Fitting, ToSet
<1>2. ASSUME NEW i \in ToSet(share)
      PROVE  /\ Over(docs[i], docs[i].labels) = 0 /\ Over(docs[i], docs[i].weights) = 0
             /\ docs[i].weights.dim = 2 => \A t \in DOMAIN docs[i].weights.rows :
                                                Len(docs[i].weights.rows[t]) = k
  <2> DEFINE item == docs[i]
  <2>1. Fits(item, k, Weighted(docs, share))
    BY <1>1
  <2> HIDE DEF item
  <2>2. Len(item.ids) \in Nat /\ Len(item.labels.rows) = Len(item.ids)
    BY <2>1 DEF Fits, Lies
  <2>3. Over(item, item.labels) = 0
    BY <2>2 DEF Over
  <2>4. Over(item, item.weights) = 0
    BY <2>1, <2>2 DEF Over, Fits
  <2>5. ASSUME item.weights.dim = 2, NEW t \in DOMAIN item.weights.rows PROVE Len(item.weights.rows[t]) = k
    <3>1. item.weights # Absent
      BY <2>5 DEF Absent
    <3>2. item.weights.rows \in Seq(Seq(Int)) /\ Len(item.weights.rows) = Len(item.ids)
      BY <2>1, <3>1 DEF Fits, Shaped
    <3>3. t \in 1 .. Len(item.ids)
      BY <3>2
    <3> QED
      BY <2>1, <2>5, <3>1, <3>3 DEF Fits
  <2> QED
    BY <2>3, <2>4, <2>5 DEF item
<1> QED
  BY <1>2 DEF Level, Fitting

Padding(docs, share, k, K, slot) ==
    /\ LaidOut(Padded(docs, share), Places(docs, ToSet(share), K), slot)
    /\ \A p \in Places(docs, ToSet(share), K) :
           /\ slot[p] \in (DOMAIN share) \X Nat \X (1 .. K)
           /\ share[slot[p][1]] = p[1]
           /\ Fitting(docs, share, k) =>
                 /\ Effective(Padded(docs, share), slot[p]) \in Int
                 /\ k = 0 \/ (docs[p[1]].labels.dim = 2 /\ docs[p[1]].weights # Absent) =>
                       Effective(Padded(docs, share), slot[p]) = WantedOf(docs[p[1]], p[2], p[3])

LEMMA PaddedLaid ==
    ASSUME NEW docs, NEW share, NEW k \in Nat, k = Width(docs, share), NEW D, D = DOMAIN share, IsFiniteSet(D), D # {},
           Distinct(share), AllLie(docs, share, k),
           NEW K, K = Max({k, 1})
    PROVE  \E slot : Padding(docs, share, k, K, slot)
<1> DEFINE w == Weighted(docs, share)
           L == MaxLen(docs, share)
           ws(n) == RowWeights(docs, share, n)
           rows == Padded(docs, share)
           P == Places(docs, ToSet(share), K)
           len == [i \in ToSet(share) |-> Len(docs[i].ids)]
           S == D \X (1 .. L) \X (1 .. K)
<1>1. ToSet(share) = {share[n] : n \in D} /\ ToSet(share) # {} /\ IsFiniteSet(ToSet(share))
  <2>1. ToSet(share) = {share[n] : n \in D}
    BY DEF ToSet
  <2>2. IsFiniteSet({share[n] : n \in D})
    BY FiniteImage
  <2> QED
    BY <2>1, <2>2
<1>2. w \in BOOLEAN
  BY DEF Weighted
<1>3. \A i \in ToSet(share) : Lies(docs[i], k) /\ len[i] \in Nat \ {0}
  <2>1. \A n \in D : Lies(docs[share[n]], k)
    BY DEF AllLie
  <2>2. \A i \in ToSet(share) : Lies(docs[i], k)
    BY <1>1, <2>1
  <2>3. \A i \in ToSet(share) : len[i] = Len(docs[i].ids)
    OBVIOUS
  <2> HIDE DEF w, len
  <2> QED
    BY <2>2, <2>3 DEF Lies
<1>4. L \in Nat /\ \A i \in ToSet(share) : len[i] <= L
  <2>1. \A i \in ToSet(share) : Len(docs[i].ids) \in Nat
    BY <1>3 DEF len
  <2> QED
    BY <1>1, <2>1, Longest DEF MaxLen
<1>5. rows = [n \in D |-> PaddedRow(docs, share[n], L, k, ws(n))]
  BY DEF Padded
<1>6. K \in Nat \ {0}
  BY Widths
<1>18. \A i \in ToSet(share) : len[i] = Len(docs[i].ids)
  OBVIOUS
<1>0. \A n \in D : len[share[n]] = Len(docs[share[n]].ids) /\ len[share[n]] \in Nat
  BY <1>1, <1>3
<1>20. ASSUME Fitting(docs, share, k), NEW n \in D, NEW t \in 1 .. Len(docs[share[n]].ids)
       PROVE  ws(n)[t] = WeightAt(docs[share[n]], t, k, w)
  <2>1. Level(docs, share)
    BY <1>20, FittingLevel
  <2>2. t \in DOMAIN docs[share[n]].ids
    BY <1>20 DEF Fitting, Fits, Lies
  <2> QED
    BY <2>1, <2>2 DEF RowWeights
<1> HIDE DEF w, L, rows, ws, len
<1>7. ASSUME NEW n \in D
      PROVE  /\ Lined(rows[n], docs[share[n]], share[n], L, K)
             /\ Fitting(docs, share, k) => Counts(rows[n], docs[share[n]], k, K)
  <2> DEFINE row == rows[n]
             i == share[n]
             v == ws(n)
  <2>1. row = PaddedRow(docs, i, L, k, v)
    BY <1>5
  <2>2. Lies(docs[i], k) /\ Len(docs[i].ids) <= L
    BY <1>0, <1>1, <1>3, <1>4
  <2>3. Fitting(docs, share, k) => /\ Fits(docs[i], k, w)
                                   /\ \A t \in 1 .. Len(docs[i].ids) : v[t] = WeightAt(docs[i], t, k, w)
    BY <1>20 DEF Fitting, w
  <2> HIDE DEF row, i, v
  <2>4. Lined(row, docs[i], i, L, K)
    BY <1>4, <2>1, <2>2, RowCells
  <2>5. Fitting(docs, share, k) => Counts(row, docs[i], k, K)
    BY <1>2, <1>4, <2>1, <2>2, <2>3, RowCounts
  <2> QED
    BY <2>4, <2>5 DEF row, i
<1>17. ASSUME NEW n \in D, NEW t \in 1 .. L, NEW j \in 1 .. K
       PROVE  /\ t > len[share[n]] => rows[n][t].item = 0 /\ rows[n][t].labels[j] = Masked
              /\ ~ (t > len[share[n]]) => rows[n][t].item = share[n] /\ rows[n][t].pos = t
  <2> DEFINE row == rows[n]
             i == share[n]
             item == docs[i]
  <2>1. Lined(row, item, i, L, K) /\ len[i] = Len(item.ids)
    BY <1>0, <1>7
  <2> HIDE DEF row, i, item
  <2>2. /\ t > Len(item.ids) => row[t].item = 0 /\ row[t].labels[j] = Masked
        /\ ~ (t > Len(item.ids)) => row[t].item = i /\ row[t].pos = t
    BY <2>1, Zenon DEF Lined
  <2> QED
    BY <2>1, <2>2 DEF row, i, item
<1>19. ASSUME Fitting(docs, share, k), NEW n \in D, NEW t \in 1 .. len[share[n]], NEW j \in 1 .. K
       PROVE  /\ rows[n][t].weights[j] \in Int
              /\ k = 0 \/ (docs[share[n]].labels.dim = 2 /\ docs[share[n]].weights # Absent) =>
                    WantedOf(docs[share[n]], t, j) = Counted(rows[n][t], j)
  <2>1. Counts(rows[n], docs[share[n]], k, K) /\ len[share[n]] = Len(docs[share[n]].ids)
    BY <1>0, <1>7, <1>19
  <2> QED
    BY <2>1 DEF Counts
<1>8. DOMAIN rows = D
  BY <1>5
<1>9. Slots(rows) = S
  <2> DEFINE T == 1 .. L
             J == 1 .. K
  <2>1. \A b \in D : DOMAIN rows[b] = T /\ DOMAIN rows[b][1].labels = J
    BY <1>7 DEF Lined
  <2>2. DOMAIN rows = D
    BY <1>8
  <2> HIDE DEF T, J
  <2>3. \A s : s \in Slots(rows) <=> s \in D \X T \X J
    BY <2>1, <2>2, EvenSlots
  <2> QED
    BY <2>3 DEF T, J
<1>10. IsFiniteSet(S)
  <2>1. IsFiniteSet(1 .. L) /\ IsFiniteSet(1 .. K)
    BY <1>4, <1>6, FS_Interval
  <2> QED
    BY <2>1, FiniteTriples
<1> DEFINE slot == [p \in P |-> <<CHOOSE n \in D : share[n] = p[1], p[2], p[3]>>]
<1>11. ASSUME NEW p \in P
       PROVE  /\ slot[p] \in S /\ share[slot[p][1]] = p[1] /\ slot[p][2] = p[2] /\ slot[p][3] = p[3]
              /\ p[2] <= len[p[1]] /\ p = <<p[1], p[2], p[3]>>
  <2>1. /\ p[1] \in ToSet(share) /\ p[2] \in 1 .. len[p[1]] /\ p[3] \in 1 .. K
        /\ p = <<p[1], p[2], p[3]>>
    BY <1>18 DEF Places
  <2> DEFINE c == CHOOSE n \in D : share[n] = p[1]
  <2>2. c \in D /\ share[c] = p[1]
    <3>1. \E n \in D : share[n] = p[1]
      BY <1>1, <2>1
    <3> QED
      BY <3>1
  <2>3. slot[p] = <<c, p[2], p[3]>>
    OBVIOUS
  <2> HIDE DEF c
  <2>4. p[2] \in 1 .. L /\ p[2] <= len[p[1]]
    <3>1. len[p[1]] \in Nat /\ len[p[1]] <= L
      BY <1>3, <1>4, <2>1
    <3> QED
      BY <1>4, <2>1, <3>1
  <2> QED
    BY <2>1, <2>2, <2>3, <2>4
<1>12. ASSUME NEW n \in D, NEW t \in 1 .. L, NEW j \in 1 .. K, t <= len[share[n]]
       PROVE  <<share[n], t, j>> \in P /\ slot[<<share[n], t, j>>] = <<n, t, j>>
  <2> DEFINE p == <<share[n], t, j>>
  <2>1. p \in P
    <3>1. p \in ToSet(share) \X Nat \X (1 .. K) /\ p[1] = share[n] /\ p[2] = t
      BY <1>1, <1>4
    <3>2. p[2] \in 1 .. Len(docs[p[1]].ids)
      BY <1>0, <1>12, <3>1
    <3> QED
      BY <3>1, <3>2 DEF Places
  <2>2. slot[p] \in S /\ share[slot[p][1]] = p[1] /\ slot[p][2] = t /\ slot[p][3] = j
    BY <1>11, <2>1
  <2> DEFINE q == slot[p]
  <2> HIDE DEF slot, q
  <2>3. q = <<q[1], q[2], q[3]>> /\ q[1] \in D
    <3>1. q \in S
      BY <2>2 DEF q
    <3> QED
      BY <3>1
  <2>4. q[1] = n
    BY <2>2, <2>3 DEF q, Distinct
  <2> QED
    BY <2>1, <2>2, <2>3, <2>4 DEF q
<1> HIDE DEF slot, P
<1>13. ASSUME NEW s \in S
       PROVE  /\ rows[s[1]][s[2]].item = 0 => ~Valid(rows, s)
              /\ rows[s[1]][s[2]].item # 0 => KeyAt(rows, s) \in P /\ slot[KeyAt(rows, s)] = s
  <2>1. PICK n \in D, t \in 1 .. L, j \in 1 .. K : s = <<n, t, j>>
    OBVIOUS
  <2>2. /\ KeyAt(rows, s) = <<rows[n][t].item, rows[n][t].pos, j>>
        /\ Valid(rows, s) <=> rows[n][t].labels[j] # Masked
        /\ rows[s[1]][s[2]].item = rows[n][t].item
    BY <2>1 DEF KeyAt, Valid
  <2>3. share[n] # 0 /\ len[share[n]] \in Nat
    BY <1>0 DEF AllLie
  <2>4. CASE t > len[share[n]]
    <3>1. rows[n][t].item = 0 /\ rows[n][t].labels[j] = Masked
      BY <1>17, <2>4
    <3>2. rows[s[1]][s[2]].item = 0 /\ ~Valid(rows, s)
      BY <2>2, <3>1
    <3> QED
      BY <3>2
  <2>5. CASE ~ (t > len[share[n]])
    <3>1. rows[n][t].item = share[n] /\ rows[n][t].pos = t
      BY <1>17, <2>5
    <3>2. t <= len[share[n]]
      BY <1>4, <2>3, <2>5
    <3>3. KeyAt(rows, s) = <<share[n], t, j>>
      BY <2>2, <3>1
    <3>4. <<share[n], t, j>> \in P /\ slot[<<share[n], t, j>>] = <<n, t, j>>
      BY <1>12, <3>2
    <3>5. KeyAt(rows, s) \in P /\ slot[KeyAt(rows, s)] = s
      BY <2>1, <3>3, <3>4
    <3> QED
      BY <2>2, <2>3, <3>1, <3>5
  <2> QED
    BY <2>4, <2>5
<1>14. ASSUME NEW p \in P
       PROVE  /\ slot[p] \in S /\ KeyAt(rows, slot[p]) = p
              /\ slot[p] \in D \X Nat \X (1 .. K) /\ share[slot[p][1]] = p[1]
              /\ Fitting(docs, share, k) =>
                    /\ Effective(rows, slot[p]) \in Int
                    /\ k = 0 \/ (docs[p[1]].labels.dim = 2 /\ docs[p[1]].weights # Absent) =>
                           Effective(rows, slot[p]) = WantedOf(docs[p[1]], p[2], p[3])
  <2>1. PICK n \in D, t \in 1 .. L, j \in 1 .. K : slot[p] = <<n, t, j>>
    <3> DEFINE q == slot[p]
    <3>1. q \in S
      BY <1>11
    <3> HIDE DEF q
    <3>2. \E n \in D, t \in 1 .. L, j \in 1 .. K : q = <<n, t, j>>
      BY <3>1
    <3> QED
      BY <3>2 DEF q
  <2>2. share[n] = p[1] /\ t = p[2] /\ j = p[3] /\ t <= len[share[n]] /\ p = <<share[n], t, j>>
    BY <1>11, <2>1
  <2>3. len[share[n]] \in Nat
    BY <1>1, <1>3
  <2>4. ~ (t > len[share[n]])
    BY <1>4, <2>2, <2>3
  <2> DEFINE item == docs[share[n]]
             cell == rows[n][t]
  <2>5. cell.item = share[n] /\ cell.pos = t
    BY <1>17, <2>4
  <2>9. Fitting(docs, share, k) =>
          /\ cell.weights[j] \in Int
          /\ k = 0 \/ (item.labels.dim = 2 /\ item.weights # Absent) => WantedOf(item, t, j) = Counted(cell, j)
    <3>1. t \in 1 .. len[share[n]]
      BY <1>4, <2>2, <2>3
    <3> QED
      BY <1>19, <3>1
  <2>6. KeyAt(rows, slot[p]) = p
    BY <2>1, <2>2, <2>5 DEF KeyAt
  <2>7. Effective(rows, slot[p]) = Counted(cell, j)
    BY <2>1 DEF Effective, Valid, RawWeight, Counted
  <2>10. cell.weights[j] \in Int => Counted(cell, j) \in Int
    BY DEF Counted
  <2>8. slot[p] \in D \X Nat \X (1 .. K) /\ slot[p] \in S /\ share[slot[p][1]] = p[1]
    <3>1. t \in Nat
      BY <1>4
    <3> QED
      BY <2>1, <2>2, <3>1
  <2> QED
    BY <2>2, <2>6, <2>7, <2>8, <2>9, <2>10
<1>15. LaidOut(rows, P, slot)
  <2> HIDE DEF S
  <2> QED
    <3>1. IsFiniteSet(Slots(rows))
      BY <1>9, <1>10
    <3>2. \A p \in P : slot[p] \in Slots(rows) /\ KeyAt(rows, slot[p]) = p
      BY <1>9, <1>14
    <3>3. \A s \in Slots(rows) :
            /\ rows[s[1]][s[2]].item = 0 => ~Valid(rows, s)
            /\ rows[s[1]][s[2]].item # 0 => KeyAt(rows, s) \in P /\ slot[KeyAt(rows, s)] = s
      BY <1>9, <1>13
    <3> QED
      BY <3>1, <3>2, <3>3 DEF LaidOut
<1>16. /\ LaidOut(Padded(docs, share), P, slot)
       /\ \A p \in P :
              /\ slot[p] \in D \X Nat \X (1 .. K)
              /\ share[slot[p][1]] = p[1]
              /\ Fitting(docs, share, k) =>
                    /\ Effective(Padded(docs, share), slot[p]) \in Int
                    /\ k = 0 \/ (docs[p[1]].labels.dim = 2 /\ docs[p[1]].weights # Absent) =>
                           Effective(Padded(docs, share), slot[p]) = WantedOf(docs[p[1]], p[2], p[3])
  BY <1>14, <1>15 DEF rows
<1> HIDE DEF S
<1> QED
  BY <1>16 DEF P, Padding

LEMMA LeastOf ==
    ASSUME NEW S \in SUBSET Nat, S # {}
    PROVE  Min(S) \in S
<1>1. \E i \in S : \A j \in S : i =< j
  BY LeastNat
<1> QED
  BY <1>1, Zenon DEF Min

(* A share repeats nothing, and a batch that does not raise takes all of it. *)
LEMMA ShareDistinct ==
    ASSUME Setting, NEW r \in DPRanks, ~AllocationRaises(setup.strategy, Len(items), setup.dp)
    PROVE  /\ Distinct(MyShare(r)) /\ IsFiniteSet(DOMAIN MyShare(r)) /\ DOMAIN MyShare(r) # {}
           /\ DOMAIN MyShare(r) \in SUBSET Nat
           /\ \A n \in DOMAIN MyShare(r) : /\ MyShare(r)[n] \in DOMAIN items /\ MyShare(r)[n] \in Nat \ {0}
                                            /\ MyShare(r)[n] \in ToSet(MyShare(r))
<1> DEFINE share == MyShare(r)
<1>1. PICK m \in Nat : DOMAIN share = 1 .. m
  BY ShareInside DEF Setting
<1>2. IsFiniteSet(DOMAIN share) /\ DOMAIN share \in SUBSET Nat /\ DOMAIN share # {}
  <2>1. IsFiniteSet(1 .. m) /\ 1 .. m \in SUBSET Nat
    BY FS_Interval
  <2>2. 1 \in DOMAIN share
    BY ShareSome
  <2> QED
    BY <1>1, <2>1, <2>2
<1>3. \A n \in DOMAIN share : share[n] \in ToSet(share)
  BY DEF ToSet
<1>4. ToSet(share) \subseteq DOMAIN items /\ DOMAIN items \in SUBSET Nat /\ 0 \notin DOMAIN items
  BY ShareInside, SetupTyped DEF Setting
<1>5. Distinct(share)
  <2>1. CASE Replicated
    <3>1. share = [i \in 1 .. Len(items) |-> i]
      BY <2>1, ShareInside DEF Setting
    <3> HIDE DEF share
    <3> QED
      BY <3>1 DEF Distinct
  <2>2. CASE ~Replicated
    <3> DEFINE d == Len(items) \div setup.dp
               z == r * d
    <3>1. d \in Nat /\ share = [i \in 1 .. d |-> r * d + i] /\ r \in Nat
      BY <2>2, ShareInside, SetupTyped DEF Setting
    <3> HIDE DEF d
    <3>2. z \in Nat /\ share = [i \in 1 .. d |-> z + i]
      BY <3>1
    <3> HIDE DEF share, z
    <3>3. \A a, b \in 1 .. d : z + a = z + b => a = b
      BY <3>1, <3>2
    <3> QED
      BY <3>2, <3>3 DEF Distinct
  <2> QED
    BY <2>1, <2>2
<1> QED
  BY <1>2, <1>3, <1>4, <1>5

LEMMA WidthLies ==
    ASSUME Setting, NEW r \in DPRanks, ~AllocationRaises(setup.strategy, Len(items), setup.dp),
           ~CollateRaises(Read, MyShare(r)), NEW k, k = Width(Read, MyShare(r))
    PROVE  /\ k \in Nat /\ AllLie(Read, MyShare(r), k)
           /\ \A n \in DOMAIN MyShare(r) : ~Malformed(Read[MyShare(r)[n]], k, Weighted(Read, MyShare(r)))
           /\ k # 0 => \E n \in DOMAIN MyShare(r) : Read[MyShare(r)[n]].labels.dim = 2
<1> DEFINE share == MyShare(r)
           D == DOMAIN share
           w == Weighted(Read, share)
           soft == {n \in D : Read[share[n]].labels.dim = 2 /\ Read[share[n]].labels.rows # <<>>}
<1>1. D \in SUBSET Nat /\ \A n \in D : share[n] \in DOMAIN items /\ share[n] \in Nat \ {0} /\ share[n] \in ToSet(share)
  BY ShareDistinct
<1>2. \A n \in D : ~Malformed(Read[share[n]], k, w)
  BY <1>1 DEF CollateRaises
<1>3. k = IF soft = {} THEN 0 ELSE Len(Read[share[Min(soft)]].labels.rows[1])
  BY DEF Width
<1>4. \A n \in D : Shaped(Read[share[n]].labels) /\ Read[share[n]].ids \in Seq(Int) \ {<<>>}
  BY <1>1, ReadShaped, ReadShapes DEF Setting
<1> HIDE DEF w
<1>6. \A n \in D : Len(Read[share[n]].ids) \in Nat \ {0}
  <2>1. \A q \in Seq(Int) \ {<<>>} : Len(q) \in Nat \ {0}
    OBVIOUS
  <2> QED
    BY <1>4, <2>1
<1>7. soft # {} => k \in Nat \ {0}
  <2> SUFFICES ASSUME soft # {} PROVE k \in Nat \ {0}
    OBVIOUS
  <2> DEFINE n == Min(soft)
             rows == Read[share[n]].labels.rows
  <2>1. n \in soft
    <3>1. soft \in SUBSET Nat
      BY <1>1
    <3> HIDE DEF soft
    <3> QED
      BY <3>1, LeastOf
  <2>2. n \in D /\ k = Len(rows[1]) /\ rows # <<>>
    BY <1>3, <2>1
  <2> HIDE DEF n
  <2>3. rows \in Seq(Seq(Int)) /\ \A x \in DOMAIN rows : Len(rows[x]) >= 1
    BY <1>4, <2>2 DEF Shaped
  <2> HIDE DEF rows
  <2>4. 1 \in DOMAIN rows /\ rows[1] \in Seq(Int)
    BY <2>2, <2>3
  <2>5. Len(rows[1]) \in Nat /\ Len(rows[1]) >= 1
    BY <2>3, <2>4
  <2> QED
    BY <2>2, <2>5
<1>8. k \in Nat /\ (k # 0 => soft # {})
  <2> HIDE DEF soft
  <2>1. CASE soft = {}
    BY <1>3, <2>1
  <2>2. CASE soft # {}
    BY <1>7, <2>2
  <2> QED
    BY <2>1, <2>2
<1>9. ASSUME NEW n \in D PROVE Lies(Read[share[n]], k)
  <2> DEFINE item == Read[share[n]]
  <2>1. /\ item.ids \in Seq(Int) /\ Len(item.ids) \in Nat \ {0} /\ Shaped(item.labels)
        /\ ~Malformed(item, k, w)
    BY <1>2, <1>4, <1>6
  <2>2. k = 0 => item.labels.dim = 1
    <3> SUFFICES ASSUME k = 0, item.labels.dim # 1 PROVE FALSE
      OBVIOUS
    <3>1. item.labels.dim = 2
      BY <2>1 DEF Shaped
    <3>2. n \notin soft
      BY <1>7
    <3>3. item.labels.rows = <<>>
      BY <3>1, <3>2
    <3> HIDE DEF item
    <3>4. Len(item.labels.rows) = Len(item.ids)
      BY <2>1 DEF Malformed
    <3>5. Len(<<>>) = 0
      OBVIOUS
    <3> QED
      BY <2>1, <3>3, <3>4, <3>5
  <2> HIDE DEF item
  <2>3. \A t \in DOMAIN item.labels.rows : k > 0 /\ item.labels.dim = 2 => Len(item.labels.rows[t]) = k
    BY <2>1 DEF Malformed
  <2>4. Lies(item, k)
    BY <2>1, <2>2, <2>3 DEF Lies
  <2> QED
    BY <2>4 DEF item
<1>10. k # 0 => \E n \in D : Read[share[n]].labels.dim = 2
  BY <1>8
<1> QED
  BY <1>1, <1>2, <1>8, <1>9, <1>10 DEF AllLie, w

(* With labels of one kind every item of it fits. *)
LEMMA UniformFits ==
    ASSUME Setting, Uniform, NEW r \in DPRanks, ~AllocationRaises(setup.strategy, Len(items), setup.dp),
           ~CollateRaises(Read, MyShare(r)), NEW k, k = Width(Read, MyShare(r))
    PROVE  Fitting(Read, MyShare(r), k)
<1> DEFINE share == MyShare(r)
           D == DOMAIN share
           w == Weighted(Read, share)
<1>1. /\ k \in Nat /\ \A n \in D : Lies(Read[share[n]], k) /\ ~Malformed(Read[share[n]], k, w)
      /\ k # 0 => \E n \in D : Read[share[n]].labels.dim = 2
  BY WidthLies DEF AllLie
<1>2. \A n \in D : share[n] \in DOMAIN items /\ share[n] \in ToSet(share)
  BY ShareDistinct
<1>3. \A i \in DOMAIN items : Read[i].weights = Absent \/ Shaped(Read[i].weights)
  BY ReadShaped DEF Setting
<1>4. \A i \in DOMAIN items : /\ Square(Read[i]) /\ Read[i].labels.dim = items[1].labels.dim
                              /\ items[1].labels.dim = 2 => Read[i].weights # Absent
  <2>1. \A i \in DOMAIN items : Read[i].labels.dim = items[i].labels.dim /\ Read[i].weights = items[i].weights
    BY ReadShapes DEF Setting
  <2> QED
    BY <2>1 DEF Uniform
<1>5. k # 0 => items[1].labels.dim = 2
  BY <1>1, <1>2, <1>4
<1>6. \A n \in D : Read[share[n]].weights # Absent => w
  BY <1>2 DEF Weighted
<1>7. k = 0 \/ w
  BY <1>1, <1>2, <1>4, <1>5, <1>6
<1>8. ASSUME NEW n \in D PROVE Fits(Read[share[n]], k, w)
  <2> DEFINE item == Read[share[n]]
  <2>1. /\ Lies(item, k) /\ ~Malformed(item, k, w) /\ Square(item)
        /\ item.weights = Absent \/ (Shaped(item.weights) /\ w)
        /\ k # 0 => item.labels.dim = 2
    BY <1>1, <1>2, <1>3, <1>4, <1>5, <1>6
  <2> HIDE DEF item, w
  <2>2. Len(item.labels.rows) = Len(item.ids) /\ Len(item.ids) \in Nat \ {0} /\ Shaped(item.labels)
    BY <2>1 DEF Square, Lies
  <2>3. CASE item.weights = Absent
    BY <2>1, <2>2, <2>3 DEF Fits, item
  <2>4. CASE item.weights # Absent
    <3>1. w /\ Shaped(item.weights) /\ Len(item.weights.rows) = Len(item.ids)
      BY <2>1, <2>4 DEF Square
    <3>2. item.weights.rows # <<>> /\ DOMAIN item.weights.rows = 1 .. Len(item.ids)
      <4>1. item.weights.rows \in Seq(Seq(Int))
        BY <3>1 DEF Shaped
      <4> QED
        BY <2>2, <3>1, <4>1
    <3>3. item.weights.dim = 2 => k # 0
      BY <2>1, <2>4, <3>1, <3>2 DEF Malformed
    <3>4. k # 0 => Len(item.labels.rows[1]) = k
      <4>1. item.labels.rows \in Seq(Seq(Int))
        BY <2>2 DEF Shaped
      <4>2. 1 \in DOMAIN item.labels.rows
        BY <2>2, <4>1
      <4> QED
        BY <1>1, <2>1, <4>2 DEF Lies
    <3>5. item.weights.dim = 2 => \A t \in 1 .. Len(item.ids) : Len(item.weights.rows[t]) = k
      BY <2>1, <3>2, <3>3, <3>4 DEF Square
    <3> QED
      BY <2>1, <2>2, <3>1, <3>3, <3>5 DEF Fits, item
  <2> QED
    BY <2>3, <2>4
<1> QED
  BY <1>7, <1>8 DEF Fitting

(* The width is then that of every item. *)
LEMMA UniformWidth ==
    ASSUME Setting, Uniform, NEW r \in DPRanks, ~AllocationRaises(setup.strategy, Len(items), setup.dp),
           ~CollateRaises(Read, MyShare(r)), NEW k, k = Width(Read, MyShare(r)),
           NEW n \in DOMAIN MyShare(r)
    PROVE  /\ k = 0 \/ (Read[MyShare(r)[n]].labels.dim = 2 /\ Read[MyShare(r)[n]].weights # Absent)
           /\ Len(Read[MyShare(r)[n]].labels.rows[1]) = Max({k, 1})
<1> DEFINE share == MyShare(r)
           item == Read[share[n]]
           soft == {x \in DOMAIN share : Read[share[x]].labels.dim = 2 /\ Read[share[x]].labels.rows # <<>>}
<1>1. /\ k \in Nat /\ Fits(item, k, Weighted(Read, share))
      /\ \A x \in DOMAIN share : share[x] \in DOMAIN items
  BY WidthLies, UniformFits, ShareDistinct DEF Fitting
<1>2. \A i \in DOMAIN items : /\ Read[i].labels.dim = items[1].labels.dim
                              /\ items[1].labels.dim = 2 => Read[i].weights # Absent
  <2>1. \A i \in DOMAIN items : Read[i].labels.dim = items[i].labels.dim /\ Read[i].weights = items[i].weights
    BY ReadShapes DEF Setting
  <2> QED
    BY <2>1 DEF Uniform
<1>3. k = IF soft = {} THEN 0 ELSE Len(Read[share[Min(soft)]].labels.rows[1])
  BY DEF Width
<1>4. items[1].labels.dim # 2 => soft = {}
  BY <1>1, <1>2
<1>5. Shaped(item.labels) /\ Len(item.labels.rows) = Len(item.ids) /\ Len(item.ids) \in Nat \ {0}
      /\ (k = 0 => item.labels.dim = 1)
      /\ \A t \in DOMAIN item.labels.rows : k > 0 /\ item.labels.dim = 2 => Len(item.labels.rows[t]) = k
  BY <1>1 DEF Fits, Lies
<1>6. item.labels.dim = items[1].labels.dim /\ (items[1].labels.dim = 2 => item.weights # Absent)
  BY <1>1, <1>2
<1> HIDE DEF item, soft, share
<1>7. 1 \in DOMAIN item.labels.rows
  <2>1. item.labels.rows \in Seq(Seq(Int))
    BY <1>5 DEF Shaped
  <2> QED
    BY <1>5, <2>1
<1>8. item.labels.dim = 1 => Len(item.labels.rows[1]) = 1
  BY <1>5, <1>7 DEF Shaped
<1>9. Max({k, 1}) = IF k = 0 THEN 1 ELSE k
  BY <1>1, Widths
<1>10. item.labels.dim \in {1, 2}
  BY <1>5 DEF Shaped
<1>11. k = 0 \/ (item.labels.dim = 2 /\ item.weights # Absent)
  BY <1>3, <1>4, <1>6
<1>12. Len(item.labels.rows[1]) = Max({k, 1})
  <2>1. CASE k = 0
    BY <1>5, <1>8, <1>9, <2>1
  <2>2. CASE k # 0
    <3>1. k > 0 /\ item.labels.dim = 2
      BY <1>1, <1>11, <2>2
    <3>2. Len(item.labels.rows[1]) = k
      BY <1>5, <1>7, <3>1
    <3> QED
      BY <1>9, <2>2, <3>2
  <2> QED
    BY <2>1, <2>2
<1> QED
  BY <1>11, <1>12 DEF item, share

(* A rank's padded rows: row n is of its n-th item. *)
PaddedAs(r, K, slot) ==
    /\ LaidOut(Padded(Read, MyShare(r)), Places(Read, ToSet(MyShare(r)), K), slot)
    /\ \A p \in Places(Read, ToSet(MyShare(r)), K) :
          /\ slot[p] \in (DOMAIN MyShare(r)) \X Nat \X (1 .. K)
          /\ MyShare(r)[slot[p][1]] = p[1]
          /\ Uniform => /\ Effective(Padded(Read, MyShare(r)), slot[p]) \in Int
                        /\ Effective(Padded(Read, MyShare(r)), slot[p]) = Wanted(p[1], p[2], p[3])

LEMMA RankPadded ==
    ASSUME Setting, NEW r \in DPRanks, ~AllocationRaises(setup.strategy, Len(items), setup.dp),
           ~CollateRaises(Read, MyShare(r)), NEW K, K = Max({Width(Read, MyShare(r)), 1})
    PROVE  /\ K \in Nat \ {0}
           /\ \E slot : PaddedAs(r, K, slot)
<1> DEFINE share == MyShare(r)
           k == Width(Read, share)
           D == DOMAIN share
           P == Places(Read, ToSet(share), K)
           rows == Padded(Read, share)
<1>1. k \in Nat /\ AllLie(Read, share, k)
  BY WidthLies
<1>2. Distinct(share) /\ IsFiniteSet(D) /\ D # {}
  BY ShareDistinct
<1>3. K \in Nat \ {0}
  BY <1>1, Widths
<1>8. PICK slot : Padding(Read, share, k, K, slot)
  BY <1>1, <1>2, PaddedLaid
<1>4. /\ LaidOut(rows, P, slot)
      /\ \A p \in P :
           /\ slot[p] \in D \X Nat \X (1 .. K)
           /\ share[slot[p][1]] = p[1]
           /\ Fitting(Read, share, k) =>
                 /\ Effective(rows, slot[p]) \in Int
                 /\ k = 0 \/ (Read[p[1]].labels.dim = 2 /\ Read[p[1]].weights # Absent) =>
                        Effective(rows, slot[p]) = WantedOf(Read[p[1]], p[2], p[3])
  BY <1>8 DEF Padding
<1>5. ASSUME Uniform, NEW p \in P
      PROVE  Effective(rows, slot[p]) \in Int /\ Effective(rows, slot[p]) = Wanted(p[1], p[2], p[3])
  <2> DEFINE n == slot[p][1]
  <2>1. n \in D /\ share[n] = p[1]
    BY <1>4
  <2>2. k = 0 \/ (Read[share[n]].labels.dim = 2 /\ Read[share[n]].weights # Absent)
    BY <1>5, <2>1, UniformWidth
  <2>4. Fitting(Read, share, k)
    BY <1>5, UniformFits
  <2>3. WantedOf(Read[p[1]], p[2], p[3]) = Wanted(p[1], p[2], p[3])
    BY DEF WantedOf, WeightOf, Wanted
  <2> QED
    BY <1>4, <2>1, <2>2, <2>3, <2>4
<1>6. \A p \in P : slot[p] \in D \X Nat \X (1 .. K) /\ share[slot[p][1]] = p[1]
  BY <1>4
<1> HIDE DEF share, P, D, rows, k
<1>7. LaidOut(rows, P, slot) /\ \A p \in P : /\ slot[p] \in D \X Nat \X (1 .. K)
                                             /\ share[slot[p][1]] = p[1]
                                             /\ Uniform => /\ Effective(rows, slot[p]) \in Int
                                                           /\ Effective(rows, slot[p]) = Wanted(p[1], p[2], p[3])
  BY <1>4, <1>5, <1>6
<1> QED
  BY <1>3, <1>7 DEF share, P, D, rows, PaddedAs

(* The cells of a pack: documents of text and their labels, one after the other. *)
Textual(docs, bin) ==
    \A i \in bin : /\ i \in Nat \ {0} /\ Len(docs[i].ids) \in Nat \ {0} /\ docs[i].ids \in Seq(Int)
                   /\ Shaped(docs[i].labels) /\ docs[i].labels.dim = 1
                   /\ Len(docs[i].labels.rows) = Len(docs[i].ids)

DocCell(docs, i, t) ==
    [item |-> i, pos |-> t, weights |-> <<1>>,
     labels |-> IF t = 1 THEN <<Masked>> ELSE docs[i].labels.rows[t]]
Cells == [item : Nat \ {0}, pos : Nat, weights : {<<1>>}, labels : Seq(Int)]

LEMMA DocCells ==
    ASSUME NEW docs, NEW bin, Textual(docs, bin), NEW i \in bin
    PROVE  /\ PackedDoc(docs, i) \in Seq(Cells) /\ Len(PackedDoc(docs, i)) = Len(docs[i].ids)
           /\ \A t \in 1 .. Len(docs[i].ids) : /\ PackedDoc(docs, i)[t] = DocCell(docs, i, t)
                                               /\ DOMAIN DocCell(docs, i, t).labels = 1 .. 1
                                               /\ DocCell(docs, i, t).labels[1] \in Int
<1> DEFINE ids == docs[i].ids
           rows == docs[i].labels.rows
           cell(t) == DocCell(docs, i, t)
<1>1. /\ i \in Nat \ {0} /\ Len(ids) \in Nat \ {0} /\ ids \in Seq(Int) /\ Shaped(docs[i].labels)
      /\ docs[i].labels.dim = 1 /\ Len(rows) = Len(ids)
  BY DEF Textual
<1>2. rows \in Seq(Seq(Int)) /\ \A t \in DOMAIN rows : Len(rows[t]) = 1
  BY <1>1 DEF Shaped
<1>3. DOMAIN ids = 1 .. Len(ids)
  BY <1>1
<1>4. PackedDoc(docs, i) = [t \in 1 .. Len(ids) |-> cell(t)]
  BY <1>3 DEF PackedDoc, DocCell
<1> HIDE DEF ids, rows
<1>5. ASSUME NEW t \in 1 .. Len(ids)
      PROVE  /\ cell(t) \in Cells /\ DOMAIN cell(t).labels = 1 .. 1 /\ cell(t).labels[1] \in Int
  <2> DEFINE l == IF t = 1 THEN <<Masked>> ELSE rows[t]
  <2>1. t \in DOMAIN rows /\ t \in Nat
    BY <1>1, <1>2
  <2>2. Masked \in Int
    BY DEF Masked
  <2>3. <<Masked>> \in Seq(Int) /\ Len(<<Masked>>) = 1
    BY <2>2
  <2>4. l \in Seq(Int) /\ Len(l) = 1
    BY <1>2, <2>1, <2>3
  <2>5. cell(t) = [item |-> i, pos |-> t, weights |-> <<1>>, labels |-> l]
    BY DEF DocCell, rows
  <2> HIDE DEF l, cell
  <2>6a. DOMAIN l = 1 .. Len(l)
    BY <2>4
  <2>6b. DOMAIN l = 1 .. 1
    BY <2>4, <2>6a
  <2>6e. 1 \in 1 .. 1
    OBVIOUS
  <2>6c. 1 \in DOMAIN l
    BY <2>6b, <2>6e, Zenon
  <2>6f. l \in [1 .. Len(l) -> Int]
    BY <2>4
  <2>6d. l[1] \in Int
    BY <2>6a, <2>6c, <2>6f
  <2>6. DOMAIN l = 1 .. 1 /\ l[1] \in Int
    BY <2>6b, <2>6d
  <2>7. cell(t) \in Cells /\ cell(t).labels = l
    BY <1>1, <2>1, <2>4, <2>5 DEF Cells
  <2> QED
    BY <2>6, <2>7
<1> HIDE DEF cell
<1>6. PackedDoc(docs, i) \in Seq(Cells) /\ Len(PackedDoc(docs, i)) = Len(ids)
      /\ \A t \in 1 .. Len(ids) : PackedDoc(docs, i)[t] = cell(t)
  BY <1>1, <1>4, <1>5
<1> QED
  BY <1>5, <1>6 DEF ids, cell

(* What a packed row holds. *)
Packing(docs, bin, slot) ==
    LET row == PackedRow(docs, bin)
    IN  /\ LaidOut(<<row>>, Places(docs, bin, 1), slot)
        /\ \A s \in Slots(<<row>>) : Effective(<<row>>, s) = IF Valid(<<row>>, s) THEN 1 ELSE 0
        /\ \A p \in Places(docs, bin, 1) :
               /\ p[3] = 1
               /\ Valid(<<row>>, slot[p]) <=> p[2] # 1 /\ docs[p[1]].labels.rows[p[2]][1] # Masked

(* The n-th document of a pack begins after start[n] cells. *)
StrungDocs(docs, bin, start) ==
    LET row == PackedRow(docs, bin)  q == InOrder(bin)
    IN  /\ \A n \in DOMAIN q : \A t \in 1 .. Len(docs[q[n]].ids) :
               /\ start[n] + t \in 1 .. Len(row)
               /\ row[start[n] + t] = DocCell(docs, q[n], t)
        /\ \A x \in 1 .. Len(row) :
               \E n \in DOMAIN q : \E t \in 1 .. Len(docs[q[n]].ids) : x = start[n] + t

(* The places of the documents in a packed row. *)
LEMMA DocsStrung ==
    ASSUME NEW docs, NEW bin, Textual(docs, bin), IsFiniteSet(bin), bin # {}
    PROVE  LET row == PackedRow(docs, bin)  q == InOrder(bin)  D == DOMAIN InOrder(bin)
           IN  /\ row \in Seq(Cells) /\ Len(row) = Size(docs, bin)
               /\ \A n \in D : q[n] \in bin
               /\ \A i \in bin : \E n \in D : q[n] = i
               /\ Distinct(q)
               /\ \E start : StrungDocs(docs, bin, start)
<1> DEFINE q == InOrder(bin)
           N == Cardinality(bin)
           D == 1 .. N
           row == PackedRow(docs, bin)
           seqs == [n \in D |-> PackedDoc(docs, q[n])]
           len == [i \in bin |-> Len(docs[i].ids)]
<1>1. bin \in SUBSET Nat /\ \A i \in bin : Len(docs[i].ids) \in Nat
  BY DEF Textual
<1>2. /\ N \in Nat /\ q \in [D -> bin] /\ \A m, n \in D : q[m] = q[n] => m = n
      /\ \A x \in bin : \E n \in D : q[n] = x
  BY <1>1, InOrderSorted
<1>3. DOMAIN q = D
  BY <1>2
<1>4. N # 0
  BY FS_EmptySet
<1>5. row = FlattenSeq(seqs)
  BY <1>3 DEF PackedRow
<1>6. \A n \in D : q[n] \in bin
  BY <1>2
<1>7. \A n \in D : seqs[n] = PackedDoc(docs, q[n])
  OBVIOUS
<1>8. IsFiniteSet(D)
  BY <1>2, FS_Interval
<1> HIDE DEF seqs, q, row
<1>9. ASSUME NEW n \in D
      PROVE  /\ seqs[n] \in Seq(Cells) /\ Len(seqs[n]) = Len(docs[q[n]].ids)
             /\ \A t \in 1 .. Len(docs[q[n]].ids) : seqs[n][t] = DocCell(docs, q[n], t)
  <2> DEFINE i == q[n]
  <2>1. i \in bin /\ seqs[n] = PackedDoc(docs, i)
    BY <1>6, <1>7
  <2> HIDE DEF i
  <2> QED
    BY <2>1, DocCells DEF i
<1>10. seqs \in Seq(Seq(Cells)) /\ seqs # <<>> /\ DOMAIN seqs = D
  <2>1. seqs = [n \in D |-> seqs[n]]
    BY DEF seqs
  <2>2. \A n \in D : seqs[n] \in Seq(Cells)
    BY <1>9
  <2> HIDE DEF N
  <2>3. seqs \in [1 .. N -> Seq(Cells)]
    BY <2>1, <2>2
  <2>4. seqs \in Seq(Seq(Cells))
    BY <1>2, <2>3
  <2>5. Len(seqs) = N
    BY <1>2, <2>1, <2>4
  <2> QED
    BY <1>2, <1>4, <2>1, <2>4, <2>5
<1>11. /\ row \in Seq(Cells)
       /\ \E start : Strung(row, seqs, start)
       /\ Len(row) = Sum([n \in DOMAIN seqs |-> Len(seqs[n])], DOMAIN seqs)
  BY <1>5, <1>10, Flattened
<1>12. Len(row) = Size(docs, bin)
  <2> DEFINE f == [n \in D |-> Len(seqs[n])]
  <2>1. Size(docs, bin) = Sum(len, bin)
    <3>1. bin \in SUBSET bin
      OBVIOUS
    <3> QED
      BY <1>1, <3>1, Sizes
  <2>2. \A n \in D : f[n] = len[q[n]]
    BY <1>6, <1>9
  <2>3. \A i \in bin : len[i] \in Int
    BY <1>1
  <2>4. Len(row) = Sum(f, D)
    BY <1>10, <1>11
  <2> HIDE DEF f, len, D
  <2>5. Sum(f, D) = Sum(len, bin)
    BY <1>2, <1>6, <1>8, <2>2, <2>3, SumMoved
  <2> QED
    BY <2>1, <2>4, <2>5
<1>13. PICK start : Strung(row, seqs, start)
  BY <1>11
<1>14. \A n \in D : \A t \in 1 .. Len(docs[q[n]].ids) :
          start[n] + t \in 1 .. Len(row) /\ row[start[n] + t] = DocCell(docs, q[n], t)
  <2>1. \A n \in D : \A t \in 1 .. Len(seqs[n]) :
           start[n] + t \in 1 .. Len(row) /\ row[start[n] + t] = seqs[n][t]
    BY <1>10, <1>13, Zenon DEF Strung
  <2> HIDE DEF D
  <2> QED
    BY <1>9, <2>1
<1>15. \A x \in 1 .. Len(row) : \E n \in D : \E t \in 1 .. Len(docs[q[n]].ids) : x = start[n] + t
  <2>1. \A x \in 1 .. Len(row) : \E n \in D : \E t \in 1 .. Len(seqs[n]) : x = start[n] + t
    BY <1>10, <1>13, Zenon DEF Strung
  <2> HIDE DEF D
  <2> QED
    BY <1>9, <2>1
<1>16. Distinct(q)
  BY <1>2, <1>3 DEF Distinct
<1> HIDE DEF D, N
<1>17. StrungDocs(docs, bin, start)
  BY <1>3, <1>14, <1>15 DEF StrungDocs, row, q
<1> QED
  BY <1>2, <1>3, <1>6, <1>11, <1>12, <1>16, <1>17 DEF row, q

LEMMA PackedLaid ==
    ASSUME NEW docs, NEW bin, Textual(docs, bin), IsFiniteSet(bin), bin # {}
    PROVE  \E slot : Packing(docs, bin, slot)
<1> DEFINE row == PackedRow(docs, bin)
           q == InOrder(bin)
           D == DOMAIN q
           len == [i \in bin |-> Len(docs[i].ids)]
           L == Len(row)
           S == {1} \X (1 .. L) \X (1 .. 1)
           P == Places(docs, bin, 1)
<1>1. /\ \A n \in D : q[n] \in bin
      /\ \A i \in bin : \E n \in D : q[n] = i
      /\ Distinct(q)
  BY DocsStrung
<1>2. row \in Seq(Cells)
  BY DocsStrung
<1>3a. PICK start : StrungDocs(docs, bin, start)
  BY DocsStrung
<1>3. /\ \A n \in D : \A t \in 1 .. Len(docs[q[n]].ids) :
           start[n] + t \in 1 .. Len(row) /\ row[start[n] + t] = DocCell(docs, q[n], t)
      /\ \A x \in 1 .. Len(row) :
           \E n \in D : \E t \in 1 .. Len(docs[q[n]].ids) : x = start[n] + t
  BY <1>3a DEF StrungDocs
<1>4. \A i \in bin : i \in Nat \ {0} /\ Len(docs[i].ids) \in Nat \ {0}
  BY DEF Textual
<1>5. \A n \in D : len[q[n]] = Len(docs[q[n]].ids)
  BY <1>1
<1>6. /\ \A n \in D : \A t \in 1 .. len[q[n]] :
            start[n] + t \in 1 .. L /\ row[start[n] + t] = DocCell(docs, q[n], t)
      /\ \A x \in 1 .. L : \E n \in D : \E t \in 1 .. len[q[n]] : x = start[n] + t
  BY <1>3, <1>5
<1>7. \A i \in bin : len[i] \in Nat \ {0} /\ i \in Nat \ {0} /\ len[i] = Len(docs[i].ids)
  BY <1>4
<1>8. L \in Nat /\ DOMAIN row = 1 .. L
  BY <1>2
<1>9. \A p : p \in P <=> p \in bin \X Nat \X (1 .. 1) /\ p[2] \in 1 .. len[p[1]]
  BY <1>7 DEF Places
<1> HIDE DEF row, q, D, len, L, P
<1>10. ASSUME NEW i \in bin, NEW t \in 1 .. len[i]
       PROVE  LET c == DocCell(docs, i, t)
              IN  /\ c.item = i /\ c.pos = t /\ c.weights[1] = 1 /\ DOMAIN c.labels = 1 .. 1
                  /\ c.labels[1] # Masked <=> t # 1 /\ docs[i].labels.rows[t][1] # Masked
  <2>1. DOMAIN DocCell(docs, i, t).labels = 1 .. 1
    <3>1. t \in 1 .. Len(docs[i].ids)
      BY <1>7
    <3> QED
      BY <3>1, DocCells
  <2>2. DocCell(docs, i, t).item = i /\ DocCell(docs, i, t).pos = t /\ DocCell(docs, i, t).weights = <<1>>
    BY DEF DocCell
  <2>3. DocCell(docs, i, t).labels = IF t = 1 THEN <<Masked>> ELSE docs[i].labels.rows[t]
    BY DEF DocCell
  <2>4. DocCell(docs, i, t).labels[1] # Masked <=> t # 1 /\ docs[i].labels.rows[t][1] # Masked
    <3>1. CASE t = 1
      BY <2>3, <3>1
    <3>2. CASE t # 1
      BY <2>3, <3>2
    <3> QED
      BY <3>1, <3>2
  <2> QED
    BY <2>1, <2>2, <2>4
(* The cell at x, of the place it is for. *)
<1>11. ASSUME NEW x \in 1 .. L
       PROVE  \E n \in D : \E t \in 1 .. len[q[n]] :
                  /\ x = start[n] + t /\ q[n] \in bin /\ row[x] = DocCell(docs, q[n], t)
  BY <1>1, <1>6
<1>12. 1 \in 1 .. L
  <2>1. PICK i \in bin : TRUE
    OBVIOUS
  <2>2. PICK n \in D : q[n] = i
    BY <1>1
  <2>3. 1 \in 1 .. len[q[n]]
    BY <1>7, <2>1, <2>2
  <2>4. start[n] + 1 \in 1 .. L
    BY <1>6, <2>3
  <2> DEFINE z == start[n] + 1
  <2>5. z \in 1 .. L
    BY <2>4
  <2> HIDE DEF z
  <2> QED
    BY <1>8, <2>5
<1>13. \A s : s \in Slots(<<row>>) <=> s \in S
  <2> DEFINE rows == <<row>>
             M == {1}
             T == 1 .. L
             J == 1 .. 1
  <2>1. DOMAIN rows = M /\ rows[1] = row
    OBVIOUS
  <2>2. DOMAIN row[1].labels = J
    <3>1. PICK n \in D : \E t \in 1 .. len[q[n]] : q[n] \in bin /\ row[1] = DocCell(docs, q[n], t)
      BY <1>11, <1>12
    <3> QED
      BY <1>10, <3>1
  <2>3. \A b \in M : DOMAIN rows[b] = T /\ DOMAIN rows[b][1].labels = J
    BY <1>8, <2>1, <2>2
  <2> HIDE DEF rows, M, T, J
  <2>4. \A s : s \in Slots(rows) <=> s \in M \X T \X J
    BY <2>1, <2>3, EvenSlots
  <2> QED
    BY <2>4 DEF rows, M, T, J
<1>14. IsFiniteSet(S)
  <2>1. \A m : m \in Nat => IsFiniteSet(1 .. m)
    BY FS_Interval
  <2>2. IsFiniteSet(1 .. L)
    BY <1>8, <2>1
  <2>3. IsFiniteSet(1 .. 1)
    <3> DEFINE one == 1
    <3>1. one \in Nat
      OBVIOUS
    <3> HIDE DEF one
    <3>2. IsFiniteSet(1 .. one)
      BY <2>1, <3>1
    <3> QED
      BY <3>2 DEF one
  <2>4. IsFiniteSet({1})
    BY FS_Singleton
  <2> QED
    BY <2>2, <2>3, <2>4, FiniteTriples
<1>15. IsFiniteSet(Slots(<<row>>))
  <2>1. Slots(<<row>>) = S
    BY <1>13
  <2> QED
    BY <1>14, <2>1
<1> DEFINE name(i) == CHOOSE n \in D : q[n] = i
           slot == [p \in P |-> <<1, start[name(p[1])] + p[2], 1>>]
<1>16. \A i \in bin : name(i) \in D /\ q[name(i)] = i
  BY <1>1
<1>17. \A n \in D : name(q[n]) = n
  BY <1>1, <1>16 DEF Distinct, D
<1> HIDE DEF name, S
<1>18. ASSUME NEW p \in P
       PROVE  /\ slot[p] \in Slots(<<row>>) /\ KeyAt(<<row>>, slot[p]) = p /\ p[3] = 1
              /\ Valid(<<row>>, slot[p]) <=> p[2] # 1 /\ docs[p[1]].labels.rows[p[2]][1] # Masked
  <2> DEFINE i == p[1]
             t == p[2]
             n == name(i)
             x == start[n] + t
             c == DocCell(docs, i, t)
  <2>1. i \in bin /\ t \in Nat /\ t \in 1 .. len[i] /\ p = <<i, t, 1>> /\ p[3] = 1
    <3>1. p \in bin \X Nat \X (1 .. 1) /\ p[2] \in 1 .. len[p[1]]
      BY <1>9
    <3>2. p[3] = 1 /\ p = <<p[1], p[2], p[3]>> /\ p[1] \in bin /\ p[2] \in Nat
      BY <3>1
    <3> QED
      BY <3>1, <3>2
  <2>2. n \in D /\ q[n] = i
    BY <1>16, <2>1
  <2>3. slot[p] = <<1, x, 1>>
    OBVIOUS
  <2> HIDE DEF n, i, t
  <2>4. x \in 1 .. L /\ row[x] = c
    BY <1>6, <2>1, <2>2
  <2> HIDE DEF x, slot, c
  <2>5. slot[p] \in Slots(<<row>>)
    BY <1>13, <2>3, <2>4 DEF S
  <2>6. /\ c.item = i /\ c.pos = t
        /\ c.labels[1] # Masked <=> t # 1 /\ docs[i].labels.rows[t][1] # Masked
    BY <1>10, <2>1 DEF c
  <2>7. KeyAt(<<row>>, slot[p]) = <<row[x].item, row[x].pos, 1>>
    BY <2>3 DEF KeyAt
  <2>8. Valid(<<row>>, slot[p]) <=> row[x].labels[1] # Masked
    BY <2>3 DEF Valid
  <2> QED
    BY <2>1, <2>4, <2>5, <2>6, <2>7, <2>8 DEF i, t
<1>19. ASSUME NEW s \in Slots(<<row>>)
       PROVE  /\ <<row>>[s[1]][s[2]].item # 0 /\ KeyAt(<<row>>, s) \in P /\ slot[KeyAt(<<row>>, s)] = s
              /\ Effective(<<row>>, s) = IF Valid(<<row>>, s) THEN 1 ELSE 0
  <2> DEFINE x == s[2]
  <2>1. x \in 1 .. L /\ s = <<1, x, 1>>
    <3>1. s \in {1} \X (1 .. L) \X (1 .. 1)
      BY <1>13 DEF S
    <3>2. s = <<s[1], s[2], s[3]>> /\ s[1] = 1 /\ s[3] = 1 /\ s[2] \in 1 .. L
      BY <3>1
    <3> QED
      BY <3>2
  <2> HIDE DEF x
  <2>2. PICK n \in D : \E t \in 1 .. len[q[n]] :
           x = start[n] + t /\ q[n] \in bin /\ row[x] = DocCell(docs, q[n], t)
    BY <1>11, <2>1
  <2>2a. PICK t \in 1 .. len[q[n]] : x = start[n] + t /\ q[n] \in bin /\ row[x] = DocCell(docs, q[n], t)
    BY <2>2
  <2> DEFINE i == q[n]
             c == DocCell(docs, i, t)
             p == <<i, t, 1>>
  <2>3. c.item = i /\ c.pos = t /\ c.weights[1] = 1 /\ row[x] = c /\ i \in bin /\ i # 0
    <3>1. q[n] \in bin /\ t \in 1 .. len[q[n]]
      BY <2>2a
    <3> HIDE DEF i
    <3>2. i \in bin /\ t \in 1 .. len[i]
      BY <3>1 DEF i
    <3>3. c.item = i /\ c.pos = t /\ c.weights[1] = 1
      BY <1>10, <3>2
    <3>4. row[x] = c
      BY <2>2a DEF i, c
    <3> QED
      BY <1>7, <3>2, <3>3, <3>4
  <2> HIDE DEF c
  <2>4. KeyAt(<<row>>, s) = p
    <3>1. KeyAt(<<row>>, s) = <<row[x].item, row[x].pos, 1>>
      BY <2>1 DEF KeyAt
    <3> QED
      BY <2>3, <3>1
  <2>5. p \in P
    <3>1. t \in 1 .. len[i] /\ len[i] \in Nat /\ i \in bin
      BY <1>7, <2>2, <2>3
    <3>2. t \in Nat
      BY <3>1
    <3> HIDE DEF i
    <3>3. p \in bin \X Nat \X (1 .. 1) /\ p[2] \in 1 .. len[p[1]]
      BY <3>1, <3>2
    <3> HIDE DEF p
    <3> QED
      BY <1>9, <3>3
  <2>6. slot[p] = s
    <3>1. name(p[1]) = n /\ p[2] = t
      BY <1>17
    <3>2. slot[p] = <<1, start[name(p[1])] + p[2], 1>>
      BY <2>5
    <3> QED
      BY <2>1, <2>2a, <3>1, <3>2
  <2>7. <<row>>[s[1]][s[2]].item # 0
    <3>1. <<row>>[s[1]][s[2]] = row[x]
      BY <2>1
    <3> QED
      BY <2>3, <3>1
  <2>8. RawWeight(<<row>>, s) = 1
    <3>1. RawWeight(<<row>>, s) = row[x].weights[1]
      BY <2>1 DEF RawWeight
    <3> QED
      BY <2>3, <3>1
  <2>9. Effective(<<row>>, s) = IF Valid(<<row>>, s) THEN 1 ELSE 0
    BY <2>8 DEF Effective
  <2> QED
    BY <2>4, <2>5, <2>6, <2>7, <2>9
<1> HIDE DEF slot
<1>20. LaidOut(<<row>>, P, slot)
  BY <1>15, <1>18, <1>19 DEF LaidOut
<1>21. Packing(docs, bin, slot)
  BY <1>18, <1>19, <1>20 DEF Packing, row, P
<1> QED
  BY <1>21

(* The documents in a packed row, and nothing else. *)
LEMMA PackedItems ==
    ASSUME NEW docs, NEW bin, Textual(docs, bin), IsFiniteSet(bin), bin # {}
    PROVE  \A i : i \in ItemsOf(PackedRow(docs, bin)) <=> i \in bin
<1> DEFINE row == PackedRow(docs, bin)
           q == InOrder(bin)
           D == DOMAIN q
           L == Len(row)
<1>1. /\ \A n \in D : q[n] \in bin
      /\ \A i \in bin : \E n \in D : q[n] = i
  BY DocsStrung
<1>2. row \in Seq(Cells)
  BY DocsStrung
<1>3a. PICK start : StrungDocs(docs, bin, start)
  BY DocsStrung
<1>3. /\ \A n \in D : \A t \in 1 .. Len(docs[q[n]].ids) :
           start[n] + t \in 1 .. Len(row) /\ row[start[n] + t] = DocCell(docs, q[n], t)
      /\ \A x \in 1 .. Len(row) :
           \E n \in D : \E t \in 1 .. Len(docs[q[n]].ids) : x = start[n] + t
  BY <1>3a DEF StrungDocs
<1>4. \A i \in bin : i \in Nat \ {0} /\ Len(docs[i].ids) \in Nat \ {0}
  BY DEF Textual
<1>5. DOMAIN row = 1 .. L
  BY <1>2
<1>6. ItemsOf(row) = {row[t].item : t \in 1 .. L} \ {0}
  BY <1>5 DEF ItemsOf
<1>7. \A i, t : DocCell(docs, i, t).item = i
  BY DEF DocCell
<1> HIDE DEF row, q, D, L
<1>8. ASSUME NEW i \in bin PROVE i \in ItemsOf(row)
  <2>1. PICK n \in D : q[n] = i
    BY <1>1
  <2>2. 1 \in 1 .. Len(docs[q[n]].ids)
    BY <1>4, <2>1
  <2> DEFINE x == start[n] + 1
  <2>3. x \in 1 .. L /\ row[x] = DocCell(docs, q[n], 1)
    BY <1>3, <2>2 DEF L
  <2> HIDE DEF x
  <2>4. row[x].item = i
    BY <1>7, <2>1, <2>3
  <2>5. i # 0
    BY <1>4
  <2> QED
    BY <1>6, <2>3, <2>4, <2>5
<1>9. ASSUME NEW i \in ItemsOf(row) PROVE i \in bin
  <2>1. PICK x \in 1 .. L : row[x].item = i
    BY <1>6
  <2>2. PICK n \in D : \E t \in 1 .. Len(docs[q[n]].ids) : x = start[n] + t
    BY <1>3 DEF L
  <2>3. PICK t \in 1 .. Len(docs[q[n]].ids) : x = start[n] + t
    BY <2>2
  <2>4. row[x] = DocCell(docs, q[n], t)
    BY <1>3, <2>3
  <2> QED
    BY <1>1, <1>7, <2>1, <2>4
<1> QED
  BY <1>8, <1>9 DEF row

-----------------------------------------------------------------------------
(* A rank's sub-batches: the items in each, where they are in it. *)
Packed(r) == Bins(items, MyShare(r), PackLimit(items, MyShare(r), setup.maxPacked))
Docs(r) == IF Packs(r) THEN items ELSE Read
Cols(r) == IF Packs(r) THEN 1 ELSE Max({Width(Read, MyShare(r)), 1})
Part(r, b) == IF Packs(r) THEN Packed(r)[b] ELSE ToSet(MyShare(r))
RankLaid(r, b, slot) ==
    /\ LaidOut(SubBatches(r)[b], Places(Docs(r), Part(r, b), Cols(r)), slot)
    /\ Packs(r) => Packing(items, Part(r, b), slot)
    /\ ~Packs(r) =>
          \A p \in Places(Read, ToSet(MyShare(r)), Cols(r)) :
              /\ slot[p] \in (DOMAIN MyShare(r)) \X Nat \X (1 .. Cols(r))
              /\ MyShare(r)[slot[p][1]] = p[1]
              /\ Uniform => /\ Effective(SubBatches(r)[b], slot[p]) \in Int
                            /\ Effective(SubBatches(r)[b], slot[p]) = Wanted(p[1], p[2], p[3])
Dealt(r) ==
    LET B == DOMAIN SubBatches(r)
    IN  /\ \A b \in B : Part(r, b) \subseteq ToSet(MyShare(r)) /\ Part(r, b) # {}
        /\ \A i \in ToSet(MyShare(r)) : \E b \in B : i \in Part(r, b)
        /\ \A b, c \in B : b # c => Part(r, b) \cap Part(r, c) = {}
        /\ \A b \in B : \E slot : RankLaid(r, b, slot)

(* What is packed are texts with labels of rank 1. *)
LEMMA PackTextual ==
    ASSUME Setting, NEW r \in DPRanks, ~PrepareRaises(r), Packs(r)
    PROVE  Textual(items, ToSet(MyShare(r)))
<1> SUFFICES ASSUME NEW i \in ToSet(MyShare(r))
             PROVE  /\ i \in Nat \ {0} /\ Len(items[i].ids) \in Nat \ {0} /\ items[i].ids \in Seq(Int)
                    /\ Shaped(items[i].labels) /\ items[i].labels.dim = 1
                    /\ Len(items[i].labels.rows) = Len(items[i].ids)
  BY DEF Textual
<1>1. i \in DOMAIN items
  BY ShareInside DEF Setting, PrepareRaises
<1>2. /\ i \in Nat \ {0} /\ items[i] = TrainingItem(post.data[i])
      /\ post.data[i].ids \in Seq(Int) \ {<<>>}
  BY <1>1, PostedTensors DEF Setting
<1>3. items[i].ids = post.data[i].ids
  BY <1>2 DEF TrainingItem
<1>4. items[i].ids \in Seq(Int) /\ Len(items[i].ids) \in Nat \ {0}
  <2> DEFINE s == items[i].ids
  <2>1. s \in Seq(Int) \ {<<>>}
    BY <1>2, <1>3
  <2> HIDE DEF s
  <2>2. s \in Seq(Int) /\ Len(s) \in Nat \ {0}
    BY <2>1
  <2> QED
    BY <2>2 DEF s
<1>5. Shaped(items[i].labels)
  BY <1>1, ItemsShaped DEF Setting
<1>6. items[i].labels.dim = 1
  <2>1. items[i].labels.dim # 2
    BY DEF Packs, Packable
  <2> QED
    BY <1>5, <2>1 DEF Shaped
<1>7. Len(items[i].labels.rows) = Len(items[i].ids)
  BY DEF PrepareRaises
<1> QED
  BY <1>2, <1>4, <1>5, <1>6, <1>7

(* First fit over a share. *)
LEMMA PacksFilled ==
    ASSUME Setting, NEW r \in DPRanks, ~PrepareRaises(r), Packs(r)
    PROVE  /\ IsFiniteSet(ToSet(MyShare(r)))
           /\ PackLimit(items, MyShare(r), setup.maxPacked) \in Nat
           /\ Filled(items, PackLimit(items, MyShare(r), setup.maxPacked), Packed(r), ToSet(MyShare(r)))
           /\ SubBatches(r) = [b \in DOMAIN Packed(r) |-> <<PackedRow(items, Packed(r)[b])>>]
<1> DEFINE share == MyShare(r)
           limit == PackLimit(items, share, setup.maxPacked)
           T == ToSet(share)
<1>1. ~AllocationRaises(setup.strategy, Len(items), setup.dp)
  BY DEF PrepareRaises
<1>2. T # {} /\ IsFiniteSet(T)
  BY <1>1, ShareSome
<1>3. \A i \in T : i \in Nat /\ Len(items[i].ids) \in Nat
  BY PackTextual DEF Textual
<1>4. limit \in Nat
  <2>1. CASE setup.maxPacked > 0
    <3>1. limit = setup.maxPacked
      BY <2>1 DEF PackLimit
    <3>2. setup.maxPacked \in Nat
      BY DataPathAssumption DEF Setting, Parsed
    <3> QED
      BY <3>1, <3>2
  <2>2. CASE ~ (setup.maxPacked > 0)
    <3> DEFINE size == Size(items, T)
    <3>1. limit = Max({size, 1})
      BY <2>2 DEF PackLimit
    <3>2. size \in Nat
      <4>1. T \in SUBSET T
        OBVIOUS
      <4> HIDE DEF T
      <4> QED
        BY <1>2, <1>3, <4>1, Sizes
    <3> HIDE DEF size
    <3>3. Max({size, 1}) \in Nat
      BY <3>2, Widths
    <3> QED
      BY <3>1, <3>3
  <2> QED
    BY <2>1, <2>2
<1>5. Filled(items, limit, Bins(items, share, limit), T)
  <2>1. T \in SUBSET Nat
    BY <1>3
  <2> HIDE DEF limit, share
  <2> QED
    BY <1>2, <1>3, <1>4, <2>1, BinsFill DEF T
<1>6. SubBatches(r) = [b \in DOMAIN Packed(r) |-> <<PackedRow(items, Packed(r)[b])>>]
  BY DEF SubBatches, Packed
<1> QED
  BY <1>2, <1>4, <1>5, <1>6 DEF Packed

LEMMA RankParts ==
    ASSUME Setting, NEW r \in DPRanks, ~PrepareRaises(r)
    PROVE  Cols(r) \in Nat \ {0} /\ Dealt(r)
<1>1. ~AllocationRaises(setup.strategy, Len(items), setup.dp)
  BY DEF PrepareRaises
<1>2. CASE Packs(r)
  <2> DEFINE bins == Packed(r)
             B == DOMAIN bins
             T == ToSet(MyShare(r))
  <2>1. IsFiniteSet(T) /\ SubBatches(r) = [b \in B |-> <<PackedRow(items, bins[b])>>]
    BY <1>2, PacksFilled
  <2>2. PICK limit \in Nat : Filled(items, limit, bins, T)
    BY <1>2, PacksFilled
  <2>3. /\ bins \in Seq(SUBSET T) /\ UNION {bins[b] : b \in B} = T
        /\ \A b \in B : bins[b] # {}
        /\ \A b, c \in B : b # c => bins[b] \cap bins[c] = {}
    BY <2>2 DEF Filled
  <2>4. \A b \in B : Part(r, b) = bins[b] /\ SubBatches(r)[b] = <<PackedRow(items, bins[b])>>
    BY <1>2, <2>1 DEF Part
  <2>5. DOMAIN SubBatches(r) = B
    BY <2>1
  <2>6. Textual(items, T)
    BY <1>2, PackTextual
  <2>7. Docs(r) = items /\ Cols(r) = 1
    BY <1>2 DEF Docs, Cols
  <2> HIDE DEF bins, T
  <2>8. \A b \in B : bins[b] \in SUBSET T
    BY <2>3
  <2>9. ASSUME NEW b \in B PROVE \E slot : RankLaid(r, b, slot)
    <3> DEFINE bin == bins[b]
    <3>1. bin \subseteq T /\ bin # {}
      BY <2>3, <2>8
    <3> HIDE DEF bin
    <3>2. Textual(items, bin)
      BY <2>6, <3>1 DEF Textual
    <3>3. IsFiniteSet(bin)
      BY <2>1, <3>1, FS_Subset
    <3>4. PICK slot : Packing(items, bin, slot)
      BY <3>1, <3>2, <3>3, PackedLaid
    <3>5. LaidOut(<<PackedRow(items, bin)>>, Places(items, bin, 1), slot)
      BY <3>4 DEF Packing
    <3>6. Part(r, b) = bin /\ SubBatches(r)[b] = <<PackedRow(items, bin)>>
      BY <2>4 DEF bin
    <3>7. RankLaid(r, b, slot)
      BY <1>2, <2>7, <3>4, <3>5, <3>6 DEF RankLaid
    <3> QED
      BY <3>7
  <2>10. \A i \in T : \E b \in B : i \in bins[b]
    BY <2>3
  <2>11. Cols(r) \in Nat \ {0}
    BY <2>7
  <2> HIDE DEF B
  <2> QED
    BY <2>3, <2>4, <2>5, <2>8, <2>9, <2>10, <2>11 DEF Dealt, T
<1>3. CASE ~Packs(r)
  <2> DEFINE T == ToSet(MyShare(r))
             K == Max({Width(Read, MyShare(r)), 1})
  <2>1. ~CollateRaises(Read, MyShare(r))
    BY <1>3 DEF PrepareRaises
  <2>2. SubBatches(r) = <<Padded(Read, MyShare(r))>>
    BY <1>3 DEF SubBatches
  <2>3. DOMAIN SubBatches(r) = {1} /\ SubBatches(r)[1] = Padded(Read, MyShare(r))
    BY <2>2
  <2>4. Docs(r) = Read /\ Cols(r) = K /\ \A b : Part(r, b) = T
    BY <1>3 DEF Docs, Cols, Part
  <2>5. K \in Nat \ {0}
    BY <1>1, <2>1, RankPadded
  <2>6. PICK slot : PaddedAs(r, K, slot)
    BY <1>1, <2>1, RankPadded
  <2>7. RankLaid(r, 1, slot)
    <3> HIDE DEF T, K
    <3>1. LaidOut(SubBatches(r)[1], Places(Docs(r), Part(r, 1), Cols(r)), slot)
      BY <2>3, <2>4, <2>6 DEF PaddedAs, T
    <3>2. \A p \in Places(Read, ToSet(MyShare(r)), Cols(r)) :
              /\ slot[p] \in (DOMAIN MyShare(r)) \X Nat \X (1 .. Cols(r))
              /\ MyShare(r)[slot[p][1]] = p[1]
              /\ Uniform => /\ Effective(SubBatches(r)[1], slot[p]) \in Int
                            /\ Effective(SubBatches(r)[1], slot[p]) = Wanted(p[1], p[2], p[3])
      BY <2>3, <2>4, <2>6 DEF PaddedAs
    <3> QED
      BY <1>3, <3>1, <3>2 DEF RankLaid
  <2>8. T # {}
    BY <1>1, ShareSome
  <2> HIDE DEF T, K
  <2> QED
    BY <2>3, <2>4, <2>5, <2>7, <2>8 DEF Dealt, T
<1> QED
  BY <1>2, <1>3

(* A rank's sub-batches are there exactly once it has taken its share without an error. *)
Held == \A r \in DPRanks :
            batches[r] = IF stage[r] = "idle" \/ PrepareRaises(r) THEN <<>> ELSE SubBatches(r)

LEMMA HeldAlways == PassSpec => []Held
<1>1. PassInit => Held
  BY DEF PassInit, Held
<1>2. PassInv /\ Held /\ [PassNext]_passVars => Held'
  <2> SUFFICES ASSUME PassInv, Held, [PassNext]_passVars PROVE Held'
    OBVIOUS
  <2> USE DEF Held
  <2>1. CASE Reject \/ Parse
    <3>1. \A r \in DPRanks : stage[r] = "idle"
      BY <2>1 DEF Reject, Parse, PassInv, Parsed
    <3>2. UNCHANGED <<post, setup, stage, batches>>
      BY <2>1 DEF Reject, Refuse, Parse
    <3> QED
      BY <3>1, <3>2 DEF DPRanks
  <2>2. CASE Forward
    <3>1. /\ \A r \in DPRanks : stage[r] = "forward"
          /\ UNCHANGED <<post, setup, items, status, batches>>
          /\ stage' = [r \in DPRanks |-> IF LossFails(r) THEN "raised" ELSE "backward"]
      BY <2>2 DEF Forward
    <3>2. \A r \in DPRanks : stage'[r] # "idle" /\ stage[r] # "idle"
      BY <3>1
    <3> QED
      BY <3>1, <3>2, Settled
  <2>3. CASE Backward
    <3>1. /\ \A r \in DPRanks : stage[r] = "backward"
          /\ UNCHANGED <<post, setup, items, status, batches>>
          /\ stage' = [r \in DPRanks |-> IF pass[r] = Len(batches[r]) THEN "done" ELSE "forward"]
      BY <2>3 DEF Backward
    <3>2. \A r \in DPRanks : stage'[r] # "idle" /\ stage[r] # "idle"
      BY <3>1
    <3> QED
      BY <3>1, <3>2, Settled
  <2>4. ASSUME NEW r \in DPRanks, Prepare(r) PROVE Held'
    <3>1. stage[r] = "idle" /\ UNCHANGED <<post, setup, items, status>>
      BY <2>4 DEF Prepare
    <3>2. /\ stage' = [stage EXCEPT ![r] = IF PrepareRaises(r) THEN "raised" ELSE "forward"]
          /\ batches' = IF PrepareRaises(r) THEN batches ELSE [batches EXCEPT ![r] = SubBatches(r)]
      BY <2>4 DEF Prepare
    <3>3. \A q \in DPRanks : q # r => stage'[q] = stage[q] /\ batches'[q] = batches[q]
      BY <3>2 DEF PassInv, Taken
    <3>4. stage'[r] # "idle" /\ batches'[r] = IF PrepareRaises(r) THEN <<>> ELSE SubBatches(r)
      BY <3>1, <3>2 DEF PassInv, Taken
    <3>5. /\ DPRanks' = DPRanks
          /\ \A q : /\ SubBatches(q)' = SubBatches(q)
                    /\ PrepareRaises(q)' <=> PrepareRaises(q)
      BY <3>1, Settled
    <3> QED
      BY <3>3, <3>4, <3>5
  <2>5. CASE UNCHANGED passVars
    <3>1. UNCHANGED <<post, setup, items, status>> /\ UNCHANGED <<stage, batches>>
      BY <2>5 DEF passVars
    <3> QED
      BY <3>1, Settled
  <2> QED
    BY <2>1, <2>2, <2>3, <2>4, <2>5 DEF PassNext
<1> QED
  BY <1>1, <1>2, PassHolds, PTL DEF PassSpec

(* No two packs of a rank would fit in one. *)
LEMMA PacksFull == ASSUME PassInv, Held PROVE PacksAreFull
<1> SUFFICES ASSUME NEW r \in DPRanks, stage[r] # "idle", setup.packing, setup.maxPacked > 0,
                    Len(batches[r]) > 1, NEW b \in DOMAIN batches[r]
             PROVE  /\ PackSize(r, b) <= setup.maxPacked \/ Cardinality(ItemsOf(batches[r][b][1])) = 1
                    /\ \A c \in DOMAIN batches[r] \ {b} : PackSize(r, b) + PackSize(r, c) > setup.maxPacked
  BY DEF PacksAreFull
<1>1. Setting
  BY DEF Setting, PassInv, Parsed
<1>2. ~PrepareRaises(r) /\ batches[r] = SubBatches(r)
  <2>1. Len(<<>>) = 0
    OBVIOUS
  <2> DEFINE n == Len(batches[r])
  <2>2. n > 1 /\ (batches[r] = <<>> => n = 0)
    BY <2>1
  <2> HIDE DEF n
  <2>3. batches[r] # <<>>
    BY <2>2
  <2> QED
    BY <2>3 DEF Held
<1>3. Packs(r)
  <2> SUFFICES ASSUME ~Packs(r) PROVE FALSE
    OBVIOUS
  <2>1. SubBatches(r) = <<Padded(Read, MyShare(r))>>
    BY DEF SubBatches
  <2>2. Len(SubBatches(r)) = 1
    BY <2>1
  <2> DEFINE n == Len(batches[r])
  <2>3. n > 1 /\ n = 1
    BY <1>2, <2>2
  <2> HIDE DEF n
  <2> QED
    BY <2>3
<1> DEFINE T == ToSet(MyShare(r))
           bins == Packed(r)
           limit == setup.maxPacked
<1>4. /\ IsFiniteSet(T)
      /\ Filled(items, limit, bins, T)
      /\ SubBatches(r) = [c \in DOMAIN bins |-> <<PackedRow(items, bins[c])>>]
  <2>1. PackLimit(items, MyShare(r), setup.maxPacked) = limit
    BY DEF PackLimit
  <2> QED
    BY <1>1, <1>2, <1>3, <2>1, PacksFilled
<1>5. Textual(items, T)
  BY <1>1, <1>2, <1>3, PackTextual
<1> HIDE DEF T, bins
<1>6. /\ bins \in Seq(SUBSET T)
      /\ \A c \in DOMAIN bins : bins[c] # {} /\ (Size(items, bins[c]) <= limit \/ \E i \in T : bins[c] = {i})
      /\ \A c, d \in DOMAIN bins : c # d => Size(items, bins[c]) + Size(items, bins[d]) > limit
  BY <1>4 DEF Filled
<1>7. \A c \in DOMAIN bins : bins[c] \in SUBSET T
  BY <1>6
<1>8. DOMAIN batches[r] = DOMAIN bins /\ \A c \in DOMAIN bins : batches[r][c] = <<PackedRow(items, bins[c])>>
  BY <1>2, <1>4
<1>9. ASSUME NEW c \in DOMAIN bins
      PROVE  /\ PackSize(r, c) = Size(items, bins[c])
             /\ \A i : i \in ItemsOf(batches[r][c][1]) <=> i \in bins[c]
  <2> DEFINE bin == bins[c]
             row == PackedRow(items, bin)
  <2>1. bin \subseteq T /\ bin # {}
    BY <1>6, <1>7
  <2>2. batches[r][c] = <<row>> /\ <<row>>[1] = row
    BY <1>8
  <2> HIDE DEF bin
  <2>3. Textual(items, bin)
    BY <1>5, <2>1 DEF Textual
  <2>4. IsFiniteSet(bin)
    BY <1>4, <2>1, FS_Subset
  <2>5. Len(row) = Size(items, bin)
    BY <2>1, <2>3, <2>4, DocsStrung
  <2>6. \A i : i \in ItemsOf(row) <=> i \in bin
    BY <2>1, <2>3, <2>4, PackedItems
  <2> HIDE DEF row
  <2> QED
    BY <2>2, <2>5, <2>6 DEF bin, PackSize
<1>10. PackSize(r, b) <= limit \/ Cardinality(ItemsOf(batches[r][b][1])) = 1
  <2>1. CASE Size(items, bins[b]) <= limit
    BY <1>8, <1>9, <2>1
  <2>2. CASE \E i \in T : bins[b] = {i}
    <3>1. PICK i \in T : bins[b] = {i}
      BY <2>2
    <3> DEFINE S == ItemsOf(batches[r][b][1])
    <3>2. \A x : x \in S <=> x \in {i}
      BY <1>8, <1>9, <3>1
    <3> HIDE DEF S
    <3>3. S = {i}
      BY <3>2
    <3>4. Cardinality(S) = 1
      BY <3>3, FS_Singleton
    <3> QED
      BY <3>4 DEF S
  <2> QED
    BY <1>6, <1>8, <2>1, <2>2
<1>11. \A c \in DOMAIN batches[r] \ {b} : PackSize(r, b) + PackSize(r, c) > limit
  BY <1>6, <1>8, <1>9
<1> QED
  BY <1>10, <1>11

(* A rank trains the items of its share, each once. *)
LEMMA TrainedOnce ==
    ASSUME Setting, NEW r \in DPRanks, ~PrepareRaises(r), batches[r] = SubBatches(r), NEW i \in DOMAIN items
    PROVE  TimesTrained(r, i) = IF i \in ToSet(MyShare(r)) THEN 1 ELSE 0
<1> DEFINE K == Cols(r)
           T == ToSet(MyShare(r))
           B == DOMAIN batches[r]
           key == <<i, 1, 1>>
           X == {bs \in UNION {{<<b, s>> : s \in Slots(batches[r][b])} : b \in B} :
                    LET cell == batches[r][bs[1]][bs[2][1]][bs[2][2]]
                    IN  cell.item = i /\ cell.pos = 1 /\ bs[2][3] = 1}
<1>1. K \in Nat \ {0} /\ Dealt(r)
  BY RankParts
<1>2. /\ \A b \in B : Part(r, b) \subseteq T
      /\ \A x \in T : \E b \in B : x \in Part(r, b)
      /\ \A b, c \in B : b # c => Part(r, b) \cap Part(r, c) = {}
      /\ \A b \in B : \E slot : RankLaid(r, b, slot)
  BY <1>1 DEF Dealt
<1>3. i \in Nat \ {0} /\ Len(Docs(r)[i].ids) \in Nat /\ Len(Docs(r)[i].ids) >= 1
  <2> DEFINE ids == Docs(r)[i].ids
  <2>1. i \in Nat \ {0}
    BY PostedTensors DEF Setting
  <2>2. items[i].ids \in Seq(Int) \ {<<>>}
    <3>1. items[i] = TrainingItem(post.data[i]) /\ post.data[i].ids \in Seq(Int) \ {<<>>}
      BY PostedTensors DEF Setting
    <3> QED
      BY <3>1 DEF TrainingItem
  <2>3. Read[i].ids \in Seq(Int) \ {<<>>}
    BY ReadShapes DEF Setting
  <2>4. ids \in Seq(Int) \ {<<>>}
    BY <2>2, <2>3 DEF Docs
  <2> HIDE DEF ids
  <2>5. Len(ids) \in Nat /\ Len(ids) >= 1
    BY <2>4
  <2> QED
    BY <2>1, <2>5 DEF ids
<1>4. \A b \in B : key \in Places(Docs(r), Part(r, b), K) <=> i \in Part(r, b)
  <2>1. 1 \in 1 .. Len(Docs(r)[i].ids) /\ 1 \in 1 .. K /\ 1 \in Nat
    BY <1>1, <1>3
  <2> HIDE DEF K
  <2> QED
    BY <2>1 DEF Places
<1>5. \A bs : bs \in X <=> \E b \in B : \E s \in Slots(batches[r][b]) :
                              /\ bs = <<b, s>> /\ batches[r][b][s[1]][s[2]].item = i
                              /\ batches[r][b][s[1]][s[2]].pos = 1 /\ s[3] = 1
  <2>1. ASSUME NEW bs \in X
        PROVE  \E b \in B : \E s \in Slots(batches[r][b]) :
                   /\ bs = <<b, s>> /\ batches[r][b][s[1]][s[2]].item = i
                   /\ batches[r][b][s[1]][s[2]].pos = 1 /\ s[3] = 1
    <3>1. PICK b \in B : bs \in {<<b, s>> : s \in Slots(batches[r][b])}
      OBVIOUS
    <3>2. PICK s \in Slots(batches[r][b]) : bs = <<b, s>>
      BY <3>1
    <3>3. bs[1] = b /\ bs[2] = s
      BY <3>2
    <3>4. batches[r][b][s[1]][s[2]].item = i /\ batches[r][b][s[1]][s[2]].pos = 1 /\ s[3] = 1
      BY <3>3
    <3> QED
      BY <3>2, <3>4
  <2>2. ASSUME NEW b \in B, NEW s \in Slots(batches[r][b]), batches[r][b][s[1]][s[2]].item = i,
               batches[r][b][s[1]][s[2]].pos = 1, s[3] = 1
        PROVE  <<b, s>> \in X
    <3>1. <<b, s>> \in UNION {{<<c, z>> : z \in Slots(batches[r][c])} : c \in B}
      OBVIOUS
    <3> QED
      BY <2>2, <3>1
  <2> QED
    BY <2>1, <2>2
<1>6. TimesTrained(r, i) = Cardinality(X)
  BY DEF TimesTrained
<1> HIDE DEF X, K, T, B
<1>7. \A b \in B : \A slot : \A s \in Slots(batches[r][b]) :
         RankLaid(r, b, slot) /\ batches[r][b][s[1]][s[2]].item = i
            /\ batches[r][b][s[1]][s[2]].pos = 1 /\ s[3] = 1 =>
         i \in Part(r, b) /\ s = slot[key]
  <2> SUFFICES ASSUME NEW b \in B, NEW slot, NEW s \in Slots(batches[r][b]), RankLaid(r, b, slot),
                      batches[r][b][s[1]][s[2]].item = i, batches[r][b][s[1]][s[2]].pos = 1, s[3] = 1
               PROVE  i \in Part(r, b) /\ s = slot[key]
    OBVIOUS
  <2>1. LaidOut(batches[r][b], Places(Docs(r), Part(r, b), K), slot)
    BY DEF RankLaid, K
  <2>2. KeyAt(batches[r][b], s) = key
    BY DEF KeyAt
  <2>3. KeyAt(batches[r][b], s) \in Places(Docs(r), Part(r, b), K) /\ slot[KeyAt(batches[r][b], s)] = s
    BY <1>3, <2>1 DEF LaidOut
  <2> QED
    BY <1>4, <2>2, <2>3
<1>8. \A b \in B : \A slot : RankLaid(r, b, slot) /\ i \in Part(r, b) =>
         /\ slot[key] \in Slots(batches[r][b])
         /\ batches[r][b][slot[key][1]][slot[key][2]].item = i
         /\ batches[r][b][slot[key][1]][slot[key][2]].pos = 1 /\ slot[key][3] = 1
  <2> SUFFICES ASSUME NEW b \in B, NEW slot, RankLaid(r, b, slot), i \in Part(r, b)
               PROVE  /\ slot[key] \in Slots(batches[r][b])
                      /\ batches[r][b][slot[key][1]][slot[key][2]].item = i
                      /\ batches[r][b][slot[key][1]][slot[key][2]].pos = 1 /\ slot[key][3] = 1
    OBVIOUS
  <2>1. LaidOut(batches[r][b], Places(Docs(r), Part(r, b), K), slot)
    BY DEF RankLaid, K
  <2>2. key \in Places(Docs(r), Part(r, b), K)
    BY <1>4
  <2> HIDE DEF key
  <2>3. slot[key] \in Slots(batches[r][b]) /\ KeyAt(batches[r][b], slot[key]) = key
    BY <2>1, <2>2 DEF LaidOut
  <2> QED
    BY <2>3 DEF KeyAt, key
<1> HIDE DEF key
<1>9. CASE i \in T
  <2>1. PICK b \in B : i \in Part(r, b)
    BY <1>2, <1>9
  <2>2. PICK slot : RankLaid(r, b, slot)
    BY <1>2
  <2> DEFINE z == <<b, slot[key]>>
  <2>3. z \in X
    BY <1>5, <1>8, <2>1, <2>2
  <2>4. ASSUME NEW bs \in X PROVE bs = z
    <3>1. PICK c \in B : \E s \in Slots(batches[r][c]) :
                              /\ bs = <<c, s>> /\ batches[r][c][s[1]][s[2]].item = i
                              /\ batches[r][c][s[1]][s[2]].pos = 1 /\ s[3] = 1
      BY <1>5
    <3>2. PICK s \in Slots(batches[r][c]) :
                              /\ bs = <<c, s>> /\ batches[r][c][s[1]][s[2]].item = i
                              /\ batches[r][c][s[1]][s[2]].pos = 1 /\ s[3] = 1
      BY <3>1
    <3>3. i \in Part(r, c)
      <4>1. PICK other : RankLaid(r, c, other)
        BY <1>2
      <4> QED
        BY <1>7, <3>2, <4>1
    <3>4. c = b
      BY <1>2, <2>1, <3>3
    <3>5. s = slot[key]
      BY <1>7, <2>2, <3>2, <3>4
    <3> QED
      BY <3>2, <3>4, <3>5
  <2> HIDE DEF z
  <2>5. X = {z}
    BY <2>3, <2>4
  <2>6. Cardinality(X) = 1
    BY <2>5, FS_Singleton
  <2> QED
    BY <1>6, <1>9, <2>6 DEF T
<1>10. CASE i \notin T
  <2>1. ASSUME NEW bs \in X PROVE FALSE
    <3>1. PICK c \in B : \E s \in Slots(batches[r][c]) :
                              /\ bs = <<c, s>> /\ batches[r][c][s[1]][s[2]].item = i
                              /\ batches[r][c][s[1]][s[2]].pos = 1 /\ s[3] = 1
      BY <1>5
    <3>2. PICK other : RankLaid(r, c, other)
      BY <1>2
    <3>3. i \in Part(r, c)
      BY <1>7, <3>1, <3>2
    <3> QED
      BY <1>2, <1>10, <3>3
  <2>2. X = {}
    BY <2>1
  <2>3. Cardinality(X) = 0
    BY <2>2, FS_EmptySet
  <2> QED
    BY <1>6, <1>10, <2>3 DEF T
<1> QED
  BY <1>9, <1>10

(* Parts of equal size: each place of the whole is in one of them. *)
LEMMA PartOf ==
    ASSUME NEW d \in Nat \ {0}, NEW m \in Nat, NEW i \in 1 .. d * m
    PROVE  \E r \in 0 .. d - 1 : /\ i > r * m /\ i <= r * m + m
                                 /\ \A q \in 0 .. d - 1 : i > q * m /\ i <= q * m + m => q = r
<1> DEFINE below == {q \in Nat : i <= q * m + m}
<1>1. d - 1 \in below
  <2>1. (d - 1) * m + m = d * m
    OBVIOUS
  <2> QED
    BY <2>1
<1>2. PICK r \in below : \A q \in below : r <= q
  <2>1. below \in SUBSET Nat /\ below # {}
    BY <1>1
  <2> HIDE DEF below
  <2> QED
    BY <2>1, LeastNat
<1>3. r \in 0 .. d - 1 /\ i <= r * m + m
  BY <1>1, <1>2
<1>4. i > r * m
  <2>1. CASE r = 0
    BY <2>1
  <2>2. CASE r # 0
    <3> DEFINE p == r - 1
    <3>1. p \in Nat /\ p < r
      BY <1>2, <2>2
    <3>2. p \notin below
      BY <1>2, <3>1
    <3>3. ~ (i <= p * m + m)
      BY <3>1, <3>2
    <3>4. p * m + m = r * m
      BY <1>2
    <3> HIDE DEF p
    <3>5. r * m \in Nat
      BY <1>2
    <3> QED
      BY <3>3, <3>4, <3>5
  <2> QED
    BY <2>1, <2>2
<1>5. ASSUME NEW q \in 0 .. d - 1, i > q * m, i <= q * m + m PROVE q = r
  <2>1. q >= r
    BY <1>2, <1>5
  <2>2. CASE q > r
    <3>1. q \in Nat /\ r \in Nat /\ r + 1 <= q
      BY <1>2, <2>2
    <3>2. (r + 1) * m <= q * m
      BY <3>1
    <3>3. (r + 1) * m = r * m + m
      BY <3>1
    <3>4. r * m + m <= q * m
      BY <3>2, <3>3
    <3>5. q * m \in Nat /\ r * m \in Nat
      BY <3>1
    <3> QED
      BY <1>3, <1>5, <3>4, <3>5
  <2> QED
    BY <1>2, <2>1, <2>2
<1> QED
  BY <1>3, <1>4, <1>5

(* Whose an item is: of all ranks of a replicated batch, of one of a split one. *)
LEMMA ShareOwners ==
    ASSUME Setting, ~AllocationRaises(setup.strategy, Len(items), setup.dp), NEW i \in DOMAIN items
    PROVE  /\ Replicated => \A r \in DPRanks : i \in ToSet(MyShare(r))
           /\ ~Replicated => \E r \in DPRanks : /\ i \in ToSet(MyShare(r))
                                                /\ \A q \in DPRanks : i \in ToSet(MyShare(q)) => q = r
<1>1. /\ setup.dp \in Nat \ {0} /\ Len(items) \in Nat /\ i \in 1 .. Len(items)
      /\ DPRanks = 0 .. setup.dp - 1 /\ 0 \in DPRanks
  BY SetupTyped DEF Setting, DPRanks
<1>2. ASSUME Replicated, NEW r \in DPRanks PROVE i \in ToSet(MyShare(r))
  <2>1. MyShare(r) = [j \in 1 .. Len(items) |-> j]
    BY <1>2, ShareInside DEF Setting
  <2> QED
    BY <1>1, <2>1 DEF ToSet
<1>3. ASSUME ~Replicated
      PROVE  \E r \in DPRanks : /\ i \in ToSet(MyShare(r))
                                /\ \A q \in DPRanks : i \in ToSet(MyShare(q)) => q = r
  <2> DEFINE m == Len(items) \div setup.dp
             d == setup.dp
  <2>1. m \in Nat /\ Len(items) = d * m
    BY <1>1, <1>3, ShareInside DEF Setting
  <2>2. \A r \in DPRanks : MyShare(r) = [j \in 1 .. m |-> r * m + j]
    BY <1>3, ShareInside DEF Setting
  <2> HIDE DEF m
  <2>3. ASSUME NEW r \in DPRanks PROVE i \in ToSet(MyShare(r)) <=> i > r * m /\ i <= r * m + m
    <3> DEFINE z == r * m
    <3>1. z \in Nat /\ MyShare(r) = [j \in 1 .. m |-> z + j]
      BY <1>1, <2>1, <2>2
    <3> HIDE DEF z
    <3>2. ToSet(MyShare(r)) = {z + j : j \in 1 .. m}
      BY <3>1 DEF ToSet
    <3>3. ASSUME i > z, i <= z + m PROVE i \in ToSet(MyShare(r))
      <4>1. i - z \in 1 .. m /\ i = z + (i - z)
        BY <1>1, <2>1, <3>1, <3>3
      <4> QED
        BY <3>2, <4>1
    <3>4. ASSUME i \in ToSet(MyShare(r)) PROVE i > z /\ i <= z + m
      <4>1. PICK j \in 1 .. m : i = z + j
        BY <3>2, <3>4
      <4> QED
        BY <2>1, <3>1, <4>1
    <3> QED
      BY <3>3, <3>4 DEF z
  <2>4. i \in 1 .. d * m
    BY <1>1, <2>1
  <2> HIDE DEF d
  <2>5. PICK r \in 0 .. d - 1 : /\ i > r * m /\ i <= r * m + m
                                /\ \A q \in 0 .. d - 1 : i > q * m /\ i <= q * m + m => q = r
    <3>1. d \in Nat \ {0}
      BY <1>1 DEF d
    <3> QED
      BY <2>1, <2>4, <3>1, PartOf
  <2>6. DPRanks = 0 .. d - 1
    BY <1>1 DEF d
  <2> QED
    BY <2>3, <2>5, <2>6
<1> QED
  BY <1>2, <1>3

LEMMA AllTrained == ASSUME PassInv, Held PROVE EachItemTrained
<1> SUFFICES ASSUME \A r \in DPRanks : AtWork(r), NEW i \in DOMAIN items
             PROVE  LET trained == {r \in DPRanks : TimesTrained(r, i) > 0}
                    IN  /\ trained = DPRanks \/ (~Replicated /\ Cardinality(trained) = 1)
                        /\ \A r \in trained : TimesTrained(r, i) = 1
  BY DEF EachItemTrained, AtWork
<1> DEFINE trained == {r \in DPRanks : TimesTrained(r, i) > 0}
<1>1. 0 \in DPRanks
  BY SetupTyped DEF PassInv
<1>2. Setting
  BY <1>1 DEF Setting, PassInv, Parsed, AtWork
<1>3. \A r \in DPRanks : ~PrepareRaises(r) /\ batches[r] = SubBatches(r)
  BY DEF PassInv, Taken
<1>4. \A r \in DPRanks : TimesTrained(r, i) = IF i \in ToSet(MyShare(r)) THEN 1 ELSE 0
  BY <1>2, <1>3, TrainedOnce
<1>5. ~AllocationRaises(setup.strategy, Len(items), setup.dp)
  BY <1>1, <1>3 DEF PrepareRaises
<1>6. \A r : r \in trained <=> r \in DPRanks /\ i \in ToSet(MyShare(r))
  BY <1>4
<1>7. \A r \in trained : TimesTrained(r, i) = 1
  BY <1>4, <1>6
<1> HIDE DEF trained
<1>8. CASE Replicated
  <2>1. \A r \in DPRanks : i \in ToSet(MyShare(r))
    BY <1>2, <1>5, <1>8, ShareOwners
  <2>2. trained = DPRanks
    BY <1>6, <2>1
  <2> QED
    BY <1>7, <2>2 DEF trained
<1>9. CASE ~Replicated
  <2>1. PICK r \in DPRanks : /\ i \in ToSet(MyShare(r))
                             /\ \A q \in DPRanks : i \in ToSet(MyShare(q)) => q = r
    BY <1>2, <1>5, <1>9, ShareOwners
  <2>2. trained = {r}
    BY <1>6, <2>1
  <2>3. Cardinality(trained) = 1
    BY <2>2, FS_Singleton
  <2> QED
    BY <1>7, <1>9, <2>3 DEF trained
<1> QED
  BY <1>8, <1>9

(* From the wire to the passes: TrainingItem's expansion of sparse weights, the ranks'
   shares, pack_sequences and the padded rows lose, double and misplace nothing. *)
THEOREM ItemsArriveWhole == PassSpec => []ItemsWhole
<1>1. PassInv /\ Held => ItemsWhole
  <2> SUFFICES ASSUME PassInv, Held PROVE ItemsWhole
    OBVIOUS
  <2>1. SparseIsWhole
    BY SparsesWhole DEF PassInv
  <2> QED
    BY <2>1, AllTrained, PacksFull DEF ItemsWhole
<1> QED
  BY <1>1, PassHolds, HeldAlways, PTL

-----------------------------------------------------------------------------
(* Fractions. *)
Fracs == [n : Int, d : Nat \ {0}]
Frac(a, b) == [n |-> a, d |-> b]

LEMMA PositiveProduct ==
    ASSUME NEW a \in Nat \ {0}, NEW b \in Nat \ {0}
    PROVE  a * b \in Nat \ {0}
<1>1. a * b \in Nat /\ (a - 1) * b >= 0
  OBVIOUS
<1>2. a * b = (a - 1) * b + b
  OBVIOUS
<1> QED
  BY <1>1, <1>2

LEMMA PlusTyped == ASSUME NEW x \in Fracs, NEW y \in Fracs PROVE Plus(x, y) \in Fracs
<1>1. x.n \in Int /\ y.n \in Int /\ x.d \in Nat \ {0} /\ y.d \in Nat \ {0}
  BY DEF Fracs
<1>2. x.d * y.d \in Nat \ {0}
  BY <1>1, PositiveProduct
<1>3. x.n * y.d + y.n * x.d \in Int
  BY <1>1
<1> QED
  BY <1>2, <1>3 DEF Plus, Fracs

LEMMA TimesTyped == ASSUME NEW x \in Fracs, NEW y \in Fracs PROVE Times(x, y) \in Fracs
<1>1. x.n \in Int /\ y.n \in Int /\ x.d \in Nat \ {0} /\ y.d \in Nat \ {0}
  BY DEF Fracs
<1>2. x.d * y.d \in Nat \ {0}
  BY <1>1, PositiveProduct
<1>3. x.n * y.n \in Int
  BY <1>1
<1> QED
  BY <1>2, <1>3 DEF Times, Fracs

(* The sum of fractions that are a / q and b / q. *)
LEMMA PlusSame ==
    ASSUME NEW x \in Fracs, NEW y \in Fracs, NEW a \in Int, NEW b \in Int, NEW q \in Int,
           Same(x, Frac(a, q)), Same(y, Frac(b, q))
    PROVE  Same(Plus(x, y), Frac(a + b, q))
<1> DEFINE m == x.n
           n == y.n
           d == x.d
           e == y.d
<1>1. m \in Int /\ n \in Int /\ d \in Int /\ e \in Int
  BY DEF Fracs
<1>2. m * q = a * d /\ n * q = b * e
  BY DEF Same, Frac
<1>3. Plus(x, y).n = m * e + n * d /\ Plus(x, y).d = d * e
  BY DEF Plus
<1> HIDE DEF m, n, d, e
<1>4. (m * e + n * d) * q = (m * q) * e + (n * q) * d
  BY <1>1
<1>5. (a + b) * (d * e) = (a * d) * e + (b * e) * d
  BY <1>1
<1>6. (m * e + n * d) * q = (a + b) * (d * e)
  BY <1>2, <1>4, <1>5
<1> QED
  BY <1>3, <1>6 DEF Same, Frac

(* What a fold of fractions unfolds to. *)
PlusFold(e, f, S) == FoldFunctionOnSet(Plus, e, f, S)

LEMMA PlusUnfolds ==
    ASSUME NEW D, IsFiniteSet(D), NEW f, \A x \in D : f[x] \in Fracs, NEW e \in Fracs
    PROVE  /\ \A S \in SUBSET D : PlusFold(e, f, S) \in Fracs
           /\ \A S \in SUBSET D : S # {} => /\ Chosen(S) \in S
                                            /\ PlusFold(e, f, S) = Plus(f[Chosen(S)], PlusFold(e, f, S \ {Chosen(S)}))
           /\ PlusFold(e, f, {}) = e
<1> DEFINE Steps(g, S) == g = [s \in SUBSET S |->
                                 IF s = {} THEN e ELSE Plus(f[Chosen(s)], g[s \ {Chosen(s)}])]
           Fold(S) == CHOOSE g : Steps(g, S)
<1>1. \A S : PlusFold(e, f, S) = Fold(S)[S]
  BY DEF PlusFold, FoldFunctionOnSet, MapThenFoldSet, Chosen
<1>2. \A S : S # {} => Chosen(S) \in S
  BY DEF Chosen
<1> HIDE DEF Fold
<1>3. ASSUME NEW S \in SUBSET D
      PROVE  /\ \A s \in SUBSET S : Fold(S)[s] \in Fracs
             /\ \A s \in SUBSET S : Fold(S)[s] = IF s = {} THEN e
                                                 ELSE Plus(f[Chosen(s)], Fold(S)[s \ {Chosen(s)}])
  <2> DEFINE pick == [s \in SUBSET S |-> Chosen(s)]
             step == [p \in S \X Fracs |-> Plus(f[p[1]], p[2])]
  <2>1. \A s \in SUBSET S : s # {} => pick[s] \in s /\ pick[s] = Chosen(s)
    BY <1>2
  <2>2. \A x \in S, a \in Fracs : step[<<x, a>>] = Plus(f[x], a) /\ Plus(f[x], a) \in Fracs
    BY PlusTyped
  <2>3. IsFiniteSet(S)
    BY FS_Subset
  <2> HIDE DEF pick, step
  <2>4. PICK g : Folds(g, S, pick, e, step)
    BY <2>1, <2>3, FoldExists
  <2>5. g[{}] = e /\ \A s \in SUBSET S : s # {} => g[s] = step[<<pick[s], g[s \ {pick[s]}]>>]
    BY <2>4 DEF Folds
  <2>6. ASSUME NEW s \in SUBSET S, s # {} /\ g[s \ {pick[s]}] \in Fracs PROVE g[s] \in Fracs
    <3>1. pick[s] \in S
      BY <2>1, <2>6
    <3>2. step[<<pick[s], g[s \ {pick[s]}]>>] \in Fracs
      BY <2>2, <2>6, <3>1
    <3> QED
      BY <2>5, <2>6, <3>2
  <2>7. g[{}] \in Fracs
    BY <2>5
  <2>8. \A s \in SUBSET S : g[s] \in Fracs
    BY <2>1, <2>3, <2>6, <2>7, SubsetInduction
  <2>9. \A s \in SUBSET S : s # {} => step[<<pick[s], g[s \ {pick[s]}]>>] = Plus(f[Chosen(s)], g[s \ {Chosen(s)}])
    BY <2>1, <2>2, <2>8
  <2>10. Steps(g, S)
    BY <2>4, <2>9 DEF Folds
  <2>11. Steps(Fold(S), S)
    BY <2>10 DEF Fold
  <2> DEFINE h == Fold(S)
  <2>12. h[{}] = e /\ \A s \in SUBSET S : s # {} => h[s] = Plus(f[Chosen(s)], h[s \ {Chosen(s)}])
    BY <2>11
  <2>13. \A s \in SUBSET S : s # {} /\ h[s \ {pick[s]}] \in Fracs => h[s] \in Fracs
    <3> SUFFICES ASSUME NEW s \in SUBSET S, s # {}, h[s \ {pick[s]}] \in Fracs PROVE h[s] \in Fracs
      OBVIOUS
    <3>1. Chosen(s) \in S /\ pick[s] = Chosen(s)
      BY <2>1
    <3>2. f[Chosen(s)] \in Fracs
      BY <3>1
    <3>3. h[s] = Plus(f[Chosen(s)], h[s \ {pick[s]}])
      BY <2>12, <3>1
    <3> HIDE DEF h, pick
    <3> QED
      BY <3>2, <3>3, PlusTyped
  <2>14. h[{}] \in Fracs
    BY <2>12
  <2> HIDE DEF h
  <2>15. \A s \in SUBSET S : h[s] \in Fracs
    BY <2>1, <2>3, <2>13, <2>14, SubsetInduction
  <2> QED
    BY <2>12, <2>15 DEF h
<1>4. PlusFold(e, f, {}) = e
  BY <1>1, <1>3
<1> DEFINE T == {s \in SUBSET D : \A S \in SUBSET D : s \subseteq S => Fold(S)[s] = PlusFold(e, f, s)}
<1>5. ASSUME NEW s \in SUBSET D, s # {}, s \ {Chosen(s)} \in T PROVE s \in T
  <2> SUFFICES ASSUME NEW S \in SUBSET D, s \subseteq S PROVE Fold(S)[s] = Fold(s)[s]
    BY <1>1
  <2> DEFINE c == Chosen(s)
  <2>1. c \in s
    BY <1>2, <1>5
  <2> HIDE DEF c
  <2>2. Fold(S)[s \ {c}] = PlusFold(e, f, s \ {c}) /\ Fold(s)[s \ {c}] = PlusFold(e, f, s \ {c})
    BY <1>5 DEF c
  <2>3. Fold(S)[s] = Plus(f[c], Fold(S)[s \ {c}]) /\ Fold(s)[s] = Plus(f[c], Fold(s)[s \ {c}])
    BY <1>3, <1>5 DEF c
  <2> QED
    BY <2>2, <2>3
<1>6. {} \in T
  BY <1>3, <1>4
<1>7. SUBSET D \subseteq T
  <2> DEFINE pick == [s \in SUBSET D |-> Chosen(s)]
             g == [s \in SUBSET D |-> s]
  <2>1. \A s \in SUBSET D : s # {} => pick[s] \in s /\ pick[s] = Chosen(s)
    BY <1>2
  <2>2. \A s \in SUBSET D : s # {} /\ g[s \ {pick[s]}] \in T => g[s] \in T
    BY <1>5, <2>1
  <2>3. g[{}] \in T
    BY <1>6
  <2> HIDE DEF T, pick
  <2>4. \A s \in SUBSET D : g[s] \in T
    <3> HIDE DEF g
    <3> QED
      BY <2>1, <2>2, <2>3, SubsetInduction
  <2> QED
    BY <2>4
<1>8. ASSUME NEW S \in SUBSET D, S # {}
      PROVE  /\ Chosen(S) \in S
             /\ PlusFold(e, f, S) = Plus(f[Chosen(S)], PlusFold(e, f, S \ {Chosen(S)}))
  <2>1. Chosen(S) \in S
    BY <1>2, <1>8
  <2>2. Fold(S)[S] = Plus(f[Chosen(S)], Fold(S)[S \ {Chosen(S)}])
    BY <1>3, <1>8
  <2>3. Fold(S)[S \ {Chosen(S)}] = PlusFold(e, f, S \ {Chosen(S)})
    BY <1>7
  <2> QED
    BY <1>1, <2>1, <2>2, <2>3
<1>9. \A S \in SUBSET D : PlusFold(e, f, S) \in Fracs
  BY <1>1, <1>3
<1> QED
  BY <1>4, <1>8, <1>9

(* A sum of fractions over one denominator. *)
LEMMA PlusTotals ==
    ASSUME NEW D, IsFiniteSet(D), NEW f, \A x \in D : f[x] \in Fracs, NEW e \in Fracs,
           NEW q \in Int, NEW a \in Int, Same(e, Frac(a, q)),
           NEW num, \A x \in D : num[x] \in Int /\ Same(f[x], Frac(num[x], q))
    PROVE  PlusFold(e, f, D) \in Fracs /\ Same(PlusFold(e, f, D), Frac(a + Sum(num, D), q))
<1> DEFINE T == {s \in SUBSET D : Same(PlusFold(e, f, s), Frac(a + Sum(num, s), q))}
           pick == [s \in SUBSET D |-> Chosen(s)]
           g == [s \in SUBSET D |-> s]
<1>1. /\ \A S \in SUBSET D : PlusFold(e, f, S) \in Fracs
      /\ \A S \in SUBSET D : S # {} => /\ Chosen(S) \in S
                                       /\ PlusFold(e, f, S) = Plus(f[Chosen(S)], PlusFold(e, f, S \ {Chosen(S)}))
      /\ PlusFold(e, f, {}) = e
  BY PlusUnfolds
<1>2. /\ \A S \in SUBSET D : Sum(num, S) \in Int
      /\ \A S \in SUBSET D : S # {} => /\ Chosen(S) \in S
                                       /\ Sum(num, S) = num[Chosen(S)] + Sum(num, S \ {Chosen(S)})
      /\ Sum(num, {}) = 0
  BY SumUnfolds
<1>3. \A s \in SUBSET D : s # {} => pick[s] \in s /\ pick[s] = Chosen(s)
  BY <1>1
<1>4. g[{}] \in T
  <2>1. a + Sum(num, {}) = a
    BY <1>2
  <2> QED
    BY <1>1, <2>1
<1>5. ASSUME NEW s \in SUBSET D, s # {}, s \ {Chosen(s)} \in T PROVE s \in T
  <2> DEFINE c == Chosen(s)
             x == PlusFold(e, f, s \ {c})
             b == a + Sum(num, s \ {c})
  <2>1. c \in D /\ s \ {c} \in SUBSET D
    BY <1>1, <1>5
  <2>2. PlusFold(e, f, s) = Plus(f[c], x) /\ x \in Fracs
    BY <1>1, <1>5, <2>1
  <2>3. Sum(num, s) = num[c] + Sum(num, s \ {c}) /\ Sum(num, s \ {c}) \in Int
    BY <1>2, <1>5, <2>1
  <2>4. Same(x, Frac(b, q))
    BY <1>5
  <2>5. b \in Int /\ num[c] \in Int /\ a + Sum(num, s) = num[c] + b
    BY <2>1, <2>3
  <2> HIDE DEF c, x, b
  <2>6. Same(Plus(f[c], x), Frac(num[c] + b, q))
    BY <2>1, <2>2, <2>4, <2>5, PlusSame
  <2> QED
    BY <2>2, <2>5, <2>6
<1> HIDE DEF T
<1>6. \A s \in SUBSET D : s # {} /\ g[s \ {pick[s]}] \in T => g[s] \in T
  BY <1>3, <1>5
<1>7. \A s \in SUBSET D : g[s] \in T
  <2> HIDE DEF g, pick
  <2> QED
    BY <1>3, <1>4, <1>6, SubsetInduction
<1>8. D \in T
  BY <1>7
<1> QED
  BY <1>1, <1>8 DEF T

-----------------------------------------------------------------------------
(* What the cells of some slots add up to is what the places in them get. *)
LEMMA LaidTotal ==
    ASSUME NEW rows, NEW P, NEW slot, LaidOut(rows, P, slot),
           NEW gets, \A p \in P : gets[p] \in Int /\ Effective(rows, slot[p]) = gets[p],
           NEW A \in SUBSET Slots(rows)
    PROVE  /\ IsFiniteSet(P) /\ IsFiniteSet(A)
           /\ Sum([s \in A |-> Effective(rows, s)], A) = Sum(gets, {p \in P : slot[p] \in A})
<1> DEFINE eff == [s \in A |-> Effective(rows, s)]
           D == {p \in P : slot[p] \in A}
           key == [s \in Slots(rows) |-> KeyAt(rows, s)]
<1>1. /\ IsFiniteSet(Slots(rows))
      /\ \A p \in P : slot[p] \in Slots(rows) /\ KeyAt(rows, slot[p]) = p
      /\ \A s \in Slots(rows) :
           /\ rows[s[1]][s[2]].item = 0 => ~Valid(rows, s)
           /\ rows[s[1]][s[2]].item # 0 => KeyAt(rows, s) \in P /\ slot[KeyAt(rows, s)] = s
  BY DEF LaidOut
<1>2. IsFiniteSet(P)
  <2>1. P \subseteq {key[s] : s \in Slots(rows)}
    BY <1>1
  <2>2. IsFiniteSet({key[s] : s \in Slots(rows)})
    <3> HIDE DEF key
    <3> QED
      BY <1>1, FiniteImage
  <2> QED
    BY <2>1, <2>2, FS_Subset
<1>3. IsFiniteSet(A) /\ IsFiniteSet(D)
  BY <1>1, <1>2, FS_Subset
<1>4. \A p \in D : slot[p] \in A
  OBVIOUS
<1>5. \A p, q \in D : slot[p] = slot[q] => p = q
  BY <1>1
<1>7. \A p \in D : gets[p] = eff[slot[p]]
  OBVIOUS
<1>8. \A s \in A : (\A p \in D : slot[p] # s) => eff[s] = 0
  <2> SUFFICES ASSUME NEW s \in A, \A p \in D : slot[p] # s PROVE Effective(rows, s) = 0
    OBVIOUS
  <2>1. rows[s[1]][s[2]].item = 0
    BY <1>1
  <2> QED
    BY <1>1, <2>1 DEF Effective
<1>6. \A s \in A : eff[s] \in Int
  <2> SUFFICES ASSUME NEW s \in A PROVE eff[s] \in Int
    OBVIOUS
  <2>1. CASE \E p \in D : slot[p] = s
    <3>1. PICK p \in D : slot[p] = s
      BY <2>1
    <3>2. gets[p] \in Int /\ gets[p] = eff[slot[p]]
      BY <1>7, <3>1
    <3> QED
      BY <3>1, <3>2
  <2>2. CASE \A p \in D : slot[p] # s
    <3>1. eff[s] = 0
      BY <1>8, <2>2
    <3> QED
      BY <3>1
  <2> QED
    BY <2>1, <2>2
<1> HIDE DEF eff, D
<1>9. Sum(gets, D) = Sum(eff, A)
  BY <1>3, <1>4, <1>5, <1>6, <1>7, <1>8, SumMoved
<1> QED
  BY <1>2, <1>3, <1>9 DEF eff, D

(* A place's slot, and no other slot, is of its key. *)
LEMMA LaidKeys ==
    ASSUME NEW rows, NEW P, NEW slot, LaidOut(rows, P, slot), NEW key, key[1] # 0
    PROVE  \A s : /\ s \in Slots(rows) /\ rows[s[1]][s[2]].item # 0 /\ KeyAt(rows, s) = key
                  <=> key \in P /\ s = slot[key]
<1>1. /\ \A p \in P : slot[p] \in Slots(rows) /\ KeyAt(rows, slot[p]) = p
      /\ \A s \in Slots(rows) :
           rows[s[1]][s[2]].item # 0 => KeyAt(rows, s) \in P /\ slot[KeyAt(rows, s)] = s
  BY DEF LaidOut
<1>2. \A s : KeyAt(rows, s)[1] = rows[s[1]][s[2]].item
  BY DEF KeyAt
<1> QED
  BY <1>1, <1>2

-----------------------------------------------------------------------------
(* What a rank's places get: what the reference wants, and nothing at the first position
   of a packed document. *)
Whole == Uniform /\ (\A q, r \in DPRanks : Packs(q) <=> Packs(r)) /\ (Packs(0) => Read = items)
Own(r) == Places(Read, ToSet(MyShare(r)), Cols(r))
Gets(r) == [p \in Own(r) |-> IF Packs(r) /\ p[2] = 1 THEN 0 ELSE Wanted(p[1], p[2], p[3])]
Mine(r) == Unpacked(Targets(ToSet(MyShare(r))))

LEMMA OwnTargets ==
    ASSUME Setting, Whole, NEW r \in DPRanks, ~PrepareRaises(r)
    PROVE  /\ \A p : p \in Targets(ToSet(MyShare(r))) <=> p \in Own(r)
           /\ \A i \in ToSet(MyShare(r)) : Len(Read[i].labels.rows[1]) = Cols(r)
<1> DEFINE T == ToSet(MyShare(r))
           K == Cols(r)
<1>1. ~AllocationRaises(setup.strategy, Len(items), setup.dp)
  BY DEF PrepareRaises
<1>2. T \subseteq DOMAIN items
  BY <1>1, ShareInside DEF Setting
<1>3. \A i \in T : DOMAIN Read[i].ids = 1 .. Len(Read[i].ids)
  <2> SUFFICES ASSUME NEW i \in T PROVE DOMAIN Read[i].ids = 1 .. Len(Read[i].ids)
    OBVIOUS
  <2> DEFINE ids == Read[i].ids
  <2>1. ids \in Seq(Int)
    BY <1>2, ReadShapes DEF Setting
  <2> HIDE DEF ids
  <2>2. DOMAIN ids = 1 .. Len(ids)
    BY <2>1
  <2> QED
    BY <2>2 DEF ids
<1>4. \A i \in T : Len(Read[i].labels.rows[1]) = K
  <2> SUFFICES ASSUME NEW i \in T PROVE Len(Read[i].labels.rows[1]) = K
    OBVIOUS
  <2>1. CASE Packs(r)
    <3> DEFINE rows == items[i].labels.rows
    <3>1. Read = items /\ K = 1
      <4>1. 0 \in DPRanks
        BY SetupTyped DEF Setting
      <4> QED
        BY <2>1, <4>1 DEF Whole, Cols
    <3>2. Textual(items, T)
      BY <2>1, PackTextual
    <3>3. Shaped(items[i].labels) /\ items[i].labels.dim = 1 /\ Len(rows) = Len(items[i].ids)
          /\ Len(items[i].ids) \in Nat \ {0}
      BY <3>2 DEF Textual
    <3>4. rows \in Seq(Seq(Int)) /\ \A n \in DOMAIN rows : Len(rows[n]) = 1
      BY <3>3 DEF Shaped
    <3> HIDE DEF rows
    <3>5. 1 \in DOMAIN rows
      BY <3>3, <3>4
    <3> QED
      BY <3>1, <3>4, <3>5 DEF rows
  <2>2. CASE ~Packs(r)
    <3>1. PICK n \in DOMAIN MyShare(r) : i = MyShare(r)[n]
      BY DEF ToSet
    <3>2. ~CollateRaises(Read, MyShare(r)) /\ K = Max({Width(Read, MyShare(r)), 1})
      BY <2>2 DEF PrepareRaises, Cols
    <3> DEFINE k == Width(Read, MyShare(r))
    <3>3. k = Width(Read, MyShare(r)) /\ Uniform
      BY DEF Whole
    <3> HIDE DEF k
    <3>4. Len(Read[MyShare(r)[n]].labels.rows[1]) = Max({k, 1})
      BY <1>1, <3>2, <3>3, UniformWidth
    <3> QED
      BY <3>1, <3>2, <3>3, <3>4
  <2> QED
    BY <2>1, <2>2
<1>5. Targets(T) = UNION {{<<i, t, j>> : t \in DOMAIN Read[i].ids, j \in 1 .. Len(Read[i].labels.rows[1])} : i \in T}
  BY DEF Targets
<1>6. Own(r) = {p \in T \X Nat \X (1 .. K) : p[2] \in 1 .. Len(Read[p[1]].ids)}
  BY DEF Own, Places
<1> HIDE DEF T, K
<1>7. ASSUME NEW p \in Targets(T) PROVE p \in Own(r)
  <2>1. PICK i \in T : p \in {<<i, t, j>> : t \in DOMAIN Read[i].ids, j \in 1 .. Len(Read[i].labels.rows[1])}
    BY <1>5
  <2>2. PICK t \in DOMAIN Read[i].ids, j \in 1 .. Len(Read[i].labels.rows[1]) : p = <<i, t, j>>
    BY <2>1
  <2>3. t \in 1 .. Len(Read[i].ids) /\ t \in Nat /\ j \in 1 .. K
    <3>1. t \in 1 .. Len(Read[i].ids) /\ j \in 1 .. K
      BY <1>3, <1>4, <2>2
    <3> QED
      BY <3>1
  <2>4. p \in T \X Nat \X (1 .. K) /\ p[1] = i /\ p[2] = t
    BY <2>2, <2>3
  <2> QED
    BY <1>6, <2>3, <2>4
<1>8. ASSUME NEW p \in Own(r) PROVE p \in Targets(T)
  <2>1. p \in T \X Nat \X (1 .. K) /\ p[2] \in 1 .. Len(Read[p[1]].ids)
    BY <1>6
  <2>2. p = <<p[1], p[2], p[3]>> /\ p[1] \in T /\ p[3] \in 1 .. K
    BY <2>1
  <2> DEFINE i == p[1]
             t == p[2]
             j == p[3]
  <2>3. i \in T /\ t \in DOMAIN Read[i].ids /\ j \in 1 .. Len(Read[i].labels.rows[1]) /\ p = <<i, t, j>>
    BY <1>3, <1>4, <2>1, <2>2
  <2> HIDE DEF i, t, j
  <2>4. <<i, t, j>> \in {<<i, x, y>> : x \in DOMAIN Read[i].ids, y \in 1 .. Len(Read[i].labels.rows[1])}
    BY <2>3
  <2> QED
    BY <1>5, <2>3, <2>4
<1> QED
  BY <1>4, <1>7, <1>8 DEF T, K

(* The cells of a sub-batch, by the places of its items. *)
LEMMA RankGets ==
    ASSUME Setting, Whole, NEW r \in DPRanks, ~PrepareRaises(r), NEW b \in DOMAIN SubBatches(r),
           NEW slot, RankLaid(r, b, slot)
    PROVE  LET P == Places(Read, Part(r, b), Cols(r))
           IN  /\ LaidOut(SubBatches(r)[b], P, slot)
               /\ P \subseteq Own(r)
               /\ \A p \in P : /\ Gets(r)[p] \in Int /\ Effective(SubBatches(r)[b], slot[p]) = Gets(r)[p]
                               /\ Packs(r) => Gets(r)[p] \in {0, 1}
               /\ Packs(r) => \A s \in Slots(SubBatches(r)[b]) :
                     Effective(SubBatches(r)[b], s) = IF Valid(SubBatches(r)[b], s) THEN 1 ELSE 0
<1> DEFINE K == Cols(r)
           T == ToSet(MyShare(r))
           P == Places(Read, Part(r, b), K)
           rows == SubBatches(r)[b]
<1>1. Docs(r) = Read
  <2>1. 0 \in DPRanks
    BY SetupTyped DEF Setting
  <2> QED
    BY <2>1 DEF Whole, Docs
<1>2. LaidOut(rows, P, slot)
  BY <1>1 DEF RankLaid
<1>3. Part(r, b) \subseteq T
  BY RankParts DEF Dealt
<1>4. P \subseteq Own(r)
  <2>1. \A p \in P : p \in Part(r, b) \X Nat \X (1 .. K) /\ p[2] \in 1 .. Len(Read[p[1]].ids)
    BY DEF Places
  <2> HIDE DEF P, K, T
  <2>2. \A p \in P : p \in T \X Nat \X (1 .. K)
    BY <1>3, <2>1
  <2> QED
    BY <2>1, <2>2 DEF Own, Places, K, T
<1>5. \A p \in P : Gets(r)[p] = IF Packs(r) /\ p[2] = 1 THEN 0 ELSE Wanted(p[1], p[2], p[3])
  BY <1>4 DEF Gets
<1>6. CASE ~Packs(r)
  <2>1. Part(r, b) = T
    BY <1>6 DEF Part
  <2>2. \A p \in P : Effective(rows, slot[p]) = Wanted(p[1], p[2], p[3])
    BY <1>6, <2>1 DEF RankLaid, Whole
  <2>3. \A p \in P : Effective(rows, slot[p]) \in Int
    BY <1>6, <2>1 DEF RankLaid, Whole
  <2> HIDE DEF P, rows
  <2>4. \A p \in P : Gets(r)[p] \in Int /\ Effective(rows, slot[p]) = Gets(r)[p]
    BY <1>5, <1>6, <2>2, <2>3
  <2> QED
    BY <1>2, <1>4, <1>6, <2>4 DEF P, K, rows
<1>7. CASE Packs(r)
  <2> DEFINE bin == Part(r, b)
             row == PackedRow(items, bin)
  <2>1. Read = items /\ K = 1
    <3>1. 0 \in DPRanks
      BY SetupTyped DEF Setting
    <3> QED
      BY <1>7, <3>1 DEF Whole, Cols
  <2>2. Packing(items, bin, slot)
    BY <1>7 DEF RankLaid
  <2>3. rows = <<row>>
    <3>1. SubBatches(r) = [c \in DOMAIN Packed(r) |-> <<PackedRow(items, Packed(r)[c])>>]
      BY <1>7, PacksFilled
    <3>2. bin = Packed(r)[b]
      BY <1>7 DEF Part
    <3> QED
      BY <3>1, <3>2
  <2>4. P = Places(items, bin, 1)
    BY <2>1
  <2>5. /\ \A s \in Slots(rows) : Effective(rows, s) = IF Valid(rows, s) THEN 1 ELSE 0
        /\ \A p \in P : /\ p[3] = 1
                        /\ Valid(rows, slot[p]) <=> p[2] # 1 /\ items[p[1]].labels.rows[p[2]][1] # Masked
    BY <2>2, <2>3, <2>4 DEF Packing
  <2>6. \A p \in P : slot[p] \in Slots(rows)
    BY <1>2 DEF LaidOut
  <2>7. \A i \in T : items[i].weights = Absent
    BY <1>7 DEF Packs, Packable
  <2>8. \A p \in P : p[1] \in T
    <3>1. \A p \in P : p \in bin \X Nat \X (1 .. 1)
      BY <2>4 DEF Places
    <3>2. \A p \in P : p[1] \in bin
      BY <3>1
    <3> HIDE DEF P, bin
    <3> QED
      BY <1>3, <3>2 DEF bin
  <2> HIDE DEF P, rows, bin, T
  <2>9. ASSUME NEW p \in P
        PROVE  Gets(r)[p] \in {0, 1} /\ Effective(rows, slot[p]) = Gets(r)[p]
    <3>1. Wanted(p[1], p[2], p[3]) = IF items[p[1]].labels.rows[p[2]][1] = Masked THEN 0 ELSE 1
      BY <2>1, <2>5, <2>7, <2>8 DEF Wanted
    <3>2. Effective(rows, slot[p]) = IF Valid(rows, slot[p]) THEN 1 ELSE 0
      BY <2>5, <2>6
    <3>3. Valid(rows, slot[p]) <=> p[2] # 1 /\ items[p[1]].labels.rows[p[2]][1] # Masked
      BY <2>5
    <3>4. Gets(r)[p] = IF p[2] = 1 THEN 0 ELSE Wanted(p[1], p[2], p[3])
      BY <1>5, <1>7
    <3>5. CASE p[2] = 1
      BY <3>2, <3>3, <3>4, <3>5
    <3>6. CASE p[2] # 1
      BY <3>1, <3>2, <3>3, <3>4, <3>6
    <3> QED
      BY <3>5, <3>6
  <2>10. \A p \in P : Gets(r)[p] \in Int /\ Effective(rows, slot[p]) = Gets(r)[p] /\ Gets(r)[p] \in {0, 1}
    BY <2>9
  <2> QED
    BY <1>2, <1>4, <2>5, <2>10 DEF P, K, rows
<1> QED
  BY <1>6, <1>7

(* A sum over a function is a sum over its domain. *)
LEMMA SumOverDomain == \A f : SumFunction(f) = Sum(f, DOMAIN f)
BY DEF SumFunction, Sum

(* A sum over a part is one over the whole when the rest adds nothing. *)
LEMMA SumOfSome ==
    ASSUME NEW E, IsFiniteSet(E), NEW D \in SUBSET E, NEW f, NEW g,
           \A y \in E : g[y] \in Int, \A x \in D : f[x] = g[x],
           \A y \in E \ D : g[y] = 0
    PROVE  Sum(f, D) = Sum(g, E)
<1> DEFINE m == [x \in D |-> x]
<1>1. IsFiniteSet(D)
  BY FS_Subset
<1>2. /\ \A x \in D : m[x] \in E
      /\ \A x, y \in D : m[x] = m[y] => x = y
      /\ \A x \in D : f[x] = g[m[x]]
      /\ \A y \in E : (\A x \in D : m[x] # y) => g[y] = 0
  OBVIOUS
<1> HIDE DEF m
<1> QED
  BY <1>1, <1>2, SumMoved

(* The totals of a rank. *)
LEMMA RankTotal ==
    ASSUME Setting, Whole, NEW r \in DPRanks, ~PrepareRaises(r)
    PROVE  /\ IsFiniteSet(Own(r)) /\ \A p \in Own(r) : Gets(r)[p] \in Int
           /\ Sum(Gets(r), Own(r)) = WantedTotal(Mine(r)) /\ WantedTotal(Mine(r)) \in Int
           /\ \A p : p \in Mine(r) <=> p \in Own(r) /\ (Packs(r) => p[2] # 1)
           /\ LET B == DOMAIN SubBatches(r)
                  parts == [b \in B |-> Sum(Gets(r), Places(Read, Part(r, b), Cols(r)))]
              IN  /\ \A b \in B : EffectiveTotal(SubBatches(r)[b]) = parts[b]
                  /\ IsFiniteSet(B)
                  /\ Sum(parts, B) = WantedTotal(Mine(r))
<1> DEFINE B == DOMAIN SubBatches(r)
           K == Cols(r)
           T == ToSet(MyShare(r))
           P == [b \in B |-> Places(Read, Part(r, b), K)]
           gets == Gets(r)
           own == Own(r)
<1>1. Dealt(r)
  BY RankParts
<1>2. /\ \A b \in B : Part(r, b) \subseteq T
      /\ \A i \in T : \E b \in B : i \in Part(r, b)
      /\ \A b, c \in B : b # c => Part(r, b) \cap Part(r, c) = {}
      /\ \A b \in B : \E slot : RankLaid(r, b, slot)
  BY <1>1 DEF Dealt
<1>3. IsFiniteSet(B)
  <2>1. Len(SubBatches(r)) \in Nat \ {0} /\ B = 1 .. Len(SubBatches(r))
    BY SubBatchesSome
  <2> QED
    BY <2>1, FS_Interval
<1>4. \A b \in B : P[b] = Places(Read, Part(r, b), K)
  OBVIOUS
<1>5. own = Places(Read, T, K)
  BY DEF Own
<1>6. \A b \in B : \A p : p \in P[b] <=> p \in own /\ p[1] \in Part(r, b)
  <2> SUFFICES ASSUME NEW b \in B, NEW p PROVE p \in P[b] <=> p \in own /\ p[1] \in Part(r, b)
    OBVIOUS
  <2> DEFINE S == Part(r, b)
  <2>1. p \in P[b] <=> p \in S \X Nat \X (1 .. K) /\ p[2] \in 1 .. Len(Read[p[1]].ids)
    BY DEF Places
  <2>2. p \in own <=> p \in T \X Nat \X (1 .. K) /\ p[2] \in 1 .. Len(Read[p[1]].ids)
    BY <1>5 DEF Places
  <2>3. S \subseteq T
    BY <1>2
  <2> HIDE DEF S, T, P, own
  <2>4. p \in S \X Nat \X (1 .. K) <=> p \in T \X Nat \X (1 .. K) /\ p[1] \in S
    <3>1. ASSUME p \in S \X Nat \X (1 .. K) PROVE p \in T \X Nat \X (1 .. K) /\ p[1] \in S
      BY <2>3, <3>1
    <3>2. ASSUME p \in T \X Nat \X (1 .. K), p[1] \in S PROVE p \in S \X Nat \X (1 .. K)
      <4>1. p = <<p[1], p[2], p[3]>> /\ p[2] \in Nat /\ p[3] \in 1 .. K
        BY <3>2
      <4> QED
        BY <3>2, <4>1
    <3> QED
      BY <3>1, <3>2
  <2> QED
    BY <2>1, <2>2, <2>4 DEF S
<1>7. \A p \in own : p[1] \in T
  <2>1. \A p \in own : p \in T \X Nat \X (1 .. K)
    BY <1>5 DEF Places
  <2> HIDE DEF own, T
  <2> QED
    BY <2>1
<1>8. \A b \in B : \E slot : RankLaid(r, b, slot) /\ LaidOut(SubBatches(r)[b], P[b], slot)
                              /\ \A p \in P[b] : /\ gets[p] \in Int
                                                 /\ Effective(SubBatches(r)[b], slot[p]) = gets[p]
  <2> SUFFICES ASSUME NEW b \in B
               PROVE  \E slot : RankLaid(r, b, slot) /\ LaidOut(SubBatches(r)[b], P[b], slot)
                              /\ \A p \in P[b] : /\ gets[p] \in Int
                                                 /\ Effective(SubBatches(r)[b], slot[p]) = gets[p]
    OBVIOUS
  <2>1. PICK slot : RankLaid(r, b, slot)
    BY <1>2
  <2> QED
    BY <2>1, RankGets
<1> HIDE DEF P, own, gets, T, K
<1>9. \A b \in B : /\ IsFiniteSet(P[b]) /\ \A p \in P[b] : gets[p] \in Int
                   /\ EffectiveTotal(SubBatches(r)[b]) = Sum(gets, P[b])
  <2> SUFFICES ASSUME NEW b \in B
               PROVE  /\ IsFiniteSet(P[b]) /\ \A p \in P[b] : gets[p] \in Int
                      /\ EffectiveTotal(SubBatches(r)[b]) = Sum(gets, P[b])
    OBVIOUS
  <2> DEFINE rows == SubBatches(r)[b]
             Q == P[b]
             A == Slots(rows)
  <2>1. PICK slot : LaidOut(rows, Q, slot) /\ \A p \in Q : gets[p] \in Int /\ Effective(rows, slot[p]) = gets[p]
    BY <1>8
  <2>2. EffectiveTotal(rows) = Sum([s \in A |-> Effective(rows, s)], A)
    BY SumOverDomain DEF EffectiveTotal
  <2>3. \A p \in Q : slot[p] \in A
    BY <2>1 DEF LaidOut
  <2>4. A \in SUBSET Slots(rows)
    OBVIOUS
  <2> HIDE DEF rows, Q, A
  <2>5. IsFiniteSet(Q) /\ Sum([s \in A |-> Effective(rows, s)], A) = Sum(gets, {p \in Q : slot[p] \in A})
    BY <2>1, <2>4, LaidTotal
  <2>6. {p \in Q : slot[p] \in A} = Q
    BY <2>3
  <2> QED
    BY <2>1, <2>2, <2>5, <2>6 DEF rows, Q
<1>10. \A b, c \in B : b # c => P[b] \cap P[c] = {}
  BY <1>2, <1>6
<1>11. UNION {P[b] : b \in B} = own
  <2>1. \A p \in own : \E b \in B : p \in P[b]
    BY <1>2, <1>6, <1>7
  <2>2. \A b \in B : P[b] \subseteq own
    BY <1>6
  <2> QED
    BY <2>1, <2>2
<1> DEFINE parts == [b \in B |-> Sum(gets, P[b])]
<1>12. IsFiniteSet(own) /\ Sum(gets, own) = Sum(parts, B)
  <2>1. \A b \in B : IsFiniteSet(P[b])
    BY <1>9
  <2>2. \A b \in B : \A p \in P[b] : gets[p] \in Int
    BY <1>9
  <2> HIDE DEF B
  <2>3. IsFiniteSet(UNION {P[b] : b \in B}) /\ Sum(gets, UNION {P[b] : b \in B}) = Sum([b \in B |-> Sum(gets, P[b])], B)
    BY <1>3, <1>10, <2>1, <2>2, SumOfParts
  <2> QED
    BY <1>11, <2>3
<1>13. \A p \in own : gets[p] \in Int
  BY <1>9, <1>11
<1>14. \A p : p \in Mine(r) <=> p \in own /\ (Packs(r) => p[2] # 1)
  <2>1. \A p : p \in Targets(T) <=> p \in own
    BY OwnTargets DEF T, own
  <2>2. (\E q \in DPRanks : Packs(q)) <=> Packs(r)
    BY DEF Whole
  <2>3. Mine(r) = Unpacked(Targets(T))
    BY DEF Mine, T
  <2> QED
    BY <2>1, <2>2, <2>3 DEF Unpacked
<1>15. Sum(gets, own) = WantedTotal(Mine(r)) /\ WantedTotal(Mine(r)) \in Int
  <2> DEFINE S == Mine(r)
             w == [k \in S |-> Wanted(k[1], k[2], k[3])]
  <2>1. WantedTotal(S) = Sum(w, S)
    BY SumOverDomain DEF WantedTotal
  <2>2. \A p \in own : gets[p] = IF Packs(r) /\ p[2] = 1 THEN 0 ELSE Wanted(p[1], p[2], p[3])
    BY DEF Gets, gets, own
  <2>3. \A p \in S : w[p] = Wanted(p[1], p[2], p[3])
    OBVIOUS
  <2> HIDE DEF w, S
  <2>4. \A p \in S : w[p] = gets[p]
    BY <1>14, <2>2, <2>3 DEF S
  <2>5. \A p \in own \ S : gets[p] = 0
    BY <1>14, <2>2 DEF S
  <2>6. S \in SUBSET own
    BY <1>14 DEF S
  <2>7. Sum(w, S) = Sum(gets, own)
    BY <1>12, <1>13, <2>4, <2>5, <2>6, SumOfSome
  <2>8. Sum(gets, own) \in Int
    <3>1. own \in SUBSET own
      OBVIOUS
    <3> QED
      BY <1>12, <1>13, <3>1, SumAdds
  <2> QED
    BY <2>1, <2>7, <2>8 DEF S
<1>16. /\ \A b \in B : EffectiveTotal(SubBatches(r)[b]) = parts[b]
       /\ Sum(parts, B) = WantedTotal(Mine(r))
  BY <1>9, <1>12, <1>15
<1>17. parts = [b \in B |-> Sum(Gets(r), Places(Read, Part(r, b), Cols(r)))]
  BY <1>4 DEF gets, K
<1> HIDE DEF parts, B
<1> QED
  BY <1>3, <1>12, <1>13, <1>14, <1>15, <1>16, <1>17 DEF gets, own, B

(* The targets of a sub-batch: where there are none, no cell counts, and in a pack they all
   count one. *)
LEMMA RankCounts ==
    ASSUME Setting, Whole, NEW r \in DPRanks, ~PrepareRaises(r)
    PROVE  LET B == DOMAIN SubBatches(r)
           IN  /\ \A b \in B : /\ TargetCount(SubBatches(r)[b]) \in Nat
                               /\ TargetCount(SubBatches(r)[b]) = 0 =>
                                     \A s \in Slots(SubBatches(r)[b]) : Effective(SubBatches(r)[b], s) = 0
                               /\ Packs(r) => TargetCount(SubBatches(r)[b]) = EffectiveTotal(SubBatches(r)[b])
               /\ Packs(r) => SumFunction([b \in B |-> TargetCount(SubBatches(r)[b])]) = WantedTotal(Mine(r))
<1> DEFINE B == DOMAIN SubBatches(r)
           count == [b \in B |-> TargetCount(SubBatches(r)[b])]
           parts == [b \in B |-> Sum(Gets(r), Places(Read, Part(r, b), Cols(r)))]
<1>1. ASSUME NEW b \in B
      PROVE  /\ TargetCount(SubBatches(r)[b]) \in Nat
             /\ TargetCount(SubBatches(r)[b]) = 0 =>
                   \A s \in Slots(SubBatches(r)[b]) : Effective(SubBatches(r)[b], s) = 0
             /\ Packs(r) => TargetCount(SubBatches(r)[b]) = EffectiveTotal(SubBatches(r)[b])
  <2> DEFINE rows == SubBatches(r)[b]
             A == Slots(rows)
             V == {s \in A : Valid(rows, s)}
             eff == [s \in A |-> Effective(rows, s)]
  <2>1. PICK slot : RankLaid(r, b, slot)
    BY RankParts DEF Dealt
  <2>2. IsFiniteSet(A)
    BY <2>1 DEF RankLaid, LaidOut
  <2>3. IsFiniteSet(V) /\ TargetCount(rows) = Cardinality(V)
    <3>1. V \subseteq A
      OBVIOUS
    <3> QED
      BY <2>2, <3>1, FS_Subset DEF TargetCount
  <2>4. TargetCount(rows) \in Nat
    BY <2>3, FS_CardinalityType
  <2>5. TargetCount(rows) = 0 => \A s \in A : Effective(rows, s) = 0
    <3>1. TargetCount(rows) = 0 => V = {}
      BY <2>3, FS_EmptySet
    <3> QED
      BY <3>1 DEF Effective
  <2>6. ASSUME Packs(r) PROVE TargetCount(rows) = EffectiveTotal(rows)
    <3>1. \A s \in A : Effective(rows, s) = IF Valid(rows, s) THEN 1 ELSE 0
      BY <2>1, <2>6, RankGets
    <3>2. EffectiveTotal(rows) = Sum(eff, A)
      BY SumOverDomain DEF EffectiveTotal
    <3> HIDE DEF rows, A
    <3>3. \A s \in A : eff[s] \in {0, 1}
      BY <3>1
    <3>4. {s \in A : eff[s] = 1} = V
      BY <3>1
    <3> HIDE DEF eff, V
    <3>5. Sum(eff, A) = Cardinality({s \in A : eff[s] = 1})
      BY <2>2, <3>3, SumCounts
    <3> QED
      BY <2>3, <3>2, <3>4, <3>5
  <2> QED
    BY <2>4, <2>5, <2>6
<1>2. ASSUME Packs(r) PROVE SumFunction(count) = WantedTotal(Mine(r))
  <2>1. /\ \A b \in B : EffectiveTotal(SubBatches(r)[b]) = parts[b]
        /\ IsFiniteSet(B)
        /\ Sum(parts, B) = WantedTotal(Mine(r))
    BY RankTotal
  <2>2. count = parts
    BY <1>1, <1>2, <2>1
  <2>3. SumFunction(count) = Sum(count, B)
    BY SumOverDomain
  <2> QED
    BY <2>1, <2>2, <2>3
<1> QED
  BY <1>1, <1>2

-----------------------------------------------------------------------------
(* What a rank adds for a key in a pass. *)
LEMMA Bigger == \A n \in Int : Max({n, 1}) = IF n >= 1 THEN n ELSE 1
<1> SUFFICES ASSUME NEW n \in Int PROVE Max({n, 1}) = IF n >= 1 THEN n ELSE 1
  OBVIOUS
<1> DEFINE m == IF n >= 1 THEN n ELSE 1
<1>1. m \in {n, 1} /\ \A y \in {n, 1} : m >= y
  OBVIOUS
<1>2. \A x \in {n, 1} : (\A y \in {n, 1} : x >= y) => x = m
  OBVIOUS
<1> HIDE DEF m
<1>3. Max({n, 1}) = m
  BY <1>1, <1>2 DEF Max
<1> QED
  BY <1>3 DEF m

(* The scale of a sub-batch takes its own mean to the mean over all of them. *)
LEMMA ShareOf ==
    ASSUME NEW E \in Int, NEW count \in Nat, NEW M \in Nat \ {0}, NEW total \in Nat \ {0},
           NEW u \in Nat \ {0}, NEW dp \in Nat \ {0},
           count = 0 => E = 0, count # 0 => M * total = u * count
    PROVE  LET f == Times(Times(Frac(E, M), Frac(count, total)), Frac(1, dp))
           IN  f \in Fracs /\ Same(f, Frac(E, u * dp))
<1> DEFINE x == Frac(E, M)
           y == Frac(count, total)
           z == Frac(1, dp)
           f == Times(Times(x, y), z)
<1>1. x \in Fracs /\ y \in Fracs /\ z \in Fracs
  BY DEF Frac, Fracs
<1>2. f \in Fracs
  <2> HIDE DEF x, y, z
  <2> QED
    BY <1>1, TimesTyped
<1>3. f.n = (E * count) * 1 /\ f.d = (M * total) * dp
  BY DEF Times, Frac
<1>4. f.n * (u * dp) = E * f.d
  <2>1. CASE count = 0
    <3>1. E = 0
      BY <2>1
    <3>2. (0 * count) * 1 = 0 /\ u * dp \in Int /\ (M * total) * dp \in Int
      OBVIOUS
    <3> HIDE DEF f
    <3> QED
      BY <1>3, <3>1, <3>2
  <2>2. CASE count # 0
    <3>1. M * total = u * count
      BY <2>2
    <3>2. ((E * count) * 1) * (u * dp) = E * ((u * count) * dp)
      OBVIOUS
    <3> HIDE DEF f
    <3> QED
      BY <1>3, <3>1, <3>2
  <2> QED
    BY <2>1, <2>2
<1> HIDE DEF f, x, y, z
<1>5. Same(f, Frac(E, u * dp))
  BY <1>4 DEF Same, Frac
<1> QED
  BY <1>2, <1>5 DEF f, x, y, z

(* The places of some of the items. *)
LEMMA PlacesInside ==
    ASSUME NEW docs, NEW T, NEW S \in SUBSET T, NEW K, NEW p
    PROVE  p \in Places(docs, S, K) <=> p \in Places(docs, T, K) /\ p[1] \in S
<1>1. p \in Places(docs, S, K) <=> p \in S \X Nat \X (1 .. K) /\ p[2] \in 1 .. Len(docs[p[1]].ids)
  BY DEF Places
<1>2. p \in Places(docs, T, K) <=> p \in T \X Nat \X (1 .. K) /\ p[2] \in 1 .. Len(docs[p[1]].ids)
  BY DEF Places
<1>3. ASSUME p \in S \X Nat \X (1 .. K) PROVE p \in T \X Nat \X (1 .. K) /\ p[1] \in S
  BY <1>3
<1>4. ASSUME p \in T \X Nat \X (1 .. K), p[1] \in S PROVE p \in S \X Nat \X (1 .. K)
  <2>1. p = <<p[1], p[2], p[3]>> /\ p[2] \in Nat /\ p[3] \in 1 .. K
    BY <1>4
  <2> QED
    BY <1>4, <2>1
<1> QED
  BY <1>1, <1>2, <1>3, <1>4

(* The targets of the request, what each is due, and where a rank has them. *)
All == Unpacked(Targets(DOMAIN items))
Due(key) == Wanted(key[1], key[2], key[3])

LEMMA InTargets ==
    \A S : \A k : k \in Targets(S) <=>
        \E i \in S : \E t \in DOMAIN Read[i].ids : \E j \in 1 .. Len(Read[i].labels.rows[1]) : k = <<i, t, j>>
<1> SUFFICES ASSUME NEW S, NEW k
             PROVE  k \in Targets(S) <=>
                \E i \in S : \E t \in DOMAIN Read[i].ids : \E j \in 1 .. Len(Read[i].labels.rows[1]) : k = <<i, t, j>>
  OBVIOUS
<1>1. k \in Targets(S) <=>
         \E i \in S : k \in {<<i, t, j>> : t \in DOMAIN Read[i].ids, j \in 1 .. Len(Read[i].labels.rows[1])}
  BY DEF Targets
<1>2. \A i : k \in {<<i, t, j>> : t \in DOMAIN Read[i].ids, j \in 1 .. Len(Read[i].labels.rows[1])}
             <=> \E t \in DOMAIN Read[i].ids : \E j \in 1 .. Len(Read[i].labels.rows[1]) : k = <<i, t, j>>
  OBVIOUS
<1> QED
  BY <1>1, <1>2

LEMMA TargetsOfSome ==
    ASSUME NEW S, NEW T \in SUBSET S, NEW k
    PROVE  /\ k \in Targets(T) <=> k \in Targets(S) /\ k[1] \in T
           /\ k \in Targets(S) => k[1] \in S
BY InTargets

LEMMA KeyPlaces ==
    ASSUME Setting, Whole, NEW r \in DPRanks, ~PrepareRaises(r), NEW b \in DOMAIN SubBatches(r), NEW key \in All
    PROVE  /\ key[1] \in DOMAIN items /\ key[1] # 0
           /\ key \in Places(Read, Part(r, b), Cols(r)) <=> key[1] \in Part(r, b)
           /\ key[1] \in Part(r, b) => Gets(r)[key] = Due(key)
           /\ Part(r, b) \subseteq ToSet(MyShare(r)) /\ ToSet(MyShare(r)) \subseteq DOMAIN items
<1> DEFINE T == ToSet(MyShare(r))
<1>1. T \subseteq DOMAIN items /\ DOMAIN items = 1 .. Len(items)
  BY ShareInside, SetupTyped DEF Setting, PrepareRaises
<1>2. Part(r, b) \subseteq T
  BY RankParts DEF Dealt
<1>3. key \in Targets(DOMAIN items) /\ (Packs(r) => key[2] # 1)
  BY DEF All, Unpacked
<1>4. key[1] \in DOMAIN items /\ (key \in Targets(T) <=> key[1] \in T)
  BY <1>1, <1>3, TargetsOfSome
<1>5. key \in Own(r) <=> key[1] \in T
  BY <1>4, OwnTargets
<1>6. key \in Places(Read, Part(r, b), Cols(r)) <=> key \in Own(r) /\ key[1] \in Part(r, b)
  <2>1. Own(r) = Places(Read, T, Cols(r))
    BY DEF Own
  <2> HIDE DEF T
  <2> QED
    BY <1>2, <2>1, PlacesInside
<1>7. key[1] \in Part(r, b) => Gets(r)[key] = Due(key)
  BY <1>2, <1>3, <1>5 DEF Gets, Due
<1> QED
  BY <1>1, <1>2, <1>4, <1>5, <1>6, <1>7

LEMMA SumOfOne ==
    ASSUME NEW x, NEW D, D = {x}, NEW f, f[x] \in Int
    PROVE  Sum(f, D) = f[x]
<1>1. IsFiniteSet(D) /\ Cardinality(D) = 1 /\ \A y \in D : f[y] = f[x]
  BY FS_Singleton
<1>2. Sum(f, D) = Cardinality(D) * f[x]
  BY <1>1, SumAlike
<1> QED
  BY <1>1, <1>2

(* The denominator of what a rank adds for a key, before the number of ranks. *)
Weigh(r, key) ==
    IF post.loss = "cross_entropy" THEN Max({WantedTotal(Mine(r)), 1})
    ELSE Max({WantedTotal({k \in All : k[1] = key[1]}), 1}) * Len(MyShare(r))
TotalOf(r) ==
    Max({SumFunction([b \in DOMAIN SubBatches(r) |-> TargetCount(SubBatches(r)[b])]), 1})
\* The loss gives the slot E / M, and the scale makes that E / u.
Weighs(rows, s, total, E, u) ==
    \E M \in Nat \ {0} : /\ CellShare(post.loss, rows, s) = Frac(E, M)
                         /\ TargetCount(rows) # 0 => M * total = u * TargetCount(rows)

\* A rank that does not pack has one sub-batch.
LEMMA OnePadded ==
    ASSUME Setting, Whole, NEW r \in DPRanks, ~PrepareRaises(r), NEW b \in DOMAIN SubBatches(r), ~Packs(r)
    PROVE  /\ b = 1 /\ DOMAIN SubBatches(r) = {1} /\ SubBatches(r)[1] = Padded(Read, MyShare(r))
           /\ TotalOf(r) = Max({TargetCount(SubBatches(r)[b]), 1})
           /\ EffectiveTotal(SubBatches(r)[b]) = WantedTotal(Mine(r))
<1>1. SubBatches(r) = <<Padded(Read, MyShare(r))>>
  BY DEF SubBatches
<1>2. DOMAIN SubBatches(r) = {1} /\ SubBatches(r)[1] = Padded(Read, MyShare(r)) /\ b = 1
  BY <1>1
<1> DEFINE B == DOMAIN SubBatches(r)
           count == [c \in B |-> TargetCount(SubBatches(r)[c])]
           parts == [c \in B |-> Sum(Gets(r), Places(Read, Part(r, c), Cols(r)))]
<1>3. /\ \A c \in B : EffectiveTotal(SubBatches(r)[c]) = parts[c]
      /\ Sum(parts, B) = WantedTotal(Mine(r)) /\ WantedTotal(Mine(r)) \in Int
  BY RankTotal
<1>4. TargetCount(SubBatches(r)[1]) \in Nat
  BY <1>2, RankCounts
<1>5. SumFunction(count) = TargetCount(SubBatches(r)[1])
  <2>1. count[1] = TargetCount(SubBatches(r)[1]) /\ B = {1} /\ count[1] \in Int
    BY <1>2, <1>4
  <2>2. SumFunction(count) = Sum(count, B)
    BY SumOverDomain
  <2> HIDE DEF count, B
  <2>3. Sum(count, B) = count[1]
    BY <2>1, SumOfOne
  <2> QED
    BY <2>1, <2>2, <2>3
<1>6. Sum(parts, B) = parts[1]
  <2>1. B = {1}
    BY <1>2
  <2>2. IsFiniteSet(B) /\ Cardinality(B) = 1
    BY <2>1, FS_Singleton
  <2>3. parts[1] \in Int
    <3>1. PICK slot : RankLaid(r, 1, slot)
      BY <1>2, RankParts DEF Dealt
    <3> DEFINE P == Places(Read, Part(r, 1), Cols(r))
    <3>2. LaidOut(SubBatches(r)[1], P, slot) /\ P \subseteq Own(r)
      BY <1>2, <3>1, RankGets
    <3>3. IsFiniteSet(Own(r)) /\ \A p \in Own(r) : Gets(r)[p] \in Int
      BY RankTotal
    <3>4. P \in SUBSET Own(r)
      BY <3>2
    <3> HIDE DEF P
    <3>5. Sum(Gets(r), P) \in Int
      BY <3>3, <3>4, SumAdds
    <3> QED
      BY <2>1, <3>5 DEF P
  <2> HIDE DEF parts, B
  <2> QED
    BY <2>1, <2>3, SumOfOne
<1>7. EffectiveTotal(SubBatches(r)[1]) = parts[1]
  BY <1>2, <1>3
<1> QED
  BY <1>2, <1>3, <1>5, <1>6, <1>7 DEF TotalOf

\* cross_entropy: the mean over the targets of the rank's share.
LEMMA TokensWeigh ==
    ASSUME Setting, Whole, NEW r \in DPRanks, ~PrepareRaises(r), NEW b \in DOMAIN SubBatches(r),
           post.loss = "cross_entropy", NEW s, NEW key
    PROVE  /\ Weigh(r, key) \in Nat \ {0} /\ TotalOf(r) \in Nat \ {0}
           /\ Weighs(SubBatches(r)[b], s, TotalOf(r), Effective(SubBatches(r)[b], s), Weigh(r, key))
<1> DEFINE rows == SubBatches(r)[b]
           W == WantedTotal(Mine(r))
           N == TargetCount(rows)
           E == EffectiveTotal(rows)
           M == Max({E, 1})
           C == SumFunction([c \in DOMAIN SubBatches(r) |-> TargetCount(SubBatches(r)[c])])
           u == Weigh(r, key)
           total == TotalOf(r)
<1>1. W \in Int /\ N \in Nat
  BY RankTotal, RankCounts
<1>2. u = Max({W, 1}) /\ total = Max({C, 1})
  BY DEF Weigh, TotalOf
<1>3. CellShare(post.loss, rows, s) = Frac(Effective(rows, s), M)
  BY DEF CellShare, TokenMean, Frac
<1>4. CASE Packs(r)
  <2>1. N = E /\ C = W
    BY <1>4, RankCounts
  <2> HIDE DEF W, N, E, C, M, u, total, rows
  <2>2. M \in Nat \ {0} /\ u \in Nat \ {0} /\ total \in Nat \ {0} /\ u = total /\ (N # 0 => M = N)
    BY <1>1, <1>2, <2>1, Bigger DEF M
  <2>3. N # 0 => M * total = u * N
    BY <1>1, <2>2
  <2>4. Weighs(rows, s, total, Effective(rows, s), u)
    BY <1>3, <2>2, <2>3 DEF Weighs, N
  <2> QED
    BY <2>2, <2>4 DEF u, total, rows
<1>5. CASE ~Packs(r)
  <2>1. E = W /\ total = Max({N, 1})
    BY <1>5, OnePadded
  <2> HIDE DEF W, N, E, C, M, u, total, rows
  <2>2. M \in Nat \ {0} /\ u \in Nat \ {0} /\ total \in Nat \ {0} /\ M = u /\ (N # 0 => total = N)
    BY <1>1, <1>2, <2>1, Bigger DEF M
  <2>3. N # 0 => M * total = u * N
    BY <1>1, <2>2
  <2>4. Weighs(rows, s, total, Effective(rows, s), u)
    BY <1>3, <2>2, <2>3 DEF Weighs, N
  <2> QED
    BY <2>2, <2>4 DEF u, total, rows
<1> QED
  BY <1>4, <1>5

\* gspo: the mean over the rows of the share of each row's mean over its targets.
LEMMA RowsWeigh ==
    ASSUME Setting, Whole, NEW r \in DPRanks, ~PrepareRaises(r), NEW b \in DOMAIN SubBatches(r), ~Packs(r),
           post.loss = "gspo", NEW slot, RankLaid(r, b, slot), NEW key \in All, key[1] \in Part(r, b)
    PROVE  /\ Weigh(r, key) \in Nat \ {0} /\ TotalOf(r) \in Nat \ {0}
           /\ Weighs(SubBatches(r)[b], slot[key], TotalOf(r), Effective(SubBatches(r)[b], slot[key]), Weigh(r, key))
<1> DEFINE rows == SubBatches(r)[b]
           P == Places(Read, Part(r, b), Cols(r))
           s == slot[key]
           A == {x \in Slots(rows) : x[1] = s[1]}
           Mates == {k \in All : k[1] = key[1]}
           eff == [x \in A |-> Effective(rows, x)]
           gets == Gets(r)
           N == TargetCount(rows)
           u == Weigh(r, key)
           total == TotalOf(r)
           T == ToSet(MyShare(r))
           n == Len(MyShare(r))
<1>1. ~AllocationRaises(setup.strategy, Len(items), setup.dp)
  BY DEF PrepareRaises
<1>2. /\ LaidOut(rows, P, slot) /\ P \subseteq Own(r)
      /\ \A p \in P : gets[p] \in Int /\ Effective(rows, slot[p]) = gets[p]
  BY RankGets
<1>3. key \in P /\ \A k \in All : (k \in P <=> k[1] \in Part(r, b)) /\ (k[1] \in Part(r, b) => gets[k] = Due(k))
  BY KeyPlaces
<1>4. Part(r, b) = T
  BY DEF Part
<1>5. \A p \in P : p[1] \in T /\ p \in All
  <2>1. ASSUME NEW p \in P PROVE p[1] \in T /\ p \in All
    <3>1. p \in Targets(T)
      BY <1>2, OwnTargets
    <3>2. T \subseteq DOMAIN items
      BY <1>1, ShareInside DEF Setting
    <3>3. p \in Targets(DOMAIN items) /\ p[1] \in T
      BY <3>1, <3>2, TargetsOfSome
    <3>4. ~ \E q \in DPRanks : Packs(q)
      BY DEF Whole
    <3> QED
      BY <3>3, <3>4 DEF All, Unpacked
  <2> QED
    BY <2>1
<1>6. \A p \in P : slot[p] \in A <=> p[1] = key[1]
  <2>1. \A p \in P : slot[p] \in Slots(rows)
    BY <1>2 DEF LaidOut
  <2>2. \A p \in P : /\ slot[p] \in (DOMAIN MyShare(r)) \X Nat \X (1 .. Cols(r))
                     /\ MyShare(r)[slot[p][1]] = p[1]
    BY <1>4 DEF RankLaid
  <2>3. \A p \in P : slot[p][1] \in DOMAIN MyShare(r)
    <3> HIDE DEF P
    <3> QED
      BY <2>2
  <2>4. Distinct(MyShare(r))
    BY <1>1, ShareDistinct
  <2>5. ASSUME NEW p \in P PROVE slot[p][1] = s[1] <=> p[1] = key[1]
    BY <1>3, <2>2, <2>3, <2>4 DEF Distinct
  <2> QED
    BY <2>1, <2>5
<1>7. {p \in P : slot[p] \in A} = Mates
  BY <1>3, <1>5, <1>6
<1>8. A \in SUBSET Slots(rows)
  OBVIOUS
<1> HIDE DEF rows, P, s, A, gets, T
<1>9. IsFiniteSet(P) /\ IsFiniteSet(A) /\ Sum(eff, A) = Sum(gets, Mates)
  BY <1>2, <1>7, <1>8, LaidTotal
<1>10. WantedTotal(Mates) = Sum(gets, Mates) /\ WantedTotal(Mates) \in Int
  <2> DEFINE w == [k \in Mates |-> Wanted(k[1], k[2], k[3])]
  <2>1. WantedTotal(Mates) = Sum(w, Mates)
    BY SumOverDomain DEF WantedTotal
  <2>2. \A k \in Mates : k \in P /\ gets[k] \in Int /\ w[k] = gets[k]
    BY <1>2, <1>3 DEF Due
  <2>3. IsFiniteSet(Mates)
    <3>1. Mates \subseteq P
      BY <2>2
    <3> QED
      BY <1>9, <3>1, FS_Subset
  <2> HIDE DEF w, Mates
  <2>4. Sum(w, Mates) = Sum(gets, Mates)
    BY <2>2, <2>3, SumSame
  <2>5. Mates \in SUBSET Mates
    OBVIOUS
  <2>6. Sum(gets, Mates) \in Int
    BY <2>2, <2>3, <2>5, SumAdds
  <2> QED
    BY <2>1, <2>4, <2>6
<1>11. RowTotal(rows, s[1], Effective) = WantedTotal(Mates)
  <2>1. RowTotal(rows, s[1], Effective) = SumFunction(eff)
    BY DEF RowTotal, A
  <2>2. SumFunction(eff) = Sum(eff, A)
    BY SumOverDomain
  <2> QED
    BY <1>9, <1>10, <2>1, <2>2
<1>12. Len(rows) = n /\ n \in Nat \ {0}
  <2>1. Len(Padded(Read, MyShare(r))) = n /\ n \in Nat
    BY <1>1, PaddedLen
  <2>2. rows = Padded(Read, MyShare(r))
    BY OnePadded DEF rows
  <2>3. n # 0
    <3>1. 1 \in DOMAIN MyShare(r)
      BY <1>1, ShareSome
    <3>2. PICK m \in Nat : DOMAIN MyShare(r) = 1 .. m /\ Len(MyShare(r)) = m
      BY <1>1, ShareInside DEF Setting
    <3> QED
      BY <3>1, <3>2
  <2> QED
    BY <2>1, <2>2, <2>3
<1> DEFINE R == Max({WantedTotal(Mates), 1})
<1>13. u = R * n
  BY DEF Weigh
<1>14. CellShare(post.loss, rows, s) = Frac(Effective(rows, s), R * n)
  BY <1>11, <1>12 DEF CellShare, SequenceMean, Frac
<1>15. R \in Nat \ {0}
  <2> HIDE DEF Mates
  <2> QED
    BY <1>10, Bigger
<1>16. N \in Nat /\ total = Max({N, 1})
  BY RankCounts, OnePadded DEF rows
<1> HIDE DEF R, n, u, total, N
<1>17. u \in Nat \ {0}
  BY <1>12, <1>13, <1>15, PositiveProduct
<1>18. total \in Nat \ {0} /\ (N # 0 => total = N)
  BY <1>16, Bigger
<1>19. N # 0 => u * total = u * N
  BY <1>18
<1>20. Weighs(rows, s, total, Effective(rows, s), u)
  BY <1>13, <1>14, <1>17, <1>19 DEF Weighs, N
<1> QED
  BY <1>17, <1>18, <1>20 DEF u, total, rows, s

(* The targets of the request are those of the ranks' shares. *)
Dues == [k \in All |-> Due(k)]

LEMMA MineOfAll ==
    ASSUME Setting, Whole, NEW r \in DPRanks, ~PrepareRaises(r)
    PROVE  \A k : /\ k \in Mine(r) <=> k \in All /\ k[1] \in ToSet(MyShare(r))
                  /\ k \in Mine(r) => k \in Own(r) /\ Gets(r)[k] = Due(k) /\ Due(k) \in Int
<1> SUFFICES ASSUME NEW k
             PROVE  /\ k \in Mine(r) <=> k \in All /\ k[1] \in ToSet(MyShare(r))
                    /\ k \in Mine(r) => k \in Own(r) /\ Gets(r)[k] = Due(k) /\ Due(k) \in Int
  OBVIOUS
<1> DEFINE T == ToSet(MyShare(r))
<1>1. T \subseteq DOMAIN items
  BY ShareInside DEF Setting, PrepareRaises
<1>2. k \in Targets(T) <=> k \in Targets(DOMAIN items) /\ k[1] \in T
  BY <1>1, TargetsOfSome
<1>3. k \in Mine(r) <=> k \in All /\ k[1] \in T
  BY <1>2 DEF Mine, All, Unpacked
<1>4. ASSUME k \in Mine(r) PROVE k \in Own(r) /\ Gets(r)[k] = Due(k) /\ Due(k) \in Int
  <2>1. k \in Own(r) /\ (Packs(r) => k[2] # 1) /\ Gets(r)[k] \in Int
    BY <1>4, RankTotal
  <2>2. Gets(r)[k] = Due(k)
    BY <2>1 DEF Gets, Due
  <2> QED
    BY <2>1, <2>2
<1> QED
  BY <1>3, <1>4

LEMMA AllTyped ==
    ASSUME Setting, Whole, \A q \in DPRanks : ~PrepareRaises(q)
    PROVE  /\ IsFiniteSet(All) /\ \A k \in All : Dues[k] \in Int /\ Due(k) \in Int
           /\ UNION {Mine(r) : r \in DPRanks} = All
           /\ \A S \in SUBSET All : WantedTotal(S) = Sum(Dues, S) /\ Sum(Dues, S) \in Int
<1>1. 0 \in DPRanks /\ setup.dp \in Nat \ {0}
  BY SetupTyped DEF Setting
<1>0. ASSUME NEW r \in DPRanks
      PROVE  \A k : /\ k \in Mine(r) <=> k \in All /\ k[1] \in ToSet(MyShare(r))
                    /\ k \in Mine(r) => k \in Own(r) /\ Gets(r)[k] = Due(k) /\ Due(k) \in Int
  <2>1. ~PrepareRaises(r)
    OBVIOUS
  <2> QED
    BY <2>1, MineOfAll
<1>2. ASSUME NEW k \in All PROVE \E r \in DPRanks : k \in Mine(r)
  <2>1. k[1] \in DOMAIN items
    BY TargetsOfSome DEF All, Unpacked
  <2>2. ~AllocationRaises(setup.strategy, Len(items), setup.dp)
    BY <1>1 DEF PrepareRaises
  <2>3. \E r \in DPRanks : k[1] \in ToSet(MyShare(r))
    BY <1>1, <2>1, <2>2, ShareOwners
  <2> QED
    BY <1>0, <2>3
<1>3. UNION {Mine(r) : r \in DPRanks} = All
  <2>1. \A r \in DPRanks : Mine(r) \subseteq All
    BY <1>0
  <2> QED
    BY <1>2, <2>1
<1>4. \A k \in All : Dues[k] \in Int /\ Due(k) \in Int /\ Dues[k] = Due(k)
  BY <1>0, <1>2 DEF Dues
<1>5. IsFiniteSet(All)
  <2> DEFINE P == [r \in DPRanks |-> Mine(r)]
             f == [k \in All |-> 0]
  <2>1. IsFiniteSet(DPRanks)
    BY <1>1, FS_Interval DEF DPRanks
  <2>2. \A r \in DPRanks : IsFiniteSet(Mine(r))
    <3>1. \A r \in DPRanks : Mine(r) \subseteq Own(r) /\ IsFiniteSet(Own(r))
      BY RankTotal
    <3> QED
      BY <3>1, FS_Subset
  <2>3. IsFiniteSet({P[r] : r \in DPRanks})
    <3> HIDE DEF P
    <3> QED
      BY <2>1, FiniteImage
  <2>4. {P[r] : r \in DPRanks} = {Mine(r) : r \in DPRanks}
    OBVIOUS
  <2>5. \A x \in {Mine(r) : r \in DPRanks} : IsFiniteSet(x)
    BY <2>2
  <2>6. IsFiniteSet(UNION {Mine(r) : r \in DPRanks})
    BY <2>3, <2>4, <2>5, FS_UNION
  <2> QED
    BY <1>3, <2>6
<1>6. ASSUME NEW S \in SUBSET All PROVE WantedTotal(S) = Sum(Dues, S) /\ Sum(Dues, S) \in Int
  <2> DEFINE w == [k \in S |-> Wanted(k[1], k[2], k[3])]
  <2>1. WantedTotal(S) = Sum(w, S)
    BY SumOverDomain DEF WantedTotal
  <2>2. IsFiniteSet(S)
    BY <1>5, FS_Subset
  <2>3. \A k \in S : w[k] = Dues[k] /\ Dues[k] \in Int
    BY <1>4 DEF Due
  <2> HIDE DEF w
  <2>4. Sum(w, S) = Sum(Dues, S)
    BY <2>2, <2>3, SumSame
  <2>5. S \in SUBSET S
    OBVIOUS
  <2>6. Sum(Dues, S) \in Int
    BY <2>2, <2>3, <2>5, SumAdds
  <2> QED
    BY <2>1, <2>4, <2>6
<1> QED
  BY <1>3, <1>4, <1>5, <1>6

LEMMA WeighTyped ==
    ASSUME Setting, Whole, \A q \in DPRanks : ~PrepareRaises(q), NEW r \in DPRanks, NEW key \in All
    PROVE  /\ Weigh(r, key) \in Nat \ {0} /\ Len(MyShare(r)) \in Nat \ {0}
           /\ Max({WantedTotal({k \in All : k[1] = key[1]}), 1}) \in Nat \ {0}
           /\ Max({WantedTotal(Mine(r)), 1}) \in Nat \ {0}
<1> DEFINE Mates == {k \in All : k[1] = key[1]}
           n == Len(MyShare(r))
           R == Max({WantedTotal(Mates), 1})
           W == Max({WantedTotal(Mine(r)), 1})
<1>1. R \in Nat \ {0}
  <2>1. Mates \in SUBSET All
    OBVIOUS
  <2> HIDE DEF Mates
  <2> QED
    BY <2>1, AllTyped, Bigger
<1>2. W \in Nat \ {0}
  <2>1. WantedTotal(Mine(r)) \in Int
    BY RankTotal
  <2> QED
    BY <2>1, Bigger
<1>3. n \in Nat \ {0}
  <2>1. ~AllocationRaises(setup.strategy, Len(items), setup.dp)
    BY DEF PrepareRaises
  <2>2. 1 \in DOMAIN MyShare(r)
    BY <2>1, ShareSome
  <2>3. PICK m \in Nat : DOMAIN MyShare(r) = 1 .. m /\ Len(MyShare(r)) = m
    BY <2>1, ShareInside DEF Setting
  <2> QED
    BY <2>2, <2>3
<1>4. Weigh(r, key) = IF post.loss = "cross_entropy" THEN W ELSE R * n
  BY DEF Weigh
<1> HIDE DEF W, R, n
<1>5. Weigh(r, key) \in Nat \ {0}
  BY <1>1, <1>2, <1>3, <1>4, PositiveProduct
<1> QED
  BY <1>1, <1>2, <1>3, <1>5 DEF R, W, n

\* The denominator of what rank r adds for a key.
Denom(r, key) == Weigh(r, key) * setup.dp
\* What rank r adds for a key in the sub-batch it has in hand.
Adds(r, key) == IF key[1] \in Part(r, pass[r]) THEN Due(key) ELSE 0
InHand(r) == /\ ~PrepareRaises(r) /\ batches[r] = SubBatches(r) /\ pass[r] \in DOMAIN SubBatches(r)
             /\ post.loss \in {"cross_entropy", "gspo"} /\ (post.loss = "gspo" => ~Packs(r))

(* A rank has a slot for a key exactly when the item is in the sub-batch it has in hand. *)
LEMMA HandSlot ==
    ASSUME Setting, Whole, NEW r \in DPRanks, InHand(r), NEW key \in All,
           NEW slot, RankLaid(r, pass[r], slot)
    PROVE  {x \in Keys(r) : KeyOf(r, x) = key} = IF key[1] \in Part(r, pass[r]) THEN {slot[key]} ELSE {}
<1> DEFINE b == pass[r]
           rows == SubBatches(r)[b]
           P == Places(Read, Part(r, b), Cols(r))
<1>1. b \in DOMAIN SubBatches(r) /\ ~PrepareRaises(r) /\ Rows(r) = rows
  BY DEF InHand, Rows
<1>2. LaidOut(rows, P, slot)
  BY <1>1, RankGets
<1>3. key[1] # 0 /\ (key \in P <=> key[1] \in Part(r, b))
  BY <1>1, KeyPlaces
<1>4. \A s : s \in {x \in Keys(r) : KeyOf(r, x) = key} <=>
             s \in Slots(rows) /\ rows[s[1]][s[2]].item # 0 /\ KeyAt(rows, s) = key
  BY <1>1 DEF Keys, KeyOf, KeyAt
<1> HIDE DEF rows, P, b
<1>5. \A s : /\ s \in Slots(rows) /\ rows[s[1]][s[2]].item # 0 /\ KeyAt(rows, s) = key
             <=> key \in P /\ s = slot[key]
  BY <1>2, <1>3, LaidKeys
<1>6. \A s : s \in {x \in Keys(r) : KeyOf(r, x) = key} <=> key[1] \in Part(r, b) /\ s = slot[key]
  BY <1>3, <1>4, <1>5
<1> DEFINE X == {x \in Keys(r) : KeyOf(r, x) = key}
<1>7. \A s : s \in X <=> key[1] \in Part(r, b) /\ s = slot[key]
  BY <1>6
<1> HIDE DEF X
<1>8. X = IF key[1] \in Part(r, b) THEN {slot[key]} ELSE {}
  BY <1>7
<1> QED
  BY <1>8 DEF X, b

(* What a rank adds for a key: the key's due over the rank's whole share, whatever the
   sub-batches. *)
LEMMA RankShare ==
    ASSUME Setting, Whole, \A q \in DPRanks : ~PrepareRaises(q), NEW r \in DPRanks, InHand(r), NEW key \in All
    PROVE  /\ Contribution(r, key) \in Fracs
           /\ Adds(r, key) \in Int /\ Denom(r, key) \in Nat \ {0}
           /\ Same(Contribution(r, key), Frac(Adds(r, key), Denom(r, key)))
<1> DEFINE b == pass[r]
           rows == SubBatches(r)[b]
           X == {x \in Keys(r) : KeyOf(r, x) = key}
           F == [s \in X |-> Times(Times(CellShare(post.loss, Rows(r), s), Scale(r)), [n |-> 1, d |-> setup.dp])]
           u == Weigh(r, key)
           dp == setup.dp
           here == key[1] \in Part(r, b)
           N == TargetCount(rows)
           total == TotalOf(r)
<1>1. b \in DOMAIN SubBatches(r) /\ ~PrepareRaises(r) /\ batches[r] = SubBatches(r) /\ Rows(r) = rows
  BY DEF InHand, Rows
<1>2. PICK slot : RankLaid(r, b, slot)
  BY <1>1, RankParts DEF Dealt
<1>3. X = IF here THEN {slot[key]} ELSE {}
  BY <1>2, HandSlot
<1>4. dp \in Nat \ {0}
  BY SetupTyped DEF Setting
<1>5. Contribution(r, key) = PlusFold(Zero, F, X)
  BY DEF Contribution, FoldFunction, PlusFold
<1>6. Scale(r) = Frac(N, total)
  BY <1>1 DEF Scale, TokenTotal, TotalOf, Frac
<1>7. N \in Nat /\ (N = 0 => \A s \in Slots(rows) : Effective(rows, s) = 0)
  BY <1>1, RankCounts
<1>8. u \in Nat \ {0}
  BY WeighTyped
<1>9. ASSUME here
      PROVE  /\ F[slot[key]] \in Fracs /\ Same(F[slot[key]], Frac(Due(key), u * dp)) /\ Due(key) \in Int
  <2> DEFINE s == slot[key]
             E == Effective(rows, s)
  <2>1. total \in Nat \ {0} /\ Weighs(rows, s, total, E, u)
    <3>1. CASE post.loss = "cross_entropy"
      BY <1>1, <3>1, TokensWeigh
    <3>2. CASE post.loss = "gspo"
      BY <1>1, <1>2, <1>9, <3>2, RowsWeigh DEF InHand
    <3> QED
      BY <3>1, <3>2 DEF InHand
  <2>2. s \in Slots(rows) /\ E = Due(key) /\ E \in Int
    <3> DEFINE P == Places(Read, Part(r, b), Cols(r))
    <3>1. key \in P /\ Gets(r)[key] = Due(key)
      BY <1>1, <1>9, KeyPlaces
    <3>2. /\ LaidOut(rows, P, slot)
          /\ \A p \in P : Gets(r)[p] \in Int /\ Effective(rows, slot[p]) = Gets(r)[p]
      BY <1>1, <1>2, RankGets
    <3>3. s \in Slots(rows)
      BY <3>1, <3>2 DEF LaidOut
    <3> HIDE DEF P
    <3> QED
      BY <3>1, <3>2, <3>3
  <2>3. N = 0 => E = 0
    BY <1>7, <2>2
  <2>4. PICK M \in Nat \ {0} : CellShare(post.loss, rows, s) = Frac(E, M) /\ (N # 0 => M * total = u * N)
    BY <2>1 DEF Weighs
  <2>5. F[s] = Times(Times(Frac(E, M), Frac(N, total)), Frac(1, dp))
    <3>1. s \in X
      BY <1>3, <1>9
    <3>2. F[s] = Times(Times(CellShare(post.loss, Rows(r), s), Scale(r)), Frac(1, dp))
      BY <3>1 DEF Frac
    <3> HIDE DEF F, rows, total, dp
    <3> QED
      BY <1>1, <1>6, <2>4, <3>2
  <2> DEFINE f == Times(Times(Frac(E, M), Frac(N, total)), Frac(1, dp))
  <2>6. f \in Fracs /\ Same(f, Frac(E, u * dp))
    <3>1. N # 0 => M * total = u * N
      BY <2>4
    <3>2. N \in Nat /\ E \in Int /\ total \in Nat \ {0}
      BY <1>7, <2>1, <2>2
    <3> HIDE DEF E, N, total, u, dp
    <3> QED
      BY <1>4, <1>8, <2>3, <3>1, <3>2, ShareOf
  <2>7. F[s] = f
    BY <2>5
  <2> HIDE DEF F, f, E, u, dp
  <2> QED
    BY <2>2, <2>6, <2>7
<1> DEFINE Q == u * dp
<1>10. Denom(r, key) = Q /\ Q \in Nat \ {0}
  <2>1. Denom(r, key) = Q
    BY DEF Denom
  <2> HIDE DEF u, dp
  <2>2. Q \in Nat \ {0}
    BY <1>4, <1>8, PositiveProduct
  <2> QED
    BY <2>1, <2>2
<1>11. Zero \in Fracs /\ Same(Zero, Frac(0, Q))
  <2>1. 0 * Q = 0 * 1
    BY <1>10
  <2> HIDE DEF Q
  <2> QED
    BY <2>1 DEF Zero, Fracs, Same, Frac
<1>12. CASE here
  <2> DEFINE v == Due(key)
             num == [x \in X |-> v]
  <2>1. X = {slot[key]} /\ v \in Int
    BY <1>3, <1>9, <1>12
  <2>2. IsFiniteSet(X) /\ \A x \in X : x = slot[key]
    BY <2>1, FS_Singleton
  <2>3. \A x \in X : F[x] \in Fracs /\ Same(F[x], Frac(v, Q))
    BY <1>9, <1>12, <2>2
  <2>4. Adds(r, key) = v
    BY <1>12 DEF Adds
  <2> HIDE DEF F, X, Q, v
  <2>5. \A x \in X : num[x] \in Int /\ Same(F[x], Frac(num[x], Q))
    BY <2>1, <2>3
  <2>6. Sum(num, X) = v
    <3>1. num[slot[key]] = v /\ num[slot[key]] \in Int
      BY <2>1
    <3> HIDE DEF num
    <3> QED
      BY <2>1, <3>1, SumOfOne
  <2> HIDE DEF num
  <2>7. PlusFold(Zero, F, X) \in Fracs /\ Same(PlusFold(Zero, F, X), Frac(0 + Sum(num, X), Q))
    <3>1. \A x \in X : F[x] \in Fracs
      BY <2>3
    <3>2. 0 \in Int /\ Q \in Int
      BY <1>10
    <3> QED
      BY <1>11, <2>2, <2>5, <3>1, <3>2, PlusTotals
  <2>8. 0 + Sum(num, X) = v
    BY <2>1, <2>6
  <2> QED
    BY <1>5, <1>10, <2>1, <2>4, <2>7, <2>8
<1>13. CASE ~here
  <2>1. X = {}
    BY <1>3, <1>13
  <2>2. Adds(r, key) = 0
    BY <1>13 DEF Adds
  <2> HIDE DEF F, X, Q
  <2>3. PlusFold(Zero, F, X) = Zero
    <3>1. IsFiniteSet(X) /\ \A x \in X : F[x] \in Fracs
      BY <2>1, FS_EmptySet
    <3> QED
      BY <1>11, <2>1, <3>1, PlusUnfolds
  <2> QED
    BY <1>5, <1>10, <1>11, <2>2, <2>3
<1> QED
  BY <1>12, <1>13

LEMMA SumPlus ==
    ASSUME NEW D, IsFiniteSet(D), NEW f, NEW g, NEW h,
           \A x \in D : f[x] \in Int /\ g[x] \in Int /\ h[x] = f[x] + g[x]
    PROVE  Sum(h, D) = Sum(f, D) + Sum(g, D)
<1> DEFINE T == {s \in SUBSET D : Sum(h, s) = Sum(f, s) + Sum(g, s)}
           pick == [s \in SUBSET D |-> Chosen(s)]
           id == [s \in SUBSET D |-> s]
<1>1. /\ \A S \in SUBSET D : Sum(f, S) \in Int
      /\ \A S \in SUBSET D : S # {} => /\ Chosen(S) \in S
                                       /\ Sum(f, S) = f[Chosen(S)] + Sum(f, S \ {Chosen(S)})
      /\ Sum(f, {}) = 0
  BY SumUnfolds
<1>2. /\ \A S \in SUBSET D : Sum(g, S) \in Int
      /\ \A S \in SUBSET D : S # {} => Sum(g, S) = g[Chosen(S)] + Sum(g, S \ {Chosen(S)})
      /\ Sum(g, {}) = 0
  BY SumUnfolds
<1>3. \A x \in D : h[x] \in Int
  OBVIOUS
<1>4. /\ \A S \in SUBSET D : S # {} => Sum(h, S) = h[Chosen(S)] + Sum(h, S \ {Chosen(S)})
      /\ Sum(h, {}) = 0
  BY <1>3, SumUnfolds
<1>5. \A s \in SUBSET D : s # {} => pick[s] \in s /\ pick[s] = Chosen(s)
  BY <1>1
<1>6. id[{}] \in T
  BY <1>1, <1>2, <1>4
<1>7. ASSUME NEW s \in SUBSET D, s # {}, s \ {Chosen(s)} \in T PROVE s \in T
  <2> DEFINE c == Chosen(s)
             z == s \ {c}
  <2>1. c \in D /\ z \in SUBSET D
    BY <1>1, <1>7
  <2>2. Sum(h, z) = Sum(f, z) + Sum(g, z) /\ Sum(f, z) \in Int /\ Sum(g, z) \in Int
    BY <1>1, <1>2, <1>7, <2>1
  <2>3. Sum(f, s) = f[c] + Sum(f, z) /\ Sum(g, s) = g[c] + Sum(g, z) /\ Sum(h, s) = h[c] + Sum(h, z)
    BY <1>1, <1>2, <1>4, <1>7
  <2>4. f[c] \in Int /\ g[c] \in Int /\ h[c] = f[c] + g[c]
    BY <2>1
  <2> HIDE DEF c, z
  <2>5. Sum(h, s) = Sum(f, s) + Sum(g, s)
    BY <2>2, <2>3, <2>4
  <2> QED
    BY <2>5
<1> HIDE DEF T
<1>8. \A s \in SUBSET D : s # {} /\ id[s \ {pick[s]}] \in T => id[s] \in T
  BY <1>5, <1>7
<1>9. \A s \in SUBSET D : id[s] \in T
  <2> HIDE DEF id, pick
  <2> QED
    BY <1>5, <1>6, <1>8, SubsetInduction
<1>10. D \in T
  BY <1>9
<1> QED
  BY <1>10 DEF T

-----------------------------------------------------------------------------
(* The whole request's gradient out of the ranks'. *)
Askable == /\ post.loss \in {"cross_entropy", "gspo"} /\ Whole
           /\ Replicated \/ Even \/ post.loss = "gspo"
Ready == Setting /\ Askable /\ \A q \in DPRanks : ~PrepareRaises(q)

LEMMA ReadyShares ==
    ASSUME Ready
    PROVE  /\ 0 \in DPRanks /\ setup.dp \in Nat \ {0} /\ Len(items) \in Nat
           /\ Replicated => \A r \in DPRanks : /\ Len(MyShare(r)) = Len(items) /\ Mine(r) = All
           /\ ~Replicated => \A r \in DPRanks : Len(items) = setup.dp * Len(MyShare(r))
           /\ ~Replicated => \A r, q \in DPRanks : Len(MyShare(r)) = Len(MyShare(q))
<1>1. 0 \in DPRanks /\ setup.dp \in Nat \ {0} /\ Len(items) \in Nat /\ DOMAIN items = 1 .. Len(items)
  BY SetupTyped DEF Ready, Setting
<1>2. ~AllocationRaises(setup.strategy, Len(items), setup.dp)
  BY <1>1 DEF Ready, PrepareRaises
<1>3. ASSUME Replicated, NEW r \in DPRanks PROVE Len(MyShare(r)) = Len(items) /\ Mine(r) = All
  <2>1. MyShare(r) = [i \in 1 .. Len(items) |-> i]
    BY <1>2, <1>3, ShareInside DEF Ready, Setting
  <2>2. ToSet(MyShare(r)) = DOMAIN items /\ Len(MyShare(r)) = Len(items)
    BY <1>1, <2>1 DEF ToSet
  <2> QED
    BY <2>2 DEF Mine, All
<1>4. ASSUME ~Replicated
      PROVE  /\ \A r \in DPRanks : Len(items) = setup.dp * Len(MyShare(r))
             /\ \A r, q \in DPRanks : Len(MyShare(r)) = Len(MyShare(q))
  <2> DEFINE m == Len(items) \div setup.dp
  <2>1. m \in Nat /\ Len(items) = setup.dp * m
    BY <1>1, <1>2, <1>4, ShareInside DEF Ready, Setting
  <2>2. \A r \in DPRanks : MyShare(r) = [i \in 1 .. m |-> r * m + i]
    BY <1>2, <1>4, ShareInside DEF Ready, Setting
  <2> HIDE DEF m
  <2>3. ASSUME NEW r \in DPRanks PROVE Len(MyShare(r)) = m
    <3> DEFINE F == [i \in 1 .. m |-> r * m + i]
    <3>1. DOMAIN F = 1 .. m
      OBVIOUS
    <3>2. Len(F) = m
      BY <2>1
    <3> QED
      BY <2>2, <3>2
  <2> QED
    BY <2>1, <2>3
<1> QED
  BY <1>1, <1>3, <1>4

LEMMA DenomsAlike ==
    ASSUME Ready, NEW r \in DPRanks, NEW key \in All
    PROVE  Denom(r, key) = Denom(0, key) /\ Denom(0, key) \in Nat \ {0}
<1>1. 0 \in DPRanks /\ setup.dp \in Nat \ {0}
  BY ReadyShares
<1>2. Len(MyShare(r)) = Len(MyShare(0))
  <2>1. CASE Replicated
    BY <2>1, ReadyShares
  <2>2. CASE ~Replicated
    BY <1>1, <2>2, ReadyShares
  <2> QED
    BY <2>1, <2>2
<1>3. post.loss = "cross_entropy" => WantedTotal(Mine(r)) = WantedTotal(Mine(0))
  <2>1. CASE Replicated
    BY <1>1, <2>1, ReadyShares
  <2>2. CASE Even
    BY <1>1, <2>2 DEF Even, Mine
  <2> QED
    BY <2>1, <2>2 DEF Ready, Askable
<1>4. Weigh(r, key) = Weigh(0, key)
  BY <1>2, <1>3 DEF Weigh, Ready, Askable
<1>5. Weigh(0, key) \in Nat \ {0}
  BY <1>1, WeighTyped DEF Ready, Askable
<1> DEFINE u == Weigh(0, key)
<1>6. u * setup.dp \in Nat \ {0}
  <2> HIDE DEF u
  <2> QED
    BY <1>1, <1>5, PositiveProduct DEF u
<1> QED
  BY <1>4, <1>6 DEF Denom

\* A fraction over d * q is one over q when its numerator has the factor d too.
LEMMA Cancel ==
    ASSUME NEW g \in Fracs, NEW v \in Int, NEW d \in Nat \ {0}, NEW q \in Nat \ {0},
           Same(g, Frac(d * v, q * d))
    PROVE  Same(g, Frac(v, q))
<1> DEFINE n == g.n
           e == g.d
<1>1. n \in Int /\ e \in Int
  BY DEF Fracs
<1>2. n * (q * d) = (d * v) * e
  BY DEF Same, Frac
<1> HIDE DEF n, e
<1>3. d * (n * q) = d * (v * e)
  BY <1>1, <1>2
<1>4. n * q \in Int /\ v * e \in Int
  BY <1>1
<1>5. \A x, y \in Int : d * x = d * y => x = y
  OBVIOUS
<1>6. n * q = v * e
  BY <1>3, <1>4, <1>5
<1> QED
  BY <1>6 DEF Same, Frac, n, e

LEMMA CountUpTo ==
    ASSUME NEW d \in Nat \ {0}
    PROVE  IsFiniteSet(0 .. d - 1) /\ Cardinality(0 .. d - 1) = d
<1>1. 0 \in Int /\ d - 1 \in Int /\ ~ (0 > d - 1) /\ (d - 1) - 0 + 1 = d
  OBVIOUS
<1> DEFINE e == d - 1
<1>2. e \in Int /\ ~ (0 > e) /\ e - 0 + 1 = d
  BY <1>1
<1> HIDE DEF e
<1>3. IsFiniteSet(0 .. e) /\ Cardinality(0 .. e) = e - 0 + 1
  BY <1>2, FS_Interval
<1> QED
  BY <1>2, <1>3 DEF e

\* What rank r adds for a key in all its passes.
GivenInAll(key) == [r \in DPRanks |-> IF key[1] \in ToSet(MyShare(r)) THEN Due(key) ELSE 0]

LEMMA Collected ==
    ASSUME Ready, NEW key \in All
    PROVE  Sum(GivenInAll(key), DPRanks) = IF Replicated THEN setup.dp * Due(key) ELSE Due(key)
<1> DEFINE f == GivenInAll(key)
           D == DPRanks
           v == Due(key)
<1>1. v \in Int
  BY AllTyped DEF Ready, Askable
<1>2. IsFiniteSet(D) /\ Cardinality(D) = setup.dp /\ 0 \in D
  <2>1. setup.dp \in Nat \ {0} /\ 0 \in DPRanks
    BY ReadyShares
  <2>2. IsFiniteSet(0 .. setup.dp - 1) /\ Cardinality(0 .. setup.dp - 1) = setup.dp
    BY <2>1, CountUpTo
  <2> QED
    BY <2>1, <2>2 DEF DPRanks
<1>3. key[1] \in DOMAIN items
  BY TargetsOfSome DEF All, Unpacked
<1>4. ~AllocationRaises(setup.strategy, Len(items), setup.dp)
  BY <1>2 DEF Ready, PrepareRaises
<1>5. \A r \in D : f[r] = IF key[1] \in ToSet(MyShare(r)) THEN v ELSE 0
  BY DEF GivenInAll
<1>6. CASE Replicated
  <2>1. \A r \in D : key[1] \in ToSet(MyShare(r))
    BY <1>3, <1>4, <1>6, ShareOwners DEF Ready
  <2>2. \A r \in D : f[r] = v
    BY <1>5, <2>1
  <2> HIDE DEF f, D, v
  <2>3. Sum(f, D) = Cardinality(D) * v
    BY <1>1, <1>2, <2>2, SumAlike
  <2> QED
    BY <1>2, <1>6, <2>3 DEF f, D, v
<1>7. CASE ~Replicated
  <2>1. PICK r \in D : /\ key[1] \in ToSet(MyShare(r))
                       /\ \A q \in D : key[1] \in ToSet(MyShare(q)) => q = r
    BY <1>3, <1>4, <1>7, ShareOwners DEF Ready
  <2>2. f[r] = v /\ \A q \in D \ {r} : f[q] = 0
    BY <1>5, <2>1
  <2> HIDE DEF f, D, v
  <2>3. \A q \in D : f[q] \in Int
    BY <1>1, <2>2
  <2>4. Sum(f, D) = f[r] + Sum(f, D \ {r})
    BY <1>2, <2>3, SumAny
  <2>5. Sum(f, D \ {r}) = 0
    <3>1. IsFiniteSet(D \ {r})
      BY <1>2, FS_Subset
    <3> QED
      BY <2>2, <3>1, SumZero
  <2>6. Sum(f, D) = v
    BY <1>1, <2>2, <2>4, <2>5
  <2> QED
    BY <1>7, <2>6 DEF f, D, v
<1> QED
  BY <1>6, <1>7

\* Split evenly, the ranks' totals make up the request's.
LEMMA TotalOfAll ==
    ASSUME Ready, ~Replicated, Even
    PROVE  /\ WantedTotal(All) = setup.dp * WantedTotal(Mine(0))
           /\ WantedTotal(Mine(0)) \in Nat
           /\ WantedTotal(Mine(0)) = 0 => \A k \in All : Due(k) = 0
<1> DEFINE D == DPRanks
           P == [r \in D |-> Mine(r)]
           T0 == WantedTotal(Mine(0))
           f == [r \in D |-> Sum(Dues, P[r])]
<1>1. IsFiniteSet(D) /\ Cardinality(D) = setup.dp /\ 0 \in D /\ setup.dp \in Nat \ {0}
  <2>1. setup.dp \in Nat \ {0} /\ 0 \in DPRanks
    BY ReadyShares
  <2>2. IsFiniteSet(0 .. setup.dp - 1) /\ Cardinality(0 .. setup.dp - 1) = setup.dp
    BY <2>1, CountUpTo
  <2> QED
    BY <2>1, <2>2 DEF DPRanks
<1>2. /\ IsFiniteSet(All) /\ \A k \in All : Dues[k] \in Int /\ Due(k) \in Int
      /\ UNION {Mine(r) : r \in DPRanks} = All
      /\ \A S \in SUBSET All : WantedTotal(S) = Sum(Dues, S) /\ Sum(Dues, S) \in Int
  BY AllTyped DEF Ready, Askable
<1>3. \A r \in D : Mine(r) \subseteq All
  BY <1>2
<1>4. \A r \in D : WantedTotal(Mine(r)) = T0 /\ WantedTotal(Mine(r)) = Sum(Dues, Mine(r)) /\ T0 \in Int
  <2>1. \A r \in D : WantedTotal(Mine(r)) = T0
    BY <1>1 DEF Even, Mine
  <2> QED
    BY <1>1, <1>2, <1>3, <2>1
<1>5. \A q, r \in D : q # r => P[q] \cap P[r] = {}
  <2> SUFFICES ASSUME NEW q \in D, NEW r \in D, NEW k, k \in Mine(q), k \in Mine(r) PROVE q = r
    OBVIOUS
  <2>1. ~PrepareRaises(q) /\ ~PrepareRaises(r) /\ Setting /\ Whole
    BY DEF Ready, Askable
  <2>2. k \in All /\ k[1] \in ToSet(MyShare(q))
    BY <2>1, MineOfAll
  <2>3. k[1] \in ToSet(MyShare(r))
    BY <2>1, MineOfAll
  <2>4. k[1] \in DOMAIN items
    BY <2>2, TargetsOfSome DEF All, Unpacked
  <2>5. ~AllocationRaises(setup.strategy, Len(items), setup.dp)
    BY <2>1 DEF PrepareRaises
  <2> QED
    BY <2>1, <2>2, <2>3, <2>4, <2>5, ShareOwners
<1>6. Sum(Dues, All) = Sum(f, D)
  <2>1. \A r \in D : IsFiniteSet(P[r])
    BY <1>2, <1>3, FS_Subset
  <2>2. \A r \in D : \A k \in P[r] : Dues[k] \in Int
    BY <1>2, <1>3
  <2>3. UNION {P[r] : r \in D} = All
    BY <1>2
  <2> HIDE DEF D, P
  <2>4. Sum(Dues, UNION {P[r] : r \in D}) = Sum([r \in D |-> Sum(Dues, P[r])], D)
    BY <1>1, <1>5, <2>1, <2>2, SumOfParts
  <2> QED
    BY <2>3, <2>4
<1>7. Sum(f, D) = setup.dp * T0
  <2>1. \A r \in D : f[r] = T0
    BY <1>4
  <2>2. T0 \in Int
    BY <1>1, <1>4
  <2> HIDE DEF D, f, T0
  <2>3. Sum(f, D) = Cardinality(D) * T0
    BY <1>1, <2>1, <2>2, SumAlike
  <2> QED
    BY <1>1, <2>3
<1>8. WantedTotal(All) = setup.dp * T0
  BY <1>2, <1>6, <1>7
<1>9. \A k \in All : Dues[k] \in Nat /\ Dues[k] = Due(k)
  <2>1. \A k \in All : k \in Targets(DOMAIN items)
    BY DEF All, Unpacked
  <2>2. \A k \in All : Due(k) >= 0
    BY <2>1 DEF Even, Due
  <2> QED
    BY <1>2, <2>2 DEF Dues
<1>10. T0 \in Nat
  <2>1. IsFiniteSet(Mine(0)) /\ \A k \in Mine(0) : Dues[k] \in Nat
    BY <1>1, <1>2, <1>3, <1>9, FS_Subset
  <2>2. Sum(Dues, Mine(0)) \in Nat
    BY <2>1, SumNatural
  <2> QED
    BY <1>1, <1>4, <2>2
<1>11. T0 = 0 => \A k \in All : Due(k) = 0
  <2> SUFFICES ASSUME T0 = 0, NEW k \in All PROVE Due(k) = 0
    OBVIOUS
  <2>1. Sum(Dues, All) = 0
    <3>1. setup.dp * 0 = 0
      BY <1>1
    <3> HIDE DEF T0
    <3> QED
      BY <1>2, <1>8, <3>1
  <2>2. Dues[k] <= Sum(Dues, All)
    BY <1>2, <1>9, SumNatural
  <2> QED
    BY <1>9, <2>1, <2>2
<1> QED
  BY <1>8, <1>10, <1>11

(* What the passes leave is the gradient of the whole request. *)
LEMMA WholeGradient ==
    ASSUME Ready, NEW key \in All, NEW g \in Fracs,
           Same(g, Frac(Sum(GivenInAll(key), DPRanks), Denom(0, key)))
    PROVE  Same(g, WantedGrad(key, All))
<1> DEFINE v == Due(key)
           dp == setup.dp
           R == Max({WantedTotal({k \in All : k[1] = key[1]}), 1})
           T0 == WantedTotal(Mine(0))
           W == Max({T0, 1})
           n == Len(MyShare(0))
           total == Max({WantedTotal(All), 1})
           q == IF post.loss = "cross_entropy" THEN total ELSE R * Len(items)
<1>1. dp \in Nat \ {0} /\ 0 \in DPRanks /\ Len(items) \in Nat
  BY ReadyShares
<1>2. R \in Nat \ {0} /\ W \in Nat \ {0} /\ n \in Nat \ {0}
  BY <1>1, WeighTyped DEF Ready, Askable
<1>3. v \in Int /\ WantedTotal(All) \in Int
  <2>1. All \in SUBSET All
    OBVIOUS
  <2> QED
    BY <2>1, AllTyped DEF Ready, Askable
<1>4. WantedGrad(key, All) = Frac(v, q)
  BY DEF WantedGrad, Frac, Due
<1>5. Sum(GivenInAll(key), DPRanks) = IF Replicated THEN dp * v ELSE v
  BY Collected
<1>6. Denom(0, key) = (IF post.loss = "cross_entropy" THEN W ELSE R * n) * dp
  BY DEF Denom, Weigh
<1>7. T0 \in Int
  BY <1>1, RankTotal DEF Ready, Askable
<1>8. CASE Replicated
  <2>1. n = Len(items) /\ T0 = WantedTotal(All)
    BY <1>1, <1>8, ReadyShares
  <2>2. q = IF post.loss = "cross_entropy" THEN W ELSE R * n
    BY <2>1
  <2>3. Denom(0, key) = q * dp /\ q \in Nat \ {0}
    <3>1. R * n \in Nat \ {0}
      <4> HIDE DEF R, n
      <4> QED
        BY <1>2, PositiveProduct
    <3> HIDE DEF R, W, n, q
    <3> QED
      BY <1>2, <1>6, <2>2, <3>1
  <2>4. Same(g, Frac(dp * v, q * dp))
    BY <1>5, <1>8, <2>3
  <2> HIDE DEF v, q, dp
  <2> QED
    BY <1>1, <1>3, <1>4, <2>3, <2>4, Cancel
<1>9. CASE ~Replicated /\ post.loss = "gspo"
  <2>1. Len(items) = dp * n
    BY <1>1, <1>9, ReadyShares
  <2>2. Denom(0, key) = (R * n) * dp /\ q = R * (dp * n)
    BY <1>6, <1>9, <2>1
  <2> HIDE DEF R, n, dp, q
  <2>3. (R * n) * dp = R * (dp * n)
    BY <1>1, <1>2
  <2> QED
    BY <1>4, <1>5, <1>9, <2>2, <2>3
<1>10. CASE ~Replicated /\ post.loss = "cross_entropy"
  <2>1. Even
    BY <1>10 DEF Ready, Askable
  <2>2. /\ WantedTotal(All) = dp * T0 /\ T0 \in Nat
        /\ T0 = 0 => v = 0
    BY <1>10, <2>1, TotalOfAll
  <2>3. Denom(0, key) = W * dp /\ q = total
    BY <1>6, <1>10
  <2>4. CASE T0 = 0
    <3>1. v = 0
      BY <2>2, <2>4
    <3>2. g.n * (W * dp) = 0 * g.d
      BY <1>5, <1>10, <2>3, <3>1 DEF Same, Frac
    <3>3. g.n \in Int /\ g.d \in Int
      BY DEF Fracs
    <3>4. W * dp \in Nat \ {0}
      <4> HIDE DEF W, dp
      <4> QED
        BY <1>1, <1>2, PositiveProduct
    <3> DEFINE m == W * dp
    <3>5. g.n * m = 0 /\ m \in Nat \ {0}
      BY <3>2, <3>3, <3>4
    <3> HIDE DEF m
    <3>6. g.n = 0
      BY <3>3, <3>5
    <3>7. total \in Int
      BY <1>3, Bigger
    <3> HIDE DEF total, v, q
    <3>8. 0 * total = 0 * g.d
      BY <3>3, <3>7
    <3> QED
      BY <1>4, <2>3, <3>1, <3>6, <3>8 DEF Same, Frac
  <2>5. CASE T0 # 0
    <3> HIDE DEF T0
    <3>1. dp * T0 \in Nat \ {0}
      BY <1>1, <2>2, <2>5, PositiveProduct
    <3>2. W = T0 /\ total = dp * T0
      BY <2>2, <2>5, <3>1, Bigger
    <3> HIDE DEF W, total, dp, q
    <3>3. W * dp = dp * T0
      BY <1>1, <2>2, <3>2
    <3> QED
      BY <1>4, <1>5, <1>10, <2>3, <3>2, <3>3
  <2> QED
    BY <2>4, <2>5
<1> QED
  BY <1>8, <1>9, <1>10 DEF Ready, Askable

-----------------------------------------------------------------------------
(* The gradient as it grows: each rank has given what its past sub-batches owe. *)
Past(r) == IF stage[r] = "done" THEN pass[r] ELSE pass[r] - 1
GivenSoFar(key) ==
    [r \in DPRanks |-> IF \E b \in 1 .. Past(r) : key[1] \in Part(r, b) THEN Due(key) ELSE 0]
Stands(key) ==
    /\ OldGrad(key) \in Fracs
    /\ Same(OldGrad(key), Frac(Sum(GivenSoFar(key), DPRanks), Denom(0, key)))

\* Nothing is added before all have taken their shares.
Untouched ==
    (\E r \in DPRanks : stage[r] = "idle") =>
        grad = <<>> /\ \A r \in DPRanks : pass[r] = 1 /\ stage[r] \in {"idle", "forward", "raised"}
\* gspo does not train packs, which have no old logprobs.
NoPacks == post.loss = "gspo" => \A r \in DPRanks : stage[r] \in {"backward", "done"} => ~Packs(r)
Through == \A r \in DPRanks : stage[r] = "done" => pass[r] = Len(SubBatches(r))
Fresh == grad = <<>> /\ \A r \in DPRanks : stage[r] = "forward" /\ pass[r] = 1
Growing == (\A r \in DPRanks : AtWork(r)) /\ Askable /\ ~Fresh => \A key \in All : Stands(key)
GradInv == Untouched /\ NoPacks /\ Through /\ Growing

LEMMA Frozen ==
    ASSUME UNCHANGED <<post, setup, items>>
    PROVE  /\ DPRanks' = DPRanks /\ (Askable' <=> Askable) /\ All' = All
           /\ \A key : Due(key)' = Due(key) /\ Denom(0, key)' = Denom(0, key)
           /\ \A r : Packs(r)' <=> Packs(r)
           /\ \A r, b : Part(r, b)' = Part(r, b)
<1>1. DPRanks' = DPRanks /\ Read' = Read
  BY DEF DPRanks, Read
<1>2. ASSUME NEW r PROVE MyShare(r)' = MyShare(r) /\ (Packs(r)' <=> Packs(r))
  BY DEF MyShare, Packs
<1>3. ASSUME NEW r, NEW b PROVE Part(r, b)' = Part(r, b)
  BY <1>2 DEF Part, Packed
<1>4. \A S : Targets(S)' = Targets(S)
  BY <1>1 DEF Targets
<1>5. \A S : Unpacked(S)' = Unpacked(S)
  BY <1>1, <1>2 DEF Unpacked
<1>6. All' = All
  <2>1. All' = Unpacked(Targets(DOMAIN items))'
    BY DEF All
  <2> QED
    BY <1>1, <1>2 DEF All, Unpacked, Targets
<1>7. ASSUME NEW r PROVE Mine(r)' = Mine(r)
  <2> DEFINE T == ToSet(MyShare(r))
  <2>1. T' = T
    BY <1>2
  <2>2. Mine(r) = IF \E q \in DPRanks : Packs(q) THEN {k \in Targets(T) : k[2] # 1} ELSE Targets(T)
    BY DEF Mine, Unpacked
  <2>3. Mine(r)' = IF \E q \in DPRanks' : Packs(q)' THEN {k \in Targets(T)' : k[2] # 1} ELSE Targets(T)'
    BY DEF Mine, Unpacked
  <2> HIDE DEF T
  <2>4. Targets(T)' = Targets(T)
    BY <1>1, <2>1 DEF Targets
  <2> QED
    BY <1>1, <1>2, <2>2, <2>3, <2>4
<1>8. \A S : WantedTotal(S)' = WantedTotal(S)
  BY <1>1 DEF WantedTotal, Wanted
<1>9. ASSUME NEW key PROVE Due(key)' = Due(key)
  BY <1>1 DEF Due, Wanted
<1>10. ASSUME NEW r PROVE WantedTotal(Mine(r))' = WantedTotal(Mine(r))
  BY <1>1, <1>7 DEF WantedTotal, Wanted
<1>11. ASSUME NEW key PROVE Denom(0, key)' = Denom(0, key)
  <2>1. WantedTotal({k \in All : k[1] = key[1]})' = WantedTotal({k \in All : k[1] = key[1]})
    BY <1>1, <1>6 DEF WantedTotal, Wanted
  <2> QED
    BY <1>2, <1>10, <2>1 DEF Denom, Weigh
<1>12. Even' <=> Even
  <2>1. Even <=> /\ \A q, r \in DPRanks : WantedTotal(Mine(q)) = WantedTotal(Mine(r))
                 /\ \A key \in Targets(DOMAIN items) : Due(key) >= 0
    BY DEF Even, Mine, Due
  <2>2. Even' <=> /\ \A q, r \in DPRanks' : WantedTotal(Mine(q))' = WantedTotal(Mine(r))'
                  /\ \A key \in Targets(DOMAIN items)' : Due(key)' >= 0
    BY DEF Even, Mine, Due
  <2>3. Targets(DOMAIN items)' = Targets(DOMAIN items)
    BY <1>1 DEF Targets
  <2> QED
    BY <1>1, <1>9, <1>10, <2>1, <2>2, <2>3
<1>13. Whole' <=> Whole
  <2>1. Uniform' <=> Uniform
    BY <1>1 DEF Uniform, Square
  <2> QED
    BY <1>1, <1>2, <2>1 DEF Whole
<1>14. Replicated' <=> Replicated
  BY DEF Replicated
<1>15. Askable' <=> Askable
  BY <1>12, <1>13, <1>14 DEF Askable
<1> QED
  BY <1>1, <1>2, <1>3, <1>6, <1>9, <1>11, <1>15

LEMMA ReadyNow ==
    ASSUME PassInv, Askable, \A r \in DPRanks : AtWork(r)
    PROVE  Ready
<1>1. 0 \in DPRanks
  BY SetupTyped DEF PassInv
<1>2. Setting
  BY <1>1 DEF Setting, PassInv, Parsed, AtWork
<1> QED
  BY <1>2 DEF Ready, PassInv, Taken

(* Before the first backward nothing is given, and nothing is owed. *)
LEMMA StandsAtFirst ==
    ASSUME Ready, Fresh, NEW key \in All
    PROVE  Stands(key)
<1> DEFINE D == DPRanks
           f == GivenSoFar(key)
           Q == Denom(0, key)
<1>1. 0 \in D /\ setup.dp \in Nat \ {0}
  BY ReadyShares
<1>2. Q \in Nat \ {0}
  BY <1>1, DenomsAlike
<1>3. OldGrad(key) = Zero
  BY DEF OldGrad, Fresh
<1>4. \A r \in D : Past(r) = 0
  BY DEF Past, Fresh
<1>5. \A r \in D : f[r] = 0
  BY <1>4 DEF GivenSoFar
<1>6. IsFiniteSet(D)
  BY <1>1, CountUpTo DEF DPRanks
<1> HIDE DEF D, f, Q
<1>7. Sum(f, D) = 0
  BY <1>5, <1>6, SumZero
<1>8. Zero \in Fracs /\ Same(Zero, Frac(0, Q))
  <2>1. 0 * Q = 0 * 1
    BY <1>2
  <2> QED
    BY <2>1 DEF Zero, Fracs, Same, Frac
<1> QED
  BY <1>3, <1>7, <1>8 DEF Stands, D, f, Q

LEMMA Grown ==
    ASSUME PassInv, GradInv, Askable, \A r \in DPRanks : AtWork(r), NEW key \in All
    PROVE  Stands(key)
<1>1. CASE Fresh
  BY <1>1, ReadyNow, StandsAtFirst
<1>2. CASE ~Fresh
  BY <1>2 DEF GradInv, Growing
<1> QED
  BY <1>1, <1>2

(* A backward gives what the sub-batches in hand owe. *)
LEMMA BackwardStands ==
    ASSUME PassInv, GradInv, Backward, Askable, NEW key \in All
    PROVE  Stands(key)'
<1> USE DEF PassInv, GradInv
<1> DEFINE D == DPRanks
           f == GivenSoFar(key)
           adds == [r \in D |-> Adds(r, key)]
           next == [r \in D |-> f[r] + adds[r]]
           contr == [r \in D |-> Contribution(r, key)]
           Q == Denom(0, key)
           old == OldGrad(key)
           touched == UNION {{KeyOf(r, s) : s \in Keys(r)} : r \in D}
<1>1. /\ \A r \in D : stage[r] = "backward"
      /\ UNCHANGED <<post, setup, items, status, batches>>
      /\ stage' = [r \in D |-> IF pass[r] = Len(batches[r]) THEN "done" ELSE "forward"]
      /\ pass' = [r \in D |-> IF pass[r] = Len(batches[r]) THEN pass[r] ELSE pass[r] + 1]
      /\ grad' = [k \in DOMAIN grad \cup touched |-> Reduced(k)]
  BY DEF Backward
<1>2. Ready
  BY <1>1, ReadyNow DEF AtWork
<1>3. \A r \in D : InHand(r)
  <2>1. \A r \in D : ~PrepareRaises(r) /\ batches[r] = SubBatches(r) /\ pass[r] \in 1 .. Len(SubBatches(r))
    BY <1>1 DEF Taken, InPass, AtWork
  <2>2. \A r \in D : DOMAIN SubBatches(r) = 1 .. Len(SubBatches(r))
    BY <1>2, <2>1, SubBatchesSome DEF Ready
  <2>3. post.loss = "gspo" => \A r \in D : ~Packs(r)
    BY <1>1 DEF NoPacks
  <2> QED
    BY <2>1, <2>2, <2>3 DEF InHand, Askable
<1>4. Stands(key)
  BY <1>1, Grown DEF AtWork
<1>5. /\ D' = D /\ Due(key)' = Due(key) /\ Denom(0, key)' = Q
      /\ \A r, b : Part(r, b)' = Part(r, b)
  BY <1>1, Frozen
<1>6. IsFiniteSet(D) /\ 0 \in D /\ Q \in Nat \ {0} /\ Due(key) \in Int
  <2>1. 0 \in D /\ setup.dp \in Nat \ {0}
    BY <1>2, ReadyShares
  <2>2. IsFiniteSet(D)
    BY <2>1, CountUpTo DEF DPRanks
  <2>3. Q \in Nat \ {0}
    BY <1>2, <2>1, DenomsAlike
  <2>4. Due(key) \in Int
    BY <1>2, AllTyped DEF Ready, Askable
  <2> QED
    BY <2>1, <2>2, <2>3, <2>4
<1>7. \A r \in D : /\ contr[r] \in Fracs /\ adds[r] \in Int
                   /\ Same(contr[r], Frac(adds[r], Q))
  <2> SUFFICES ASSUME NEW r \in D
               PROVE  /\ Contribution(r, key) \in Fracs /\ Adds(r, key) \in Int
                      /\ Same(Contribution(r, key), Frac(Adds(r, key), Q))
    OBVIOUS
  <2>1. Denom(r, key) = Q
    BY <1>2, DenomsAlike
  <2>2. Setting /\ Whole /\ \A q \in DPRanks : ~PrepareRaises(q)
    BY <1>2 DEF Ready, Askable
  <2>3. /\ Contribution(r, key) \in Fracs /\ Adds(r, key) \in Int
        /\ Same(Contribution(r, key), Frac(Adds(r, key), Denom(r, key)))
    BY <1>3, <2>2, RankShare
  <2> QED
    BY <2>1, <2>3
<1>8. \A r \in D : f[r] \in Int
  BY <1>6 DEF GivenSoFar
<1>9. \A r \in D : pass[r] \in Nat \ {0} /\ Past(r) = pass[r] - 1 /\ Past(r)' = pass[r]
  <2> SUFFICES ASSUME NEW r \in D
               PROVE  pass[r] \in Nat \ {0} /\ Past(r) = pass[r] - 1 /\ Past(r)' = pass[r]
    OBVIOUS
  <2>1. pass[r] \in Nat \ {0}
    BY <1>1 DEF Taken, InPass, AtWork
  <2>2. Past(r) = pass[r] - 1
    BY <1>1 DEF Past
  <2>3. CASE pass[r] = Len(batches[r])
    <3>1. stage'[r] = "done" /\ pass'[r] = pass[r]
      BY <1>1, <2>3
    <3> QED
      BY <2>1, <2>2, <3>1 DEF Past
  <2>4. CASE pass[r] # Len(batches[r])
    <3>1. stage'[r] = "forward" /\ pass'[r] = pass[r] + 1
      BY <1>1, <2>4
    <3> QED
      BY <2>1, <2>2, <3>1 DEF Past
  <2> QED
    BY <2>3, <2>4
<1>10. GivenSoFar(key)' = next
  <2> SUFFICES ASSUME NEW r \in D
               PROVE  (IF \E b \in 1 .. pass[r] : key[1] \in Part(r, b) THEN Due(key) ELSE 0) = f[r] + adds[r]
    BY <1>5, <1>9 DEF GivenSoFar
  <2> DEFINE p == pass[r]
             before == \E b \in 1 .. p - 1 : key[1] \in Part(r, b)
             now == key[1] \in Part(r, p)
  <2>1. f[r] = IF before THEN Due(key) ELSE 0
    BY <1>9 DEF GivenSoFar
  <2>2. adds[r] = IF now THEN Due(key) ELSE 0
    BY DEF Adds
  <2>3. p \in Nat \ {0} /\ p \in DOMAIN SubBatches(r) /\ DOMAIN SubBatches(r) = 1 .. Len(SubBatches(r))
        /\ Len(SubBatches(r)) \in Nat
    BY <1>2, <1>3, <1>9, SubBatchesSome DEF InHand, Ready
  <2>4. (\E b \in 1 .. p : key[1] \in Part(r, b)) <=> before \/ now
    <3> HIDE DEF p
    <3>1. 1 .. p = (1 .. p - 1) \cup {p}
      BY <2>3
    <3> QED
      BY <3>1
  <2>5. ~ (before /\ now)
    <3> SUFFICES ASSUME NEW b \in 1 .. p - 1, key[1] \in Part(r, b), now PROVE FALSE
      OBVIOUS
    <3>1. b \in DOMAIN SubBatches(r) /\ b # p
      BY <2>3
    <3>2. \A x, y \in DOMAIN SubBatches(r) : x # y => Part(r, x) \cap Part(r, y) = {}
      BY <1>2, RankParts DEF Ready, Dealt
    <3> QED
      BY <2>3, <3>1, <3>2
  <2> HIDE DEF f, adds, p, before, now
  <2>6. (IF before \/ now THEN Due(key) ELSE 0) = f[r] + adds[r]
    BY <1>6, <2>1, <2>2, <2>5
  <2> QED
    BY <2>4, <2>6 DEF p
<1>11. Sum(next, D) = Sum(f, D) + Sum(adds, D) /\ Sum(f, D) \in Int /\ Sum(adds, D) \in Int
  <2>1. \A r \in D : f[r] \in Int /\ adds[r] \in Int /\ next[r] = f[r] + adds[r]
    BY <1>7, <1>8
  <2>2. D \in SUBSET D
    OBVIOUS
  <2> HIDE DEF f, adds, next, D
  <2> QED
    BY <1>6, <2>1, <2>2, SumPlus, SumAdds
<1>12. old \in Fracs /\ Same(old, Frac(Sum(f, D), Q))
  BY <1>4 DEF Stands
<1>15. OldGrad(key)' \in Fracs /\ Same(OldGrad(key)', Frac(Sum(next, D), Q)) => Stands(key)'
  <2>1. Stands(key)' <=> /\ OldGrad(key)' \in Fracs
                         /\ Same(OldGrad(key)', Frac(Sum(GivenSoFar(key)', D'), Denom(0, key)'))
    BY DEF Stands
  <2>2. GivenSoFar(key)' = next /\ D' = D /\ Denom(0, key)' = Q
    BY <1>5, <1>10
  <2> HIDE DEF next, D, Q
  <2> QED
    BY <2>1, <2>2
<1>13. CASE key \in DOMAIN grad \cup touched
  <2>1. OldGrad(key)' = Reduced(key)
    BY <1>1, <1>13 DEF OldGrad
  <2>2. Reduced(key) = PlusFold(old, contr, D)
    BY DEF Reduced, FoldFunction, PlusFold
  <2> HIDE DEF old, contr, D, f, adds, Q, next
  <2>3. PlusFold(old, contr, D) \in Fracs /\ Same(PlusFold(old, contr, D), Frac(Sum(f, D) + Sum(adds, D), Q))
    <3>1. \A r \in D : contr[r] \in Fracs
      BY <1>7
    <3>2. \A r \in D : adds[r] \in Int /\ Same(contr[r], Frac(adds[r], Q))
      BY <1>7
    <3>3. Q \in Int
      BY <1>6
    <3> QED
      BY <1>6, <1>11, <1>12, <3>1, <3>2, <3>3, PlusTotals
  <2>4. OldGrad(key)' \in Fracs /\ Same(OldGrad(key)', Frac(Sum(next, D), Q))
    BY <1>11, <2>1, <2>2, <2>3
  <2> QED
    BY <1>15, <2>4 DEF D, Q
<1>14. CASE key \notin DOMAIN grad \cup touched
  <2>1. OldGrad(key)' = Zero /\ old = Zero
    BY <1>1, <1>14 DEF OldGrad
  <2>2. ASSUME NEW r \in D PROVE adds[r] = 0
    <3>1. SUFFICES ASSUME key[1] \in Part(r, pass[r]) PROVE FALSE
      BY DEF Adds
    <3>2. pass[r] \in DOMAIN SubBatches(r)
      BY <1>3 DEF InHand
    <3>3. PICK slot : RankLaid(r, pass[r], slot)
      BY <1>2, <3>2, RankParts DEF Dealt, Ready
    <3> DEFINE X == {x \in Keys(r) : KeyOf(r, x) = key}
    <3>4. X = {slot[key]}
      BY <1>2, <1>3, <3>1, <3>3, HandSlot DEF Ready, Askable
    <3>5. slot[key] \in Keys(r) /\ KeyOf(r, slot[key]) = key
      BY <3>4
    <3>6. key \in {KeyOf(r, s) : s \in Keys(r)}
      BY <3>5
    <3> QED
      BY <1>14, <3>6
  <2> HIDE DEF old, D, f, adds, Q, next
  <2>3. Sum(adds, D) = 0
    BY <1>6, <2>2, SumZero
  <2>4. Sum(next, D) = Sum(f, D)
    BY <1>11, <2>3
  <2>5. OldGrad(key)' \in Fracs /\ Same(OldGrad(key)', Frac(Sum(next, D), Q))
    BY <1>12, <2>1, <2>4
  <2> QED
    BY <1>15, <2>5 DEF D, Q
<1> QED
  BY <1>13, <1>14

LEMMA GradStarts == ASSUME PassInit PROVE GradInv
<1>1. PassInv
  BY PassStarts
<1>2. 0 \in DPRanks /\ \A r \in DPRanks : stage[r] = "idle" /\ pass[r] = 1 /\ grad = <<>>
  BY <1>1, SetupTyped DEF PassInit, PassInv
<1> QED
  BY <1>2 DEF GradInv, Untouched, NoPacks, Through, Growing, AtWork

LEMMA GradKept ==
    ASSUME PassInv, GradInv, [PassNext]_passVars
    PROVE  GradInv'
<1> USE DEF PassInv, GradInv
<1>0. 0 \in DPRanks
  BY SetupTyped
<1>1. CASE Reject \/ Parse
  <2>1. /\ \A r \in DPRanks : stage[r] = "idle"
        /\ UNCHANGED <<post, setup, stage, pass, grad>>
    BY <1>1 DEF Reject, Refuse, Parse, Parsed
  <2>2. DPRanks' = DPRanks
    BY <2>1 DEF DPRanks
  <2>3. \A r \in DPRanks' : stage'[r] = "idle" /\ pass'[r] = pass[r]
    BY <2>1, <2>2
  <2>4. Untouched'
    BY <1>0, <2>1, <2>2, <2>3 DEF Untouched
  <2>5. NoPacks' /\ Through'
    BY <2>3 DEF NoPacks, Through
  <2>6. Growing'
    BY <1>0, <2>2, <2>3 DEF Growing, AtWork
  <2> QED
    BY <2>4, <2>5, <2>6
<1>2. CASE Forward
  <2>1. /\ \A r \in DPRanks : stage[r] = "forward"
        /\ UNCHANGED <<post, setup, items, status, batches, pass, grad>>
        /\ stage' = [r \in DPRanks |-> IF LossFails(r) THEN "raised" ELSE "backward"]
    BY <1>2 DEF Forward
  <2>2. /\ DPRanks' = DPRanks /\ (Askable' <=> Askable) /\ All' = All
        /\ \A key : Due(key)' = Due(key) /\ Denom(0, key)' = Denom(0, key)
        /\ \A r : Packs(r)' <=> Packs(r)
        /\ \A r, b : Part(r, b)' = Part(r, b)
    BY <2>1, Frozen
  <2>3. \A r \in DPRanks : stage'[r] \in {"raised", "backward"} /\ (stage'[r] = "backward" => ~LossFails(r))
    BY <2>1
  <2>4. Untouched' /\ Through'
    BY <2>2, <2>3 DEF Untouched, Through
  <2>5. NoPacks'
    <3> SUFFICES ASSUME post.loss = "gspo", NEW r \in DPRanks, stage'[r] = "backward" PROVE ~Packs(r)
      BY <2>1, <2>2, <2>3 DEF NoPacks
    <3>1. ~LossFails(r)
      BY <2>3
    <3> QED
      BY <3>1 DEF LossFails, LossRaises
  <2>6. Growing'
    <3> SUFFICES ASSUME Askable, \A r \in DPRanks : stage'[r] = "backward", NEW key \in All
                 PROVE  Stands(key)'
      BY <2>2, <2>3 DEF Growing, AtWork
    <3>1. Stands(key)
      BY <2>1, Grown DEF AtWork
    <3>2. OldGrad(key)' = OldGrad(key)
      BY <2>1 DEF OldGrad
    <3>3. \A r \in DPRanks : Past(r)' = Past(r)
      BY <2>1 DEF Past
    <3>4. GivenSoFar(key)' = GivenSoFar(key)
      BY <2>2, <3>3 DEF GivenSoFar
    <3>5. Stands(key)' <=> /\ OldGrad(key)' \in Fracs
                           /\ Same(OldGrad(key)', Frac(Sum(GivenSoFar(key)', DPRanks'), Denom(0, key)'))
      BY DEF Stands
    <3> QED
      BY <2>2, <3>1, <3>2, <3>4, <3>5 DEF Stands
  <2> QED
    BY <2>4, <2>5, <2>6
<1>3. CASE Backward
  <2>1. /\ \A r \in DPRanks : stage[r] = "backward"
        /\ UNCHANGED <<post, setup, items, status, batches>>
        /\ stage' = [r \in DPRanks |-> IF pass[r] = Len(batches[r]) THEN "done" ELSE "forward"]
        /\ pass' = [r \in DPRanks |-> IF pass[r] = Len(batches[r]) THEN pass[r] ELSE pass[r] + 1]
    BY <1>3 DEF Backward
  <2>2. /\ DPRanks' = DPRanks /\ (Askable' <=> Askable) /\ All' = All
        /\ \A r : Packs(r)' <=> Packs(r)
    BY <2>1, Frozen
  <2>3. \A r : SubBatches(r)' = SubBatches(r)
    BY <2>1, Settled
  <2>4. \A r \in DPRanks : stage'[r] \in {"done", "forward"} /\ batches[r] = SubBatches(r)
    BY <2>1 DEF Taken, AtWork
  <2>5. Untouched'
    BY <2>2, <2>4 DEF Untouched
  <2>6. NoPacks'
    BY <2>1, <2>2 DEF NoPacks
  <2>7. Through'
    <3> SUFFICES ASSUME NEW r \in DPRanks, stage'[r] = "done" PROVE pass'[r] = Len(SubBatches(r))
      BY <2>2, <2>3 DEF Through
    <3>1. pass[r] = Len(batches[r])
      BY <2>1
    <3> QED
      BY <2>1, <2>4, <3>1
  <2>8. Growing'
    <3> SUFFICES ASSUME Askable, NEW key \in All PROVE Stands(key)'
      BY <2>2 DEF Growing
    <3> QED
      BY <1>3, BackwardStands
  <2> QED
    BY <2>5, <2>6, <2>7, <2>8
<1>4. ASSUME NEW r \in DPRanks, Prepare(r) PROVE GradInv'
  <2>1. stage[r] = "idle" /\ status = "queued" /\ UNCHANGED <<post, setup, items, status, pass, grad>>
    BY <1>4 DEF Prepare
  <2>2. stage' = [stage EXCEPT ![r] = IF PrepareRaises(r) THEN "raised" ELSE "forward"]
    BY <1>4 DEF Prepare
  <2>3. grad = <<>> /\ \A q \in DPRanks : pass[q] = 1 /\ stage[q] \in {"idle", "forward", "raised"}
    BY <2>1 DEF Untouched
  <2>4. DPRanks' = DPRanks
    BY <2>1 DEF DPRanks
  <2>5. \A q \in DPRanks : stage'[q] \in {"idle", "forward", "raised"} /\ pass'[q] = 1
    <3>1. stage \in [DPRanks -> {"idle", "forward", "backward", "done", "raised"}]
      BY DEF Taken
    <3> QED
      BY <2>1, <2>2, <2>3, <3>1
  <2>6. Untouched' /\ NoPacks' /\ Through'
    BY <2>1, <2>3, <2>4, <2>5 DEF Untouched, NoPacks, Through
  <2>7. Growing'
    <3> SUFFICES ASSUME \A q \in DPRanks : AtWork(q)' PROVE Fresh'
      BY <2>4 DEF Growing
    <3>1. \A q \in DPRanks : stage'[q] = "forward" /\ pass'[q] = 1
      BY <2>5 DEF AtWork
    <3>2. grad' = <<>>
      BY <2>1, <2>3
    <3> QED
      BY <2>4, <3>1, <3>2 DEF Fresh
  <2> QED
    BY <2>6, <2>7
<1>5. CASE UNCHANGED passVars
  <2>1. UNCHANGED <<post, setup, items, status>> /\ UNCHANGED <<stage, batches, pass, grad>>
    BY <1>5 DEF passVars
  <2>2. /\ DPRanks' = DPRanks /\ (Askable' <=> Askable) /\ All' = All
        /\ \A key : Due(key)' = Due(key) /\ Denom(0, key)' = Denom(0, key)
        /\ \A r : Packs(r)' <=> Packs(r)
        /\ \A r, b : Part(r, b)' = Part(r, b)
    BY <2>1, Frozen
  <2>3. \A r : SubBatches(r)' = SubBatches(r)
    BY <2>1, Settled
  <2>4. Untouched' /\ NoPacks' /\ Through'
    BY <2>1, <2>2, <2>3 DEF Untouched, NoPacks, Through
  <2>5. Growing'
    <3> SUFFICES ASSUME Askable, \A r \in DPRanks : AtWork(r), NEW key \in All PROVE Stands(key)'
      BY <2>1, <2>2 DEF Growing, AtWork
    <3>1. Stands(key)
      BY Grown
    <3>2. OldGrad(key)' = OldGrad(key)
      BY <2>1 DEF OldGrad
    <3>3. \A r \in DPRanks : Past(r)' = Past(r)
      BY <2>1 DEF Past
    <3>4. GivenSoFar(key)' = GivenSoFar(key)
      BY <2>2, <3>3 DEF GivenSoFar
    <3>5. Stands(key)' <=> /\ OldGrad(key)' \in Fracs
                           /\ Same(OldGrad(key)', Frac(Sum(GivenSoFar(key)', DPRanks'), Denom(0, key)'))
      BY DEF Stands
    <3> QED
      BY <2>2, <3>1, <3>2, <3>4, <3>5 DEF Stands
  <2> QED
    BY <2>4, <2>5
<1> QED
  BY <1>1, <1>2, <1>3, <1>4, <1>5 DEF PassNext

LEMMA GradAlways == PassSpec => []GradInv
<1>1. PassInit => GradInv
  BY GradStarts
<1>2. PassInv /\ GradInv /\ [PassNext]_passVars => GradInv'
  BY GradKept
<1> QED
  BY <1>1, <1>2, PassHolds, PTL DEF PassSpec

LEMMA WholeInTheEnd == ASSUME PassInv, GradInv PROVE GradientIsWhole
<1> SUFFICES ASSUME Finished, post.loss \in {"cross_entropy", "gspo"}, Uniform,
                    \A r, q \in DPRanks : Packs(r) = Packs(q), Packs(0) => Read = items,
                    Replicated \/ Even \/ post.loss = "gspo", NEW key \in All
             PROVE  Same(OldGrad(key), WantedGrad(key, All))
  BY DEF GradientIsWhole, All
<1>1. Askable
  BY DEF Askable, Whole
<1>2. \A r \in DPRanks : AtWork(r) /\ stage[r] = "done"
  BY DEF Finished, AtWork
<1>3. Ready /\ Stands(key)
  BY <1>1, <1>2, ReadyNow, Grown
<1>4. GivenSoFar(key) = GivenInAll(key)
  <2> SUFFICES ASSUME NEW r \in DPRanks
               PROVE  (\E b \in 1 .. Past(r) : key[1] \in Part(r, b)) <=> key[1] \in ToSet(MyShare(r))
    BY DEF GivenSoFar, GivenInAll
  <2>1. Past(r) = Len(SubBatches(r))
    BY <1>2 DEF Past, GradInv, Through
  <2>2. ~PrepareRaises(r) /\ Setting
    BY <1>3 DEF Ready
  <2>3. DOMAIN SubBatches(r) = 1 .. Len(SubBatches(r))
    BY <2>2, SubBatchesSome
  <2>4. Dealt(r)
    BY <2>2, RankParts
  <2> QED
    BY <2>1, <2>3, <2>4 DEF Dealt
<1>5. OldGrad(key) \in Fracs /\ Same(OldGrad(key), Frac(Sum(GivenInAll(key), DPRanks), Denom(0, key)))
  BY <1>3, <1>4 DEF Stands
<1> DEFINE g == OldGrad(key)
<1> HIDE DEF g
<1>6. Same(g, WantedGrad(key, All))
  BY <1>3, <1>5, WholeGradient DEF g
<1> QED
  BY <1>6 DEF g

(* The gradient of a finished request is that of the request on one rank in one forward:
   collating, packing, the scales of the sub-batches and the average over the ranks add
   nothing to it and take nothing from it. *)
THEOREM GradientArrivesWhole == PassSpec => []GradientIsWhole
<1>1. PassInv /\ GradInv => GradientIsWhole
  BY WholeInTheEnd
<1> QED
  BY <1>1, PassHolds, GradAlways, PTL
=============================================================================
