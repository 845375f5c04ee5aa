--------------------------- MODULE MCSessionState ---------------------------
(* Instances of SessionState for TLC: two sessions, l (LoRA) and f, on one *)
(* worker or on two with directories of their own.  A setup says what the  *)
(* service is like and what its clients may ask of it; a run's behaviours  *)
(* begin in any of the run's setups.                                       *)
EXTENDS SessionState
CONSTANTS l, f, w1, w2, disk1, disk2

Alone == [fullParam |-> {}, dirOf |-> [w \in {w1} |-> disk1], slots |-> 1,
          wide |-> {l}, careful |-> TRUE, maxFaults |-> 0,
          kinds |-> {"fb", "optim", "sample", "save", "load", "restore"},
          maxJobs |-> (l :> 6 @@ f :> 3)]

(* Evicted: two LoRA sessions in a cache of one slot.  Swapped: a full-    *)
(* parameter session beside a LoRA session, both cached, custom losses.    *)
Evicted == Alone
Swapped == [Alone EXCEPT !.fullParam = {f}, !.slots = 2,
              !.kinds = {"fb", "custom1", "custom2", "optim", "sample", "save", "load"},
              !.maxJobs = (l :> 3 @@ f :> 4), !.wide = {l, f}]
Undisturbed == {Evicted, Swapped}

(* Faulty: the pair in one slot, with one fault and careless clients.      *)
(* Longer: the same with one job more of f and one less of l.              *)
(* HandedOver: two workers with disks of their own, no fault.              *)
Faulty == [Alone EXCEPT !.fullParam = {f}, !.careful = FALSE, !.maxFaults = 1,
             !.kinds = {"fb", "optim", "sample", "load", "save"},
             !.maxJobs = (l :> 2 @@ f :> 3)]
Longer == [Faulty EXCEPT !.maxJobs = (l :> 1 @@ f :> 4)]
TwoDisks == [w \in {w1, w2} |-> IF w = w1 THEN disk1 ELSE disk2]
HandedOver == [Alone EXCEPT !.dirOf = TwoDisks, !.careful = FALSE,
                 !.maxJobs = (l :> 4 @@ f :> 1)]
Disturbed == {Faulty, Longer, HandedOver}

(* The setups of the runs that show a disagreement. *)
EachFour == (l :> 4 @@ f :> 4)
EachFive == (l :> 5 @@ f :> 5)
Checkpoints == [Alone EXCEPT !.slots = 2, !.careful = FALSE, !.maxJobs = EachFive]

Handoff == {[Alone EXCEPT !.dirOf = TwoDisks, !.slots = 2, !.maxJobs = EachFive,
               !.kinds = {"fb", "optim", "sample", "save"}]}
TornWrite == {[Alone EXCEPT !.maxFaults = 1, !.maxJobs = (l :> 3 @@ f :> 3),
                 !.kinds = {"fb", "optim", "sample"}]}
SecondCheckpoint ==
    {[Checkpoints EXCEPT !.kinds = {"fb", "optim", "sample", "save"}]}
LoadBetween == {[Checkpoints EXCEPT !.kinds = {"fb", "sample", "save", "load"}]}
FullParamEvicted == {[Alone EXCEPT !.fullParam = {f}, !.maxJobs = EachFour,
                        !.kinds = {"fb", "optim", "sample"}]}
TwoFullParam == {[Alone EXCEPT !.fullParam = {l, f}, !.slots = 2,
                    !.maxJobs = EachFour, !.kinds = {"fb", "optim", "sample"}]}
TwoSteps == {[Alone EXCEPT !.slots = 2, !.maxJobs = EachFour,
                !.kinds = {"fb", "optim", "sample"}]}
TokensDropped == {[Checkpoints EXCEPT !.maxJobs = EachFour,
                     !.kinds = {"fb", "optim", "sample", "save", "load"}]}
=============================================================================
