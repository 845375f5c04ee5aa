--------------------------- MODULE TrainerProofs ---------------------------
(***************************************************************************)
(* The base weights of the trainer, for any sessions: what is live belongs *)
(* to the active session, what is stashed or saved of a full-parameter     *)
(* session carries that session's steps only, a LoRA session is never      *)
(* active over a base that can be trained (Sound), and the live base of a  *)
(* full-parameter session has all the steps it stashed (Live).             *)
(*                                                                         *)
(* Every operation composes a few changes of the model (stash, restore,    *)
(* activate, attach); each of them keeps Sound, so the operations do.      *)
(*                                                                         *)
(* The second half shows that the trainer implements PrivateModels where   *)
(* none of the Uses occurs: Apart adds what each session's adapter,        *)
(* gradients and saved state carry, and every operation is then a step of  *)
(* the same name there, or moves nothing a session can see.                *)
(*                                                                         *)
(* The last part is about the samplers that serve what is trained.         *)
(***************************************************************************)
EXTENDS Trainer, SamplingBackends, FiniteSetTheorems, WellFoundedInduction, TLAPS

OwnSteps(s, h) == h \in Seq(Sessions) /\ \A i \in DOMAIN h : h[i] = s

IsNet(n) == DOMAIN n = {"base", "active", "kept", "lora", "adapter", "wrapped", "trainable",
                        "aside"}
Sound(n) ==
    /\ IsNet(n) /\ n.active \in Sessions \cup {None} /\ n.adapter \in Sessions \cup {None}
    /\ DOMAIN n.lora \subseteq Sessions /\ n.trainable \subseteq Sessions \cup {"base"}
    /\ \A f \in DOMAIN n.kept : f \in Sessions /\ Full(f) /\ OwnSteps(f, n.kept[f])
    /\ n.aside \in BOOLEAN
    /\ IF n.active # None /\ Full(n.active) THEN OwnSteps(n.active, n.base)
       ELSE n.base = <<>> /\ ~ n.aside
    /\ n.active # None /\ ~ Full(n.active) => "base" \notin n.trainable
    /\ setting.coreDP => n.active = None \/ ~ Full(n.active)

Inv ==
    /\ Sound(net)
    /\ specs \subseteq Sessions
    /\ \A s \in specs : Full(s) => s \in DOMAIN net.kept /\ ~ setting.coreDP
    /\ DOMAIN saved = Sessions
    /\ \A s \in Sessions : Full(s) /\ saved[s] # None =>
          saved[s].weights = None \/ OwnSteps(s, saved[s].weights)
-----------------------------------------------------------------------------
LEMMA Distinct == /\ None \notin Sessions /\ "base" \notin Sessions /\ "plain" \notin Sessions
                  /\ "wrapped" \notin Sessions
BY BoundsAssumption

LEMMA Untrained == \A s : OwnSteps(s, <<>>)
BY DEF OwnSteps

(* The live weights go to the stash of the session they belong to. *)
LEMMA StashedSound ==
    ASSUME NEW n, Sound(n)
    PROVE  /\ Sound(Stashed(n)) /\ DOMAIN Stashed(n).kept = DOMAIN n.kept
           /\ Stashed(n).active = n.active
<1>1. CASE n.active = None \/ n.active \notin DOMAIN n.kept
  BY <1>1 DEF Stashed
<1>2. CASE ~ (n.active = None \/ n.active \notin DOMAIN n.kept)
  <2>1. OwnSteps(n.active, n.base)
    BY <1>2, Untrained DEF Sound
  <2>2. Stashed(n) = [n EXCEPT !.kept = With(@, n.active, n.base)]
    BY <1>2 DEF Stashed
  <2>3. DOMAIN Stashed(n).kept = DOMAIN n.kept
    BY <1>2, <2>2 DEF With, Sound, IsNet
  <2>4. \A f \in DOMAIN n.kept : OwnSteps(f, Stashed(n).kept[f])
    BY <2>1, <2>2 DEF With, Sound, IsNet
  <2> QED
    BY <2>2, <2>3, <2>4 DEF Sound, IsNet
<1> QED
  BY <1>1, <1>2

(* Under a sharded base that is not copied back, no full-parameter session was there. *)
LEMMA PristineSound ==
    ASSUME NEW n, Sound(n)
    PROVE  /\ Sound(Pristine(n)) /\ Pristine(n).base = <<>> /\ Pristine(n).kept = n.kept
           /\ Pristine(n).active = n.active /\ Pristine(n).lora = n.lora
           /\ Sound([Pristine(n) EXCEPT !.active = None, !.aside = FALSE])
<1>1. CASE setting.coreDP /\ planned
  BY <1>1 DEF Pristine, Sound, IsNet
<1>2. CASE ~ (setting.coreDP /\ planned)
  BY <1>2, Untrained DEF Pristine, Sound, IsNet
<1> QED
  BY <1>1, <1>2

LEMMA SetAdapterSound ==
    ASSUME NEW n, Sound(n), NEW s \in Sessions
    PROVE  /\ Sound(SetAdapter(n, s)) /\ SetAdapter(n, s).kept = n.kept
           /\ SetAdapter(n, s).active = n.active /\ SetAdapter(n, s).base = n.base
           /\ SetAdapter(n, s).aside = n.aside
<1> DEFINE x == SetAdapter(n, s)
           t == (n.trainable \cap {"base"}) \cup {s}
<1>2. t \subseteq Sessions \cup {"base"} /\ ("base" \in t => "base" \in n.trainable)
  BY Distinct
<1>3. /\ IsNet(x) /\ x.base = n.base /\ x.active = n.active /\ x.kept = n.kept
      /\ x.lora = n.lora /\ x.adapter = s /\ x.trainable = t /\ x.aside = n.aside
  BY DEF SetAdapter, Sound, IsNet
<1> HIDE DEF x, t
<1>4. Sound(x)
  BY <1>2, <1>3 DEF Sound
<1> QED
  BY <1>3, <1>4 DEF x

(* A session is loaded: its own weights are live, and only what it trains is trainable. *)
LEMMA ActivatedSound ==
    ASSUME NEW n, Sound(n), NEW s \in Sessions,
           Full(s) => s \in DOMAIN n.kept /\ ~ setting.coreDP
    PROVE  /\ Sound(Activated(n, s)) /\ Activated(n, s).active = s
           /\ DOMAIN Activated(n, s).kept = DOMAIN n.kept
           /\ n.active # s => ~ Activated(n, s).aside
           /\ n.active = s => Activated(n, s).aside = n.aside
<1>0. Sound(Stashed(n)) /\ DOMAIN Stashed(n).kept = DOMAIN n.kept
  BY StashedSound
<1>1. CASE n.active # s /\ Full(s)
  <2> DEFINE live == [Restored(Stashed(n), s) EXCEPT !.active = s, !.aside = FALSE]
  <2>1. Activated(n, s) = [live EXCEPT !.trainable = {"base"}]
    BY <1>1 DEF Activated, Swapped, Trainable
  <2>2. OwnSteps(s, Stashed(n).kept[s])
    BY <1>0, <1>1 DEF Sound
  <2> DEFINE x == Activated(n, s)
             m == Stashed(n)
  <2>4. /\ IsNet(x) /\ x.base = m.kept[s] /\ x.active = s /\ x.kept = m.kept
        /\ x.lora = m.lora /\ x.adapter = m.adapter /\ x.trainable = {"base"} /\ x.aside = FALSE
    BY <1>0, <2>1 DEF Restored, Sound, IsNet
  <2> HIDE DEF x
  <2>5. Sound(x)
    BY <1>0, <1>1, <2>2, <2>4, Distinct DEF Sound
  <2> QED
    BY <1>0, <1>1, <2>4, <2>5 DEF x
<1>2. CASE n.active # s /\ ~ Full(s)
  <2> DEFINE p == Pristine(Stashed(n))
  <2>1. Sound(p) /\ p.base = <<>> /\ DOMAIN p.kept = DOMAIN n.kept
    BY <1>0, PristineSound
  <2>2. Activated(n, s)
           = SetAdapter([[p EXCEPT !.active = s, !.aside = FALSE] EXCEPT !.trainable = {}], s)
    BY <1>2 DEF Activated, Swapped, Trainable
  <2> HIDE DEF p
  <2> DEFINE x == [[p EXCEPT !.active = s, !.aside = FALSE] EXCEPT !.trainable = {}]
  <2>4. /\ IsNet(x) /\ x.base = p.base /\ x.active = s /\ x.kept = p.kept
        /\ x.lora = p.lora /\ x.adapter = p.adapter /\ x.trainable = {} /\ x.aside = FALSE
    BY <2>1 DEF Sound, IsNet
  <2>5. Sound(x)
    BY <1>2, <2>1, <2>4 DEF Sound
  <2>6. Activated(n, s) = SetAdapter(x, s)
    BY <2>2
  <2> HIDE DEF x
  <2> QED
    BY <1>2, <2>1, <2>4, <2>5, <2>6, SetAdapterSound
<1>3. CASE n.active = s
  BY <1>3, SetAdapterSound DEF Activated
<1> QED
  BY <1>1, <1>2, <1>3

LEMMA PassedSound ==
    ASSUME NEW n, Sound(n), NEW s \in Sessions
    PROVE  /\ Sound(Passed(n, s)) /\ Passed(n, s).kept = n.kept
           /\ Passed(n, s).active = n.active /\ Passed(n, s).base = n.base
           /\ Passed(n, s).aside = n.aside
BY SetAdapterSound DEF Passed, Reenabled, Sound

LEMMA AttachedSound ==
    ASSUME NEW n, Sound(n), NEW s \in Sessions, Full(s) /\ s \in specs => s \in DOMAIN n.kept
    PROVE  /\ Sound(Attached(n, s)) /\ DOMAIN n.kept \subseteq DOMAIN Attached(n, s).kept
           /\ Full(s) => s \in DOMAIN Attached(n, s).kept
           /\ ~ Full(s) => /\ Attached(n, s).active = n.active /\ Attached(n, s).base = <<>>
                           /\ n.active \in DOMAIN n.kept => Attached(n, s).aside
<1>1. CASE Full(s) /\ s \in specs
  BY <1>1 DEF Attached, AttachedFull
<1>2. CASE Full(s) /\ s \notin specs
  <2>1. Attached(n, s) = [n EXCEPT !.kept = With(@, s, <<>>)]
    BY <1>2 DEF Attached, AttachedFull
  <2>2. \A f \in DOMAIN With(n.kept, s, <<>>) :
          f \in Sessions /\ Full(f) /\ OwnSteps(f, With(n.kept, s, <<>>)[f])
    BY <1>2, Untrained DEF With, Sound
  <2>3. DOMAIN With(n.kept, s, <<>>) = DOMAIN n.kept \cup {s}
    BY DEF With
  <2> QED
    BY <1>2, <2>1, <2>2, <2>3 DEF Sound, IsNet
<1>3. CASE ~ Full(s)
  <2> DEFINE q == Pristine(Stashed(n))
             p == [q EXCEPT !.aside = @ \/ n.active \in DOMAIN n.kept]
  <2>1. Sound(q) /\ q.base = <<>> /\ DOMAIN q.kept = DOMAIN n.kept /\ q.active = n.active
    BY StashedSound, PristineSound
  <2>2. Attached(n, s) = IF s \in DOMAIN n.lora THEN SetAdapter(p, s) ELSE NewAdapter(p, s)
    BY <1>3 DEF Attached, AttachedLora
  <2> HIDE DEF q
  <2>3. /\ IsNet(p) /\ p.base = <<>> /\ p.active = n.active /\ p.kept = q.kept
        /\ p.lora = q.lora /\ p.adapter = q.adapter /\ p.trainable = q.trainable
        /\ p.aside = (q.aside \/ n.active \in DOMAIN n.kept)
    BY <2>1 DEF Sound, IsNet
  <2> HIDE DEF p
  <2>4. Sound(p)
    BY <2>1, <2>3, Distinct DEF Sound
  <2>5. DOMAIN With(p.lora, s, <<>>) = DOMAIN p.lora \cup {s}
    BY DEF With
  <2>6. /\ Sound(NewAdapter(p, s)) /\ NewAdapter(p, s).kept = p.kept
        /\ NewAdapter(p, s).active = p.active /\ NewAdapter(p, s).base = p.base
        /\ NewAdapter(p, s).aside = p.aside
    <3> DEFINE x == NewAdapter(p, s)
    <3>2. /\ IsNet(x) /\ x.base = p.base /\ x.active = p.active /\ x.kept = p.kept
          /\ x.lora = With(p.lora, s, <<>>) /\ x.adapter = s /\ x.trainable = {s}
          /\ x.aside = p.aside
      BY <2>4 DEF NewAdapter, Sound, IsNet
    <3> HIDE DEF x
    <3>3. Sound(x)
      BY <2>4, <2>5, <3>2, Distinct DEF Sound
    <3> QED
      BY <3>2, <3>3 DEF x
  <2>7. /\ Sound(SetAdapter(p, s)) /\ SetAdapter(p, s).kept = p.kept
        /\ SetAdapter(p, s).active = p.active /\ SetAdapter(p, s).base = p.base
        /\ SetAdapter(p, s).aside = p.aside
    BY <2>4, SetAdapterSound
  <2> DEFINE m == Attached(n, s)
  <2>8. /\ Sound(m) /\ m.kept = p.kept /\ m.active = p.active /\ m.base = p.base
        /\ m.aside = p.aside
    BY <2>2, <2>6, <2>7
  <2> HIDE DEF m, p, q
  <2>9. /\ Sound(m) /\ DOMAIN n.kept \subseteq DOMAIN m.kept /\ m.active = n.active
        /\ m.base = <<>> /\ (n.active \in DOMAIN n.kept => m.aside)
    BY <2>1, <2>3, <2>8
  <2> QED
    BY <1>3, <2>9 DEF m
<1> QED
  BY <1>1, <1>2, <1>3
-----------------------------------------------------------------------------
(* What a step has to show, when it leaves the setting alone. *)
LEMMA KeepsInv ==
    ASSUME Inv, setting' = setting, Sound(net'), specs' \subseteq Sessions,
           \A s \in specs' : Full(s) => s \in DOMAIN net'.kept /\ ~ setting.coreDP,
           DOMAIN saved' = Sessions,
           \A s \in Sessions : Full(s) /\ saved'[s] # None =>
              saved'[s].weights = None \/ OwnSteps(s, saved'[s].weights)
    PROVE  Inv'
BY DEF Inv, Sound, Full, IsNet

(* What activating a session leaves of it, whatever operation asked. *)
LEMMA InvActivates ==
    ASSUME Inv, NEW s \in specs
    PROVE  /\ s \in Sessions
           /\ Sound(Activated(net, s)) /\ Activated(net, s).active = s
           /\ DOMAIN Activated(net, s).kept = DOMAIN net.kept
<1>1. s \in Sessions /\ Sound(net) /\ (Full(s) => s \in DOMAIN net.kept /\ ~ setting.coreDP)
  BY DEF Inv
<1> QED
  BY <1>1, ActivatedSound

LEMMA InvAttaches ==
    ASSUME Inv, NEW s \in Sessions
    PROVE  /\ Sound(Attached(net, s)) /\ DOMAIN net.kept \subseteq DOMAIN Attached(net, s).kept
           /\ Full(s) => s \in DOMAIN Attached(net, s).kept
<1>1. Sound(net) /\ (Full(s) /\ s \in specs => s \in DOMAIN net.kept)
  BY DEF Inv
<1> QED
  BY <1>1, AttachedSound

LEMMA AttachKeepsInv ==
    ASSUME Inv, NEW s \in Sessions, Attach(s)
    PROVE  Inv'
<1>1. Sound(net') /\ \A f \in specs' : Full(f) => f \in DOMAIN net'.kept /\ ~ setting.coreDP
  BY InvAttaches DEF Inv, Attach, Accepts
<1> QED
  BY <1>1, KeepsInv DEF Inv, Attach

LEMMA PlanFailsKeepsInv ==
    ASSUME Inv, NEW s \in Sessions, PlanFails(s)
    PROVE  Inv'
<1>1. Sound(net') /\ \A f \in specs' : Full(f) => f \in DOMAIN net'.kept /\ ~ setting.coreDP
  BY InvAttaches DEF Inv, PlanFails, Plans
<1> QED
  BY <1>1, KeepsInv DEF Inv, PlanFails

LEMMA InitStateKeepsInv ==
    ASSUME Inv, NEW s \in Sessions, InitState(s)
    PROVE  Inv'
<1>1. Sound(net') /\ \A f \in specs' : Full(f) => f \in DOMAIN net'.kept /\ ~ setting.coreDP
  BY InvAttaches DEF Inv, InitState, Accepts
<1>2. \A f \in Sessions : Full(f) /\ saved'[f] # None =>
         saved'[f].weights = None \/ OwnSteps(f, saved'[f].weights)
  BY DEF Inv, InitState
<1> QED
  BY <1>1, <1>2, KeepsInv DEF Inv, InitState

(* Leaving: the session's weights go, and the base is pristine if they were live. *)
LEMMA ReleasedSound ==
    ASSUME NEW n, Sound(n), NEW s
    PROVE  Sound(Released(n, s)) /\ Released(n, s).kept = n.kept
<1>1. /\ Sound([Pristine(n) EXCEPT !.active = None, !.aside = FALSE]) /\ Sound(Pristine(n))
      /\ Pristine(n).kept = n.kept
  BY PristineSound
<1>2. [Pristine(n) EXCEPT !.active = None, !.aside = FALSE].kept = Pristine(n).kept
  BY <1>1 DEF Sound, IsNet
<1> QED
  BY <1>1, <1>2 DEF Released

LEMMA DetachedSound ==
    ASSUME NEW n, Sound(n), NEW s \in Sessions, NEW next \in Sessions \cup {None}
    PROVE  Sound(DetachedLora(n, s, next)) /\ DetachedLora(n, s, next).kept = n.kept
<1> DEFINE rest == [n EXCEPT !.lora = Dropped(n, s), !.trainable = @ \ {s}]
<1>1. DOMAIN Dropped(n, s) = DOMAIN n.lora \ {s}
  BY DEF Dropped, Without
<1>2. /\ IsNet(rest) /\ rest.base = n.base /\ rest.active = n.active /\ rest.kept = n.kept
      /\ rest.lora = Dropped(n, s) /\ rest.adapter = n.adapter
      /\ rest.trainable = n.trainable \ {s} /\ rest.aside = n.aside
  BY DEF Sound, IsNet
<1>3. DetachedLora(n, s, next) =
         IF n.adapter # s THEN rest
         ELSE IF next = None THEN [rest EXCEPT !.adapter = None] ELSE SetAdapter(rest, next)
  BY DEF DetachedLora
<1> HIDE DEF rest
<1>4. Sound(rest)
  BY <1>1, <1>2 DEF Sound
<1>5. Sound([rest EXCEPT !.adapter = None]) /\ [rest EXCEPT !.adapter = None].kept = rest.kept
  BY <1>4 DEF Sound, IsNet
<1>6. next # None => Sound(SetAdapter(rest, next)) /\ SetAdapter(rest, next).kept = rest.kept
  BY <1>4, SetAdapterSound
<1> QED
  BY <1>2, <1>3, <1>4, <1>5, <1>6

LEMMA DetachKeepsInv ==
    ASSUME Inv, NEW s \in Sessions, Detach(s)
    PROVE  Inv'
<1>1. PICK next \in (IF DOMAIN net.lora \subseteq {s} THEN {None} ELSE DOMAIN net.lora \ {s}) :
         net' = Released(IF Full(s) THEN [net EXCEPT !.kept = Without(@, s)]
                                    ELSE DetachedLora(net, s, next), s)
  BY DEF Detach
<1> DEFINE rest == IF Full(s) THEN [net EXCEPT !.kept = Without(@, s)]
                              ELSE DetachedLora(net, s, next)
<1>2. Sound(rest) /\ DOMAIN net.kept \ {s} \subseteq DOMAIN rest.kept
  <2>1. CASE Full(s)
    <3>1. \A f \in DOMAIN Without(net.kept, s) :
             f \in Sessions /\ Full(f) /\ OwnSteps(f, Without(net.kept, s)[f])
      BY DEF Inv, Sound, Without
    <3>2. DOMAIN Without(net.kept, s) = DOMAIN net.kept \ {s}
      BY DEF Without
    <3> QED
      BY <2>1, <3>1, <3>2 DEF Inv, Sound, IsNet
  <2>2. CASE ~ Full(s)
    <3>1. next \in Sessions \cup {None} /\ Sound(net)
      BY DEF Inv, Sound
    <3> QED
      BY <2>2, <3>1, DetachedSound
  <2> QED
    BY <2>1, <2>2
<1>3. Sound(net') /\ net'.kept = rest.kept
  BY <1>1, <1>2, ReleasedSound
<1> HIDE DEF rest
<1>4. \A f \in specs' : Full(f) => f \in DOMAIN net'.kept /\ ~ setting.coreDP
  BY <1>2, <1>3 DEF Inv, Detach
<1> QED
  BY <1>3, <1>4, KeepsInv DEF Inv, Detach

(* Loading a saved state: a full-parameter one carries its session's steps only. *)
LEMMA LoadedSound ==
    ASSUME NEW n, Sound(n), NEW s \in Sessions, NEW state,
           Full(s) => state.weights = None \/ OwnSteps(s, state.weights)
    PROVE  Sound(Loaded(n, s, state)) /\ DOMAIN n.kept \subseteq DOMAIN Loaded(n, s, state).kept
<1>1. CASE ~ Full(s)
  <2>1. DOMAIN With(n.lora, s, state.weights) = DOMAIN n.lora \cup {s}
    BY DEF With
  <2> QED
    BY <1>1, <2>1 DEF Loaded, Sound, IsNet
<1>2. CASE Full(s) /\ state.weights = None
  BY <1>2 DEF Loaded, LoadedFull
<1>3. CASE Full(s) /\ state.weights # None
  <2> DEFINE x == Loaded(n, s, state)
             k == With(n.kept, s, state.weights)
             b == IF n.active = s THEN state.weights ELSE n.base
  <2>1. x = [n EXCEPT !.kept = k, !.base = b]
    BY <1>3 DEF Loaded, LoadedFull
  <2>2. /\ IsNet(x) /\ x.base = b /\ x.active = n.active /\ x.kept = k
        /\ x.lora = n.lora /\ x.adapter = n.adapter /\ x.trainable = n.trainable
        /\ x.aside = n.aside
    BY <2>1 DEF Sound, IsNet
  <2>3. /\ DOMAIN k = DOMAIN n.kept \cup {s}
        /\ \A f \in DOMAIN k : f \in Sessions /\ Full(f) /\ OwnSteps(f, k[f])
    BY <1>3 DEF With, Sound
  <2> HIDE DEF x, k
  <2>4. IF n.active # None /\ Full(n.active) THEN OwnSteps(n.active, b)
        ELSE b = <<>> /\ ~ n.aside
    BY <1>3, Distinct DEF Sound
  <2> HIDE DEF b
  <2>5. Sound(x)
    BY <2>2, <2>3, <2>4 DEF Sound
  <2> QED
    BY <2>2, <2>3, <2>5 DEF x
<1> QED
  BY <1>1, <1>2, <1>3

LEMMA LoadStateKeepsInv ==
    ASSUME Inv, NEW s \in Sessions, LoadState(s)
    PROVE  Inv'
<1> DEFINE n == Attached(net, s)
<1>1. /\ Sound(n) /\ DOMAIN net.kept \subseteq DOMAIN n.kept
      /\ Full(s) => s \in DOMAIN n.kept
  BY InvAttaches
<1>2. Full(s) => saved[s].weights = None \/ OwnSteps(s, saved[s].weights)
  BY DEF Inv, LoadState
<1>3. net' = Loaded(n, s, saved[s])
  BY DEF LoadState
<1> HIDE DEF n
<1>4. Sound(net') /\ DOMAIN n.kept \subseteq DOMAIN net'.kept
  BY <1>1, <1>2, <1>3, LoadedSound
<1>5. \A f \in specs' : Full(f) => f \in DOMAIN net'.kept /\ ~ setting.coreDP
  BY <1>1, <1>4 DEF Inv, LoadState, Accepts
<1> QED
  BY <1>4, <1>5, KeepsInv DEF Inv, LoadState

LEMMA ExtractStateKeepsInv ==
    ASSUME Inv, NEW s \in Sessions, ExtractState(s)
    PROVE  Inv'
<1>1. Full(s) => OwnSteps(s, Weights(s))
  BY Distinct DEF ExtractState, Inv, Sound, Weights
<1>2. \A f \in Sessions : Full(f) /\ saved'[f] # None =>
         saved'[f].weights = None \/ OwnSteps(f, saved'[f].weights)
  BY <1>1 DEF Inv, ExtractState
<1> QED
  BY <1>2, KeepsInv DEF Inv, ExtractState

LEMMA PassKeepsInv ==
    ASSUME Inv, NEW s \in Sessions, ForwardBackward(s) \/ Compute(s) \/ StepRefused(s)
    PROVE  Inv'
<1>1. s \in specs /\ UNCHANGED <<setting, specs, saved>>
  BY DEF ForwardBackward, Compute, StepRefused
<1>2. net' = Passed(Activated(net, s), s) \/ net' = Activated(net, s)
  BY DEF ForwardBackward, Compute, StepRefused
<1>3. /\ Sound(Activated(net, s)) /\ DOMAIN Activated(net, s).kept = DOMAIN net.kept
  BY <1>1, InvActivates
<1>4. Sound(net') /\ DOMAIN net'.kept = DOMAIN net.kept
  BY <1>2, <1>3, PassedSound
<1> QED
  BY <1>1, <1>4, KeepsInv DEF Inv

(* An optimizer step touches the base only when a full-parameter session is the active
   one: for a LoRA session no base parameter is trainable. *)
LEMMA OptimStepKeepsInv ==
    ASSUME Inv, NEW s \in Sessions, OptimStep(s)
    PROVE  Inv'
<1> DEFINE n == Activated(net, s)
           names == ParamNames(n)
           x == Moved(n, s, names)
<1>1. Sound(n) /\ n.active = s /\ DOMAIN n.kept = DOMAIN net.kept
  BY InvActivates DEF OptimStep
<1>2. net' = x
  BY DEF OptimStep
<1>3. ~ Full(s) => names \ Sessions = {}
  BY <1>1, Distinct DEF ParamNames, Sound
<1> HIDE DEF n, names
<1>4. /\ IsNet(x) /\ x.active = s /\ x.kept = n.kept /\ x.adapter = n.adapter
      /\ x.trainable = n.trainable /\ DOMAIN x.lora = DOMAIN n.lora /\ x.aside = n.aside
      /\ \/ x.base = n.base
         \/ names \ Sessions # {} /\ x.base = Append(n.base, s)
  BY <1>1 DEF Moved, Sound, IsNet
<1>5. Full(s) => OwnSteps(s, Append(n.base, s))
  BY <1>1, Distinct DEF Sound, OwnSteps
<1> HIDE DEF x
<1>6. Sound(x)
  BY <1>1, <1>3, <1>4, <1>5, Distinct DEF Sound
<1> QED
  BY <1>1, <1>2, <1>4, <1>6, KeepsInv DEF Inv, OptimStep
-----------------------------------------------------------------------------
LEMMA InitInv == Init => Inv
BY Distinct DEF Init, Inv, Sound, IsNet, NoGrads, Full

LEMMA NextInv == Inv /\ [Next]_vars => Inv'
<1> SUFFICES ASSUME Inv, [Next]_vars PROVE Inv'
  OBVIOUS
<1>1. CASE UNCHANGED vars
  BY <1>1, KeepsInv DEF vars, Inv
<1>2. CASE Next
  <2>1. PICK s \in Sessions :
          \/ Attach(s) \/ PlanFails(s) \/ InitState(s) \/ Detach(s) \/ LoadState(s)
          \/ ExtractState(s) \/ ForwardBackward(s) \/ Compute(s) \/ OptimStep(s)
          \/ StepRefused(s)
    BY <1>2 DEF Next
  <2> QED
    BY <2>1, AttachKeepsInv, PlanFailsKeepsInv, InitStateKeepsInv, DetachKeepsInv,
       LoadStateKeepsInv, ExtractStateKeepsInv, PassKeepsInv, OptimStepKeepsInv
<1> QED
  BY <1>1, <1>2

(* The live base of a full-parameter session has every step it stashed, or an adapter has
   the base. Only an optimizer step could break it, and none runs over a base set aside. *)
Live(n) ==
    n.active # None /\ Full(n.active) =>
        /\ n.active \in DOMAIN n.kept
        /\ Len(n.kept[n.active]) <= Len(n.base) \/ (n.aside /\ n.base = <<>>)

LEMMA StepsCounted == ASSUME NEW s, NEW h, OwnSteps(s, h) PROVE Len(h) \in Nat
BY DEF OwnSteps

LEMMA StashedLive ==
    ASSUME NEW n, Sound(n), Live(n) PROVE Live(Stashed(n))
<1>1. CASE n.active = None \/ n.active \notin DOMAIN n.kept
  BY <1>1 DEF Stashed
<1>2. CASE n.active # None /\ n.active \in DOMAIN n.kept
  <2> DEFINE m == Stashed(n)
  <2>1. m.active = n.active /\ m.base = n.base /\ m.kept = With(n.kept, n.active, n.base)
    BY <1>2 DEF Stashed, Sound, IsNet
  <2>2. n.active \in DOMAIN m.kept /\ m.kept[n.active] = n.base /\ OwnSteps(n.active, n.base)
    BY <1>2, <2>1, Untrained DEF With, Sound
  <2> HIDE DEF m
  <2>3. Len(n.base) \in Nat
    BY <2>2, StepsCounted
  <2>4. Live(m)
    BY <2>1, <2>2, <2>3 DEF Live
  <2> QED
    BY <2>4 DEF m
<1> QED
  BY <1>1, <1>2

LEMMA SetAdapterLive ==
    ASSUME NEW n, Sound(n), Live(n), NEW s \in Sessions PROVE Live(SetAdapter(n, s))
BY SetAdapterSound DEF Live

LEMMA ActivatedLive ==
    ASSUME NEW n, Sound(n), Live(n), NEW s \in Sessions,
           Full(s) => s \in DOMAIN n.kept /\ ~ setting.coreDP
    PROVE  Live(Activated(n, s))
<1>1. CASE n.active # s /\ Full(s)
  <2> DEFINE m == Activated(n, s)
             x == Stashed(n)
  <2>0. Sound(x) /\ DOMAIN x.kept = DOMAIN n.kept
    BY StashedSound
  <2>1. m.base = x.kept[s] /\ m.kept = x.kept /\ m.active = s
    BY <1>1, <2>0 DEF Activated, Swapped, Trainable, Restored, Sound, IsNet
  <2>2. s \in DOMAIN x.kept /\ OwnSteps(s, x.kept[s])
    BY <1>1, <2>0 DEF Sound
  <2> HIDE DEF m, x
  <2>3. Len(x.kept[s]) \in Nat
    BY <2>2, StepsCounted
  <2>4. Live(m)
    BY <2>1, <2>2, <2>3 DEF Live
  <2> QED
    BY <2>4 DEF m
<1>2. CASE ~ Full(s)
  BY <1>2, ActivatedSound DEF Live
<1>3. CASE n.active = s /\ Full(s)
  BY <1>3 DEF Activated
<1> QED
  BY <1>1, <1>2, <1>3

LEMMA PassedLive ==
    ASSUME NEW n, Sound(n), Live(n), NEW s \in Sessions PROVE Live(Passed(n, s))
BY PassedSound DEF Live

LEMMA AttachedLive ==
    ASSUME NEW n, Sound(n), Live(n), NEW s \in Sessions,
           Full(s) /\ s \in specs => s \in DOMAIN n.kept
    PROVE  Live(Attached(n, s))
<1>1. CASE Full(s) /\ s \in specs
  BY <1>1 DEF Attached, AttachedFull
<1>2. CASE Full(s) /\ s \notin specs
  <2> DEFINE m == Attached(n, s)
  <2>1. /\ m.kept = With(n.kept, s, <<>>) /\ m.base = n.base /\ m.active = n.active
        /\ m.aside = n.aside
    BY <1>2 DEF Attached, AttachedFull, Sound, IsNet
  <2>2. /\ DOMAIN m.kept = DOMAIN n.kept \cup {s} /\ m.kept[s] = <<>>
        /\ \A f \in DOMAIN n.kept : f # s => m.kept[f] = n.kept[f]
    BY <2>1 DEF With
  <2>3. n.active # None /\ Full(n.active) => Len(n.base) \in Nat
    BY StepsCounted DEF Sound
  <2> HIDE DEF m
  <2>4. Live(m)
    BY <2>1, <2>2, <2>3 DEF Live
  <2> QED
    BY <2>4 DEF m
<1>3. CASE ~ Full(s)
  <2> DEFINE m == Attached(n, s)
  <2>1. /\ m.active = n.active /\ m.base = <<>> /\ (n.active \in DOMAIN n.kept => m.aside)
        /\ DOMAIN n.kept \subseteq DOMAIN m.kept
    BY <1>3, AttachedSound
  <2> HIDE DEF m
  <2>2. Live(m)
    BY <2>1 DEF Live
  <2> QED
    BY <2>2 DEF m
<1> QED
  BY <1>1, <1>2, <1>3

LEMMA LoadedLive ==
    ASSUME NEW n, Sound(n), Live(n), NEW s \in Sessions, NEW state,
           Full(s) => state.weights = None \/ OwnSteps(s, state.weights)
    PROVE  Live(Loaded(n, s, state))
<1> DEFINE m == Loaded(n, s, state)
<1>1. CASE ~ Full(s)
  <2>1. m.active = n.active /\ m.base = n.base /\ m.kept = n.kept /\ m.aside = n.aside
    BY <1>1 DEF Loaded, Sound, IsNet
  <2> HIDE DEF m
  <2>2. Live(m)
    BY <2>1 DEF Live
  <2> QED
    BY <2>2 DEF m
<1>2. CASE Full(s) /\ state.weights = None
  BY <1>2 DEF Loaded, LoadedFull
<1>3. CASE Full(s) /\ state.weights # None
  <2>1. /\ m.active = n.active /\ m.kept = With(n.kept, s, state.weights)
        /\ m.base = IF n.active = s THEN state.weights ELSE n.base
        /\ m.aside = n.aside
    BY <1>3 DEF Loaded, LoadedFull, Sound, IsNet
  <2>2. /\ DOMAIN m.kept = DOMAIN n.kept \cup {s} /\ m.kept[s] = state.weights
        /\ \A f \in DOMAIN n.kept : f # s => m.kept[f] = n.kept[f]
    BY <2>1 DEF With
  <2>3. Len(state.weights) \in Nat
    BY <1>3, StepsCounted
  <2> HIDE DEF m
  <2>4. Live(m)
    BY <2>1, <2>2, <2>3 DEF Live
  <2> QED
    BY <2>4 DEF m
<1> QED
  BY <1>1, <1>2, <1>3

LEMMA LeftLive ==
    ASSUME NEW n, Sound(n), Live(n), NEW s \in Sessions, NEW next \in Sessions \cup {None}
    PROVE  Live(Released(IF Full(s) THEN [n EXCEPT !.kept = Without(@, s)]
                                    ELSE DetachedLora(n, s, next), s))
<1> DEFINE rest == IF Full(s) THEN [n EXCEPT !.kept = Without(@, s)]
                              ELSE DetachedLora(n, s, next)
<1>1. /\ rest.active = n.active /\ rest.base = n.base /\ rest.aside = n.aside
      /\ rest.kept = IF Full(s) THEN Without(n.kept, s) ELSE n.kept
      /\ IsNet(rest)
  BY DEF DetachedLora, SetAdapter, Sound, IsNet
<1> HIDE DEF rest
<1>2. CASE n.active = s
  <2>1. [Pristine(rest) EXCEPT !.active = None, !.aside = FALSE].active = None
    BY <1>1 DEF Pristine, IsNet
  <2> QED
    BY <1>1, <1>2, <2>1 DEF Released, Live, rest
<1>3. CASE n.active # s
  <2>1. n.active \in DOMAIN n.kept =>
           n.active \in DOMAIN rest.kept /\ rest.kept[n.active] = n.kept[n.active]
    BY <1>1, <1>3 DEF Without
  <2>2. Live(rest)
    BY <1>1, <2>1 DEF Live
  <2>3. Released(rest, s) = rest
    BY <1>1, <1>3 DEF Released
  <2> QED
    BY <2>2, <2>3 DEF rest
<1> QED
  BY <1>2, <1>3

(* A full-parameter session's optimizer step adds to the base it is in. *)
LEMMA MovedLive ==
    ASSUME NEW n, Sound(n), Live(n), ~ n.aside, NEW s \in Sessions, n.active = s, NEW names
    PROVE  Live(Moved(n, s, names))
<1> DEFINE m == Moved(n, s, names)
<1>1. /\ m.active = n.active /\ m.kept = n.kept /\ m.base \in {n.base, Append(n.base, s)}
  BY DEF Moved, Sound, IsNet
<1> HIDE DEF m
<1>2. CASE Full(s)
  <2>1. OwnSteps(s, n.base) /\ s \in DOMAIN n.kept /\ OwnSteps(s, n.kept[s])
        /\ Len(n.kept[s]) <= Len(n.base)
    BY <1>2, Distinct DEF Sound, Live
  <2>2. Len(m.base) \in Nat /\ Len(n.base) <= Len(m.base) /\ Len(n.base) \in Nat
    BY <1>1, <2>1 DEF OwnSteps
  <2>3. Len(n.kept[s]) \in Nat
    BY <2>1, StepsCounted
  <2>4. Live(m)
    BY <1>1, <2>1, <2>2, <2>3 DEF Live
  <2> QED
    BY <2>4 DEF m
<1>3. CASE ~ Full(s)
  BY <1>1, <1>3 DEF Live, m
<1> QED
  BY <1>2, <1>3

LEMMA InitLive == Init => Live(net)
BY DEF Init, Live

LEMMA NextLive ==
    ASSUME "beside" \notin Uses, Inv, Live(net), [Next]_vars
    PROVE  Live(net')
<1>0. Sound(net) /\ \A s \in specs : s \in Sessions /\ (Full(s) => s \in DOMAIN net.kept /\ ~ setting.coreDP)
  BY DEF Inv
<1>1. CASE UNCHANGED vars
  BY <1>1 DEF vars
<1>2. ASSUME NEW s \in Sessions,
             Attach(s) \/ PlanFails(s) \/ InitState(s) \/ Detach(s) \/ LoadState(s)
             \/ ExtractState(s) \/ ForwardBackward(s) \/ Compute(s) \/ OptimStep(s)
             \/ StepRefused(s)
      PROVE  Live(net')
  <2>1. Live(Attached(net, s)) /\ Sound(Attached(net, s))
    BY <1>0, AttachedLive, AttachedSound
  <2>2. s \in specs => Live(Activated(net, s)) /\ Sound(Activated(net, s))
                       /\ Activated(net, s).active = s
                       /\ (~ net.aside => ~ Activated(net, s).aside)
    BY <1>0, ActivatedLive, ActivatedSound
  <2>3. CASE Attach(s) \/ PlanFails(s) \/ InitState(s)
    BY <2>1, <2>3 DEF Attach, PlanFails, InitState
  <2>4. CASE Detach(s)
    <3>1. PICK next \in (IF DOMAIN net.lora \subseteq {s} THEN {None} ELSE DOMAIN net.lora \ {s}) :
             net' = Released(IF Full(s) THEN [net EXCEPT !.kept = Without(@, s)]
                                        ELSE DetachedLora(net, s, next), s)
      BY <2>4 DEF Detach
    <3>2. next \in Sessions \cup {None}
      BY <1>0, <3>1 DEF Sound
    <3> QED
      BY <1>0, <3>1, <3>2, LeftLive
  <2>5. CASE LoadState(s)
    <3>1. Full(s) => saved[s].weights = None \/ OwnSteps(s, saved[s].weights)
      BY <2>5 DEF Inv, LoadState
    <3>2. net' = Loaded(Attached(net, s), s, saved[s])
      BY <2>5 DEF LoadState
    <3> QED
      BY <2>1, <3>1, <3>2, LoadedLive
  <2>6. CASE ExtractState(s)
    BY <2>6 DEF ExtractState
  <2>7. CASE ForwardBackward(s) \/ Compute(s) \/ StepRefused(s)
    BY <2>2, <2>7, PassedLive DEF ForwardBackward, Compute, StepRefused
  <2>8. CASE OptimStep(s)
    <3>1. s \in specs /\ ~ net.aside
      BY <2>8 DEF OptimStep, BaseInPlace, Stands
    <3>2. net' = Moved(Activated(net, s), s, ParamNames(Activated(net, s)))
      BY <2>8 DEF OptimStep
    <3> QED
      BY <2>2, <3>1, <3>2, MovedLive
  <2> QED
    BY <1>2, <2>3, <2>4, <2>5, <2>6, <2>7, <2>8
<1> QED
  BY <1>1, <1>2 DEF Next

LEMMA InvLive == Inv /\ Live(net) => LiveIsActive
BY DEF Inv, Sound, OwnSteps, Live, LiveIsActive, FullActive

(* However sessions of both kinds come, train, save, load and leave, in any order, what is
   live is the model of the session the trainer believes to be there: every step that was
   stashed for the active full-parameter session and no step of another one, the pristine
   base under a LoRA session or under none (_active_module, _stash_active_full_param_base,
   _restore_pristine_base). It is proved where no operation runs over a base that an
   adapter was given under the active full-parameter session (attach_session). *)
THEOREM LiveBaseInvariant ==
    ASSUME "beside" \notin Uses PROVE Spec => []LiveIsActive
<1>1. Inv /\ Live(net) /\ [Next]_vars => Live(net)'
  BY NextLive
<1>2. Init => Inv /\ Live(net)
  BY InitInv, InitLive
<1>3. Spec => [](Inv /\ Live(net))
  BY <1>1, <1>2, NextInv, PTL DEF Spec
<1> QED
  BY <1>3, InvLive, PTL
-----------------------------------------------------------------------------
(***************************************************************************)
(* Private models.  The trainer implements PrivateModels when it is used   *)
(* as it stands it (Uses = {}).  A session's model is where ModelIn says;  *)
(* what an operation does to the sessions it is not about is SameModels.   *)
(***************************************************************************)
ModelIn(n, t) ==
    IF ~ Full(t) THEN n.lora[t]
    ELSE IF n.active = t /\ ~ n.aside THEN n.base ELSE n.kept[t]
Held(n, t) == t \in Sessions /\ IF Full(t) THEN t \in DOMAIN n.kept ELSE t \in DOMAIN n.lora
SameModels(n, m) ==
    \A t \in Sessions : Held(n, t) => Held(m, t) /\ ModelIn(m, t) = ModelIn(n, t)

(* Only LoRA sessions have adapters and only the others snapshots, and the live base of
   a full-parameter session can be trained unless an adapter has it. *)
Tidy(n) ==
    /\ Sound(n) /\ n.wrapped \in BOOLEAN
    /\ \A a \in DOMAIN n.lora : ~ Full(a) /\ OwnSteps(a, n.lora[a])
    /\ \A f \in DOMAIN n.kept : Full(f)
    /\ n.active # None /\ Full(n.active) /\ ~ n.aside => "base" \in n.trainable

LEMMA TidyFields ==
    ASSUME NEW n, Tidy(n), NEW m, IsNet(m), m.base = n.base, m.active = n.active,
           m.kept = n.kept, m.lora = n.lora, m.wrapped = n.wrapped, m.aside = n.aside,
           m.adapter \in Sessions \cup {None}, m.trainable \subseteq Sessions \cup {"base"},
           "base" \in m.trainable <=> "base" \in n.trainable
    PROVE  Tidy(m) /\ SameModels(n, m)
<1>1. Sound(m)
  BY DEF Tidy, Sound
<1>2. Tidy(m)
  BY <1>1 DEF Tidy
<1>3. SameModels(n, m)
  BY DEF SameModels, Held, ModelIn
<1> QED
  BY <1>2, <1>3

LEMMA StashedTidy ==
    ASSUME NEW n, Tidy(n), n.active # None => Held(n, n.active), ~ n.aside
    PROVE  LET m == Stashed(n) IN
           /\ Tidy(m) /\ SameModels(n, m) /\ DOMAIN m.kept = DOMAIN n.kept
           /\ m.active = n.active /\ m.base = n.base /\ m.lora = n.lora /\ m.wrapped = n.wrapped
           /\ m.trainable = n.trainable /\ m.adapter = n.adapter /\ m.aside = n.aside
           /\ \A f \in DOMAIN n.kept : m.kept[f] = ModelIn(n, f)
<1> DEFINE m == Stashed(n)
<1>1. Sound(m) /\ DOMAIN m.kept = DOMAIN n.kept /\ m.active = n.active
  BY StashedSound DEF Tidy
<1>2. /\ m.base = n.base /\ m.lora = n.lora /\ m.wrapped = n.wrapped
      /\ m.trainable = n.trainable /\ m.adapter = n.adapter /\ m.aside = n.aside
  BY DEF Stashed, Tidy, Sound, IsNet
<1>3. \A f \in DOMAIN n.kept : m.kept[f] = ModelIn(n, f)
  <2>1. CASE n.active = None \/ n.active \notin DOMAIN n.kept
    BY <2>1, Distinct DEF Stashed, ModelIn, Tidy, Sound
  <2>2. CASE ~ (n.active = None \/ n.active \notin DOMAIN n.kept)
    <3>1. m.kept = With(n.kept, n.active, n.base)
      BY <2>2 DEF Stashed, Tidy, Sound, IsNet
    <3> QED
      BY <2>2, <3>1 DEF With, ModelIn, Tidy
  <2> QED
    BY <2>1, <2>2
<1> HIDE DEF m
<1>4. Tidy(m)
  BY <1>1, <1>2 DEF Tidy
<1>5. SameModels(n, m)
  BY <1>1, <1>2, <1>3 DEF SameModels, Held, ModelIn
<1> QED
  BY <1>1, <1>2, <1>3, <1>4, <1>5 DEF m

LEMMA PristineTidy ==
    ASSUME NEW n, Tidy(n), n.active = None \/ ~ Full(n.active)
    PROVE  Pristine(n) = n \/ (Tidy(Pristine(n)) /\ SameModels(n, Pristine(n))
              /\ Pristine(n).trainable = n.trainable /\ Pristine(n).adapter = n.adapter
              /\ Pristine(n).wrapped = n.wrapped /\ Pristine(n).aside = n.aside)
<1> SUFFICES ASSUME ~ (setting.coreDP /\ planned)
             PROVE  Tidy(Pristine(n)) /\ SameModels(n, Pristine(n))
                    /\ Pristine(n).trainable = n.trainable /\ Pristine(n).adapter = n.adapter
                    /\ Pristine(n).wrapped = n.wrapped /\ Pristine(n).aside = n.aside
  BY DEF Pristine
<1> DEFINE m == Pristine(n)
<1>1. /\ IsNet(m) /\ m.base = <<>> /\ m.active = n.active /\ m.kept = n.kept
      /\ m.lora = n.lora /\ m.wrapped = n.wrapped /\ m.adapter = n.adapter
      /\ m.trainable = n.trainable /\ m.aside = n.aside
  BY DEF Pristine, Tidy, Sound, IsNet
<1>2. n.base = <<>> /\ n.adapter \in Sessions \cup {None} /\ n.trainable \subseteq Sessions \cup {"base"}
  BY DEF Tidy, Sound
<1> HIDE DEF m
<1>3. Tidy(m) /\ SameModels(n, m)
  BY <1>1, <1>2, TidyFields
<1> QED
  BY <1>1, <1>3 DEF m

(* What PEFT's set_adapter leaves alone. *)
LEMMA SetAdapterTidy ==
    ASSUME NEW n, Tidy(n), NEW s \in Sessions
    PROVE  /\ Tidy(SetAdapter(n, s)) /\ SameModels(n, SetAdapter(n, s))
           /\ SetAdapter(n, s).trainable = (n.trainable \cap {"base"}) \cup {s}
           /\ SetAdapter(n, s).adapter = s /\ SetAdapter(n, s).wrapped = n.wrapped
           /\ SetAdapter(n, s).lora = n.lora /\ SetAdapter(n, s).base = n.base
           /\ SetAdapter(n, s).active = n.active /\ SetAdapter(n, s).kept = n.kept
           /\ SetAdapter(n, s).aside = n.aside
<1> DEFINE m == SetAdapter(n, s)
<1>1. /\ IsNet(m) /\ m.base = n.base /\ m.active = n.active /\ m.kept = n.kept
      /\ m.lora = n.lora /\ m.wrapped = n.wrapped /\ m.adapter = s /\ m.aside = n.aside
      /\ m.trainable = (n.trainable \cap {"base"}) \cup {s}
  BY DEF SetAdapter, Tidy, Sound, IsNet
<1> HIDE DEF m
<1>2. m.trainable \subseteq Sessions \cup {"base"} /\ ("base" \in m.trainable <=> "base" \in n.trainable)
  BY <1>1, Distinct
<1>3. Tidy(m) /\ SameModels(n, m)
  BY <1>1, <1>2, TidyFields
<1> QED
  BY <1>1, <1>3 DEF m

(* The session an operation is about is the active one, its model is in place, and every
   session's model is what it was. *)
Placed(n, m, s) ==
    /\ Tidy(m) /\ SameModels(n, m) /\ m.active = s /\ m.wrapped = n.wrapped /\ ~ m.aside
    /\ DOMAIN m.lora = DOMAIN n.lora /\ DOMAIN m.kept = DOMAIN n.kept
    /\ IF Full(s) THEN m.base = ModelIn(n, s)
       ELSE m.base = <<>> /\ m.adapter = s /\ m.lora[s] = ModelIn(n, s) /\ m.trainable = {s}

LEMMA ActivatedPlaced ==
    ASSUME NEW n, Tidy(n), n.active # None => Held(n, n.active), NEW s \in Sessions,
           Held(n, s), Full(s) => ~ setting.coreDP, ~ n.aside
    PROVE  Placed(n, Activated(n, s), s)
<1> DEFINE x == Stashed(n)
           m == Activated(n, s)
<1>1. /\ Tidy(x) /\ SameModels(n, x) /\ DOMAIN x.kept = DOMAIN n.kept
      /\ x.active = n.active /\ x.base = n.base /\ x.lora = n.lora /\ x.wrapped = n.wrapped
      /\ x.trainable = n.trainable /\ x.adapter = n.adapter /\ x.aside = n.aside
      /\ \A f \in DOMAIN n.kept : x.kept[f] = ModelIn(n, f)
  BY StashedTidy
<1>2. Sound(m) /\ m.active = s /\ DOMAIN m.kept = DOMAIN n.kept /\ ~ m.aside
  BY ActivatedSound DEF Tidy, Held
<1>3. CASE n.active # s /\ Full(s)
  <2>1. /\ m.base = x.kept[s] /\ m.lora = x.lora /\ m.kept = x.kept
        /\ m.wrapped = x.wrapped /\ m.trainable = {"base"}
    BY <1>1, <1>3 DEF Activated, Swapped, Trainable, Restored, Tidy, Sound, IsNet
  <2> HIDE DEF x, m
  <2>2. Tidy(m)
    BY <1>1, <1>2, <2>1 DEF Tidy
  <2>3. m.base = ModelIn(n, s)
    BY <1>1, <1>3, <2>1 DEF Held
  <2>4. SameModels(n, m)
    BY <1>1, <1>2, <1>3, <2>1, <2>3 DEF SameModels, Held, ModelIn
  <2> QED
    BY <1>1, <1>2, <1>3, <2>1, <2>2, <2>3, <2>4 DEF Placed, m
<1>4. CASE n.active # s /\ ~ Full(s)
  <2> DEFINE p == Pristine(x)
             y == [[p EXCEPT !.active = s, !.aside = FALSE] EXCEPT !.trainable = {}]
  <2>1. Sound(p) /\ p.base = <<>> /\ p.kept = x.kept /\ p.lora = x.lora
    BY <1>1, PristineSound DEF Tidy
  <2>2. p.wrapped = x.wrapped /\ p.adapter = x.adapter
    BY <1>1 DEF Pristine, Tidy, Sound, IsNet
  <2>3. m = SetAdapter(y, s)
    BY <1>4 DEF Activated, Swapped, Trainable
  <2> HIDE DEF p
  <2>4. /\ IsNet(y) /\ y.base = <<>> /\ y.active = s /\ y.kept = x.kept /\ y.lora = x.lora
        /\ y.wrapped = x.wrapped /\ y.adapter = x.adapter /\ y.trainable = {}
        /\ y.aside = FALSE
    BY <2>1, <2>2 DEF Sound, IsNet
  <2> HIDE DEF x, m, y
  <2>5. Sound(y)
    BY <1>1, <1>4, <2>4 DEF Tidy, Sound
  <2>6. Tidy(y)
    BY <1>1, <1>4, <2>4, <2>5 DEF Tidy
  <2>7. SameModels(n, y)
    BY <1>1, <1>4, <2>4 DEF SameModels, Held, ModelIn
  <2>8. /\ Tidy(m) /\ SameModels(y, m) /\ m.trainable = {} \cup {s} /\ m.adapter = s
        /\ m.wrapped = y.wrapped /\ m.lora = y.lora /\ m.base = y.base /\ m.kept = y.kept
    BY <2>3, <2>4, <2>6, SetAdapterTidy
  <2>9. SameModels(n, m)
    BY <2>7, <2>8 DEF SameModels
  <2> QED
    BY <1>1, <1>2, <1>4, <2>4, <2>8, <2>9 DEF Placed, ModelIn, m
<1>5. CASE n.active = s /\ Full(s)
  BY <1>5 DEF Activated, Placed, SameModels, ModelIn
<1>6. CASE n.active = s /\ ~ Full(s)
  <2>1. m = SetAdapter(n, s)
    BY <1>6 DEF Activated
  <2>2. n.base = <<>> /\ "base" \notin n.trainable
    BY <1>6, Distinct DEF Tidy, Sound
  <2> HIDE DEF m
  <2>3. /\ Tidy(m) /\ SameModels(n, m) /\ m.trainable = (n.trainable \cap {"base"}) \cup {s}
        /\ m.adapter = s /\ m.wrapped = n.wrapped /\ m.lora = n.lora /\ m.base = n.base
        /\ m.kept = n.kept
    BY <2>1, SetAdapterTidy
  <2> QED
    BY <1>2, <1>6, <2>2, <2>3 DEF Placed, ModelIn, m
<1> QED
  BY <1>3, <1>4, <1>5, <1>6

(* Leaving disable_adapter changes what is trainable, not the models. *)
LEMMA PassedTidy ==
    ASSUME NEW n, Tidy(n), NEW s \in Sessions
    PROVE  /\ Tidy(Passed(n, s)) /\ SameModels(n, Passed(n, s))
           /\ Passed(n, s).active = n.active /\ Passed(n, s).wrapped = n.wrapped
           /\ Passed(n, s).aside = n.aside /\ Passed(n, s).lora = n.lora /\ Passed(n, s).kept = n.kept
<1>1. SameModels(n, n)
  BY DEF SameModels
<1>2. n.adapter # None => n.adapter \in Sessions
  BY DEF Tidy, Sound
<1>3. Passed(n, s) = n \/ (n.adapter # None /\ Passed(n, s) = SetAdapter(n, n.adapter))
  BY DEF Passed, Reenabled
<1> QED
  BY <1>1, <1>2, <1>3, SetAdapterTidy

(* What the step of a loaded session reads and writes: its own parameters, and adapters
   that are trainable beside a full-parameter session. *)
KeyIn(n, s) == IF ~ Full(s) THEN s ELSE IF n.wrapped THEN "wrapped" ELSE "plain"

LEMMA PlacedParams ==
    ASSUME NEW n, NEW m, NEW s \in Sessions, Placed(n, m, s)
    PROVE  /\ KeyIn(n, s) \in ParamNames(m) /\ ParamNames(m) \subseteq Sessions \cup {KeyIn(n, s)}
           /\ ~ Full(s) => ParamNames(m) = {s}
           /\ Full(s) => KeyIn(n, s) \notin Sessions
<1>1. CASE Full(s)
  <2>1. "base" \in m.trainable /\ m.trainable \subseteq Sessions \cup {"base"}
    BY <1>1, Distinct DEF Placed, Tidy, Sound
  <2>2. ParamNames(m) = (m.trainable \ {"base"}) \cup {KeyIn(n, s)}
    BY <1>1, <2>1 DEF ParamNames, KeyIn, Placed
  <2> QED
    BY <1>1, <2>1, <2>2, Distinct DEF KeyIn
<1>2. CASE ~ Full(s)
  BY <1>2, Distinct DEF ParamNames, KeyIn, Placed
<1> QED
  BY <1>1, <1>2
-----------------------------------------------------------------------------
(* Operations on one session leave the models of the others. *)
OthersSame(n, m, s) ==
    \A t \in Sessions \ {s} : Held(n, t) => Held(m, t) /\ ModelIn(m, t) = ModelIn(n, t)

LEMMA SameIsOthersSame ==
    ASSUME NEW n, NEW x, NEW m, NEW s, SameModels(n, x),
           OthersSame(x, m, s) \/ SameModels(x, m)
    PROVE  OthersSame(n, m, s)
BY DEF SameModels, OthersSame

(* A session arrives: untrained if it is new, as it was if it is attached already. *)
Arrived(n, m, s) ==
    /\ Tidy(m) /\ OthersSame(n, m, s) /\ m.active = n.active /\ Held(m, s)
    /\ DOMAIN m.kept = DOMAIN n.kept \cup (IF Full(s) THEN {s} ELSE {})
    /\ DOMAIN m.lora = DOMAIN n.lora \cup (IF Full(s) THEN {} ELSE {s})
    /\ m.wrapped = n.wrapped \/ (m.wrapped /\ ~ n.wrapped /\ ~ Full(s))

LEMMA AttachedFullArrives ==
    ASSUME NEW n, Tidy(n), NEW s \in Sessions, Full(s), s \in specs => Held(n, s)
    PROVE  /\ Arrived(n, Attached(n, s), s)
           /\ s \in specs => SameModels(n, Attached(n, s))
           /\ s \notin specs /\ n.active # s => ModelIn(Attached(n, s), s) = <<>>
<1>1. CASE s \in specs
  BY <1>1 DEF Attached, AttachedFull, Arrived, OthersSame, SameModels, Held
<1>2. CASE s \notin specs
  <2> DEFINE m == Attached(n, s)
             k == With(n.kept, s, <<>>)
  <2>1. /\ m.kept = k /\ m.base = n.base /\ m.active = n.active /\ m.lora = n.lora
        /\ m.wrapped = n.wrapped /\ m.adapter = n.adapter /\ m.trainable = n.trainable
        /\ m.aside = n.aside
    BY <1>2 DEF Attached, AttachedFull, Tidy, Sound, IsNet
  <2>2. DOMAIN k = DOMAIN n.kept \cup {s} /\ k[s] = <<>> /\ \A f \in DOMAIN n.kept : f # s => k[f] = n.kept[f]
    BY DEF With
  <2>3. Sound(m)
    BY <1>2, AttachedSound DEF Tidy
  <2> HIDE DEF m, k
  <2>4. Tidy(m)
    BY <2>1, <2>2, <2>3 DEF Tidy
  <2>5. OthersSame(n, m, s) /\ Held(m, s)
    BY <2>1, <2>2 DEF OthersSame, Held, ModelIn
  <2>6. n.active # s => ModelIn(m, s) = <<>>
    BY <2>1, <2>2 DEF ModelIn
  <2> QED
    BY <1>2, <2>1, <2>2, <2>4, <2>5, <2>6 DEF Arrived, m
<1> QED
  BY <1>1, <1>2

LEMMA AttachedLoraArrives ==
    ASSUME NEW n, Tidy(n), NEW s \in Sessions, ~ Full(s), ~ n.aside,
           n.active # None => Held(n, n.active)
    PROVE  /\ Arrived(n, Attached(n, s), s)
           /\ s \in DOMAIN n.lora => SameModels(n, Attached(n, s))
           /\ s \notin DOMAIN n.lora => ModelIn(Attached(n, s), s) = <<>>
<1> DEFINE x == Stashed(n)
           q == Pristine(x)
           p == [q EXCEPT !.aside = @ \/ n.active \in DOMAIN n.kept]
           m == Attached(n, s)
<1>1. /\ Tidy(x) /\ SameModels(n, x) /\ DOMAIN x.kept = DOMAIN n.kept /\ x.active = n.active
      /\ x.lora = n.lora /\ x.wrapped = n.wrapped /\ x.aside = n.aside
      /\ \A f \in DOMAIN n.kept : x.kept[f] = ModelIn(n, f)
  BY StashedTidy
<1>2. /\ q.active = x.active /\ q.lora = x.lora /\ q.kept = x.kept /\ q.base = <<>>
      /\ q.wrapped = x.wrapped /\ q.aside = x.aside /\ q.trainable = x.trainable
      /\ q.adapter = x.adapter /\ Sound(q)
  <2>1. Sound(x)
    BY <1>1 DEF Tidy
  <2> HIDE DEF x
  <2>2. /\ Sound(q) /\ q.active = x.active /\ q.lora = x.lora /\ q.kept = x.kept
        /\ q.base = <<>>
    BY <2>1, PristineSound
  <2> QED
    BY <2>1, <2>2 DEF Pristine, Sound, IsNet
<1>3. /\ p.active = x.active /\ p.lora = x.lora /\ p.kept = x.kept /\ p.base = <<>>
      /\ p.wrapped = x.wrapped /\ p.aside = (n.active \in DOMAIN n.kept) /\ IsNet(p)
      /\ p.trainable = x.trainable /\ p.adapter = x.adapter
  <2> HIDE DEF q, x
  <2> QED
    BY <1>1, <1>2 DEF Sound, IsNet
<1>4. m = IF s \in DOMAIN n.lora THEN SetAdapter(p, s) ELSE NewAdapter(p, s)
  BY DEF Attached, AttachedLora
<1> HIDE DEF x, q, p, m
<1>a. n.active # None /\ Full(n.active) <=> n.active \in DOMAIN n.kept
  BY Distinct DEF Held, Tidy, Sound
<1>b. Sound(p)
  BY <1>1, <1>3, <1>a, Untrained DEF Tidy, Sound
<1>c. Tidy(p)
  BY <1>1, <1>3, <1>a, <1>b DEF Tidy
<1>d. SameModels(n, p)
  BY <1>1, <1>3, <1>a DEF SameModels, Held, ModelIn
<1>5. Tidy(p) /\ SameModels(n, p) /\ p.wrapped = n.wrapped
  BY <1>1, <1>3, <1>c, <1>d
<1>6. CASE s \in DOMAIN n.lora
  <2>1. /\ Tidy(m) /\ SameModels(p, m) /\ m.wrapped = p.wrapped /\ m.lora = p.lora
        /\ m.active = p.active /\ m.kept = p.kept
    BY <1>4, <1>5, <1>6, SetAdapterTidy
  <2>2. SameModels(n, m) /\ OthersSame(n, m, s) /\ Held(m, s)
    BY <1>1, <1>3, <1>5, <1>6, <2>1 DEF SameModels, OthersSame, Held
  <2> QED
    BY <1>1, <1>3, <1>5, <1>6, <2>1, <2>2 DEF Arrived, m
<1>7. CASE s \notin DOMAIN n.lora
  <2> DEFINE l == With(p.lora, s, <<>>)
  <2>1. /\ IsNet(m) /\ m.lora = l /\ m.base = p.base /\ m.active = p.active /\ m.kept = p.kept
        /\ m.wrapped = TRUE /\ m.adapter = s /\ m.trainable = {s} /\ m.aside = p.aside
    BY <1>4, <1>5, <1>7 DEF NewAdapter, Tidy, Sound, IsNet
  <2>2. DOMAIN l = DOMAIN p.lora \cup {s} /\ l[s] = <<>> /\ \A a \in DOMAIN p.lora : a # s => l[a] = p.lora[a]
    BY DEF With
  <2> HIDE DEF l
  <2>3. Sound(m)
    BY <1>1, <1>3, <1>5, <2>1, <2>2, Distinct DEF Tidy, Sound
  <2>4. \A a \in DOMAIN m.lora : ~ Full(a) /\ OwnSteps(a, m.lora[a])
    BY <1>5, <2>1, <2>2, Untrained DEF Tidy
  <2>5. Tidy(m)
    BY <1>1, <1>3, <1>5, <1>a, <2>1, <2>3, <2>4 DEF Tidy
  <2>6. OthersSame(p, m, s) /\ Held(m, s) /\ ModelIn(m, s) = <<>>
    BY <2>1, <2>2 DEF OthersSame, Held, ModelIn
  <2>7. OthersSame(n, m, s)
    BY <1>5, <2>6, SameIsOthersSame
  <2> QED
    BY <1>1, <1>3, <1>5, <1>7, <2>1, <2>2, <2>5, <2>6, <2>7 DEF Arrived, Tidy, m
<1> QED
  BY <1>6, <1>7

(* A saved state is put in the session's place. *)
LEMMA LoadedTidy ==
    ASSUME NEW n, Tidy(n), NEW s \in Sessions, Held(n, s), NEW state,
           Full(s) => state.weights = None \/ OwnSteps(s, state.weights),
           ~ Full(s) => OwnSteps(s, state.weights),
           NEW m, m = Loaded(n, s, state)
    PROVE  /\ Tidy(m) /\ OthersSame(n, m, s) /\ Held(m, s) /\ m.active = n.active
           /\ m.wrapped = n.wrapped /\ DOMAIN m.kept = DOMAIN n.kept /\ DOMAIN m.lora = DOMAIN n.lora
           /\ ModelIn(m, s) = IF Full(s) /\ state.weights = None THEN ModelIn(n, s)
                              ELSE state.weights
<1>0. Sound(m)
  BY LoadedSound DEF Tidy
<1>1. CASE ~ Full(s)
  <2> DEFINE l == With(n.lora, s, state.weights)
  <2>1. /\ m.lora = l /\ m.base = n.base /\ m.active = n.active /\ m.kept = n.kept
        /\ m.wrapped = n.wrapped /\ m.trainable = n.trainable /\ m.aside = n.aside
    BY <1>1 DEF Loaded, Tidy, Sound, IsNet
  <2>2. DOMAIN l = DOMAIN n.lora /\ l[s] = state.weights /\ \A a \in DOMAIN n.lora : a # s => l[a] = n.lora[a]
    BY <1>1 DEF With, Held
  <2> HIDE DEF l
  <2>3. Tidy(m)
    BY <1>0, <1>1, <2>1, <2>2 DEF Tidy
  <2>4. OthersSame(n, m, s) /\ Held(m, s) /\ ModelIn(m, s) = state.weights
    BY <1>1, <2>1, <2>2 DEF OthersSame, Held, ModelIn
  <2> QED
    BY <1>1, <2>1, <2>2, <2>3, <2>4
<1>2. CASE Full(s) /\ state.weights = None
  BY <1>2 DEF Loaded, LoadedFull, OthersSame
<1>3. CASE Full(s) /\ state.weights # None
  <2> DEFINE k == With(n.kept, s, state.weights)
             b == IF n.active = s THEN state.weights ELSE n.base
  <2>0. m = [n EXCEPT !.kept = k, !.base = b]
    BY <1>3 DEF Loaded, LoadedFull
  <2>1. /\ m.kept = k /\ m.base = b /\ m.active = n.active /\ m.lora = n.lora
        /\ m.wrapped = n.wrapped /\ m.trainable = n.trainable /\ m.aside = n.aside
    BY <2>0 DEF Tidy, Sound, IsNet
  <2>2. DOMAIN k = DOMAIN n.kept /\ k[s] = state.weights /\ \A f \in DOMAIN n.kept : f # s => k[f] = n.kept[f]
    BY <1>3 DEF With, Held
  <2> HIDE DEF k
  <2>3. Tidy(m)
    BY <1>0, <2>1, <2>2 DEF Tidy
  <2>4. OthersSame(n, m, s) /\ Held(m, s) /\ ModelIn(m, s) = state.weights
    BY <1>3, <2>1, <2>2 DEF OthersSame, Held, ModelIn
  <2> QED
    BY <1>3, <2>1, <2>2, <2>3, <2>4
<1> QED
  BY <1>1, <1>2, <1>3

(* A session leaves, from the live base too if it is there. *)
LEMMA LeftTidy ==
    ASSUME NEW n, Tidy(n), NEW s \in Sessions, NEW next \in Sessions \cup {None},
           ~ setting.coreDP
    PROVE  LET rest == IF Full(s) THEN [n EXCEPT !.kept = Without(@, s)]
                                  ELSE DetachedLora(n, s, next)
               m == Released(rest, s) IN
           /\ Tidy(m) /\ OthersSame(n, m, s) /\ m.wrapped = n.wrapped
           /\ m.active = IF n.active = s THEN None ELSE n.active
           /\ DOMAIN m.lora = DOMAIN n.lora \ (IF Full(s) THEN {} ELSE {s})
           /\ DOMAIN m.kept = DOMAIN n.kept \ (IF Full(s) THEN {s} ELSE {})
<1> DEFINE rest == IF Full(s) THEN [n EXCEPT !.kept = Without(@, s)]
                              ELSE DetachedLora(n, s, next)
           m == Released(rest, s)
           k == IF Full(s) THEN Without(n.kept, s) ELSE n.kept
           l == IF Full(s) THEN n.lora ELSE Without(n.lora, s)
<1>1. /\ DOMAIN k = DOMAIN n.kept \ (IF Full(s) THEN {s} ELSE {})
      /\ DOMAIN l = DOMAIN n.lora \ (IF Full(s) THEN {} ELSE {s})
      /\ \A f \in DOMAIN k : k[f] = n.kept[f]
      /\ \A a \in DOMAIN l : l[a] = n.lora[a]
  BY DEF Without
<1>2. /\ IsNet(rest) /\ rest.base = n.base /\ rest.active = n.active /\ rest.kept = k
      /\ rest.lora = l /\ rest.wrapped = n.wrapped /\ rest.adapter \in Sessions \cup {None}
      /\ rest.aside = n.aside
      /\ rest.trainable \subseteq Sessions \cup {"base"}
      /\ "base" \in rest.trainable <=> "base" \in n.trainable
  <2>1. CASE Full(s)
    BY <2>1 DEF Tidy, Sound, IsNet
  <2>2. CASE ~ Full(s)
    <3> DEFINE y == [n EXCEPT !.lora = Dropped(n, s), !.trainable = @ \ {s}]
    <3>1. /\ IsNet(y) /\ y.base = n.base /\ y.active = n.active /\ y.kept = n.kept /\ y.lora = l
          /\ y.wrapped = n.wrapped /\ y.adapter = n.adapter /\ y.trainable = n.trainable \ {s}
          /\ y.aside = n.aside
      BY <2>2 DEF Dropped, Tidy, Sound, IsNet
    <3>2. rest = IF n.adapter # s THEN y
                 ELSE IF next = None THEN [y EXCEPT !.adapter = None] ELSE SetAdapter(y, next)
      BY <2>2 DEF DetachedLora
    <3>3. /\ IsNet(rest) /\ rest.base = y.base /\ rest.active = y.active /\ rest.kept = y.kept
          /\ rest.lora = y.lora /\ rest.wrapped = y.wrapped /\ rest.aside = y.aside
          /\ rest.adapter \in {y.adapter, next}
          /\ rest.trainable \in {y.trainable, (y.trainable \cap {"base"}) \cup {next}}
          /\ next = None => rest.trainable = y.trainable
      <4> HIDE DEF y, l, k
      <4>1. CASE n.adapter # s
        BY <3>1, <3>2, <4>1
      <4>2. CASE n.adapter = s /\ next = None
        BY <3>1, <3>2, <4>2 DEF IsNet
      <4>3. CASE n.adapter = s /\ next # None
        BY <3>1, <3>2, <4>3 DEF SetAdapter, IsNet
      <4> QED
        BY <4>1, <4>2, <4>3
    <3>4. n.adapter \in Sessions \cup {None} /\ n.trainable \subseteq Sessions \cup {"base"}
      BY DEF Tidy, Sound
    <3> HIDE DEF y, rest, l
    <3> QED
      BY <2>2, <3>1, <3>3, <3>4, Distinct
  <2> QED
    BY <2>1, <2>2
<1>3. CASE n.active # s
  <2>1. m = rest
    BY <1>2, <1>3 DEF Released
  <2> HIDE DEF rest, m, k, l
  <2>2. Sound(rest)
    BY <1>1, <1>2 DEF Tidy, Sound
  <2>3. Tidy(rest)
    BY <1>1, <1>2, <2>2 DEF Tidy
  <2>4. OthersSame(n, rest, s)
    BY <1>1, <1>2, <1>3 DEF OthersSame, Held, ModelIn
  <2> QED
    BY <1>1, <1>2, <1>3, <2>1, <2>3, <2>4 DEF m, rest
<1>4. CASE n.active = s
  <2>1. /\ IsNet(m) /\ m.base = <<>> /\ m.active = None /\ m.kept = k /\ m.lora = l
        /\ m.wrapped = n.wrapped /\ m.adapter = rest.adapter /\ m.trainable = rest.trainable
        /\ m.aside = FALSE
    <3> HIDE DEF rest, k, l
    <3> QED
      BY <1>2, <1>4 DEF Released, Pristine, IsNet
  <2> HIDE DEF rest, m, k, l
  <2>2. Sound(m)
    BY <1>1, <1>2, <1>4, <2>1 DEF Tidy, Sound
  <2>3. Tidy(m)
    BY <1>1, <1>2, <2>1, <2>2 DEF Tidy
  <2>4. OthersSame(n, m, s)
    BY <1>1, <1>4, <2>1, Distinct DEF OthersSame, Held, ModelIn
  <2> QED
    BY <1>1, <1>4, <2>1, <2>3, <2>4 DEF m, rest
<1> QED
  BY <1>3, <1>4
-----------------------------------------------------------------------------
(* Gradients wait under the name the session's parameters have now; under other names
   there are only zeros, of adapters that were trainable beside a full-parameter session. *)
Waits(g, key) ==
    /\ DOMAIN g \subseteq Names /\ g \in [DOMAIN g -> 0 .. MaxPasses]
    /\ \A p \in DOMAIN g : p # key => g[p] = 0

LEMMA PassesWaiting ==
    ASSUME NEW g, NEW key, Waits(g, key)
    PROVE  Passes(g) = IF key \in DOMAIN g THEN g[key] ELSE 0
<1>1. MaxPasses \in Nat
  BY BoundsAssumption
<1>2. CASE \A p \in DOMAIN g : g[p] = 0
  BY <1>2 DEF Passes
<1>3. CASE ~ \A p \in DOMAIN g : g[p] = 0
  <2>1. key \in DOMAIN g /\ g[key] # 0 /\ g[key] \in 0 .. MaxPasses
    BY <1>3 DEF Waits
  <2>2. g[key] \in 1 .. MaxPasses
    BY <1>1, <2>1
  <2>3. \A k \in 1 .. MaxPasses : (\E p \in DOMAIN g : g[p] = k) <=> k = g[key]
    BY <2>1 DEF Waits
  <2>4. (CHOOSE k \in 1 .. MaxPasses : \E p \in DOMAIN g : g[p] = k) = g[key]
    BY <2>2, <2>3
  <2> QED
    BY <1>3, <2>1, <2>4 DEF Passes
<1> QED
  BY <1>2, <1>3

LEMMA NothingWaits == \A key : Waits(NoGrads, key) /\ Passes(NoGrads) = 0
BY DEF Waits, NoGrads, Passes

LEMMA OneMoreStep ==
    ASSUME NEW s \in Sessions, NEW h, OwnSteps(s, h) PROVE OwnSteps(s, Append(h, s))
BY DEF OwnSteps

(* An optimizer step of a session moves its model or, when nothing waits and there is no
   momentum that fits, nothing. *)
LEMMA MovedTidy ==
    ASSUME Uses = {}, NEW n, NEW m, NEW s \in Sessions, Held(n, s), Placed(n, m, s),
           Waits(grads[s], KeyIn(n, s))
    PROVE  /\ Tidy(Moved(m, s, ParamNames(m))) /\ OthersSame(n, Moved(m, s, ParamNames(m)), s)
           /\ Moved(m, s, ParamNames(m)).active = s
           /\ Moved(m, s, ParamNames(m)).wrapped = n.wrapped
           /\ DOMAIN Moved(m, s, ParamNames(m)).lora = DOMAIN n.lora
           /\ ModelIn(Moved(m, s, ParamNames(m)), s) =
                 IF Moves(s, KeyIn(n, s), ParamNames(m)) THEN Append(ModelIn(n, s), s)
                 ELSE ModelIn(n, s)
           /\ ~ Moves(s, KeyIn(n, s), ParamNames(m)) => Passes(grads[s]) = 0
<1> DEFINE names == ParamNames(m)
           key == KeyIn(n, s)
           moves == Moves(s, key, names)
           x == Moved(m, s, names)
           b == IF \E p \in names \ Sessions : Moves(s, p, names) THEN Append(m.base, s) ELSE m.base
           l == [a \in DOMAIN m.lora |-> IF a \in names /\ Moves(s, a, names)
                                         THEN Append(m.lora[a], s) ELSE m.lora[a]]
<1>1. /\ key \in names /\ names \subseteq Sessions \cup {key}
      /\ ~ Full(s) => names = {s} /\ key = s
      /\ Full(s) => key \notin Sessions
  BY PlacedParams DEF KeyIn
<1>2. ~ moves => Passes(grads[s]) = 0
  BY PassesWaiting DEF Moves, Waits
<1>3. Full(s) => \A a \in Sessions : ~ Moves(s, a, names)
  BY <1>1 DEF Moves, Waits
<1>4. /\ IsNet(x) /\ x.base = b /\ x.lora = l /\ x.active = s /\ x.wrapped = n.wrapped
      /\ x.kept = m.kept /\ x.adapter = m.adapter /\ x.trainable = m.trainable
      /\ x.aside = FALSE
  BY DEF Moved, Placed, Tidy, Sound, IsNet
<1> HIDE DEF names, key, moves, x
<1>5. /\ DOMAIN l = DOMAIN n.lora /\ DOMAIN m.lora \subseteq Sessions
      /\ \A a \in DOMAIN l : l[a] = IF a \in names /\ Moves(s, a, names)
                                    THEN Append(m.lora[a], s) ELSE m.lora[a]
  BY DEF Placed, Tidy, Sound
<1>6. /\ b = IF Full(s) /\ moves THEN Append(m.base, s) ELSE m.base
      /\ \A a \in DOMAIN l : l[a] = IF ~ Full(s) /\ moves /\ a = s THEN Append(m.lora[a], s)
                                    ELSE m.lora[a]
  <2>1. CASE Full(s)
    <3>1. (\E p \in names \ Sessions : Moves(s, p, names)) <=> moves
      BY <1>1, <2>1 DEF moves
    <3>2. \A a \in DOMAIN l : ~ Moves(s, a, names)
      BY <1>3, <1>5, <2>1
    <3> HIDE DEF l
    <3> QED
      BY <1>5, <2>1, <3>1, <3>2
  <2>2. CASE ~ Full(s)
    <3>1. names \ Sessions = {}
      BY <1>1, <2>2
    <3>2. \A a : a \in names /\ Moves(s, a, names) <=> a = s /\ moves
      BY <1>1, <2>2 DEF moves
    <3>3. b = m.base
      BY <3>1
    <3> HIDE DEF l, b
    <3> QED
      BY <1>5, <2>2, <3>2, <3>3
  <2> QED
    BY <2>1, <2>2
<1> HIDE DEF b, l
<1>7. /\ Tidy(m) /\ SameModels(n, m) /\ m.active = s /\ DOMAIN m.lora = DOMAIN n.lora
      /\ DOMAIN m.kept = DOMAIN n.kept /\ ~ m.aside
      /\ IF Full(s) THEN m.base = ModelIn(n, s) ELSE m.base = <<>> /\ m.lora[s] = ModelIn(n, s)
  BY DEF Placed
<1>8. Full(s) => OwnSteps(s, b)
  <2>1. Full(s) => OwnSteps(s, m.base)
    BY <1>7, Distinct DEF Tidy, Sound
  <2>2. Full(s) => OwnSteps(s, Append(m.base, s))
    BY <2>1, OneMoreStep
  <2> QED
    BY <1>6, <2>1, <2>2
<1>9. \A a \in DOMAIN l : ~ Full(a) /\ OwnSteps(a, l[a])
  <2>1. \A a \in DOMAIN l : ~ Full(a) /\ OwnSteps(a, m.lora[a])
    BY <1>5, <1>7 DEF Tidy
  <2>2. \A a \in DOMAIN l : OwnSteps(a, Append(m.lora[a], a))
    BY <1>5, <1>7, <2>1, OneMoreStep
  <2> QED
    BY <1>6, <2>1, <2>2
<1>10. Sound(x)
  <2>1. ~ Full(s) => x.base = <<>>
    BY <1>4, <1>6, <1>7
  <2>2. s # None /\ Sound(m)
    BY <1>7, Distinct DEF Tidy
  <2> QED
    BY <1>4, <1>5, <1>7, <1>8, <2>1, <2>2 DEF Sound
<1>11. Tidy(x)
  BY <1>4, <1>7, <1>9, <1>10 DEF Tidy, Placed
<1>12. OthersSame(n, x, s)
  BY <1>4, <1>5, <1>6, <1>7 DEF OthersSame, SameModels, Held, ModelIn
<1>13. ModelIn(x, s) = IF moves THEN Append(ModelIn(n, s), s) ELSE ModelIn(n, s)
  BY <1>4, <1>5, <1>6, <1>7 DEF ModelIn, Held
<1> QED
  BY <1>2, <1>4, <1>5, <1>7, <1>11, <1>12, <1>13 DEF x, names, moves, key
-----------------------------------------------------------------------------
(***************************************************************************)
(* What keeps the sessions apart between operations: exactly the attached  *)
(* LoRA sessions have adapters, the active session is attached, and what   *)
(* waits or is saved of a session is filed under its parameters' names.    *)
(***************************************************************************)
WaitingFit(t) ==
    /\ Waits(grads[t], KeyIn(net, t)) /\ moments[t] \in Moments \cup {None}
    /\ t \notin specs => grads[t] = NoGrads
SavedFit(t) ==
    saved[t] # None =>
        /\ saved[t] \in States /\ Waits(saved[t].grads, KeyIn(net, t))
        /\ IF Full(t) THEN ~ setting.coreDP ELSE OwnSteps(t, saved[t].weights)
Apart ==
    /\ Inv /\ Tidy(net)
    /\ net.active \in specs \cup {None}
    /\ DOMAIN net.lora = {t \in specs : ~ Full(t)}
    /\ DOMAIN grads = Sessions /\ DOMAIN moments = Sessions
    /\ \A t \in Sessions : WaitingFit(t) /\ SavedFit(t)

LEMMA KeepsApart ==
    ASSUME Apart, Inv', setting' = setting, Tidy(net'), net'.active \in specs' \cup {None},
           DOMAIN net'.lora = {t \in specs' : ~ Full(t)},
           DOMAIN grads' = Sessions, DOMAIN moments' = Sessions,
           \A t \in Sessions : WaitingFit(t)' /\ SavedFit(t)'
    PROVE  Apart'
BY DEF Apart, Tidy, Sound, IsNet, OwnSteps, Full

LEMMA HeldAttached == ASSUME Apart, NEW t \in specs PROVE t \in Sessions /\ Held(net, t)
BY DEF Apart, Inv, Held

LEMMA HeldActive == ASSUME Apart PROVE net.active # None => Held(net, net.active)
BY HeldAttached DEF Apart

LEMMA OwnModels ==
    ASSUME Apart, NEW t \in specs
    PROVE  OwnSteps(t, ModelIn(net, t)) /\ Len(ModelIn(net, t)) \in Nat
<1>1. OwnSteps(t, ModelIn(net, t))
  BY HeldAttached, Distinct DEF Apart, Tidy, Sound, Held, ModelIn
<1> QED
  BY <1>1 DEF OwnSteps

(* PEFT wraps the model while nothing waits of a full-parameter session. *)
NoneWait ==
    \A f \in Sessions : Full(f) =>
        ~ Waiting(grads[f]) /\ (saved[f] # None => ~ Waiting(saved[f].grads))
WrapsEarly == net'.wrapped = net.wrapped \/ NoneWait

LEMMA IdleFits ==
    ASSUME NEW g, NEW key, Waits(g, key), ~ Waiting(g), NEW other PROVE Waits(g, other)
<1>1. MaxPasses \in Nat
  BY BoundsAssumption
<1>2. \A p \in DOMAIN g : g[p] = 0
  BY <1>1 DEF Waits, Waiting
<1> QED
  BY <1>2 DEF Waits

LEMMA RestFits ==
    ASSUME Apart, setting' = setting, WrapsEarly, NEW t \in Sessions, grads'[t] = grads[t],
           moments'[t] = moments[t], saved'[t] = saved[t], t \in specs => t \in specs'
    PROVE  WaitingFit(t)' /\ SavedFit(t)'
<1>1. WaitingFit(t) /\ SavedFit(t)
  BY DEF Apart
<1>2. CASE ~ Full(t) \/ net'.wrapped = net.wrapped
  <2>1. KeyIn(net', t) = KeyIn(net, t)
    BY <1>2 DEF KeyIn
  <2> QED
    BY <1>1, <2>1 DEF WaitingFit, SavedFit, KeyIn, Full, Waits, OwnSteps
<1>3. CASE Full(t) /\ net'.wrapped # net.wrapped
  <2>1. ~ Waiting(grads[t]) /\ (saved[t] # None => ~ Waiting(saved[t].grads))
    BY <1>3 DEF WrapsEarly, NoneWait
  <2>2. Waits(grads'[t], KeyIn(net', t))
    BY <1>1, <2>1, IdleFits DEF WaitingFit
  <2>3. saved'[t] # None => Waits(saved'[t].grads, KeyIn(net', t))
    BY <1>1, <2>1, IdleFits DEF SavedFit
  <2> QED
    BY <1>1, <2>2, <2>3 DEF WaitingFit, SavedFit, KeyIn, Full, Waits, OwnSteps
<1> QED
  BY <1>2, <1>3
-----------------------------------------------------------------------------
(* The abstract state. *)
ModelsView == [t \in Sessions |-> ModelOf(t)]
WaitingView == [t \in Sessions |-> Passes(grads[t])]
SavedOf(t) ==
    IF saved[t] = None THEN None
    ELSE <<IF saved[t].weights = None THEN 0 ELSE Own(t, saved[t].weights), Passes(saved[t].grads)>>
SavedView == [t \in Sessions |-> SavedOf(t)]
ComputedView ==
    IF ran = None THEN None
    ELSE <<ran.session,
           IF Full(ran.session) THEN Own(ran.session, ran.base)
           ELSE IF ran.base = <<>> THEN Own(ran.session, ran.lora) ELSE Foreign>>

LEMMA OwnLength == ASSUME NEW t, NEW h, OwnSteps(t, h) PROVE Own(t, h) = Len(h)
BY DEF OwnSteps, Own

LEMMA ModelLength ==
    Apart => \A t \in Sessions : ModelOf(t) = IF t \in specs THEN Len(ModelIn(net, t)) ELSE 0
<1> SUFFICES ASSUME Apart, NEW t \in Sessions
             PROVE  ModelOf(t) = IF t \in specs THEN Len(ModelIn(net, t)) ELSE 0
  OBVIOUS
<1>1. (IF net.aside /\ net.active = t THEN net.kept[t] ELSE Weights(t)) = ModelIn(net, t)
  <2>1. net.aside => Full(net.active)
    BY DEF Apart, Tidy, Sound
  <2> QED
    BY <2>1 DEF Weights, ModelIn
<1>2. CASE t \in specs
  BY <1>1, <1>2, OwnModels, OwnLength DEF ModelOf
<1>3. CASE t \notin specs
  BY <1>3 DEF ModelOf
<1> QED
  BY <1>2, <1>3

LEMMA ModelLengthNext ==
    Apart' => (\A t \in Sessions : ModelOf(t) = IF t \in specs THEN Len(ModelIn(net, t)) ELSE 0)'
BY ModelLength, PTL

(* How a step of s changes what is seen of the models. *)
LEMMA ModelsUpdated ==
    ASSUME Apart, Apart', NEW s \in Sessions, OthersSame(net, net', s),
           \A t \in Sessions \ {s} : t \in specs' <=> t \in specs
    PROVE  ModelsView' = [ModelsView EXCEPT ![s] = IF s \in specs' THEN Len(ModelIn(net', s)) ELSE 0]
<1> DEFINE v == IF s \in specs' THEN Len(ModelIn(net', s)) ELSE 0
<1>1. \A t \in Sessions : ModelOf(t)' = IF t \in specs' THEN Len(ModelIn(net', t)) ELSE 0
  BY ModelLengthNext DEF ModelIn, Full
<1>2. \A t \in Sessions : ModelOf(t) = IF t \in specs THEN Len(ModelIn(net, t)) ELSE 0
  BY ModelLength
<1>3. \A t \in Sessions \ {s} : ModelOf(t)' = ModelOf(t)
  BY <1>1, <1>2, HeldAttached DEF OthersSame
<1>4. ModelOf(s)' = v
  BY <1>1
<1> HIDE DEF v
<1>5. ModelsView' = [t \in Sessions |-> ModelOf(t)']
  BY DEF ModelsView
<1>6. [ModelsView EXCEPT ![s] = v] = [t \in Sessions |-> IF t = s THEN v ELSE ModelOf(t)]
  BY DEF ModelsView
<1>7. [t \in Sessions |-> ModelOf(t)'] = [t \in Sessions |-> IF t = s THEN v ELSE ModelOf(t)]
  BY <1>3, <1>4
<1> QED
  BY <1>5, <1>6, <1>7 DEF v

LEMMA ModelsKept ==
    ASSUME Apart, Apart', SameModels(net, net'), specs' = specs
    PROVE  ModelsView' = ModelsView
<1>1. \A t \in Sessions : ModelOf(t)' = IF t \in specs' THEN Len(ModelIn(net', t)) ELSE 0
  BY ModelLengthNext DEF ModelIn, Full
<1>2. \A t \in Sessions : ModelOf(t) = IF t \in specs THEN Len(ModelIn(net, t)) ELSE 0
  BY ModelLength
<1>3. \A t \in Sessions : ModelOf(t)' = ModelOf(t)
  BY <1>1, <1>2, HeldAttached DEF SameModels
<1> QED
  BY <1>3 DEF ModelsView

(* What is computed for a session is computed on its model. *)
LEMMA RunOnModel ==
    ASSUME Apart, NEW s \in specs, NEW m, Placed(net, m, s), ran' = Forward(m, s)
    PROVE  ComputedView' = <<s, ModelsView[s]>>
<1>1. s \in Sessions /\ OwnSteps(s, ModelIn(net, s)) /\ ModelOf(s) = Len(ModelIn(net, s))
  BY HeldAttached, OwnModels, ModelLength
<1>2. /\ ran'.session = s /\ ran'.base = m.base
      /\ ran'.lora = IF Full(s) THEN None ELSE m.lora[m.adapter]
      /\ ran' = [session |-> s, base |-> ran'.base, lora |-> ran'.lora]
  BY DEF Forward
<1>3. IF Full(s) THEN ran'.base = ModelIn(net, s) ELSE ran'.base = <<>> /\ ran'.lora = ModelIn(net, s)
  BY <1>2 DEF Placed
<1>4. ran'.base \in Seq(Sessions) /\ ran'.lora \in Seq(Sessions) \cup {None}
  <2>1. ModelIn(net, s) \in Seq(Sessions) /\ <<>> \in Seq(Sessions)
    BY <1>1 DEF OwnSteps
  <2>2. CASE Full(s)
    BY <1>2, <1>3, <2>1, <2>2
  <2>3. CASE ~ Full(s)
    BY <1>3, <2>1, <2>3
  <2> QED
    BY <2>2, <2>3
<1>5. ran' # None
  <2>1. ran' \in Runs
    BY <1>1, <1>2, <1>4 DEF Runs
  <2> QED
    BY <2>1, NoneAssumption
<1>6. Own(s, ModelIn(net, s)) = Len(ModelIn(net, s))
  BY <1>1, OwnLength
<1> QED
  BY <1>1, <1>2, <1>3, <1>5, <1>6 DEF ComputedView, ModelsView, Full, Own

LEMMA WaitingUpdated ==
    ASSUME NEW s \in Sessions, NEW g, DOMAIN grads = Sessions, grads' = [grads EXCEPT ![s] = g]
    PROVE  WaitingView' = [WaitingView EXCEPT ![s] = Passes(g)]
<1>1. WaitingView' = [t \in Sessions |-> Passes(grads'[t])]
  BY DEF WaitingView
<1>2. [WaitingView EXCEPT ![s] = Passes(g)] = [t \in Sessions |-> IF t = s THEN Passes(g) ELSE Passes(grads[t])]
  BY DEF WaitingView
<1>3. \A t \in Sessions : grads'[t] = IF t = s THEN g ELSE grads[t]
  OBVIOUS
<1> QED
  BY <1>1, <1>2, <1>3

LEMMA SavedUpdated ==
    ASSUME NEW s \in Sessions, NEW st \in States, DOMAIN saved = Sessions,
           saved' = [saved EXCEPT ![s] = st]
    PROVE  SavedView' = [SavedView EXCEPT ![s] =
              <<IF st.weights = None THEN 0 ELSE Own(s, st.weights), Passes(st.grads)>>]
<1> DEFINE v == <<IF st.weights = None THEN 0 ELSE Own(s, st.weights), Passes(st.grads)>>
<1>1. SavedView' = [t \in Sessions |-> SavedOf(t)']
  BY DEF SavedView
<1>2. [SavedView EXCEPT ![s] = v] = [t \in Sessions |-> IF t = s THEN v ELSE SavedOf(t)]
  BY DEF SavedView
<1>3. \A t \in Sessions : saved'[t] = IF t = s THEN st ELSE saved[t]
  OBVIOUS
<1>4. st # None
  BY NoneAssumption
<1>5. SavedOf(s)' = v
  BY <1>3, <1>4 DEF SavedOf
<1>6. \A t \in Sessions \ {s} : SavedOf(t)' = SavedOf(t)
  BY <1>3 DEF SavedOf
<1> HIDE DEF v
<1>7. [t \in Sessions |-> SavedOf(t)'] = [t \in Sessions |-> IF t = s THEN v ELSE SavedOf(t)]
  BY <1>5, <1>6
<1> QED
  BY <1>1, <1>2, <1>7 DEF v

LEMMA ViewsKept ==
    /\ grads' = grads => WaitingView' = WaitingView
    /\ saved' = saved => SavedView' = SavedView
    /\ ran' = None => ComputedView' = None
BY DEF WaitingView, SavedView, SavedOf, ComputedView

(* The steps of PrivateModels in terms of these views. *)
LEMMA IsAttach ==
    ASSUME NEW s \in Sessions, s \notin specs, specs' = specs \cup {s}, ComputedView' = None,
           ModelsView' = ModelsView, WaitingView' = WaitingView, SavedView' = SavedView
    PROVE  Private!Attach(s)
BY DEF Private!Attach, ModelsView, WaitingView, SavedView, SavedOf, ComputedView

LEMMA IsCreate ==
    ASSUME NEW s \in Sessions, s \notin specs, specs' = specs \cup {s}, ComputedView' = None,
           ModelsView' = ModelsView, WaitingView' = WaitingView,
           SavedView' = [SavedView EXCEPT ![s] = <<0, 0>>]
    PROVE  Private!Create(s)
BY DEF Private!Create, ModelsView, WaitingView, SavedView, SavedOf, ComputedView

LEMMA IsDetach ==
    ASSUME NEW s \in Sessions, s \in specs, specs' = specs \ {s}, ComputedView' = None,
           ModelsView' = [ModelsView EXCEPT ![s] = 0],
           WaitingView' = [WaitingView EXCEPT ![s] = 0], SavedView' = SavedView
    PROVE  Private!Detach(s)
BY DEF Private!Detach, ModelsView, WaitingView, SavedView, SavedOf, ComputedView

LEMMA IsAccumulate ==
    ASSUME NEW s \in Sessions, s \in specs, specs' = specs, ModelsView' = ModelsView,
           WaitingView' = [WaitingView EXCEPT ![s] = @ + 1], SavedView' = SavedView,
           ComputedView' = <<s, ModelsView[s]>>
    PROVE  Private!Accumulate(s)
BY DEF Private!Accumulate, ModelsView, WaitingView, SavedView, SavedOf, ComputedView

LEMMA IsStep ==
    ASSUME NEW s \in Sessions, s \in specs, specs' = specs, ComputedView' = None,
           ModelsView' = [ModelsView EXCEPT ![s] = @ + 1],
           WaitingView' = [WaitingView EXCEPT ![s] = 0], SavedView' = SavedView
    PROVE  Private!Step(s)
BY DEF Private!Step, ModelsView, WaitingView, SavedView, SavedOf, ComputedView

LEMMA IsCompute ==
    ASSUME NEW s \in Sessions, s \in specs, specs' = specs, ModelsView' = ModelsView,
           WaitingView' = WaitingView, SavedView' = SavedView,
           ComputedView' = <<s, ModelsView[s]>>
    PROVE  Private!Compute(s)
BY DEF Private!Compute, ModelsView, WaitingView, SavedView, SavedOf, ComputedView

LEMMA IsExtract ==
    ASSUME NEW s \in Sessions, s \in specs, specs' = specs, ComputedView' = None,
           ModelsView' = ModelsView, WaitingView' = WaitingView,
           SavedView' = [SavedView EXCEPT ![s] = <<ModelsView[s], WaitingView[s]>>]
    PROVE  Private!Extract(s)
BY DEF Private!Extract, ModelsView, WaitingView, SavedView, SavedOf, ComputedView

LEMMA IsLoad ==
    ASSUME NEW s \in Sessions, SavedView[s] # None, specs' = specs \cup {s}, ComputedView' = None,
           ModelsView' = [ModelsView EXCEPT ![s] = SavedView[s][1]],
           WaitingView' = [WaitingView EXCEPT ![s] = SavedView[s][2]], SavedView' = SavedView
    PROVE  Private!Load(s)
BY DEF Private!Load, ModelsView, WaitingView, SavedView, SavedOf, ComputedView

LEMMA IsSettle ==
    ASSUME specs' = specs, ComputedView' = None, ModelsView' = ModelsView,
           WaitingView' = WaitingView, SavedView' = SavedView
    PROVE  Private!Settle
BY DEF Private!Settle, ModelsView, WaitingView, SavedView, SavedOf, ComputedView
-----------------------------------------------------------------------------
(* Arriving: what attach_session does for a session, whoever calls it. *)
LEMMA Arrives ==
    ASSUME Uses = {}, Apart, NEW s \in Sessions, Accepts(s), LoraArrives(s) \/ Plans(s),
           NEW n, n = Attached(net, s)
    PROVE  /\ Arrived(net, n, s) /\ n.active \in specs \cup {None}
           /\ DOMAIN n.lora = {t \in specs \cup {s} : ~ Full(t)}
           /\ s \in specs => SameModels(net, n)
           /\ s \notin specs => ModelIn(n, s) = <<>>
           /\ n.wrapped = net.wrapped \/ NoneWait
<1>1. /\ Tidy(net) /\ net.active \in specs \cup {None} /\ specs \subseteq Sessions
      /\ DOMAIN net.lora = {t \in specs : ~ Full(t)}
      /\ net.active # None => Held(net, net.active)
  BY HeldActive DEF Apart, Inv
<1>2. CASE Full(s)
  <2>1. s \in specs => Held(net, s)
    BY HeldAttached
  <2>2. s \notin specs => net.active # s
    BY <1>1, Distinct
  <2> QED
    BY <1>1, <1>2, <2>1, <2>2, AttachedFullArrives DEF Arrived
<1>3. CASE ~ Full(s)
  <2>1. setting.coreDP => NoneWait
    <3>1. setting.coreDP => \A f \in Sessions : Full(f) => f \notin specs /\ saved[f] = None
      BY DEF Apart, Inv, SavedFit
    <3>2. \A f \in Sessions : f \notin specs => ~ Waiting(grads[f])
      BY DEF Apart, WaitingFit, Waiting, NoGrads
    <3> QED
      BY <3>1, <3>2 DEF NoneWait
  <2>2. ~ net.aside
    BY <1>3 DEF LoraArrives, BaseInPlace, Stands, Plans, Apart, Tidy, Sound
  <2>3. net.wrapped \/ NoneWait
    BY <1>3, <2>1 DEF LoraArrives, Stands, Plans, NoneWait
  <2>4. s \in specs <=> s \in DOMAIN net.lora
    BY <1>1, <1>3
  <2>5. /\ Arrived(net, n, s)
        /\ s \in DOMAIN net.lora => SameModels(net, n)
        /\ s \notin DOMAIN net.lora => ModelIn(n, s) = <<>>
    BY <1>1, <1>3, <2>2, AttachedLoraArrives
  <2> QED
    BY <1>1, <1>3, <2>3, <2>4, <2>5 DEF Arrived
<1> QED
  BY <1>2, <1>3

LEMMA EmptyModel ==
    ASSUME Apart, NEW s \in Sessions, s \notin specs
    PROVE  /\ [ModelsView EXCEPT ![s] = 0] = ModelsView
           /\ [WaitingView EXCEPT ![s] = 0] = WaitingView
<1>1. ModelOf(s) = 0
  BY ModelLength
<1>2. Passes(grads[s]) = 0
  BY NothingWaits DEF Apart, WaitingFit
<1> QED
  BY <1>1, <1>2 DEF ModelsView, WaitingView

(* attach_session of a new session; the plan may raise after it. *)
LEMMA AttachApart ==
    ASSUME Uses = {}, Apart, Inv', NEW s \in Sessions, Attach(s) \/ PlanFails(s)
    PROVE  Apart' /\ Private!Attach(s)
<1>1. /\ Accepts(s) /\ (LoraArrives(s) \/ Plans(s)) /\ s \notin specs /\ net' = Attached(net, s)
      /\ specs' = specs \cup {s} /\ ran' = None /\ setting' = setting
      /\ grads' = grads /\ moments' = moments /\ saved' = saved
  BY DEF Attach, PlanFails
<1>2. /\ Arrived(net, net', s) /\ net'.active \in specs \cup {None}
      /\ DOMAIN net'.lora = {t \in specs \cup {s} : ~ Full(t)}
      /\ ModelIn(net', s) = <<>> /\ WrapsEarly
  BY <1>1, Arrives DEF WrapsEarly
<1>3. \A t \in Sessions : WaitingFit(t)' /\ SavedFit(t)'
  BY <1>1, <1>2, RestFits
<1>4. Apart'
  BY <1>1, <1>2, <1>3, KeepsApart DEF Arrived, Apart
<1>5. ModelsView' = [ModelsView EXCEPT ![s] = 0]
  BY <1>1, <1>2, <1>4, ModelsUpdated DEF Arrived
<1> QED
  BY <1>1, <1>4, <1>5, EmptyModel, ViewsKept, IsAttach

(* init_session_state: the state of a new session is kept beside it. *)
LEMMA InitStateApart ==
    ASSUME Uses = {}, Apart, Inv', NEW s \in Sessions, InitState(s)
    PROVE  Apart' /\ Private!Create(s)
<1> DEFINE st == [weights |-> IF Full(s) THEN None ELSE net'.lora[s],
                  grads |-> NoGrads, moments |-> None]
<1>1. /\ Accepts(s) /\ LoraArrives(s) /\ s \notin specs /\ net' = Attached(net, s)
      /\ specs' = specs \cup {s} /\ ran' = None /\ setting' = setting
      /\ grads' = grads /\ moments' = moments /\ saved' = [saved EXCEPT ![s] = st]
  BY DEF InitState
<1>2. /\ Arrived(net, net', s) /\ net'.active \in specs \cup {None}
      /\ DOMAIN net'.lora = {t \in specs \cup {s} : ~ Full(t)}
      /\ ModelIn(net', s) = <<>> /\ WrapsEarly
  BY <1>1, Arrives DEF WrapsEarly
<1>3. /\ st.weights = IF Full(s) THEN None ELSE <<>>
      /\ st.grads = NoGrads /\ st \in States /\ st.moments = None
  <2>1. net'.lora[s] = <<>> \/ Full(s)
    BY <1>2 DEF ModelIn
  <2>2. NoGrads \in [{} -> Nat] /\ {} \in SUBSET Names
    BY DEF NoGrads
  <2>3. NoGrads \in Gradients
    BY <2>2 DEF Gradients
  <2>4. st.weights = IF Full(s) THEN None ELSE <<>>
    BY <2>1
  <2>5. <<>> \in Seq(Sessions)
    OBVIOUS
  <2>6. st.grads = NoGrads /\ st.moments = None
        /\ st = [weights |-> st.weights, grads |-> NoGrads, moments |-> None]
    OBVIOUS
  <2> HIDE DEF st
  <2> QED
    BY <2>3, <2>4, <2>5, <2>6 DEF States
<1> HIDE DEF st
<1>4. DOMAIN saved = Sessions /\ saved'[s] = st /\ \A t \in Sessions \ {s} : saved'[t] = saved[t]
  BY <1>1 DEF Apart, Inv
<1>5. \A t \in Sessions \ {s} : WaitingFit(t)' /\ SavedFit(t)'
  BY <1>1, <1>2, <1>4, RestFits
<1>6. WaitingFit(s)'
  <2>1. grads'[s] = NoGrads /\ moments'[s] \in Moments \cup {None}
    BY <1>1 DEF Apart, WaitingFit
  <2> QED
    BY <2>1, NothingWaits DEF WaitingFit
<1>7. SavedFit(s)'
  <2>1. Waits(st.grads, KeyIn(net', s)) /\ OwnSteps(s, <<>>)
    BY <1>3, NothingWaits, Untrained
  <2>2. Full(s) => ~ setting.coreDP
    BY <1>1 DEF Accepts
  <2> QED
    BY <1>1, <1>3, <1>4, <2>1, <2>2 DEF SavedFit, Full, OwnSteps, Waits, KeyIn
<1>8. Apart'
  BY <1>1, <1>2, <1>5, <1>6, <1>7, KeepsApart DEF Arrived, Apart
<1>9. ModelsView' = [ModelsView EXCEPT ![s] = 0]
  BY <1>1, <1>2, <1>8, ModelsUpdated DEF Arrived
<1>10. SavedView' = [SavedView EXCEPT ![s] = <<0, 0>>]
  <2>1. Own(s, <<>>) = 0
    BY Untrained, OwnLength
  <2>2. (IF st.weights = None THEN 0 ELSE Own(s, st.weights)) = 0 /\ Passes(st.grads) = 0
    BY <1>3, <2>1, NothingWaits
  <2>3. SavedView' = [SavedView EXCEPT ![s] =
            <<IF st.weights = None THEN 0 ELSE Own(s, st.weights), Passes(st.grads)>>]
    BY <1>1, <1>3, <1>4, SavedUpdated
  <2> QED
    BY <2>2, <2>3
<1> QED
  BY <1>1, <1>8, <1>9, <1>10, EmptyModel, ViewsKept, IsCreate

LEMMA DetachApart ==
    ASSUME Apart, Inv', NEW s \in Sessions, Detach(s)
    PROVE  Apart' /\ Private!Detach(s)
<1>1. /\ s \in specs /\ ~ setting.coreDP /\ specs' = specs \ {s} /\ ran' = None /\ setting' = setting
      /\ grads' = [grads EXCEPT ![s] = NoGrads] /\ moments' = [moments EXCEPT ![s] = None]
      /\ saved' = saved
  BY DEF Detach
<1>2. PICK next \in (IF DOMAIN net.lora \subseteq {s} THEN {None} ELSE DOMAIN net.lora \ {s}) :
         net' = Released(IF Full(s) THEN [net EXCEPT !.kept = Without(@, s)]
                                    ELSE DetachedLora(net, s, next), s)
  BY DEF Detach
<1>3. next \in Sessions \cup {None} /\ Tidy(net)
  BY DEF Apart, Inv, Sound
<1>4. /\ Tidy(net') /\ OthersSame(net, net', s) /\ net'.wrapped = net.wrapped
      /\ net'.active = IF net.active = s THEN None ELSE net.active
      /\ DOMAIN net'.lora = DOMAIN net.lora \ (IF Full(s) THEN {} ELSE {s})
  BY <1>1, <1>2, <1>3, LeftTidy
<1>5. \A t \in Sessions \ {s} : WaitingFit(t)' /\ SavedFit(t)'
  BY <1>1, <1>4, RestFits DEF WrapsEarly
<1>6. WaitingFit(s)'
  <2>1. grads'[s] = NoGrads /\ moments'[s] = None
    BY <1>1 DEF Apart
  <2> QED
    BY <2>1, NothingWaits DEF WaitingFit
<1>7. SavedFit(s)'
  BY <1>1, <1>4 DEF Apart, SavedFit, KeyIn, Full, Waits, OwnSteps
<1>8. Apart'
  BY <1>1, <1>4, <1>5, <1>6, <1>7, KeepsApart DEF Apart
<1>9. ModelsView' = [ModelsView EXCEPT ![s] = 0]
  BY <1>1, <1>4, <1>8, ModelsUpdated
<1>10. WaitingView' = [WaitingView EXCEPT ![s] = 0]
  BY <1>1, NothingWaits, WaitingUpdated DEF Apart
<1> QED
  BY <1>1, <1>8, <1>9, <1>10, ViewsKept, IsDetach

(* load_state: the session is attached, then its weights, gradients and moments are those
   of the state. *)
LEMMA LoadApart ==
    ASSUME Uses = {}, Apart, Inv', NEW s \in Sessions, LoadState(s)
    PROVE  Apart' /\ Private!Load(s)
<1> DEFINE n == Attached(net, s)
           st == saved[s]
<1>1. /\ Accepts(s) /\ LoraArrives(s) /\ st # None /\ net' = Loaded(n, s, st)
      /\ st.weights # None \/ s \notin specs
      /\ specs' = specs \cup {s} /\ ran' = None /\ setting' = setting /\ saved' = saved
      /\ grads' = [grads EXCEPT ![s] = st.grads] /\ moments' = [moments EXCEPT ![s] = st.moments]
  BY DEF LoadState, Stands
<1>2. /\ Arrived(net, n, s) /\ n.active \in specs \cup {None}
      /\ DOMAIN n.lora = {t \in specs \cup {s} : ~ Full(t)}
      /\ s \notin specs => ModelIn(n, s) = <<>>
      /\ n.wrapped = net.wrapped \/ NoneWait
  BY <1>1, Arrives
<1>3. /\ st \in States /\ Waits(st.grads, KeyIn(net, s))
      /\ Full(s) => st.weights = None \/ OwnSteps(s, st.weights)
      /\ ~ Full(s) => OwnSteps(s, st.weights)
  BY <1>1 DEF Apart, SavedFit, Inv
<1> HIDE DEF n, st
<1>4. /\ Tidy(net') /\ OthersSame(n, net', s) /\ Held(net', s) /\ net'.active = n.active
      /\ net'.wrapped = n.wrapped /\ DOMAIN net'.lora = DOMAIN n.lora
      /\ ModelIn(net', s) = IF Full(s) /\ st.weights = None THEN ModelIn(n, s) ELSE st.weights
  <2>1. Tidy(n) /\ Held(n, s) /\ net' = Loaded(n, s, st)
    BY <1>1, <1>2 DEF Arrived
  <2>2. \A m : m = Loaded(n, s, st) =>
           /\ Tidy(m) /\ OthersSame(n, m, s) /\ Held(m, s) /\ m.active = n.active
           /\ m.wrapped = n.wrapped /\ DOMAIN m.lora = DOMAIN n.lora
           /\ ModelIn(m, s) = IF Full(s) /\ st.weights = None THEN ModelIn(n, s) ELSE st.weights
    BY <1>3, <2>1, LoadedTidy
  <2> QED
    BY <2>1, <2>2
<1>5. OthersSame(net, net', s)
  BY <1>2, <1>4 DEF Arrived, OthersSame
<1>6. WrapsEarly
  BY <1>2, <1>4 DEF WrapsEarly
<1>7. \A t \in Sessions \ {s} : WaitingFit(t)' /\ SavedFit(t)'
  BY <1>1, <1>6, RestFits
<1>8. KeyIn(net', s) = KeyIn(net, s)
  BY <1>2, <1>4 DEF Arrived, KeyIn
<1>9. WaitingFit(s)'
  <2>1. grads'[s] = st.grads /\ moments'[s] = st.moments /\ s \in specs'
    BY <1>1 DEF Apart
  <2>2. Waits(grads'[s], KeyIn(net', s)) /\ moments'[s] \in Moments \cup {None}
    BY <1>3, <1>8, <2>1 DEF States
  <2> QED
    BY <2>1, <2>2 DEF WaitingFit, Waits, KeyIn, Full
<1>10. SavedFit(s)'
  BY <1>1, <1>8 DEF Apart, SavedFit, KeyIn, Full, Waits, OwnSteps
<1>11. Apart'
  BY <1>1, <1>2, <1>4, <1>7, <1>9, <1>10, KeepsApart DEF Apart
<1>12. SavedView[s] = <<IF st.weights = None THEN 0 ELSE Own(s, st.weights), Passes(st.grads)>>
  BY <1>1 DEF SavedView, SavedOf, st
<1>13. Len(ModelIn(net', s)) = IF st.weights = None THEN 0 ELSE Own(s, st.weights)
  <2>1. CASE st.weights = None
    <3>1. Full(s)
      BY <1>3, <2>1, NoneAssumption DEF OwnSteps
    <3> QED
      BY <1>1, <1>2, <1>4, <2>1, <3>1
  <2>2. CASE st.weights # None
    BY <1>3, <1>4, <2>2, OwnLength
  <2> QED
    BY <2>1, <2>2
<1>14. SavedView[s] # None
  <2>1. Len(ModelIn(net', s)) \in Nat
    <3>1. CASE st.weights = None
      BY <1>13, <3>1
    <3>2. CASE st.weights # None
      <4>1. ModelIn(net', s) = st.weights /\ st.weights \in Seq(Sessions)
        BY <1>3, <1>4, <3>2 DEF OwnSteps
      <4> QED
        BY <4>1
    <3> QED
      BY <3>1, <3>2
  <2>2. Passes(st.grads) \in Nat
    <3>1. MaxPasses \in Nat
      BY BoundsAssumption
    <3> QED
      BY <1>3, <3>1, PassesWaiting DEF Waits
  <2> QED
    BY <1>12, <1>13, <2>1, <2>2, NoneAssumption
<1>15. ModelsView' = [ModelsView EXCEPT ![s] = SavedView[s][1]]
  <2>1. ModelsView' = [ModelsView EXCEPT ![s] = Len(ModelIn(net', s))]
    BY <1>1, <1>5, <1>11, ModelsUpdated
  <2> QED
    BY <1>12, <1>13, <2>1
<1>16. WaitingView' = [WaitingView EXCEPT ![s] = SavedView[s][2]]
  <2>1. WaitingView' = [WaitingView EXCEPT ![s] = Passes(st.grads)]
    BY <1>1, WaitingUpdated DEF Apart
  <2> QED
    BY <1>12, <2>1
<1> QED
  BY <1>1, <1>11, <1>14, <1>15, <1>16, ViewsKept, IsLoad

LEMMA ExtractApart ==
    ASSUME Uses = {}, Apart, Inv', NEW s \in Sessions, ExtractState(s)
    PROVE  Apart' /\ Private!Extract(s)
<1> DEFINE st == [weights |-> Weights(s), grads |-> grads[s], moments |-> moments[s]]
<1>1. /\ s \in specs /\ saved' = [saved EXCEPT ![s] = st] /\ ran' = None
      /\ UNCHANGED <<setting, net, specs, grads, moments>>
  BY DEF ExtractState
<1>2. WaitingFit(s) /\ DOMAIN saved = Sessions /\ (Full(s) => ~ setting.coreDP)
  BY <1>1 DEF Apart, Inv
<1>3. /\ st.weights = ModelIn(net, s) /\ st.grads = grads[s] /\ st.moments = moments[s]
      /\ st = [weights |-> st.weights, grads |-> st.grads, moments |-> st.moments]
  <2>1. net.active = s => ~ net.aside
    BY DEF ExtractState, BaseInPlace, Stands
  <2> QED
    BY <2>1 DEF Weights, ModelIn
<1> HIDE DEF st
<1>4. OwnSteps(s, st.weights) /\ ModelOf(s) = Len(st.weights)
  BY <1>1, <1>3, OwnModels, ModelLength
<1>5. st \in States
  <2>1. st.weights \in Seq(Sessions)
    BY <1>4 DEF OwnSteps
  <2>2. st.grads \in [DOMAIN st.grads -> Nat] /\ DOMAIN st.grads \in SUBSET Names
    <3>1. MaxPasses \in Nat
      BY BoundsAssumption
    <3> QED
      BY <1>2, <1>3, <3>1 DEF WaitingFit, Waits
  <2>3. st.grads \in Gradients
    BY <2>2 DEF Gradients
  <2>4. st.moments \in Moments \cup {None}
    BY <1>2, <1>3 DEF WaitingFit
  <2> QED
    BY <1>3, <2>1, <2>3, <2>4 DEF States
<1>6. saved'[s] = st /\ \A t \in Sessions \ {s} : saved'[t] = saved[t]
  BY <1>1, <1>2
<1>7. \A t \in Sessions \ {s} : WaitingFit(t)' /\ SavedFit(t)'
  BY <1>1, <1>6, RestFits DEF WrapsEarly
<1>8. WaitingFit(s)'
  BY <1>1, <1>2 DEF WaitingFit, Waits, KeyIn, Full
<1>9. SavedFit(s)'
  <2>1. Waits(st.grads, KeyIn(net', s))
    BY <1>1, <1>2, <1>3 DEF WaitingFit
  <2> QED
    BY <1>1, <1>2, <1>4, <1>5, <1>6, <2>1 DEF SavedFit, KeyIn, Full, Waits, OwnSteps
<1>10. Apart'
  BY <1>1, <1>7, <1>8, <1>9, KeepsApart DEF Apart
<1>11. ModelsView' = ModelsView
  BY <1>1, <1>10, ModelsKept DEF SameModels
<1>12. SavedView' = [SavedView EXCEPT ![s] = <<ModelsView[s], WaitingView[s]>>]
  <2>1. SavedView' = [SavedView EXCEPT ![s] =
            <<IF st.weights = None THEN 0 ELSE Own(s, st.weights), Passes(st.grads)>>]
    BY <1>1, <1>2, <1>5, SavedUpdated
  <2>2. st.weights # None
    BY <1>4, NoneAssumption DEF OwnSteps
  <2>3. Own(s, st.weights) = ModelsView[s] /\ Passes(st.grads) = WaitingView[s]
    BY <1>3, <1>4, OwnLength DEF ModelsView, WaitingView
  <2> QED
    BY <2>1, <2>2, <2>3
<1> QED
  BY <1>1, <1>10, <1>11, <1>12, ViewsKept, IsExtract
-----------------------------------------------------------------------------
LEMMA Places ==
    ASSUME Apart, NEW s \in specs, ~ net.aside
    PROVE  s \in Sessions /\ Held(net, s) /\ Placed(net, Activated(net, s), s)
<1>1. s \in Sessions /\ Held(net, s) /\ (net.active # None => Held(net, net.active))
  BY HeldAttached, HeldActive
<1>2. Full(s) => ~ setting.coreDP
  BY DEF Apart, Inv
<1> QED
  BY <1>1, <1>2, ActivatedPlaced DEF Apart

(* Operations that use a session's model without changing it. *)
LEMMA RunApart ==
    ASSUME Apart, Inv', NEW s \in specs, UNCHANGED <<setting, specs, moments, saved>>,
           NEW m, Placed(net, m, s), net' = m \/ net' = Passed(m, s),
           DOMAIN grads' = Sessions, \A t \in Sessions \ {s} : grads'[t] = grads[t],
           Waits(grads'[s], KeyIn(net, s))
    PROVE  Apart' /\ ModelsView' = ModelsView
<1>1. s \in Sessions
  BY HeldAttached
<1>2. /\ Tidy(m) /\ SameModels(net, m) /\ m.active = s /\ m.wrapped = net.wrapped
      /\ DOMAIN m.lora = DOMAIN net.lora
  BY DEF Placed
<1>3. /\ Tidy(net') /\ SameModels(m, net') /\ net'.active = s /\ net'.wrapped = net.wrapped
      /\ DOMAIN net'.lora = DOMAIN net.lora
  BY <1>1, <1>2, PassedTidy DEF SameModels
<1>4. SameModels(net, net')
  BY <1>2, <1>3 DEF SameModels
<1>5. \A t \in Sessions \ {s} : WaitingFit(t)' /\ SavedFit(t)'
  BY <1>3, RestFits DEF WrapsEarly
<1>6. KeyIn(net', s) = KeyIn(net, s)
  BY <1>3 DEF KeyIn
<1>7. WaitingFit(s)'
  <2>1. Waits(grads'[s], KeyIn(net', s)) /\ moments'[s] \in Moments \cup {None}
    BY <1>1, <1>6 DEF Apart, WaitingFit
  <2> QED
    BY <2>1 DEF WaitingFit, Waits, KeyIn, Full
<1>8. SavedFit(s)'
  BY <1>1, <1>6 DEF Apart, SavedFit, KeyIn, Full, Waits, OwnSteps
<1>9. Apart'
  BY <1>3, <1>5, <1>7, <1>8, KeepsApart DEF Apart
<1> QED
  BY <1>4, <1>9, ModelsKept

LEMMA ComputeApart ==
    ASSUME Uses = {}, Apart, Inv', NEW s \in Sessions, Compute(s)
    PROVE  Apart' /\ Private!Compute(s)
<1> DEFINE m == Activated(net, s)
<1>1. /\ s \in specs /\ ~ net.aside /\ net' = Passed(m, s) /\ ran' = Forward(m, s)
      /\ UNCHANGED <<setting, specs, grads, moments, saved>>
  BY DEF Compute, BaseInPlace, Stands
<1>2. Placed(net, m, s)
  BY <1>1, Places
<1> HIDE DEF m
<1>3. Waits(grads'[s], KeyIn(net, s)) /\ DOMAIN grads' = Sessions
  BY <1>1 DEF Apart, WaitingFit
<1>4. Apart' /\ ModelsView' = ModelsView
  BY <1>1, <1>2, <1>3, RunApart
<1>5. ComputedView' = <<s, ModelsView[s]>>
  BY <1>1, <1>2, RunOnModel
<1> QED
  BY <1>1, <1>4, <1>5, ViewsKept, IsCompute

LEMMA StepRefusedApart ==
    ASSUME Uses = {}, Apart, Inv', NEW s \in Sessions, StepRefused(s)
    PROVE  Apart' /\ Private!Settle
<1> DEFINE m == Activated(net, s)
<1>1. /\ s \in specs /\ ~ net.aside /\ net' = m /\ ran' = None
      /\ UNCHANGED <<setting, specs, grads, moments, saved>>
  BY DEF StepRefused, BaseInPlace, Stands
<1>2. Placed(net, m, s)
  BY <1>1, Places
<1> HIDE DEF m
<1>3. Waits(grads'[s], KeyIn(net, s)) /\ DOMAIN grads' = Sessions
  BY <1>1 DEF Apart, WaitingFit
<1>4. Apart' /\ ModelsView' = ModelsView
  BY <1>1, <1>2, <1>3, RunApart
<1> QED
  BY <1>1, <1>4, ViewsKept, IsSettle

(* A backward pass adds to the session's own parameters only: an adapter that is trainable
   beside a full-parameter session gets nothing. *)
LEMMA PassApart ==
    ASSUME Uses = {}, Apart, Inv', NEW s \in Sessions, ForwardBackward(s)
    PROVE  Apart' /\ Private!Accumulate(s)
<1> DEFINE m == Activated(net, s)
           key == KeyIn(net, s)
           mine == {p \in ParamNames(m) : Full(s) => p \notin Sessions}
           g == grads[s]
           sum == [p \in DOMAIN g \cup mine |-> (IF p \in DOMAIN g THEN g[p] ELSE 0)
                                                + (IF p \in mine THEN 1 ELSE 0)]
<1>1. s \in specs /\ ~ net.aside
  BY DEF ForwardBackward, BaseInPlace, Stands
<1>2. Placed(net, m, s)
  BY <1>1, Places
<1>3. mine = {key} /\ key \in Names
  <2>1. /\ key \in ParamNames(m) /\ ParamNames(m) \subseteq Sessions \cup {key}
        /\ ~ Full(s) => ParamNames(m) = {s}
        /\ Full(s) => key \notin Sessions
    BY <1>2, PlacedParams
  <2>2. ~ Full(s) => key = s
    BY DEF KeyIn
  <2>3. key \in Names
    BY DEF KeyIn, Names
  <2> HIDE DEF m, key
  <2> QED
    BY <2>1, <2>2, <2>3
<1>4. /\ net' = Passed(m, s) /\ ran' = IF mine = {} THEN None ELSE Forward(m, s)
      /\ grads' = [grads EXCEPT ![s] = sum] /\ \A p \in DOMAIN g : g[p] < MaxPasses
      /\ UNCHANGED <<setting, specs, moments, saved>>
  BY DEF ForwardBackward
<1>5. DOMAIN grads = Sessions /\ Waits(g, key)
  BY DEF Apart, WaitingFit
<1>6. Waits(sum, key) /\ Passes(sum) = Passes(g) + 1
  <2>1. MaxPasses \in Nat \ {0}
    BY BoundsAssumption
  <2>2. \A p \in DOMAIN g : g[p] \in 0 .. MaxPasses /\ g[p] < MaxPasses /\ (p # key => g[p] = 0)
    BY <1>4, <1>5 DEF Waits
  <2> DEFINE old == IF key \in DOMAIN g THEN g[key] ELSE 0
  <2>3. /\ DOMAIN sum = DOMAIN g \cup {key} /\ sum[key] = old + 1
        /\ \A p \in DOMAIN g : p # key => sum[p] = g[p] + 0
        /\ sum \in [DOMAIN sum -> {sum[p] : p \in DOMAIN sum}]
    BY <1>3
  <2> HIDE DEF m, mine, sum, g, key
  <2>4. old \in Nat /\ old + 1 \in 0 .. MaxPasses
    BY <2>1, <2>2
  <2> HIDE DEF old
  <2>5. \A p \in DOMAIN sum : sum[p] \in 0 .. MaxPasses /\ (p # key => sum[p] = 0)
    BY <2>1, <2>2, <2>3, <2>4
  <2>6. sum \in [DOMAIN sum -> 0 .. MaxPasses] /\ DOMAIN sum \subseteq Names
    BY <1>3, <1>5, <2>3, <2>5 DEF Waits
  <2>7. Waits(sum, key)
    BY <2>5, <2>6 DEF Waits
  <2>8. Passes(sum) = sum[key] /\ Passes(g) = old
    BY <1>5, <2>3, <2>7, PassesWaiting DEF old
  <2> QED
    BY <2>3, <2>7, <2>8
<1> HIDE DEF m, mine, sum
<1>7. grads'[s] = sum /\ DOMAIN grads' = Sessions /\ \A t \in Sessions \ {s} : grads'[t] = grads[t]
  BY <1>4, <1>5
<1>8. Apart' /\ ModelsView' = ModelsView
  BY <1>1, <1>2, <1>4, <1>6, <1>7, RunApart
<1>9. ran' = Forward(m, s)
  BY <1>3, <1>4
<1>10. ComputedView' = <<s, ModelsView[s]>>
  BY <1>1, <1>2, <1>9, RunOnModel
<1>11. WaitingView' = [WaitingView EXCEPT ![s] = @ + 1]
  <2>1. WaitingView' = [WaitingView EXCEPT ![s] = Passes(sum)]
    BY <1>4, <1>5, WaitingUpdated
  <2>2. WaitingView[s] = Passes(g)
    BY DEF WaitingView
  <2> QED
    BY <1>6, <2>1, <2>2
<1> QED
  BY <1>1, <1>4, <1>8, <1>10, <1>11, ViewsKept, IsAccumulate

(* optim_step: the session's model moves by one step, or nothing was there to move it. *)
LEMMA StepApart ==
    ASSUME Uses = {}, Apart, Inv', NEW s \in Sessions, OptimStep(s)
    PROVE  Apart' /\ (Private!Step(s) \/ Private!Settle)
<1> DEFINE m == Activated(net, s)
           names == ParamNames(m)
           moves == Moves(s, KeyIn(net, s), names)
           zeros == [p \in names |-> 0]
           count == Cardinality(names)
           made == [size |-> count, steps |-> (IF Fits(s, names) THEN moments[s].steps ELSE 0) + 1]
<1>1. /\ s \in specs /\ net' = Moved(m, s, names) /\ ran' = None /\ ~ net.aside
      /\ grads' = [grads EXCEPT ![s] = zeros] /\ moments' = [moments EXCEPT ![s] = made]
      /\ UNCHANGED <<setting, specs, saved>>
  BY DEF OptimStep, BaseInPlace, Stands
<1>2. Held(net, s) /\ Placed(net, m, s) /\ WaitingFit(s) /\ DOMAIN grads = Sessions
      /\ DOMAIN moments = Sessions
  BY <1>1, Places DEF Apart
<1>3. /\ Tidy(Moved(m, s, names)) /\ OthersSame(net, Moved(m, s, names), s)
      /\ Moved(m, s, names).active = s /\ Moved(m, s, names).wrapped = net.wrapped
      /\ DOMAIN Moved(m, s, names).lora = DOMAIN net.lora
      /\ ModelIn(Moved(m, s, names), s) =
            IF moves THEN Append(ModelIn(net, s), s) ELSE ModelIn(net, s)
      /\ ~ moves => Passes(grads[s]) = 0
  <2> HIDE DEF m
  <2> QED
    BY <1>2, MovedTidy DEF WaitingFit
<1>4. /\ names \subseteq Sessions \cup {KeyIn(net, s)} /\ names \subseteq Names /\ IsFiniteSet(names)
  <2>1. names \subseteq Sessions \cup {KeyIn(net, s)}
    BY <1>2, PlacedParams
  <2>2. KeyIn(net, s) \in Names /\ Sessions \subseteq Names
    BY DEF KeyIn, Names
  <2>3. IsFiniteSet(Sessions \cup {KeyIn(net, s)})
    BY BoundsAssumption, FS_AddElement
  <2> QED
    BY <2>1, <2>2, <2>3, FS_Subset
<1>5. made \in Moments
  <2>1. count \in Nat
    BY <1>4, FS_CardinalityType
  <2>2. (IF Fits(s, names) THEN moments[s].steps ELSE 0) \in Nat
    BY <1>2 DEF Fits, WaitingFit, Moments
  <2> QED
    BY <2>1, <2>2 DEF Moments
<1>6. Waits(zeros, KeyIn(net, s)) /\ Passes(zeros) = 0
  <2>1. MaxPasses \in Nat
    BY BoundsAssumption
  <2>2. zeros \in [names -> 0 .. MaxPasses] /\ DOMAIN zeros = names /\ \A p \in names : zeros[p] = 0
    BY <2>1
  <2> HIDE DEF zeros, names
  <2>3. Waits(zeros, KeyIn(net, s))
    BY <1>4, <2>2 DEF Waits
  <2> QED
    BY <2>2, <2>3 DEF Passes
<1> HIDE DEF m, names, moves, zeros, made
<1>7. /\ Tidy(net') /\ OthersSame(net, net', s) /\ net'.active = s /\ net'.wrapped = net.wrapped
      /\ DOMAIN net'.lora = DOMAIN net.lora
      /\ ModelIn(net', s) = IF moves THEN Append(ModelIn(net, s), s) ELSE ModelIn(net, s)
  BY <1>1, <1>3
<1>8. \A t \in Sessions \ {s} : WaitingFit(t)' /\ SavedFit(t)'
  BY <1>1, <1>2, <1>7, RestFits DEF WrapsEarly
<1>9. KeyIn(net', s) = KeyIn(net, s)
  BY <1>7 DEF KeyIn
<1>10. WaitingFit(s)'
  <2>1. Waits(grads'[s], KeyIn(net', s)) /\ moments'[s] \in Moments \cup {None}
    BY <1>1, <1>2, <1>5, <1>6, <1>9
  <2> QED
    BY <1>1, <2>1 DEF WaitingFit, Waits, KeyIn, Full
<1>11. SavedFit(s)'
  BY <1>1, <1>9 DEF Apart, SavedFit, KeyIn, Full, Waits, OwnSteps
<1>12. Apart'
  BY <1>1, <1>2, <1>7, <1>8, <1>10, <1>11, KeepsApart DEF Apart
<1>13. ModelsView' = [ModelsView EXCEPT ![s] = Len(ModelIn(net', s))]
  BY <1>1, <1>7, <1>12, ModelsUpdated
<1>14. WaitingView' = [WaitingView EXCEPT ![s] = 0]
  BY <1>1, <1>2, <1>6, WaitingUpdated
<1>15. ModelsView[s] = Len(ModelIn(net, s)) /\ ModelIn(net, s) \in Seq(Sessions)
  BY <1>1, ModelLength, OwnModels DEF ModelsView, OwnSteps
<1>16. CASE moves
  <2>1. Len(ModelIn(net', s)) = ModelsView[s] + 1
    <3>1. ModelIn(net', s) = Append(ModelIn(net, s), s)
      BY <1>7, <1>16
    <3>2. Len(Append(ModelIn(net, s), s)) = Len(ModelIn(net, s)) + 1
      BY <1>15
    <3> QED
      BY <1>15, <3>1, <3>2
  <2>2. ModelsView' = [ModelsView EXCEPT ![s] = @ + 1]
    BY <1>13, <2>1
  <2>3. Private!Step(s)
    BY <1>1, <1>14, <2>2, ViewsKept, IsStep
  <2> QED
    BY <1>12, <2>3
<1>17. CASE ~ moves
  <2>1. ModelsView' = ModelsView
    <3>1. Len(ModelIn(net', s)) = ModelsView[s]
      BY <1>7, <1>15, <1>17
    <3> QED
      BY <1>13, <3>1 DEF ModelsView
  <2>2. WaitingView' = WaitingView
    <3>1. WaitingView[s] = 0
      BY <1>3, <1>17 DEF WaitingView
    <3> QED
      BY <1>14, <3>1 DEF WaitingView
  <2>3. Private!Settle
    BY <1>1, <2>1, <2>2, ViewsKept, IsSettle
  <2> QED
    BY <1>12, <2>3
<1> QED
  BY <1>16, <1>17
-----------------------------------------------------------------------------
LEMMA InitApart == Init => Apart /\ Private!Init
<1> SUFFICES ASSUME Init PROVE Apart /\ Private!Init
  OBVIOUS
<1>1. Inv /\ specs = {} /\ ran = None /\ DOMAIN NoGrads = {}
  BY InitInv DEF Init, NoGrads
<1>2. Tidy(net) /\ net.active = None /\ net.lora = NoGrads
  BY <1>1, Distinct DEF Init, Inv, Tidy
<1>3. \A t \in Sessions : grads[t] = NoGrads /\ moments[t] = None /\ saved[t] = None
  BY DEF Init
<1>4. DOMAIN grads = Sessions /\ DOMAIN moments = Sessions
  BY DEF Init
<1>5. \A t \in Sessions : WaitingFit(t) /\ SavedFit(t)
  BY <1>3, NothingWaits DEF WaitingFit, SavedFit
<1>6. Apart
  BY <1>1, <1>2, <1>4, <1>5 DEF Apart
<1>7. \A t \in Sessions : ModelOf(t) = 0 /\ Passes(grads[t]) = 0 /\ SavedOf(t) = None
  BY <1>1, <1>3, NothingWaits DEF ModelOf, SavedOf
<1>8. Private!Init
  BY <1>1, <1>7 DEF Private!Init, SavedOf
<1> QED
  BY <1>6, <1>8

LEMMA NextApart == Uses = {} /\ Apart /\ Inv' /\ [Next]_vars => Apart' /\ [Private!Next]_(Private!vars)
<1> SUFFICES ASSUME Uses = {}, Apart, Inv', [Next]_vars
             PROVE  Apart' /\ (Private!Next \/ UNCHANGED Private!vars)
  OBVIOUS
<1>1. CASE UNCHANGED vars
  <2>1. \A t \in Sessions : WaitingFit(t)' /\ SavedFit(t)'
    BY <1>1, RestFits DEF vars, WrapsEarly
  <2>2. Apart'
    BY <1>1, <2>1, KeepsApart DEF vars, Apart
  <2>3. ModelsView' = ModelsView
    BY <1>1, <2>2, ModelsKept DEF vars, SameModels
  <2>4. ComputedView' = ComputedView
    BY <1>1 DEF vars, ComputedView
  <2>5. UNCHANGED Private!vars
    BY <1>1, <2>3, <2>4, ViewsKept
       DEF vars, Private!vars, ModelsView, WaitingView, SavedView, SavedOf, ComputedView
  <2> QED
    BY <2>2, <2>5
<1>2. CASE Next
  <2>1. PICK s \in Sessions :
          \/ Attach(s) \/ PlanFails(s) \/ InitState(s) \/ Detach(s) \/ LoadState(s)
          \/ ExtractState(s) \/ ForwardBackward(s) \/ Compute(s) \/ OptimStep(s)
          \/ StepRefused(s)
    BY <1>2 DEF Next
  <2>2. Apart' /\ \/ Private!Attach(s) \/ Private!Create(s) \/ Private!Detach(s)
                  \/ Private!Load(s) \/ Private!Extract(s) \/ Private!Accumulate(s)
                  \/ Private!Compute(s) \/ Private!Step(s) \/ Private!Settle
    BY <2>1, AttachApart, InitStateApart, DetachApart, LoadApart, ExtractApart, PassApart,
       ComputeApart, StepApart, StepRefusedApart
  <2> QED
    BY <2>2 DEF Private!Next
<1> QED
  BY <1>1, <1>2

(***************************************************************************)
(* The trainer implements PrivateModels: whatever sessions of both kinds   *)
(* attach (a LoRA one beside an active full-parameter one too), run, step, *)
(* save, load and detach, each trains, saves, loads and runs a model of    *)
(* its own (_active_module, attach_session, _set_grad_for_session,         *)
(* load_state). Uses = {} leaves out four uses at the operation that goes  *)
(* wrong: one over a base set aside, a first adapter while plain gradients *)
(* wait, an untrained state loaded over a trained session, weight decay.   *)
(***************************************************************************)
THEOREM EachTrainsItsOwn == ASSUME Uses = {} PROVE Spec => TrainsPrivately
<1>1. Spec => []Inv
  BY InitInv, NextInv, PTL DEF Spec
<1>2. Init => Apart /\ Private!Init
  BY InitApart
<1>3. Apart /\ Inv' /\ [Next]_vars => Apart' /\ [Private!Next]_(Private!vars)
  BY NextApart
<1> QED
  BY <1>1, <1>2, <1>3, PTL DEF Spec, TrainsPrivately, Private!Spec
-----------------------------------------------------------------------------
(***************************************************************************)
(* The samplers (SamplingBackends), whose engine shares the GPU with the   *)
(* trainer: EngineInv says who holds the lock and in whose block the       *)
(* engine is, PoolInv what the servers can hold beside what was promised.  *)
(***************************************************************************)
(* A task at these places holds the lock across an engine call. *)
Calling == {"building", "presleep", "waking", "sleeping"}
Guarded == {"in", "generating"}
UsesGpu == {"presleep", "in", "generating", "leave", "sleeping"}
Inside == {"wake", "waking", "in", "generating", "leave", "sleeping"}
TaskPlaces == {"out", "init", "close", "building", "presleep", "wake", "waking", "in",
           "generating", "leave", "sleeping"}

EngineTypes ==
    /\ sleepMode \in BOOLEAN /\ flag \in BOOLEAN /\ engine \in {"none", "awake", "asleep"}
    /\ lock \in Seq(Tasks) /\ pc \in [Tasks -> TaskPlaces]
    /\ DOMAIN left = {"calls", "faults"} /\ left.faults \in 0 .. MaxFaults

LockHeld == \A t \in Tasks : pc[t] \in Calling => lock # <<>> /\ Head(lock) = t

OneBlock ==
    /\ \A t, u \in Tasks : pc[t] \in Inside /\ pc[u] \in Inside => t = u
    /\ \A t, u \in Tasks : pc[t] \in Inside => pc[u] # "close"

(* In a block of a sampler that sleeps, the engine is awake and nobody is about to
   put it to sleep. *)
BlockAwake ==
    \A t \in Tasks : sleepMode /\ pc[t] \in Guarded =>
        engine = "awake" /\ \A u \in Tasks : pc[u] \notin {"building", "presleep"}

NeverSleeps ==
    ~ sleepMode => /\ engine # "asleep"
                   /\ \A t \in Tasks : pc[t] \notin {"presleep", "wake", "waking", "leave",
                                                     "sleeping"}

GpuInUse ==
    sleepMode /\ left.faults = MaxFaults /\ engine = "awake" =>
        \E t \in Tasks : pc[t] \in UsesGpu

EngineInv ==
    /\ EngineTypes /\ LockHeld /\ OneBlock /\ BlockAwake /\ NeverSleeps /\ GpuInUse
    /\ flag <=> engine = "awake"
    /\ \A t \in Tasks : pc[t] = "generating" => engine = "awake"
    /\ "asleep" \notin answers
-----------------------------------------------------------------------------
PoolTypes ==
    /\ size \in 1 .. MaxEndpoints /\ turn \in Remote!Pool
    /\ up \in [Remote!Endpoints -> BOOLEAN] /\ served \in [Remote!Endpoints -> Nat \cup {Nothing}]
    /\ calls \in [Tasks -> Remote!Calls \cup {Nothing}]
    /\ \A t \in Tasks : calls[t] # Nothing => calls[t].at \in Remote!Pool
    /\ promised \in Nat \cup {Nothing} /\ spent \in [version : Nat, faults : Nat, samples : Nat]

(* What is under way beside what: samples ask for what is promised; a publication is the
   only one and nothing is promised; an unload waits for the others. *)
OneByOne ==
    /\ loaded = (promised # Nothing)
    /\ \A t \in Tasks : Remote!Does(t, "sample") => promised # Nothing
         /\ calls[t].version = promised
    /\ \A t \in Tasks : Remote!Does(t, "publish") =>
          promised = Nothing /\ \A u \in Tasks : Remote!Does(u, "publish") => u = t
    /\ \A t \in Tasks : Remote!Does(t, "unload") =>
          /\ promised = Nothing
          /\ \A u \in Tasks \ {t} : Remote!Idle(u) \/ Remote!Does(u, "health")

(* What the servers the backend keeps track of hold: the promised version or nothing; during
   an unload those it has not reached may hold an older one. *)
ServersFit ==
    /\ promised = Nothing /\ (\A t \in Tasks : ~ Remote!Does(t, "unload")) =>
          \A e \in Remote!Pool : e \notin strays => served[e] = Nothing
    /\ \A t \in Tasks : Remote!Does(t, "unload") =>
          \A e \in Remote!Pool : e < calls[t].at /\ e \notin strays => served[e] = Nothing
    /\ promised # Nothing =>
          \A e \in Remote!Pool : e \notin strays => served[e] \in {Nothing, promised}
    /\ spent.faults = 0 => strays = {} /\ \A e \in Remote!Pool : up[e]
    /\ size = 1 /\ spent.faults = 0 /\ promised # Nothing => served[0] = promised

PoolInv ==
    /\ PoolTypes /\ OneByOne /\ ServersFit
    /\ "stale" \notin replies
    /\ size = 1 /\ spent.faults = 0 => "missing" \notin replies
-----------------------------------------------------------------------------
(* The engine: what a task's step must keep so that the engine's invariant stays. *)
LEMMA EngineStarts == MaxFaults \in Nat /\ InProcess!Init => EngineInv
<1> SUFFICES ASSUME MaxFaults \in Nat, InProcess!Init PROVE EngineInv
  OBVIOUS
<1>1. \A t \in Tasks : pc[t] = "out" 
  BY DEF InProcess!Init
<1>2. EngineTypes
  <2>1. lock \in Seq(Tasks)
    BY DEF InProcess!Init
  <2>2. pc \in [Tasks -> TaskPlaces]
    BY DEF InProcess!Init, TaskPlaces
  <2>3. DOMAIN left = {"calls", "faults"} /\ left.faults \in 0 .. MaxFaults
    BY DEF InProcess!Init
  <2> QED
    BY <2>1, <2>2, <2>3 DEF InProcess!Init, EngineTypes
<1> QED
  BY <1>1, <1>2
     DEF InProcess!Init, EngineInv, LockHeld, OneBlock, BlockAwake, NeverSleeps, GpuInUse, Calling,
         Guarded, Inside

(* What a task may do to the queue of the lock. *)
LockStep(t) ==
    \/ lock' = lock /\ (pc'[t] \in Calling => lock # <<>> /\ Head(lock) = t)
    \/ lock' = Append(lock, t) /\ pc'[t] \notin Calling
    \/ lock # <<>> /\ Head(lock) = t /\ lock' = Tail(lock) /\ pc'[t] \notin Calling

LEMMA LockKept ==
    ASSUME lock \in Seq(Tasks), LockHeld, NEW t \in Tasks,
           \A u \in Tasks \ {t} : pc'[u] = pc[u], LockStep(t)
    PROVE  lock' \in Seq(Tasks) /\ LockHeld'
<1>1. CASE lock' = lock /\ (pc'[t] \in Calling => lock # <<>> /\ Head(lock) = t)
  BY <1>1 DEF LockHeld
<1>2. CASE lock' = Append(lock, t) /\ pc'[t] \notin Calling
  <2>1. lock' \in Seq(Tasks) /\ lock' # <<>> /\ (lock # <<>> => Head(lock') = Head(lock))
    BY <1>2
  <2> QED
    BY <1>2, <2>1 DEF LockHeld
<1>3. CASE lock # <<>> /\ Head(lock) = t /\ lock' = Tail(lock) /\ pc'[t] \notin Calling
  <2>1. lock' \in Seq(Tasks)
    BY <1>3
  <2>2. \A u \in Tasks \ {t} : pc'[u] \notin Calling
    BY <1>3 DEF LockHeld
  <2> QED
    BY <1>3, <2>1, <2>2 DEF LockHeld
<1> QED
  BY <1>1, <1>2, <1>3 DEF LockStep

(* A task's step to a place, and what it must fit: the blocks stay apart, a guarded task
   finds the engine awake, the engine is awake only while somebody answers for it. *)
Goes(t, place) ==
    /\ place \in TaskPlaces /\ pc' = [pc EXCEPT ![t] = place] /\ sleepMode' = sleepMode
    /\ LockStep(t)
    /\ DOMAIN left' = DOMAIN left /\ left'.faults \in 0 .. left.faults
    /\ "asleep" \notin answers'

BlocksApart(t, place) ==
    /\ place \in Inside =>
          pc[t] \in Inside \/ \A u \in Tasks : pc[u] \notin Inside /\ pc[u] # "close"
    /\ place = "close" => \A u \in Tasks : pc[u] \notin Inside

GuardKept(t, place) ==
    /\ engine' = engine \/ engine' = "awake" \/ \A u \in Tasks \ {t} : pc[u] \notin Guarded
    /\ sleepMode /\ place \in Guarded =>
          engine' = "awake" /\ \A u \in Tasks \ {t} : pc[u] \notin {"building", "presleep"}
    /\ place = "generating" => engine' = "awake"
    /\ sleepMode /\ place \in {"building", "presleep"} =>
          \A u \in Tasks \ {t} : pc[u] \notin Guarded
    /\ ~ sleepMode => /\ engine' # "asleep"
                      /\ place \notin {"presleep", "wake", "waking", "leave", "sleeping"}

GpuKept(t, place) ==
    sleepMode /\ left'.faults = left.faults /\ engine' = "awake" =>
        place \in UsesGpu \/ (engine = "awake" /\ pc[t] \notin UsesGpu)

LEMMA EngineKept ==
    ASSUME MaxFaults \in Nat, EngineInv, NEW t \in Tasks, NEW place, Goes(t, place),
           engine' \in {"none", "awake", "asleep"}, flag' = (engine' = "awake"),
           BlocksApart(t, place), GuardKept(t, place), GpuKept(t, place)
    PROVE  EngineInv'
<1> USE DEF Goes
<1>1. /\ pc'[t] = place /\ pc' \in [Tasks -> TaskPlaces] /\ \A u \in Tasks \ {t} : pc'[u] = pc[u]
  BY DEF EngineInv, EngineTypes
<1>2. lock' \in Seq(Tasks) /\ LockHeld'
  BY <1>1, LockKept DEF EngineInv, EngineTypes
<1>3. EngineTypes'
  <2>1. left'.faults \in 0 .. MaxFaults
    BY DEF EngineInv, EngineTypes
  <2> QED
    BY <1>1, <1>2, <2>1 DEF EngineInv, EngineTypes
<1>4. OneBlock'
  <2>1. place \in Inside => place # "close"
    BY DEF Inside
  <2>2. \A u, v \in Tasks : pc'[u] \in Inside /\ pc'[v] \in Inside => u = v
    BY <1>1 DEF EngineInv, OneBlock, BlocksApart
  <2>3. \A u, v \in Tasks : pc'[u] \in Inside => pc'[v] # "close"
    BY <1>1, <2>1 DEF EngineInv, OneBlock, BlocksApart
  <2> QED
    BY <2>2, <2>3 DEF OneBlock
<1> USE DEF GuardKept, GpuKept
<1>5. BlockAwake'
  <2> SUFFICES ASSUME NEW u \in Tasks, sleepMode, pc'[u] \in Guarded
               PROVE  engine' = "awake" /\ \A v \in Tasks : pc'[v] \notin {"building", "presleep"}
    BY DEF BlockAwake
  <2>1. CASE u = t
    <3>1. place \notin {"building", "presleep"}
      BY <1>1, <2>1 DEF Guarded
    <3> QED
      BY <1>1, <2>1, <3>1
  <2>2. CASE u # t
    <3>1. pc[u] \in Guarded
      BY <1>1, <2>2
    <3> QED
      BY <1>1, <2>2, <3>1 DEF EngineInv, BlockAwake
  <2> QED
    BY <2>1, <2>2
<1>6. NeverSleeps'
  BY <1>1 DEF EngineInv, NeverSleeps
<1>7. GpuInUse'
  <2> SUFFICES ASSUME sleepMode, left'.faults = MaxFaults, engine' = "awake"
               PROVE  \E u \in Tasks : pc'[u] \in UsesGpu
    BY DEF GpuInUse
  <2>1. left.faults = MaxFaults /\ left'.faults = left.faults
    BY DEF EngineInv, EngineTypes
  <2>2. CASE place \in UsesGpu
    BY <1>1, <2>2
  <2>3. CASE engine = "awake" /\ pc[t] \notin UsesGpu
    BY <1>1, <2>1, <2>3 DEF EngineInv, GpuInUse
  <2> QED
    BY <2>1, <2>2, <2>3
<1>8. \A u \in Tasks : pc'[u] = "generating" => engine' = "awake"
  <2> SUFFICES ASSUME NEW u \in Tasks, pc'[u] = "generating" PROVE engine' = "awake"
    OBVIOUS
  <2>1. CASE u = t
    BY <1>1, <2>1 DEF Guarded
  <2>2. CASE u # t
    BY <1>1, <2>2 DEF EngineInv, Guarded
  <2> QED
    BY <2>1, <2>2
<1> QED
  BY <1>2, <1>3, <1>4, <1>5, <1>6, <1>7, <1>8 DEF EngineInv

LEMMA FaultsFall ==
    ASSUME MaxFaults \in Nat, EngineInv,
           left' = left \/ left' = [left EXCEPT !.calls = @ - 1] \/ InProcess!Fault
    PROVE  /\ DOMAIN left' = DOMAIN left /\ left'.faults \in 0 .. left.faults
           /\ InProcess!Fault => left'.faults # left.faults
BY DEF EngineInv, EngineTypes, InProcess!Fault

(* A step that leaves the engine alone. *)
LEMMA PlaceKept ==
    ASSUME MaxFaults \in Nat, EngineInv, NEW t \in Tasks, NEW place, Goes(t, place),
           engine' = engine, flag' = flag, BlocksApart(t, place),
           sleepMode /\ place \in Guarded =>
               engine = "awake" /\ \A u \in Tasks \ {t} : pc[u] \notin {"building", "presleep"},
           place = "generating" => engine = "awake",
           sleepMode /\ place \in {"building", "presleep"} =>
               \A u \in Tasks \ {t} : pc[u] \notin Guarded,
           ~ sleepMode => place \notin {"presleep", "wake", "waking", "leave", "sleeping"},
           sleepMode /\ engine = "awake" /\ pc[t] \in UsesGpu =>
               place \in UsesGpu \/ left'.faults # left.faults
    PROVE  EngineInv'
<1>1. GuardKept(t, place) /\ GpuKept(t, place)
  BY DEF EngineInv, NeverSleeps, GuardKept, GpuKept
<1> QED
  BY <1>1, EngineKept DEF EngineInv, EngineTypes

LEMMA EntersKept ==
    ASSUME MaxFaults \in Nat, SamplerUses \cap {"overlap", "close_busy"} = {}, EngineInv,
           NEW t \in Tasks,
           InProcess!Initialize(t) \/ InProcess!Enter(t) \/ InProcess!Close(t) \/ InProcess!Build(t)
    PROVE  EngineInv'
<1> USE DEF InProcess!Goes, InProcess!Waits, InProcess!Releases, InProcess!NoFault, InProcess!kept, Guarded,
            Calling, UsesGpu, Inside
<1>1. CASE InProcess!Initialize(t)
  <2>1. /\ pc[t] = "out" /\ Goes(t, "init") /\ engine' = engine /\ flag' = flag
    BY <1>1, FaultsFall DEF InProcess!Initialize, Goes, LockStep, TaskPlaces, EngineInv, EngineTypes
  <2> QED
    BY <2>1, PlaceKept DEF BlocksApart
<1>2. CASE InProcess!Enter(t)
  <2>1. \A u \in Tasks : pc[u] \notin Inside /\ pc[u] # "close"
    BY <1>2 DEF InProcess!Enter, InProcess!InBlock
  <2>2. CASE sleepMode
    <3>1. /\ pc[t] = "out" /\ Goes(t, "wake") /\ engine' = engine /\ flag' = flag
      BY <1>2, <2>2, FaultsFall
         DEF InProcess!Enter, Goes, LockStep, TaskPlaces, EngineInv, EngineTypes
    <3> QED
      BY <2>1, <2>2, <3>1, PlaceKept DEF BlocksApart
  <2>3. CASE ~ sleepMode
    <3>1. /\ pc[t] = "out" /\ Goes(t, "in") /\ engine' = engine /\ flag' = flag
      BY <1>2, <2>3, FaultsFall
         DEF InProcess!Enter, Goes, LockStep, TaskPlaces, EngineInv, EngineTypes
    <3> QED
      BY <2>1, <2>3, <3>1, PlaceKept DEF BlocksApart
  <2> QED
    BY <2>2, <2>3
<1>3. CASE InProcess!Close(t)
  <2>1. \A u \in Tasks : pc[u] \notin Inside
    BY <1>3 DEF InProcess!Close, InProcess!InBlock
  <2>2. /\ pc[t] = "out" /\ Goes(t, "close") /\ engine' = engine /\ flag' = flag
    BY <1>3, FaultsFall DEF InProcess!Close, Goes, LockStep, TaskPlaces, EngineInv, EngineTypes
  <2> QED
    BY <2>1, <2>2, PlaceKept DEF BlocksApart
<1>4. CASE InProcess!Build(t)
  <2>1. pc[t] = "init" /\ lock # <<>> /\ Head(lock) = t
    BY <1>4 DEF InProcess!Build, InProcess!Holds, InProcess!Free
  <2>2. CASE engine # "none"
    <3>1. Goes(t, "out") /\ engine' = engine /\ flag' = flag
      BY <1>4, <2>1, <2>2, FaultsFall
         DEF InProcess!Build, Goes, LockStep, TaskPlaces, EngineInv, EngineTypes
    <3> QED
      BY <2>1, <3>1, PlaceKept DEF BlocksApart
  <2>3. CASE engine = "none"
    <3>1. sleepMode => \A u \in Tasks : pc[u] \notin Guarded
      BY <2>3 DEF EngineInv, BlockAwake
    <3>2. Goes(t, "building") /\ engine' = engine /\ flag' = flag
      BY <1>4, <2>1, <2>3, FaultsFall
         DEF InProcess!Build, Goes, LockStep, TaskPlaces, EngineInv, EngineTypes
    <3> QED
      BY <2>1, <2>3, <3>1, <3>2, PlaceKept DEF BlocksApart
  <2> QED
    BY <2>2, <2>3
<1> QED
  BY <1>1, <1>2, <1>3, <1>4

(* initialize, from the engine's construction on *)
LEMMA BuildsKept ==
    ASSUME MaxFaults \in Nat, EngineInv, NEW t \in Tasks, InProcess!Built(t) \/ InProcess!PutToSleep(t)
    PROVE  EngineInv'
<1> USE DEF InProcess!Goes, InProcess!Releases, InProcess!NoFault, InProcess!kept, Guarded, Calling,
            UsesGpu, Inside
<1>1. CASE InProcess!Built(t)
  <2>1. /\ pc[t] = "building" /\ lock # <<>> /\ Head(lock) = t
        /\ sleepMode => \A u \in Tasks : pc[u] \notin Guarded
    BY <1>1 DEF InProcess!Built, InProcess!Holds, InProcess!Free, EngineInv, BlockAwake
  <2>2. ASSUME engine' = "awake", flag' = TRUE, InProcess!NoFault, sleepMode, InProcess!Goes(t,
               "presleep"),
               UNCHANGED lock
        PROVE  EngineInv'
    <3>1. Goes(t, "presleep")
      BY <1>1, <2>1, <2>2, FaultsFall
         DEF InProcess!Built, Goes, LockStep, TaskPlaces, EngineInv, EngineTypes
    <3> QED
      BY <2>1, <2>2, <3>1, EngineKept DEF BlocksApart, GuardKept, GpuKept
  <2>3. ASSUME engine' = "awake", flag' = TRUE, InProcess!NoFault, ~ sleepMode, InProcess!Releases(t,
               "out")
        PROVE  EngineInv'
    <3>1. Goes(t, "out")
      BY <1>1, <2>1, <2>3, FaultsFall
         DEF InProcess!Built, Goes, LockStep, TaskPlaces, EngineInv, EngineTypes
    <3> QED
      BY <2>1, <2>3, <3>1, EngineKept DEF BlocksApart, GuardKept, GpuKept
  <2>4. ASSUME InProcess!Fault, InProcess!Releases(t, "out"), UNCHANGED <<engine, flag>>
        PROVE  EngineInv'
    <3>1. Goes(t, "out")
      BY <1>1, <2>1, <2>4, FaultsFall
         DEF InProcess!Built, Goes, LockStep, TaskPlaces, EngineInv, EngineTypes
    <3> QED
      BY <2>1, <2>4, <3>1, PlaceKept DEF BlocksApart
  <2> QED
    BY <1>1, <2>2, <2>3, <2>4 DEF InProcess!Built
<1>2. CASE InProcess!PutToSleep(t)
  <2>1. /\ pc[t] = "presleep" /\ lock # <<>> /\ Head(lock) = t /\ sleepMode
        /\ \A u \in Tasks : pc[u] \notin Guarded
    BY <1>2 DEF InProcess!PutToSleep, InProcess!Holds, InProcess!Free, EngineInv, BlockAwake, NeverSleeps
  <2>2. Goes(t, "out")
    BY <1>2, <2>1, FaultsFall
       DEF InProcess!PutToSleep, Goes, LockStep, TaskPlaces, EngineInv, EngineTypes
  <2>3. CASE engine' = "asleep" /\ flag' = FALSE
    BY <2>1, <2>2, <2>3, EngineKept DEF BlocksApart, GuardKept, GpuKept
  <2>4. CASE InProcess!Fault /\ UNCHANGED <<engine, flag>>
    BY <2>1, <2>2, <2>4, FaultsFall, PlaceKept DEF BlocksApart
  <2> QED
    BY <1>2, <2>3, <2>4 DEF InProcess!PutToSleep
<1> QED
  BY <1>1, <1>2

(* awake: wake and sleep *)
LEMMA WakesKept ==
    ASSUME MaxFaults \in Nat, EngineInv, NEW t \in Tasks, InProcess!Wake(t) \/ InProcess!Woken(t)
    PROVE  EngineInv'
<1> USE DEF InProcess!Goes, InProcess!Releases, InProcess!NoFault, InProcess!kept, Guarded, Calling,
            UsesGpu, Inside
<1>1. lock # <<>> /\ Head(lock) = t /\ pc[t] \in {"wake", "waking"} /\ sleepMode
  BY DEF InProcess!Wake, InProcess!Woken, InProcess!Holds, InProcess!Free, EngineInv, NeverSleeps
<1>2. \A u \in Tasks \ {t} : pc[u] \notin Calling
  BY <1>1 DEF EngineInv, LockHeld
<1>3. \A u \in Tasks \ {t} : pc[u] \notin Inside
  BY <1>1 DEF EngineInv, OneBlock
<1>4. CASE InProcess!Wake(t)
  <2>1. CASE engine = "none"
    <3>1. Goes(t, "out") /\ engine' = engine /\ flag' = flag
      BY <1>1, <1>4, <2>1, FaultsFall
         DEF InProcess!Wake, Goes, LockStep, TaskPlaces, EngineInv, EngineTypes
    <3> QED
      BY <2>1, <3>1, PlaceKept DEF BlocksApart
  <2>2. CASE engine # "none" /\ flag
    <3>1. Goes(t, "in") /\ engine' = engine /\ flag' = flag
      BY <1>1, <1>4, <2>2, FaultsFall
         DEF InProcess!Wake, Goes, LockStep, TaskPlaces, EngineInv, EngineTypes
    <3>2. engine = "awake"
      BY <2>2 DEF EngineInv
    <3> QED
      BY <1>1, <1>2, <3>1, <3>2, PlaceKept DEF BlocksApart
  <2>3. CASE engine # "none" /\ ~ flag
    <3>1. Goes(t, "waking") /\ engine' = engine /\ flag' = flag
      BY <1>1, <1>4, <2>3, FaultsFall
         DEF InProcess!Wake, Goes, LockStep, TaskPlaces, EngineInv, EngineTypes
    <3>2. engine # "awake"
      BY <2>3 DEF EngineInv
    <3> QED
      BY <1>1, <3>1, <3>2, PlaceKept DEF BlocksApart
  <2> QED
    BY <2>1, <2>2, <2>3
<1>5. CASE InProcess!Woken(t)
  <2>1. CASE engine' = "awake" /\ flag' = TRUE /\ InProcess!Releases(t, "in") /\ InProcess!NoFault
    <3>1. Goes(t, "in")
      BY <1>1, <1>5, <2>1, FaultsFall
         DEF InProcess!Woken, Goes, LockStep, TaskPlaces, EngineInv, EngineTypes
    <3> QED
      BY <1>1, <1>2, <2>1, <3>1, EngineKept DEF BlocksApart, GuardKept, GpuKept
  <2>2. CASE InProcess!Fault /\ InProcess!Releases(t, "out") /\ UNCHANGED <<engine, flag>>
    <3>1. Goes(t, "out")
      BY <1>1, <1>5, <2>2, FaultsFall
         DEF InProcess!Woken, Goes, LockStep, TaskPlaces, EngineInv, EngineTypes
    <3> QED
      BY <2>2, <3>1, FaultsFall, PlaceKept DEF BlocksApart
  <2> QED
    BY <1>5, <2>1, <2>2 DEF InProcess!Woken
<1> QED
  BY <1>4, <1>5

LEMMA LeavesKept ==
    ASSUME MaxFaults \in Nat, EngineInv, NEW t \in Tasks,
           InProcess!Leave(t) \/ InProcess!Sleep(t) \/ InProcess!Slept(t)
    PROVE  EngineInv'
<1> USE DEF InProcess!Goes, InProcess!Releases, InProcess!Waits, InProcess!NoFault, InProcess!kept, Guarded,
            Calling, UsesGpu, Inside
<1>1. /\ pc[t] \in Inside /\ (pc[t] # "in" => sleepMode /\ lock # <<>> /\ Head(lock) = t)
      /\ \A u \in Tasks \ {t} : pc[u] \notin Guarded
  <2>1. pc[t] \in Inside
    BY DEF InProcess!Leave, InProcess!Sleep, InProcess!Slept, InProcess!Holds
  <2> QED
    BY <2>1
       DEF InProcess!Leave, InProcess!Sleep, InProcess!Slept, InProcess!Holds, InProcess!Free, EngineInv,
           NeverSleeps, OneBlock
<1>2. CASE InProcess!Leave(t)
  <2>1. CASE sleepMode
    <3>1. Goes(t, "leave") /\ engine' = engine /\ flag' = flag
      BY <1>2, <2>1, FaultsFall
         DEF InProcess!Leave, Goes, LockStep, TaskPlaces, EngineInv, EngineTypes
    <3> QED
      BY <1>1, <2>1, <3>1, PlaceKept DEF BlocksApart
  <2>2. CASE ~ sleepMode
    <3>1. Goes(t, "out") /\ engine' = engine /\ flag' = flag
      BY <1>2, <2>2, FaultsFall
         DEF InProcess!Leave, Goes, LockStep, TaskPlaces, EngineInv, EngineTypes
    <3> QED
      BY <2>2, <3>1, PlaceKept DEF BlocksApart
  <2> QED
    BY <2>1, <2>2
<1>3. CASE InProcess!Sleep(t)
  <2>1. CASE engine = "none" \/ ~ flag
    <3>1. Goes(t, "out") /\ engine' = engine /\ flag' = flag
      BY <1>1, <1>3, <2>1, FaultsFall
         DEF InProcess!Sleep, InProcess!Holds, Goes, LockStep, TaskPlaces, EngineInv, EngineTypes
    <3>2. engine # "awake"
      BY <2>1 DEF EngineInv
    <3> QED
      BY <3>1, <3>2, PlaceKept DEF BlocksApart
  <2>2. CASE engine # "none" /\ flag
    <3>1. Goes(t, "sleeping") /\ engine' = engine /\ flag' = flag
      BY <1>1, <1>3, <2>2, FaultsFall
         DEF InProcess!Sleep, InProcess!Holds, Goes, LockStep, TaskPlaces, EngineInv, EngineTypes
    <3> QED
      BY <1>1, <1>3, <3>1, PlaceKept DEF BlocksApart, InProcess!Sleep, InProcess!Holds
  <2> QED
    BY <2>1, <2>2
<1>4. CASE InProcess!Slept(t)
  <2>1. pc[t] = "sleeping" /\ Goes(t, "out")
    BY <1>1, <1>4, FaultsFall
       DEF InProcess!Slept, InProcess!Holds, Goes, LockStep, TaskPlaces, EngineInv, EngineTypes
  <2>2. CASE engine' = "asleep" /\ flag' = FALSE
    BY <1>1, <2>1, <2>2, EngineKept DEF BlocksApart, GuardKept, GpuKept
  <2>3. CASE InProcess!Fault /\ UNCHANGED <<engine, flag>>
    BY <2>1, <2>3, FaultsFall, PlaceKept DEF BlocksApart
  <2> QED
    BY <1>4, <2>2, <2>3 DEF InProcess!Slept
<1> QED
  BY <1>2, <1>3, <1>4

(* sample, and what needs no lock *)
LEMMA SamplesKept ==
    ASSUME MaxFaults \in Nat, EngineInv, NEW t \in Tasks, InProcess!Sample(t) \/ InProcess!Generated(t)
    PROVE  EngineInv'
<1> USE DEF InProcess!Goes, InProcess!Waits, InProcess!NoFault, InProcess!kept, Guarded, Calling, UsesGpu,
            Inside
<1>1. /\ pc[t] \in Guarded /\ engine' = engine /\ flag' = flag /\ sleepMode' = sleepMode
      /\ sleepMode => /\ engine = "awake" /\ flag
                      /\ \A u \in Tasks : pc[u] \notin {"building", "presleep"}
  BY DEF InProcess!Sample, InProcess!Generated, EngineInv, BlockAwake
<1>2. \A place \in {"in", "generating", "leave", "out"} :
          /\ Goes(t, place) /\ (place = "leave" => sleepMode)
          /\ place = "generating" => engine = "awake"
          /\ place = "out" => ~ sleepMode
          => EngineInv'
  BY <1>1, PlaceKept DEF BlocksApart
<1>3. CASE InProcess!Sample(t)
  <2>1. CASE engine = "none" \/ (sleepMode /\ ~ flag)
    <3>1. engine = "none" /\ ~ sleepMode
      BY <1>1, <2>1
    <3>2. Goes(t, "out")
      BY <1>3, <2>1, <3>1, FaultsFall
         DEF InProcess!Sample, InProcess!Refused, Goes, LockStep, TaskPlaces, EngineInv, EngineTypes
    <3> QED
      BY <1>2, <3>1, <3>2
  <2>2. CASE ~ (engine = "none" \/ (sleepMode /\ ~ flag))
    <3>1. engine = "awake"
      BY <1>1, <2>2 DEF EngineInv, EngineTypes, NeverSleeps
    <3>2. Goes(t, "generating")
      BY <1>3, <2>2, FaultsFall
         DEF InProcess!Sample, Goes, LockStep, TaskPlaces, EngineInv, EngineTypes
    <3> QED
      BY <1>2, <3>1, <3>2
  <2> QED
    BY <2>1, <2>2
<1>4. CASE InProcess!Generated(t)
  <2>1. CASE InProcess!Goes(t, "in") /\ InProcess!NoFault /\ UNCHANGED lock
    <3>1. Goes(t, "in")
      BY <1>4, <2>1, FaultsFall
         DEF InProcess!Generated, Goes, LockStep, TaskPlaces, EngineInv, EngineTypes
    <3> QED
      BY <1>2, <3>1
  <2>2. CASE InProcess!Fault /\ sleepMode /\ InProcess!Waits(t, "leave")
    <3>1. Goes(t, "leave")
      BY <1>4, <2>2, FaultsFall
         DEF InProcess!Generated, Goes, LockStep, TaskPlaces, EngineInv, EngineTypes
    <3> QED
      BY <1>2, <2>2, <3>1
  <2>3. CASE InProcess!Fault /\ ~ sleepMode /\ InProcess!Goes(t, "out") /\ UNCHANGED lock
    <3>1. Goes(t, "out")
      BY <1>4, <2>3, FaultsFall
         DEF InProcess!Generated, Goes, LockStep, TaskPlaces, EngineInv, EngineTypes
    <3> QED
      BY <1>2, <2>3, <3>1
  <2> QED
    BY <1>4, <2>1, <2>2, <2>3 DEF InProcess!Generated
<1> QED
  BY <1>3, <1>4

LEMMA ClosedKept ==
    ASSUME MaxFaults \in Nat, EngineInv, NEW t \in Tasks, InProcess!Closed(t)
    PROVE  EngineInv'
<1> USE DEF InProcess!Goes, InProcess!Releases, InProcess!NoFault, InProcess!kept, Guarded, Calling,
            UsesGpu, Inside
<1>1. pc[t] = "close" /\ \A u \in Tasks : pc[u] \notin Guarded
  BY DEF InProcess!Closed, InProcess!Holds, EngineInv, OneBlock
<1>2. Goes(t, "out") /\ engine' = "none" /\ flag' = FALSE
  BY FaultsFall
     DEF InProcess!Closed, InProcess!Holds, InProcess!Free, Goes, LockStep, TaskPlaces, EngineInv,
         EngineTypes
<1> QED
  BY <1>1, <1>2, EngineKept DEF BlocksApart, GuardKept, GpuKept

LEMMA EngineNext ==
    ASSUME MaxFaults \in Nat, SamplerUses \cap {"overlap", "close_busy"} = {}, EngineInv,
           [InProcess!Next]_(InProcess!vars)
    PROVE  EngineInv'
<1>1. ASSUME UNCHANGED <<sleepMode, engine, flag, lock, pc, answers, left>> PROVE EngineInv'
  BY <1>1 DEF EngineInv, EngineTypes, LockHeld, OneBlock, BlockAwake, NeverSleeps, GpuInUse
<1>2. ASSUME NEW p \in Paths, InProcess!Publish(p) PROVE EngineInv'
  BY <1>1, <1>2 DEF InProcess!Publish
<1>3. CASE InProcess!Unload
  BY <1>1, <1>3 DEF InProcess!Unload
<1>4. CASE UNCHANGED InProcess!vars
  BY <1>1, <1>4 DEF InProcess!vars
<1> QED
  BY <1>2, <1>3, <1>4, EntersKept, BuildsKept, WakesKept, LeavesKept, SamplesKept, ClosedKept
     DEF InProcess!Next, InProcess!TaskStep

(***************************************************************************)
(* For any number of tasks, calls and engine calls that raise: who         *)
(* generates finds the engine awake, who trains finds it asleep, and the   *)
(* flag they go by tells the truth (InProcessInferenceSampler), as long as *)
(* the blocks of two tasks do not overlap and nobody closes the sampler    *)
(* inside one.                                                             *)
(***************************************************************************)
THEOREM EngineServesInTurn ==
    ASSUME SamplerUses \cap {"overlap", "close_busy"} = {}
    PROVE  ServingSpec => []EngineSound
<1>1. ServingInit => EngineInv
  BY EngineStarts, SamplersAssumption DEF ServingInit
<1>2. EngineInv /\ [ServingNext]_servingVars => EngineInv'
  BY EngineNext, SamplersAssumption DEF ServingNext, servingVars, engineVars, InProcess!vars
<1>3. EngineInv => EngineSound
  <2>1. ASSUME EngineInv PROVE InProcess!GeneratesAwake /\ InProcess!FlagIsEngine /\ InProcess!BlockIsAwake
    BY <2>1 DEF EngineInv, InProcess!GeneratesAwake, InProcess!FlagIsEngine, InProcess!BlockIsAwake
  <2>2. ASSUME EngineInv PROVE InProcess!TrainerHasGpu
    BY <2>2 DEF EngineInv, GpuInUse, UsesGpu, InProcess!TrainerHasGpu, InProcess!Outside
  <2> QED
    BY <2>1, <2>2 DEF EngineSound, InProcess!EngineSound
<1> QED
  BY <1>1, <1>2, <1>3, PTL DEF ServingSpec
-----------------------------------------------------------------------------
(* The pool. The endpoint a call goes to is one of the pool's: of the healthy ones there is
   a first from the turn on. *)
LEMMA LeastOf == ASSUME NEW T \in SUBSET Nat, T # {} PROVE \E i \in T : \A j \in T : ~ (j < i)
<1>1. \E i \in T : \A j \in T : ~ (<<j, i>> \in OpToRel(<, Nat))
  BY NatLessThanWellFounded, WFMin, Zenon
<1> QED
  BY <1>1 DEF OpToRel

LEMMA PickInPool ==
    ASSUME size \in Nat \ {0}, turn \in Remote!Pool
    PROVE  Remote!Pick \in Remote!Pool
<1>1. \A i \in Remote!Pool : Remote!Nth(i) \in Remote!Pool
  BY DEF Remote!Pool, Remote!Nth
<1>2. 0 \in Remote!Pool /\ Remote!Pool \subseteq Nat
  BY DEF Remote!Pool
<1>3. ASSUME NEW e \in Remote!Pool, healthy[e] PROVE Remote!Pick \in Remote!Pool
  <2> DEFINE T == {i \in Remote!Pool : healthy[Remote!Nth(i)]}
             first == CHOOSE i \in Remote!Pool : /\ healthy[Remote!Nth(i)]
                                           /\ \A j \in Remote!Pool : j < i =>
                                                ~ healthy[Remote!Nth(j)]
  <2>1. PICK i \in Remote!Pool : Remote!Nth(i) = e
    <3>1. CASE e >= turn
      <4>1. e - turn \in Remote!Pool /\ Remote!Nth(e - turn) = e
        BY <1>3, <3>1 DEF Remote!Pool, Remote!Nth
      <4> QED
        BY <4>1
    <3>2. CASE e < turn
      <4>1. e - turn + size \in Remote!Pool /\ Remote!Nth(e - turn + size) = e
        BY <1>3, <3>2 DEF Remote!Pool, Remote!Nth
      <4> QED
        BY <4>1
    <3> QED
      BY <3>1, <3>2 DEF Remote!Pool
  <2>2. T \in SUBSET Nat /\ T # {}
    BY <1>2, <1>3, <2>1
  <2>3. PICK k \in T : \A j \in T : ~ (j < k)
    BY <2>2, LeastOf
  <2>4. first \in Remote!Pool
    BY <2>3
  <2> QED
    BY <1>1, <1>3, <2>4 DEF Remote!Pick
<1>4. CASE ~ \E e \in Remote!Pool : healthy[e]
  BY <1>1, <1>2, <1>4 DEF Remote!Pick
<1> QED
  BY <1>3, <1>4

LEMMA PoolStarts == MaxEndpoints \in Nat \ {0} /\ Remote!Init => PoolInv
<1> SUFFICES ASSUME MaxEndpoints \in Nat \ {0}, Remote!Init PROVE PoolInv
  OBVIOUS
<1>1. size \in 1 .. MaxEndpoints /\ turn = 0 /\ \A t \in Tasks : calls[t] = Nothing
  BY DEF Remote!Init
<1>2. PoolTypes
  <2>1. turn \in Remote!Pool
    BY <1>1 DEF Remote!Pool
  <2>2. calls \in [Tasks -> Remote!Calls \cup {Nothing}]
    BY DEF Remote!Init
  <2> QED
    BY <1>1, <2>1, <2>2 DEF Remote!Init, PoolTypes
<1>3. \A t \in Tasks : Remote!Idle(t) /\ \A op : ~ Remote!Does(t, op)
  BY <1>1 DEF Remote!Idle, Remote!Does
<1>4. OneByOne
  BY <1>3 DEF Remote!Init, OneByOne
<1>5. ServersFit
  BY <1>3 DEF Remote!Init, ServersFit, Remote!Pool, Remote!Endpoints
<1> QED
  BY <1>2, <1>4, <1>5 DEF Remote!Init, PoolInv

(* A task's call, sent or answered: the others' calls stay. *)
LEMMA CallsKept ==
    ASSUME Nothing \notin Remote!Calls, PoolTypes, NEW t \in Tasks,
           NEW c \in Remote!Calls \cup {Nothing},
           c # Nothing => c.at \in Remote!Pool, calls' = [calls EXCEPT ![t] = c]
    PROVE  /\ calls' \in [Tasks -> Remote!Calls \cup {Nothing}]
           /\ \A u \in Tasks : calls'[u] # Nothing => calls'[u].at \in Remote!Pool
           /\ Remote!Idle(t)' <=> c = Nothing
           /\ \A op : Remote!Does(t, op)' <=> c # Nothing /\ c.op = op
           /\ \A u \in Tasks \ {t} : /\ calls'[u] = calls[u] /\ Remote!Idle(u)' = Remote!Idle(u)
                                     /\ \A op : Remote!Does(u, op)' = Remote!Does(u, op)
BY DEF PoolTypes, Remote!Idle, Remote!Does

LEMMA NextTurn ==
    ASSUME MaxEndpoints \in Nat \ {0}, PoolTypes
    PROVE  /\ size \in Nat \ {0} /\ Remote!Pool \subseteq Remote!Endpoints
                /\ Remote!Pool \subseteq Nat
           /\ Remote!Pick \in Remote!Pool /\ (Remote!Pick + 1) % size \in Remote!Pool
                /\ 0 \in Remote!Pool
<1>1. size \in Nat \ {0} /\ Remote!Pool \subseteq Remote!Endpoints /\ turn \in Remote!Pool
        /\ size <= MaxEndpoints
  BY DEF PoolTypes, Remote!Pool, Remote!Endpoints
<1>2. Remote!Pick \in Remote!Pool
  BY <1>1, PickInPool
<1> QED
  BY <1>1, <1>2 DEF Remote!Pool

(* publish_adapter *)
LEMMA PublishKept ==
    ASSUME MaxEndpoints \in Nat \ {0}, Nothing \notin Nat \cup Remote!Calls,
           "race" \notin SamplerUses,
           PoolInv, NEW t \in Tasks, Remote!Publish(t)
    PROVE  PoolInv'
<1> DEFINE c == [op |-> "publish", at |-> Remote!Pick, version |-> spent'.version]
<1>1. /\ Remote!Idle(t) /\ promised = Nothing /\ loaded = FALSE
      /\ \A u \in Tasks : ~ Remote!Does(u, "unload") /\ ~ Remote!Does(u, "publish")
  BY DEF Remote!Publish, Remote!NoUnload, Remote!Racing, PoolInv, OneByOne
<1>2. /\ spent' = [spent EXCEPT !.version = @ + 1] /\ calls' = [calls EXCEPT ![t] = c]
      /\ turn' = (Remote!Pick + 1) % size
           /\ UNCHANGED <<size, up, loaded, served, strays, promised, replies>>
  BY <1>1 DEF Remote!Publish, Remote!Sends, Remote!pool, Remote!servers
<1>3. spent' \in [version : Nat, faults : Nat, samples : Nat] /\ spent'.faults = spent.faults
  BY <1>2 DEF PoolInv, PoolTypes
<1>4. c \in Remote!Calls /\ c # Nothing /\ c.at \in Remote!Pool /\ c.op = "publish"
  BY <1>3, NextTurn DEF Remote!Calls, PoolInv
<1> HIDE DEF c
<1>5. /\ calls' \in [Tasks -> Remote!Calls \cup {Nothing}]
      /\ \A u \in Tasks : calls'[u] # Nothing => calls'[u].at \in Remote!Pool
      /\ \A op : Remote!Does(t, op)' <=> c # Nothing /\ c.op = op
      /\ \A u \in Tasks \ {t} : /\ calls'[u] = calls[u] /\ Remote!Idle(u)' = Remote!Idle(u)
                                /\ \A op : Remote!Does(u, op)' = Remote!Does(u, op)
  BY <1>2, <1>4, CallsKept DEF PoolInv
<1>6. PoolTypes'
  BY <1>2, <1>3, <1>5, NextTurn
     DEF PoolInv, PoolTypes, Remote!Pool, Remote!Endpoints, Remote!Calls
<1>7. OneByOne'
  BY <1>1, <1>2, <1>4, <1>5 DEF PoolInv, OneByOne
<1>8. ServersFit'
  BY <1>1, <1>2, <1>3, <1>4, <1>5 DEF PoolInv, ServersFit, Remote!Pool
<1> QED
  BY <1>2, <1>3, <1>6, <1>7, <1>8 DEF PoolInv

LEMMA PublishedKept ==
    ASSUME MaxEndpoints \in Nat \ {0}, Nothing \notin Nat \cup Remote!Calls, PoolInv,
           NEW t \in Tasks, Remote!Published(t)
    PROVE  PoolInv'
<1> DEFINE e == calls[t].at
           v == calls[t].version
<1>1. /\ calls[t] # Nothing /\ calls[t].op = "publish" /\ promised = Nothing /\ ~ Remote!Idle(t)
      /\ \A u \in Tasks : ~ Remote!Does(u, "unload") /\ ~ Remote!Does(u, "sample")
      /\ \A u \in Tasks \ {t} : ~ Remote!Does(u, "publish")
  <2>1. Remote!Does(t, "publish") /\ ~ Remote!Does(t, "health")
          /\ ~ Remote!Does(t, "unload") /\ ~ Remote!Idle(t)
    BY DEF Remote!Published, Remote!Does, Remote!Idle
  <2>2. calls[t] # Nothing /\ calls[t].op = "publish"
    BY <2>1 DEF Remote!Does, Remote!Idle
  <2> QED
    BY <2>1, <2>2 DEF PoolInv, OneByOne
<1>2. e \in Remote!Pool /\ v \in Nat
  BY <1>1 DEF PoolInv, PoolTypes, Remote!Calls
<1>3. \A f \in Remote!Pool : f \notin strays => served[f] = Nothing
  BY <1>1 DEF PoolInv, ServersFit
<1>4. calls' = [calls EXCEPT ![t] = Nothing] /\ UNCHANGED <<size, up, turn, replies>>
  BY DEF Remote!Published, Remote!Done, Remote!pool
<1>5. /\ calls' \in [Tasks -> Remote!Calls \cup {Nothing}]
      /\ \A u \in Tasks : calls'[u] # Nothing => calls'[u].at \in Remote!Pool
      /\ \A op : ~ Remote!Does(t, op)'
      /\ \A u \in Tasks \ {t} : /\ calls'[u] = calls[u] /\ Remote!Idle(u)' = Remote!Idle(u)
                                /\ \A op : Remote!Does(u, op)' = Remote!Does(u, op)
  BY <1>4, CallsKept DEF PoolInv
<1>6. Remote!Pool' = Remote!Pool /\ Remote!Endpoints' = Remote!Endpoints
        /\ Remote!Pool \subseteq Remote!Endpoints
  BY <1>4, NextTurn DEF Remote!Pool, Remote!Endpoints, PoolInv
<1> HIDE DEF e, v
<1>7. /\ served' \in [Remote!Endpoints -> Nat \cup {Nothing}] /\ promised' \in Nat \cup {Nothing}
      /\ spent' \in [version : Nat, faults : Nat, samples : Nat]
      /\ loaded' = (promised' # Nothing)
      /\ promised' # Nothing =>
            \A f \in Remote!Pool : f \notin strays' => served'[f] \in {Nothing, promised'}
      /\ promised' = Nothing => \A f \in Remote!Pool : f \notin strays' => served'[f] = Nothing
      /\ spent'.faults = 0 => spent.faults = 0 /\ strays' = strays
      /\ spent'.faults = 0 /\ promised' # Nothing => served'[e] = promised'
  <2>1. CASE /\ served' = [served EXCEPT ![e] = v] /\ UNCHANGED <<strays, spent>>
             /\ loaded' = TRUE /\ promised' = v
    BY <1>2, <1>3, <1>6, <2>1 DEF PoolInv, PoolTypes
  <2>2. CASE UNCHANGED <<served, strays, loaded, promised, spent>>
    BY <1>1, <1>3, <2>2 DEF PoolInv, PoolTypes, OneByOne
  <2>3. ASSUME Remote!Failing
        PROVE  spent' \in [version : Nat, faults : Nat, samples : Nat] /\ spent'.faults # 0
    BY <2>3 DEF PoolInv, PoolTypes, Remote!Failing
  <2>4. CASE Remote!Failing /\ UNCHANGED <<served, strays, loaded, promised>>
    BY <1>1, <1>3, <2>3, <2>4 DEF PoolInv, PoolTypes, OneByOne
  <2>5. CASE /\ Remote!Failing /\ served' = [served EXCEPT ![e] = v]
             /\ strays' = strays \cup {e} /\ UNCHANGED <<loaded, promised>>
    BY <1>1, <1>2, <1>3, <1>6, <2>3, <2>5 DEF PoolInv, PoolTypes, OneByOne
  <2> QED
    BY <2>1, <2>2, <2>4, <2>5 DEF Remote!Published, Remote!Loads, Remote!servers, e, v
<1>8. PoolTypes'
  BY <1>4, <1>5, <1>6, <1>7 DEF PoolInv, PoolTypes, Remote!Calls
<1>9. OneByOne'
  BY <1>1, <1>5, <1>7 DEF OneByOne
<1>10. ServersFit'
  <2>1. size = 1 => e = 0
    BY <1>2 DEF Remote!Pool
  <2>2. spent'.faults = 0 => strays' = {} /\ \A f \in Remote!Pool : up'[f]
    BY <1>4, <1>7 DEF PoolInv, ServersFit
  <2> QED
    BY <1>1, <1>4, <1>5, <1>6, <1>7, <2>1, <2>2 DEF ServersFit
<1> QED
  BY <1>4, <1>7, <1>8, <1>9, <1>10 DEF PoolInv

(* unload_adapter *)
LEMMA UnloadKept ==
    ASSUME MaxEndpoints \in Nat \ {0}, Nothing \notin Nat \cup Remote!Calls,
           "race" \notin SamplerUses,
           PoolInv, NEW t \in Tasks, Remote!Unload(t)
    PROVE  PoolInv'
<1> DEFINE c == [op |-> "unload", at |-> 0]
<1>1. \A u \in Tasks : Remote!Idle(u) /\ \A op : ~ Remote!Does(u, op)
  BY DEF Remote!Unload, Remote!Quiet, Remote!Racing, Remote!Does
<1>2. /\ loaded' = FALSE /\ promised' = Nothing /\ calls' = [calls EXCEPT ![t] = c]
      /\ UNCHANGED <<size, up, turn, served, strays, replies, spent>>
  BY DEF Remote!Unload, Remote!Sends, Remote!pool, Remote!servers
<1>3. c \in Remote!Calls /\ c # Nothing /\ c.at \in Remote!Pool /\ c.op = "unload" /\ c.at = 0
  BY NextTurn DEF Remote!Calls, PoolInv
<1> HIDE DEF c
<1>4. /\ calls' \in [Tasks -> Remote!Calls \cup {Nothing}] /\ calls'[t] = c
      /\ \A u \in Tasks : calls'[u] # Nothing => calls'[u].at \in Remote!Pool
      /\ \A op : Remote!Does(t, op)' <=> c # Nothing /\ c.op = op
      /\ \A u \in Tasks \ {t} : Remote!Idle(u)' /\ \A op : ~ Remote!Does(u, op)'
  <2>1. calls \in [Tasks -> Remote!Calls \cup {Nothing}]
    BY DEF PoolInv, PoolTypes
  <2>2. calls'[t] = c
    BY <1>2, <2>1
  <2> QED
    BY <1>1, <1>2, <1>3, <2>2, CallsKept DEF PoolInv
<1>5. Remote!Pool' = Remote!Pool /\ Remote!Endpoints' = Remote!Endpoints
        /\ Remote!Pool \subseteq Nat
  BY <1>2, NextTurn DEF Remote!Pool, Remote!Endpoints, PoolInv
<1>6. PoolTypes'
  BY <1>2, <1>4, <1>5 DEF PoolInv, PoolTypes, Remote!Calls
<1>7. OneByOne'
  <2>1. \A u \in Tasks : ~ Remote!Does(u, "sample")' /\ ~ Remote!Does(u, "publish")'
    BY <1>3, <1>4
  <2>2. \A u \in Tasks : Remote!Does(u, "unload")' => u = t
    BY <1>4
  <2>3. \A u \in Tasks \ {t} : Remote!Idle(u)'
    BY <1>4
  <2> QED
    BY <1>2, <2>1, <2>2, <2>3 DEF OneByOne
<1>8. ServersFit'
  <2>1. \A f \in Remote!Pool : ~ (f < 0)
    BY <1>5
  <2> QED
    BY <1>2, <1>3, <1>4, <1>5, <2>1 DEF PoolInv, ServersFit
<1> QED
  BY <1>2, <1>6, <1>7, <1>8 DEF PoolInv

LEMMA UnloadedKept ==
    ASSUME MaxEndpoints \in Nat \ {0}, Nothing \notin Nat \cup Remote!Calls, PoolInv,
           NEW t \in Tasks, Remote!Unloaded(t)
    PROVE  PoolInv'
<1> DEFINE e == calls[t].at
           next == [op |-> "unload", at |-> e + 1]
           c == IF e + 1 \in Remote!Pool THEN next ELSE Nothing
<1>1. /\ Remote!Does(t, "unload") /\ calls[t] # Nothing /\ promised = Nothing /\ loaded = FALSE
           /\ e \in Remote!Pool
      /\ \A u \in Tasks \ {t} : Remote!Idle(u) \/ Remote!Does(u, "health")
      /\ \A f \in Remote!Pool : f < e /\ f \notin strays => served[f] = Nothing
  <2>1. Remote!Does(t, "unload") /\ calls[t] # Nothing
    BY DEF Remote!Unloaded, Remote!Does, Remote!Idle
  <2> QED
    BY <2>1 DEF PoolInv, PoolTypes, OneByOne, ServersFit
<1>2. /\ Remote!Unloads(e) /\ calls' = [calls EXCEPT ![t] = c]
      /\ UNCHANGED <<size, up, turn, loaded, promised, replies, spent>>
  BY DEF Remote!Unloaded, Remote!Sends, Remote!Done, Remote!pool
<1>3. Remote!Pool' = Remote!Pool /\ Remote!Endpoints' = Remote!Endpoints
        /\ Remote!Pool \subseteq Remote!Endpoints /\ Remote!Pool \subseteq Nat
  BY <1>2, NextTurn DEF Remote!Pool, Remote!Endpoints, PoolInv
<1>4. /\ c \in Remote!Calls \cup {Nothing} /\ (c # Nothing => c = next /\ e + 1 \in Remote!Pool)
      /\ c = Nothing => e + 1 \notin Remote!Pool
  <2>1. e + 1 \in Nat
    <3>1. e \in Remote!Pool /\ Remote!Pool \subseteq Nat
      BY <1>1, <1>3
    <3> HIDE DEF e
    <3> QED
      BY <3>1
  <2>2. next \in Remote!Calls /\ next # Nothing
    BY <2>1 DEF Remote!Calls
  <2> QED
    BY <2>2
<1>5. next.at = e + 1 /\ next.op = "unload"
  OBVIOUS
<1> HIDE DEF e, next, c
<1>6. /\ calls' \in [Tasks -> Remote!Calls \cup {Nothing}] /\ calls'[t] = c
      /\ \A u \in Tasks : calls'[u] # Nothing => calls'[u].at \in Remote!Pool
      /\ Remote!Idle(t)' <=> c = Nothing
      /\ \A op : Remote!Does(t, op)' <=> c # Nothing /\ op = "unload"
      /\ \A u \in Tasks \ {t} : /\ calls'[u] = calls[u] /\ Remote!Idle(u)' = Remote!Idle(u)
                                /\ \A op : Remote!Does(u, op)' = Remote!Does(u, op)
  <2>1. calls \in [Tasks -> Remote!Calls \cup {Nothing}]
    BY DEF PoolInv, PoolTypes
  <2>2. calls'[t] = c
    BY <1>2, <2>1
  <2>3. c # Nothing => c.at \in Remote!Pool /\ c.op = "unload"
    BY <1>4, <1>5
  <2>4. /\ calls' \in [Tasks -> Remote!Calls \cup {Nothing}]
        /\ \A u \in Tasks : calls'[u] # Nothing => calls'[u].at \in Remote!Pool
        /\ Remote!Idle(t)' <=> c = Nothing
        /\ \A op : Remote!Does(t, op)' <=> c # Nothing /\ c.op = op
        /\ \A u \in Tasks \ {t} : /\ calls'[u] = calls[u] /\ Remote!Idle(u)' = Remote!Idle(u)
                                  /\ \A op : Remote!Does(u, op)' = Remote!Does(u, op)
    BY <1>2, <1>4, <2>3, CallsKept DEF PoolInv
  <2> QED
    BY <2>2, <2>3, <2>4
<1>7. \A u \in Tasks \ {t} : ~ Remote!Does(u, "unload") /\ ~ Remote!Does(u, "publish")
        /\ ~ Remote!Does(u, "sample")
  BY <1>1 DEF Remote!Does
<1>8. /\ served' \in [Remote!Endpoints -> Nat \cup {Nothing}]
      /\ e \notin strays' => served'[e] = Nothing
      /\ \A f \in Remote!Pool : f # e => served'[f] = served[f] /\ (f \in strays' <=> f \in strays)
      /\ spent.faults = 0 => strays' = {}
  <2>1. e \in Remote!Endpoints /\ served \in [Remote!Endpoints -> Nat \cup {Nothing}]
    BY <1>1, <1>3 DEF PoolInv, PoolTypes
  <2>2. spent.faults = 0 => strays = {} /\ up[e]
    BY <1>1 DEF PoolInv, ServersFit
  <2>3. CASE up[e]
    BY <1>2, <1>3, <2>1, <2>2, <2>3 DEF Remote!Unloads, Remote!Forgets
  <2>4. CASE ~ up[e]
    BY <1>2, <1>3, <2>1, <2>2, <2>4 DEF Remote!Unloads
  <2> QED
    BY <2>3, <2>4
<1>9. PoolTypes'
  BY <1>2, <1>3, <1>6, <1>8 DEF PoolInv, PoolTypes, Remote!Calls
<1>10. OneByOne'
  <2>1. \A u \in Tasks : ~ Remote!Does(u, "sample")' /\ ~ Remote!Does(u, "publish")'
    BY <1>6, <1>7
  <2>2. \A u \in Tasks : Remote!Does(u, "unload")' => u = t
    BY <1>6, <1>7
  <2>3. \A u \in Tasks \ {t} : Remote!Idle(u)' \/ Remote!Does(u, "health")'
    BY <1>1, <1>6
  <2> QED
    BY <1>1, <1>2, <2>1, <2>2, <2>3 DEF OneByOne
<1>11. ServersFit'
  <2>1. \A f \in Remote!Pool : f < e + 1 => f < e \/ f = e
    BY <1>1, <1>3
  <2>2. e + 1 \notin Remote!Pool => \A f \in Remote!Pool : f < e + 1
    BY <1>1, NextTurn DEF Remote!Pool, PoolInv
  <2>3. \A f \in Remote!Pool : f < e + 1 /\ f \notin strays' => served'[f] = Nothing
    BY <1>1, <1>8, <2>1
  <2>4. c = Nothing => \A f \in Remote!Pool : f \notin strays' => served'[f] = Nothing
    BY <1>4, <2>2, <2>3
  <2>5. c # Nothing =>
          \A f \in Remote!Pool : f < calls'[t].at /\ f \notin strays' => served'[f] = Nothing
    BY <1>4, <1>5, <1>6, <2>3
  <2>6. spent'.faults = 0 => strays' = {} /\ \A f \in Remote!Pool : up'[f]
    BY <1>2, <1>8 DEF PoolInv, ServersFit
  <2> QED
    BY <1>1, <1>2, <1>3, <1>6, <1>7, <2>4, <2>5, <2>6 DEF ServersFit
<1> QED
  BY <1>2, <1>9, <1>10, <1>11 DEF PoolInv

(* sample *)
LEMMA SampleKept ==
    ASSUME MaxEndpoints \in Nat \ {0}, Nothing \notin Nat \cup Remote!Calls,
           "race" \notin SamplerUses,
           PoolInv, NEW t \in Tasks, Remote!Sample(t)
    PROVE  PoolInv'
<1> DEFINE c == [op |-> "sample", at |-> Remote!Pick, version |-> promised]
<1>1. /\ promised # Nothing /\ promised \in Nat
      /\ \A u \in Tasks : ~ Remote!Does(u, "unload") /\ ~ Remote!Does(u, "publish")
  BY DEF Remote!Sample, Remote!NoUnload, Remote!Racing, PoolInv, PoolTypes, OneByOne
<1>2. /\ spent' = [spent EXCEPT !.samples = @ + 1] /\ calls' = [calls EXCEPT ![t] = c]
      /\ turn' = (Remote!Pick + 1) % size
           /\ UNCHANGED <<size, up, loaded, served, strays, promised, replies>>
  BY DEF Remote!Sample, Remote!Sends, Remote!pool, Remote!servers
<1>3. spent' \in [version : Nat, faults : Nat, samples : Nat] /\ spent'.faults = spent.faults
  BY <1>2 DEF PoolInv, PoolTypes
<1>4. c \in Remote!Calls /\ c # Nothing /\ c.at \in Remote!Pool /\ c.op = "sample"
        /\ c.version = promised
  BY <1>1, NextTurn DEF Remote!Calls, PoolInv
<1> HIDE DEF c
<1>5. /\ calls' \in [Tasks -> Remote!Calls \cup {Nothing}] /\ calls'[t] = c
      /\ \A u \in Tasks : calls'[u] # Nothing => calls'[u].at \in Remote!Pool
      /\ \A op : Remote!Does(t, op)' <=> op = "sample"
      /\ \A u \in Tasks \ {t} : /\ calls'[u] = calls[u] /\ Remote!Idle(u)' = Remote!Idle(u)
                                /\ \A op : Remote!Does(u, op)' = Remote!Does(u, op)
  <2>1. calls \in [Tasks -> Remote!Calls \cup {Nothing}]
    BY DEF PoolInv, PoolTypes
  <2>2. calls'[t] = c
    BY <1>2, <2>1
  <2>3. /\ calls' \in [Tasks -> Remote!Calls \cup {Nothing}]
        /\ \A u \in Tasks : calls'[u] # Nothing => calls'[u].at \in Remote!Pool
        /\ \A op : Remote!Does(t, op)' <=> c # Nothing /\ c.op = op
        /\ \A u \in Tasks \ {t} : /\ calls'[u] = calls[u] /\ Remote!Idle(u)' = Remote!Idle(u)
                                  /\ \A op : Remote!Does(u, op)' = Remote!Does(u, op)
    BY <1>2, <1>4, CallsKept DEF PoolInv
  <2> QED
    BY <1>4, <2>2, <2>3
<1>6. PoolTypes'
  BY <1>2, <1>3, <1>5, NextTurn
     DEF PoolInv, PoolTypes, Remote!Pool, Remote!Endpoints, Remote!Calls
<1>7. \A u \in Tasks : ~ Remote!Does(u, "unload")' /\ ~ Remote!Does(u, "publish")'
  BY <1>1, <1>5
<1>8. OneByOne'
  <2>1. \A u \in Tasks : Remote!Does(u, "sample")' => calls'[u].version = promised
    BY <1>4, <1>5 DEF PoolInv, OneByOne
  <2> QED
    BY <1>1, <1>2, <1>7, <2>1 DEF PoolInv, OneByOne
<1>9. ServersFit'
  BY <1>1, <1>2, <1>3, <1>7 DEF PoolInv, ServersFit, Remote!Pool
<1> QED
  BY <1>2, <1>3, <1>6, <1>8, <1>9 DEF PoolInv

(* The answer to a sample or a health check, or the next health check, leaves the others'
   calls, the servers and what is promised alone. *)
LEMMA CallDone ==
    ASSUME MaxEndpoints \in Nat \ {0}, Nothing \notin Nat \cup Remote!Calls, PoolInv,
           NEW t \in Tasks,
           Remote!Idle(t) \/ Remote!Does(t, "sample") \/ Remote!Does(t, "health"),
           NEW c \in Remote!Calls \cup {Nothing},
           c # Nothing => c.at \in Remote!Pool /\ c.op = "health",
           calls' = [calls EXCEPT ![t] = c],
           UNCHANGED <<size, up, turn, loaded, served, strays, promised, spent>>,
           "stale" \notin replies', size = 1 /\ spent.faults = 0 => "missing" \notin replies'
    PROVE  PoolInv'
<1>1. /\ calls' \in [Tasks -> Remote!Calls \cup {Nothing}]
      /\ \A u \in Tasks : calls'[u] # Nothing => calls'[u].at \in Remote!Pool
      /\ Remote!Idle(t)' <=> c = Nothing
      /\ \A op : Remote!Does(t, op)' <=> c # Nothing /\ c.op = op
      /\ \A u \in Tasks \ {t} : /\ calls'[u] = calls[u] /\ Remote!Idle(u)' = Remote!Idle(u)
                                /\ \A op : Remote!Does(u, op)' = Remote!Does(u, op)
  BY CallsKept DEF PoolInv
<1>2. Remote!Pool' = Remote!Pool /\ Remote!Endpoints' = Remote!Endpoints
  BY DEF Remote!Pool, Remote!Endpoints
<1>3. /\ ~ Remote!Does(t, "unload") /\ ~ Remote!Does(t, "publish")
      /\ Remote!Idle(t)' \/ Remote!Does(t, "health")'
      /\ ~ Remote!Does(t, "unload")' /\ ~ Remote!Does(t, "publish")'
           /\ ~ Remote!Does(t, "sample")'
  BY <1>1 DEF Remote!Does
<1>4. PoolTypes'
  BY <1>1, <1>2 DEF PoolInv, PoolTypes, Remote!Calls
<1>5. OneByOne'
  <2>1. \A u \in Tasks : Remote!Does(u, "sample")' => promised # Nothing
          /\ calls'[u].version = promised
    BY <1>1, <1>3 DEF PoolInv, OneByOne
  <2>2. \A u \in Tasks : Remote!Does(u, "publish")' =>
            promised = Nothing /\ \A v \in Tasks : Remote!Does(v, "publish")' => v = u
    BY <1>1, <1>3 DEF PoolInv, OneByOne
  <2>3. ASSUME NEW u \in Tasks, Remote!Does(u, "unload")'
        PROVE  promised = Nothing
                 /\ \A v \in Tasks \ {u} : Remote!Idle(v)' \/ Remote!Does(v, "health")'
    <3>1. u # t /\ Remote!Does(u, "unload")
      BY <1>1, <1>3, <2>3
    <3> QED
      BY <1>1, <1>3, <3>1 DEF PoolInv, OneByOne
  <2> QED
    BY <2>1, <2>2, <2>3 DEF PoolInv, OneByOne
<1>6. ServersFit'
  BY <1>1, <1>2, <1>3 DEF PoolInv, ServersFit
<1> QED
  BY <1>4, <1>5, <1>6 DEF PoolInv

LEMMA SampledKept ==
    ASSUME MaxEndpoints \in Nat \ {0}, Nothing \notin Nat \cup Remote!Calls, PoolInv,
           NEW t \in Tasks, Remote!Sampled(t)
    PROVE  PoolInv'
<1>1. /\ Remote!Does(t, "sample") /\ calls' = [calls EXCEPT ![t] = Nothing]
      /\ replies' = replies \cup {Remote!Reply(calls[t])}
      /\ UNCHANGED <<size, up, turn, loaded, served, strays, promised, spent>>
  BY DEF Remote!Sampled, Remote!Done, Remote!pool, Remote!servers
<1>2. /\ calls[t].at \in Remote!Pool /\ promised \in Nat /\ promised # Nothing
      /\ calls[t].version = promised
  BY <1>1 DEF PoolInv, PoolTypes, OneByOne, Remote!Does, Remote!Idle
<1>3. calls[t].at \notin strays => served[calls[t].at] \in {Nothing, promised}
  BY <1>2 DEF PoolInv, ServersFit
<1>4. size = 1 /\ spent.faults = 0 => served[calls[t].at] = promised
  BY <1>2 DEF PoolInv, ServersFit, Remote!Pool
<1>5. /\ Remote!Reply(calls[t]) # "stale"
      /\ size = 1 /\ spent.faults = 0 => Remote!Reply(calls[t]) # "missing"
  BY <1>2, <1>3, <1>4 DEF Remote!Reply
<1> QED
  BY <1>1, <1>5, CallDone DEF PoolInv

(* health_check *)
LEMMA ChecksKept ==
    ASSUME MaxEndpoints \in Nat \ {0}, Nothing \notin Nat \cup Remote!Calls, PoolInv,
           NEW t \in Tasks, Remote!HealthCheck(t) \/ Remote!Checked(t)
    PROVE  PoolInv'
<1>1. CASE Remote!HealthCheck(t)
  <2> DEFINE c == [op |-> "health", at |-> 0]
  <2>1. c \in Remote!Calls /\ c.at \in Remote!Pool /\ c.op = "health"
    BY NextTurn DEF Remote!Calls, PoolInv
  <2>2. /\ Remote!Idle(t) /\ calls' = [calls EXCEPT ![t] = c]
        /\ UNCHANGED <<size, up, turn, loaded, served, strays, promised, replies, spent>>
    BY <1>1 DEF Remote!HealthCheck, Remote!Sends, Remote!pool, Remote!servers
  <2> HIDE DEF c
  <2> QED
    BY <2>1, <2>2, CallDone DEF PoolInv
<1>2. CASE Remote!Checked(t)
  <2> DEFINE e == calls[t].at
             next == [op |-> "health", at |-> e + 1]
             c == IF e + 1 \in Remote!Pool THEN next ELSE Nothing
  <2>1. /\ Remote!Does(t, "health") /\ calls' = [calls EXCEPT ![t] = c]
        /\ UNCHANGED <<size, up, turn, loaded, served, strays, promised, replies, spent>>
    BY <1>2 DEF Remote!Checked, Remote!Sends, Remote!Done, Remote!pool, Remote!servers
  <2>2. c \in Remote!Calls \cup {Nothing} /\ (c # Nothing => c.at \in Remote!Pool /\ c.op = "health")
    <3>1. Remote!Pool \subseteq Nat
      BY NextTurn DEF PoolInv
    <3>2. e + 1 \in Remote!Pool => next \in Remote!Calls
      BY <3>1 DEF Remote!Calls
    <3> QED
      BY <3>2
  <2> HIDE DEF c
  <2> QED
    BY <2>1, <2>2, CallDone DEF PoolInv
<1> QED
  BY <1>1, <1>2

(* Servers that fail and come back hold what they held, or nothing. *)
LEMMA ServersKept ==
    ASSUME MaxEndpoints \in Nat \ {0}, PoolInv, NEW e \in Remote!Pool,
           Remote!Lose(e) \/ Remote!Recover(e)
    PROVE  PoolInv'
<1>1. UNCHANGED <<size, turn, loaded, calls, promised, replies>>
  BY DEF Remote!Lose, Remote!Recover
<1>2. Remote!Pool' = Remote!Pool /\ Remote!Endpoints' = Remote!Endpoints
        /\ e \in Remote!Endpoints
  BY <1>1, NextTurn DEF Remote!Pool, Remote!Endpoints, PoolInv
<1>3. \A t \in Tasks : Remote!Idle(t)' = Remote!Idle(t)
        /\ \A op : Remote!Does(t, op)' = Remote!Does(t, op)
  BY <1>1 DEF Remote!Idle, Remote!Does
<1>4. /\ up' \in [Remote!Endpoints -> BOOLEAN]
           /\ served' \in [Remote!Endpoints -> Nat \cup {Nothing}]
      /\ spent' \in [version : Nat, faults : Nat, samples : Nat]
      /\ UNCHANGED <<spent, served, strays>> \/ spent'.faults # 0
      /\ \A f \in Remote!Pool : \/ served'[f] = Nothing
                                \/ served'[f] = served[f] /\ (f \in strays' <=> f \in strays)
      /\ spent'.faults = 0 => \A f \in Remote!Pool : up'[f]
  <2>1. CASE Remote!Lose(e)
    <3>1. up' = [up EXCEPT ![e] = FALSE] /\ (Remote!Forgets(e) \/ UNCHANGED <<served, strays>>)
      BY <2>1 DEF Remote!Lose, Remote!servers
    <3>2. spent' \in [version : Nat, faults : Nat, samples : Nat] /\ spent'.faults # 0
      BY <2>1 DEF Remote!Lose, Remote!Failing, PoolInv, PoolTypes
    <3>3. /\ served' \in [Remote!Endpoints -> Nat \cup {Nothing}]
          /\ \A f \in Remote!Pool : \/ served'[f] = Nothing
                                    \/ served'[f] = served[f] /\ (f \in strays' <=> f \in strays)
      <4>1. served \in [Remote!Endpoints -> Nat \cup {Nothing}]
        BY DEF PoolInv, PoolTypes
      <4>2. CASE UNCHANGED <<served, strays>>
        BY <4>1, <4>2
      <4>3. CASE Remote!Forgets(e)
        <5>1. served' = [served EXCEPT ![e] = Nothing] /\ strays' = strays \ {e}
          BY <4>3 DEF Remote!Forgets
        <5>2. served' \in [Remote!Endpoints -> Nat \cup {Nothing}] /\ served'[e] = Nothing
          BY <1>2, <4>1, <5>1
        <5>3. \A f \in Remote!Pool : f # e =>
                served'[f] = served[f] /\ (f \in strays' <=> f \in strays)
          <6>1. Remote!Pool \subseteq Remote!Endpoints
            BY NextTurn DEF PoolInv
          <6>2. \A f \in Remote!Pool : f # e => served'[f] = served[f]
            BY <4>1, <5>1, <6>1
          <6>3. \A f : f # e => (f \in strays' <=> f \in strays)
            BY <5>1
          <6> QED
            BY <6>2, <6>3
        <5>4. ASSUME NEW f \in Remote!Pool
              PROVE  \/ served'[f] = Nothing
                     \/ served'[f] = served[f] /\ (f \in strays' <=> f \in strays)
          <6>1. CASE f = e
            BY <5>2, <6>1
          <6>2. CASE f # e
            BY <5>3, <6>2
          <6> QED
            BY <6>1, <6>2
        <5> QED
          BY <5>2, <5>4
      <4> QED
        BY <3>1, <4>2, <4>3
    <3> QED
      BY <3>1, <3>2, <3>3 DEF PoolInv, PoolTypes
  <2>2. CASE Remote!Recover(e)
    BY <1>2, <2>2 DEF Remote!Recover, Remote!servers, PoolInv, PoolTypes, ServersFit
  <2> QED
    BY <2>1, <2>2
<1>5. PoolTypes'
  BY <1>1, <1>2, <1>4 DEF PoolInv, PoolTypes, Remote!Calls
<1>6. OneByOne'
  BY <1>1, <1>3 DEF PoolInv, OneByOne
<1>7. ServersFit'
  BY <1>1, <1>2, <1>3, <1>4 DEF PoolInv, ServersFit
<1>8. spent'.faults = 0 => spent.faults = 0
  BY <1>4
<1> QED
  BY <1>1, <1>5, <1>6, <1>7, <1>8 DEF PoolInv

LEMMA PoolNext ==
    ASSUME MaxEndpoints \in Nat \ {0}, Nothing \notin Nat \cup Remote!Calls,
           "race" \notin SamplerUses,
           PoolInv, [Remote!Next]_(Remote!vars)
    PROVE  PoolInv'
<1>1. CASE UNCHANGED Remote!vars
  <2>1. UNCHANGED <<size, up, turn, loaded, served, strays, promised, calls, replies, spent>>
    BY <1>1 DEF Remote!vars
  <2>2. Remote!Pool' = Remote!Pool /\ Remote!Endpoints' = Remote!Endpoints
    BY <2>1 DEF Remote!Pool, Remote!Endpoints
  <2>3. \A t \in Tasks : Remote!Idle(t)' = Remote!Idle(t)
          /\ \A op : Remote!Does(t, op)' = Remote!Does(t, op)
    BY <2>1 DEF Remote!Idle, Remote!Does
  <2> QED
    BY <2>1, <2>2, <2>3 DEF PoolInv, PoolTypes, OneByOne, ServersFit, Remote!Calls
<1> QED
  BY <1>1, PublishKept, PublishedKept, UnloadKept, UnloadedKept, SampleKept, SampledKept,
     ChecksKept, ServersKept DEF Remote!Next

(***************************************************************************)
(* For a pool of any size, any versions and samples, loads that are        *)
(* rejected, answers that are lost and servers that restart or keep their  *)
(* adapters out of reach: a client that waits for its calls before it      *)
(* unloads, and unloads before it publishes again, never gets an answer    *)
(* from an older version than the one published last, unless it comes from *)
(* a server that missed the unload or whose load was answered with an      *)
(* error; and from a single server that never failed always one            *)
(* (publish_adapter, unload_adapter, sample of VLLMSamplingBackend).       *)
(***************************************************************************)
THEOREM PublishedAnswers ==
    ASSUME "race" \notin SamplerUses PROVE ServingSpec => []ServesPublished
<1>1. ServingInit => PoolInv
  BY PoolStarts, SamplersAssumption DEF ServingInit
<1>2. PoolInv /\ [ServingNext]_servingVars => PoolInv'
  BY PoolNext, SamplersAssumption DEF ServingNext, servingVars, poolVars, Remote!vars
<1>3. PoolInv => ServesPublished
  BY DEF PoolInv, ServesPublished, Remote!ServesPublished,
         Remote!StaleOnlyFromStrays, Remote!ReadyAlone
<1> QED
  BY <1>1, <1>2, <1>3, PTL DEF ServingSpec
=============================================================================
