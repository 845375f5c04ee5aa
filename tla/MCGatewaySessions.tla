-------------------------- MODULE MCGatewaySessions --------------------------
(* Instances of GatewaySessions for TLC: one session with two requests on  *)
(* it, or two creations beside a request on the first.                     *)
EXTENDS GatewaySessions, TLC
CONSTANTS a, b, r1, r2

TwoParts == <<"weights", "meta">>
On(s, kind) == [kind |-> kind, session |-> s]
Nothing == On(a, "none")
Alone(via, k1, k2) == [via |-> (a :> via) @@ (b :> "never"),
                       asks |-> (r1 :> On(a, k1)) @@ (r2 :> On(a, k2))]
Two(v1, v2, wish) == [via |-> (a :> v1) @@ (b :> v2),
                     asks |-> (r1 :> wish) @@ (r2 :> Nothing)]
Pairs == {Alone("native", "resume", "delete"), Alone("native", "op", "delete"),
          Alone("native", "delete", "delete"),
          Alone("native", "get", "checkpoint"), Alone("tinker", "post", "unload"),
          Alone("tinker", "op", "save_state"), Alone("tinker", "save_state", "drop_checkpoint")}
Creations == {Two("native", "tinker", On(a, "delete")), Two("native", "native", Nothing),
              Two("tinker", "sampler", On(b, "unload"))}
AllScenarios == Pairs \cup Creations
SaveBesideOp == {Alone("tinker", "op", "save_state")}
AllFleets == {"unregistered", "idle"}
=============================================================================
