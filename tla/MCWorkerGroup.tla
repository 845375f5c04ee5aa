--------------------------- MODULE MCWorkerGroup ---------------------------
(* Instances of WorkerGroup: three ranks, one job of each kind. *)
EXTENDS WorkerGroup, TLC
CONSTANTS j1, j2, j3, j4
OneOfEach == (j1 :> "collective") @@ (j2 :> "local") @@ (j3 :> "unknown") @@ (j4 :> "wide")
============================================================================
