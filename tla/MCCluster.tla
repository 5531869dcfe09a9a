----------------------------- MODULE MCCluster ------------------------------
(* Instances of Cluster for TLC.                                           *)
EXTENDS Cluster, TLC

CONSTANTS v1, v2

Scenario(joined, first, second, mortal, reset) ==
    [joined |-> joined, sends |-> (v1 :> first @@ v2 :> second), mortal |-> mortal,
     resets |-> reset]

(* Enough traffic both ways to fill every channel; a conversation in which *)
(* one machine may go, and a device be reset; machines that start together *)
(* and one of them fails or goes.                                          *)
MCScenarios ==
    { Scenario(TRUE, <<v2, v2, v2>>, <<v1, v1, v1>>, {}, 0),
      Scenario(TRUE, <<Bcast, v2>>, <<v1>>, {v2}, 1),
      Scenario(FALSE, <<Bcast>>, <<v1>>, {v2}, 0) }
=============================================================================
