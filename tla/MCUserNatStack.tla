--------------------------- MODULE MCUserNatStack ---------------------------
(* Instances of UserNatStack for TLC. *)
EXTENDS UserNatStack, TLC

CONSTANTS c1, c2

DistinctPorts == c1 :> 1 @@ c2 :> 2
Scenario(forward, t, o) == [forward |-> forward, tcp |-> t, other |-> o]
(* TCP alone; the other protocols with a connection; port forwarding. *)
Small == {Scenario(FALSE, 4, 0), Scenario(FALSE, 1, 2), Scenario(TRUE, 0, 2)}
OnlyTcp == {Scenario(FALSE, 2, 0)}
FlowsSymmetric == Permutations(Flows)
=============================================================================
