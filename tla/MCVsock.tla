------------------------------ MODULE MCVsock ------------------------------
(* Instances of Vsock for TLC: listen port 1, connect port 2, guest        *)
(* ephemeral ports from 11, host ephemeral ports from 21.                  *)
EXTENDS Vsock

CONSTANTS h1, h2, k1, k2

MCPortOf == [h \in Hosts |-> IF h \in {k1, k2} THEN 2 ELSE 1]
Scenario(hosts, guests, sends, writes, resets_) ==
    [hosts |-> hosts, guests |-> guests, sends |-> sends, writes |-> writes, resets |-> resets_]

(* A stream on either port; two streams and two guest connections on the   *)
(* listen port, with a reset; two streams and a connection with data; two  *)
(* streams, one after the other, on the connect port, with a reset.        *)
MCScenarios ==
    {Scenario({h1, k1}, {11}, 0, 0, 0),
     Scenario({h1, h2}, {11, 12}, 0, 0, 1),
     Scenario({h1, h2}, {11}, 1, 1, 0),
     Scenario({k1, k2}, {}, 0, 0, 1)}
=============================================================================
