------------------------------ MODULE MCVmPool ------------------------------
(* Instances of VmPool for TLC.                                            *)
EXTENDS VmPool

CONSTANTS c1, c2, c3, v1, v2

ThreeClients == {c1, c2, c3}
TwoVMs == {v1, v2}
=============================================================================
