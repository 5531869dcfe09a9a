------------------------------- MODULE MCDhcp -------------------------------
(* Instances of Dhcp for TLC.                                              *)
EXTENDS Dhcp

CONSTANTS m1, m2
=============================================================================
