----------------------------- MODULE MCVmHandle -----------------------------
(* Instances of VmHandle for TLC.                                          *)
EXTENDS VmHandle, TLC

CONSTANTS c1, c2

TwoCallers == {c1, c2}
OneCaller == {c1}
=============================================================================
