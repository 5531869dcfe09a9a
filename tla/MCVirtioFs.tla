----------------------------- MODULE MCVirtioFs -----------------------------
(* Instances of VirtioFs for TLC. *)
EXTENDS VirtioFs, TLC

(* Two names in the root, one of them also in either directory. *)
TwoLevels == {<<"a">>, <<"b">>, <<"a", "a">>, <<"b", "a">>}
SomeFlags == {{"read"}, {"read", "append"}, {"write", "trunc"}}
HostInosSymmetric == Permutations(HostInos)
=============================================================================
