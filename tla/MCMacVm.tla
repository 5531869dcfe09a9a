------------------------------ MODULE MCMacVm -------------------------------
(* Instances of MacVm for TLC.                                             *)
EXTENDS MacVm, TLC

MCStart == <<0, "start">>
MCCallers == 1 .. 2
MCRpcs == {MCStart} \union (MCCallers \X {"shutdown", "wait", "kill"})
MCHosts == {1, 2}
MCGuests == {3, 4}

(* Two calls of any method without a vsock port, none with it: the machine *)
(* then stops by itself or with the daemon.                                *)
(* wait() is a wait_timeout() whose time is never over.                    *)
Methods == {"stop", "kill", "wait_timeout"}
MCMayCall == [p \in {0, 1} |-> IF p = 0 THEN <<Methods, Methods>> ELSE <<{}, {}>>]
=============================================================================
