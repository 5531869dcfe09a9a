----------------------------- MODULE EthSegment -----------------------------
(***************************************************************************)
(* What a network cluster promises the machines on it (NetworkCluster,     *)
(* crates/capsa/src/cluster.rs): one Ethernet segment.  A station hears    *)
(* what the others sent, in the order each of them sent it, at most once,  *)
(* and never itself; frames may be lost.  How the frames travel does not   *)
(* appear.                                                                 *)
(***************************************************************************)
EXTENDS Naturals, Sequences, SequencesExt

CONSTANTS Stations

VARIABLES
    sent,       \* frames each station has put on the segment
    inbox       \* frames each station has heard

Init ==
    /\ sent = [s \in Stations |-> 0]
    /\ inbox = [s \in Stations |-> <<>>]

Transmit(s) ==
    /\ sent' = [sent EXCEPT ![s] = @ + 1]
    /\ UNCHANGED inbox

(* Each sender's frames are heard in increasing order.                     *)
InOrder(heard) ==
    \A i, j \in DOMAIN heard :
        i < j /\ heard[i].src = heard[j].src => heard[i].n < heard[j].n

Receive(s) ==
    /\ \A t \in Stations \ {s} : inbox'[t] = inbox[t]
    /\ IsPrefix(inbox[s], inbox'[s])
    /\ InOrder(inbox'[s])
    /\ \A i \in DOMAIN inbox'[s] :
          LET f == inbox'[s][i] IN f.src # s /\ f.n \in 1 .. sent[f.src]
    /\ UNCHANGED sent

Next == \E s \in Stations : Transmit(s) \/ Receive(s)

Spec == Init /\ [][Next]_<<sent, inbox>>
=============================================================================
