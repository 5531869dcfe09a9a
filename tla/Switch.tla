------------------------------- MODULE Switch -------------------------------
(***************************************************************************)
(* crates/net/src/switch.rs: the learning switch of a cluster, its ports   *)
(* and the tasks that serve them, and the gateway on it                    *)
(* (crates/net/src/cluster_stack.rs), which answers through a port.        *)
(*                                                                         *)
(* One Mutex guards the table and the list of ports.  A port's task holds  *)
(* it while it waits for room in the ports the frame goes to.  A station   *)
(* stands for its MAC address and for its port.                            *)
(***************************************************************************)
EXTENDS Naturals, Sequences, SequencesExt

CONSTANTS
    Stations,       \* everything that may have a port
    Gateway,        \* the station of ClusterStack
    Bcast,          \* the broadcast address
    Nobody,         \* no station
    ChanCap,        \* frames a channel of a port holds
    MaxAnswers      \* bound: frames the gateway sends

VARIABLES
    ports,          \* SwitchInner.ports
    listening,      \* the ports whose receiver exists
    mac_table,      \* SwitchInner.mac_table
    toSwitch,       \* a port's channel into the switch
    fromSwitch,     \* a port's channel out of it
    turn            \* the task in process_frame: its port, the frame, the ports left

switchVars == <<ports, listening, mac_table, toSwitch, fromSwitch, turn>>

NoTurn == [port |-> Nobody, frame |-> <<>>, left |-> <<>>]

SwitchInit(joined) ==
    /\ ports = joined
    /\ listening = ToSet(joined)
    /\ mac_table = [s \in Stations |-> Nobody]
    /\ toSwitch = [s \in Stations |-> <<>>]
    /\ fromSwitch = [s \in Stations |-> <<>>]
    /\ turn = NoTurn

-----------------------------------------------------------------------------
(* create_port waits for the Mutex; the port's task starts with it.        *)
CreatePort(s) ==
    /\ turn = NoTurn
    /\ ports' = Append(ports, s)
    /\ listening' = listening \cup {s}
    /\ UNCHANGED <<mac_table, toSwitch, fromSwitch, turn>>

(* The owner of a port drops its receiver, with what it held.              *)
DropReceiver(s) ==
    /\ listening' = listening \ {s}
    /\ fromSwitch' = [fromSwitch EXCEPT ![s] = <<>>]
    /\ UNCHANGED <<ports, mac_table, toSwitch, turn>>

-----------------------------------------------------------------------------
(* process_frame.                                                          *)

Others(s) == SelectSeq(ports, LAMBDA p : p # s)

(* Mutant: the table keeps the port a frame came from for its destination. *)
LearnedBackwards(s, frame) ==
    IF frame.dst = Bcast THEN mac_table ELSE [mac_table EXCEPT ![frame.dst] = s]

(* The table after the frame's source is learned.                          *)
Learned(s, frame) == [mac_table EXCEPT ![frame.src] = s]

(* Mutant: a flood that spares nobody.                                     *)
ForwardToAll(s, frame) ==
    IF frame.dst = Bcast \/ Learned(s, frame)[frame.dst] = Nobody
    THEN ports
    ELSE SelectSeq(<<Learned(s, frame)[frame.dst]>>, LAMBDA p : p # s)

(* The ports a frame goes to, in order: all but its own when it is a       *)
(* broadcast or its destination is unknown, else the one port learned.     *)
Forward(s, frame) ==
    IF frame.dst = Bcast \/ Learned(s, frame)[frame.dst] = Nobody
    THEN Others(s)
    ELSE SelectSeq(<<Learned(s, frame)[frame.dst]>>, LAMBDA p : p # s)

(* port_receiver_task: take a frame, then the Mutex.                       *)
TakeFrame(s) ==
    /\ turn = NoTurn /\ toSwitch[s] # <<>>
    /\ LET frame == Head(toSwitch[s])
           left == Forward(s, frame)
       IN  /\ mac_table' = Learned(s, frame)
           /\ turn' = IF left = <<>> THEN NoTurn
                      ELSE [port |-> s, frame |-> frame, left |-> left]
    /\ toSwitch' = [toSwitch EXCEPT ![s] = Tail(@)]
    /\ UNCHANGED <<ports, listening, fromSwitch>>

NextTurn == IF Len(turn.left) = 1 THEN NoTurn ELSE [turn EXCEPT !.left = Tail(@)]

(* flood, send_to_port: the send waits for room in a port that is          *)
(* listening, and fails at once in another; the Mutex stays held.          *)
SendToPort ==
    /\ turn # NoTurn
    /\ LET p == Head(turn.left) IN
          \/ /\ p \in listening /\ Len(fromSwitch[p]) < ChanCap
             /\ fromSwitch' = [fromSwitch EXCEPT ![p] = Append(@, turn.frame)]
          \/ /\ p \notin listening
             /\ UNCHANGED fromSwitch
    /\ turn' = NextTurn
    /\ UNCHANGED <<ports, listening, mac_table, toSwitch>>

-----------------------------------------------------------------------------
(* SwitchPort as the gateway's FrameIO: poll_recv gives a frame when there *)
(* is one, send drops a frame that finds the channel full.                 *)
PollRecv(s) ==
    /\ fromSwitch[s] # <<>>
    /\ fromSwitch' = [fromSwitch EXCEPT ![s] = Tail(@)]

TrySend(s, frame) ==
    toSwitch' = [toSwitch EXCEPT ![s] = IF Len(@) < ChanCap THEN Append(@, frame) ELSE @]

(* ClusterStack::run, each tick: smoltcp and process_dhcp take a frame and *)
(* answer it or not, an ARP request to its sender and a DHCP message to    *)
(* everybody.                                                              *)
GatewayTick(answered) ==
    /\ PollRecv(Gateway)
    /\ LET frame == Head(fromSwitch[Gateway]) IN
          \/ UNCHANGED toSwitch /\ answered = 0
          \/ /\ frame.dst \in {Bcast, Gateway} /\ answered \in 1 .. MaxAnswers
             /\ \E dst \in {Bcast, frame.src} :
                   TrySend(Gateway, [src |-> Gateway, n |-> answered, dst |-> dst])
    /\ UNCHANGED <<ports, listening, mac_table, turn>>
=============================================================================
