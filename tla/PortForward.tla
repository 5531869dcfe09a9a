----------------------------- MODULE PortForward -----------------------------
(***************************************************************************)
(* crates/net/src/port_forward.rs: listeners on host ports open TCP        *)
(* connections to the guest, from a virtual port that depends on the host  *)
(* client's own port, and pass datagrams to it.  What the guest answers    *)
(* comes back through the stack's loop.  The data never reaches the host   *)
(* client: the code keeps its stream and does not write to it.             *)
(***************************************************************************)
EXTENDS NatTable

CONSTANTS
    Clients,        \* host clients, each connects once
    VPortOf,        \* the virtual port a client's port gives
    MaxForwardUdp   \* bound: datagrams host clients send

VPorts == {VPortOf[c] : c \in Clients}

ASSUME ForwardAssumption == MaxForwardUdp \in Nat

VARIABLES
    inbound,        \* tcp_inbound: virtual port -> state
    listener,       \* clients accepted whose SYN is not sent yet
    served,         \* clients accepted so far
    guest_mac,      \* the guest's MAC address has been learned
    fleft           \* datagrams left

fwdVars == <<inbound, listener, served, guest_mac, fleft>>

NoInbound == [client |-> {}, established |-> FALSE, guest_next_seq |-> 0]

ForwardSyn(c) == [kind |-> "FSYN", vport |-> VPortOf[c], client |-> c]
ForwardUdp(c) == [kind |-> "FUDP", vport |-> VPortOf[c]]
ForwardAck(v) == [kind |-> "FACK", vport |-> v]

FwdInit ==
    /\ inbound = [v \in VPorts |-> NoInbound]
    /\ listener = {} /\ served = {} /\ guest_mac = FALSE
    /\ fleft = MaxForwardUdp

-----------------------------------------------------------------------------
(* The loop holds the lock of tcp_inbound while it sends an ACK.           *)
InboundLocked == loop.at = "reply" /\ loop.then = "forward"

(* The listener of a port accepts, and stores the stream in the map.       *)
ListenerAccepts(c) ==
    /\ c \notin served /\ listener = {} /\ ~InboundLocked
    /\ served' = served \cup {c}
    /\ listener' = {c}
    /\ inbound' = [inbound EXCEPT ![VPortOf[c]] = [NoInbound EXCEPT !.client = {c}]]
    /\ UNCHANGED <<guest_mac, fleft, natVars>>

ListenerSendsSyn(c) ==
    /\ c \in listener /\ Room
    /\ nat_rx' = Append(nat_rx, ForwardSyn(c))
    /\ listener' = {}
    /\ UNCHANGED <<inbound, served, guest_mac, fleft, tcp, conn, made, bindings, receiving,
                   loop, rleft>>

UdpForwards(c) ==
    /\ fleft > 0 /\ Room
    /\ nat_rx' = Append(nat_rx, ForwardUdp(c))
    /\ fleft' = fleft - 1
    /\ UNCHANGED <<inbound, listener, served, guest_mac, tcp, conn, made, bindings, receiving, loop, rleft>>

-----------------------------------------------------------------------------

(* The connection of a virtual port.                                       *)
Find(v) == {w \in VPorts : w = v /\ inbound[w].client # {}}

(* handle_tcp_response, up to the send of the ACK.                         *)
HandleTcpResponse(p) ==
    \/ /\ Find(p.vport) = {} \/ p.kind = "FFIN"
       /\ UNCHANGED inbound /\ loop' = AtTick
    \/ \E v \in Find(p.vport) :
          /\ p.kind = "FSYNACK"
          /\ inbound' = [inbound EXCEPT ![v].established = TRUE, ![v].guest_next_seq = 1]
          /\ loop' = Replying(ForwardAck(v), "forward")
    \/ \E v \in Find(p.vport) :
          /\ p.kind = "FDATA"
          /\ inbound' = [inbound EXCEPT ![v].guest_next_seq =
                                            IF inbound[v].established THEN @ + 1 ELSE @]
          /\ loop' = AtTick

(* A datagram (or a ping) of the guest to the gateway goes no further.     *)
HandleUdpResponse == UNCHANGED inbound /\ loop' = AtTick

HandleGuestResponse(p) ==
    /\ guest_mac' = TRUE
    /\ IF p.kind \in {"FSYNACK", "FDATA", "FFIN"} THEN HandleTcpResponse(p)
       ELSE HandleUdpResponse
    /\ UNCHANGED <<listener, served, fleft, tcp, conn, made, bindings, receiving, rleft>>

FwdNext ==
    \E c \in Clients : ListenerAccepts(c) \/ ListenerSendsSyn(c) \/ UdpForwards(c)
=============================================================================
