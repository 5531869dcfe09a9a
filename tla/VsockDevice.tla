----------------------------- MODULE VsockDevice -----------------------------
(***************************************************************************)
(* crates/linux/kvm/src/virtio/vsock.rs: the virtio-vsock device.  The     *)
(* vCPU thread runs the TX handlers, which hold the device's mutex for one *)
(* notification; the poll task takes the mutex, drains the bridge's        *)
(* messages one by one and then fills the guest's RX buffers.              *)
(*                                                                         *)
(* A port is a number, a packet its operation and two ports.  The flow     *)
(* control fields only travel in packets and decide nothing, so they are   *)
(* absent.  `who` is a ghost: the host stream a message is about, Nobody   *)
(* when the guest has opened the connection.                               *)
(***************************************************************************)
EXTENDS Integers, FiniteSets, Sequences

CONSTANTS
    MaxConns,           \* MAX_VSOCK_CONNECTIONS
    FirstEph, LastEph,  \* the range of next_ephemeral_port
    Nobody              \* "no stream"

ASSUME MaxConnsAssumption == MaxConns \in Nat \ {0}
ASSUME EphAssumption == FirstEph \in Nat /\ LastEph \in Nat /\ FirstEph <= LastEph

VARIABLES
    active,     \* DRIVER_OK is set and the queues are ready
    polling,    \* the poll task holds the device's mutex
    conns,      \* VirtioVsock.connections
    pending,    \* pending_host_connects: guest port, ephemeral port
    nextEph,    \* next_ephemeral_port
    rxq,        \* rx_queue: packets not yet in a guest buffer
    gin,        \* packets in the guest's RX buffers
    d2b, b2d,   \* the channels to and from the bridge
    wrongClose  \* ghost: a stream's Closed ended a connection of another

devVars == <<active, polling, conns, pending, nextEph, rxq, gin, wrongClose>>

Packet(op, host, guest) == [op |-> op, host |-> host, guest |-> guest]
Msg(kind, port, who) == [kind |-> kind, port |-> port, who |-> who]

(* ConnKey is (local, peer); host and guest are the ports in packets.      *)
ListenConn(host, guest) ==
    [local |-> host, peer |-> guest, host |-> host, guest |-> guest, who |-> Nobody]
ConnectConn(p) ==
    [local |-> p.local, peer |-> p.peer, host |-> p.peer, guest |-> p.local, who |-> p.who]

(* The connection between two ports, of which there is at most one.        *)
Between(host, guest) == {c \in conns : c.host = host /\ c.guest = guest}
OnPort(port) == {c \in conns : c.local = port}

DevInit ==
    /\ active = FALSE /\ polling = FALSE
    /\ conns = {} /\ pending = {} /\ nextEph = FirstEph
    /\ rxq = <<>> /\ gin = <<>>
    /\ wrongClose = FALSE

NoTx == UNCHANGED d2b
Tell(kind, port, who) == d2b' = Append(d2b, Msg(kind, port, who))
Queue(op, host, guest) == rxq' = Append(rxq, Packet(op, host, guest))

-----------------------------------------------------------------------------
(* poll().                                                                 *)

PollBegins ==
    /\ ~polling
    /\ b2d # <<>> \/ (rxq # <<>> /\ active)
    /\ polling' = TRUE
    /\ UNCHANGED <<active, conns, pending, nextEph, rxq, gin, wrongClose, d2b, b2d>>

NextEphemeral(e) == IF e = LastEph THEN FirstEph ELSE e + 1

HandleBridgeConnect(m) ==
    /\ pending' = {p \in pending : p.local # m.port}
                    \cup {[local |-> m.port, peer |-> nextEph, who |-> m.who]}
    /\ nextEph' = NextEphemeral(nextEph)
    /\ IF active THEN Queue("REQUEST", nextEph, m.port) ELSE UNCHANGED rxq
    /\ UNCHANGED <<conns, wrongClose>>

(* Data for a port goes to a connection of that port, whichever the map    *)
(* yields first; without one it is dropped.                                *)
HandleBridgeData(m) ==
    /\ IF OnPort(m.port) = {} THEN UNCHANGED rxq
       ELSE \E c \in OnPort(m.port) : Queue("RW", c.host, c.guest)
    /\ UNCHANGED <<conns, pending, nextEph, wrongClose>>

HandleBridgeClosed(m) ==
    /\ IF OnPort(m.port) = {} THEN UNCHANGED <<conns, rxq, wrongClose>>
       ELSE \E c \in OnPort(m.port) :
               /\ conns' = conns \ {c}
               /\ Queue("RST", c.host, c.guest)
               /\ wrongClose' = (wrongClose \/ c.who \notin {Nobody, m.who})
    /\ UNCHANGED <<pending, nextEph>>

PollHandles ==
    /\ polling /\ b2d # <<>>
    /\ LET m == Head(b2d) IN
          CASE m.kind = "Connect" -> HandleBridgeConnect(m)
            [] m.kind = "Data" -> HandleBridgeData(m)
            [] m.kind = "Closed" -> HandleBridgeClosed(m)
    /\ b2d' = Tail(b2d)
    /\ UNCHANGED <<active, polling, gin, d2b>>

(* process_rx_queue: the guest keeps enough buffers in a ready queue.      *)
PollEnds ==
    /\ polling /\ b2d = <<>>
    /\ polling' = FALSE
    /\ IF active THEN gin' = gin \o rxq /\ rxq' = <<>> ELSE UNCHANGED <<gin, rxq>>
    /\ UNCHANGED <<active, conns, pending, nextEph, wrongClose, d2b, b2d>>

-----------------------------------------------------------------------------
(* handle_tx_packet.  Each takes the ports of a packet from the guest.     *)

TxUnchanged == UNCHANGED <<active, polling, nextEph, wrongClose, b2d>>

HandleConnectRequest(host, guest) ==
    /\ IF Cardinality(conns) >= MaxConns
       THEN Queue("RST", host, guest) /\ UNCHANGED conns /\ NoTx
       ELSE /\ Tell("Connect", host, Nobody)
            /\ conns' = {c \in conns : ~(c.local = host /\ c.peer = guest)}
                          \cup {ListenConn(host, guest)}
            /\ Queue("RESPONSE", host, guest)
    /\ UNCHANGED pending
    /\ TxUnchanged

HandleConnectResponse(host, guest) ==
    /\ pending' = {p \in pending : p.local # guest}
    /\ IF \E p \in pending : p.local = guest /\ p.peer = host
       THEN /\ \E p \in pending : /\ p.local = guest
                                  /\ conns' = {c \in conns : ~(c.local = guest /\ c.peer = host)}
                                                \cup {ConnectConn(p)}
                                  /\ Tell("Connected", guest, p.who)
            /\ UNCHANGED rxq
       ELSE Queue("RST", host, guest) /\ UNCHANGED conns /\ NoTx
    /\ TxUnchanged

HandleRw(host, guest) ==
    /\ IF Between(host, guest) = {} THEN NoTx
       ELSE \E c \in Between(host, guest) : Tell("Data", c.local, c.who)
    /\ UNCHANGED <<conns, pending, rxq>>
    /\ TxUnchanged

(* A request for credit is answered on a connection.  The guest's own      *)
(* credit updates are stored in a field nobody reads, and are left out.    *)
HandleCreditRequest(host, guest) ==
    /\ IF Between(host, guest) = {} THEN UNCHANGED rxq
       ELSE \E c \in Between(host, guest) : Queue("CREDIT_UPDATE", c.host, c.guest)
    /\ UNCHANGED <<conns, pending>> /\ NoTx
    /\ TxUnchanged

HandleShutdown(host, guest) ==
    /\ IF Between(host, guest) = {} THEN UNCHANGED <<conns, rxq>> /\ NoTx
       ELSE \E c \in Between(host, guest) :
               /\ conns' = conns \ {c}
               /\ Tell("Shutdown", c.local, c.who)
               /\ Queue("RST", host, guest)
    /\ UNCHANGED pending
    /\ TxUnchanged

HandleRst(host, guest) ==
    /\ \/ /\ \E p \in pending : p.local = guest /\ p.peer = host /\ Tell("Shutdown", guest, p.who)
          /\ pending' = {p \in pending : p.local # guest}
          /\ UNCHANGED conns
       \/ /\ ~\E p \in pending : p.local = guest /\ p.peer = host
          /\ IF Between(host, guest) = {} THEN UNCHANGED conns /\ NoTx
             ELSE \E c \in Between(host, guest) :
                     conns' = conns \ {c} /\ Tell("Shutdown", c.local, c.who)
          /\ UNCHANGED pending
    /\ UNCHANGED rxq
    /\ TxUnchanged

-----------------------------------------------------------------------------
(* VIRTIO_MMIO_STATUS.                                                     *)

(* The orders in which a hash map may yield its entries.                   *)
InSomeOrder(S) ==
    {q \in [1..Cardinality(S) -> S] : \A i, j \in DOMAIN q : i # j => q[i] # q[j]}

(* Mutant: the pending requests are not sent when the driver comes up.     *)
ActivateOnly ==
    /\ ~polling /\ ~active
    /\ active' = TRUE
    /\ gin' = gin \o rxq /\ rxq' = <<>>
    /\ UNCHANGED <<polling, conns, pending, nextEph, wrongClose, d2b, b2d>>

(* DRIVER_OK: resend the pending requests, in some order, and fill the     *)
(* guest's buffers.                                                        *)
Activate ==
    /\ ~polling /\ ~active
    /\ active' = TRUE
    /\ \E reqs \in InSomeOrder({Packet("REQUEST", p.peer, p.local) : p \in pending}) :
              gin' = gin \o rxq \o reqs
    /\ rxq' = <<>>
    /\ UNCHANGED <<polling, conns, pending, nextEph, wrongClose, d2b, b2d>>

(* Reset forgets the connections without a word to the bridge; the pending *)
(* requests survive.  What the guest had in its buffers is gone with it.   *)
ResetDevice ==
    /\ ~polling /\ active
    /\ active' = FALSE
    /\ conns' = {} /\ rxq' = <<>> /\ gin' = <<>>
    /\ UNCHANGED <<polling, pending, nextEph, wrongClose, d2b, b2d>>
=============================================================================
