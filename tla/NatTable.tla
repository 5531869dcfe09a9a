------------------------------ MODULE NatTable ------------------------------
(***************************************************************************)
(* crates/net/src/nat.rs: the table of TCP connections, UDP bindings and   *)
(* ICMP bindings of a guest, the task behind each of them, and the channel *)
(* nat_rx by which they send frames to the guest.  The stack's loop runs   *)
(* the handlers; what an await of a handler waits for is in `loop`.        *)
(*                                                                         *)
(* Sequence numbers count segments from the initial one: the code only     *)
(* adds to them, with wrapping, and never compares two.  Time may pass     *)
(* between any two turns of the loop, so a cleanup may find any entries    *)
(* idle.  A connection has a number of its own, since a flow may be opened *)
(* again while the aborted task of its last connection finishes the poll   *)
(* it is in.                                                               *)
(***************************************************************************)
EXTENDS Integers, FiniteSets, Sequences

CONSTANTS
    Flows,          \* TcpKeys
    UdpKeys,        \* UdpKeys
    IcmpKeys,       \* IcmpKeys, of one guest
    MaxTcp,         \* MAX_TCP_CONNECTIONS
    MaxUdp,         \* MAX_UDP_BINDINGS
    MaxIcmp,        \* MAX_ICMP_BINDINGS_PER_GUEST
    TxCap,          \* capacity of nat_rx
    DataCap,        \* capacity of a connection's data channel
    MaxRead,        \* segments of one read from the remote
    NConn,          \* bound: connections made
    MaxRemote       \* bound: segments and datagrams remotes send

ASSUME NatAssumption ==
    /\ {MaxTcp, MaxUdp, MaxIcmp, TxCap, DataCap, MaxRead, NConn} \subseteq Nat \ {0}
    /\ MaxRemote \in Nat

Ids == 1 .. NConn
Keys == UdpKeys \cup IcmpKeys

VARIABLES
    tcp,        \* tcp_connections: flow -> number of its connection, 0: none
    conn,       \* the connections made: entry, task and socket
    made,       \* how many
    bindings,   \* udp_bindings and icmp_bindings
    receiving,  \* keys whose receive task runs
    nat_rx,     \* the channel to the guest
    loop,       \* what the loop awaits
    rleft       \* what remotes may still send

natVars == <<tcp, conn, made, bindings, receiving, nat_rx, loop, rleft>>

Unused == [flow |-> 0, state |-> "none", next |-> 0, our_seq |-> 1, guest_ack |-> 0, task |-> "none",
           aborted |-> FALSE, segs |-> 0, data |-> <<>>, accepted |-> <<>>, remote |-> <<>>]

(* craft_tcp_* : ack and seq count from the initial sequence numbers.      *)
TcpFrame(kind, f, n, seq, ack) == [kind |-> kind, flow |-> f, n |-> n, seq |-> seq, ack |-> ack]
RstFrame(f) == TcpFrame("RST", f, 0, 0, 0)
SynAckFrame(f, n) == TcpFrame("SYN-ACK", f, n, 0, 0)
AckFrame(f, n, ack) == TcpFrame("ACK", f, n, conn[n].our_seq, ack)
DataFrame(n) == TcpFrame("DATA", conn[n].flow, n, conn[n].our_seq, conn[n].guest_ack)
FinFrame(n) == TcpFrame("FIN", conn[n].flow, n, conn[n].our_seq, conn[n].guest_ack)
UdpFrame(k) == [kind |-> "UDP", key |-> k]
EchoFrame(k) == [kind |-> "ECHO", key |-> k]

(* The loop between two ticks, and at an await: of connect, of a send to   *)
(* the guest with what follows it, of a send to a task, of the DNS proxy.  *)
AtTick == [at |-> "tick"]
Connecting(f) == [at |-> "connect", flow |-> f]
Replying(frame, then) == [at |-> "reply", frame |-> frame, then |-> then]
Feeding(n, unit) == [at |-> "feed", n |-> n, unit |-> unit]
Resolving == [at |-> "dns"]

NatInit ==
    /\ tcp = [f \in Flows |-> 0] /\ made = 0
    /\ conn = [n \in Ids |-> Unused]
    /\ bindings = {} /\ receiving = {}
    /\ nat_rx = <<>> /\ loop = AtTick
    /\ rleft = MaxRemote

Room == Len(nat_rx) < TxCap
Running(n) == conn[n].task \in {"select", "send", "store", "fin"}

-----------------------------------------------------------------------------
(* The handlers, up to their first await.  Each leaves nat_rx to the loop, *)
(* which has emptied it before.                                            *)

RemoveTcp(f) ==
    /\ tcp' = [tcp EXCEPT ![f] = 0]
    /\ conn' = [conn EXCEPT ![tcp[f]].aborted = TRUE]

(* Mutant: the entry goes, its task stays.                                 *)
RstKeepsTask(f) ==
    /\ tcp' = [tcp EXCEPT ![f] = 0]
    /\ loop' = AtTick
    /\ UNCHANGED <<conn, made, bindings, receiving, rleft>>

HandleRst(f) ==
    /\ IF tcp[f] # 0 THEN RemoveTcp(f) ELSE UNCHANGED <<tcp, conn>>
    /\ loop' = AtTick
    /\ UNCHANGED <<made, bindings, receiving, rleft>>

TcpFull == Cardinality({f \in Flows : tcp[f] # 0}) >= MaxTcp

HandleTcpSyn(f) ==
    /\ loop' = IF tcp[f] # 0 THEN AtTick
               ELSE IF TcpFull THEN Replying(RstFrame(f), "none")
               ELSE Connecting(f)
    /\ UNCHANGED <<tcp, conn, made, bindings, receiving, rleft>>

HandleTcpFin(f, seq) ==
    LET n == tcp[f] IN
    /\ conn' = [conn EXCEPT ![n].state = "FinWait"]
    /\ loop' = Replying(AckFrame(f, n, seq + 1), "remove")
    /\ UNCHANGED <<tcp, made, bindings, receiving, rleft>>

(* An ACK, with or without data: the first one completes the handshake.    *)
HandleTcpAck(f, units) ==
    LET n == tcp[f] IN
    /\ conn' = [conn EXCEPT ![n].state = "Established"]
    /\ loop' = IF units = <<>> THEN AtTick ELSE Feeding(n, units[1])
    /\ UNCHANGED <<tcp, made, bindings, receiving, rleft>>

HandleTcp(p) ==
    \/ p.kind = "RST" /\ HandleRst(p.flow)
    \/ p.kind = "SYN" /\ HandleTcpSyn(p.flow)
    \/ /\ p.kind \in {"FIN", "ACK", "DATA"} /\ tcp[p.flow] # 0
       /\ IF p.kind = "FIN" THEN HandleTcpFin(p.flow, p.seq)
          ELSE HandleTcpAck(p.flow, IF p.kind = "DATA" THEN <<p.seq>> ELSE <<>>)
    \/ /\ p.kind \in {"FIN", "ACK", "DATA"} /\ tcp[p.flow] = 0
       /\ loop' = AtTick
       /\ UNCHANGED <<tcp, conn, made, bindings, receiving, rleft>>

(* Find or make a binding; a socket that cannot be made changes nothing.   *)
Bind(k, limit, ofKind) ==
    /\ \/ k \in bindings /\ UNCHANGED <<bindings, receiving>>
       \/ /\ k \notin bindings /\ Cardinality(bindings \cap ofKind) < limit
          /\ bindings' = bindings \cup {k} /\ receiving' = receiving \cup {k}
       \/ k \notin bindings /\ UNCHANGED <<bindings, receiving>>
    /\ loop' = AtTick
    /\ UNCHANGED <<tcp, conn, made, rleft>>

HandleUdp(k) == Bind(k, MaxUdp, UdpKeys)
HandleIcmp(k) == Bind(k, MaxIcmp, IcmpKeys)

ProcessFrame(p) ==
    \/ p.kind \in {"RST", "SYN", "FIN", "ACK", "DATA"} /\ HandleTcp(p)
    \/ p.kind = "UDP" /\ HandleUdp(p.key)
    \/ p.kind = "ECHO" /\ HandleIcmp(p.key)

-----------------------------------------------------------------------------
(* The handlers after an await.                                            *)

(* The task is spawned before the SYN-ACK is sent, the entry is inserted   *)
(* after it.                                                               *)
ConnectSucceeds ==
    /\ loop.at = "connect" /\ made < NConn
    /\ made' = made + 1
    /\ conn' = [conn EXCEPT ![made + 1] = [Unused EXCEPT !.flow = loop.flow, !.task = "select"]]
    /\ loop' = Replying(SynAckFrame(loop.flow, made + 1), "insert")
    /\ UNCHANGED <<tcp, bindings, receiving, nat_rx, rleft>>

ConnectFails ==
    /\ loop.at = "connect"
    /\ loop' = Replying(RstFrame(loop.flow), "none")
    /\ UNCHANGED <<tcp, conn, made, bindings, receiving, nat_rx, rleft>>

(* Mutant: a full channel loses the data, which is acknowledged.           *)
FeedsOrDrops ==
    /\ loop.at = "feed" /\ Running(loop.n)
    /\ LET n == loop.n IN
       /\ conn' = [conn EXCEPT ![n].data = IF Len(@) < DataCap THEN Append(@, loop.unit) ELSE @,
                               ![n].accepted = Append(@, loop.unit), ![n].next = @ + 1]
       /\ loop' = Replying(AckFrame(conn[n].flow, n, conn[n].next + 1), "none")
    /\ UNCHANGED <<tcp, made, bindings, receiving, nat_rx, rleft>>

HandleTcpData ==
    /\ loop.at = "feed" /\ Running(loop.n) /\ Len(conn[loop.n].data) < DataCap
    /\ LET n == loop.n IN
       /\ conn' = [conn EXCEPT ![n].data = Append(@, loop.unit), ![n].next = @ + 1,
                               ![n].accepted = Append(@, loop.unit)]
       /\ loop' = Replying(AckFrame(conn[n].flow, n, conn[n].next + 1), "none")
    /\ UNCHANGED <<tcp, made, bindings, receiving, nat_rx, rleft>>

(* The task has ended and its receiver is gone.                            *)
DataToDead ==
    /\ loop.at = "feed" /\ ~Running(loop.n)
    /\ RemoveTcp(conn[loop.n].flow)
    /\ loop' = AtTick
    /\ UNCHANGED <<made, bindings, receiving, nat_rx, rleft>>

(* A send to the guest, once the channel has room.                         *)
Reply ==
    /\ loop.at = "reply" /\ Room
    /\ nat_rx' = Append(nat_rx, loop.frame)
    /\ loop' = AtTick
    /\ \/ loop.then \notin {"insert", "remove"} /\ UNCHANGED <<tcp, conn>>
       \/ /\ loop.then = "insert"
          /\ tcp' = [tcp EXCEPT ![loop.frame.flow] = loop.frame.n]
          /\ conn' = [conn EXCEPT ![loop.frame.n].state = "SynReceived"]
       \/ loop.then = "remove" /\ RemoveTcp(loop.frame.flow)
    /\ UNCHANGED <<made, bindings, receiving, rleft>>

-----------------------------------------------------------------------------
(* The task of a connection.  An aborted one ends at an await.             *)

OnlyConn == UNCHANGED <<tcp, made, bindings, receiving, loop>>

(* write_all of what the guest sent.                                       *)
TaskWrites(n) ==
    /\ conn[n].task = "select" /\ conn[n].data # <<>>
    /\ conn' = [conn EXCEPT ![n].data = Tail(@), ![n].remote = Append(@, Head(conn[n].data)),
                            ![n].guest_ack = @ + 1]
    /\ UNCHANGED <<nat_rx, rleft>> /\ OnlyConn

TaskReads(n) ==
    /\ conn[n].task = "select"
    /\ \E k \in 1 .. MaxRead :
          /\ k <= rleft
          /\ conn' = [conn EXCEPT ![n].task = "send", ![n].segs = k]
          /\ rleft' = rleft - k
    /\ UNCHANGED nat_rx /\ OnlyConn

(* Mutant: the sequence number is stored once, after the last segment.     *)
TaskStoresOnce(n) ==
    /\ conn[n].task = "store"
    /\ conn' = [conn EXCEPT ![n].segs = @ - 1, ![n].our_seq = IF conn[n].segs = 1 THEN @ + 1 ELSE @,
                            ![n].task = IF conn[n].segs = 1 THEN "select" ELSE "send"]
    /\ UNCHANGED <<nat_rx, rleft>> /\ OnlyConn

TaskSends(n) ==
    /\ conn[n].task = "send" /\ Room
    /\ nat_rx' = Append(nat_rx, DataFrame(n))
    /\ conn' = [conn EXCEPT ![n].task = "store"]
    /\ UNCHANGED rleft /\ OnlyConn

TaskStores(n) ==
    /\ conn[n].task = "store"
    /\ conn' = [conn EXCEPT ![n].segs = @ - 1, ![n].our_seq = @ + 1,
                            ![n].task = IF conn[n].segs = 1 THEN "select" ELSE "send"]
    /\ UNCHANGED <<nat_rx, rleft>> /\ OnlyConn

TaskSegment(n) == TaskSends(n) \/ TaskStores(n)

(* The data channel ends with its task.                                    *)
Over(c) == [c EXCEPT !.task = "ended", !.data = <<>>, !.segs = 0, !.accepted = <<>>, !.remote = <<>>]

(* End of file from the remote: a FIN to the guest, then the task ends.    *)
TaskSeesEof(n) ==
    /\ conn[n].task = "select"
    /\ conn' = [conn EXCEPT ![n].task = "fin"]
    /\ UNCHANGED <<nat_rx, rleft>> /\ OnlyConn
TaskSendsFin(n) ==
    /\ conn[n].task = "fin" /\ Room
    /\ nat_rx' = Append(nat_rx, FinFrame(n))
    /\ conn' = [conn EXCEPT ![n] = Over(@)]
    /\ UNCHANGED rleft /\ OnlyConn

(* A read or write fails, or the task was aborted and is at an await.      *)
TaskFails(n) ==
    /\ conn[n].task = "select" \/ (conn[n].task \in {"send", "fin"} /\ conn[n].aborted)
    /\ conn' = [conn EXCEPT ![n] = Over(@)]
    /\ UNCHANGED <<nat_rx, rleft>> /\ OnlyConn

TaskStep(n) ==
    \/ TaskWrites(n) \/ TaskReads(n) \/ TaskSegment(n)
    \/ TaskSeesEof(n) \/ TaskSendsFin(n) \/ TaskFails(n)

(* The receive task of a binding gets a datagram or an echo reply, or its  *)
(* socket fails.                                                           *)
BindingReplies(k) ==
    /\ k \in receiving /\ rleft > 0 /\ Room
    /\ nat_rx' = Append(nat_rx, IF k \in UdpKeys THEN UdpFrame(k) ELSE EchoFrame(k))
    /\ rleft' = rleft - 1
    /\ UNCHANGED <<tcp, conn, made, bindings, receiving, loop>>
ReceiveFails(k) ==
    /\ k \in receiving
    /\ receiving' = receiving \ {k}
    /\ UNCHANGED <<tcp, conn, made, bindings, nat_rx, loop, rleft>>

(* cleanup, with the flows and keys idle for longer than their timeout.    *)
Cleanup(idle) ==
    /\ bindings' = bindings \ idle
    /\ receiving' = receiving \ idle
    /\ tcp' = [f \in Flows |-> IF f \in idle THEN 0 ELSE tcp[f]]
    /\ conn' = [n \in Ids |-> IF conn[n].flow \in idle /\ tcp[conn[n].flow] = n
                              THEN [conn[n] EXCEPT !.aborted = TRUE] ELSE conn[n]]
=============================================================================
