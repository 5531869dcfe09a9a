---------------------------- MODULE UserNatStack ----------------------------
(***************************************************************************)
(* crates/net/src/stack.rs and device.rs: the loop of the user-mode stack. *)
(* Each turn takes at most one frame from the guest, collects what the     *)
(* tasks have put into nat_rx, and hands the frame to the port forwarder,  *)
(* the DNS proxy, the policy and the NAT, or smoltcp.  Only a turn that    *)
(* reaches smoltcp sends what it collected and may end with a cleanup.     *)
(*                                                                         *)
(* The guest's TCP is external: it opens flows, acknowledges, sends units  *)
(* 0, 1, ... in order, sends again what was not acknowledged, and closes.  *)
(***************************************************************************)
EXTENDS PortForward

CONSTANTS
    MaxQueue,           \* bound: frames from the guest not yet taken
    Scenarios,          \* whether there is a port forwarder; bounds: frames
                        \* of TCP and other frames the guest sends
    MaxUnits            \* bound: units of data the guest writes to a flow

ASSUME StackAssumption ==
    /\ Scenarios \subseteq [forward : BOOLEAN, tcp : Nat, other : Nat]
    /\ MaxQueue \in Nat \ {0} /\ MaxUnits \in Nat

VARIABLES
    gin,                \* frames from the guest
    guest,              \* the guest's TCP: flow -> state, units sent and acked
    asked,              \* SYNs of the forwarder the guest has not answered
    left                \* the scenario: frames the guest may still send

guestVars == <<guest, asked, left>>
vars == <<natVars, fwdVars, gin, guestVars>>

Forwarding == left.forward

Init ==
    /\ NatInit /\ FwdInit
    /\ gin = <<>>
    /\ guest = [f \in Flows |-> [st |-> "closed", nxt |-> 0, una |-> 0]]
    /\ asked = {} /\ left \in Scenarios

-----------------------------------------------------------------------------
(* What the guest does with a frame of its flow f.                         *)
ForFlow(k, f) == k.kind \in {"RST", "SYN-ACK", "ACK", "DATA", "FIN"} /\ k.flow = f
GuestGets(g, k) ==
    CASE k.kind = "RST" -> [g EXCEPT !.st = "closed"]
      [] k.kind = "SYN-ACK" /\ g.st = "syn-sent" -> [g EXCEPT !.st = "open"]
      [] k.kind \in {"ACK", "DATA", "FIN"} /\ g.st = "open" /\ k.ack \in g.una .. g.nxt
            -> [g EXCEPT !.una = k.ack]
      [] OTHER -> g

Deliver(frames) ==
    /\ guest' = [f \in Flows |->
          LET after[i \in 0 .. Len(frames)] ==
                  IF i = 0 THEN guest[f]
                  ELSE IF ForFlow(frames[i], f) THEN GuestGets(after[i - 1], frames[i])
                  ELSE after[i - 1]
          IN after[Len(frames)]]
    /\ asked' = asked \cup {frames[i].client : i \in {j \in DOMAIN frames : frames[j].kind = "FSYN"}}
    /\ UNCHANGED left

External(p) == p.kind \in {"RST", "SYN", "FIN", "ACK", "DATA", "UDP", "ECHO"}
ToGateway(p) == p.kind \in {"FSYNACK", "FDATA", "FFIN", "DNS", "PING"}

(* A turn of the loop with a frame that is not for smoltcp: what it        *)
(* collected from nat_rx goes with it.                                     *)
Takes(p) ==
    /\ loop.at = "tick" /\ gin # <<>> /\ p = Head(gin)
    /\ gin' = Tail(gin)
    /\ nat_rx' = <<>>

TurnForward(p) ==
    /\ Takes(p) /\ Forwarding /\ ToGateway(p)
    /\ HandleGuestResponse(p)
    /\ UNCHANGED guestVars

TurnDns(p) ==
    /\ Takes(p) /\ p.kind = "DNS" /\ ~Forwarding
    /\ loop' = Resolving
    /\ UNCHANGED <<tcp, conn, made, bindings, receiving, rleft, fwdVars, guestVars>>

(* The policy may deny any packet; only a SYN gets an answer, at once.     *)
RstForDenied(p) == IF p.kind = "SYN" THEN <<RstFrame(p.flow)>> ELSE <<>>

TurnDenied(p) ==
    /\ Takes(p) /\ External(p)
    /\ Deliver(RstForDenied(p))
    /\ UNCHANGED <<tcp, conn, made, bindings, receiving, loop, rleft, fwdVars>>

TurnNat(p) ==
    /\ Takes(p) /\ External(p)
    /\ ProcessFrame(p)
    /\ UNCHANGED <<fwdVars, guestVars>>

(* A turn with a frame for smoltcp, or with none.                          *)
TurnLocal ==
    /\ loop.at = "tick"
    /\ \/ gin = <<>> /\ UNCHANGED gin
       \/ /\ gin # <<>> /\ ~External(Head(gin)) /\ ~(ToGateway(Head(gin)) /\ Forwarding)
          /\ Head(gin).kind # "DNS"
          /\ gin' = Tail(gin)
    /\ Deliver(nat_rx)
    /\ nat_rx' = <<>>
    /\ \E idle \in SUBSET (bindings \cup {f \in Flows : tcp[f] # 0}) : Cleanup(idle)
    /\ UNCHANGED <<made, loop, rleft, fwdVars>>

(* The proxy's answer, or its failure, ends the turn.                      *)
DnsDone ==
    /\ loop.at = "dns"
    /\ loop' = AtTick
    /\ UNCHANGED <<tcp, conn, made, bindings, receiving, nat_rx, rleft, fwdVars, gin, guestVars>>

-----------------------------------------------------------------------------
Sends(p) ==
    /\ Len(gin) < MaxQueue
    /\ gin' = Append(gin, p)
    /\ UNCHANGED <<natVars, fwdVars>>

SendsTcp(p) == Sends(p) /\ left.tcp > 0 /\ left' = [left EXCEPT !.tcp = @ - 1]
SendsOther(p) == Sends(p) /\ left.other > 0 /\ left' = [left EXCEPT !.other = @ - 1]

Segment(kind, f, seq) == [kind |-> kind, flow |-> f, seq |-> seq]

GuestOpens(f) ==
    /\ guest[f].st \in {"closed", "syn-sent"}
    /\ guest' = [guest EXCEPT ![f] = [st |-> "syn-sent", nxt |-> 0, una |-> 0]]
    /\ SendsTcp(Segment("SYN", f, 0)) /\ UNCHANGED asked

GuestAcks(f) ==
    /\ guest[f].st = "open"
    /\ SendsTcp(Segment("ACK", f, guest[f].nxt)) /\ UNCHANGED <<guest, asked>>

GuestWrites(f) ==
    /\ guest[f].st = "open" /\ guest[f].nxt < MaxUnits
    /\ guest' = [guest EXCEPT ![f].nxt = @ + 1]
    /\ SendsTcp(Segment("DATA", f, guest[f].nxt)) /\ UNCHANGED asked

GuestRetransmits(f) ==
    /\ guest[f].st = "open" /\ guest[f].una < guest[f].nxt
    /\ SendsTcp(Segment("DATA", f, guest[f].una)) /\ UNCHANGED <<guest, asked>>

GuestEnds(f) ==
    /\ guest[f].st = "open"
    /\ guest' = [guest EXCEPT ![f].st = "closed"]
    /\ \E kind \in {"FIN", "RST"} : SendsTcp(Segment(kind, f, guest[f].nxt))
    /\ UNCHANGED asked

GuestAnswers(c) ==
    /\ c \in asked
    /\ asked' = asked \ {c}
    /\ SendsOther([kind |-> "FSYNACK", vport |-> VPortOf[c]]) /\ UNCHANGED guest

GuestOther ==
    /\ \/ \E k \in UdpKeys : SendsOther([kind |-> "UDP", key |-> k])
       \/ \E k \in IcmpKeys : SendsOther([kind |-> "ECHO", key |-> k])
       \/ \E v \in VPorts, kind \in {"FDATA", "FFIN"} : SendsOther([kind |-> kind, vport |-> v])
       \/ \E kind \in {"DNS", "PING", "ARP"} : SendsOther([kind |-> kind])
    /\ UNCHANGED <<guest, asked>>

-----------------------------------------------------------------------------
StackOnly == UNCHANGED <<fwdVars, gin, guestVars>>

Turn ==
    \/ \E p \in {gin[i] : i \in {1} \cap DOMAIN gin} :
          TurnForward(p) \/ TurnDns(p) \/ TurnDenied(p) \/ TurnNat(p)
    \/ TurnLocal

(* The loop's own steps, and those of its awaits that others decide.       *)
LoopStep ==
    \/ Turn
    \/ (HandleTcpData \/ DataToDead \/ Reply) /\ StackOnly
    \/ DnsDone
ConnectStep == (ConnectSucceeds \/ ConnectFails) /\ StackOnly

TaskMoves ==
    /\ \/ \E n \in Ids : TaskStep(n)
       \/ \E k \in Keys : BindingReplies(k) \/ ReceiveFails(k)
    /\ StackOnly

GuestStep ==
    \/ \E f \in Flows : GuestOpens(f) \/ GuestAcks(f) \/ GuestWrites(f) \/ GuestRetransmits(f)
                            \/ GuestEnds(f)
    \/ \E c \in Clients : GuestAnswers(c)
    \/ GuestOther

ForwardStep == Forwarding /\ FwdNext /\ UNCHANGED <<gin, guestVars>>

Next == LoopStep \/ ConnectStep \/ TaskMoves \/ GuestStep \/ ForwardStep

Spec == Init /\ [][Next]_vars

(* The runtime polls every task; a connect succeeds or fails in the end,   *)
(* and the proxy answers or times out.                                     *)
FairSpec ==
    /\ Spec
    /\ WF_vars(LoopStep) /\ WF_vars(ConnectStep)
    /\ \A n \in Ids : WF_vars(TaskStep(n) /\ StackOnly)
    /\ \A c \in Clients : WF_vars(ListenerSendsSyn(c) /\ UNCHANGED <<gin, guestVars>>)

-----------------------------------------------------------------------------
(* nat.rs:36-38 "Each connection opens a host socket and spawns a          *)
(* forwarding task": a task that was not told to stop belongs to an entry  *)
(* of the table, or to the SYN the loop is answering.                      *)
TasksOwned ==
    \A n \in Ids : Running(n) /\ ~conn[n].aborted =>
        \/ tcp[conn[n].flow] = n
        \/ loop.at = "reply" /\ loop.then = "insert" /\ loop.frame.n = n

(* nat.rs:35-37 "Maximum TCP connections to prevent socket and task        *)
(* exhaustion": no more tasks than that run, but for those told to stop,   *)
(* although the table is looked at before the connect is awaited and the   *)
(* entry comes after the SYN-ACK.                                          *)
Live == {n \in Ids : Running(n) /\ ~conn[n].aborted}
TasksBounded == Cardinality(Live) <= MaxTcp

(* The frames of a connection in the channel, and its next number.         *)
SegmentsOf(n) == {i \in DOMAIN nat_rx : nat_rx[i].kind \in {"DATA", "FIN"} /\ nat_rx[i].n = n}
NextSeq(n) == IF conn[n].task = "store" THEN conn[n].our_seq + 1 ELSE conn[n].our_seq
Newest(n, k) == k.seq = IF k.kind = "FIN" THEN NextSeq(n) ELSE NextSeq(n) - 1

(* nat.rs:390-420: the data frames of a connection are in the channel in   *)
(* order and without a gap: each is followed by the one with the next      *)
(* number, or is the newest that was sent.  A FIN comes last.              *)
SegmentsContiguous ==
    \A n \in Ids : \A i \in SegmentsOf(n) :
        LET later == {j \in SegmentsOf(n) : i < j} IN
        /\ \A j \in later : nat_rx[i].kind # "FIN" /\ nat_rx[i].seq < nat_rx[j].seq
        /\ IF later = {} THEN Newest(n, nat_rx[i])
           ELSE \E j \in later : nat_rx[j].seq = nat_rx[i].seq + 1

(* nat.rs:482-505: while a connection lives, what the guest was told has   *)
(* been received is with the remote or queued for it, in order.            *)
AcceptedIsForwarded ==
    \A n \in Ids : Running(n) => conn[n].remote \o conn[n].data = conn[n].accepted

(* stack.rs:203 "It runs until an error occurs or the frame I/O is         *)
(* closed": whatever its handlers await, the loop comes back to its tick.  *)
LoopTurns == []<>(loop.at = "tick")
=============================================================================
