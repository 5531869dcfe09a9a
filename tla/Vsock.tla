-------------------------------- MODULE Vsock --------------------------------
(***************************************************************************)
(* The vsock path end to end: guest driver, virtio-vsock device, bridge    *)
(* and host applications (vm.rs:420-463 wires the middle two).  The guest  *)
(* driver is external: it connects from an ephemeral port to a listen      *)
(* port, accepts or refuses what the host requests, sends, shuts down and  *)
(* may reset the device.                                                   *)
(***************************************************************************)
EXTENDS VsockBridge

CONSTANTS
    GuestPorts,     \* ephemeral ports of the guest, each used once
    Scenarios       \* bounds: which streams and guest ports are used, packets
                    \* sent, chunks written per stream, device resets

ASSUME ScenariosAssumption ==
    \A s \in Scenarios : /\ s.hosts \subseteq Hosts /\ s.guests \subseteq GuestPorts
                         /\ {s.sends, s.writes, s.resets} \subseteq Nat

VARIABLES
    gconns,     \* the guest's connections: [host, guest, st]
    gfree,      \* ephemeral ports still free
    gused,      \* ephemeral ports used so far
    gleft,      \* sends left
    resets      \* resets left

guestVars == <<gconns, gfree, gused, gleft, resets>>
vars == <<devVars, d2b, b2d, bridgeVars, hostVars, guestVars>>

Init ==
    /\ DevInit /\ d2b = <<>> /\ b2d = <<>>
    /\ \E s \in Scenarios :
          /\ BridgeInit(s.hosts, s.writes)
          /\ gconns = {} /\ gfree = s.guests /\ gused = {}
          /\ gleft = s.sends /\ resets = s.resets

(* A TX notification: the vCPU thread needs the device's mutex.            *)
MayNotify == active /\ ~polling

GConn(host, guest, st) == [host |-> host, guest |-> guest, st |-> st]

-----------------------------------------------------------------------------
GuestConnects(g, p) ==
    /\ MayNotify /\ g \in gfree
    /\ gfree' = gfree \ {g} /\ gused' = gused \cup {g}
    /\ gconns' = gconns \cup {GConn(p, g, "requested")}
    /\ HandleConnectRequest(p, g)
    /\ UNCHANGED <<gleft, resets, gin, bridgeVars, hostVars>>

(* The guest takes the next packet from its RX buffers.                    *)
GuestReceives ==
    /\ active /\ gin # <<>>
    /\ LET k == Head(gin)
           of == {c \in gconns : c.host = k.host /\ c.guest = k.guest}
       IN gconns' =
          CASE k.op = "RESPONSE" ->
                   {IF c \in of THEN [c EXCEPT !.st = "open"] ELSE c : c \in gconns}
            [] k.op = "RST" -> gconns \ of
            [] k.op = "REQUEST" -> gconns \cup {GConn(k.host, k.guest, "asked")}
            [] k.op \in {"RW", "CREDIT_UPDATE"} -> gconns
    /\ gin' = Tail(gin)
    /\ UNCHANGED <<active, polling, conns, pending, nextEph, rxq, wrongClose, d2b, b2d, gfree,
                   gused, gleft, resets, bridgeVars, hostVars>>

GuestAccepts(c) ==
    /\ MayNotify /\ c.st = "asked"
    /\ gconns' = (gconns \ {c}) \cup {[c EXCEPT !.st = "open"]}
    /\ HandleConnectResponse(c.host, c.guest)
    /\ UNCHANGED <<gfree, gused, gleft, resets, gin, bridgeVars, hostVars>>

GuestRefuses(c) ==
    /\ MayNotify /\ c.st = "asked"
    /\ gconns' = gconns \ {c}
    /\ HandleRst(c.host, c.guest)
    /\ UNCHANGED <<gfree, gused, gleft, resets, gin, bridgeVars, hostVars>>

(* Data, or a request for credit.                                          *)
GuestSends(c) ==
    /\ MayNotify /\ c.st = "open" /\ gleft > 0
    /\ gleft' = gleft - 1
    /\ HandleRw(c.host, c.guest) \/ HandleCreditRequest(c.host, c.guest)
    /\ UNCHANGED <<gconns, gfree, gused, resets, gin, bridgeVars, hostVars>>

(* Shutdown in an orderly way, or reset the connection.                    *)
GuestShutsDown(c) ==
    /\ MayNotify /\ c.st = "open"
    /\ gconns' = gconns \ {c}
    /\ HandleShutdown(c.host, c.guest) \/ HandleRst(c.host, c.guest)
    /\ UNCHANGED <<gfree, gused, gleft, resets, gin, bridgeVars, hostVars>>

GuestActivates ==
    /\ Activate
    /\ UNCHANGED <<guestVars, bridgeVars, hostVars>>

GuestResets ==
    /\ resets > 0
    /\ resets' = resets - 1
    /\ gconns' = {}
    /\ ResetDevice
    /\ UNCHANGED <<gfree, gused, gleft, bridgeVars, hostVars>>

-----------------------------------------------------------------------------
DeviceStep ==
    /\ PollBegins \/ PollHandles \/ PollEnds
    /\ UNCHANGED <<bridgeVars, hostVars, guestVars>>

BridgeStep ==
    /\ \/ BridgeHandles
       \/ \E p \in Ports : PortStep(p)
       \/ \E h \in Hosts : Accept(h) \/ ReaderStep(h)
    /\ UNCHANGED <<devVars, guestVars>>

HostStep ==
    /\ \E h \in Hosts : HostDials(h) \/ HostWrites(h) \/ HostCloses(h)
    /\ UNCHANGED <<devVars, guestVars>>

GuestStep ==
    \/ \E g \in GuestPorts, p \in ListenPorts : GuestConnects(g, p)
    \/ GuestReceives
    \/ \E c \in gconns : GuestAccepts(c) \/ GuestRefuses(c) \/ GuestSends(c) \/ GuestShutsDown(c)
    \/ GuestActivates
    \/ GuestResets

Next == DeviceStep \/ BridgeStep \/ HostStep \/ GuestStep

Spec == Init /\ [][Next]_vars

Progress ==
    \/ DeviceStep
    \/ BridgeStep
    \/ GuestActivates
    \/ GuestReceives
    \/ \E c \in gconns : GuestAccepts(c) \/ GuestRefuses(c)

(* The poll task ticks, every bridge task is polled, and the guest's       *)
(* driver comes up, reads its buffers and answers requests.  Nobody sends  *)
(* without end, so that it is enough for progress as a whole to be fair.   *)
FairSpec == Spec /\ WF_vars(Progress)

-----------------------------------------------------------------------------
Streams == Hosts \cup {Nobody}

(* vsock_bridge.rs:126-143,217-239: a stream and a guest never both wait   *)
(* for the other on one port, whichever arrives first.                     *)
NoMutualWait == \A p \in ListenPorts : ~(pending_hosts[p] # Nobody /\ p \in pending_guests)

(* The tables a stream is in.                                              *)
TablesOf(h) ==
    LET p == PortOf[h] IN
    {t \in {"connections", "pending_hosts", "pending_connect_hosts", "checked"} :
        \/ t = "connections" /\ connections[p] = h
        \/ t = "pending_hosts" /\ p \in ListenPorts /\ pending_hosts[p] = h
        \/ t = "pending_connect_hosts" /\ p \in ConnectPorts /\ pending_connect_hosts[p] = h
        \/ t = "checked" /\ checked[p] = h}

(* vsock_bridge.rs:310 "EOF - host disconnected": the connection that ends *)
(* when a stream does is that stream's.                                    *)
OwnHostCloses == ~wrongClose

(* vsock_bridge.rs:150 "Guest accepted our connection": when the guest     *)
(* accepts, the stream on whose behalf it was asked is the one that waits. *)
(* Except on a port where a Shutdown of an earlier connection, or of an    *)
(* earlier request, has removed the stream of a later one (:176-180).      *)
AcceptedHasStream == unclaimed \subseteq discarded

(* vsock_bridge.rs:250-291, virtio/vsock.rs:283-327: in connect mode a     *)
(* stream is bridged or dropped in the end, also when it comes before the  *)
(* guest's driver: its request is not lost between the two queues.         *)
Bridged(h) == readers[h] # "none"
ConnectCompletes ==
    \A h \in {x \in Hosts : PortOf[x] \in ConnectPorts} : hst[h] = "dialing"
        ~> Bridged(h) \/ (hst[h] = "accepted" /\ TablesOf(h) = {})

(* vsock_bridge.rs:309-313, virtio/vsock.rs:360-384: when the host closes  *)
(* a bridged stream the connection it is bridged to ends.  Except when the *)
(* guest has made a second one on the port, which may stay behind without  *)
(* a stream, or when the wrong one was ended: tables are keyed by port.    *)
HostCloseReachesGuest ==
    \A h \in Hosts :
        h \in hclosed /\ Bridged(h)
            ~> \/ {c \in OnPort(PortOf[h]) : c.who \in {Nobody, h}} = {}
               \/ Cardinality(gused) > 1 \/ wrongClose
=============================================================================
