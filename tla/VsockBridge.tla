----------------------------- MODULE VsockBridge -----------------------------
(***************************************************************************)
(* crates/linux/kvm/src/vsock_bridge.rs: bridges vsock ports to Unix       *)
(* sockets.  One task per port accepts host streams, one task per bridged  *)
(* stream reads it, the main loop handles the device's messages.  All its  *)
(* tables are keyed by the port alone.                                     *)
(*                                                                         *)
(* A step is what runs under one lock, or one message of the main loop.    *)
(* Dropping the WriteHalf in connections leaves the stream open as long as *)
(* its reader task has the ReadHalf.                                       *)
(***************************************************************************)
EXTENDS VsockDevice

CONSTANTS
    ListenPorts,    \* ports of VsockBridge.listen_ports
    ConnectPorts,   \* ports of VsockBridge.connect_ports
    Hosts,          \* streams host applications open, each once
    PortOf          \* the port whose socket each stream connects to

Ports == ListenPorts \cup ConnectPorts

ASSUME PortsAssumption ==
    /\ ListenPorts \cap ConnectPorts = {}
    /\ PortOf \in [Hosts -> Ports]
    /\ Nobody \notin Hosts

VARIABLES
    connections,            \* port -> stream whose WriteHalf it holds
    pending_hosts,          \* port -> stream waiting for a guest
    pending_guests,         \* ports on which a guest waits for a stream
    pending_connect_hosts,  \* port -> stream waiting for the guest to accept
    checked,                \* accepted streams past the check of connections
    late,                   \* streams one step behind their table: paired and
                            \* not yet in connections, or pending and not yet
                            \* announced to the device
    readers,                \* read_from_host: none, reading, eof
    hst,                    \* a stream: absent, off, dialing (in the backlog),
                            \* accepted
    hclosed,                \* streams their host application has closed
    hbuf, hleft,            \* chunks in the socket; chunks still to be written
    unclaimed,              \* ghost: ports where the guest accepted a stream that
                            \* was not the one waiting
    discarded               \* ghost: ports where a Shutdown took away the stream
                            \* of a later connect

bridgeVars == <<connections, pending_hosts, pending_guests, pending_connect_hosts, checked, late,
                readers, unclaimed, discarded>>
hostVars == <<hst, hclosed, hbuf, hleft>>

(* Only the streams in dialling are ever opened, and each writes that many *)
(* chunks at most.                                                         *)
BridgeInit(dialling, writes) ==
    /\ connections = [p \in Ports |-> Nobody]
    /\ pending_hosts = [p \in ListenPorts |-> Nobody]
    /\ pending_guests = {}
    /\ pending_connect_hosts = [p \in ConnectPorts |-> Nobody]
    /\ checked = [p \in Ports |-> Nobody] /\ late = [p \in Ports |-> Nobody]
    /\ readers = [h \in Hosts |-> "none"]
    /\ hst = [h \in Hosts |-> IF h \in dialling THEN "off" ELSE "absent"] /\ hclosed = {}
    /\ hbuf = [h \in Hosts |-> 0] /\ hleft = [h \in Hosts |-> writes]
    /\ unclaimed = {} /\ discarded = {}

Announce(kind, h) == b2d' = Append(b2d, Msg(kind, PortOf[h], h))

-----------------------------------------------------------------------------
(* The host applications.                                                  *)

HostDials(h) ==
    /\ hst[h] = "off"
    /\ hst' = [hst EXCEPT ![h] = "dialing"]
    /\ UNCHANGED <<hclosed, hbuf, hleft, bridgeVars, b2d, d2b>>

HostWrites(h) ==
    /\ hst[h] \in {"dialing", "accepted"} /\ h \notin hclosed /\ hleft[h] > 0
    /\ hbuf' = [hbuf EXCEPT ![h] = @ + 1]
    /\ hleft' = [hleft EXCEPT ![h] = @ - 1]
    /\ UNCHANGED <<hst, hclosed, bridgeVars, b2d, d2b>>

HostCloses(h) ==
    /\ hst[h] \in {"dialing", "accepted"} /\ h \notin hclosed
    /\ hclosed' = hclosed \cup {h}
    /\ UNCHANGED <<hst, hbuf, hleft, bridgeVars, b2d, d2b>>

-----------------------------------------------------------------------------
(* run_listen_port and run_connect_port.                                   *)

(* Accept, and drop the stream if the port has a connection.               *)
Accept(h) ==
    LET p == PortOf[h] IN
    /\ hst[h] = "dialing" /\ checked[p] = Nobody /\ late[p] = Nobody
    /\ hst' = [hst EXCEPT ![h] = "accepted"]
    /\ checked' = IF connections[p] = Nobody THEN [checked EXCEPT ![p] = h] ELSE checked
    /\ UNCHANGED <<hclosed, hbuf, hleft, connections, pending_hosts, pending_guests,
                   pending_connect_hosts, late, readers, unclaimed, discarded, b2d, d2b>>

(* Mutant: a host waits although a guest does.                             *)
WaitUnpaired(p) ==
    /\ p \in ListenPorts /\ checked[p] # Nobody
    /\ checked' = [checked EXCEPT ![p] = Nobody]
    /\ IF pending_hosts[p] # Nobody THEN UNCHANGED pending_hosts
       ELSE pending_hosts' = [pending_hosts EXCEPT ![p] = checked[p]]
    /\ UNCHANGED <<connections, pending_guests, pending_connect_hosts, late, readers, unclaimed,
                   discarded, hostVars, b2d, d2b>>

(* Under pending_hosts and pending_guests: drop, pair or wait.             *)
PairOrWait(p) ==
    LET h == checked[p] IN
    /\ p \in ListenPorts /\ h # Nobody
    /\ checked' = [checked EXCEPT ![p] = Nobody]
    /\ \/ /\ pending_hosts[p] # Nobody
          /\ UNCHANGED <<pending_hosts, pending_guests, late>>
       \/ /\ pending_hosts[p] = Nobody /\ p \in pending_guests
          /\ pending_guests' = pending_guests \ {p}
          /\ late' = [late EXCEPT ![p] = h]
          /\ UNCHANGED pending_hosts
       \/ /\ pending_hosts[p] = Nobody /\ p \notin pending_guests
          /\ pending_hosts' = [pending_hosts EXCEPT ![p] = h]
          /\ UNCHANGED <<pending_guests, late>>
    /\ UNCHANGED <<connections, pending_connect_hosts, readers, unclaimed, discarded, hostVars,
                   b2d, d2b>>

Bridge(h) ==
    /\ connections' = [connections EXCEPT ![PortOf[h]] = h]
    /\ readers' = [readers EXCEPT ![h] = "reading"]

InsertPaired(p) ==
    /\ p \in ListenPorts /\ late[p] # Nobody
    /\ Bridge(late[p])
    /\ late' = [late EXCEPT ![p] = Nobody]
    /\ UNCHANGED <<pending_hosts, pending_guests, pending_connect_hosts, checked, unclaimed,
                   discarded, hostVars, b2d, d2b>>

(* Mutant: the request is sent for a stream that was not stored.           *)
PendNothing(p) ==
    /\ p \in ConnectPorts /\ checked[p] # Nobody
    /\ checked' = [checked EXCEPT ![p] = Nobody]
    /\ late' = [late EXCEPT ![p] = checked[p]]
    /\ UNCHANGED <<connections, pending_hosts, pending_guests, pending_connect_hosts, readers,
                   unclaimed, discarded, hostVars, b2d, d2b>>

(* Under pending_connect_hosts: drop or wait; then tell the device.        *)
PendConnect(p) ==
    LET h == checked[p] IN
    /\ p \in ConnectPorts /\ h # Nobody
    /\ checked' = [checked EXCEPT ![p] = Nobody]
    /\ IF pending_connect_hosts[p] # Nobody
       THEN UNCHANGED <<pending_connect_hosts, late>>
       ELSE /\ pending_connect_hosts' = [pending_connect_hosts EXCEPT ![p] = h]
            /\ late' = [late EXCEPT ![p] = h]
    /\ UNCHANGED <<connections, pending_hosts, pending_guests, readers, unclaimed, discarded,
                   hostVars, b2d, d2b>>

SendConnect(p) ==
    /\ p \in ConnectPorts /\ late[p] # Nobody
    /\ Announce("Connect", late[p])
    /\ late' = [late EXCEPT ![p] = Nobody]
    /\ UNCHANGED <<connections, pending_hosts, pending_guests, pending_connect_hosts, checked,
                   readers, unclaimed, discarded, hostVars, d2b>>

-----------------------------------------------------------------------------
(* read_from_host.                                                         *)

ReaderForwards(h) ==
    /\ readers[h] = "reading" /\ hbuf[h] > 0
    /\ hbuf' = [hbuf EXCEPT ![h] = @ - 1]
    /\ Announce("Data", h)
    /\ UNCHANGED <<hst, hclosed, hleft, bridgeVars, d2b>>

(* Mutant: the device is not told.                                         *)
ReaderJustEnds(h) ==
    /\ readers[h] = "reading" /\ hbuf[h] = 0 /\ h \in hclosed
    /\ connections' = [connections EXCEPT ![PortOf[h]] = Nobody]
    /\ readers' = [readers EXCEPT ![h] = "none"]
    /\ UNCHANGED <<pending_hosts, pending_guests, pending_connect_hosts, checked, late, unclaimed,
                   discarded, hostVars, b2d, d2b>>

(* EOF: remove whatever the port's entry is, then tell the device.         *)
ReaderSeesEof(h) ==
    /\ readers[h] = "reading" /\ hbuf[h] = 0 /\ h \in hclosed
    /\ connections' = [connections EXCEPT ![PortOf[h]] = Nobody]
    /\ readers' = [readers EXCEPT ![h] = "eof"]
    /\ UNCHANGED <<pending_hosts, pending_guests, pending_connect_hosts, checked, late, unclaimed,
                   discarded, hostVars, b2d, d2b>>

ReaderSendsClosed(h) ==
    /\ readers[h] = "eof"
    /\ Announce("Closed", h)
    /\ readers' = [readers EXCEPT ![h] = "none"]
    /\ UNCHANGED <<connections, pending_hosts, pending_guests, pending_connect_hosts, checked,
                   late, unclaimed, discarded, hostVars, d2b>>

-----------------------------------------------------------------------------
(* The main loop of run().                                                 *)

OnConnect(m) ==
    /\ IF m.port \in ListenPorts /\ pending_hosts[m.port] # Nobody
       THEN /\ Bridge(pending_hosts[m.port])
            /\ pending_hosts' = [pending_hosts EXCEPT ![m.port] = Nobody]
            /\ UNCHANGED pending_guests
       ELSE /\ pending_guests' = pending_guests \cup {m.port}
            /\ UNCHANGED <<connections, readers, pending_hosts>>
    /\ UNCHANGED <<pending_connect_hosts, unclaimed, discarded, b2d>>

OnConnected(m) ==
    /\ IF pending_connect_hosts[m.port] # Nobody
       THEN /\ Bridge(pending_connect_hosts[m.port])
            /\ pending_connect_hosts' = [pending_connect_hosts EXCEPT ![m.port] = Nobody]
       ELSE UNCHANGED <<connections, readers, pending_connect_hosts>>
    /\ unclaimed' = IF pending_connect_hosts[m.port] = m.who THEN unclaimed
                    ELSE unclaimed \cup {m.port}
    /\ UNCHANGED <<pending_hosts, pending_guests, discarded, b2d>>

(* write_all succeeds or, once the host has closed, may fail.              *)
OnData(m) ==
    LET h == connections[m.port] IN
    /\ \/ UNCHANGED <<connections, b2d>>
       \/ /\ h \in hclosed
          /\ connections' = [connections EXCEPT ![m.port] = Nobody]
          /\ Announce("Closed", h)
    /\ UNCHANGED <<readers, pending_hosts, pending_guests, pending_connect_hosts, unclaimed,
                   discarded>>

OnShutdown(m) ==
    /\ connections' = [connections EXCEPT ![m.port] = Nobody]
    /\ pending_connect_hosts' =
          [p \in ConnectPorts |-> IF p = m.port THEN Nobody ELSE pending_connect_hosts[p]]
    /\ discarded' = IF /\ m.port \in ConnectPorts
                       /\ pending_connect_hosts[m.port] \notin {Nobody, m.who}
                    THEN discarded \cup {m.port} ELSE discarded
    /\ UNCHANGED <<readers, pending_hosts, pending_guests, unclaimed, b2d>>

BridgeHandles ==
    /\ d2b # <<>>
    /\ LET m == Head(d2b) IN
          CASE m.kind = "Connect" -> OnConnect(m)
            [] m.kind = "Connected" -> OnConnected(m)
            [] m.kind = "Data" -> OnData(m)
            [] m.kind = "Shutdown" -> OnShutdown(m)
    /\ d2b' = Tail(d2b)
    /\ UNCHANGED <<checked, late, hostVars>>

PortStep(p) == PairOrWait(p) \/ InsertPaired(p) \/ PendConnect(p) \/ SendConnect(p)
ReaderStep(h) == ReaderForwards(h) \/ ReaderSeesEof(h) \/ ReaderSendsClosed(h)
=============================================================================
