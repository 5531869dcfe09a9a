-------------------------------- MODULE Dhcp --------------------------------
(***************************************************************************)
(* crates/net/src/dhcp.rs: the DHCP server that both network stacks run    *)
(* (process_dhcp in stack.rs and cluster_stack.rs), with the guests it     *)
(* serves.  An address is a number; a lease lasts until the client gives   *)
(* it back; next_ip only grows.                                            *)
(*                                                                         *)
(* The guests' DHCP clients are external: they discover, request, renew,   *)
(* release, reboot without a word, repeat what they sent, and ignore       *)
(* answers to another transaction.  Frames keep their order (a virtqueue   *)
(* and a socketpair) but may be lost, and the server's socket buffers      *)
(* four.                                                                   *)
(***************************************************************************)
EXTENDS Integers, Sequences, FiniteSets

CONSTANTS
    Macs,               \* client_mac of the guests
    First, Last,        \* dhcp_range_start, dhcp_range_end
    MaxXid,             \* bound: transactions a client starts
    MaxQueue,           \* packets a DHCP socket buffers in each direction
    MaxLoss             \* bound: messages lost

NoIp == 0

ASSUME RangeAssumption == First \in Nat \ {0} /\ Last \in Nat
ASSUME BoundsAssumption == MaxXid \in Nat /\ MaxQueue \in Nat /\ MaxLoss \in Nat

VARIABLES
    leases,     \* DhcpServer.leases
    next_ip,    \* DhcpServer.next_ip
    toServer,   \* frames from the guests
    toClient,   \* frames to each guest
    cst,        \* client: init, selecting, requesting, bound
    cip,        \* client: the address offered or bound
    cxid,       \* client: its current transaction
    losses      \* messages lost so far

serverVars == <<leases, next_ip>>
clientVars == <<cst, cip, cxid>>
vars == <<serverVars, toServer, toClient, clientVars, losses>>

Ips == First .. Last
Message(type, mac, xid, ip) == [type |-> type, mac |-> mac, xid |-> xid, ip |-> ip]
Reply(type, xid, ip) == [type |-> type, xid |-> xid, ip |-> ip]

Init ==
    /\ leases = [m \in Macs |-> NoIp]
    /\ next_ip = First
    /\ toServer = <<>>
    /\ toClient = [m \in Macs |-> <<>>]
    /\ cst = [m \in Macs |-> "init"]
    /\ cip = [m \in Macs |-> NoIp]
    /\ cxid = [m \in Macs |-> 0]
    /\ losses = 0

-----------------------------------------------------------------------------
(* The server: handle_packet.                                              *)

(* A packet that finds a socket's buffer full is dropped.                  *)
Enqueue(q, k) == IF Len(q) < MaxQueue THEN Append(q, k) ELSE q

Answer(m, reply) == toClient' = [toClient EXCEPT ![m] = Enqueue(@, reply)]

(* Mutant: an offer only with a new lease.                                 *)
DiscoverOffersOnce(k) ==
    IF leases[k.mac] = NoIp /\ next_ip <= Last
    THEN /\ leases' = [leases EXCEPT ![k.mac] = next_ip]
         /\ next_ip' = next_ip + 1
         /\ Answer(k.mac, Reply("Offer", k.xid, next_ip))
    ELSE UNCHANGED <<serverVars, toClient>>

(* get_or_allocate_ip; an exhausted range gives no answer.                 *)
HandleDiscover(k) ==
    \/ /\ leases[k.mac] # NoIp
       /\ Answer(k.mac, Reply("Offer", k.xid, leases[k.mac]))
       /\ UNCHANGED serverVars
    \/ /\ leases[k.mac] = NoIp /\ next_ip <= Last
       /\ leases' = [leases EXCEPT ![k.mac] = next_ip]
       /\ next_ip' = next_ip + 1
       /\ Answer(k.mac, Reply("Offer", k.xid, next_ip))
    \/ /\ leases[k.mac] = NoIp /\ next_ip > Last
       /\ UNCHANGED <<serverVars, toClient>>

HandleRequest(k) ==
    /\ IF leases[k.mac] # NoIp /\ k.ip \in {NoIp, leases[k.mac]}
       THEN Answer(k.mac, Reply("Ack", k.xid, leases[k.mac]))
       ELSE UNCHANGED toClient
    /\ UNCHANGED serverVars

(* Mutants: the last address is given out again; every lease is dropped.   *)
ReleaseReclaims(k) ==
    /\ leases' = [leases EXCEPT ![k.mac] = NoIp]
    /\ next_ip' = next_ip - 1
    /\ UNCHANGED toClient

ReleaseClears(k) ==
    /\ leases' = [m \in Macs |-> NoIp]
    /\ UNCHANGED <<next_ip, toClient>>

HandleRelease(k) ==
    /\ leases' = [leases EXCEPT ![k.mac] = NoIp]
    /\ UNCHANGED <<next_ip, toClient>>

HandlePacket ==
    /\ toServer # <<>>
    /\ LET k == Head(toServer) IN
          \/ k.type = "Discover" /\ HandleDiscover(k)
          \/ k.type = "Request" /\ HandleRequest(k)
          \/ k.type = "Release" /\ HandleRelease(k)
    /\ toServer' = Tail(toServer)
    /\ UNCHANGED <<clientVars, losses>>

-----------------------------------------------------------------------------
(* The clients.                                                            *)

Send(type, m, xid, ip) == toServer' = Enqueue(toServer, Message(type, m, xid, ip))

ClientDiscovers(m) ==
    /\ cst[m] = "init" /\ cxid[m] < MaxXid
    /\ cst' = [cst EXCEPT ![m] = "selecting"]
    /\ cxid' = [cxid EXCEPT ![m] = @ + 1]
    /\ Send("Discover", m, cxid[m] + 1, NoIp)
    /\ UNCHANGED <<serverVars, toClient, cip, losses>>

ClientRepeats(m) ==
    /\ \/ cst[m] = "selecting" /\ Send("Discover", m, cxid[m], NoIp)
       \/ cst[m] = "requesting" /\ Send("Request", m, cxid[m], cip[m])
    /\ UNCHANGED <<serverVars, toClient, clientVars, losses>>

(* A bound client renews with its address in ciaddr: no requested_ip.      *)
ClientRenews(m) ==
    /\ cst[m] = "bound"
    /\ Send("Request", m, cxid[m], NoIp)
    /\ UNCHANGED <<serverVars, toClient, clientVars, losses>>

ClientReceives(m) ==
    /\ toClient[m] # <<>>
    /\ toClient' = [toClient EXCEPT ![m] = Tail(@)]
    /\ LET r == Head(toClient[m]) IN
          \/ /\ cst[m] = "selecting" /\ r.type = "Offer" /\ r.xid = cxid[m]
             /\ cst' = [cst EXCEPT ![m] = "requesting"]
             /\ cip' = [cip EXCEPT ![m] = r.ip]
             /\ Send("Request", m, cxid[m], r.ip)
          \/ /\ cst[m] = "requesting" /\ r.type = "Ack" /\ r.xid = cxid[m]
             /\ cst' = [cst EXCEPT ![m] = "bound"]
             /\ cip' = [cip EXCEPT ![m] = r.ip]
             /\ UNCHANGED toServer
          \/ /\ ~(cst[m] = "selecting" /\ r.type = "Offer" /\ r.xid = cxid[m])
             /\ ~(cst[m] = "requesting" /\ r.type = "Ack" /\ r.xid = cxid[m])
             /\ UNCHANGED <<cst, cip, toServer>>
    /\ UNCHANGED <<serverVars, cxid, losses>>

Forget(m) == cst' = [cst EXCEPT ![m] = "init"] /\ cip' = [cip EXCEPT ![m] = NoIp]

ClientReleases(m) ==
    /\ cst[m] = "bound" /\ cxid[m] < MaxXid
    /\ Forget(m)
    /\ Send("Release", m, cxid[m], NoIp)
    /\ UNCHANGED <<serverVars, toClient, cxid, losses>>

ClientReboots(m) ==
    /\ cst[m] # "init" /\ cxid[m] < MaxXid
    /\ Forget(m)
    /\ UNCHANGED <<serverVars, toServer, toClient, cxid, losses>>

FrameLost ==
    /\ losses < MaxLoss /\ losses' = losses + 1
    /\ \/ toServer # <<>> /\ toServer' = Tail(toServer) /\ UNCHANGED toClient
       \/ /\ UNCHANGED toServer
          /\ \E m \in Macs : /\ toClient[m] # <<>>
                             /\ toClient' = [toClient EXCEPT ![m] = Tail(@)]
    /\ UNCHANGED <<serverVars, clientVars>>

ClientStep(m) ==
    \/ ClientDiscovers(m) \/ ClientRepeats(m) \/ ClientRenews(m) \/ ClientReceives(m)
    \/ ClientReleases(m) \/ ClientReboots(m)

Next == HandlePacket \/ (\E m \in Macs : ClientStep(m)) \/ FrameLost

Spec == Init /\ [][Next]_vars

(* The stack's loop ticks and clients read their answers.  A client goes   *)
(* on repeating what is unanswered: not every copy finds the buffer full.  *)
FairSpec ==
    /\ Spec
    /\ WF_vars(HandlePacket)
    /\ \A m \in Macs : /\ WF_vars(ClientReceives(m)) /\ WF_vars(ClientDiscovers(m))
                       /\ SF_vars(ClientRepeats(m))

-----------------------------------------------------------------------------
States == {"init", "selecting", "requesting", "bound"}

(* Types of the server, the clients and the frames between them.           *)
TypeOK ==
    /\ leases \in [Macs -> Ips \cup {NoIp}]
    /\ next_ip \in Nat
    /\ toServer \in Seq([type : {"Discover", "Request", "Release"}, mac : Macs, xid : Nat,
                         ip : Ips \cup {NoIp}])
    /\ toClient \in [Macs -> Seq([type : {"Offer", "Ack"}, xid : Nat, ip : Ips])]
    /\ cst \in [Macs -> States]
    /\ cip \in [Macs -> Ips \cup {NoIp}]
    /\ cxid \in [Macs -> Nat]
    /\ losses \in Nat

(* dhcp.rs:152-172: no two guests use the same address, whatever was lost, *)
(* repeated, released or forgotten.                                        *)
AddressUnique ==
    \A m, n \in Macs : cst[m] = "bound" /\ cst[n] = "bound" /\ cip[m] = cip[n] => m = n

(* dhcp.rs:107-120,147-150: a guest that uses an address has the lease, so *)
(* nothing it sent earlier can take it away.                               *)
BoundHasLease == \A m \in Macs : cst[m] = "bound" => leases[m] = cip[m]

(* dhcp.rs:152-171: a lease changes only by being given back, and a new    *)
(* one is an address nobody ever had.                                      *)
LeasesStable ==
    [][\A m \in Macs : leases'[m] # leases[m] =>
          \/ leases'[m] = NoIp
          \/ leases[m] = NoIp /\ leases'[m] = next_ip /\ next_ip' > next_ip]_vars

(* dhcp.rs:75-172: server and guests together are a pool of addresses: one *)
(* is given to one guest and only once, a guest uses the one held for it   *)
(* and nothing it sent earlier takes that one away.                        *)
InUse == [m \in Macs |-> IF cst[m] = "bound" THEN cip[m] ELSE NoIp]
Pool == INSTANCE AddressPool WITH Machines <- Macs, Addresses <- Ips, None <- NoIp,
            held <- leases, uses <- InUse, spent <- First .. next_ip - 1
ServesAddresses == Pool!Spec

(* dhcp.rs:75-145: a guest that discovers is bound in the end, over losses *)
(* and repetitions, unless it gives up, or has no lease and the range is   *)
(* used up.                                                                *)
DiscoverBinds ==
    \A m \in Macs : cst[m] = "selecting"
        ~> cst[m] \in {"bound", "init"} \/ (leases[m] = NoIp /\ next_ip > Last)
=============================================================================
