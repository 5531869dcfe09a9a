----------------------------- MODULE DhcpProofs -----------------------------
(***************************************************************************)
(* Proofs about Dhcp, for any set of guests, any range and any loss,       *)
(* repetition, release or reboot: no two guests are bound to one address,  *)
(* a lease changes only by being given back, and server, queues and guests *)
(* together implement AddressPool.                                         *)
(***************************************************************************)
EXTENDS Dhcp, TLAPS

Requests == [type : {"Discover", "Request", "Release"}, mac : Macs, xid : Nat,
             ip : Ips \cup {NoIp}]
Replies == [type : {"Offer", "Ack"}, xid : Nat, ip : Ips]

(* The addresses in a queue, and all that guest m may come to use.         *)
IpsIn(q) == {q[i].ip : i \in DOMAIN q}
Known(m) == ({leases[m], cip[m]} \cup IpsIn(toClient[m])) \ {NoIp}

(* The inductive invariant: what one guest may come to use no other may,   *)
(* and next_ip is above all of it.                                         *)
Apart == \A m, n \in Macs : m # n => Known(m) \cap Known(n) = {}
BelowNext == next_ip >= First /\ \A m \in Macs : \A x \in Known(m) : x < next_ip
BoundHasIp == \A m \in Macs : cst[m] = "bound" => cip[m] # NoIp
IInv == TypeOK /\ Apart /\ BelowNext /\ BoundHasIp

-----------------------------------------------------------------------------
(* A full socket buffer drops the frame and any other keeps it: either way *)
(* the buffer holds old frames and at most the new one.                    *)
LEMMA EnqueueProperties ==
    ASSUME NEW S, NEW q \in Seq(S), NEW k \in S
    PROVE  Enqueue(q, k) \in Seq(S) /\ IpsIn(Enqueue(q, k)) \subseteq IpsIn(q) \cup {k.ip}
  <1>1. CASE Enqueue(q, k) = q
    BY <1>1, Zenon
  <1>2. CASE Enqueue(q, k) = Append(q, k)
    <2>1. /\ Append(q, k) \in Seq(S)
          /\ DOMAIN Append(q, k) = 1 .. Len(q) + 1 /\ DOMAIN q = 1 .. Len(q) /\ Len(q) \in Nat
          /\ \A i \in 1 .. Len(q) : Append(q, k)[i] = q[i]
          /\ Append(q, k)[Len(q) + 1] = k
      OBVIOUS
    <2> QED BY <1>2, <2>1 DEF IpsIn
  <1> QED BY <1>1, <1>2, Zenon DEF Enqueue

(* Taking the first frame leaves frames that were there.                   *)
LEMMA DequeueProperties ==
    ASSUME NEW S, NEW q \in Seq(S), q # <<>>
    PROVE  /\ Tail(q) \in Seq(S) /\ Head(q) \in S
           /\ IpsIn(Tail(q)) \subseteq IpsIn(q) /\ Head(q).ip \in IpsIn(q)
  <1>1. /\ Len(q) \in Nat \ {0} /\ DOMAIN q = 1 .. Len(q)
        /\ Tail(q) \in Seq(S) /\ DOMAIN Tail(q) = 1 .. Len(q) - 1
        /\ \A i \in 1 .. Len(q) - 1 : Tail(q)[i] = q[i + 1]
        /\ Head(q) = q[1] /\ Head(q) \in S
    OBVIOUS
  <1>2. Head(q).ip \in IpsIn(q)
    BY <1>1 DEF IpsIn
  <1>3. IpsIn(Tail(q)) \subseteq IpsIn(q)
    <2> SUFFICES ASSUME NEW i \in 1 .. Len(q) - 1 PROVE Tail(q)[i].ip \in IpsIn(q)
      BY <1>1, Zenon DEF IpsIn
    <2>1. i + 1 \in DOMAIN q /\ Tail(q)[i] = q[i + 1]
      BY <1>1
    <2> QED BY <2>1, Zenon DEF IpsIn
  <1> QED BY <1>1, <1>2, <1>3, Zenon

(* The value that stands for no address is outside the range the server    *)
(* gives out.                                                              *)
LEMMA ZeroIsNoIp == NoIp \notin Ips
  BY RangeAssumption DEF NoIp, Ips

(* The addresses a client has been told of, or has, are of the range.      *)
LEMMA KnownTypes ==
    ASSUME TypeOK, NEW m \in Macs
    PROVE  Known(m) \subseteq Ips
  <1>1. /\ toClient[m] \in Seq(Replies) /\ leases[m] \in Ips \cup {NoIp}
        /\ cip[m] \in Ips \cup {NoIp}
    BY Zenon DEF TypeOK, Replies
  <1>2. \A i \in DOMAIN toClient[m] : toClient[m][i] \in Replies
    BY <1>1
  <1>3. IpsIn(toClient[m]) \subseteq Ips
    BY <1>2, Zenon DEF IpsIn, Replies
  <1> QED BY <1>1, <1>3, Zenon DEF Known

(* A step after which no guest knows an address it did not know keeps the  *)
(* guests apart.                                                           *)
LEMMA NothingNew ==
    ASSUME IInv, next_ip' = next_ip, \A m \in Macs : Known(m)' \subseteq Known(m)
    PROVE  Apart' /\ BelowNext'
  BY Zenon DEF IInv, Apart, BelowNext

(* Types and what is known of the queues, once a guest's queue is used.    *)
LEMMA AnswerKeeps ==
    ASSUME TypeOK, NEW m \in Macs, NEW r \in Replies, Answer(m, r)
    PROVE  /\ toClient' \in [Macs -> Seq(Replies)]
           /\ IpsIn(toClient'[m]) \subseteq IpsIn(toClient[m]) \cup {r.ip}
           /\ \A n \in Macs : n # m => toClient'[n] = toClient[n]
  <1>1. toClient \in [Macs -> Seq(Replies)]
    BY Zenon DEF TypeOK, Replies
  <1>2. toClient' = [toClient EXCEPT ![m] = Enqueue(toClient[m], r)]
    BY Zenon DEF Answer
  <1>3. /\ Enqueue(toClient[m], r) \in Seq(Replies)
        /\ IpsIn(Enqueue(toClient[m], r)) \subseteq IpsIn(toClient[m]) \cup {r.ip}
    BY <1>1, EnqueueProperties, Zenon
  <1> QED BY <1>1, <1>2, <1>3, Zenon

(* A frame a client sends keeps the frames on the way well typed.          *)
LEMMA SendKeeps ==
    ASSUME TypeOK, NEW type \in {"Discover", "Request", "Release"}, NEW m \in Macs,
           NEW xid \in Nat, NEW ip \in Ips \cup {NoIp}, Send(type, m, xid, ip)
    PROVE  toServer' \in Seq(Requests)
  <1>1. Message(type, m, xid, ip) \in Requests
    BY Zenon DEF Message, Requests
  <1>2. toServer \in Seq(Requests)
    BY Zenon DEF TypeOK, Requests
  <1> QED BY <1>1, <1>2, EnqueueProperties, Zenon DEF Send

-----------------------------------------------------------------------------
(* DhcpServer::new and clients that have sent nothing satisfy the          *)
(* invariant.                                                              *)
LEMMA InitIInv == Init => IInv
  <1> SUFFICES ASSUME Init PROVE IInv
    BY Zenon
  <1>1. TypeOK
    BY RangeAssumption DEF Init, TypeOK, States
  <1>2. \A m \in Macs : Known(m) = {}
    BY DEF Init, Known, IpsIn
  <1> QED BY <1>1, <1>2, RangeAssumption DEF Init, IInv, Apart, BelowNext, BoundHasIp

(* handle_packet: only a Discover makes an address known, and it is new.   *)
LEMMA HandlePacketKeeps == IInv /\ HandlePacket => IInv'
  <1> SUFFICES ASSUME IInv, HandlePacket PROVE IInv'
    BY Zenon
  <1>0. /\ TypeOK /\ toServer \in Seq(Requests) /\ toClient \in [Macs -> Seq(Replies)]
        /\ leases \in [Macs -> Ips \cup {NoIp}] /\ next_ip \in Nat
    BY Zenon DEF IInv, TypeOK, Requests, Replies
  <1>1. /\ Head(toServer) \in Requests /\ toServer' \in Seq(Requests)
        /\ UNCHANGED <<cst, cip, cxid, losses>>
    BY <1>0, DequeueProperties, Zenon DEF HandlePacket, clientVars
  <1>k. PICK k \in Requests : k = Head(toServer)
    BY <1>1, Zenon
  <1>m. PICK m \in Macs : m = k.mac
    BY Zenon DEF Requests
  <1>2. k.mac = m /\ k.xid \in Nat
    BY <1>m, Zenon DEF Requests
  <1>3. HandleDiscover(k) \/ HandleRequest(k) \/ HandleRelease(k)
    BY <1>k, Zenon DEF HandlePacket
  <1>4. ASSUME leases' \in [Macs -> Ips \cup {NoIp}], next_ip' \in Nat,
               toClient' \in [Macs -> Seq(Replies)], Apart', BelowNext'
        PROVE  IInv'
    <2>1. TypeOK'
      BY Zenon, <1>0, <1>1, <1>4 DEF TypeOK, Requests, Replies
    <2>2. BoundHasIp'
      BY <1>1, Zenon DEF IInv, BoundHasIp
    <2> QED BY <1>4, <2>1, <2>2, Zenon DEF IInv
  <1>5. ASSUME UNCHANGED serverVars, UNCHANGED toClient PROVE IInv'
    <2>1. \A n \in Macs : Known(n)' = Known(n)
      BY <1>1, <1>5, Zenon DEF Known, serverVars
    <2> QED BY <1>0, <1>4, <1>5, <2>1, NothingNew, Zenon DEF serverVars
  <1>6. ASSUME NEW type \in {"Offer", "Ack"}, leases[m] # NoIp, UNCHANGED serverVars,
               Answer(m, Reply(type, k.xid, leases[m]))
        PROVE  IInv'
    <2>1. Reply(type, k.xid, leases[m]) \in Replies
      BY <1>0, <1>2, <1>6, Zenon DEF Reply, Replies
    <2>2. Reply(type, k.xid, leases[m]).ip = leases[m]
      BY Zenon DEF Reply
    <2>3. /\ toClient' \in [Macs -> Seq(Replies)]
          /\ IpsIn(toClient'[m]) \subseteq IpsIn(toClient[m]) \cup {leases[m]}
          /\ \A n \in Macs : n # m => toClient'[n] = toClient[n]
      BY <1>0, <1>2, <1>6, <2>1, <2>2, AnswerKeeps, Zenon
    <2>4. \A n \in Macs : Known(n)' \subseteq Known(n)
      BY <1>1, <1>6, <2>3, Zenon DEF Known, serverVars
    <2> QED BY <1>0, <1>4, <1>6, <2>3, <2>4, NothingNew, Zenon DEF serverVars
  <1>7. ASSUME leases[m] = NoIp, next_ip <= Last,
               leases' = [leases EXCEPT ![m] = next_ip], next_ip' = next_ip + 1,
               Answer(m, Reply("Offer", k.xid, next_ip))
        PROVE  IInv'
    <2>1. next_ip \in Ips
      BY <1>0, <1>7, RangeAssumption DEF Ips, IInv, BelowNext
    <2>2. /\ Reply("Offer", k.xid, next_ip) \in Replies
          /\ Reply("Offer", k.xid, next_ip).ip = next_ip
      BY <1>2, <2>1, Zenon DEF Reply, Replies
    <2>3. /\ toClient' \in [Macs -> Seq(Replies)]
          /\ IpsIn(toClient'[m]) \subseteq IpsIn(toClient[m]) \cup {next_ip}
          /\ \A n \in Macs : n # m => toClient'[n] = toClient[n]
      BY <1>0, <1>2, <1>7, <2>2, AnswerKeeps, Zenon
    <2>4. leases' \in [Macs -> Ips \cup {NoIp}] /\ next_ip' \in Nat
      BY <1>0, <1>2, <1>7, <2>1
    <2>5. Known(m)' \subseteq Known(m) \cup {next_ip}
      BY <1>0, <1>1, <1>2, <1>7, <2>3, Zenon DEF Known
    <2>6. \A n \in Macs : n # m => Known(n)' = Known(n)
      BY <1>0, <1>1, <1>2, <1>7, <2>3, Zenon DEF Known
    <2>7. /\ \A n \in Macs : \A x \in Known(n) : x < next_ip
          /\ \A n \in Macs : next_ip \notin Known(n)
      BY <1>0 DEF IInv, BelowNext
    <2>8. Apart'
      <3> SUFFICES ASSUME NEW p \in Macs, NEW n \in Macs, p # n
                   PROVE  Known(p)' \cap Known(n)' = {}
        BY Zenon DEF Apart
      <3>1. Known(p) \cap Known(n) = {}
        BY Zenon DEF IInv, Apart
      <3>2. CASE p = m
        BY <2>5, <2>6, <2>7, <3>1, <3>2, Zenon
      <3>3. CASE n = m
        BY <2>5, <2>6, <2>7, <3>1, <3>3, Zenon
      <3>4. CASE p # m /\ n # m
        BY <2>6, <3>1, <3>4, Zenon
      <3> QED BY <3>2, <3>3, <3>4, Zenon
    <2>9. BelowNext'
      <3>1. \A n \in Macs : \A x \in Known(n)' : x \in Known(n) \/ x = next_ip
        BY <1>2, <2>5, <2>6, Zenon
      <3>2. \A n \in Macs : \A x \in Known(n) : x \in Nat
        BY <1>0, KnownTypes, RangeAssumption DEF Ips
      <3>3. \A n \in Macs : \A x \in Known(n)' : x < next_ip'
        <4> SUFFICES ASSUME NEW n \in Macs, NEW x \in Known(n)' PROVE x < next_ip'
          BY Zenon
        <4>1. CASE x \in Known(n)
          <5>1. x \in Nat /\ x < next_ip
            BY <2>7, <3>2, <4>1, Zenon
          <5> QED BY <1>0, <1>7, <5>1
        <4>2. CASE x = next_ip
          BY <1>0, <1>7, <4>2
        <4> QED BY <3>1, <4>1, <4>2, Zenon
      <3> QED BY <1>0, <1>7, <3>3, RangeAssumption DEF IInv, BelowNext
    <2> QED BY <1>4, <2>3, <2>4, <2>8, <2>9, Zenon
  <1>8. CASE HandleRelease(k)
    <2>1. /\ leases' = [leases EXCEPT ![m] = NoIp] /\ next_ip' = next_ip /\ toClient' = toClient
      BY <1>2, <1>8, Zenon DEF HandleRelease
    <2>2. \A n \in Macs : Known(n)' \subseteq Known(n)
      BY <1>0, <1>1, <1>2, <2>1, Zenon DEF Known
    <2> QED BY <1>0, <1>2, <1>4, <2>1, <2>2, NothingNew, Zenon
  <1>9. CASE HandleRequest(k)
    BY <1>2, <1>5, <1>6, <1>9, Zenon DEF HandleRequest
  <1>10. CASE HandleDiscover(k)
    BY <1>2, <1>5, <1>6, <1>7, <1>10, Zenon DEF HandleDiscover
  <1> QED BY <1>3, <1>8, <1>9, <1>10, Zenon

(* A client uses what it is offered, and tells nobody else.                *)
LEMMA ClientKeeps == ASSUME NEW m \in Macs PROVE IInv /\ ClientStep(m) => IInv'
  <1> SUFFICES ASSUME IInv, ClientStep(m) PROVE IInv'
    BY Zenon
  <1>0. /\ TypeOK /\ toServer \in Seq(Requests) /\ toClient \in [Macs -> Seq(Replies)]
        /\ cst \in [Macs -> States] /\ cip \in [Macs -> Ips \cup {NoIp}]
        /\ cxid \in [Macs -> Nat] /\ cxid[m] + 1 \in Nat
    <2>1. TypeOK
      BY Zenon DEF IInv
    <2>2. /\ toServer \in Seq(Requests) /\ toClient \in [Macs -> Seq(Replies)]
          /\ cst \in [Macs -> States] /\ cip \in [Macs -> Ips \cup {NoIp}]
          /\ cxid \in [Macs -> Nat]
      BY Zenon, <2>1 DEF TypeOK, Requests, Replies
    <2>3. cxid[m] + 1 \in Nat
      BY <2>2
    <2> QED BY <2>1, <2>2, <2>3, Zenon
  <1>1. ASSUME UNCHANGED <<leases, next_ip, losses>>, toServer' \in Seq(Requests),
               toClient' \in [Macs -> Seq(Replies)], cst' \in [Macs -> States],
               cip' \in [Macs -> Ips \cup {NoIp}], cxid' \in [Macs -> Nat],
               \A n \in Macs : cst'[n] = "bound" => cip'[n] # NoIp,
               \A n \in Macs : cip'[n] \in {NoIp, cip[n]} \cup IpsIn(toClient[n]),
               \A n \in Macs : IpsIn(toClient'[n]) \subseteq IpsIn(toClient[n])
        PROVE  IInv'
    <2>1. TypeOK'
      BY Zenon, <1>0, <1>1 DEF TypeOK, Requests, Replies
    <2>2. \A n \in Macs : Known(n)' \subseteq Known(n)
      BY <1>1, Zenon DEF Known
    <2> QED BY <1>1, <2>1, <2>2, NothingNew, Zenon DEF IInv, BoundHasIp
  <1> USE DEF serverVars, clientVars
  <1>2. CASE ClientDiscovers(m)
    <2>1. toServer' \in Seq(Requests)
      BY <1>0, <1>2, SendKeeps, Zenon DEF ClientDiscovers
    <2> QED BY <1>0, <1>1, <1>2, <2>1, Zenon DEF ClientDiscovers, IInv, BoundHasIp, States
  <1>3. CASE ClientRepeats(m)
    <2>1. toServer' \in Seq(Requests)
      BY <1>0, <1>3, SendKeeps, Zenon DEF ClientRepeats
    <2> QED BY <1>0, <1>1, <1>3, <2>1, Zenon DEF ClientRepeats, IInv, BoundHasIp
  <1>4. CASE ClientRenews(m)
    <2>1. toServer' \in Seq(Requests)
      BY <1>0, <1>4, SendKeeps, Zenon DEF ClientRenews
    <2> QED BY <1>0, <1>1, <1>4, <2>1, Zenon DEF ClientRenews, IInv, BoundHasIp
  <1>5. CASE ClientReleases(m)
    <2>1. toServer' \in Seq(Requests)
      BY <1>0, <1>5, SendKeeps, Zenon DEF ClientReleases
    <2> QED BY <1>0, <1>1, <1>5, <2>1, Zenon DEF ClientReleases, Forget, IInv, BoundHasIp, States
  <1>6. CASE ClientReboots(m)
    BY <1>0, <1>1, <1>6, Zenon DEF ClientReboots, Forget, IInv, BoundHasIp, States
  <1>7. CASE ClientReceives(m)
    <2> DEFINE r == Head(toClient[m])
    <2>1. /\ r \in Replies /\ r.ip \in IpsIn(toClient[m]) /\ Tail(toClient[m]) \in Seq(Replies)
          /\ IpsIn(Tail(toClient[m])) \subseteq IpsIn(toClient[m])
      BY <1>0, <1>7, DequeueProperties, Zenon DEF ClientReceives
    <2>2. r.ip \in Ips /\ r.ip # NoIp
      BY <2>1, ZeroIsNoIp, Zenon DEF Replies
    <2>3. /\ toClient' \in [Macs -> Seq(Replies)]
          /\ \A n \in Macs : IpsIn(toClient'[n]) \subseteq IpsIn(toClient[n])
      BY <1>0, <1>7, <2>1, Zenon DEF ClientReceives
    <2>4. UNCHANGED <<leases, next_ip, cxid, losses>>
      BY <1>7, Zenon DEF ClientReceives
    <2>5. \/ /\ cst' = [cst EXCEPT ![m] = "requesting"] /\ cip' = [cip EXCEPT ![m] = r.ip]
             /\ Send("Request", m, cxid[m], r.ip)
          \/ /\ cst' = [cst EXCEPT ![m] = "bound"] /\ cip' = [cip EXCEPT ![m] = r.ip]
             /\ UNCHANGED toServer
          \/ UNCHANGED <<cst, cip, toServer>>
      BY <1>7, Zenon DEF ClientReceives
    <2> HIDE DEF r
    <2>6. toServer' \in Seq(Requests)
      BY <1>0, <2>2, <2>5, SendKeeps, Zenon
    <2> QED BY Zenon, <1>0, <1>1, <2>1, <2>2, <2>3, <2>4, <2>5, <2>6 DEF IInv, BoundHasIp, States
  <1> QED BY <1>2, <1>3, <1>4, <1>5, <1>6, <1>7, Zenon DEF ClientStep

(* Losing a frame in either direction keeps the invariant.                 *)
LEMMA FrameLostKeeps == IInv /\ FrameLost => IInv'
  <1> SUFFICES ASSUME IInv, FrameLost PROVE IInv'
    BY Zenon
  <1>0. toServer \in Seq(Requests) /\ toClient \in [Macs -> Seq(Replies)]
    BY Zenon DEF IInv, TypeOK, Requests, Replies
  <1>1. losses' \in Nat /\ UNCHANGED <<leases, next_ip, cst, cip, cxid>>
    BY DEF FrameLost, IInv, TypeOK, serverVars, clientVars
  <1>2. /\ toServer' \in Seq(Requests) /\ toClient' \in [Macs -> Seq(Replies)]
        /\ \A n \in Macs : IpsIn(toClient'[n]) \subseteq IpsIn(toClient[n])
    <2>1. CASE toServer # <<>> /\ toServer' = Tail(toServer) /\ UNCHANGED toClient
      BY <1>0, <2>1, DequeueProperties, Zenon
    <2>2. ASSUME NEW m \in Macs, UNCHANGED toServer, toClient[m] # <<>>,
                 toClient' = [toClient EXCEPT ![m] = Tail(toClient[m])]
          PROVE  /\ toServer' \in Seq(Requests) /\ toClient' \in [Macs -> Seq(Replies)]
                 /\ \A n \in Macs : IpsIn(toClient'[n]) \subseteq IpsIn(toClient[n])
      <3>1. /\ Tail(toClient[m]) \in Seq(Replies)
            /\ IpsIn(Tail(toClient[m])) \subseteq IpsIn(toClient[m])
        BY <1>0, <2>2, DequeueProperties, Zenon
      <3> QED BY <1>0, <2>2, <3>1, Zenon
    <2> QED BY Zenon, <2>1, <2>2 DEF FrameLost
  <1>3. TypeOK'
    BY Zenon, <1>1, <1>2 DEF IInv, TypeOK, Requests, Replies
  <1>4. \A n \in Macs : Known(n)' \subseteq Known(n)
    BY <1>1, <1>2, Zenon DEF Known
  <1> QED BY <1>1, <1>3, <1>4, NothingNew, Zenon DEF IInv, BoundHasIp

-----------------------------------------------------------------------------
(* The invariant holds in every reachable state of server and guests.      *)
THEOREM DhcpInductive == Spec => []IInv
  <1>1. IInv /\ [Next]_vars => IInv'
    <2>1. IInv /\ UNCHANGED vars => IInv'
      <3> SUFFICES ASSUME IInv, UNCHANGED vars PROVE IInv'
        BY Zenon
      <3> USE DEF vars, serverVars, clientVars
      <3>1. \A m \in Macs : Known(m)' = Known(m)
        BY Zenon DEF Known
      <3>2. TypeOK' /\ BoundHasIp'
        BY Zenon DEF IInv, TypeOK, BoundHasIp
      <3> QED BY <3>1, <3>2, NothingNew, Zenon DEF IInv
    <2> QED BY <2>1, HandlePacketKeeps, ClientKeeps, FrameLostKeeps, Zenon DEF Next
  <1> QED BY <1>1, InitIInv, PTL DEF Spec

(* dhcp.rs: server, guests and frames keep their types.                    *)
THEOREM DhcpTypes == Spec => []TypeOK
  BY DhcpInductive, PTL DEF IInv

(* dhcp.rs:152-172: no two guests are bound to one address.                *)
THEOREM DhcpUnique == Spec => []AddressUnique
  <1>1. IInv => AddressUnique
    <2> SUFFICES ASSUME IInv, NEW m \in Macs, NEW n \in Macs, cst[m] = "bound",
                        cst[n] = "bound", cip[m] = cip[n], m # n
                 PROVE  FALSE
      BY Zenon DEF AddressUnique
    <2>1. cip[m] \in Known(m) /\ cip[m] \in Known(n)
      BY Zenon DEF IInv, BoundHasIp, Known
    <2> QED BY <2>1, Zenon DEF IInv, Apart
  <1> QED BY <1>1, DhcpInductive, PTL

(* dhcp.rs:152-171: a lease changes only by being given back, and a new    *)
(* one is an address nobody ever had.                                      *)
THEOREM DhcpStable == Spec => LeasesStable
  <1> DEFINE A == \A m \in Macs : leases'[m] # leases[m] =>
                     \/ leases'[m] = NoIp
                     \/ leases[m] = NoIp /\ leases'[m] = next_ip /\ next_ip' > next_ip
  <1>1. IInv /\ [Next]_vars => [A]_vars
    <2> SUFFICES ASSUME IInv, Next, NEW m \in Macs, leases'[m] # leases[m]
                 PROVE  \/ leases'[m] = NoIp
                        \/ leases[m] = NoIp /\ leases'[m] = next_ip /\ next_ip' > next_ip
      BY Zenon
    <2> USE DEF serverVars
    <2>1. HandlePacket
      BY Zenon DEF Next, ClientStep, ClientDiscovers, ClientRepeats, ClientRenews, ClientReceives,
             ClientReleases, ClientReboots, FrameLost
    <2>2. PICK k : HandleDiscover(k) \/ HandleRequest(k) \/ HandleRelease(k)
      BY <2>1, Zenon DEF HandlePacket
    <2> QED BY <2>2 DEF HandleDiscover, HandleRequest, HandleRelease, IInv, TypeOK
  <1> QED BY <1>1, DhcpInductive, PTL DEF Spec, LeasesStable


(* No frame is of a transaction its guest has not begun.                   *)
NotAhead ==
    /\ \A i \in DOMAIN toServer : toServer[i].xid <= cxid[toServer[i].mac]
    /\ \A m \in Macs : \A i \in DOMAIN toClient[m] : toClient[m][i].xid <= cxid[m]

(* A Release of guest m on its way, once m is active again: m still waits  *)
(* for an offer, and every frame of its new transaction is behind.         *)
IsRelease(i, m) == toServer[i].type = "Release" /\ toServer[i].mac = m
ReleaseAhead(m, i) ==
    /\ cst[m] = "selecting"
    /\ \A j \in DOMAIN toServer : toServer[j].mac = m /\ toServer[j].xid = cxid[m] => i < j
    /\ \A j \in DOMAIN toClient[m] : toClient[m][j].xid # cxid[m]

(* What an active guest is told in its transaction is its lease, and so is *)
(* the address it asks for or uses.                                        *)
Guest(m) ==
    /\ cst[m] # "init" =>
          /\ \A i \in DOMAIN toServer : IsRelease(i, m) => ReleaseAhead(m, i)
          /\ \A j \in DOMAIN toClient[m] : toClient[m][j].xid = cxid[m] =>
                                               toClient[m][j].ip = leases[m]
    /\ cst[m] \in {"requesting", "bound"} => leases[m] = cip[m] /\ cip[m] # NoIp

RInv == IInv /\ NotAhead /\ \A m \in Macs : Guest(m)

-----------------------------------------------------------------------------
(* How a queue changes: it may get a last frame, or lose its first.        *)
Grown(q, r, k) ==
    \A i \in DOMAIN r : \/ i \in DOMAIN q /\ r[i] = q[i]
                        \/ r[i] = k /\ \A j \in DOMAIN q : j < i
Shrunk(q, r) == \A i \in DOMAIN r : i + 1 \in DOMAIN q /\ r[i] = q[i + 1]

(* A frame offered to a socket's buffer is its last frame or is dropped.   *)
LEMMA EnqueueGrows ==
    ASSUME NEW S, NEW q \in Seq(S), NEW k \in S
    PROVE  Grown(q, Enqueue(q, k), k)
  <1>1. CASE Enqueue(q, k) = q
    BY <1>1, Zenon DEF Grown
  <1>2. CASE Enqueue(q, k) = Append(q, k)
    <2>1. /\ DOMAIN Append(q, k) = 1 .. Len(q) + 1 /\ DOMAIN q = 1 .. Len(q) /\ Len(q) \in Nat
          /\ \A i \in 1 .. Len(q) : Append(q, k)[i] = q[i]
          /\ Append(q, k)[Len(q) + 1] = k
      OBVIOUS
    <2> QED BY <1>2, <2>1 DEF Grown
  <1> QED BY <1>1, <1>2, Zenon DEF Enqueue

(* Reading a frame takes the first and moves the others up.                *)
LEMMA TailShrinks ==
    ASSUME NEW S, NEW q \in Seq(S), q # <<>>
    PROVE  Shrunk(q, Tail(q)) /\ 1 \in DOMAIN q /\ Head(q) = q[1]
  <1>1. /\ Len(q) \in Nat \ {0} /\ DOMAIN q = 1 .. Len(q)
        /\ DOMAIN Tail(q) = 1 .. Len(q) - 1
        /\ \A i \in 1 .. Len(q) - 1 : Tail(q)[i] = q[i + 1]
        /\ Head(q) = q[1]
    OBVIOUS
  <1> QED BY <1>1 DEF Shrunk

(* The frames on the way are requests and replies, at natural positions.   *)
LEMMA QueueTypes ==
    ASSUME TypeOK
    PROVE  /\ toServer \in Seq(Requests) /\ toClient \in [Macs -> Seq(Replies)]
           /\ DOMAIN toServer \subseteq Nat
           /\ \A i \in DOMAIN toServer : toServer[i] \in Requests
           /\ \A m \in Macs : /\ DOMAIN toClient[m] \subseteq Nat
                              /\ \A i \in DOMAIN toClient[m] : toClient[m][i] \in Replies
  <1>1. toServer \in Seq(Requests) /\ toClient \in [Macs -> Seq(Replies)]
    BY Zenon DEF TypeOK, Requests, Replies
  <1>2. \A m \in Macs : toClient[m] \in Seq(Replies)
    BY <1>1, Zenon
  <1> QED BY <1>1, <1>2

-----------------------------------------------------------------------------
(* A guest that neither acts nor is answered keeps what it relies on.      *)
LEMMA OtherGuest ==
    ASSUME IInv, TypeOK', NEW n \in Macs, Guest(n),
           cst'[n] = cst[n], cip'[n] = cip[n], cxid'[n] = cxid[n],
           leases'[n] = leases[n], toClient'[n] = toClient[n],
           \/ Shrunk(toServer, toServer')
           \/ \E k \in Requests : k.mac # n /\ Grown(toServer, toServer', k)
    PROVE  Guest(n)'
  <1>0. toServer \in Seq(Requests) /\ toServer' \in Seq(Requests)
    BY Zenon DEF IInv, TypeOK, Requests
  <1>1. DOMAIN toServer \subseteq Nat /\ DOMAIN toServer' \subseteq Nat
    BY <1>0
  <1>2. CASE Shrunk(toServer, toServer')
    BY <1>1, <1>2 DEF Guest, ReleaseAhead, IsRelease, Shrunk
  <1>3. ASSUME NEW k \in Requests, k.mac # n, Grown(toServer, toServer', k)
        PROVE  Guest(n)'
    BY <1>1, <1>3, Zenon DEF Guest, ReleaseAhead, IsRelease, Grown
  <1> QED BY <1>2, <1>3, Zenon

(* A guest that sends a frame of its transaction and stays in its state.   *)
LEMMA SameGuest ==
    ASSUME IInv, TypeOK', NEW m \in Macs, Guest(m), NEW k \in Requests,
           k.type # "Release", Grown(toServer, toServer', k),
           cst' = cst, cip' = cip, cxid' = cxid, leases' = leases, toClient' = toClient
    PROVE  Guest(m)'
  <1>0. toServer \in Seq(Requests) /\ toServer' \in Seq(Requests)
    BY Zenon DEF IInv, TypeOK, Requests
  <1>1. DOMAIN toServer \subseteq Nat /\ DOMAIN toServer' \subseteq Nat
    BY <1>0
  <1> QED BY <1>1, Zenon DEF Guest, ReleaseAhead, IsRelease, Grown

(* A guest the server answers: the frame is not behind a Release of it     *)
(* when it is of the current transaction, so the answer is to stay true.   *)
LEMMA AnsweredGuest ==
    ASSUME IInv, TypeOK', NEW m \in Macs, Guest(m), NEW r \in Replies,
           toServer # <<>>, Head(toServer).mac = m, toServer' = Tail(toServer),
           cst' = cst, cip' = cip, cxid' = cxid, Grown(toClient[m], toClient'[m], r),
           r.xid = Head(toServer).xid, r.ip = leases'[m], leases[m] \in {NoIp, leases'[m]}
    PROVE  Guest(m)'
  <1>0. /\ toServer \in Seq(Requests) /\ toServer' \in Seq(Requests)
        /\ toClient[m] \in Seq(Replies) /\ toClient'[m] \in Seq(Replies)
    BY Zenon DEF IInv, TypeOK, Requests, Replies
  <1>1. /\ DOMAIN toServer \subseteq Nat /\ DOMAIN toServer' \subseteq Nat
        /\ \A j \in DOMAIN toClient[m] : toClient[m][j] \in Replies
    BY <1>0
  <1>2. /\ Shrunk(toServer, toServer') /\ 1 \in DOMAIN toServer
        /\ toServer[1].mac = m /\ toServer[1].xid = r.xid
    BY <1>0, TailShrinks, Zenon
  <1>3. \A j \in DOMAIN toClient[m] : toClient[m][j].ip # NoIp
    BY <1>1, ZeroIsNoIp DEF Replies
  <1>4. ASSUME cst[m] # "init"
        PROVE  /\ \A i \in DOMAIN toServer' : IsRelease(i, m)' => ReleaseAhead(m, i)'
               /\ \A j \in DOMAIN toClient'[m] : toClient'[m][j].xid = cxid[m] =>
                                                     toClient'[m][j].ip = leases'[m]
    <2>1. ASSUME NEW i \in DOMAIN toServer', IsRelease(i, m)'
          PROVE  ReleaseAhead(m, i)'
      <3>1. i + 1 \in DOMAIN toServer /\ IsRelease(i + 1, m)
        BY <1>2, <2>1, Zenon DEF IsRelease, Shrunk
      <3>2. ReleaseAhead(m, i + 1)
        BY <1>4, <3>1, Zenon DEF Guest
      <3>3. r.xid # cxid[m]
        BY <1>1, <1>2, <2>1, <3>2 DEF ReleaseAhead
      <3>4. \A j \in DOMAIN toServer' : toServer'[j].mac = m /\ toServer'[j].xid = cxid[m] => i < j
        BY <1>1, <1>2, <2>1, <3>2 DEF ReleaseAhead, Shrunk
      <3>5. \A j \in DOMAIN toClient'[m] : toClient'[m][j].xid # cxid[m]
        BY <3>2, <3>3, Zenon DEF ReleaseAhead, Grown
      <3> QED BY <3>2, <3>4, <3>5, Zenon DEF ReleaseAhead
    <2>2. ASSUME NEW j \in DOMAIN toClient'[m], toClient'[m][j].xid = cxid[m]
          PROVE  toClient'[m][j].ip = leases'[m]
      BY <1>3, <1>4, <2>2 DEF Guest, Grown
    <2> QED BY <2>1, <2>2, Zenon
  <1>5. cst[m] \in {"requesting", "bound"} => leases'[m] = cip[m] /\ cip[m] # NoIp
    BY Zenon DEF Guest
  <1> QED BY <1>4, <1>5, Zenon DEF Guest

(* Transactions only grow, and a new frame is of one that has begun.       *)
LEMMA KeepsNotAhead ==
    ASSUME IInv, NotAhead, cxid' \in [Macs -> Nat], \A n \in Macs : cxid[n] <= cxid'[n],
           \/ toServer' = toServer \/ Shrunk(toServer, toServer')
           \/ \E k \in Requests : k.xid <= cxid'[k.mac] /\ Grown(toServer, toServer', k),
           \A n \in Macs :
              \/ toClient'[n] = toClient[n] \/ Shrunk(toClient[n], toClient'[n])
              \/ \E r \in Replies : r.xid <= cxid'[n] /\ Grown(toClient[n], toClient'[n], r)
    PROVE  NotAhead'
  <1>0. TypeOK /\ cxid \in [Macs -> Nat]
    BY Zenon DEF IInv, TypeOK
  <1>1. /\ \A i \in DOMAIN toServer : toServer[i].mac \in Macs /\ toServer[i].xid \in Nat
        /\ \A n \in Macs : \A i \in DOMAIN toClient[n] : toClient[n][i].xid \in Nat
    BY <1>0, QueueTypes, Zenon DEF Requests, Replies
  <1>2. \A i \in DOMAIN toServer : toServer[i].xid <= cxid'[toServer[i].mac]
    <2> SUFFICES ASSUME NEW i \in DOMAIN toServer PROVE toServer[i].xid <= cxid'[toServer[i].mac]
      BY Zenon
    <2>1. PICK n \in Macs : n = toServer[i].mac
      BY <1>1, Zenon
    <2>2. toServer[i].xid <= cxid[n] /\ cxid[n] <= cxid'[n]
      BY <2>1, Zenon DEF NotAhead
    <2> QED BY <1>0, <1>1, <2>1, <2>2
  <1>3. \A n \in Macs : \A i \in DOMAIN toClient[n] : toClient[n][i].xid <= cxid'[n]
    <2> SUFFICES ASSUME NEW n \in Macs, NEW i \in DOMAIN toClient[n]
                 PROVE  toClient[n][i].xid <= cxid'[n]
      BY Zenon
    <2>1. toClient[n][i].xid <= cxid[n] /\ cxid[n] <= cxid'[n]
      BY Zenon DEF NotAhead
    <2> QED BY <1>0, <1>1, <2>1
  <1>4. \A i \in DOMAIN toServer' : toServer'[i].xid <= cxid'[toServer'[i].mac]
    BY <1>2 DEF Shrunk, Grown
  <1>5. \A n \in Macs : \A i \in DOMAIN toClient'[n] : toClient'[n][i].xid <= cxid'[n]
    BY <1>3, Zenon DEF Shrunk, Grown
  <1> QED BY <1>4, <1>5, Zenon DEF NotAhead

-----------------------------------------------------------------------------
(* Nothing is on the way at first and no guest is active.                  *)
LEMMA InitRInv == Init => RInv
  BY InitIInv DEF Init, RInv, NotAhead, Guest

(* handle_packet, on behalf of the guest whose frame is first.             *)
LEMMA HandlePacketRefines == RInv /\ HandlePacket => RInv'
  <1> SUFFICES ASSUME RInv, HandlePacket PROVE RInv'
    BY Zenon
  <1>0. /\ IInv /\ IInv' /\ TypeOK /\ TypeOK' /\ NotAhead
        /\ toServer \in Seq(Requests) /\ toServer # <<>> /\ toServer' = Tail(toServer)
        /\ cst' = cst /\ cip' = cip /\ cxid' = cxid
    BY HandlePacketKeeps, QueueTypes, Zenon DEF RInv, IInv, HandlePacket, clientVars
  <1>1. /\ leases \in [Macs -> Ips \cup {NoIp}] /\ toClient \in [Macs -> Seq(Replies)]
        /\ cxid \in [Macs -> Nat] /\ next_ip \in Nat
    BY Zenon, <1>0 DEF TypeOK, Replies
  <1>2. /\ Shrunk(toServer, toServer') /\ 1 \in DOMAIN toServer
        /\ Head(toServer) = toServer[1] /\ Head(toServer) \in Requests
    BY <1>0, TailShrinks, DequeueProperties, Zenon
  <1>k. PICK k \in Requests : k = Head(toServer)
    BY <1>2, Zenon
  <1>m. PICK m \in Macs : m = k.mac
    BY Zenon DEF Requests
  <1>3. k.xid \in Nat /\ k.xid <= cxid[m]
    BY <1>0, <1>2, <1>k, <1>m, Zenon DEF NotAhead, Requests
  <1>4. ASSUME Guest(m)', \A n \in Macs : n # m => /\ leases'[n] = leases[n]
                                                   /\ toClient'[n] = toClient[n],
               \/ toClient'[m] = toClient[m]
               \/ \E r \in Replies : r.xid = k.xid /\ Grown(toClient[m], toClient'[m], r)
        PROVE  RInv'
    <2>1. \A n \in Macs : n # m => Guest(n)'
      BY <1>0, <1>2, <1>4, OtherGuest, Zenon DEF RInv
    <2>2. \A n \in Macs : \/ toClient'[n] = toClient[n] \/ Shrunk(toClient[n], toClient'[n])
                          \/ \E r \in Replies : /\ r.xid <= cxid'[n]
                                               /\ Grown(toClient[n], toClient'[n], r)
      BY <1>0, <1>3, <1>4, Zenon
    <2>3. \A n \in Macs : cxid[n] <= cxid'[n]
      BY <1>0, <1>1
    <2>4. NotAhead'
      BY <1>0, <1>1, <1>2, <2>2, <2>3, KeepsNotAhead, Zenon
    <2> QED BY <1>0, <1>4, <2>1, <2>4, Zenon DEF RInv
  <1>5. ASSUME NEW r \in Replies, r.xid = k.xid, r.ip = leases'[m],
               leases[m] \in {NoIp, leases'[m]}, Answer(m, r),
               \A n \in Macs : n # m => leases'[n] = leases[n]
        PROVE  RInv'
    <2>1. /\ toClient'[m] = Enqueue(toClient[m], r)
          /\ \A n \in Macs : n # m => toClient'[n] = toClient[n]
      BY <1>1, <1>5, Zenon DEF Answer
    <2>2. Grown(toClient[m], toClient'[m], r)
      BY <1>1, <2>1, EnqueueGrows, Zenon
    <2>3. Guest(m)'
      BY <1>0, <1>k, <1>m, <1>5, <2>2, AnsweredGuest, Zenon DEF RInv
    <2> QED BY <1>4, <1>5, <2>1, <2>2, <2>3, Zenon
  <1>6. CASE leases' = leases /\ toClient' = toClient
    <2>1. Guest(m)'
      BY <1>0, <1>2, <1>6, OtherGuest, Zenon DEF RInv
    <2> QED BY <1>4, <1>6, <2>1, Zenon
  <1>7. ASSUME NEW type \in {"Offer", "Ack"}, leases[m] # NoIp, leases' = leases,
               Answer(m, Reply(type, k.xid, leases[m]))
        PROVE  RInv'
    <2>1. /\ Reply(type, k.xid, leases[m]) \in Replies
          /\ Reply(type, k.xid, leases[m]).xid = k.xid
          /\ Reply(type, k.xid, leases[m]).ip = leases[m]
      BY <1>1, <1>3, <1>7, Zenon DEF Reply, Replies
    <2> QED BY <1>5, <1>7, <2>1, Zenon
  <1>8. CASE k.type = "Discover" /\ HandleDiscover(k)
    <2>1. CASE leases[m] = NoIp /\ next_ip <= Last
      <3>1. /\ leases' = [leases EXCEPT ![m] = next_ip]
            /\ Answer(m, Reply("Offer", k.xid, next_ip))
        BY <1>1, <1>m, <1>8, <2>1, RangeAssumption DEF HandleDiscover
      <3>2. next_ip \in Ips
        BY <1>0, <1>1, <2>1, RangeAssumption DEF Ips, IInv, BelowNext
      <3>3. /\ Reply("Offer", k.xid, next_ip) \in Replies
            /\ Reply("Offer", k.xid, next_ip).xid = k.xid
            /\ Reply("Offer", k.xid, next_ip).ip = next_ip
        BY <1>3, <3>2, Zenon DEF Reply, Replies
      <3>4. leases'[m] = next_ip /\ \A n \in Macs : n # m => leases'[n] = leases[n]
        BY <1>1, <3>1, Zenon
      <3> QED BY <1>5, <2>1, <3>1, <3>3, <3>4, Zenon
    <2>2. CASE ~(leases[m] = NoIp /\ next_ip <= Last)
      BY <1>m, <1>6, <1>7, <1>8, <2>2, Zenon DEF HandleDiscover, serverVars
    <2> QED BY <2>1, <2>2, Zenon
  <1>9. CASE k.type = "Request" /\ HandleRequest(k)
    BY <1>m, <1>6, <1>7, <1>9, Zenon DEF HandleRequest, serverVars
  <1>10. CASE k.type = "Release" /\ HandleRelease(k)
    <2>1. /\ leases'[m] = NoIp /\ \A n \in Macs : n # m => leases'[n] = leases[n]
          /\ toClient' = toClient
      BY <1>1, <1>m, <1>10, Zenon DEF HandleRelease
    <2>2. cst[m] # "init" => ReleaseAhead(m, 1)
      BY <1>2, <1>k, <1>m, <1>10, Zenon DEF RInv, Guest, IsRelease
    <2>3. DOMAIN toServer \subseteq Nat /\ DOMAIN toServer' \subseteq Nat
      BY <1>0, <1>2, DequeueProperties
    <2>4. ASSUME NEW i \in DOMAIN toServer', IsRelease(i, m)', cst[m] # "init"
          PROVE  ReleaseAhead(m, i)'
      <3>1. ReleaseAhead(m, i + 1)
        BY <1>2, <2>4, Zenon DEF RInv, Guest, IsRelease, Shrunk
      <3>2. \A j \in DOMAIN toServer' : toServer'[j].mac = m /\ toServer'[j].xid = cxid[m] => i < j
        BY <1>2, <2>3, <2>4, <3>1 DEF ReleaseAhead, Shrunk
      <3> QED BY <1>0, <2>1, <3>1, <3>2, Zenon DEF ReleaseAhead
    <2>5. Guest(m)'
      BY <1>0, <2>1, <2>2, <2>4, Zenon DEF Guest, ReleaseAhead
    <2> QED BY <1>4, <2>1, <2>5, Zenon
  <1> QED BY <1>k, <1>8, <1>9, <1>10, Zenon DEF HandlePacket

(* A guest's own steps.                                                    *)
LEMMA ClientRefines == ASSUME NEW m \in Macs PROVE RInv /\ ClientStep(m) => RInv'
  <1> SUFFICES ASSUME RInv, ClientStep(m) PROVE RInv'
    BY Zenon
  <1>0. /\ IInv /\ IInv' /\ TypeOK /\ TypeOK' /\ NotAhead /\ Guest(m)
        /\ toServer \in Seq(Requests) /\ toClient \in [Macs -> Seq(Replies)]
    BY ClientKeeps, QueueTypes, Zenon DEF RInv, IInv
  <1>1. /\ cst \in [Macs -> States] /\ cip \in [Macs -> Ips \cup {NoIp}]
        /\ cxid \in [Macs -> Nat] /\ cxid' \in [Macs -> Nat] /\ cxid[m] + 1 \in Nat
    <2>1. /\ cst \in [Macs -> States] /\ cip \in [Macs -> Ips \cup {NoIp}]
          /\ cxid \in [Macs -> Nat] /\ cxid' \in [Macs -> Nat]
      BY <1>0, Zenon DEF TypeOK
    <2> QED BY <2>1
  <1>2. ASSUME NEW k \in Requests, k.mac = m, k.xid <= cxid'[m],
               Grown(toServer, toServer', k), leases' = leases,
               \A n \in Macs : n # m => /\ cst'[n] = cst[n] /\ cip'[n] = cip[n]
                                       /\ cxid'[n] = cxid[n] /\ toClient'[n] = toClient[n],
               cxid[m] <= cxid'[m],
               toClient'[m] = toClient[m] \/ Shrunk(toClient[m], toClient'[m]), Guest(m)'
        PROVE  RInv'
    <2>1. \A n \in Macs : n # m => Guest(n)'
      BY <1>0, <1>2, OtherGuest, Zenon DEF RInv
    <2>2. \A n \in Macs : cxid[n] <= cxid'[n]
      BY <1>1, <1>2
    <2>3. NotAhead'
      BY <1>0, <1>1, <1>2, <2>2, KeepsNotAhead, Zenon
    <2> QED BY <1>0, <1>2, <2>1, <2>3, Zenon DEF RInv
  <1>3. /\ \A type \in {"Discover", "Request", "Release"}, xid \in Nat, ip \in Ips \cup {NoIp} :
              /\ Message(type, m, xid, ip) \in Requests
              /\ Message(type, m, xid, ip).mac = m /\ Message(type, m, xid, ip).xid = xid
              /\ Message(type, m, xid, ip).type = type
              /\ Send(type, m, xid, ip) => Grown(toServer, toServer', Message(type, m, xid, ip))
    <2> SUFFICES ASSUME NEW type \in {"Discover", "Request", "Release"}, NEW xid \in Nat,
                        NEW ip \in Ips \cup {NoIp}
                 PROVE  /\ Message(type, m, xid, ip) \in Requests
                        /\ Message(type, m, xid, ip).mac = m /\ Message(type, m, xid, ip).xid = xid
                        /\ Message(type, m, xid, ip).type = type
                        /\ Send(type, m, xid, ip) => Grown(toServer, toServer',
                              Message(type, m, xid, ip))
      BY Zenon
    <2>1. /\ Message(type, m, xid, ip) \in Requests
          /\ Message(type, m, xid, ip).mac = m /\ Message(type, m, xid, ip).xid = xid
          /\ Message(type, m, xid, ip).type = type
      BY Zenon DEF Message, Requests
    <2> QED BY <1>0, <2>1, EnqueueGrows, Zenon DEF Send
  <1>4. Grown(toServer, toServer, Message("Discover", m, 0, NoIp))
    BY Zenon DEF Grown
  <1> USE DEF serverVars, clientVars
  <1>5. CASE ClientDiscovers(m)
    <2>1. /\ cst[m] = "init" /\ cst' = [cst EXCEPT ![m] = "selecting"]
          /\ cxid' = [cxid EXCEPT ![m] = cxid[m] + 1]
          /\ Send("Discover", m, cxid[m] + 1, NoIp)
          /\ leases' = leases /\ toClient' = toClient /\ cip' = cip
      BY <1>5, Zenon DEF ClientDiscovers
    <2> DEFINE k == Message("Discover", m, cxid[m] + 1, NoIp)
    <2>2. /\ k \in Requests /\ k.mac = m /\ k.xid = cxid[m] + 1 /\ k.type = "Discover"
          /\ Grown(toServer, toServer', k)
      BY <1>1, <1>3, <2>1
    <2> HIDE DEF k
    <2>3. /\ cst'[m] = "selecting" /\ cxid'[m] = cxid[m] + 1
          /\ cxid[m] <= cxid'[m] /\ k.xid <= cxid'[m]
          /\ \A n \in Macs : n # m => cst'[n] = cst[n] /\ cxid'[n] = cxid[n]
      BY <1>1, <2>1, <2>2
    <2>4. /\ \A j \in DOMAIN toServer : toServer[j].mac = m => toServer[j].xid # cxid'[m]
          /\ \A j \in DOMAIN toClient[m] : toClient[m][j].xid # cxid'[m]
      <3>1. /\ \A j \in DOMAIN toServer : toServer[j].mac = m =>
                     toServer[j].xid \in Nat /\ toServer[j].xid <= cxid[m]
            /\ \A j \in DOMAIN toClient[m] :
                  toClient[m][j].xid \in Nat /\ toClient[m][j].xid <= cxid[m]
        BY <1>0, QueueTypes, Zenon DEF NotAhead, Requests, Replies
      <3> QED BY <1>1, <2>3, <3>1
    <2>5. \A i \in DOMAIN toServer' : IsRelease(i, m)' => ReleaseAhead(m, i)'
      <3> SUFFICES ASSUME NEW i \in DOMAIN toServer', IsRelease(i, m)' PROVE ReleaseAhead(m, i)'
        BY Zenon
      <3>1. i \in DOMAIN toServer
        BY <2>2, Zenon DEF IsRelease, Grown
      <3>2. \A j \in DOMAIN toServer' : toServer'[j].mac = m /\ toServer'[j].xid = cxid'[m] => i < j
        BY <2>2, <2>4, <3>1, Zenon DEF Grown
      <3> QED BY <2>1, <2>3, <2>4, <3>2, Zenon DEF ReleaseAhead
    <2>6. Guest(m)'
      BY <2>1, <2>3, <2>4, <2>5, Zenon DEF Guest
    <2> QED BY <1>2, <2>1, <2>2, <2>3, <2>6, Zenon
  <1>6. CASE ClientRepeats(m) \/ ClientRenews(m)
    <2>1. /\ cst' = cst /\ cip' = cip /\ cxid' = cxid /\ leases' = leases /\ toClient' = toClient
      BY <1>6, Zenon DEF ClientRepeats, ClientRenews
    <2>2. \E type \in {"Discover", "Request"}, ip \in Ips \cup {NoIp} : Send(type, m, cxid[m], ip)
      BY <1>1, <1>6, Zenon DEF ClientRepeats, ClientRenews
    <2>3. PICK k \in Requests : /\ k.mac = m /\ k.xid = cxid[m] /\ k.type # "Release"
                               /\ Grown(toServer, toServer', k)
      BY <1>1, <1>3, <2>2
    <2>4. Guest(m)'
      BY <1>0, <2>1, <2>3, SameGuest, Zenon
    <2> QED BY <1>1, <1>2, <2>1, <2>3, <2>4
  <1>7. CASE ClientReleases(m) \/ ClientReboots(m)
    <2>1. /\ cst' = [cst EXCEPT ![m] = "init"] /\ cip' = [cip EXCEPT ![m] = NoIp]
          /\ cxid' = cxid /\ leases' = leases /\ toClient' = toClient
          /\ Send("Release", m, cxid[m], NoIp) \/ toServer' = toServer
      BY <1>7, Zenon DEF ClientReleases, ClientReboots, Forget
    <2>2. PICK k \in Requests : /\ k.mac = m /\ k.xid <= cxid[m] /\ Grown(toServer, toServer', k)
      <3>1. CASE Send("Release", m, cxid[m], NoIp)
        BY <1>1, <1>3, <3>1
      <3>2. CASE toServer' = toServer
        BY <1>1, <1>3, <1>4, <3>2
      <3> QED BY <2>1, <3>1, <3>2, Zenon
    <2>3. /\ cst'[m] = "init"
          /\ \A n \in Macs : n # m => cst'[n] = cst[n] /\ cip'[n] = cip[n]
      BY <1>1, <2>1, Zenon
    <2>4. Guest(m)'
      BY <2>3, Zenon DEF Guest
    <2> QED BY <1>1, <1>2, <2>1, <2>2, <2>3, <2>4
  <1>8. CASE ClientReceives(m)
    <2> DEFINE r == Head(toClient[m])
    <2>1. /\ toClient[m] # <<>> /\ toClient'[m] = Tail(toClient[m])
          /\ cxid' = cxid /\ leases' = leases
          /\ \A n \in Macs : n # m => toClient'[n] = toClient[n]
      BY <1>0, <1>8, Zenon DEF ClientReceives
    <2>2. /\ Shrunk(toClient[m], toClient'[m]) /\ 1 \in DOMAIN toClient[m] /\ r = toClient[m][1]
          /\ r \in Replies
      BY <1>0, <2>1, TailShrinks, DequeueProperties, Zenon
    <2>3. \/ /\ cst[m] \in {"selecting", "requesting"} /\ r.xid = cxid[m]
             /\ cst' = [cst EXCEPT ![m] = "requesting"] /\ cip' = [cip EXCEPT ![m] = r.ip]
             /\ Send("Request", m, cxid[m], r.ip)
          \/ /\ cst[m] \in {"selecting", "requesting"} /\ r.xid = cxid[m]
             /\ cst' = [cst EXCEPT ![m] = "bound"] /\ cip' = [cip EXCEPT ![m] = r.ip]
             /\ toServer' = toServer
          \/ UNCHANGED <<cst, cip, toServer>>
      BY <1>8, Zenon DEF ClientReceives
    <2>4. r.ip \in Ips /\ r.ip # NoIp
      BY <2>2, ZeroIsNoIp, Zenon DEF Replies
    <2> HIDE DEF r
    <2>5. PICK k \in Requests : /\ k.mac = m /\ k.xid <= cxid[m] /\ k.type # "Release"
                               /\ Grown(toServer, toServer', k)
      <3>1. CASE Send("Request", m, cxid[m], r.ip)
        BY <1>1, <1>3, <2>4, <3>1
      <3>2. CASE toServer' = toServer
        BY <1>1, <1>3, <1>4, <3>2
      <3> QED BY <2>3, <3>1, <3>2, Zenon
    <2>6. CASE UNCHANGED <<cst, cip, toServer>>
      <3>1. Guest(m)'
        BY <1>0, <2>1, <2>2, <2>6 DEF Guest, ReleaseAhead, IsRelease, Shrunk
      <3> QED BY <1>1, <1>2, <2>1, <2>2, <2>5, <2>6, <3>1
    <2>7. ASSUME NEW s \in {"requesting", "bound"}, cst[m] \in {"selecting", "requesting"},
                 r.xid = cxid[m], cst' = [cst EXCEPT ![m] = s], cip' = [cip EXCEPT ![m] = r.ip]
          PROVE  RInv'
      <3>1. /\ leases[m] = r.ip
            /\ \A i \in DOMAIN toServer : ~IsRelease(i, m)
        BY <1>0, <2>2, <2>7, Zenon DEF Guest, ReleaseAhead
      <3>2. /\ cst'[m] = s /\ cip'[m] = r.ip
            /\ \A n \in Macs : n # m => cst'[n] = cst[n] /\ cip'[n] = cip[n]
        BY <1>1, <2>7, Zenon
      <3>3. \A i \in DOMAIN toServer' : ~IsRelease(i, m)'
        BY <2>5, <3>1, Zenon DEF IsRelease, Grown
      <3>4. \A j \in DOMAIN toClient'[m] :
               toClient'[m][j].xid = cxid[m] => toClient'[m][j].ip = leases[m]
        BY Zenon, <1>0, <2>2, <2>7 DEF Guest, Shrunk
      <3>5. Guest(m)'
        BY <2>1, <2>4, <3>1, <3>2, <3>3, <3>4, Zenon DEF Guest
      <3> QED BY <1>1, <1>2, <2>1, <2>2, <2>5, <3>2, <3>5
    <2> QED BY <2>3, <2>6, <2>7, Zenon
  <1> QED BY <1>5, <1>6, <1>7, <1>8, Zenon DEF ClientStep

(* A frame that is lost is one fewer ahead of the others.                  *)
LEMMA FrameLostRefines == RInv /\ FrameLost => RInv'
  <1> SUFFICES ASSUME RInv, FrameLost PROVE RInv'
    BY Zenon
  <1>0. /\ IInv /\ IInv' /\ TypeOK /\ TypeOK' /\ NotAhead
        /\ toServer \in Seq(Requests) /\ toClient \in [Macs -> Seq(Replies)]
        /\ cxid \in [Macs -> Nat]
    BY Zenon, FrameLostKeeps, QueueTypes DEF RInv, IInv, TypeOK
  <1>1. leases' = leases /\ cst' = cst /\ cip' = cip /\ cxid' = cxid
    BY Zenon DEF FrameLost, serverVars, clientVars
  <1>2. \A n \in Macs : cxid[n] <= cxid'[n]
    BY <1>0, <1>1
  <1>3. CASE toServer # <<>> /\ toServer' = Tail(toServer) /\ UNCHANGED toClient
    <2>1. Shrunk(toServer, toServer')
      BY <1>0, <1>3, TailShrinks, Zenon
    <2>2. \A n \in Macs : Guest(n)'
      BY <1>0, <1>1, <1>3, <2>1, OtherGuest, Zenon DEF RInv
    <2>3. NotAhead'
      BY <1>0, <1>1, <1>2, <1>3, <2>1, KeepsNotAhead, Zenon
    <2> QED BY <1>0, <2>2, <2>3, Zenon DEF RInv
  <1>4. ASSUME NEW m \in Macs, UNCHANGED toServer, toClient[m] # <<>>,
               toClient' = [toClient EXCEPT ![m] = Tail(toClient[m])]
        PROVE  RInv'
    <2>1. Shrunk(toClient[m], toClient'[m]) /\ \A n \in Macs : n # m => toClient'[n] = toClient[n]
      BY <1>0, <1>4, TailShrinks, Zenon
    <2>2. \A n \in Macs : Guest(n)'
      BY <1>1, <1>4, <2>1 DEF RInv, Guest, ReleaseAhead, IsRelease, Shrunk
    <2>3. NotAhead'
      BY <1>0, <1>1, <1>2, <1>4, <2>1, KeepsNotAhead, Zenon
    <2> QED BY <1>0, <2>2, <2>3, Zenon DEF RInv
  <1> QED BY <1>3, <1>4, Zenon DEF FrameLost

-----------------------------------------------------------------------------
(* The invariant of the refinement holds in every reachable state.         *)
THEOREM DhcpOrdered == Spec => []RInv
  <1>1. RInv /\ UNCHANGED vars => RInv'
    <2> SUFFICES ASSUME RInv, UNCHANGED vars PROVE RInv'
      BY Zenon
    <2> USE DEF vars, serverVars, clientVars
    <2>1. \A m \in Macs : Known(m)' = Known(m)
      BY Zenon DEF Known
    <2>2. IInv'
      BY Zenon, <2>1, NothingNew DEF RInv, IInv, TypeOK, BoundHasIp
    <2>3. NotAhead' /\ \A m \in Macs : Guest(m)'
      BY DEF RInv, NotAhead, Guest, ReleaseAhead, IsRelease
    <2> QED BY <2>2, <2>3, Zenon DEF RInv
  <1>2. RInv /\ [Next]_vars => RInv'
    BY <1>1, HandlePacketRefines, ClientRefines, FrameLostRefines, Zenon DEF Next
  <1> QED BY <1>2, InitRInv, PTL DEF Spec

(* dhcp.rs:107-120,147-150: a guest that uses an address has the lease, so *)
(* nothing it sent earlier can take it away.                               *)
THEOREM DhcpBoundHasLease == Spec => []BoundHasLease
  <1>1. RInv => BoundHasLease
    BY Zenon DEF RInv, Guest, BoundHasLease
  <1> QED BY <1>1, DhcpOrdered, PTL

(* dhcp.rs:75-172: the server and its guests implement the pool of         *)
(* addresses: get_or_allocate_ip allocates, an Ack lets a guest use its    *)
(* address, and handle_release takes back one that is not in use.          *)
THEOREM DhcpServes == Spec => ServesAddresses
  <1>1. Init => Pool!Init
    BY RangeAssumption DEF Init, Pool!Init, InUse, NoIp
  <1>2. RInv /\ RInv' /\ [Next]_vars => [Pool!Next]_(Pool!poolVars)
    <2> SUFFICES ASSUME RInv, RInv', Next PROVE Pool!Next \/ UNCHANGED Pool!poolVars
      BY Zenon DEF vars, serverVars, clientVars, Pool!poolVars, InUse
    <2>0. /\ TypeOK /\ leases \in [Macs -> Ips \cup {NoIp}] /\ next_ip \in Nat /\ next_ip >= First
          /\ cst \in [Macs -> States] /\ cip \in [Macs -> Ips \cup {NoIp}]
          /\ toServer \in Seq(Requests)
      BY Zenon, QueueTypes DEF RInv, IInv, BelowNext, TypeOK
    <2>1. CASE HandlePacket
      <3>1. InUse' = InUse
        BY <2>1, Zenon DEF HandlePacket, clientVars, InUse
      <3>2. 1 \in DOMAIN toServer /\ Head(toServer) = toServer[1] /\ Head(toServer) \in Requests
        BY <2>0, <2>1, TailShrinks, DequeueProperties, Zenon DEF HandlePacket
      <3>k. PICK k \in Requests : k = Head(toServer)
        BY <3>2, Zenon
      <3>m. PICK m \in Macs : m = k.mac
        BY Zenon DEF Requests
      <3>3. CASE UNCHANGED serverVars
        BY <3>1, <3>3, Zenon DEF serverVars, Pool!poolVars
      <3>4. CASE leases[m] = NoIp /\ next_ip <= Last /\ leases' = [leases EXCEPT ![m] = next_ip]
                   /\ next_ip' = next_ip + 1
        <4>1. /\ next_ip \in Ips /\ next_ip \notin First .. next_ip - 1
              /\ First .. next_ip' - 1 = (First .. next_ip - 1) \cup {next_ip}
          BY <2>0, <3>4, RangeAssumption DEF Ips
        <4>2. Pool!Allocate(m)
          BY Zenon, <3>1, <3>4, <4>1 DEF Pool!Allocate
        <4> QED BY <4>2, Zenon DEF Pool!Next
      <3>5. CASE k.type = "Release" /\ HandleRelease(k)
        <4>1. leases' = [leases EXCEPT ![m] = NoIp] /\ next_ip' = next_ip
          BY <3>5, <3>m, Zenon DEF HandleRelease
        <4>2. cst[m] # "bound"
          BY <3>2, <3>k, <3>m, <3>5 DEF RInv, Guest, IsRelease, ReleaseAhead
        <4>3. InUse[m] = NoIp
          BY <4>2, Zenon DEF InUse
        <4>4. CASE leases[m] = NoIp
          <5>1. leases' = leases
            BY <2>0, <4>1, <4>4, Zenon
          <5> QED BY <3>1, <4>1, <5>1, Zenon DEF Pool!poolVars
        <4>5. CASE leases[m] # NoIp
          <5>1. Pool!Return(m)
            BY <3>1, <4>1, <4>3, <4>5, Zenon DEF Pool!Return
          <5> QED BY <5>1, Zenon DEF Pool!Next
        <4> QED BY <4>4, <4>5, Zenon
      <3>6. CASE k.type = "Discover" /\ HandleDiscover(k)
        BY <3>m, <3>3, <3>4, <3>6, Zenon DEF HandleDiscover
      <3>7. CASE k.type = "Request" /\ HandleRequest(k)
        BY <3>3, <3>7, Zenon DEF HandleRequest
      <3> QED BY <2>1, <3>k, <3>5, <3>6, <3>7, Zenon DEF HandlePacket
    <2>2. ASSUME NEW m \in Macs, ClientStep(m) PROVE Pool!Next \/ UNCHANGED Pool!poolVars
      <3>1. leases' = leases /\ next_ip' = next_ip
        BY <2>2, Zenon DEF ClientStep, ClientDiscovers, ClientRepeats, ClientRenews, ClientReceives,
                    ClientReleases, ClientReboots, serverVars
      <3>2. \A n \in Macs : n # m => cst'[n] = cst[n] /\ cip'[n] = cip[n]
        BY <2>0, <2>2, Zenon DEF ClientStep, ClientDiscovers, ClientRepeats, ClientRenews,
           ClientReceives,
                          ClientReleases, ClientReboots, clientVars, Forget
      <3>3. InUse' = [InUse EXCEPT ![m] = InUse'[m]]
        BY Zenon, <3>2 DEF InUse
      <3>4. CASE InUse'[m] = InUse[m]
        <4>1. InUse' = InUse
          BY Zenon, <3>3, <3>4 DEF InUse
        <4> QED BY <3>1, <4>1, Zenon DEF Pool!poolVars
      <3>5. CASE InUse'[m] = NoIp /\ InUse[m] # NoIp
        <4>1. Pool!Leave(m)
          BY <3>1, <3>3, <3>5, Zenon DEF Pool!Leave
        <4> QED BY <4>1, Zenon DEF Pool!Next
      <3>6. CASE InUse'[m] # NoIp /\ InUse'[m] # InUse[m]
        <4>1. cst'[m] = "bound" /\ InUse'[m] = cip'[m]
          BY <3>6, Zenon DEF InUse
        <4>2. leases'[m] = cip'[m]
          BY <4>1, Zenon DEF RInv, Guest
        <4>3. Pool!Use(m)
          BY <3>1, <3>3, <3>6, <4>1, <4>2, Zenon DEF Pool!Use
        <4> QED BY <4>3, Zenon DEF Pool!Next
      <3> QED BY <3>4, <3>5, <3>6, Zenon
    <2>3. CASE FrameLost
      BY <2>3, Zenon DEF FrameLost, serverVars, clientVars, Pool!poolVars, InUse
    <2> QED BY <2>1, <2>2, <2>3, Zenon DEF Next
  <1> QED BY <1>1, <1>2, DhcpOrdered, PTL DEF Spec, ServesAddresses, Pool!Spec
=============================================================================
