---------------------------- MODULE UserNatProofs ----------------------------
(***************************************************************************)
(* The safety invariants of UserNatStack, for all flows, capacities and    *)
(* bounds: tasks have an owner, the segments of a connection are in order  *)
(* and without a gap, what was acknowledged is passed on, and no more      *)
(* tasks run than the limit of connections.                                *)
(***************************************************************************)
EXTENDS UserNatStack, TLAPS

-----------------------------------------------------------------------------
(* The inductive invariant.                                                *)

Tasks == {"none", "select", "send", "store", "fin", "ended"}
Conns(S) ==
    [flow : Flows \cup {0}, state : {"none", "SynReceived", "Established", "FinWait"},
     next : Nat, our_seq : Nat, guest_ack : Nat, task : Tasks, aborted : BOOLEAN, segs : Int,
     data : Seq(S), accepted : Seq(S), remote : Seq(S)]

(* What units of data and frames are does not matter: they are in some S.  *)
Typed(S) ==
    /\ made \in 0 .. NConn /\ tcp \in [Flows -> 0 .. made] /\ conn \in [Ids -> Conns(S)]
    /\ nat_rx \in Seq(S) /\ gin \in Seq(S)
Types == \E S : Typed(S)

TcpKinds == {"RST", "SYN", "FIN", "ACK", "DATA"}
GuestFrames == \A i \in 1 .. Len(gin) : gin[i].kind \in TcpKinds => gin[i].flow \in Flows

(* A number that was not given out has no task; an entry is its flow's.    *)
Table ==
    /\ \A n \in Ids : n > made => conn[n].task = "none"
    /\ \A n \in Ids : conn[n].task # "none" => conn[n].flow \in Flows
    /\ \A f \in Flows : tcp[f] # 0 => conn[tcp[f]].flow = f

(* What a handler found in the table is there when its await is over.      *)
Awaits ==
    /\ loop.at = "connect" => loop.flow \in Flows /\ tcp[loop.flow] = 0
    /\ loop.at = "feed" =>
          loop.n \in 1 .. made /\ conn[loop.n].flow \in Flows /\ tcp[conn[loop.n].flow] = loop.n
    /\ loop.at = "reply" => loop.frame.kind \notin {"DATA", "FIN"}
    /\ loop.at = "reply" /\ loop.then = "insert" =>
          /\ loop.frame.n \in 1 .. made /\ conn[loop.frame.n].flow = loop.frame.flow
          /\ loop.frame.flow \in Flows /\ tcp[loop.frame.flow] = 0
    /\ loop.at = "reply" /\ loop.then = "remove" =>
          loop.frame.flow \in Flows /\ tcp[loop.frame.flow] # 0

(* Frames are from tasks that were started, a FIN from one that has ended, *)
(* and their numbers are behind the next one.                              *)
Senders ==
    \A n \in Ids : \A i \in SegmentsOf(n) :
        /\ nat_rx[i].seq \in Nat /\ conn[n].task # "none"
        /\ nat_rx[i].kind = "FIN" => conn[n].task = "ended"
        /\ nat_rx[i].kind # "FIN" => nat_rx[i].seq < NextSeq(n)

Owners == Table /\ Awaits /\ TasksOwned
Frames == Senders /\ SegmentsContiguous
NatInv == Types /\ GuestFrames /\ Owners /\ AcceptedIsForwarded /\ Frames

-----------------------------------------------------------------------------
(* Sequences: queueing at one end and taking at the other.                 *)
LEMMA TakeFirst ==
    ASSUME NEW S, NEW a \in Seq(S), NEW b \in Seq(S), b # <<>>
    PROVE  /\ Append(a, Head(b)) \o Tail(b) = a \o b
           /\ Append(a, Head(b)) \in Seq(S) /\ Tail(b) \in Seq(S)
<1>1. Append(a, Head(b)) \o Tail(b) = a \o b
    OBVIOUS
<1>2. Append(a, Head(b)) \in Seq(S) /\ Tail(b) \in Seq(S)
    OBVIOUS
<1> QED BY <1>1, <1>2, Zenon

LEMMA StaysSeq ==
    ASSUME NEW T, NEW s \in Seq(T), NEW k \in T
    PROVE  <<>> \in Seq(T) /\ Append(s, k) \in Seq(T) /\ (s # <<>> => Tail(s) \in Seq(T))
    OBVIOUS

(* Any larger set will do for the units and the frames.                    *)
LEMMA Wider ==
    ASSUME NEW S, NEW T, S \subseteq T, Typed(S)
    PROVE  Typed(T)
<1>1. Seq(S) \subseteq Seq(T)
    OBVIOUS
<1>2. Conns(S) \subseteq Conns(T)
    BY <1>1, Zenon DEF Conns
<1>3. [Ids -> Conns(S)] \subseteq [Ids -> Conns(T)]
    BY <1>2, Zenon
<1> QED BY <1>1, <1>3, Zenon DEF Typed

-----------------------------------------------------------------------------
(* The frames in nat_rx.                                                   *)

(* The connection is where it was in its numbers, and has not begun anew.  *)
Pace(m) ==
    /\ NextSeq(m)' = NextSeq(m) /\ conn'[m].task # "none"
    /\ conn[m].task = "ended" => conn'[m].task = "ended"

LEMMA NoFrame ==
    ASSUME Frames, nat_rx' = nat_rx \/ nat_rx' = <<>>,
           \A m \in Ids : conn[m].task = "none" \/ Pace(m)
    PROVE  Frames'
<1>1. CASE nat_rx' = <<>>
    BY <1>1 DEF Frames, Senders, SegmentsContiguous, SegmentsOf
<1>2. CASE nat_rx' = nat_rx
  <2>1. ASSUME NEW m \in Ids PROVE SegmentsOf(m)' = SegmentsOf(m)
      BY <1>2, Zenon DEF SegmentsOf
  <2>2. ASSUME NEW m \in Ids, NEW i \in SegmentsOf(m) PROVE Pace(m)
      BY <2>2, Zenon DEF Frames, Senders
  <2>3. Senders'
      BY <1>2, <2>1, <2>2, Zenon DEF Frames, Senders, Pace
  <2>4. SegmentsContiguous'
      BY <1>2, <2>1, <2>2, Zenon DEF Frames, SegmentsContiguous, Newest, Pace
  <2> QED BY <2>3, <2>4, Zenon DEF Frames
<1> QED BY <1>1, <1>2, Zenon

LEMMA Queued ==
    ASSUME Types, NEW k, nat_rx' = Append(nat_rx, k)
    PROVE  /\ DOMAIN nat_rx = 1 .. Len(nat_rx) /\ Len(nat_rx) \in Nat
           /\ DOMAIN nat_rx' = 1 .. Len(nat_rx) + 1 /\ nat_rx'[Len(nat_rx) + 1] = k
           /\ \A i \in 1 .. Len(nat_rx) : nat_rx'[i] = nat_rx[i]
<1>1. PICK S : nat_rx \in Seq(S)
    BY Zenon DEF Types, Typed
<1> QED BY <1>1

(* What was sent before stays in order.                                    *)
LEMMA SentBefore ==
    ASSUME Frames, NEW m \in Ids, Pace(m), \A j \in SegmentsOf(m) : nat_rx'[j] = nat_rx[j],
           NEW i \in SegmentsOf(m)
    PROVE  LET later == {j \in SegmentsOf(m) : i < j} IN
           /\ \A j \in later : nat_rx'[i].kind # "FIN" /\ nat_rx'[i].seq < nat_rx'[j].seq
           /\ IF later = {} THEN Newest(m, nat_rx[i])'
              ELSE \E j \in later : nat_rx'[j].seq = nat_rx'[i].seq + 1
    BY Zenon DEF Frames, SegmentsContiguous, Newest, Pace

LEMMA OtherFrame ==
    ASSUME Types, Frames, NEW k, k.kind \notin {"DATA", "FIN"}, nat_rx' = Append(nat_rx, k),
           \A m \in Ids : conn[m].task = "none" \/ Pace(m)
    PROVE  Frames'
<1>1. /\ DOMAIN nat_rx = 1 .. Len(nat_rx) /\ Len(nat_rx) \in Nat
      /\ DOMAIN nat_rx' = 1 .. Len(nat_rx) + 1 /\ nat_rx'[Len(nat_rx) + 1] = k
      /\ \A i \in 1 .. Len(nat_rx) : nat_rx'[i] = nat_rx[i]
    BY Queued, Zenon
<1>2. ASSUME NEW m \in Ids PROVE SegmentsOf(m)' = SegmentsOf(m)
    BY <1>1 DEF SegmentsOf
<1>3. ASSUME NEW m \in Ids, NEW i \in SegmentsOf(m) PROVE Pace(m) /\ nat_rx'[i] = nat_rx[i]
    BY <1>1, Zenon DEF Frames, Senders, SegmentsOf
<1>4. Senders'
    BY <1>2, <1>3, Zenon DEF Frames, Senders, Pace
<1>5. SegmentsContiguous'
  <2> SUFFICES ASSUME NEW m \in Ids, NEW i \in SegmentsOf(m)
               PROVE  LET later == {j \in SegmentsOf(m) : i < j} IN
                      /\ \A j \in later : nat_rx'[i].kind # "FIN" /\ nat_rx'[i].seq < nat_rx'[j].seq
                      /\ IF later = {} THEN Newest(m, nat_rx[i])'
                         ELSE \E j \in later : nat_rx'[j].seq = nat_rx'[i].seq + 1
      BY <1>2, Zenon DEF SegmentsContiguous
  <2> QED BY <1>3, SentBefore, Zenon
<1> QED BY <1>4, <1>5, Zenon DEF Frames

(* A task sends the frame with its next number, a FIN as its last.         *)
SegmentSent(n, k) ==
    /\ k.kind \in {"DATA", "FIN"} /\ k.n = n /\ k.seq = NextSeq(n)
    /\ conn[n].task \notin {"none", "ended"} /\ nat_rx' = Append(nat_rx, k)
    /\ conn'[n].task = IF k.kind = "FIN" THEN "ended" ELSE "store"
    /\ NextSeq(n)' = IF k.kind = "FIN" THEN NextSeq(n) ELSE NextSeq(n) + 1

LEMMA SegmentFrame ==
    ASSUME Types, Frames, NEW n \in Ids, NEW k, SegmentSent(n, k), NextSeq(n) \in Nat,
           \A m \in Ids : m = n \/ conn[m].task = "none" \/ Pace(m)
    PROVE  Frames'
<1> SUFFICES ASSUME k.kind \in {"DATA", "FIN"}, k.n = n, k.seq = NextSeq(n),
                    conn[n].task \notin {"none", "ended"}, nat_rx' = Append(nat_rx, k),
                    conn'[n].task = IF k.kind = "FIN" THEN "ended" ELSE "store",
                    NextSeq(n)' = IF k.kind = "FIN" THEN NextSeq(n) ELSE NextSeq(n) + 1
             PROVE  Frames'
    BY Zenon DEF SegmentSent
<1>0. PICK e : e = Len(nat_rx) + 1
    BY Zenon
<1>1. /\ DOMAIN nat_rx = 1 .. Len(nat_rx) /\ Len(nat_rx) \in Nat
      /\ DOMAIN nat_rx' = 1 .. e /\ nat_rx'[e] = k
      /\ \A i \in 1 .. Len(nat_rx) : nat_rx'[i] = nat_rx[i]
    BY <1>0, Queued, Zenon
<1>2. e \in Nat /\ \A i \in DOMAIN nat_rx : i \in Nat /\ i < e
    BY <1>0, <1>1
<1>3. ASSUME NEW m \in Ids, m # n PROVE SegmentsOf(m)' = SegmentsOf(m)
    BY <1>0, <1>1, <1>3 DEF SegmentsOf
<1>4. SegmentsOf(n)' = SegmentsOf(n) \cup {e} /\ e \notin SegmentsOf(n)
    BY <1>0, <1>1 DEF SegmentsOf
<1>5. ASSUME NEW m \in Ids, NEW i \in SegmentsOf(m)
      PROVE  nat_rx'[i] = nat_rx[i] /\ i < e /\ i \in Nat /\ (m # n => Pace(m))
    BY <1>1, <1>2, Zenon DEF Frames, Senders, SegmentsOf
<1>6. \A i \in SegmentsOf(n) :
          nat_rx[i].kind # "FIN" /\ nat_rx[i].seq \in Nat /\ nat_rx[i].seq < NextSeq(n)
    BY Zenon DEF Frames, Senders
<1>7. Senders'
  <2>1. /\ k.seq \in Nat /\ conn'[n].task # "none" /\ (k.kind = "FIN" => conn'[n].task = "ended")
        /\ k.kind # "FIN" => k.seq < NextSeq(n)'
      OBVIOUS
  <2>2. \A i \in SegmentsOf(n) : nat_rx[i].seq < NextSeq(n)'
      BY <1>6
  <2> SUFFICES ASSUME NEW m \in Ids, NEW i \in SegmentsOf(m)'
               PROVE  /\ nat_rx'[i].seq \in Nat /\ conn'[m].task # "none"
                      /\ nat_rx'[i].kind = "FIN" => conn'[m].task = "ended"
                      /\ nat_rx'[i].kind # "FIN" => nat_rx'[i].seq < NextSeq(m)'
      BY Zenon DEF Senders
  <2>3. CASE m # n
    <3>1. i \in SegmentsOf(m) /\ nat_rx'[i] = nat_rx[i] /\ Pace(m)
        BY <1>3, <1>5, <2>3, Zenon
    <3> QED BY <3>1, Zenon DEF Frames, Senders, Pace
  <2>4. CASE m = n /\ i = e
      BY <1>1, <2>1, <2>4, Zenon
  <2>5. CASE m = n /\ i # e
    <3>1. i \in SegmentsOf(n) /\ nat_rx'[i] = nat_rx[i]
        BY <1>4, <1>5, <2>5, Zenon
    <3> QED BY <3>1, <1>6, <2>1, <2>2, <2>5, Zenon
  <2> QED BY <2>3, <2>4, <2>5, Zenon
<1>8. SegmentsContiguous'
  <2>1. ASSUME NEW m \in Ids, m # n, NEW i \in SegmentsOf(m)
        PROVE  LET later == {j \in SegmentsOf(m) : i < j} IN
               /\ \A j \in later : nat_rx'[i].kind # "FIN" /\ nat_rx'[i].seq < nat_rx'[j].seq
               /\ IF later = {} THEN Newest(m, nat_rx[i])'
                  ELSE \E j \in later : nat_rx'[j].seq = nat_rx'[i].seq + 1
    <3>1. (\A j \in SegmentsOf(m) : nat_rx'[j] = nat_rx[j]) /\ Pace(m)
        BY <1>5, <2>1, Zenon
    <3> QED BY <3>1, SentBefore, Zenon
  <2>2. ASSUME NEW i \in SegmentsOf(n)
        PROVE  LET later == {j \in SegmentsOf(n) \cup {e} : i < j} IN
               /\ \A j \in later : nat_rx'[i].kind # "FIN" /\ nat_rx'[i].seq < nat_rx'[j].seq
               /\ \E j \in later : nat_rx'[j].seq = nat_rx'[i].seq + 1
    <3>1. i < e /\ nat_rx'[i] = nat_rx[i] /\ nat_rx'[e] = k
        BY <1>1, <1>5, <2>2, Zenon
    <3>2. nat_rx[i].kind # "FIN" /\ nat_rx[i].seq < k.seq
        BY <1>6, <2>2, Zenon
    <3>3. CASE \E j \in SegmentsOf(n) : i < j
      <4>1. /\ \A j \in SegmentsOf(n) : i < j => nat_rx[i].seq < nat_rx[j].seq
            /\ \E j \in SegmentsOf(n) : i < j /\ nat_rx[j].seq = nat_rx[i].seq + 1
          BY <2>2, <3>3, Zenon DEF Frames, SegmentsContiguous
      <4>2. \A j \in SegmentsOf(n) : nat_rx'[j] = nat_rx[j]
          BY <1>5, Zenon
      <4> QED BY <3>1, <3>2, <4>1, <4>2, Zenon
    <3>4. CASE ~ \E j \in SegmentsOf(n) : i < j
      <4>1. nat_rx[i].seq = NextSeq(n) - 1
          BY <3>2, <3>4, Zenon DEF Frames, SegmentsContiguous, Newest
      <4>2. k.seq = nat_rx[i].seq + 1
          BY <4>1, <1>6, SMT
      <4> QED BY <3>1, <3>2, <3>4, <4>2, Zenon
    <3> QED BY <3>3, <3>4, Zenon
  <2>3. ~ \E j \in SegmentsOf(n) \cup {e} : e < j
      BY <1>2, <1>5
  <2>4. Newest(n, nat_rx[e])'
    <3>1. k.seq = IF k.kind = "FIN" THEN NextSeq(n)' ELSE NextSeq(n)' - 1
        OBVIOUS
    <3> QED BY <1>1, <3>1, Zenon DEF Newest
  <2> SUFFICES ASSUME NEW m \in Ids, NEW i \in SegmentsOf(m)'
               PROVE  LET later == {j \in SegmentsOf(m)' : i < j} IN
                      /\ \A j \in later : nat_rx'[i].kind # "FIN" /\ nat_rx'[i].seq < nat_rx'[j].seq
                      /\ IF later = {} THEN Newest(m, nat_rx[i])'
                         ELSE \E j \in later : nat_rx'[j].seq = nat_rx'[i].seq + 1
      BY Zenon DEF SegmentsContiguous
  <2>6. CASE m # n
      BY <1>3, <2>1, <2>6, Zenon
  <2>7. CASE m = n /\ i = e
    <3>1. SegmentsOf(m)' = SegmentsOf(n) \cup {e}
        BY <1>4, <2>7, Zenon
    <3>2. {j \in SegmentsOf(m)' : i < j} = {}
        BY <2>3, <2>7, <3>1, Zenon
    <3> QED BY <2>4, <2>7, <3>2, Zenon
  <2>8. CASE m = n /\ i # e
    <3>1. i \in SegmentsOf(n) /\ SegmentsOf(m)' = SegmentsOf(n) \cup {e}
        BY <1>4, <2>8, Zenon
    <3> QED BY <2>2, <3>1, Zenon
  <2> QED BY <2>6, <2>7, <2>8, Zenon
<1> QED BY <1>7, <1>8, Zenon DEF Frames

-----------------------------------------------------------------------------
(* What keeps the other parts of the invariant.                            *)

LEMMA InTable ==
    ASSUME Types
    PROVE  /\ made \in Nat /\ made <= NConn
           /\ \A n \in 1 .. made : n \in Ids
           /\ \A f \in Flows : tcp[f] # 0 => tcp[f] \in 1 .. made /\ tcp[f] \in Ids
           /\ \A n \in Ids : n \in Nat /\ n # 0
<1>1. PICK S : Typed(S)
    BY Zenon DEF Types
<1>2. made \in 0 .. NConn /\ NConn \in Nat
    BY <1>1, NatAssumption, Zenon DEF Typed
<1>3. \A f \in Flows : tcp[f] \in 0 .. made
    BY <1>1, Zenon DEF Typed
<1> QED BY <1>2, <1>3 DEF Ids

(* A task may end, and be told to.                                         *)
Onward(m) ==
    /\ conn'[m].flow = conn[m].flow /\ (Running(m)' => Running(m))
    /\ conn[m].aborted => conn'[m].aborted
    /\ conn[m].task = "none" => conn'[m].task = "none"

LEMMA OwnersKept ==
    ASSUME Types, Owners, tcp' = tcp, made' = made, loop' = loop, \A m \in Ids : Onward(m)
    PROVE  Owners'
<1>1. Table'
    BY InTable, Zenon DEF Owners, Table, Onward
<1>2. Awaits'
    BY InTable, Zenon DEF Owners, Awaits, Onward
<1>3. TasksOwned'
    BY Zenon DEF Owners, TasksOwned, Onward
<1> QED BY <1>1, <1>2, <1>3, Zenon DEF Owners

(* The data of the connections that run is as it was.                      *)
LEMMA DataKept ==
    ASSUME AcceptedIsForwarded,
           \A m \in Ids : Running(m)' => /\ Running(m) /\ conn'[m].remote = conn[m].remote
                                         /\ conn'[m].data = conn[m].data
                                         /\ conn'[m].accepted = conn[m].accepted
    PROVE  AcceptedIsForwarded'
    BY Zenon DEF AcceptedIsForwarded

LEMMA GuestKept ==
    ASSUME GuestFrames, gin' = gin
    PROVE  GuestFrames'
    BY Zenon DEF GuestFrames

-----------------------------------------------------------------------------
(* The task of a connection.                                               *)

LEMMA Ended ==
    ASSUME NEW S, NEW c \in Conns(S)
    PROVE  /\ Over(c) \in Conns(S) /\ Over(c).task = "ended" /\ Over(c).flow = c.flow
           /\ Over(c).our_seq = c.our_seq /\ Over(c).aborted = c.aborted
<1>1. <<>> \in Seq(S) /\ 0 \in Int /\ "ended" \in Tasks
    BY DEF Tasks
<1>2. PICK t \in Tasks, z \in Int, e \in Seq(S) : t = "ended" /\ z = 0 /\ e = <<>>
    BY <1>1, Zenon
<1>3. LET r == [c EXCEPT !.task = t, !.data = e, !.segs = z, !.accepted = e, !.remote = e] IN
      /\ r \in Conns(S) /\ r.task = t /\ r.flow = c.flow
      /\ r.our_seq = c.our_seq /\ r.aborted = c.aborted
    BY Zenon DEF Conns
<1> QED BY <1>2, <1>3, Zenon DEF Over

LEMMA Written ==
    ASSUME NEW S, NEW c \in Conns(S), c.data # <<>>
    PROVE  LET r == [c EXCEPT !.data = Tail(c.data), !.remote = Append(c.remote, Head(c.data)),
                              !.guest_ack = c.guest_ack + 1] IN
           /\ r \in Conns(S) /\ r.task = c.task /\ r.flow = c.flow /\ r.our_seq = c.our_seq
           /\ r.aborted = c.aborted /\ r.accepted = c.accepted
           /\ r.remote \o r.data = c.remote \o c.data
<1>1. c.data \in Seq(S) /\ c.remote \in Seq(S) /\ c.guest_ack \in Nat
    BY Zenon DEF Conns
<1>2. /\ Tail(c.data) \in Seq(S) /\ Append(c.remote, Head(c.data)) \in Seq(S)
      /\ c.guest_ack + 1 \in Nat
  <2>1. c.guest_ack + 1 \in Nat
      BY <1>1
  <2> QED BY <1>1, <2>1, TakeFirst, Zenon
<1>3. PICK d \in Seq(S), r \in Seq(S), q \in Nat :
          d = Tail(c.data) /\ r = Append(c.remote, Head(c.data)) /\ q = c.guest_ack + 1
    BY <1>2, Zenon
<1>4. r \o d = c.remote \o c.data
  <2>1. Append(c.remote, Head(c.data)) \o Tail(c.data) = c.remote \o c.data
      BY <1>1, TakeFirst, Zenon
  <2> QED BY <1>3, <2>1, Zenon
<1>5. LET u == [c EXCEPT !.data = d, !.remote = r, !.guest_ack = q] IN
      /\ u \in Conns(S) /\ u.task = c.task /\ u.flow = c.flow /\ u.our_seq = c.our_seq
      /\ u.aborted = c.aborted /\ u.accepted = c.accepted /\ u.data = d /\ u.remote = r
    BY Zenon DEF Conns
<1> QED BY <1>3, <1>4, <1>5, Zenon

AtTask(c, t) == [c EXCEPT !.task = t]
AfterRead(c, t, z) == [c EXCEPT !.task = t, !.segs = z]
AfterStore(c, t, z, q) == [c EXCEPT !.segs = z, !.our_seq = q, !.task = t]

(* What has the fields of c but those of the task.                         *)
Like(r, c, t, q, S) ==
    /\ r \in Conns(S) /\ r.task = t /\ r.flow = c.flow /\ r.our_seq = q
    /\ r.aborted = c.aborted /\ r.accepted = c.accepted /\ r.data = c.data
    /\ r.remote = c.remote

LEMMA TaskAt ==
    ASSUME NEW S, NEW c \in Conns(S), NEW t \in Tasks, NEW z \in Int
    PROVE  /\ Like(AtTask(c, t), c, t, c.our_seq, S)
           /\ Like(AfterRead(c, t, z), c, t, c.our_seq, S)
           /\ Like(AfterStore(c, t, z, c.our_seq + 1), c, t, c.our_seq + 1, S)
<1>1. Like(AtTask(c, t), c, t, c.our_seq, S)
    BY Zenon DEF Conns, Like, AtTask
<1>2. Like(AfterRead(c, t, z), c, t, c.our_seq, S)
    BY Zenon DEF Conns, Like, AfterRead
<1>3. Like(AfterStore(c, t, z, c.our_seq + 1), c, t, c.our_seq + 1, S)
  <2>1. PICK q \in Nat : q = c.our_seq + 1
      BY DEF Conns
  <2>2. Like(AfterStore(c, t, z, q), c, t, q, S)
      BY Zenon DEF Conns, Like, AfterStore
  <2> QED BY <2>1, <2>2, Zenon
<1> QED BY <1>1, <1>2, <1>3, Zenon

(* A step of task n makes its connection r.                                *)
NextOf(c) == IF c.task = "store" THEN c.our_seq + 1 ELSE c.our_seq
Becomes(n, r) ==
    /\ conn' = [conn EXCEPT ![n] = r]
    /\ r.flow = conn[n].flow /\ r.aborted = conn[n].aborted /\ r.task # "none"
    /\ r.task # "ended" =>
          r.remote \o r.data = conn[n].remote \o conn[n].data /\ r.accepted = conn[n].accepted
    /\ \/ nat_rx' = nat_rx /\ NextOf(r) = NextOf(conn[n])
       \/ /\ nat_rx' = Append(nat_rx, DataFrame(n))
          /\ conn[n].task = "send" /\ r.task = "store" /\ r.our_seq = conn[n].our_seq
       \/ /\ nat_rx' = Append(nat_rx, FinFrame(n))
          /\ conn[n].task = "fin" /\ r.task = "ended" /\ r.our_seq = conn[n].our_seq

LEMMA TaskBecomes ==
    ASSUME NEW S, Typed(S), NEW n \in Ids, TaskStep(n), StackOnly
    PROVE  \E r \in Conns(S) : Becomes(n, r)
<1> DEFINE c == conn[n]
<1>0. c \in Conns(S) /\ 0 \in Int
    BY DEF Typed
<1>1. "select" \in Tasks /\ "send" \in Tasks /\ "store" \in Tasks /\ "fin" \in Tasks
    BY Zenon DEF Tasks
<1>2. CASE TaskWrites(n)
  <2> DEFINE r == [c EXCEPT !.data = Tail(c.data), !.remote = Append(c.remote, Head(c.data)),
                            !.guest_ack = c.guest_ack + 1]
  <2>1. conn' = [conn EXCEPT ![n] = r] /\ nat_rx' = nat_rx /\ c.data # <<>> /\ c.task = "select"
      BY <1>2, Zenon DEF TaskWrites
  <2>2. r \in Conns(S) /\ Becomes(n, r)
      BY <1>0, <2>1, Written, Zenon DEF Becomes, NextOf
  <2> QED BY <2>2, Zenon
<1>3. CASE TaskReads(n)
  <2>1. PICK k \in 1 .. MaxRead : conn' = [conn EXCEPT ![n].task = "send", ![n].segs = k]
      BY <1>3, Zenon DEF TaskReads
  <2> DEFINE r == AfterRead(c, "send", k)
  <2>2. k \in Int
      BY <2>1, NatAssumption
  <2>3. conn' = [conn EXCEPT ![n] = r] /\ nat_rx' = nat_rx /\ c.task = "select"
      BY <1>3, <2>1, Zenon DEF TaskReads, AfterRead
  <2>4. Like(r, c, "send", c.our_seq, S)
      BY <1>0, <1>1, <2>2, TaskAt, Zenon
  <2> HIDE DEF r
  <2>5. Becomes(n, r)
      BY <2>3, <2>4, Zenon DEF Becomes, NextOf, Like
  <2> QED BY <2>4, <2>5, Zenon DEF Like
<1>4. CASE TaskSends(n)
  <2> DEFINE r == AtTask(c, "store")
  <2>1. /\ conn' = [conn EXCEPT ![n] = r] /\ nat_rx' = Append(nat_rx, DataFrame(n))
        /\ c.task = "send"
      BY <1>4, Zenon DEF TaskSends, AtTask
  <2>2. Like(r, c, "store", c.our_seq, S)
      BY <1>0, <1>1, TaskAt, Zenon
  <2> HIDE DEF r
  <2>3. Becomes(n, r)
      BY <2>1, <2>2, Zenon DEF Like, Becomes
  <2> QED BY <2>2, <2>3, Zenon DEF Like
<1>5. CASE TaskStores(n)
  <2>1. PICK t \in {"select", "send"}, z \in Int :
            t = (IF c.segs = 1 THEN "select" ELSE "send") /\ z = c.segs - 1
    <3>1. c.segs - 1 \in Int
        BY <1>0 DEF Conns
    <3> QED BY <3>1, Zenon
  <2> DEFINE r == AfterStore(c, t, z, c.our_seq + 1)
  <2>2. conn' = [conn EXCEPT ![n] = r] /\ nat_rx' = nat_rx /\ c.task = "store"
      BY <1>5, <2>1, Zenon DEF TaskStores, AfterStore
  <2>3. t \in Tasks
      BY <1>1, <2>1, Zenon
  <2>4. Like(r, c, t, c.our_seq + 1, S)
      BY <1>0, <2>1, <2>3, TaskAt, Zenon
  <2> HIDE DEF r
  <2>5. Becomes(n, r)
    <3>1. t # "store" /\ t # "none" /\ t # "ended"
        BY <2>1, Zenon
    <3> QED BY <2>2, <2>4, <3>1, Zenon DEF Becomes, NextOf, Like
  <2> QED BY <2>4, <2>5, Zenon DEF Like
<1>6. CASE TaskSeesEof(n)
  <2> DEFINE r == AtTask(c, "fin")
  <2>1. conn' = [conn EXCEPT ![n] = r] /\ nat_rx' = nat_rx /\ c.task = "select"
      BY <1>6, Zenon DEF TaskSeesEof, AtTask
  <2>2. Like(r, c, "fin", c.our_seq, S)
      BY <1>0, <1>1, TaskAt, Zenon
  <2> HIDE DEF r
  <2>3. Becomes(n, r)
      BY <2>1, <2>2, Zenon DEF Like, Becomes, NextOf
  <2> QED BY <2>2, <2>3, Zenon DEF Like
<1>7. CASE TaskSendsFin(n)
  <2>1. Over(c) \in Conns(S) /\ Becomes(n, Over(c))
      BY <1>0, <1>7, Ended, Zenon DEF TaskSendsFin, Becomes
  <2> QED BY <2>1, Zenon
<1>8. CASE TaskFails(n)
  <2>1. Over(c) \in Conns(S) /\ Becomes(n, Over(c))
      BY <1>0, <1>8, Ended, Zenon DEF TaskFails, Becomes, NextOf
  <2> QED BY <2>1, Zenon
<1> QED BY <1>2, <1>3, <1>4, <1>5, <1>6, <1>7, <1>8, Zenon DEF TaskStep, TaskSegment

LEMMA TaskKeepsInv ==
    ASSUME NatInv, NEW n \in Ids, TaskStep(n), StackOnly
    PROVE  NatInv'
<1>1. PICK S : Typed(S)
    BY Zenon DEF NatInv, Types
<1>2. PICK r \in Conns(S) : Becomes(n, r)
    BY <1>1, TaskBecomes, Zenon
<1>3. /\ tcp' = tcp /\ made' = made /\ loop' = loop /\ gin' = gin
      /\ conn[n].task \in {"select", "send", "store", "fin"}
  <2>1. tcp' = tcp /\ made' = made /\ loop' = loop
      BY Zenon DEF TaskStep, TaskSegment, TaskWrites, TaskReads, TaskSends, TaskStores,
                   TaskSeesEof, TaskSendsFin, TaskFails, OnlyConn
  <2>2. conn[n].task \in {"select", "send", "store", "fin"}
      BY Zenon DEF TaskStep, TaskSegment, TaskWrites, TaskReads, TaskSends, TaskStores,
                   TaskSeesEof, TaskSendsFin, TaskFails
  <2>3. gin' = gin
      BY Zenon DEF StackOnly
  <2> QED BY <2>1, <2>2, <2>3, Zenon
<1>4. /\ conn \in [Ids -> Conns(S)] /\ conn' \in [Ids -> Conns(S)] /\ conn'[n] = r
      /\ \A m \in Ids : m # n => conn'[m] = conn[m]
    BY <1>1, <1>2, Zenon DEF Becomes, Typed
<1>5. PICK k : nat_rx' = nat_rx \/ nat_rx' = Append(nat_rx, k)
    BY <1>2, Zenon DEF Becomes
<1>6. Types'
  <2> DEFINE T == S \cup {k}
  <2>1. Typed(T)
      BY <1>1, Wider, Zenon
  <2>2. conn' \in [Ids -> Conns(T)]
    <3>1. Conns(S) \subseteq Conns(T)
      <4>1. Seq(S) \subseteq Seq(T)
          OBVIOUS
      <4> QED BY <4>1, Zenon DEF Conns
    <3> QED BY <1>4, <3>1, Zenon
  <2>3. nat_rx' \in Seq(T)
    <3>1. nat_rx \in Seq(T) /\ k \in T
        BY <2>1, Zenon DEF Typed
    <3> HIDE DEF T
    <3> QED BY <1>5, <3>1
  <2>4. Typed(T)'
      BY <1>3, <2>1, <2>2, <2>3, Zenon DEF Typed
  <2> QED BY <2>4, Zenon DEF Types
<1>7. \A m \in Ids : Onward(m)
    BY <1>2, <1>3, <1>4, Zenon DEF Onward, Becomes, Running
<1>8. Owners'
    BY <1>3, <1>7, OwnersKept, Zenon DEF NatInv
<1>9. AcceptedIsForwarded'
    BY <1>2, <1>3, <1>4, Zenon DEF NatInv, AcceptedIsForwarded, Becomes, Running
<1>10. Frames'
  <2>1. \A m \in Ids : m = n \/ conn[m].task = "none" \/ Pace(m)
      BY <1>4, Zenon DEF Pace, NextSeq
  <2>2. NextSeq(n) \in Nat /\ NextSeq(n) = NextOf(conn[n]) /\ NextSeq(n)' = NextOf(r)
    <3>1. conn[n].our_seq \in Nat
        BY <1>4, Zenon DEF Conns
    <3>2. NextSeq(n) \in Nat
        BY <3>1 DEF NextSeq
    <3> QED BY <1>4, <3>2, Zenon DEF NextSeq, NextOf
  <2>3. CASE nat_rx' = nat_rx /\ NextOf(r) = NextOf(conn[n])
    <3>1. Pace(n)
        BY <1>2, <1>3, <1>4, <2>2, <2>3, Zenon DEF Pace, Becomes
    <3> QED BY <2>1, <2>3, <3>1, NoFrame, Zenon DEF NatInv
  <2>4. CASE /\ nat_rx' = Append(nat_rx, DataFrame(n))
             /\ conn[n].task = "send" /\ r.task = "store" /\ r.our_seq = conn[n].our_seq
    <3>1. PICK f : f = DataFrame(n)
        BY Zenon
    <3>2. f.kind = "DATA" /\ f.n = n /\ f.seq = conn[n].our_seq
        BY <3>1, Zenon DEF DataFrame, TcpFrame
    <3>3. /\ NextSeq(n) = conn[n].our_seq /\ NextSeq(n)' = conn[n].our_seq + 1
          /\ "send" # "none" /\ "send" # "ended" /\ "DATA" # "FIN"
        BY <2>2, <2>4, Zenon DEF NextOf
    <3>4. SegmentSent(n, f)
        BY <1>4, <2>4, <3>1, <3>2, <3>3, Zenon DEF SegmentSent
    <3> QED BY <2>1, <2>2, <3>4, SegmentFrame, Zenon DEF NatInv
  <2>5. CASE /\ nat_rx' = Append(nat_rx, FinFrame(n))
             /\ conn[n].task = "fin" /\ r.task = "ended" /\ r.our_seq = conn[n].our_seq
    <3>1. PICK f : f = FinFrame(n)
        BY Zenon
    <3>2. f.kind = "FIN" /\ f.n = n /\ f.seq = conn[n].our_seq
        BY <3>1, Zenon DEF FinFrame, TcpFrame
    <3>3. /\ NextSeq(n) = conn[n].our_seq /\ NextSeq(n)' = conn[n].our_seq
          /\ "fin" # "none" /\ "fin" # "ended"
        BY <2>2, <2>5, Zenon DEF NextOf
    <3>4. SegmentSent(n, f)
        BY <1>4, <2>5, <3>1, <3>2, <3>3, Zenon DEF SegmentSent
    <3> QED BY <2>1, <2>2, <3>4, SegmentFrame, Zenon DEF NatInv
  <2> QED BY <1>2, <2>3, <2>4, <2>5, Zenon DEF Becomes
<1>11. GuestFrames'
    BY <1>3, GuestKept, Zenon DEF NatInv
<1> QED BY <1>6, <1>8, <1>9, <1>10, <1>11, Zenon DEF NatInv

-----------------------------------------------------------------------------
(* The handlers: what most of them leave of a connection.                  *)

Same(m) ==
    /\ conn'[m].flow = conn[m].flow /\ conn'[m].task = conn[m].task
    /\ conn'[m].our_seq = conn[m].our_seq /\ (conn[m].aborted => conn'[m].aborted)
    /\ conn'[m].data = conn[m].data /\ conn'[m].accepted = conn[m].accepted
    /\ conn'[m].remote = conn[m].remote

(* A frame of the guest is taken, frames go, or one comes that is no       *)
(* segment of a connection.                                                *)
Channels ==
    /\ gin' = gin \/ (gin # <<>> /\ gin' = Tail(gin))
    /\ \/ nat_rx' = nat_rx \/ nat_rx' = <<>>
       \/ \E k : k.kind \notin {"DATA", "FIN"} /\ nat_rx' = Append(nat_rx, k)

LEMMA GuestTaken ==
    ASSUME Types, GuestFrames, gin' = gin \/ (gin # <<>> /\ gin' = Tail(gin))
    PROVE  GuestFrames'
<1>1. PICK S : gin \in Seq(S)
    BY Zenon DEF Types, Typed
<1>2. CASE gin' = gin
    BY <1>2, GuestKept, Zenon
<1>3. CASE gin # <<>> /\ gin' = Tail(gin)
  <2>1. \A i \in 1 .. Len(gin') : gin'[i] = gin[i + 1] /\ i + 1 \in 1 .. Len(gin)
      BY <1>1, <1>3
  <2> QED BY <2>1, Zenon DEF GuestFrames
<1> QED BY <1>2, <1>3, Zenon

LEMMA HandlerKeepsInv ==
    ASSUME NatInv, NEW S, Typed(S), conn' \in [Ids -> Conns(S)], tcp' \in [Flows -> 0 .. made],
           made' = made, \A m \in Ids : Same(m), Owners', Channels
    PROVE  NatInv'
<1>1. \A m \in Ids : conn[m].task = "none" \/ Pace(m)
    BY Zenon DEF Same, Pace, NextSeq
<1>2. Frames'
  <2>1. CASE nat_rx' = nat_rx \/ nat_rx' = <<>>
      BY <1>1, <2>1, NoFrame, Zenon DEF NatInv
  <2>2. CASE \E k : k.kind \notin {"DATA", "FIN"} /\ nat_rx' = Append(nat_rx, k)
      BY <1>1, <2>2, OtherFrame, Zenon DEF NatInv
  <2> QED BY <2>1, <2>2, Zenon DEF Channels
<1>3. AcceptedIsForwarded'
    BY DataKept, Zenon DEF NatInv, Same, Running
<1>4. GuestFrames'
    BY GuestTaken, Zenon DEF NatInv, Channels
<1>5. PICK k : nat_rx' \in {nat_rx, <<>>} \/ nat_rx' = Append(nat_rx, k)
    BY Zenon DEF Channels
<1>6. Types'
  <2>0. PICK T : T = S \cup {k}
      BY Zenon
  <2>1. Typed(T) /\ S \subseteq T /\ k \in T
      BY <2>0, Wider, Zenon
  <2>2. conn' \in [Ids -> Conns(T)]
    <3>1. Seq(S) \subseteq Seq(T)
        BY <2>1
    <3>2. Conns(S) \subseteq Conns(T)
        BY <3>1, Zenon DEF Conns
    <3> QED BY <3>2, Zenon
  <2>3. nat_rx \in Seq(T) /\ gin \in Seq(T)
      BY <2>1, Zenon DEF Typed
  <2>4. nat_rx' \in Seq(T)
      BY <1>5, <2>1, <2>3, StaysSeq, Zenon
  <2>5. gin' \in Seq(T)
      BY <2>1, <2>3, StaysSeq, Zenon DEF Channels
  <2>6. Typed(T)'
      BY <2>1, <2>2, <2>4, <2>5, Zenon DEF Typed
  <2> QED BY <2>6, Zenon DEF Types
<1> QED BY <1>2, <1>3, <1>4, <1>6, Zenon DEF NatInv

LEMMA OwnersAt ==
    ASSUME Types, Owners, tcp' = tcp, made' = made, \A m \in Ids : Onward(m),
           ~(loop.at = "reply" /\ loop.then = "insert"), Awaits'
    PROVE  Owners'
<1>1. Table'
    BY InTable, Zenon DEF Owners, Table, Onward
<1>2. TasksOwned'
    BY Zenon DEF Owners, TasksOwned, Onward
<1> QED BY <1>1, <1>2, Zenon DEF Owners

LEMMA OwnersRemoved ==
    ASSUME Types, Owners, NEW f \in Flows, tcp[f] # 0, tcp' = [tcp EXCEPT ![f] = 0],
           made' = made, \A m \in Ids : Same(m), conn'[tcp[f]].aborted,
           ~(loop.at = "reply" /\ loop.then = "insert"), Awaits'
    PROVE  Owners'
<1>0. PICK S : tcp \in [Flows -> S]
    BY Zenon DEF Types, Typed
<1>1. tcp'[f] = 0 /\ \A g \in Flows : g # f => tcp'[g] = tcp[g]
    BY <1>0, Zenon
<1>2. Table'
  <2>1. \A g \in Flows : tcp'[g] # 0 => conn'[tcp'[g]].flow = g
    <3> SUFFICES ASSUME NEW g \in Flows, tcp'[g] # 0 PROVE conn'[tcp'[g]].flow = g
        BY Zenon
    <3>1. tcp'[g] = tcp[g] /\ tcp[g] # 0
        BY <1>1, Zenon
    <3>2. conn[tcp[g]].flow = g /\ tcp[g] \in Ids
        BY <3>1, InTable, Zenon DEF Owners, Table
    <3> QED BY <3>1, <3>2, Zenon DEF Same
  <2> QED BY <2>1, Zenon DEF Owners, Table, Same
<1>3. TasksOwned'
  <2> SUFFICES ASSUME NEW n \in Ids, Running(n)', ~conn'[n].aborted
               PROVE  tcp'[conn'[n].flow] = n
      BY Zenon DEF TasksOwned
  <2>1. Running(n) /\ ~conn[n].aborted /\ conn'[n].flow = conn[n].flow /\ n # tcp[f]
      BY Zenon DEF Same, Running
  <2>2. tcp[conn[n].flow] = n
      BY <2>1, Zenon DEF Owners, TasksOwned
  <2>3. conn[n].flow \in Flows
      BY <2>1, Zenon DEF Owners, Table, Running
  <2> QED BY <1>1, <2>1, <2>2, <2>3, Zenon
<1> QED BY <1>2, <1>3, Zenon DEF Owners

LEMMA AtTickAwaits ==
    ASSUME loop' = AtTick
    PROVE  Awaits'
    BY Zenon DEF AtTick, Awaits

(* What the handlers do to the table.                                      *)
LEMMA Removes ==
    ASSUME NEW S, Typed(S), Types, NEW f \in Flows, tcp[f] # 0, RemoveTcp(f)
    PROVE  /\ conn' \in [Ids -> Conns(S)] /\ tcp' \in [Flows -> 0 .. made]
           /\ \A m \in Ids : Same(m)
           /\ conn'[tcp[f]].aborted
<1>1. tcp[f] \in Ids /\ 0 \in 0 .. made /\ conn \in [Ids -> Conns(S)]
  <2>1. made \in Nat /\ tcp[f] \in Ids
      BY InTable, Zenon
  <2>2. 0 \in 0 .. made
      BY <2>1
  <2> QED BY <2>1, <2>2, Zenon DEF Typed
<1>2. PICK n \in Ids, b \in BOOLEAN : n = tcp[f] /\ b = TRUE
    BY <1>1, Zenon
<1>3. \A c \in Conns(S) :
          LET r == [c EXCEPT !.aborted = b] IN
          /\ r \in Conns(S) /\ r.flow = c.flow /\ r.task = c.task /\ r.our_seq = c.our_seq
          /\ r.aborted = b /\ r.data = c.data /\ r.accepted = c.accepted /\ r.remote = c.remote
    BY Zenon DEF Conns
<1>4. PICK r \in Conns(S) :
          /\ r.flow = conn[n].flow /\ r.task = conn[n].task /\ r.our_seq = conn[n].our_seq
          /\ r.aborted = b /\ r.data = conn[n].data /\ r.accepted = conn[n].accepted
          /\ r.remote = conn[n].remote /\ r = [conn[n] EXCEPT !.aborted = b]
    BY <1>1, <1>3, Zenon
<1>5. conn' = [conn EXCEPT ![n] = r] /\ tcp' = [tcp EXCEPT ![f] = 0]
    BY <1>2, <1>4, Zenon DEF RemoveTcp
<1>6. conn' \in [Ids -> Conns(S)] /\ conn'[n] = r /\ \A m \in Ids : m # n => conn'[m] = conn[m]
    BY <1>1, <1>5, Zenon
<1>7. tcp' \in [Flows -> 0 .. made]
    BY <1>1, <1>5, Zenon DEF Typed
<1> QED BY <1>2, <1>4, <1>6, <1>7, Zenon DEF Same

LEMMA SetsState ==
    ASSUME NEW S, Typed(S), NEW n \in Ids, NEW x \in {"SynReceived", "Established", "FinWait"},
           conn' = [conn EXCEPT ![n].state = x]
    PROVE  conn' \in [Ids -> Conns(S)] /\ \A m \in Ids : Same(m)
<1>1. conn \in [Ids -> Conns(S)] /\ x \in {"none", "SynReceived", "Established", "FinWait"}
    BY Zenon DEF Typed
<1>2. \A c \in Conns(S) :
          LET r == [c EXCEPT !.state = x] IN
          /\ r \in Conns(S) /\ r.flow = c.flow /\ r.task = c.task /\ r.our_seq = c.our_seq
          /\ r.aborted = c.aborted /\ r.data = c.data /\ r.accepted = c.accepted
          /\ r.remote = c.remote
    BY <1>1, Zenon DEF Conns
<1>3. PICK r \in Conns(S) :
          /\ r.flow = conn[n].flow /\ r.task = conn[n].task /\ r.our_seq = conn[n].our_seq
          /\ r.aborted = conn[n].aborted /\ r.data = conn[n].data
          /\ r.accepted = conn[n].accepted /\ r.remote = conn[n].remote
          /\ r = [conn[n] EXCEPT !.state = x]
    BY <1>1, <1>2, Zenon
<1>4. conn' = [conn EXCEPT ![n] = r]
    BY <1>3, Zenon
<1>5. conn' \in [Ids -> Conns(S)] /\ conn'[n] = r /\ \A m \in Ids : m # n => conn'[m] = conn[m]
    BY <1>1, <1>4, Zenon
<1> QED BY <1>3, <1>5, Zenon DEF Same

LEMMA KeepsTable ==
    ASSUME NEW S, Typed(S), conn' = conn
    PROVE  /\ conn' \in [Ids -> Conns(S)] /\ (\A m \in Ids : Same(m))
           /\ tcp' = tcp => tcp' \in [Flows -> 0 .. made]
    BY Zenon DEF Typed, Same

(* Steps that leave the table alone.                                       *)
LEMMA TableKept ==
    ASSUME NatInv, tcp' = tcp, conn' = conn, made' = made, Channels,
           loop' = loop \/ (~(loop.at = "reply" /\ loop.then = "insert") /\ Awaits')
    PROVE  NatInv'
<1>1. PICK S : Typed(S)
    BY Zenon DEF NatInv, Types
<1>2. /\ conn' \in [Ids -> Conns(S)] /\ tcp' \in [Flows -> 0 .. made]
      /\ \A m \in Ids : Same(m)
    BY <1>1, KeepsTable, Zenon
<1>3. Owners'
  <2>1. \A m \in Ids : Onward(m)
      BY Zenon DEF Onward, Running
  <2> QED BY <2>1, OwnersKept, OwnersAt, Zenon DEF NatInv
<1> QED BY <1>1, <1>2, <1>3, HandlerKeepsInv, Zenon

LEMMA DataToDeadKeepsInv ==
    ASSUME NatInv, DataToDead, StackOnly
    PROVE  NatInv'
<1>1. PICK S : Typed(S)
    BY Zenon DEF NatInv, Types
<1>2. PICK f : f = conn[loop.n].flow
    BY Zenon
<1>3. /\ loop.at = "feed" /\ RemoveTcp(f) /\ loop' = AtTick /\ made' = made /\ nat_rx' = nat_rx
      /\ gin' = gin
    BY <1>2, Zenon DEF DataToDead, StackOnly
<1>4. f \in Flows /\ tcp[f] # 0
  <2>1. loop.n \in 1 .. made /\ f \in Flows /\ tcp[f] = loop.n
      BY <1>2, <1>3, Zenon DEF NatInv, Owners, Awaits
  <2>2. loop.n # 0
      BY <2>1, InTable, Zenon DEF NatInv
  <2> QED BY <2>1, <2>2, Zenon
<1>5. /\ conn' \in [Ids -> Conns(S)] /\ tcp' \in [Flows -> 0 .. made]
      /\ \A m \in Ids : Same(m)
      /\ conn'[tcp[f]].aborted
    BY <1>1, <1>3, <1>4, Removes, Zenon DEF NatInv
<1>6. Owners'
  <2>1. "feed" # "reply" /\ Awaits' /\ tcp' = [tcp EXCEPT ![f] = 0]
      BY <1>3, AtTickAwaits, Zenon DEF RemoveTcp
  <2> QED BY <1>3, <1>4, <1>5, <2>1, OwnersRemoved, Zenon DEF NatInv
<1>7. Channels
    BY <1>3, Zenon DEF Channels
<1> QED BY <1>1, <1>3, <1>5, <1>6, <1>7, HandlerKeepsInv, Zenon

LEMMA ReplyKeepsInv ==
    ASSUME NatInv, Reply, StackOnly
    PROVE  NatInv'
<1>1. PICK S : Typed(S)
    BY Zenon DEF NatInv, Types
<1>2. PICK k : k = loop.frame
    BY Zenon
<1>3. /\ loop.at = "reply" /\ nat_rx' = Append(nat_rx, k) /\ loop' = AtTick /\ made' = made
      /\ gin' = gin /\ k.kind \notin {"DATA", "FIN"}
    BY <1>2, Zenon DEF Reply, StackOnly, NatInv, Owners, Awaits
<1>4. Channels /\ Awaits'
    BY <1>3, AtTickAwaits, Zenon DEF Channels
<1>5. CASE loop.then \notin {"insert", "remove"} /\ UNCHANGED <<tcp, conn>>
    BY <1>3, <1>4, <1>5, TableKept, Zenon
<1>6. CASE /\ loop.then = "insert" /\ tcp' = [tcp EXCEPT ![k.flow] = k.n]
           /\ conn' = [conn EXCEPT ![k.n].state = "SynReceived"]
  <2>1. k.n \in 1 .. made /\ conn[k.n].flow = k.flow /\ k.flow \in Flows /\ tcp[k.flow] = 0
      BY <1>2, <1>3, <1>6, Zenon DEF NatInv, Owners, Awaits
  <2>2. k.n \in Ids /\ k.n \in 0 .. made
    <3>1. k.n \in Ids
        BY <2>1, InTable, Zenon DEF NatInv
    <3>2. k.n \in 0 .. made
        BY <2>1
    <3> QED BY <3>1, <3>2, Zenon
  <2>3. conn' \in [Ids -> Conns(S)] /\ \A m \in Ids : Same(m)
      BY <1>1, <1>6, <2>2, SetsState, Zenon
  <2>4. /\ tcp' \in [Flows -> 0 .. made] /\ tcp'[k.flow] = k.n
        /\ \A g \in Flows : g # k.flow => tcp'[g] = tcp[g]
    <3>1. tcp \in [Flows -> 0 .. made]
        BY <1>1, Zenon DEF Typed
    <3> QED BY <1>6, <2>1, <2>2, <3>1, Zenon
  <2>5. Table'
    <3>1. \A g \in Flows : tcp'[g] # 0 => conn'[tcp'[g]].flow = g
      <4> SUFFICES ASSUME NEW g \in Flows, tcp'[g] # 0 PROVE conn'[tcp'[g]].flow = g
          BY Zenon
      <4>1. CASE g = k.flow
          BY <2>1, <2>2, <2>3, <2>4, <4>1, Zenon DEF Same
      <4>2. CASE g # k.flow
        <5>1. tcp'[g] = tcp[g] /\ tcp[g] # 0
            BY <2>4, <4>2, Zenon
        <5>2. conn[tcp[g]].flow = g /\ tcp[g] \in Ids
            BY <5>1, InTable, Zenon DEF NatInv, Owners, Table
        <5> QED BY <2>3, <5>1, <5>2, Zenon DEF Same
      <4> QED BY <4>1, <4>2, Zenon
    <3> QED BY <1>3, <2>3, <3>1, Zenon DEF NatInv, Owners, Table, Same
  <2>6. TasksOwned'
    <3> SUFFICES ASSUME NEW n \in Ids, Running(n)', ~conn'[n].aborted
                 PROVE  tcp'[conn'[n].flow] = n
        BY Zenon DEF TasksOwned
    <3>1. Running(n) /\ ~conn[n].aborted /\ conn'[n].flow = conn[n].flow
        BY <2>3, Zenon DEF Same, Running
    <3>2. tcp[conn[n].flow] = n \/ n = k.n
        BY <1>2, <3>1, Zenon DEF NatInv, Owners, TasksOwned
    <3>3. conn[n].flow \in Flows /\ n # 0
        BY <3>1, InTable, Zenon DEF NatInv, Owners, Table, Running
    <3> QED BY <2>1, <2>4, <3>1, <3>2, <3>3, Zenon
  <2>7. Owners'
      BY <1>4, <2>5, <2>6, Zenon DEF Owners
  <2> QED BY <1>1, <1>3, <1>4, <2>3, <2>4, <2>7, HandlerKeepsInv, Zenon
<1>7. CASE loop.then = "remove" /\ RemoveTcp(k.flow)
  <2>1. k.flow \in Flows /\ tcp[k.flow] # 0
      BY <1>2, <1>3, <1>7, Zenon DEF NatInv, Owners, Awaits
  <2>2. /\ conn' \in [Ids -> Conns(S)] /\ tcp' \in [Flows -> 0 .. made]
        /\ \A m \in Ids : Same(m)
        /\ conn'[tcp[k.flow]].aborted
      BY <1>1, <1>7, <2>1, Removes, Zenon DEF NatInv
  <2>3. "remove" # "insert" /\ tcp' = [tcp EXCEPT ![k.flow] = 0]
      BY <1>7, Zenon DEF RemoveTcp
  <2>4. Owners'
      BY <1>3, <1>4, <1>7, <2>1, <2>2, <2>3, OwnersRemoved, Zenon DEF NatInv
  <2> QED BY <1>1, <1>3, <1>4, <2>2, <2>4, HandlerKeepsInv, Zenon
<1> QED BY <1>2, <1>5, <1>6, <1>7, Zenon DEF Reply

LEMMA ConnectFailsKeepsInv ==
    ASSUME NatInv, ConnectFails, StackOnly
    PROVE  NatInv'
<1>1. /\ loop.at = "connect" /\ tcp' = tcp /\ conn' = conn /\ made' = made /\ nat_rx' = nat_rx
      /\ gin' = gin /\ loop' = Replying(RstFrame(loop.flow), "none")
    BY Zenon DEF ConnectFails, StackOnly
<1>2. loop'.at = "reply" /\ loop'.then = "none" /\ loop'.frame.kind = "RST"
    BY <1>1, Zenon DEF Replying, RstFrame, TcpFrame
<1>3. Awaits' /\ Channels /\ "connect" # "reply"
    BY <1>1, <1>2, Zenon DEF Awaits, Channels
<1> QED BY <1>1, <1>3, TableKept, Zenon

Fresh(f) == [Unused EXCEPT !.flow = f, !.task = "select"]
LEMMA Spawned ==
    ASSUME NEW S, NEW f \in Flows
    PROVE  /\ Fresh(f) \in Conns(S) /\ Fresh(f).flow = f /\ Fresh(f).task = "select"
           /\ Fresh(f).remote \o Fresh(f).data = Fresh(f).accepted
<1>1. PICK c \in Conns(S) : c = Unused /\ c.remote \o c.data = c.accepted
  <2>1. <<>> \in Seq(S) /\ <<>> \o <<>> = <<>>
      OBVIOUS
  <2>2. PICK e \in Seq(S) : e = <<>> /\ e \o e = e
      BY <2>1, Zenon
  <2>3. PICK c : c = [flow |-> 0, state |-> "none", next |-> 0, our_seq |-> 1, guest_ack |-> 0,
                      task |-> "none", aborted |-> FALSE, segs |-> 0, data |-> e,
                      accepted |-> e, remote |-> e]
      BY Zenon
  <2>4. c = Unused
      BY <2>2, <2>3, Zenon DEF Unused
  <2>5. c \in Conns(S) /\ c.remote \o c.data = c.accepted
      BY <2>2, <2>3 DEF Conns, Tasks
  <2> QED BY <2>4, <2>5, Zenon
<1>2. PICK t \in Tasks : t = "select"
    BY Zenon DEF Tasks
<1>3. LET r == [c EXCEPT !.flow = f, !.task = t] IN
      /\ r \in Conns(S) /\ r.flow = f /\ r.task = t
      /\ r.remote = c.remote /\ r.data = c.data /\ r.accepted = c.accepted
    BY Zenon DEF Conns
<1>4. Fresh(f) = [c EXCEPT !.flow = f, !.task = t]
    BY <1>1, <1>2, Zenon DEF Fresh
<1> QED BY <1>1, <1>2, <1>3, <1>4, Zenon

LEMMA ConnectSucceedsKeepsInv ==
    ASSUME NatInv, ConnectSucceeds, StackOnly
    PROVE  NatInv'
<1>1. PICK S : Typed(S)
    BY Zenon DEF NatInv, Types
<1>2. PICK n, f : n = made + 1 /\ f = loop.flow
    BY Zenon
<1>3. /\ loop.at = "connect" /\ made < NConn /\ made' = n /\ tcp' = tcp /\ nat_rx' = nat_rx
      /\ gin' = gin /\ conn' = [conn EXCEPT ![n] = Fresh(f)]
      /\ loop' = Replying(SynAckFrame(f, n), "insert")
    BY <1>2, Zenon DEF ConnectSucceeds, StackOnly, Fresh
<1>4. /\ n \in Ids /\ made' \in 0 .. NConn /\ n > made /\ n \in 1 .. made'
      /\ \A m \in Ids : m > n => m > made
      /\ \A m \in 0 .. made : m # n /\ m \in 0 .. made'
  <2>1. made \in Nat /\ NConn \in Nat
      BY InTable, NatAssumption, Zenon DEF NatInv
  <2> QED BY <1>2, <1>3, <2>1 DEF Ids
<1>5. f \in Flows /\ tcp[f] = 0
    BY <1>2, <1>3, Zenon DEF NatInv, Owners, Awaits
<1>6. /\ conn' \in [Ids -> Conns(S)] /\ conn'[n] = Fresh(f)
      /\ \A m \in Ids : m # n => conn'[m] = conn[m]
      /\ Fresh(f).flow = f /\ Fresh(f).task = "select"
      /\ Fresh(f).remote \o Fresh(f).data = Fresh(f).accepted
  <2>1. /\ Fresh(f) \in Conns(S) /\ Fresh(f).flow = f /\ Fresh(f).task = "select"
        /\ Fresh(f).remote \o Fresh(f).data = Fresh(f).accepted
        /\ conn \in [Ids -> Conns(S)]
      BY <1>1, <1>5, Spawned, Zenon DEF Typed
  <2> QED BY <1>3, <1>4, <2>1, Zenon
<1>7. Types'
  <2>1. tcp' \in [Flows -> 0 .. made']
    <3>1. tcp \in [Flows -> 0 .. made] /\ 0 .. made \subseteq 0 .. made'
        BY <1>1, <1>4, Zenon DEF Typed
    <3> QED BY <1>3, <3>1, Zenon
  <2>2. Typed(S)'
      BY <1>1, <1>3, <1>4, <1>6, <2>1, Zenon DEF Typed
  <2> QED BY <2>2, Zenon DEF Types
<1>8. conn[n].task = "none"
    BY <1>4, Zenon DEF NatInv, Owners, Table
<1>9. Owners'
  <2>1. /\ loop'.at = "reply" /\ loop'.then = "insert" /\ loop'.frame.kind = "SYN-ACK"
        /\ loop'.frame.n = n /\ loop'.frame.flow = f
      BY <1>3, Zenon DEF Replying, SynAckFrame, TcpFrame
  <2>2. Awaits'
      BY <1>3, <1>4, <1>5, <1>6, <2>1, Zenon DEF Awaits
  <2>3. Table'
    <3>1. \A g \in Flows : tcp'[g] # 0 => conn'[tcp'[g]].flow = g
      <4> SUFFICES ASSUME NEW g \in Flows, tcp'[g] # 0 PROVE conn'[tcp'[g]].flow = g
          BY Zenon
      <4>1. tcp'[g] = tcp[g] /\ tcp[g] \in 0 .. made
          BY <1>1, <1>3, Zenon DEF Typed
      <4>2. tcp[g] \in Ids /\ conn[tcp[g]].flow = g
          BY <4>1, InTable, Zenon DEF NatInv, Owners, Table
      <4> QED BY <1>4, <1>6, <4>1, <4>2, Zenon
    <3>2. \A m \in Ids : m > made' => conn'[m].task = "none"
      <4>1. ~(n > n)
          BY <1>4 DEF Ids
      <4> QED BY <1>3, <1>4, <1>6, <4>1, Zenon DEF NatInv, Owners, Table
    <3>3. \A m \in Ids : conn'[m].task # "none" => conn'[m].flow \in Flows
        BY <1>5, <1>6, Zenon DEF NatInv, Owners, Table
    <3> QED BY <3>1, <3>2, <3>3, Zenon DEF Table
  <2>4. TasksOwned'
    <3>1. ASSUME NEW m \in Ids, m # n, Running(m)', ~conn'[m].aborted
          PROVE  tcp'[conn'[m].flow] = m
        BY <1>3, <1>6, <3>1, Zenon DEF NatInv, Owners, TasksOwned, Running
    <3> QED BY <2>1, <3>1, Zenon DEF TasksOwned
  <2> QED BY <2>2, <2>3, <2>4, Zenon DEF Owners
<1>10. AcceptedIsForwarded'
    BY <1>5, <1>6, Zenon DEF NatInv, AcceptedIsForwarded, Running
<1>11. Frames'
  <2>1. \A m \in Ids : conn[m].task = "none" \/ Pace(m)
      BY <1>6, <1>8, Zenon DEF Pace, NextSeq
  <2> QED BY <1>3, <2>1, NoFrame, Zenon DEF NatInv
<1>12. GuestFrames'
    BY <1>3, GuestKept, Zenon DEF NatInv
<1> QED BY <1>7, <1>9, <1>10, <1>11, <1>12, Zenon DEF NatInv

LEMMA HandleTcpDataKeepsInv ==
    ASSUME NatInv, HandleTcpData, StackOnly
    PROVE  NatInv'
<1>1. PICK S : Typed(S)
    BY Zenon DEF NatInv, Types
<1>2. PICK n, u, T : n = loop.n /\ u = loop.unit /\ T = S \cup {u}
    BY Zenon
<1>3. Typed(T) /\ u \in T /\ n \in Ids /\ loop.at = "feed"
  <2>1. n \in 1 .. made /\ loop.at = "feed"
      BY <1>2, Zenon DEF HandleTcpData, NatInv, Owners, Awaits
  <2> QED BY <1>1, <1>2, <2>1, InTable, Wider, Zenon DEF NatInv
<1>4. conn \in [Ids -> Conns(T)] /\ conn[n] \in Conns(T)
    BY <1>3, Zenon DEF Typed
<1>5. PICK d \in Seq(T), a \in Seq(T), q \in Nat :
          d = Append(conn[n].data, u) /\ a = Append(conn[n].accepted, u) /\ q = conn[n].next + 1
  <2>1. conn[n].data \in Seq(T) /\ conn[n].accepted \in Seq(T) /\ conn[n].next \in Nat
      BY <1>4, Zenon DEF Conns
  <2>2. conn[n].next + 1 \in Nat
      BY <2>1
  <2> QED BY <1>3, <2>1, <2>2, StaysSeq, Zenon
<1>6. PICK r \in Conns(T) :
          /\ r = [conn[n] EXCEPT !.data = d, !.next = q, !.accepted = a]
          /\ r.flow = conn[n].flow /\ r.task = conn[n].task /\ r.our_seq = conn[n].our_seq
          /\ r.aborted = conn[n].aborted /\ r.data = d /\ r.accepted = a
          /\ r.remote = conn[n].remote
  <2>1. \A c \in Conns(T) :
            LET r == [c EXCEPT !.data = d, !.next = q, !.accepted = a] IN
            /\ r \in Conns(T) /\ r.flow = c.flow /\ r.task = c.task /\ r.our_seq = c.our_seq
            /\ r.aborted = c.aborted /\ r.data = d /\ r.accepted = a /\ r.remote = c.remote
      BY Zenon DEF Conns
  <2> QED BY <1>4, <2>1, Zenon
<1>7. /\ tcp' = tcp /\ made' = made /\ nat_rx' = nat_rx /\ gin' = gin
      /\ conn' = [conn EXCEPT ![n] = r] /\ Running(n)
      /\ loop' = Replying(AckFrame(conn[n].flow, n, q), "none")
    BY <1>2, <1>5, <1>6, Zenon DEF HandleTcpData, StackOnly
<1>8. /\ conn' \in [Ids -> Conns(T)] /\ conn'[n] = r
      /\ \A m \in Ids : m # n => conn'[m] = conn[m]
    BY <1>3, <1>4, <1>7, Zenon
<1>9. Types'
  <2>1. Typed(T)'
      BY <1>3, <1>7, <1>8, Zenon DEF Typed
  <2> QED BY <2>1, Zenon DEF Types
<1>10. Owners'
  <2>1. loop'.at = "reply" /\ loop'.then = "none" /\ loop'.frame.kind = "ACK"
      BY <1>7, Zenon DEF Replying, AckFrame, TcpFrame
  <2>2. Awaits' /\ "feed" # "reply"
      BY <2>1, Zenon DEF Awaits
  <2>3. \A m \in Ids : Onward(m)
      BY <1>6, <1>8, Zenon DEF Onward, Running
  <2> QED BY <1>3, <1>7, <2>2, <2>3, OwnersAt, Zenon DEF NatInv
<1>11. AcceptedIsForwarded'
  <2>1. conn[n].remote \in Seq(T) /\ conn[n].data \in Seq(T)
      BY <1>4, Zenon DEF Conns
  <2>2. conn[n].remote \o conn[n].data = conn[n].accepted
      BY <1>3, <1>7, Zenon DEF NatInv, AcceptedIsForwarded
  <2>3. conn[n].remote \o Append(conn[n].data, u) = Append(conn[n].remote \o conn[n].data, u)
    <3>1. \A x, y \in Seq(T) : x \o Append(y, u) = Append(x \o y, u)
      <4>1. u \in T
          BY <1>3, Zenon
      <4> QED BY <4>1
    <3> QED BY <2>1, <3>1, Zenon
  <2>4. r.remote \o r.data = r.accepted
      BY <1>5, <1>6, <2>2, <2>3, Zenon
  <2> QED BY <1>8, <2>4, Zenon DEF NatInv, AcceptedIsForwarded, Running
<1>12. Frames'
  <2>1. \A m \in Ids : conn[m].task = "none" \/ Pace(m)
      BY <1>6, <1>8, Zenon DEF Pace, NextSeq
  <2> QED BY <1>7, <2>1, NoFrame, Zenon DEF NatInv
<1>13. GuestFrames'
    BY <1>7, GuestKept, Zenon DEF NatInv
<1> QED BY <1>9, <1>10, <1>11, <1>12, <1>13, Zenon DEF NatInv

-----------------------------------------------------------------------------
(* The turns of the loop.                                                  *)

LEMMA Taken ==
    ASSUME NatInv, NEW p, Takes(p)
    PROVE  /\ Channels /\ ~(loop.at = "reply" /\ loop.then = "insert")
           /\ p.kind \in TcpKinds => p.flow \in Flows
<1>1. loop.at = "tick" /\ gin # <<>> /\ p = Head(gin) /\ gin' = Tail(gin) /\ nat_rx' = <<>>
    BY Zenon DEF Takes
<1>2. PICK S : gin \in Seq(S)
    BY Zenon DEF NatInv, Types, Typed
<1>3. 1 \in 1 .. Len(gin) /\ p = gin[1]
    BY <1>1, <1>2
<1>4. p.kind \in TcpKinds => p.flow \in Flows
    BY <1>3, Zenon DEF NatInv, GuestFrames
<1>5. Channels
    BY <1>1, Zenon DEF Channels
<1>6. "tick" # "reply"
    BY Zenon
<1> QED BY <1>1, <1>4, <1>5, <1>6, Zenon

LEMMA RstKeepsInv ==
    ASSUME NatInv, NEW p, Takes(p), NEW f \in Flows, HandleRst(f)
    PROVE  NatInv'
<1>1. PICK S : Typed(S)
    BY Zenon DEF NatInv, Types
<1>2. Channels /\ Awaits' /\ ~(loop.at = "reply" /\ loop.then = "insert") /\ made' = made
    BY Taken, AtTickAwaits, Zenon DEF HandleRst
<1>3. CASE tcp[f] = 0
    BY <1>2, <1>3, TableKept, Zenon DEF HandleRst
<1>4. CASE tcp[f] # 0
  <2>1. RemoveTcp(f) /\ tcp' = [tcp EXCEPT ![f] = 0]
      BY <1>4, Zenon DEF HandleRst, RemoveTcp
  <2>2. /\ conn' \in [Ids -> Conns(S)] /\ tcp' \in [Flows -> 0 .. made]
        /\ \A m \in Ids : Same(m)
        /\ conn'[tcp[f]].aborted
      BY <1>1, <1>4, <2>1, Removes, Zenon DEF NatInv
  <2>3. Owners'
      BY <1>2, <1>4, <2>1, <2>2, OwnersRemoved, Zenon DEF NatInv
  <2> QED BY <1>1, <1>2, <2>2, <2>3, HandlerKeepsInv, Zenon
<1> QED BY <1>3, <1>4, Zenon

LEMMA SynKeepsInv ==
    ASSUME NatInv, NEW p, Takes(p), NEW f \in Flows, HandleTcpSyn(f)
    PROVE  NatInv'
<1>1. tcp' = tcp /\ conn' = conn /\ made' = made
    BY Zenon DEF HandleTcpSyn
<1>2. \/ loop' = AtTick \/ loop' = Replying(RstFrame(f), "none")
      \/ loop' = Connecting(f) /\ tcp'[f] = 0
    BY <1>1, Zenon DEF HandleTcpSyn
<1>3. Awaits'
  <2>1. CASE loop' = AtTick
      BY <2>1, AtTickAwaits, Zenon
  <2>2. CASE loop' = Replying(RstFrame(f), "none")
    <3>1. loop'.at = "reply" /\ loop'.then = "none" /\ loop'.frame.kind = "RST"
        BY <2>2, Zenon DEF Replying, RstFrame, TcpFrame
    <3> QED BY <3>1, Zenon DEF Awaits
  <2>3. CASE loop' = Connecting(f) /\ tcp'[f] = 0
    <3>1. loop'.at = "connect" /\ loop'.flow = f
        BY <2>3, Zenon DEF Connecting
    <3> QED BY <2>3, <3>1, Zenon DEF Awaits
  <2> QED BY <1>2, <2>1, <2>2, <2>3, Zenon
<1> QED BY <1>1, <1>3, Taken, TableKept, Zenon

(* The state of an entry, before its FIN or data is handled.               *)
LEMMA EntryKeepsInv ==
    ASSUME NatInv, NEW p, Takes(p), NEW f \in Flows, tcp[f] # 0, tcp' = tcp, made' = made,
           NEW x \in {"SynReceived", "Established", "FinWait"},
           conn' = [conn EXCEPT ![tcp[f]].state = x], Awaits'
    PROVE  NatInv'
<1>1. PICK S : Typed(S)
    BY Zenon DEF NatInv, Types
<1>2. tcp[f] \in Ids /\ tcp' \in [Flows -> 0 .. made]
    BY <1>1, InTable, Zenon DEF NatInv, Typed
<1>3. conn' \in [Ids -> Conns(S)] /\ \A m \in Ids : Same(m)
    BY <1>1, <1>2, SetsState, Zenon
<1>4. \A m \in Ids : Onward(m)
    BY <1>3, Zenon DEF Same, Onward, Running
<1>5. Channels /\ ~(loop.at = "reply" /\ loop.then = "insert")
    BY Taken, Zenon
<1>6. Owners'
    BY <1>4, <1>5, OwnersAt, Zenon DEF NatInv
<1> QED BY <1>1, <1>2, <1>3, <1>5, <1>6, HandlerKeepsInv, Zenon

LEMMA FinKeepsInv ==
    ASSUME NatInv, NEW p, Takes(p), NEW f \in Flows, tcp[f] # 0, NEW seq, HandleTcpFin(f, seq)
    PROVE  NatInv'
<1>1. PICK k : k = AckFrame(f, tcp[f], seq + 1)
    BY Zenon
<1>2. k.kind = "ACK" /\ k.flow = f
    BY <1>1, Zenon DEF AckFrame, TcpFrame
<1>3. /\ conn' = [conn EXCEPT ![tcp[f]].state = "FinWait"] /\ loop' = Replying(k, "remove")
      /\ tcp' = tcp /\ made' = made
    BY <1>1, Zenon DEF HandleTcpFin
<1>4. Awaits'
  <2>1. loop'.at = "reply" /\ loop'.then = "remove" /\ loop'.frame = k
      BY <1>3, Zenon DEF Replying
  <2> QED BY <1>2, <1>3, <2>1, Zenon DEF Awaits
<1> QED BY <1>3, <1>4, EntryKeepsInv, Zenon

LEMMA AckKeepsInv ==
    ASSUME NatInv, NEW p, Takes(p), NEW f \in Flows, tcp[f] # 0, NEW units, HandleTcpAck(f, units)
    PROVE  NatInv'
<1>1. PICK n : n = tcp[f]
    BY Zenon
<1>2. /\ conn' = [conn EXCEPT ![n].state = "Established"]
      /\ loop' = AtTick \/ loop' = Feeding(n, units[1])
      /\ tcp' = tcp /\ made' = made
    BY <1>1, Zenon DEF HandleTcpAck
<1>3. Awaits'
  <2>1. CASE loop' = AtTick
      BY <2>1, AtTickAwaits, Zenon
  <2>2. CASE loop' = Feeding(n, units[1])
    <3>1. n \in Ids /\ n \in 1 .. made /\ conn[n].flow = f
        BY <1>1, InTable, Zenon DEF NatInv, Owners, Table
    <3>2. conn'[n].flow = conn[n].flow
      <4>1. PICK S : Typed(S)
          BY Zenon DEF NatInv, Types
      <4> QED BY <1>2, <3>1, <4>1, SetsState, Zenon DEF Same
    <3>3. loop'.at = "feed" /\ loop'.n = n
        BY <2>2, Zenon DEF Feeding
    <3> QED BY <1>1, <1>2, <3>1, <3>2, <3>3, Zenon DEF Awaits
  <2> QED BY <1>2, <2>1, <2>2, Zenon
<1> QED BY <1>1, <1>2, <1>3, EntryKeepsInv, Zenon

LEMMA TurnNatKeepsInv ==
    ASSUME NatInv, NEW p, TurnNat(p)
    PROVE  NatInv'
<1>1. Takes(p) /\ ProcessFrame(p)
    BY Zenon DEF TurnNat
<1>2. CASE p.kind \in TcpKinds /\ HandleTcp(p)
  <2>1. p.flow \in Flows
      BY <1>1, <1>2, Taken, Zenon
  <2>2. CASE p.kind = "RST" /\ HandleRst(p.flow)
      BY <1>1, <2>1, <2>2, RstKeepsInv, Zenon
  <2>3. CASE p.kind = "SYN" /\ HandleTcpSyn(p.flow)
      BY <1>1, <2>1, <2>3, SynKeepsInv, Zenon
  <2>4. CASE tcp[p.flow] # 0 /\ HandleTcpFin(p.flow, p.seq)
      BY <1>1, <2>1, <2>4, FinKeepsInv, Zenon
  <2>5. CASE tcp[p.flow] # 0 /\ \E units : HandleTcpAck(p.flow, units)
      BY <1>1, <2>1, <2>5, AckKeepsInv, Zenon
  <2>6. CASE loop' = AtTick /\ UNCHANGED <<tcp, conn, made, bindings, receiving, rleft>>
    <3>1. Awaits'
        BY <2>6, AtTickAwaits, Zenon
    <3> QED BY <1>1, <2>6, <3>1, Taken, TableKept, Zenon
  <2> QED BY <1>2, <2>2, <2>3, <2>4, <2>5, <2>6, Zenon DEF HandleTcp
<1>3. CASE HandleUdp(p.key) \/ HandleIcmp(p.key)
  <2>1. tcp' = tcp /\ conn' = conn /\ made' = made /\ loop' = AtTick
      BY <1>3, Zenon DEF HandleUdp, HandleIcmp, Bind
  <2> QED BY <1>1, <2>1, AtTickAwaits, Taken, TableKept, Zenon
<1> QED BY <1>1, <1>2, <1>3, Zenon DEF ProcessFrame, TcpKinds

LEMMA TurnForwardKeepsInv ==
    ASSUME NatInv, NEW p, TurnForward(p)
    PROVE  NatInv'
<1>1. Takes(p) /\ tcp' = tcp /\ conn' = conn /\ made' = made
    BY Zenon DEF TurnForward, HandleGuestResponse
<1>2. loop' = AtTick \/ \E v : loop' = Replying(ForwardAck(v), "forward")
    BY Zenon DEF TurnForward, HandleGuestResponse, HandleTcpResponse, HandleUdpResponse
<1>3. Awaits'
  <2>1. CASE loop' = AtTick
      BY <2>1, AtTickAwaits, Zenon
  <2>2. ASSUME NEW v, loop' = Replying(ForwardAck(v), "forward") PROVE Awaits'
    <3>1. loop'.at = "reply" /\ loop'.then = "forward" /\ loop'.frame.kind = "FACK"
        BY <2>2, Zenon DEF Replying, ForwardAck
    <3> QED BY <3>1, Zenon DEF Awaits
  <2> QED BY <1>2, <2>1, <2>2, Zenon
<1> QED BY <1>1, <1>3, Taken, TableKept, Zenon

LEMMA TurnDnsKeepsInv ==
    ASSUME NatInv, NEW p, TurnDns(p)
    PROVE  NatInv'
<1>1. Takes(p) /\ tcp' = tcp /\ conn' = conn /\ made' = made /\ loop'.at = "dns"
    BY Zenon DEF TurnDns, Resolving
<1>2. Awaits'
    BY <1>1, Zenon DEF Awaits
<1> QED BY <1>1, <1>2, Taken, TableKept, Zenon

LEMMA TurnDeniedKeepsInv ==
    ASSUME NatInv, NEW p, TurnDenied(p)
    PROVE  NatInv'
<1>1. Takes(p) /\ tcp' = tcp /\ conn' = conn /\ made' = made /\ loop' = loop
    BY Zenon DEF TurnDenied
<1> QED BY <1>1, Taken, TableKept, Zenon

LEMMA TurnLocalKeepsInv ==
    ASSUME NatInv, TurnLocal
    PROVE  NatInv'
<1>1. PICK S : Typed(S)
    BY Zenon DEF NatInv, Types
<1>2. PICK idle : Cleanup(idle)
    BY Zenon DEF TurnLocal
<1>3. loop.at = "tick" /\ loop' = loop /\ made' = made /\ Channels
    BY Zenon DEF TurnLocal, Channels
<1>4. \A c \in Conns(S) :
          LET r == [c EXCEPT !.aborted = TRUE] IN
          /\ r \in Conns(S) /\ r.flow = c.flow /\ r.task = c.task /\ r.our_seq = c.our_seq
          /\ r.aborted = TRUE /\ r.data = c.data /\ r.accepted = c.accepted /\ r.remote = c.remote
  <2>1. PICK b \in BOOLEAN : b = TRUE
      BY Zenon
  <2>2. \A c \in Conns(S) :
            LET r == [c EXCEPT !.aborted = b] IN
            /\ r \in Conns(S) /\ r.flow = c.flow /\ r.task = c.task /\ r.our_seq = c.our_seq
            /\ r.aborted = b /\ r.data = c.data /\ r.accepted = c.accepted /\ r.remote = c.remote
      BY Zenon DEF Conns
  <2> QED BY <2>1, <2>2, Zenon
<1>5. \A n \in Ids : /\ conn'[n] \in Conns(S) /\ Same(n)
                     /\ conn[n].flow \in idle /\ tcp[conn[n].flow] = n => conn'[n].aborted
  <2> SUFFICES ASSUME NEW n \in Ids
               PROVE  /\ conn'[n] \in Conns(S) /\ Same(n)
                      /\ conn[n].flow \in idle /\ tcp[conn[n].flow] = n => conn'[n].aborted
      BY Zenon
  <2>1. conn[n] \in Conns(S)
      BY <1>1, Zenon DEF Typed
  <2>2. CASE conn[n].flow \in idle /\ tcp[conn[n].flow] = n
    <3>1. conn'[n] = [conn[n] EXCEPT !.aborted = TRUE]
        BY <1>2, <2>2, Zenon DEF Cleanup
    <3> QED BY <1>4, <2>1, <3>1, Zenon DEF Same
  <2>3. CASE ~(conn[n].flow \in idle /\ tcp[conn[n].flow] = n)
    <3>1. conn'[n] = conn[n]
        BY <1>2, <2>3, Zenon DEF Cleanup
    <3> QED BY <2>1, <2>3, <3>1, Zenon DEF Same
  <2> QED BY <2>2, <2>3, Zenon
<1>6. conn' \in [Ids -> Conns(S)]
  <2>1. conn' = [n \in Ids |-> conn'[n]]
      BY <1>2, Zenon DEF Cleanup
  <2> QED BY <1>5, <2>1, Zenon
<1>7. /\ tcp' \in [Flows -> 0 .. made]
      /\ \A f \in Flows : tcp'[f] = 0 \/ tcp'[f] = tcp[f]
      /\ \A f \in Flows : f \notin idle => tcp'[f] = tcp[f]
  <2>1. tcp' = [f \in Flows |-> IF f \in idle THEN 0 ELSE tcp[f]]
      BY <1>2, Zenon DEF Cleanup
  <2>2. 0 \in 0 .. made /\ tcp \in [Flows -> 0 .. made]
    <3>1. 0 \in 0 .. made
        BY InTable DEF NatInv
    <3> QED BY <1>1, <3>1, Zenon DEF Typed
  <2> QED BY <2>1, <2>2, Zenon
<1>8. Owners'
  <2>1. Awaits'
      BY <1>3, Zenon DEF Awaits
  <2>2. Table'
    <3>1. \A g \in Flows : tcp'[g] # 0 => conn'[tcp'[g]].flow = g
      <4> SUFFICES ASSUME NEW g \in Flows, tcp'[g] # 0 PROVE conn'[tcp'[g]].flow = g
          BY Zenon
      <4>1. tcp'[g] = tcp[g] /\ tcp[g] # 0
          BY <1>7, Zenon
      <4>2. conn[tcp[g]].flow = g /\ tcp[g] \in Ids
          BY <4>1, InTable, Zenon DEF NatInv, Owners, Table
      <4> QED BY <1>5, <4>1, <4>2, Zenon DEF Same
    <3> QED BY <1>3, <1>5, <3>1, Zenon DEF NatInv, Owners, Table, Same
  <2>3. TasksOwned'
    <3> SUFFICES ASSUME NEW n \in Ids, Running(n)', ~conn'[n].aborted
                 PROVE  tcp'[conn'[n].flow] = n
        BY Zenon DEF TasksOwned
    <3>1. Running(n) /\ ~conn[n].aborted /\ conn'[n].flow = conn[n].flow
        BY <1>5, Zenon DEF Same, Running
    <3>2. tcp[conn[n].flow] = n /\ conn[n].flow \in Flows
        BY <1>3, <3>1, Zenon DEF NatInv, Owners, TasksOwned, Table, Running
    <3> QED BY <1>5, <1>7, <3>1, <3>2, Zenon
  <2> QED BY <2>1, <2>2, <2>3, Zenon DEF Owners
<1> QED BY <1>1, <1>3, <1>5, <1>6, <1>7, <1>8, HandlerKeepsInv, Zenon

-----------------------------------------------------------------------------
(* The steps of the others.                                                *)

LEMMA OthersKeepInv ==
    ASSUME NatInv, \/ DnsDone
                   \/ \E k \in Keys : (BindingReplies(k) \/ ReceiveFails(k)) /\ StackOnly
                   \/ ForwardStep
    PROVE  NatInv'
<1>1. CASE DnsDone
  <2>1. /\ tcp' = tcp /\ conn' = conn /\ made' = made /\ loop' = AtTick /\ loop.at = "dns"
        /\ "dns" # "reply" /\ Channels
      BY <1>1, Zenon DEF DnsDone, Channels
  <2> QED BY <2>1, AtTickAwaits, TableKept, Zenon
<1>2. ASSUME NEW k \in Keys, BindingReplies(k), StackOnly PROVE NatInv'
  <2>1. /\ tcp' = tcp /\ conn' = conn /\ made' = made /\ loop' = loop /\ gin' = gin
        /\ nat_rx' = Append(nat_rx, IF k \in UdpKeys THEN UdpFrame(k) ELSE EchoFrame(k))
      BY <1>2, Zenon DEF BindingReplies, StackOnly
  <2>2. (IF k \in UdpKeys THEN UdpFrame(k) ELSE EchoFrame(k)).kind \notin {"DATA", "FIN"}
      BY Zenon DEF UdpFrame, EchoFrame
  <2>3. Channels
      BY <2>1, <2>2, Zenon DEF Channels
  <2> QED BY <2>1, <2>3, TableKept, Zenon
<1>3. ASSUME NEW k \in Keys, ReceiveFails(k), StackOnly PROVE NatInv'
  <2>1. /\ tcp' = tcp /\ conn' = conn /\ made' = made /\ loop' = loop /\ Channels
      BY <1>3, Zenon DEF ReceiveFails, StackOnly, Channels
  <2> QED BY <2>1, TableKept, Zenon
<1>4. ASSUME NEW c \in Clients, gin' = gin,
             ListenerAccepts(c) \/ ListenerSendsSyn(c) \/ UdpForwards(c)
      PROVE  NatInv'
  <2>1. /\ tcp' = tcp /\ conn' = conn /\ made' = made /\ loop' = loop
        /\ \/ nat_rx' = nat_rx \/ nat_rx' = Append(nat_rx, ForwardSyn(c))
           \/ nat_rx' = Append(nat_rx, ForwardUdp(c))
      BY <1>4, Zenon DEF ListenerAccepts, ListenerSendsSyn, UdpForwards, natVars
  <2>2. ForwardSyn(c).kind \notin {"DATA", "FIN"} /\ ForwardUdp(c).kind \notin {"DATA", "FIN"}
      BY Zenon DEF ForwardSyn, ForwardUdp
  <2>3. Channels
      BY <1>4, <2>1, <2>2, Zenon DEF Channels
  <2> QED BY <2>1, <2>3, TableKept, Zenon
<1> QED BY <1>1, <1>2, <1>3, <1>4, Zenon DEF ForwardStep, FwdNext

LEMMA GuestKeepsInv ==
    ASSUME NatInv, GuestStep
    PROVE  NatInv'
<1>1. PICK p : Sends(p) /\ (p.kind \in TcpKinds => p.flow \in Flows)
  <2>1. ASSUME NEW f \in Flows, NEW kind, NEW seq, SendsTcp(Segment(kind, f, seq))
        PROVE  \E p : Sends(p) /\ (p.kind \in TcpKinds => p.flow \in Flows)
    <3>1. Sends(Segment(kind, f, seq)) /\ Segment(kind, f, seq).flow = f
        BY <2>1, Zenon DEF SendsTcp, Segment
    <3> QED BY <3>1, Zenon
  <2>2. ASSUME NEW p, SendsOther(p), p.kind \notin TcpKinds
        PROVE  \E q : Sends(q) /\ (q.kind \in TcpKinds => q.flow \in Flows)
      BY <2>2, Zenon DEF SendsOther
  <2>3. ASSUME NEW f \in Flows, \/ GuestOpens(f) \/ GuestAcks(f) \/ GuestWrites(f)
                                \/ GuestRetransmits(f) \/ GuestEnds(f)
        PROVE  \E p : Sends(p) /\ (p.kind \in TcpKinds => p.flow \in Flows)
      BY <2>1, <2>3, Zenon DEF GuestOpens, GuestAcks, GuestWrites, GuestRetransmits, GuestEnds
  <2>4. ASSUME NEW c \in Clients, GuestAnswers(c)
        PROVE  \E p : Sends(p) /\ (p.kind \in TcpKinds => p.flow \in Flows)
    <3>1. [kind |-> "FSYNACK", vport |-> VPortOf[c]].kind \notin TcpKinds
        BY Zenon DEF TcpKinds
    <3> QED BY <2>2, <2>4, <3>1, Zenon DEF GuestAnswers
  <2>5. ASSUME GuestOther
        PROVE  \E p : Sends(p) /\ (p.kind \in TcpKinds => p.flow \in Flows)
    <3>1. /\ \A k : /\ [kind |-> "UDP", key |-> k].kind \notin TcpKinds
                    /\ [kind |-> "ECHO", key |-> k].kind \notin TcpKinds
          /\ \A v : \A kind \in {"FDATA", "FFIN"} :
                [kind |-> kind, vport |-> v].kind \notin TcpKinds
          /\ \A kind \in {"DNS", "PING", "ARP"} : [kind |-> kind].kind \notin TcpKinds
        BY Zenon DEF TcpKinds
    <3>2. \E p : SendsOther(p) /\ p.kind \notin TcpKinds
      <4>1. CASE \E k \in UdpKeys : SendsOther([kind |-> "UDP", key |-> k])
          BY <3>1, <4>1, Zenon
      <4>2. CASE \E k \in IcmpKeys : SendsOther([kind |-> "ECHO", key |-> k])
          BY <3>1, <4>2, Zenon
      <4>3. CASE \E v \in VPorts, kind \in {"FDATA", "FFIN"} :
                    SendsOther([kind |-> kind, vport |-> v])
          BY <3>1, <4>3, Zenon
      <4>4. CASE \E kind \in {"DNS", "PING", "ARP"} : SendsOther([kind |-> kind])
          BY <3>1, <4>4, Zenon
      <4> QED BY <2>5, <4>1, <4>2, <4>3, <4>4, Zenon DEF GuestOther
    <3> QED BY <2>2, <3>2, Zenon
  <2> QED BY <2>3, <2>4, <2>5, Zenon DEF GuestStep
<1>2. /\ gin' = Append(gin, p) /\ tcp' = tcp /\ conn' = conn /\ made' = made /\ loop' = loop
      /\ nat_rx' = nat_rx
    BY <1>1, Zenon DEF Sends, natVars
<1>3. PICK S, T : Typed(S) /\ T = S \cup {p}
    BY Zenon DEF NatInv, Types
<1>4. Typed(T) /\ p \in T
    BY <1>3, Wider, Zenon
<1>5. Types'
  <2>1. gin' \in Seq(T)
      BY <1>2, <1>4, StaysSeq, Zenon DEF Typed
  <2>2. Typed(T)'
      BY <1>2, <1>4, <2>1, Zenon DEF Typed
  <2> QED BY <2>2, Zenon DEF Types
<1>6. GuestFrames'
  <2>1. gin \in Seq(T)
      BY <1>4, Zenon DEF Typed
  <2>2. \A i \in 1 .. Len(gin') : gin'[i] = p \/ (i \in 1 .. Len(gin) /\ gin'[i] = gin[i])
      BY <1>2, <2>1
  <2> QED BY <1>1, <2>2, Zenon DEF NatInv, GuestFrames
<1>7. \A m \in Ids : Onward(m) /\ Same(m) /\ (conn[m].task = "none" \/ Pace(m))
    BY <1>2, Zenon DEF Onward, Running, Same, Pace, NextSeq
<1>8. Owners' /\ Frames'
    BY <1>2, <1>7, OwnersKept, NoFrame, Zenon DEF NatInv
<1>9. AcceptedIsForwarded'
    BY <1>7, DataKept, Zenon DEF NatInv, Same, Running
<1> QED BY <1>5, <1>6, <1>8, <1>9, Zenon DEF NatInv

-----------------------------------------------------------------------------
LEMMA InitNatInv == Init => NatInv
<1> SUFFICES ASSUME Init PROVE NatInv
    BY Zenon
<1>1. /\ tcp = [f \in Flows |-> 0] /\ made = 0 /\ conn = [n \in Ids |-> Unused]
      /\ nat_rx = <<>> /\ loop = AtTick /\ gin = <<>>
    BY Zenon DEF Init, NatInit
<1>2. Types
  <2>1. Unused \in Conns({})
    <3>0. <<>> \in Seq({})
        OBVIOUS
    <3>1. PICK e \in Seq({}) : e = <<>>
        BY <3>0, Zenon
    <3>2. PICK c : c = [flow |-> 0, state |-> "none", next |-> 0, our_seq |-> 1, guest_ack |-> 0,
                        task |-> "none", aborted |-> FALSE, segs |-> 0, data |-> e,
                        accepted |-> e, remote |-> e]
        BY Zenon
    <3>3. c \in Conns({})
        BY <3>2 DEF Conns, Tasks
    <3> QED BY <3>1, <3>2, <3>3, Zenon DEF Unused
  <2>2. <<>> \in Seq({}) /\ 0 \in 0 .. NConn /\ 0 \in 0 .. 0
      BY NatAssumption
  <2>3. Typed({})
      BY <1>1, <2>1, <2>2, Zenon DEF Typed
  <2> QED BY <2>3, Zenon DEF Types
<1>3. \A n \in Ids : conn[n].task = "none"
    BY <1>1, Zenon DEF Unused
<1>4. Owners
  <2>1. Awaits
      BY <1>1, Zenon DEF Awaits, AtTick
  <2>2. Table /\ TasksOwned
      BY <1>1, <1>3, Zenon DEF Table, TasksOwned, Running
  <2> QED BY <2>1, <2>2, Zenon DEF Owners
<1>5. AcceptedIsForwarded
    BY <1>3, Zenon DEF AcceptedIsForwarded, Running
<1>6. Frames
    BY <1>1 DEF Frames, Senders, SegmentsContiguous, SegmentsOf
<1>7. GuestFrames
    BY <1>1 DEF GuestFrames
<1> QED BY <1>2, <1>4, <1>5, <1>6, <1>7, Zenon DEF NatInv

LEMMA NextNatInv == NatInv /\ [Next]_vars => NatInv'
<1> SUFFICES ASSUME NatInv, [Next]_vars PROVE NatInv'
    BY Zenon
<1>1. CASE LoopStep
  <2>1. CASE Turn
      BY <2>1, TurnForwardKeepsInv, TurnDnsKeepsInv, TurnDeniedKeepsInv, TurnNatKeepsInv,
         TurnLocalKeepsInv, Zenon DEF Turn
  <2>2. CASE (HandleTcpData \/ DataToDead \/ Reply) /\ StackOnly
      BY <2>2, HandleTcpDataKeepsInv, DataToDeadKeepsInv, ReplyKeepsInv, Zenon
  <2>3. CASE DnsDone
      BY <2>3, OthersKeepInv, Zenon
  <2> QED BY <1>1, <2>1, <2>2, <2>3, Zenon DEF LoopStep
<1>2. CASE ConnectStep
    BY <1>2, ConnectSucceedsKeepsInv, ConnectFailsKeepsInv, Zenon DEF ConnectStep
<1>3. CASE TaskMoves
    BY <1>3, TaskKeepsInv, OthersKeepInv, Zenon DEF TaskMoves
<1>4. CASE GuestStep
    BY <1>4, GuestKeepsInv, Zenon
<1>5. CASE ForwardStep
    BY <1>5, OthersKeepInv, Zenon
<1>6. CASE UNCHANGED vars
  <2>1. /\ tcp' = tcp /\ conn' = conn /\ made' = made /\ loop' = loop /\ gin' = gin
        /\ nat_rx' = nat_rx
      BY <1>6, Zenon DEF vars, natVars
  <2>2. Channels
      BY <2>1, Zenon DEF Channels
  <2> QED BY <2>1, <2>2, TableKept, Zenon
<1> QED BY <1>1, <1>2, <1>3, <1>4, <1>5, <1>6, Zenon DEF Next

LEMMA NatInvHolds == Spec => []NatInv
    BY InitNatInv, NextNatInv, PTL DEF Spec

(* nat.rs:36-38: for all limits, capacities and flows, a task that was not *)
(* told to stop belongs to an entry of the table or to the SYN the loop is *)
(* answering, whatever handlers, cleanups and tasks come between.          *)
THEOREM NatTasksOwned == Spec => []TasksOwned
<1>1. NatInv => TasksOwned
    BY Zenon DEF NatInv, Owners
<1> QED BY <1>1, NatInvHolds, PTL

(* nat.rs:390-420: the segments of a connection are in the channel in      *)
(* order and without a gap, and a FIN is its last.                         *)
THEOREM NatSegmentsContiguous == Spec => []SegmentsContiguous
<1>1. NatInv => SegmentsContiguous
    BY Zenon DEF NatInv, Frames
<1> QED BY <1>1, NatInvHolds, PTL

(* nat.rs:482-505: while a connection lives, what the guest was told has   *)
(* been received is with the remote or queued for it, in order.            *)
THEOREM NatAcceptedIsForwarded == Spec => []AcceptedIsForwarded
<1>1. NatInv => AcceptedIsForwarded
    BY Zenon DEF NatInv
<1> QED BY <1>1, NatInvHolds, PTL

-----------------------------------------------------------------------------
(* The limit of connections.  What a step does to the entries of the table *)
(* and to the one that is about to be inserted: it adds none and makes     *)
(* none pending, it makes one pending after a look at the table, or it     *)
(* inserts the pending one.  Only the loop adds entries, so the place that *)
(* was free at the look is free at the insertion.                          *)

Entries == {f \in Flows : tcp[f] # 0}
Pending == loop.at = "connect" \/ (loop.at = "reply" /\ loop.then = "insert")
EntriesStep ==
    \/ Entries' \subseteq Entries /\ (Pending' => Pending)
    \/ Entries' = Entries /\ ~TcpFull
    \/ Pending /\ ~Pending' /\ \E f : Entries' \subseteq Entries \cup {f}

LEMMA TableUnchanged ==
    ASSUME tcp' = tcp, Pending' => Pending
    PROVE  EntriesStep
    BY Zenon DEF Entries, EntriesStep

LEMMA AtTickNotPending ==
    /\ loop' = AtTick => ~Pending'
    /\ \A k, then : then # "insert" /\ loop' = Replying(k, then) => ~Pending'
    /\ loop' = Resolving => ~Pending'
    /\ \A n, u : loop' = Feeding(n, u) => ~Pending'
<1>1. loop' = AtTick => ~Pending'
  <2>1. loop' = AtTick => loop'.at = "tick"
      BY DEF AtTick
  <2> QED BY <2>1, Zenon DEF Pending
<1>2. ASSUME NEW k, NEW then, then # "insert", loop' = Replying(k, then) PROVE ~Pending'
  <2>1. loop'.at = "reply" /\ loop'.then = then
      BY <1>2, Zenon DEF Replying
  <2> QED BY <1>2, <2>1, Zenon DEF Pending
<1>3. loop' = Resolving => ~Pending'
  <2>1. loop' = Resolving => loop'.at = "dns"
      BY DEF Resolving
  <2> QED BY <2>1, Zenon DEF Pending
<1>4. ASSUME NEW n, NEW u, loop' = Feeding(n, u) PROVE ~Pending'
  <2>1. loop'.at = "feed"
      BY <1>4, Zenon DEF Feeding
  <2> QED BY <2>1, Zenon DEF Pending
<1> QED BY <1>1, <1>2, <1>3, <1>4, Zenon

LEMMA SameLoop == loop' = loop => (Pending' => Pending)
    BY Zenon DEF Pending

(* An entry is removed: RST, FIN, data for a task that has ended.          *)
LEMMA EntryRemoved ==
    ASSUME NatInv, NEW f, RemoveTcp(f), ~Pending'
    PROVE  EntriesStep
<1>1. tcp' = [tcp EXCEPT ![f] = 0] /\ DOMAIN tcp = Flows
    BY Zenon DEF RemoveTcp, NatInv, Types, Typed
<1>2. Entries' \subseteq Entries
    BY <1>1, Zenon DEF Entries
<1> QED BY <1>2, Zenon DEF EntriesStep

LEMMA HandlerEntries ==
    ASSUME NatInv, NEW p, loop.at = "tick", ProcessFrame(p)
    PROVE  EntriesStep
<1>1. ASSUME NEW f, HandleRst(f) PROVE EntriesStep
    BY <1>1, EntryRemoved, TableUnchanged, AtTickNotPending, Zenon DEF HandleRst
<1>2. ASSUME NEW f, HandleTcpSyn(f) PROVE EntriesStep
  <2>1. tcp' = tcp
      BY <1>2, Zenon DEF HandleTcpSyn
  <2>2. CASE TcpFull \/ tcp[f] # 0
    <3>1. ~Pending'
        BY <1>2, <2>2, AtTickNotPending, Zenon DEF HandleTcpSyn
    <3> QED BY <2>1, <3>1, TableUnchanged, Zenon
  <2>3. CASE ~TcpFull
      BY <2>1, <2>3, Zenon DEF Entries, EntriesStep
  <2> QED BY <2>2, <2>3, Zenon
<1>3. ASSUME NEW f, NEW q, HandleTcpFin(f, q) PROVE EntriesStep
    BY <1>3, TableUnchanged, AtTickNotPending, Zenon DEF HandleTcpFin
<1>4. ASSUME NEW f, NEW u, HandleTcpAck(f, u) PROVE EntriesStep
    BY <1>4, TableUnchanged, AtTickNotPending, Zenon DEF HandleTcpAck
<1>5. ASSUME HandleTcp(p) PROVE EntriesStep
    BY <1>1, <1>2, <1>3, <1>4, <1>5, TableUnchanged, AtTickNotPending, Zenon DEF HandleTcp
<1>6. ASSUME HandleUdp(p.key) \/ HandleIcmp(p.key) PROVE EntriesStep
    BY <1>6, TableUnchanged, AtTickNotPending, Zenon DEF HandleUdp, HandleIcmp, Bind
<1> QED BY <1>5, <1>6, Zenon DEF ProcessFrame

LEMMA TurnEntries == NatInv /\ Turn => EntriesStep
<1> SUFFICES ASSUME NatInv, Turn PROVE EntriesStep
    BY Zenon
<1>1. ASSUME NEW p, TurnForward(p) \/ TurnDns(p) \/ TurnDenied(p) PROVE EntriesStep
  <2>1. ASSUME HandleTcpResponse(p) \/ HandleUdpResponse PROVE ~Pending'
    <3>1. loop' = AtTick \/ \E k : loop' = Replying(k, "forward")
        BY <2>1, Zenon DEF HandleTcpResponse, HandleUdpResponse
    <3> QED BY <3>1, AtTickNotPending, Zenon
  <2>2. CASE TurnForward(p)
      BY <2>1, <2>2, TableUnchanged, Zenon DEF TurnForward, HandleGuestResponse
  <2>3. CASE TurnDns(p) \/ TurnDenied(p)
      BY <2>3, TableUnchanged, AtTickNotPending, SameLoop, Zenon DEF TurnDns, TurnDenied
  <2> QED BY <1>1, <2>2, <2>3, Zenon
<1>2. ASSUME NEW p, TurnNat(p) PROVE EntriesStep
    BY <1>2, HandlerEntries, Zenon DEF TurnNat, Takes
<1>3. CASE TurnLocal
  <2>1. PICK idle : tcp' = [f \in Flows |-> IF f \in idle THEN 0 ELSE tcp[f]]
      BY <1>3, Zenon DEF TurnLocal, Cleanup
  <2>2. Entries' \subseteq Entries
      BY <2>1, Zenon DEF Entries
  <2>3. loop' = loop
      BY <1>3, Zenon DEF TurnLocal
  <2> QED BY <2>2, <2>3, SameLoop, Zenon DEF EntriesStep
<1> QED BY <1>1, <1>2, <1>3, Zenon DEF Turn

LEMMA AwaitEntries ==
    ASSUME NatInv,
           HandleTcpData \/ DataToDead \/ Reply \/ ConnectSucceeds \/ ConnectFails
    PROVE  EntriesStep
<1>1. CASE HandleTcpData \/ ConnectFails
    BY <1>1, TableUnchanged, AtTickNotPending, Zenon DEF HandleTcpData, ConnectFails
<1>2. CASE DataToDead
    BY <1>2, EntryRemoved, AtTickNotPending, Zenon DEF DataToDead
<1>3. CASE ConnectSucceeds
    BY <1>3, TableUnchanged, Zenon DEF ConnectSucceeds, Pending
<1>4. CASE Reply
  <2>1. ~Pending'
      BY <1>4, AtTickNotPending, Zenon DEF Reply
  <2>2. CASE loop.then \notin {"insert", "remove"}
      BY <1>4, <2>1, <2>2, TableUnchanged, Zenon DEF Reply
  <2>3. CASE loop.then = "remove"
      BY <1>4, <2>1, <2>3, EntryRemoved, Zenon DEF Reply
  <2>4. CASE loop.then = "insert"
    <3>1. PICK f : tcp' = [tcp EXCEPT ![f] = loop.frame.n]
        BY <1>4, <2>4, Zenon DEF Reply
    <3>2. DOMAIN tcp = Flows
        BY Zenon DEF NatInv, Types, Typed
    <3>3. Entries' \subseteq Entries \cup {f}
        BY <3>1, <3>2, Zenon DEF Entries
    <3>4. Pending
        BY <1>4, <2>4, Zenon DEF Reply, Pending
    <3> QED BY <2>1, <3>3, <3>4, Zenon DEF EntriesStep
  <2> QED BY <2>2, <2>3, <2>4, Zenon
<1> QED BY <1>1, <1>2, <1>3, <1>4, Zenon

LEMMA NextEntries == NatInv /\ [Next]_vars => EntriesStep
<1> SUFFICES ASSUME NatInv, [Next]_vars PROVE EntriesStep
    BY Zenon
<1>1. CASE LoopStep
    BY <1>1, TurnEntries, AwaitEntries, TableUnchanged, AtTickNotPending, Zenon
       DEF LoopStep, DnsDone
<1>2. CASE ConnectStep
    BY <1>2, AwaitEntries, Zenon DEF ConnectStep
<1>3. CASE TaskMoves
  <2>1. tcp' = tcp /\ loop' = loop
      BY <1>3, Zenon DEF TaskMoves, TaskStep, TaskWrites, TaskReads, TaskSegment, TaskSends, TaskStores,
         TaskSeesEof, TaskSendsFin, TaskFails, OnlyConn, BindingReplies, ReceiveFails
  <2> QED BY <2>1, TableUnchanged, SameLoop, Zenon
<1>4. CASE GuestStep
  <2>1. UNCHANGED natVars
      BY <1>4, Zenon DEF GuestStep, GuestOpens, GuestAcks, GuestWrites, GuestRetransmits, GuestEnds,
         GuestAnswers, GuestOther, SendsTcp, SendsOther, Sends
  <2> QED BY <2>1, TableUnchanged, SameLoop, Zenon DEF natVars
<1>5. CASE ForwardStep
  <2>1. tcp' = tcp /\ loop' = loop
      BY <1>5, Zenon DEF ForwardStep, FwdNext, ListenerAccepts, ListenerSendsSyn, UdpForwards, natVars
  <2> QED BY <2>1, TableUnchanged, SameLoop, Zenon
<1>6. CASE UNCHANGED vars
    BY <1>6, TableUnchanged, SameLoop, Zenon DEF vars, natVars
<1> QED BY <1>1, <1>2, <1>3, <1>4, <1>5, <1>6, Zenon DEF Next

(* Every live task has its entry, but for that of the pending one.         *)
LEMMA LiveHasEntry ==
    ASSUME NatInv, NEW n \in Live
    PROVE  /\ tcp[conn[n].flow] = n \/ (loop.at = "reply" /\ loop.then = "insert" /\ loop.frame.n = n)
           /\ tcp[conn[n].flow] = n => conn[n].flow \in Entries
<1>1. n \in Ids /\ Running(n) /\ ~conn[n].aborted /\ conn[n].task # "none"
    BY Zenon DEF Live, Running
<1>2. n # 0
    BY <1>1 DEF Ids
<1>3. conn[n].flow \in Flows
    BY <1>1, Zenon DEF NatInv, Owners, Table
<1> QED BY <1>1, <1>2, <1>3, Zenon DEF NatInv, Owners, TasksOwned, Entries

-----------------------------------------------------------------------------
(* What the argument uses of finite sets; the library proves it, below.    *)

CardinalityIsNat == \A S : IsFiniteSet(S) => Cardinality(S) \in Nat
EmptyIsFinite == IsFiniteSet({}) /\ Cardinality({}) = 0
SubsetIsSmaller ==
    \A S : \A T \in SUBSET S :
        IsFiniteSet(S) => IsFiniteSet(T) /\ Cardinality(T) <= Cardinality(S)
OneElementMore ==
    \A S, x : IsFiniteSet(S) =>
        /\ IsFiniteSet(S \cup {x})
        /\ Cardinality(S \cup {x}) = IF x \in S THEN Cardinality(S) ELSE Cardinality(S) + 1
InjectionBounds ==
    \A S, T : \A g \in [S -> T] :
        IsFiniteSet(T) /\ (\A m \in S : \A n \in S : g[m] = g[n] => m = n)
            => IsFiniteSet(S) /\ Cardinality(S) <= Cardinality(T)
FiniteSetFacts ==
    CardinalityIsNat /\ EmptyIsFinite /\ SubsetIsSmaller /\ OneElementMore /\ InjectionBounds

(* The inductive invariant: the limit holds, and there is room for a       *)
(* pending entry.                                                          *)
LimitInv ==
    /\ IsFiniteSet(Entries) /\ Cardinality(Entries) <= MaxTcp
    /\ Pending => Cardinality(Entries) < MaxTcp

LEMMA FewerEntries ==
    ASSUME FiniteSetFacts, LimitInv, Entries' \subseteq Entries,
           Pending' => Pending \/ Cardinality(Entries) < MaxTcp
    PROVE  LimitInv'
<1>1. /\ IsFiniteSet(Entries') /\ Cardinality(Entries') <= Cardinality(Entries)
      /\ Cardinality(Entries) \in Nat /\ Cardinality(Entries') \in Nat
  <2>1. IsFiniteSet(Entries)
      BY Zenon DEF LimitInv
  <2>2. IsFiniteSet(Entries') /\ Cardinality(Entries') <= Cardinality(Entries)
      BY <2>1, Zenon DEF FiniteSetFacts, SubsetIsSmaller
  <2> QED BY <2>1, <2>2, Zenon DEF FiniteSetFacts, CardinalityIsNat
<1>2. MaxTcp \in Nat
    BY NatAssumption, Zenon
<1>3. /\ Cardinality(Entries) <= MaxTcp
      /\ Pending' => Cardinality(Entries) < MaxTcp
    BY Zenon DEF LimitInv
<1>4. PICK a \in Nat, b \in Nat : a = Cardinality(Entries) /\ b = Cardinality(Entries')
    BY <1>1, Zenon
<1>5. b <= MaxTcp /\ (Pending' => b < MaxTcp)
  <2>1. b <= a /\ a <= MaxTcp /\ (Pending' => a < MaxTcp)
      BY <1>1, <1>3, <1>4, Zenon
  <2> QED BY <1>2, <2>1, Z3
<1> QED BY <1>1, <1>4, <1>5, Zenon DEF LimitInv

LEMMA OneMoreEntry ==
    ASSUME FiniteSetFacts, LimitInv, Pending, ~Pending', NEW f, Entries' \subseteq Entries \cup {f}
    PROVE  LimitInv'
<1>1. IsFiniteSet(Entries) /\ Cardinality(Entries) < MaxTcp
    BY Zenon DEF LimitInv
<1>2. /\ IsFiniteSet(Entries \cup {f})
      /\ Cardinality(Entries \cup {f}) = IF f \in Entries THEN Cardinality(Entries)
                                         ELSE Cardinality(Entries) + 1
    BY <1>1, Zenon DEF FiniteSetFacts, OneElementMore
<1>3. IsFiniteSet(Entries') /\ Cardinality(Entries') <= Cardinality(Entries \cup {f})
    BY <1>2, Zenon DEF FiniteSetFacts, SubsetIsSmaller
<1>4. PICK a \in Nat, b \in Nat, d \in Nat :
          a = Cardinality(Entries) /\ b = Cardinality(Entries') /\ d = Cardinality(Entries \cup {f})
    BY <1>1, <1>2, <1>3, Zenon DEF FiniteSetFacts, CardinalityIsNat
<1>5. b <= MaxTcp
  <2>1. a < MaxTcp /\ (d = a \/ d = a + 1) /\ b <= d
      BY <1>1, <1>2, <1>3, <1>4, Zenon
  <2>2. MaxTcp \in Nat
      BY NatAssumption, Zenon
  <2> QED BY <2>1, <2>2, Z3
<1> QED BY <1>3, <1>4, <1>5, Zenon DEF LimitInv

LEMMA InitLimitInv == FiniteSetFacts /\ Init => LimitInv
<1> SUFFICES ASSUME FiniteSetFacts, Init PROVE LimitInv
    BY Zenon
<1>1. tcp = [f \in Flows |-> 0] /\ loop = AtTick
    BY Zenon DEF Init, NatInit
<1>2. Entries = {} /\ ~Pending
    BY <1>1, Zenon DEF Entries, Pending, AtTick
<1>3. IsFiniteSet({}) /\ Cardinality({}) = 0
    BY Zenon DEF FiniteSetFacts, EmptyIsFinite
<1>4. 0 <= MaxTcp
    BY NatAssumption
<1> QED BY <1>2, <1>3, <1>4, Zenon DEF LimitInv

LEMMA NextLimitInv == FiniteSetFacts /\ NatInv /\ LimitInv /\ [Next]_vars => LimitInv'
<1> SUFFICES ASSUME FiniteSetFacts, NatInv, LimitInv, [Next]_vars PROVE LimitInv'
    BY Zenon
<1>1. CASE Entries' \subseteq Entries /\ (Pending' => Pending)
    BY <1>1, FewerEntries, Zenon
<1>2. CASE Entries' = Entries /\ ~TcpFull
  <2>1. PICK a \in Nat : a = Cardinality(Entries)
      BY Zenon DEF FiniteSetFacts, CardinalityIsNat, LimitInv
  <2>2. MaxTcp \in Nat /\ ~(a >= MaxTcp)
      BY <1>2, <2>1, NatAssumption, Zenon DEF TcpFull, Entries
  <2>3. a < MaxTcp
      BY <2>2, Z3
  <2> QED BY <1>2, <2>1, <2>3, FewerEntries, Zenon
<1>3. CASE Pending /\ ~Pending' /\ \E f : Entries' \subseteq Entries \cup {f}
    BY <1>3, OneMoreEntry, Zenon
<1> QED BY <1>1, <1>2, <1>3, NextEntries, Zenon DEF EntriesStep

(* The tasks of a set whose entries are in the table are no more than the  *)
(* entries: the flow of a task leads back to it.                           *)
LEMMA TasksOfEntries ==
    ASSUME FiniteSetFacts, NatInv, LimitInv, NEW T \in SUBSET Live, \A n \in T : tcp[conn[n].flow] = n
    PROVE  IsFiniteSet(T) /\ Cardinality(T) <= Cardinality(Entries)
<1>1. ASSUME NEW n \in T PROVE conn[n].flow \in Entries
    BY <1>1, LiveHasEntry, Zenon
<1>2. PICK g : g = [n \in T |-> conn[n].flow]
    BY Zenon
<1>3. g \in [T -> Entries]
    BY <1>1, <1>2, Zenon
<1>4. ASSUME NEW m \in T, NEW n \in T, g[m] = g[n] PROVE m = n
    BY <1>2, <1>4, Zenon
<1> QED BY <1>3, <1>4, Zenon DEF FiniteSetFacts, InjectionBounds, LimitInv

LEMMA LimitBoundsTasks == FiniteSetFacts /\ NatInv /\ LimitInv => TasksBounded
<1> SUFFICES ASSUME FiniteSetFacts, NatInv, LimitInv PROVE TasksBounded
    BY Zenon
<1>1. PICK a \in Nat : a = Cardinality(Entries)
    BY Zenon DEF FiniteSetFacts, CardinalityIsNat, LimitInv
<1>2. MaxTcp \in Nat /\ a <= MaxTcp /\ (Pending => a < MaxTcp)
    BY <1>1, NatAssumption, Zenon DEF LimitInv
<1>3. \A n \in Live : tcp[conn[n].flow] = n
          \/ (loop.at = "reply" /\ loop.then = "insert" /\ loop.frame.n = n)
    BY LiveHasEntry, Zenon
<1>4. CASE ~(loop.at = "reply" /\ loop.then = "insert")
  <2>1. IsFiniteSet(Live) /\ Cardinality(Live) <= Cardinality(Entries)
      BY <1>3, <1>4, TasksOfEntries, Zenon
  <2>2. PICK b \in Nat : b = Cardinality(Live)
      BY <2>1, Zenon DEF FiniteSetFacts, CardinalityIsNat
  <2>3. b <= a
      BY <1>1, <2>1, <2>2, Zenon
  <2>4. b <= MaxTcp
      BY <1>2, <2>3, Z3
  <2> QED BY <2>2, <2>4, Zenon DEF TasksBounded
<1>5. CASE loop.at = "reply" /\ loop.then = "insert"
  <2>1. PICK m, T : m = loop.frame.n /\ T = Live \ {m}
      BY Zenon
  <2>2. T \in SUBSET Live /\ \A n \in T : tcp[conn[n].flow] = n
      BY <1>3, <2>1, Zenon
  <2>3. IsFiniteSet(T) /\ Cardinality(T) <= Cardinality(Entries)
      BY <2>2, TasksOfEntries, Zenon
  <2>4. /\ IsFiniteSet(T \cup {m})
        /\ Cardinality(T \cup {m}) = IF m \in T THEN Cardinality(T) ELSE Cardinality(T) + 1
      BY <2>3, Zenon DEF FiniteSetFacts, OneElementMore
  <2>5. Live \subseteq T \cup {m}
      BY <2>1, Zenon
  <2>6. IsFiniteSet(Live) /\ Cardinality(Live) <= Cardinality(T \cup {m})
      BY <2>4, <2>5, Zenon DEF FiniteSetFacts, SubsetIsSmaller
  <2>7. PICK b \in Nat, d \in Nat, e \in Nat :
            b = Cardinality(Live) /\ d = Cardinality(T) /\ e = Cardinality(T \cup {m})
      BY <2>3, <2>4, <2>6, Zenon DEF FiniteSetFacts, CardinalityIsNat
  <2>8. b <= e /\ (e = d \/ e = d + 1) /\ d <= a
      BY <1>1, <2>3, <2>4, <2>6, <2>7, Zenon
  <2>9. a < MaxTcp
      BY <1>2, <1>5, Zenon DEF Pending
  <2>10. b <= MaxTcp
      BY <1>2, <2>8, <2>9, Z3
  <2> QED BY <2>7, <2>10, Zenon DEF TasksBounded
<1> QED BY <1>4, <1>5, Zenon

-----------------------------------------------------------------------------
FST == INSTANCE FiniteSetTheorems

LEMMA FiniteSetFactsHold == FiniteSetFacts
<1>1. \A S : FST!Cardinality(S) = Cardinality(S)
    BY Zenon DEF Cardinality, FST!Cardinality
<1>2. \A S : FST!IsFiniteSet(S) <=> IsFiniteSet(S)
    BY Zenon DEF IsFiniteSet, FST!IsFiniteSet
<1>3. CardinalityIsNat
    BY <1>1, <1>2, FST!FS_CardinalityType, Zenon DEF CardinalityIsNat
<1>4. EmptyIsFinite
    BY <1>1, <1>2, FST!FS_EmptySet, Zenon DEF EmptyIsFinite
<1>5. SubsetIsSmaller
    BY <1>1, <1>2, FST!FS_Subset, Zenon DEF SubsetIsSmaller
<1>6. OneElementMore
    BY <1>1, <1>2, FST!FS_AddElement, Zenon DEF OneElementMore
<1>7. InjectionBounds
  <2> SUFFICES ASSUME NEW S, NEW T, NEW g \in [S -> T], IsFiniteSet(T),
                      \A m \in S : \A n \in S : g[m] = g[n] => m = n
               PROVE  IsFiniteSet(S) /\ Cardinality(S) <= Cardinality(T)
      BY Zenon DEF InjectionBounds
  <2>1. g \in FST!Injection(S, T)
      BY DEF FST!Injection, FST!IsInjective
  <2> QED BY <1>1, <1>2, <2>1, FST!FS_Injection, Zenon
<1> QED BY <1>3, <1>4, <1>5, <1>6, <1>7, Zenon DEF FiniteSetFacts

(* nat.rs:35-37, 291: for every limit, no more tasks than MAX_TCP_         *)
(* CONNECTIONS run but for those told to stop, whatever tasks, cleanups    *)
(* and frames come between the look at the table and the insertion.        *)
THEOREM NatTasksBounded == Spec => []TasksBounded
<1>1. Spec => []LimitInv
  <2>1. (Init => LimitInv) /\ (NatInv /\ LimitInv /\ [Next]_vars => LimitInv')
      BY FiniteSetFactsHold, InitLimitInv, NextLimitInv, Zenon
  <2> QED BY <2>1, NatInvHolds, PTL DEF Spec
<1>2. NatInv /\ LimitInv => TasksBounded
    BY FiniteSetFactsHold, LimitBoundsTasks, Zenon
<1> QED BY <1>1, <1>2, NatInvHolds, PTL
=============================================================================
