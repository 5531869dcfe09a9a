----------------------------- MODULE VsockProofs -----------------------------
(***************************************************************************)
(* The two safety invariants of Vsock, for all ports, streams and bounds.  *)
(*                                                                         *)
(* NoMutualWait is inductive with the types.  AcceptedHasStream needs an   *)
(* argument across both components and both channels: a stream that asks   *)
(* for a connection is announced once, and its request is at any time in   *)
(* one place, on its way to the device, pending in it, or on its way back  *)
(* as an acceptance.  As long as it is somewhere, the stream is the one    *)
(* the bridge keeps for the port.                                          *)
(***************************************************************************)
EXTENDS Vsock, TLAPS

-----------------------------------------------------------------------------
(* Messages in a channel: none of A; at most one of A; every one of A      *)
(* ahead of every one of B.                                                *)
None(s, A) == \A i \in 1..Len(s) : s[i] \notin A
AtMostOne(s, A) == \A i, j \in 1..Len(s) : s[i] \in A /\ s[j] \in A => i = j
Ahead(s, A, B) == \A i, j \in 1..Len(s) : s[i] \in A /\ s[j] \in B => i < j

(* What a send does to them.                                               *)
LEMMA Sending ==
    ASSUME NEW M, NEW s \in Seq(M), NEW m \in M
    PROVE  /\ Append(s, m) \in Seq(M)
           /\ \A A : None(Append(s, m), A) <=> None(s, A) /\ m \notin A
           /\ \A A : AtMostOne(s, A) /\ (m \in A => None(s, A)) => AtMostOne(Append(s, m), A)
           /\ \A A : \A B : Ahead(s, A, B) /\ (m \in A => None(s, B) /\ m \notin B)
                                => Ahead(Append(s, m), A, B)
<1> DEFINE t == Append(s, m)
<1>1. /\ t \in Seq(M) /\ Len(t) = Len(s) + 1 /\ t[Len(s) + 1] = m
      /\ \A i \in 1..Len(s) : t[i] = s[i] /\ i # Len(s) + 1
      /\ 1..Len(t) = (1..Len(s)) \cup {Len(s) + 1}
      /\ \A i \in 1..Len(s) : i < Len(s) + 1
    OBVIOUS
<1> HIDE DEF t
<1>2. \A A : None(t, A) <=> None(s, A) /\ m \notin A
    BY <1>1, Zenon DEF None
<1>3. ASSUME NEW A, AtMostOne(s, A), m \in A => None(s, A)
      PROVE  AtMostOne(t, A)
    BY <1>1, <1>3, Zenon DEF None, AtMostOne
<1>4. ASSUME NEW A, NEW B, Ahead(s, A, B), m \in A => None(s, B) /\ m \notin B
      PROVE  Ahead(t, A, B)
    BY <1>1, <1>4, Zenon DEF None, Ahead
<1> QED BY <1>1, <1>2, <1>3, <1>4, Zenon DEF t

(* What taking the first message does to them.                             *)
LEMMA Taking ==
    ASSUME NEW M, NEW s \in Seq(M), s # <<>>
    PROVE  /\ Tail(s) \in Seq(M) /\ Head(s) \in M
           /\ \A A : None(s, A) => None(Tail(s), A) /\ Head(s) \notin A
           /\ \A A : AtMostOne(s, A) => /\ AtMostOne(Tail(s), A)
                                        /\ Head(s) \in A => None(Tail(s), A)
           /\ \A A : \A B : Ahead(s, A, B) => /\ Ahead(Tail(s), A, B)
                                              /\ Head(s) \in B => None(s, A)
           /\ \A A : Head(s) \notin A /\ None(Tail(s), A) => None(s, A)
<1> DEFINE t == Tail(s)
           h == Head(s)
<1>1. /\ t \in Seq(M) /\ h \in M /\ Len(s) \in Nat /\ Len(s) > 0 /\ Len(t) = Len(s) - 1
      /\ h = s[1] /\ \A i \in 1..Len(t) : t[i] = s[i + 1]
    OBVIOUS
<1> HIDE DEF t, h
<1>2. \A i \in 1..Len(t) : i \in Nat /\ i + 1 \in 1..Len(s) /\ i + 1 # 1
    BY <1>1
<1>3. \A i \in 1..Len(s) : i = 1 \/ (i - 1 \in 1..Len(t) /\ t[i - 1] = s[i])
    BY <1>1
<1>4. 1 \in 1..Len(s) /\ \A i \in 1..Len(s) : ~(i < 1)
    BY <1>1
<1>5. \A A : None(s, A) => None(t, A) /\ h \notin A
    BY <1>1, <1>2, <1>4, Zenon DEF None
<1>6. \A A : AtMostOne(s, A) => AtMostOne(t, A) /\ (h \in A => None(t, A))
  <2> SUFFICES ASSUME NEW A, AtMostOne(s, A)
               PROVE  AtMostOne(t, A) /\ (h \in A => None(t, A))
      BY Zenon
  <2>1. AtMostOne(t, A)
    <3> SUFFICES ASSUME NEW i \in 1..Len(t), NEW j \in 1..Len(t), t[i] \in A, t[j] \in A
                 PROVE  i = j
        BY Zenon DEF AtMostOne
    <3>1. i + 1 = j + 1
        BY <1>1, <1>2, Zenon DEF AtMostOne
    <3> QED BY <3>1, <1>2
  <2>2. h \in A => None(t, A)
      BY <1>1, <1>2, <1>4, Zenon DEF None, AtMostOne
  <2> QED BY <2>1, <2>2, Zenon
<1>7. \A A : \A B : Ahead(s, A, B) => Ahead(t, A, B) /\ (h \in B => None(s, A))
  <2> SUFFICES ASSUME NEW A, NEW B, Ahead(s, A, B)
               PROVE  Ahead(t, A, B) /\ (h \in B => None(s, A))
      BY Zenon
  <2>1. Ahead(t, A, B)
    <3> SUFFICES ASSUME NEW i \in 1..Len(t), NEW j \in 1..Len(t), t[i] \in A, t[j] \in B
                 PROVE  i < j
        BY Zenon DEF Ahead
    <3>1. i + 1 < j + 1
        BY <1>1, <1>2, Zenon DEF Ahead
    <3> QED BY <3>1, <1>2
  <2>2. h \in B => None(s, A)
      BY <1>1, <1>4, Zenon DEF None, Ahead
  <2> QED BY <2>1, <2>2, Zenon
<1>8. \A A : h \notin A /\ None(t, A) => None(s, A)
    BY <1>1, <1>3, Zenon DEF None
<1> QED BY <1>1, <1>5, <1>6, <1>7, <1>8, Zenon DEF t, h

-----------------------------------------------------------------------------
(* The inductive invariant.                                                *)

ToDevice ==
    {m \in [kind : {"Connect", "Data", "Closed"}, port : Ports, who : Hosts] :
        m.kind = "Connect" => m.port \in ConnectPorts}
ToBridge ==
    {m \in [kind : {"Connect", "Connected", "Data", "Shutdown"}, port : Ports, who : Streams] :
        m.kind = "Connected" => m.port \in ConnectPorts /\ m.who \in Hosts}

Types ==
    /\ connections \in [Ports -> Streams]
    /\ pending_hosts \in [ListenPorts -> Streams]
    /\ pending_connect_hosts \in [ConnectPorts -> Streams]
    /\ checked \in [Ports -> Streams] /\ late \in [Ports -> Streams]
    /\ hst \in [Hosts -> {"absent", "off", "dialing", "accepted"}] /\ hclosed \subseteq Hosts
    /\ b2d \in Seq(ToDevice) /\ d2b \in Seq(ToBridge)
    /\ \A q \in pending : q.local \in ConnectPorts /\ q.who \in Hosts
    /\ \A c \in conns : c.local \in Ports /\ c.who \in Streams

(* The streams a port's task has in its hands have been accepted there.    *)
InHand ==
    \A p \in Ports : \A h \in {checked[p], late[p]} \ {Nobody} :
        PortOf[h] = p /\ hst[h] = "accepted"

(* Requests on behalf of a stream, acceptances of a request, messages      *)
(* about a stream.                                                         *)
AllAsks == {m \in ToDevice : m.kind = "Connect"}
Answers == {m \in ToBridge : m.kind \in {"Connected", "Shutdown"}}
Asks(p) == {m \in ToDevice : m.kind = "Connect" /\ m.port = p}
Grants(p) == {m \in ToBridge : m.kind = "Connected" /\ m.port = p}
Ends(p) == {m \in ToBridge : m.kind = "Shutdown" /\ m.port = p}
Of(h, A) == {m \in A : m.who = h}

(* A stream of which nothing beyond the check of connections has happened  *)
(* is unknown to the device and to the channels.                           *)
Absent(h, lt, asks, pend, answers, cs) ==
    /\ \A p \in ConnectPorts : lt[p] # h /\ None(asks, Of(h, Asks(p)))
    /\ \A q \in pend : q.who # h
    /\ \A c \in cs : c.who # h
    /\ None(answers, Of(h, Answers))
Unknown(h) == Absent(h, late, b2d, pending, d2b, conns)
Fresh(h) == hst[h] # "accepted" \/ checked[PortOf[h]] = h

(* A request on a connect port is with the port's task, in asks, or        *)
(* pending: it has not been answered.                                      *)
Unanswered(p, l, asks, pend) ==
    l # Nobody \/ ~None(asks, Asks(p)) \/ \E q \in pend : q.local = p

(* There is one request or acceptance at most, it is on behalf of stream w *)
(* and, as long as it is not answered, w has no connection whose end could *)
(* be reported.                                                            *)
Single(p, w, l, asks, pend, answers, cs) ==
    /\ l \in {Nobody, w}
    /\ None(asks, Asks(p) \ Of(w, Asks(p))) /\ AtMostOne(asks, Asks(p))
    /\ \A q \in pend : q.local = p => q.who = w
    /\ None(answers, Grants(p) \ Of(w, Grants(p))) /\ AtMostOne(answers, Grants(p))
    /\ l # Nobody => None(asks, Asks(p))
    /\ l # Nobody \/ ~None(asks, Asks(p)) => \A q \in pend : q.local # p
    /\ Unanswered(p, l, asks, pend) =>
          /\ None(answers, Grants(p)) /\ None(answers, Of(w, Ends(p)))
          /\ \A c \in cs : c.local = p => c.who # w
    /\ w # Nobody => Ahead(answers, Grants(p), Of(w, Ends(p)))

(* The stream the bridge keeps for the port is the one asked for.          *)
OneRequest(p) == Single(p, pending_connect_hosts[p], late[p], b2d, pending, d2b, conns)

Base == Types /\ InHand /\ NoMutualWait
Core ==
    /\ \A h \in Hosts : Fresh(h) => Unknown(h)
    /\ \A p \in ConnectPorts : p \in discarded \/ OneRequest(p)
    /\ AcceptedHasStream
VsockInv == Base /\ Core


-----------------------------------------------------------------------------
(* Steps that make no request, no acceptance and no report of an end.      *)

(* t holds no more of the messages in A than s does.                       *)
Less(s, t, A) ==
    /\ \A X : X \subseteq A /\ None(s, X) => None(t, X)
    /\ \A X : X \subseteq A /\ AtMostOne(s, X) => AtMostOne(t, X)
    /\ \A X : \A Y : X \subseteq A /\ Y \subseteq A /\ Ahead(s, X, Y) => Ahead(t, X, Y)

LEMMA Channels ==
    ASSUME NEW M, NEW s \in Seq(M), NEW A
    PROVE  /\ Less(s, s, A)
           /\ \A m \in M : m \notin A => Less(s, Append(s, m), A)
           /\ s # <<>> => Less(s, Tail(s), A)
<1>1. Less(s, s, A)
    BY Zenon DEF Less
<1>2. ASSUME NEW m \in M, m \notin A
      PROVE  Less(s, Append(s, m), A)
  <2>1. \A X : X \subseteq A => m \notin X
      BY <1>2, Zenon
  <2> QED BY <2>1, Sending, Zenon DEF Less
<1>3. s # <<>> => Less(s, Tail(s), A)
    BY Taking, Zenon DEF Less
<1> QED BY <1>1, <1>2, <1>3, Zenon

LEMMA Subsets ==
    ASSUME NEW p, NEW h
    PROVE  /\ Asks(p) \subseteq AllAsks /\ Of(h, Asks(p)) \subseteq AllAsks
           /\ Asks(p) \ Of(h, Asks(p)) \subseteq AllAsks
           /\ Grants(p) \subseteq Answers /\ Ends(p) \subseteq Answers
           /\ Of(h, Ends(p)) \subseteq Answers /\ Of(h, Answers) \subseteq Answers
           /\ Grants(p) \ Of(h, Grants(p)) \subseteq Answers
BY Zenon DEF Asks, AllAsks, Of, Grants, Ends, Answers

(* A port of which nothing is added anywhere stays as it is.               *)
LEMMA Untouched ==
    ASSUME NEW p, NEW w, NEW l, NEW asks, NEW pend, NEW answers, NEW cs,
           NEW asks2, NEW pend2, NEW answers2, NEW cs2,
           Single(p, w, l, asks, pend, answers, cs),
           Less(asks, asks2, Asks(p)), Less(answers, answers2, Grants(p) \cup Of(w, Ends(p))),
           \A q \in pend2 : q.local = p => q \in pend,
           \A c \in cs2 : c.local = p => c \in cs
    PROVE  Single(p, w, l, asks2, pend2, answers2, cs2)
<1>1. /\ None(asks, Asks(p)) => None(asks2, Asks(p))
      /\ None(asks2, Asks(p) \ Of(w, Asks(p))) /\ AtMostOne(asks2, Asks(p))
  <2>1. Asks(p) \ Of(w, Asks(p)) \subseteq Asks(p)
      BY Zenon
  <2> QED BY <2>1, Zenon DEF Single, Less
<1>2. /\ None(answers, Grants(p)) => None(answers2, Grants(p))
      /\ None(answers, Of(w, Ends(p))) => None(answers2, Of(w, Ends(p)))
      /\ None(answers2, Grants(p) \ Of(w, Grants(p))) /\ AtMostOne(answers2, Grants(p))
      /\ w # Nobody => Ahead(answers2, Grants(p), Of(w, Ends(p)))
  <2>1. /\ Grants(p) \ Of(w, Grants(p)) \subseteq Grants(p) \cup Of(w, Ends(p))
        /\ Grants(p) \subseteq Grants(p) \cup Of(w, Ends(p))
        /\ Of(w, Ends(p)) \subseteq Grants(p) \cup Of(w, Ends(p))
      BY Zenon
  <2> QED BY <2>1, Zenon DEF Single, Less
<1>3. Unanswered(p, l, asks2, pend2) => Unanswered(p, l, asks, pend)
    BY <1>1, Zenon DEF Unanswered
<1> QED BY <1>1, <1>2, <1>3, Zenon DEF Single

LEMMA Quiet ==
    ASSUME Core,
           pending_connect_hosts' = pending_connect_hosts,
           \A p \in ConnectPorts : late'[p] = late[p],
           \A h \in Hosts : Fresh(h)' => Fresh(h),
           unclaimed' = unclaimed, discarded' = discarded,
           pending' \subseteq pending,
           \A c \in conns' : c \in conns \/ (c.who = Nobody /\ c.local \notin ConnectPorts),
           Less(b2d, b2d', AllAsks), Less(d2b, d2b', Answers)
    PROVE  Core'
<1>1. ASSUME NEW h \in Hosts, Fresh(h)'
      PROVE  Unknown(h)'
  <2>1. Unknown(h)
      BY <1>1, Zenon DEF Core
  <2>2. \A p \in ConnectPorts : late'[p] # h /\ None(b2d', Of(h, Asks(p)))
      BY <2>1, Subsets, Zenon DEF Unknown, Absent, Less
  <2>3. None(d2b', Of(h, Answers))
      BY <2>1, Subsets, Zenon DEF Unknown, Absent, Less
  <2>4. \A c \in conns' : c.who # h
      BY <2>1, PortsAssumption, Zenon DEF Unknown, Absent
  <2>5. \A q \in pending' : q.who # h
      BY <2>1, Zenon DEF Unknown, Absent
  <2> QED BY <2>2, <2>3, <2>4, <2>5, Zenon DEF Unknown, Absent
<1>2. ASSUME NEW p \in ConnectPorts, p \notin discarded'
      PROVE  OneRequest(p)'
  <2> DEFINE w == pending_connect_hosts[p]
             l == late[p]
  <2>1. Single(p, w, l, b2d, pending, d2b, conns) /\ w' = w /\ l' = l
      BY <1>2, Zenon DEF Core, OneRequest
  <2> HIDE DEF w, l
  <2>2. Less(b2d, b2d', Asks(p)) /\ Less(d2b, d2b', Grants(p) \cup Of(w, Ends(p)))
    <3>1. Asks(p) \subseteq AllAsks /\ Grants(p) \cup Of(w, Ends(p)) \subseteq Answers
        BY Subsets, Zenon
    <3> QED BY <3>1, Zenon DEF Less
  <2>3. Single(p, w, l, b2d', pending', d2b', conns')
      BY <2>1, <2>2, Untouched
  <2> QED BY <2>1, <2>3, Zenon DEF OneRequest, w, l
<1>3. AcceptedHasStream'
    BY Zenon DEF Core, AcceptedHasStream
<1> QED BY <1>1, <1>2, <1>3, Zenon DEF Core

-----------------------------------------------------------------------------
(* The life of a request, move by move.                                    *)

(* A stream starts to wait.                                                *)
LEMMA Pended ==
    ASSUME NEW p, NEW l, NEW asks \in Seq(ToDevice), NEW pend, NEW answers \in Seq(ToBridge),
           NEW cs, Single(p, Nobody, l, asks, pend, answers, cs),
           NEW h, h # Nobody, None(answers, Of(h, Answers)),
           \A c \in cs : c.who # h, \A q \in pend : q.who # Nobody
    PROVE  Single(p, h, h, asks, pend, answers, cs)
<1>1. /\ None(asks, Asks(p)) /\ None(answers, Grants(p))
      /\ \A q \in pend : q.local # p
  <2>1. \A m \in Asks(p) : m \in Asks(p) \ Of(Nobody, Asks(p))
      BY PortsAssumption, Zenon DEF Asks, Of, ToDevice
  <2>2. \A m \in Grants(p) : m \in Grants(p) \ Of(Nobody, Grants(p))
      BY PortsAssumption, Zenon DEF Grants, Of, ToBridge
  <2> QED BY <2>1, <2>2, Zenon DEF None, Single
<1>2. None(answers, Of(h, Ends(p)))
    BY Zenon DEF None, Of, Ends, Answers
<1>3. None(asks, Asks(p) \ Of(h, Asks(p))) /\ AtMostOne(asks, Asks(p))
    BY <1>1, Zenon DEF None, AtMostOne
<1>4. /\ None(answers, Grants(p) \ Of(h, Grants(p))) /\ AtMostOne(answers, Grants(p))
      /\ Ahead(answers, Grants(p), Of(h, Ends(p)))
    BY <1>1, Zenon DEF None, AtMostOne, Ahead
<1> QED BY <1>1, <1>2, <1>3, <1>4, Zenon DEF Single

(* The port's task sends the request.                                      *)
LEMMA Asked ==
    ASSUME NEW p, NEW w, NEW l, NEW asks \in Seq(ToDevice), NEW pend, NEW answers, NEW cs,
           Single(p, w, l, asks, pend, answers, cs),
           NEW m \in Asks(p), l # Nobody, m.who = l
    PROVE  Single(p, w, Nobody, Append(asks, m), pend, answers, cs)
<1>1. m \in ToDevice /\ m \notin Asks(p) \ Of(w, Asks(p))
    BY Zenon DEF Asks, Of, Single
<1>2. /\ AtMostOne(Append(asks, m), Asks(p))
      /\ None(Append(asks, m), Asks(p) \ Of(w, Asks(p)))
      /\ ~None(Append(asks, m), Asks(p))
    BY <1>1, Sending DEF Single
<1>3. Unanswered(p, l, asks, pend)
    BY Zenon DEF Unanswered
<1> QED BY <1>2, <1>3, Zenon DEF Single

(* The device takes the request.                                           *)
LEMMA Taken ==
    ASSUME NEW p, NEW w, NEW l, NEW asks \in Seq(ToDevice), NEW pend, NEW answers, NEW cs,
           Single(p, w, l, asks, pend, answers, cs),
           NEW pend2, asks # <<>>, Head(asks) \in Asks(p),
           \A q \in pend2 : q.local = p => q.who = Head(asks).who
    PROVE  Single(p, w, l, Tail(asks), pend2, answers, cs)
<1>1. /\ ~None(asks, Asks(p)) /\ None(Tail(asks), Asks(p)) /\ AtMostOne(Tail(asks), Asks(p))
      /\ None(Tail(asks), Asks(p) \ Of(w, Asks(p)))
      /\ Head(asks) \notin Asks(p) \ Of(w, Asks(p))
    BY Taking DEF Single
<1>2. Head(asks).who = w
    BY <1>1, Zenon DEF Of
<1>3. Unanswered(p, l, asks, pend) /\ l = Nobody
    BY <1>1, Zenon DEF Unanswered, Single
<1> QED BY <1>1, <1>2, <1>3, Zenon DEF Single

(* A pending request is the only one.                                      *)
LEMMA Waits ==
    ASSUME NEW p, NEW w, NEW l, NEW asks, NEW pend, NEW answers, NEW cs,
           Single(p, w, l, asks, pend, answers, cs),
           NEW q \in pend, q.local = p
    PROVE  /\ q.who = w /\ l = Nobody /\ None(asks, Asks(p))
           /\ None(answers, Grants(p)) /\ None(answers, Of(w, Ends(p)))
BY Zenon DEF Unanswered, Single

(* The guest accepts: the request becomes an acceptance.                   *)
LEMMA Granted ==
    ASSUME NEW p, NEW w, NEW l, NEW asks, NEW pend, NEW answers \in Seq(ToBridge), NEW cs,
           Single(p, w, l, asks, pend, answers, cs),
           NEW q \in pend, q.local = p, NEW m \in Grants(p), m.who = q.who,
           NEW pend2, \A r \in pend2 : r.local # p, NEW cs2
    PROVE  Single(p, w, l, asks, pend2, Append(answers, m), cs2)
<1>1. /\ q.who = w /\ l = Nobody /\ None(asks, Asks(p))
      /\ None(answers, Grants(p)) /\ None(answers, Of(w, Ends(p)))
    BY Waits
<1>2. m \in ToBridge /\ m \notin Of(w, Ends(p)) /\ m \notin Grants(p) \ Of(w, Grants(p))
    BY <1>1, Zenon DEF Grants, Ends, Of
<1>3. /\ None(Append(answers, m), Grants(p) \ Of(w, Grants(p)))
      /\ AtMostOne(Append(answers, m), Grants(p))
      /\ w # Nobody => Ahead(Append(answers, m), Grants(p), Of(w, Ends(p)))
    BY <1>1, <1>2, Sending DEF Single
<1>4. ~Unanswered(p, l, asks, pend2)
    BY <1>1, Zenon DEF Unanswered
<1> QED BY <1>1, <1>3, <1>4, Zenon DEF Single

(* The end of something is reported.                                       *)
LEMMA Reported ==
    ASSUME NEW p, NEW w, NEW l, NEW asks, NEW pend, NEW answers \in Seq(ToBridge), NEW cs,
           Single(p, w, l, asks, pend, answers, cs), NEW m \in Ends(p)
    PROVE  /\ None(Append(answers, m), Grants(p) \ Of(w, Grants(p)))
           /\ AtMostOne(Append(answers, m), Grants(p))
           /\ None(answers, Grants(p)) => None(Append(answers, m), Grants(p))
           /\ w # Nobody => Ahead(Append(answers, m), Grants(p), Of(w, Ends(p)))
           /\ m.who # w /\ None(answers, Of(w, Ends(p)))
                 => None(Append(answers, m), Of(w, Ends(p)))
<1>1. m \in ToBridge /\ m \notin Grants(p) /\ (m.who # w => m \notin Of(w, Ends(p)))
    BY Zenon DEF Grants, Ends, Of
<1> QED BY <1>1, Sending DEF Single

(* The guest refuses: no request is left.                                  *)
LEMMA Refused ==
    ASSUME NEW p, NEW w, NEW l, NEW asks, NEW pend, NEW answers \in Seq(ToBridge), NEW cs,
           Single(p, w, l, asks, pend, answers, cs),
           NEW q \in pend, q.local = p, NEW m \in Ends(p), m.who = q.who,
           NEW pend2, \A r \in pend2 : r.local # p
    PROVE  Single(p, w, l, asks, pend2, Append(answers, m), cs)
<1>1. /\ q.who = w /\ l = Nobody /\ None(asks, Asks(p))
    BY Waits
<1>2. ~Unanswered(p, l, asks, pend2)
    BY <1>1, Zenon DEF Unanswered
<1>3. /\ None(Append(answers, m), Grants(p) \ Of(w, Grants(p)))
      /\ AtMostOne(Append(answers, m), Grants(p))
      /\ w # Nobody => Ahead(Append(answers, m), Grants(p), Of(w, Ends(p)))
    BY Reported, Zenon
<1> QED BY <1>1, <1>2, <1>3, Zenon DEF Single

(* A connection ends, which is never that of an unanswered request.        *)
LEMMA Ended ==
    ASSUME NEW p, NEW w, NEW l, NEW asks, NEW pend, NEW answers \in Seq(ToBridge), NEW cs,
           Single(p, w, l, asks, pend, answers, cs),
           NEW c \in cs, c.local = p, NEW m \in Ends(p), m.who = c.who
    PROVE  Single(p, w, l, asks, pend, Append(answers, m), cs \ {c})
<1>1. Unanswered(p, l, asks, pend) => m.who # w
    BY Zenon DEF Single
<1>2. /\ None(Append(answers, m), Grants(p) \ Of(w, Grants(p)))
      /\ AtMostOne(Append(answers, m), Grants(p))
      /\ None(answers, Grants(p)) => None(Append(answers, m), Grants(p))
      /\ w # Nobody => Ahead(Append(answers, m), Grants(p), Of(w, Ends(p)))
      /\ m.who # w /\ None(answers, Of(w, Ends(p)))
            => None(Append(answers, m), Of(w, Ends(p)))
    BY Reported, Zenon
<1> QED BY <1>1, <1>2, Zenon DEF Single

(* The bridge stops keeping a stream when no request is left.              *)
LEMMA Over ==
    ASSUME NEW p, NEW w, NEW l, NEW asks, NEW pend, NEW answers, NEW cs,
           Single(p, w, l, asks, pend, answers, cs), NEW answers2,
           ~Unanswered(p, l, asks, pend), None(answers2, Grants(p))
    PROVE  Single(p, Nobody, l, asks, pend, answers2, cs)
<1>1. l = Nobody /\ None(asks, Asks(p)) /\ \A q \in pend : q.local # p
    BY Zenon DEF Unanswered
<1>2. None(asks, Asks(p) \ Of(Nobody, Asks(p)))
    BY <1>1, Zenon DEF None
<1>3. None(answers2, Grants(p) \ Of(Nobody, Grants(p))) /\ AtMostOne(answers2, Grants(p))
    BY Zenon DEF None, AtMostOne
<1> QED BY <1>1, <1>2, <1>3, Zenon DEF Single

(* The bridge hears of the acceptance.                                     *)
LEMMA Accepted ==
    ASSUME NEW p, NEW w, NEW l, NEW asks, NEW pend, NEW answers \in Seq(ToBridge), NEW cs,
           Single(p, w, l, asks, pend, answers, cs), answers # <<>>, Head(answers) \in Grants(p)
    PROVE  Head(answers).who = w /\ Single(p, Nobody, l, asks, pend, Tail(answers), cs)
<1>1. /\ ~None(answers, Grants(p)) /\ None(Tail(answers), Grants(p))
      /\ Head(answers) \notin Grants(p) \ Of(w, Grants(p))
    BY Taking DEF Single
<1>2. Head(answers).who = w
    BY <1>1, Zenon DEF Of
<1>3. ~Unanswered(p, l, asks, pend)
    BY <1>1, Zenon DEF Single
<1> QED BY <1>1, <1>2, <1>3, Over, Zenon

(* The bridge hears of the end of the stream it keeps, or keeps none.      *)
LEMMA Dropped ==
    ASSUME NEW p, NEW w, NEW l, NEW asks \in Seq(ToDevice), NEW pend,
           NEW answers \in Seq(ToBridge), NEW cs,
           Single(p, w, l, asks, pend, answers, cs), answers # <<>>, Head(answers) \in Ends(p),
           w \in {Nobody, Head(answers).who}
    PROVE  Single(p, Nobody, l, asks, pend, Tail(answers), cs)
<1>1. CASE w = Nobody
  <2>1. Less(answers, Tail(answers), Grants(p) \cup Of(w, Ends(p))) /\ Less(asks, asks, Asks(p))
      BY Channels, Zenon
  <2>2. Single(p, w, l, asks, pend, Tail(answers), cs)
      BY <2>1, Untouched, Zenon
  <2> QED BY <1>1, <2>2, Zenon
<1>2. CASE w # Nobody
  <2>1. Head(answers) \in Of(w, Ends(p))
      BY <1>2, Zenon DEF Of
  <2>2. /\ ~None(answers, Of(w, Ends(p))) /\ None(answers, Grants(p))
        /\ None(Tail(answers), Grants(p))
      BY <1>2, <2>1, Taking, Zenon DEF Single
  <2>3. ~Unanswered(p, l, asks, pend)
      BY <2>2, Zenon DEF Single
  <2> QED BY <2>2, <2>3, Over, Zenon
<1> QED BY <1>1, <1>2, Zenon

-----------------------------------------------------------------------------
(* The steps of the device.                                                *)

LEMMA InitVsockInv == Init => VsockInv
<1> SUFFICES ASSUME Init PROVE VsockInv
    BY Zenon
<1> USE DEF Init, DevInit, BridgeInit
<1>1. Base
    BY PortsAssumption DEF Base, Types, InHand, NoMutualWait, Ports, Streams
<1>2. \A A : None(<<>>, A) /\ AtMostOne(<<>>, A) /\ \A B : Ahead(<<>>, A, B)
    BY DEF None, AtMostOne, Ahead
<1>3. \A h \in Hosts : Unknown(h)
    BY <1>2, PortsAssumption DEF Unknown, Absent, Ports
<1>4. \A p \in ConnectPorts : OneRequest(p)
    BY <1>2 DEF OneRequest, Single, Unanswered, Ports
<1>5. AcceptedHasStream
    BY Zenon DEF AcceptedHasStream
<1> QED BY <1>1, <1>3, <1>4, <1>5, Zenon DEF VsockInv, Core

(* What the invariant depends on.                                          *)
relevant == <<connections, pending_hosts, pending_guests, pending_connect_hosts, checked, late,
              hst, hclosed, b2d, d2b, pending, conns, unclaimed, discarded>>

LEMMA Same ==
    ASSUME VsockInv, UNCHANGED relevant
    PROVE  VsockInv'
<1> USE DEF relevant
<1>1. Base'
    BY Zenon DEF VsockInv, Base, Types, InHand, NoMutualWait
<1>2. Less(b2d, b2d', AllAsks) /\ Less(d2b, d2b', Answers)
    BY Zenon DEF Less
<1>3. \A h \in Hosts : Fresh(h)' => Fresh(h)
    BY Zenon DEF Fresh
<1>4. Core'
    BY <1>2, <1>3, Quiet, Zenon DEF VsockInv
<1> QED BY <1>1, <1>4, Zenon DEF VsockInv

(* The device handles a message of the bridge.                             *)
LEMMA HandlesKeeps ==
    ASSUME VsockInv, PollHandles, UNCHANGED <<bridgeVars, hostVars, guestVars>>
    PROVE  VsockInv'
<1> DEFINE m == Head(b2d)
<1>1. /\ b2d # <<>> /\ b2d \in Seq(ToDevice) /\ m \in ToDevice /\ b2d' = Tail(b2d)
      /\ d2b \in Seq(ToBridge) /\ d2b' = d2b
    BY DEF VsockInv, Base, Types, PollHandles
<1>2. b2d' \in Seq(ToDevice)
    BY <1>1
<1>3. Less(b2d, b2d', AllAsks) /\ Less(d2b, d2b', Answers)
    BY <1>1, Channels, Zenon
<1>4. \A h \in Hosts : Fresh(h)' => Fresh(h)
    BY Zenon DEF Fresh, bridgeVars, hostVars
<1>5. CASE m.kind = "Connect" /\ HandleBridgeConnect(m)
  <2> DEFINE p == m.port
             new == [local |-> p, peer |-> nextEph, who |-> m.who]
  <2>1. /\ p \in ConnectPorts /\ m.who \in Hosts /\ conns' = conns
        /\ pending' = {q \in pending : q.local # p} \cup {new}
      BY <1>1, <1>5, Zenon DEF HandleBridgeConnect, ToDevice
  <2>2. Base'
      BY <1>1, <1>2, <2>1 DEF VsockInv, Base, Types, InHand, NoMutualWait, bridgeVars, hostVars
  <2>3. m \in Asks(p) /\ m \in Of(m.who, Asks(p))
      BY <1>1, <1>5, Zenon DEF Asks, Of
  <2>4. ASSUME NEW h \in Hosts, Fresh(h)'
        PROVE  Unknown(h)'
    <3>1. Unknown(h)
        BY <1>4, <2>4, Zenon DEF VsockInv, Core
    <3>2. m.who # h
        BY <1>1, <2>1, <2>3, <3>1, Taking DEF Unknown, Absent
    <3>3. \A r \in ConnectPorts : None(b2d', Of(h, Asks(r)))
        BY <1>1, <3>1, Taking, Zenon DEF Unknown, Absent
    <3> QED BY <1>1, <2>1, <3>1, <3>2, <3>3 DEF Unknown, Absent, bridgeVars
  <2>5. ASSUME NEW r \in ConnectPorts, r \notin discarded'
        PROVE  OneRequest(r)'
    <3> DEFINE w == pending_connect_hosts[r]
               l == late[r]
    <3>1. Single(r, w, l, b2d, pending, d2b, conns) /\ w' = w /\ l' = l /\ w \in Streams
        BY <2>5, Zenon DEF VsockInv, Core, OneRequest, bridgeVars, Base, Types
    <3> HIDE DEF w, l
    <3>2. CASE r = p
      <4>1. \A q \in pending' : q.local = r => q.who = m.who
          BY <2>1, <3>2
      <4>2. Single(r, w, l, Tail(b2d), pending', d2b, conns)
          BY <1>1, <2>3, <3>1, <3>2, <4>1, Taken, Zenon
      <4> QED BY <1>1, <2>1, <3>1, <4>2, Zenon DEF OneRequest, w, l
    <3>3. CASE r # p
      <4>1. \A q \in pending' : q.local = r => q \in pending
          BY <2>1, <3>3
      <4>2. Less(b2d, b2d', Asks(r)) /\ Less(d2b, d2b', Grants(r) \cup Of(w, Ends(r)))
          BY <1>1, Channels, Zenon
      <4>3. Single(r, w, l, b2d', pending', d2b', conns)
          BY <3>1, <4>1, <4>2, Untouched, Zenon
      <4> QED BY <2>1, <3>1, <4>3, Zenon DEF OneRequest, w, l
    <3> QED BY <3>2, <3>3, Zenon
  <2>6. AcceptedHasStream'
      BY Zenon DEF VsockInv, Core, AcceptedHasStream, bridgeVars
  <2> QED BY <2>2, <2>4, <2>5, <2>6, Zenon DEF VsockInv, Core
<1>6. CASE HandleBridgeData(m) \/ HandleBridgeClosed(m)
  <2>1. pending' = pending /\ conns' \subseteq conns
      BY <1>6, Zenon DEF HandleBridgeData, HandleBridgeClosed
  <2>2. Base'
      BY <1>1, <1>2, <2>1, Zenon DEF VsockInv, Base, Types, InHand, NoMutualWait, bridgeVars,
         hostVars
  <2>3. Core'
      BY <1>3, <1>4, <2>1, Quiet, Zenon DEF VsockInv, bridgeVars
  <2> QED BY <2>2, <2>3, Zenon DEF VsockInv
<1>7. m.kind \in {"Connect", "Data", "Closed"}
    BY <1>1, Zenon DEF ToDevice
<1> QED BY <1>5, <1>6, <1>7, Zenon DEF PollHandles

LEMMA DeviceKeeps ==
    ASSUME VsockInv, DeviceStep
    PROVE  VsockInv'
<1>1. CASE PollBegins \/ PollEnds
    BY <1>1, Same, Zenon DEF DeviceStep, PollBegins, PollEnds, relevant, bridgeVars, hostVars
<1>2. CASE PollHandles
    BY <1>2, HandlesKeeps, Zenon DEF DeviceStep
<1> QED BY <1>1, <1>2, Zenon DEF DeviceStep

-----------------------------------------------------------------------------
(* The steps of the guest.                                                 *)

(* The device tells the bridge about a stream it knows.                    *)
LEMMA TellKeeps ==
    ASSUME VsockInv, UNCHANGED <<bridgeVars, hostVars, b2d>>,
           NEW m \in ToBridge, d2b' = Append(d2b, m),
           pending' \subseteq pending,
           \A c \in conns' : c \in conns \/ (c.local = m.port /\ c.who = m.who),
           \E x \in pending \cup conns : x.who = m.who,
           \A w \in Streams : \A l :
              m.port \in ConnectPorts /\ Single(m.port, w, l, b2d, pending, d2b, conns)
                 => Single(m.port, w, l, b2d, pending', d2b', conns')
    PROVE  VsockInv'
<1>1. d2b \in Seq(ToBridge) /\ d2b' \in Seq(ToBridge) /\ m.port \in Ports /\ m.who \in Streams
    BY DEF VsockInv, Base, Types, ToBridge
<1>2. Base'
    BY <1>1, Zenon DEF VsockInv, Base, Types, InHand, NoMutualWait, bridgeVars, hostVars
<1>3. ASSUME NEW h \in Hosts, Fresh(h)'
      PROVE  Unknown(h)'
  <2>1. Fresh(h)
      BY <1>3, Zenon DEF Fresh, bridgeVars, hostVars
  <2>2. Unknown(h)
      BY <2>1, Zenon DEF VsockInv, Core
  <2>3. m.who # h
      BY <2>2, Zenon DEF Unknown, Absent
  <2>4. None(d2b', Of(h, Answers))
      BY <1>1, <2>2, <2>3, Sending DEF Unknown, Absent, Of
  <2> QED BY <2>2, <2>3, <2>4, Zenon DEF Unknown, Absent, bridgeVars
<1>4. ASSUME NEW r \in ConnectPorts, r \notin discarded'
      PROVE  OneRequest(r)'
  <2> DEFINE w == pending_connect_hosts[r]
             l == late[r]
  <2>1. /\ Single(r, w, l, b2d, pending, d2b, conns)
        /\ w' = w /\ l' = l /\ b2d' = b2d /\ w \in Streams
      BY <1>4, Zenon DEF VsockInv, Core, OneRequest, bridgeVars, Base, Types
  <2> HIDE DEF w, l
  <2>2. CASE r = m.port
      BY <2>1, <2>2, Zenon DEF OneRequest, w, l
  <2>3. CASE r # m.port
    <3>1. m \notin Grants(r) \cup Of(w, Ends(r))
        BY <2>3, Zenon DEF Grants, Ends, Of
    <3>2. Less(d2b, d2b', Grants(r) \cup Of(w, Ends(r)))
        BY <1>1, <3>1, Channels, Zenon
    <3>3. Less(b2d, b2d', Asks(r))
        BY <2>1, Zenon DEF Less
    <3>4. Single(r, w, l, b2d', pending', d2b', conns')
        BY <2>1, <2>3, <3>2, <3>3, Untouched
    <3> QED BY <2>1, <3>4, Zenon DEF OneRequest, w, l
  <2> QED BY <2>2, <2>3, Zenon
<1>5. AcceptedHasStream'
    BY Zenon DEF VsockInv, Core, AcceptedHasStream, bridgeVars
<1> QED BY <1>2, <1>3, <1>4, <1>5, Zenon DEF VsockInv, Core

(* A step that at most forgets, adds connections of the guest's, and tells *)
(* the bridge of those or of data.                                         *)
LEMMA PlainKeeps ==
    ASSUME VsockInv, UNCHANGED <<bridgeVars, hostVars, b2d>>,
           pending' = pending,
           \A c \in conns' : \/ c \in conns
                             \/ c.who = Nobody /\ c.local \in ListenPorts,
           d2b' = d2b \/ \E m \in ToBridge \ Answers : d2b' = Append(d2b, m)
    PROVE  VsockInv'
<1>1. d2b \in Seq(ToBridge) /\ d2b' \in Seq(ToBridge) /\ b2d \in Seq(ToDevice) /\ b2d' = b2d
  <2>1. d2b \in Seq(ToBridge) /\ b2d \in Seq(ToDevice)
      BY Zenon DEF VsockInv, Base, Types
  <2> QED BY <2>1, Sending
<1>2. \A c \in conns' : c.local \in Ports /\ c.who \in Streams
    BY Zenon DEF VsockInv, Base, Types, Ports, Streams
<1>3. Base'
    BY <1>1, <1>2, Zenon DEF VsockInv, Base, Types, InHand, NoMutualWait, bridgeVars, hostVars
<1>4. Less(b2d, b2d', AllAsks) /\ Less(d2b, d2b', Answers)
  <2>1. Less(b2d, b2d, AllAsks) /\ Less(d2b, d2b, Answers)
      BY <1>1, Channels, Zenon
  <2>2. \A m \in ToBridge \ Answers : Less(d2b, Append(d2b, m), Answers)
      BY <1>1, Channels, Zenon
  <2> QED BY <1>1, <2>1, <2>2, Zenon
<1>5. \A h \in Hosts : Fresh(h)' => Fresh(h)
    BY Zenon DEF Fresh, bridgeVars, hostVars
<1>6. Core'
    BY <1>4, <1>5, Quiet, PortsAssumption, Zenon DEF VsockInv, bridgeVars
<1> QED BY <1>3, <1>6, Zenon DEF VsockInv

(* The guest accepts what it was asked for.                                *)
LEMMA ResponseKeeps ==
    ASSUME VsockInv, NEW host, NEW guest, HandleConnectResponse(host, guest),
           UNCHANGED <<bridgeVars, hostVars>>
    PROVE  VsockInv'
<1>1. b2d' = b2d /\ pending' = {q \in pending : q.local # guest}
    BY Zenon DEF HandleConnectResponse, TxUnchanged
<1>2. b2d \in Seq(ToDevice) /\ d2b \in Seq(ToBridge)
    BY Zenon DEF VsockInv, Base, Types
<1>3. CASE \E p \in pending : p.local = guest /\ p.peer = host
  <2>1. PICK q \in pending : /\ q.local = guest
                             /\ \A c \in conns' : c \in conns \/ c = ConnectConn(q)
                             /\ d2b' = Append(d2b, Msg("Connected", guest, q.who))
      BY <1>3, Zenon DEF HandleConnectResponse, Tell
  <2> DEFINE m == Msg("Connected", guest, q.who)
  <2>2. guest \in ConnectPorts /\ q.who \in Hosts
      BY <2>1, Zenon DEF VsockInv, Base, Types
  <2>3. m \in ToBridge /\ m.port = guest /\ m.who = q.who /\ m \in Grants(guest)
      BY <2>2, Zenon DEF Msg, ToBridge, Grants, Ports, Streams
  <2>4. ConnectConn(q).local = guest /\ ConnectConn(q).who = q.who
      BY <2>1, Zenon DEF ConnectConn
  <2> HIDE DEF m
  <2>5. d2b' = Append(d2b, m) /\ pending' \subseteq pending
      BY <1>1, <2>1, Zenon DEF m
  <2>6. ASSUME NEW w \in Streams, NEW l, Single(guest, w, l, b2d, pending, d2b, conns)
        PROVE  Single(guest, w, l, b2d, pending', d2b', conns')
    <3>1. \A r \in pending' : r.local # guest
        BY <1>1, Zenon
    <3> QED BY <1>2, <2>1, <2>2, <2>3, <2>5, <2>6, <3>1, Granted, Zenon
  <2>7. \A c \in conns' : c \in conns \/ (c.local = m.port /\ c.who = m.who)
      BY <2>1, <2>3, <2>4, Zenon
  <2> QED BY <1>1, <2>3, <2>5, <2>6, <2>7, TellKeeps, Zenon
<1>4. CASE ~\E p \in pending : p.local = guest /\ p.peer = host
  <2>1. conns' = conns /\ d2b' = d2b
      BY <1>4, Zenon DEF HandleConnectResponse, NoTx
  <2>2. Base'
      BY <1>1, <2>1, Zenon DEF VsockInv, Base, Types, InHand, NoMutualWait, bridgeVars, hostVars
  <2>3. Less(b2d, b2d', AllAsks) /\ Less(d2b, d2b', Answers)
      BY <1>1, <2>1, Zenon DEF Less
  <2>4. \A h \in Hosts : Fresh(h)' => Fresh(h)
      BY Zenon DEF Fresh, bridgeVars, hostVars
  <2>5. Core'
      BY <1>1, <2>1, <2>3, <2>4, Quiet, Zenon DEF VsockInv, bridgeVars
  <2> QED BY <2>2, <2>5, Zenon DEF VsockInv
<1> QED BY <1>3, <1>4, Zenon

(* The guest refuses a request or ends a connection.                       *)
LEMMA EndKeeps ==
    ASSUME VsockInv, NEW host, NEW guest, UNCHANGED <<bridgeVars, hostVars>>,
           HandleRst(host, guest) \/ HandleShutdown(host, guest)
    PROVE  VsockInv'
<1>1. b2d' = b2d
    BY Zenon DEF HandleRst, HandleShutdown, TxUnchanged
<1>2. b2d \in Seq(ToDevice) /\ d2b \in Seq(ToBridge)
    BY Zenon DEF VsockInv, Base, Types
<1>3. CASE \E q \in pending : /\ q.local = guest /\ Tell("Shutdown", guest, q.who)
                              /\ pending' = {p \in pending : p.local # guest} /\ conns' = conns
  <2>1. PICK q \in pending : /\ q.local = guest
                             /\ d2b' = Append(d2b, Msg("Shutdown", guest, q.who))
      BY <1>3, Zenon DEF Tell
  <2> DEFINE m == Msg("Shutdown", guest, q.who)
  <2>2. guest \in ConnectPorts /\ q.who \in Hosts
      BY <2>1, Zenon DEF VsockInv, Base, Types
  <2>3. m \in ToBridge /\ m.port = guest /\ m.who = q.who /\ m \in Ends(guest)
      BY <2>2, Zenon DEF Msg, ToBridge, Ends, Ports, Streams
  <2> HIDE DEF m
  <2>4. d2b' = Append(d2b, m) /\ pending' \subseteq pending /\ conns' = conns
      BY <1>3, <2>1, Zenon DEF m
  <2>5. ASSUME NEW w \in Streams, NEW l, Single(guest, w, l, b2d, pending, d2b, conns)
        PROVE  Single(guest, w, l, b2d, pending', d2b', conns')
    <3>1. \A r \in pending' : r.local # guest
        BY <1>3, Zenon
    <3> QED BY <1>2, <2>1, <2>2, <2>3, <2>4, <2>5, <3>1, Refused, Zenon
  <2> QED BY <1>1, <2>3, <2>4, <2>5, TellKeeps, Zenon
<1>4. CASE \E c \in conns : /\ conns' = conns \ {c} /\ Tell("Shutdown", c.local, c.who)
                            /\ pending' = pending
  <2>1. PICK c \in conns : /\ conns' = conns \ {c}
                           /\ d2b' = Append(d2b, Msg("Shutdown", c.local, c.who))
      BY <1>4, Zenon DEF Tell
  <2> DEFINE m == Msg("Shutdown", c.local, c.who)
  <2>2. c.local \in Ports /\ c.who \in Streams
      BY <2>1, Zenon DEF VsockInv, Base, Types
  <2>3. m \in ToBridge /\ m.port = c.local /\ m.who = c.who /\ m \in Ends(c.local)
      BY <2>2, Zenon DEF Msg, ToBridge, Ends
  <2> HIDE DEF m
  <2>4. d2b' = Append(d2b, m) /\ pending' = pending /\ conns' \subseteq conns
      BY <1>4, <2>1, Zenon DEF m
  <2>5. ASSUME NEW w \in Streams, NEW l, c.local \in ConnectPorts,
               Single(c.local, w, l, b2d, pending, d2b, conns)
        PROVE  Single(c.local, w, l, b2d, pending', d2b', conns')
      BY <1>2, <2>1, <2>3, <2>4, <2>5, Ended
  <2> QED BY <1>1, <2>1, <2>3, <2>4, <2>5, TellKeeps, Zenon
<1>5. CASE pending' = pending /\ conns' = conns /\ d2b' = d2b
    BY <1>1, <1>5, PlainKeeps, Zenon
<1> QED BY <1>3, <1>4, <1>5, Zenon DEF HandleRst, HandleShutdown, Between, NoTx

LEMMA GuestKeeps ==
    ASSUME VsockInv, GuestStep
    PROVE  VsockInv'
<1>1. ASSUME NEW g \in GuestPorts, NEW p \in ListenPorts, GuestConnects(g, p)
      PROVE  VsockInv'
  <2>1. Msg("Connect", p, Nobody) \in ToBridge \ Answers
      BY Zenon DEF Msg, ToBridge, Answers, Ports, Streams
  <2>2. ListenConn(p, g).who = Nobody /\ ListenConn(p, g).local = p
      BY Zenon DEF ListenConn
  <2> QED BY <1>1, <2>1, <2>2, PlainKeeps, Zenon DEF GuestConnects, HandleConnectRequest,
             TxUnchanged, Tell, NoTx
<1>2. CASE GuestReceives \/ GuestActivates
    BY <1>2, Same, Zenon DEF GuestReceives, GuestActivates, Activate, relevant, bridgeVars, hostVars
<1>3. ASSUME NEW c \in gconns, GuestAccepts(c)
      PROVE  VsockInv'
    BY <1>3, ResponseKeeps, Zenon DEF GuestAccepts
<1>4. ASSUME NEW c \in gconns, GuestRefuses(c) \/ GuestShutsDown(c)
      PROVE  VsockInv'
    BY <1>4, EndKeeps, Zenon DEF GuestRefuses, GuestShutsDown
<1>5. ASSUME NEW c \in gconns, GuestSends(c)
      PROVE  VsockInv'
  <2>1. \A k \in conns : Msg("Data", k.local, k.who) \in ToBridge \ Answers
      BY Zenon DEF Msg, ToBridge, Answers, VsockInv, Base, Types
  <2>2. \/ d2b' = d2b
        \/ \E k \in conns : d2b' = Append(d2b, Msg("Data", k.local, k.who))
      BY <1>5, Zenon DEF GuestSends, HandleRw, HandleCreditRequest, Tell, NoTx, Between
  <2>3. conns' = conns /\ pending' = pending /\ UNCHANGED <<bridgeVars, hostVars, b2d>>
      BY <1>5, Zenon DEF GuestSends, HandleRw, HandleCreditRequest, TxUnchanged
  <2> QED BY <2>1, <2>2, <2>3, PlainKeeps, Zenon
<1>6. CASE GuestResets
    BY <1>6, PlainKeeps, Zenon DEF GuestResets, ResetDevice
<1> QED BY <1>1, <1>2, <1>3, <1>4, <1>5, <1>6, Zenon DEF GuestStep

-----------------------------------------------------------------------------
(* The steps of the bridge and of the host applications.                   *)

(* Steps that leave the requests of connect ports alone.                   *)
LEMMA BesideKeeps ==
    ASSUME VsockInv, Base', UNCHANGED <<devVars, pending_connect_hosts, unclaimed, discarded>>,
           \A p \in ConnectPorts : late'[p] = late[p],
           \A h \in Hosts : Fresh(h)' => Fresh(h),
           b2d' = b2d \/ \E m \in ToDevice \ AllAsks : b2d' = Append(b2d, m),
           d2b' = d2b \/ (d2b # <<>> /\ d2b' = Tail(d2b))
    PROVE  VsockInv'
<1>1. b2d \in Seq(ToDevice) /\ d2b \in Seq(ToBridge)
    BY Zenon DEF VsockInv, Base, Types
<1>2. Less(b2d, b2d', AllAsks)
  <2>1. Less(b2d, b2d, AllAsks) /\ \A m \in ToDevice \ AllAsks : Less(b2d, Append(b2d, m), AllAsks)
      BY <1>1, Channels, Zenon
  <2> QED BY <2>1, Zenon
<1>3. Less(d2b, d2b', Answers)
    BY <1>1, Channels, Zenon
<1>4. Core'
    BY <1>2, <1>3, Quiet, Zenon DEF VsockInv, devVars
<1> QED BY <1>4, Zenon DEF VsockInv

LEMMA Announced ==
    ASSUME NEW h \in Hosts, NEW kind \in {"Data", "Closed"}
    PROVE  Msg(kind, PortOf[h], h) \in ToDevice \ AllAsks
BY PortsAssumption, Zenon DEF Msg, ToDevice, AllAsks

LEMMA HostKeeps ==
    ASSUME VsockInv, HostStep
    PROVE  VsockInv'
<1> PICK h \in Hosts : HostDials(h) \/ HostWrites(h) \/ HostCloses(h)
    BY Zenon DEF HostStep
<1>1. UNCHANGED <<devVars, bridgeVars, b2d, d2b>>
    BY Zenon DEF HostStep, HostDials, HostWrites, HostCloses
<1>2. /\ hclosed' \subseteq Hosts /\ hst' \in [Hosts -> {"absent", "off", "dialing", "accepted"}]
      /\ \A k \in Hosts : hst'[k] = "accepted" <=> hst[k] = "accepted"
    BY Zenon DEF HostDials, HostWrites, HostCloses, VsockInv, Base, Types
<1>3. \A k \in Hosts : Fresh(k)' => Fresh(k)
    BY <1>1, <1>2, Zenon DEF Fresh, bridgeVars
<1>4. Base'
  <2>1. Types'
      BY <1>1, <1>2, Zenon DEF VsockInv, Base, Types, bridgeVars, devVars
  <2>2. InHand'
      BY <1>1, <1>2 DEF VsockInv, Base, Types, InHand, bridgeVars, Streams
  <2>3. NoMutualWait'
      BY <1>1, Zenon DEF VsockInv, Base, NoMutualWait, bridgeVars
  <2> QED BY <2>1, <2>2, <2>3, Zenon DEF Base
<1> QED BY <1>1, <1>3, <1>4, BesideKeeps, Zenon DEF bridgeVars

LEMMA AcceptKeeps ==
    ASSUME VsockInv, NEW h \in Hosts, Accept(h), UNCHANGED devVars
    PROVE  VsockInv'
<1> DEFINE p == PortOf[h]
<1>1. /\ p \in Ports /\ hst[h] = "dialing" /\ hst' = [hst EXCEPT ![h] = "accepted"]
      /\ checked' = checked \/ checked' = [checked EXCEPT ![p] = h]
      /\ UNCHANGED <<hclosed, connections, pending_hosts, pending_guests, pending_connect_hosts,
                     late, unclaimed, discarded, b2d, d2b>>
    BY PortsAssumption, Zenon DEF Accept
<1>2. /\ checked \in [Ports -> Streams] /\ late \in [Ports -> Streams]
      /\ hst \in [Hosts -> {"absent", "off", "dialing", "accepted"}]
    BY Zenon DEF VsockInv, Base, Types
<1>3. \A k \in Hosts : Fresh(k)' => Fresh(k)
    BY <1>1, <1>2, PortsAssumption, Zenon DEF Fresh
<1>4. Base'
  <2>1. Types'
      BY <1>1, <1>2, Zenon DEF VsockInv, Base, Types, devVars, Streams
  <2>2. InHand'
      BY <1>1, <1>2, PortsAssumption DEF VsockInv, Base, InHand, Streams
  <2>3. NoMutualWait'
      BY <1>1, Zenon DEF VsockInv, Base, NoMutualWait
  <2> QED BY <2>1, <2>2, <2>3, Zenon DEF Base
<1> QED BY <1>1, <1>3, <1>4, BesideKeeps, Zenon

LEMMA ReaderKeeps ==
    ASSUME VsockInv, NEW h \in Hosts, ReaderStep(h), UNCHANGED devVars
    PROVE  VsockInv'
<1>1. /\ UNCHANGED <<pending_hosts, pending_guests, pending_connect_hosts, checked, late, unclaimed,
                     discarded, hst, hclosed, d2b>>
      /\ connections' = connections \/ connections' = [connections EXCEPT ![PortOf[h]] = Nobody]
      /\ b2d' = b2d \/ \E m \in ToDevice \ AllAsks : b2d' = Append(b2d, m)
    BY Announced, Zenon DEF ReaderStep, ReaderForwards, ReaderSeesEof, ReaderSendsClosed, Announce,
                     bridgeVars, hostVars
<1>2. b2d' \in Seq(ToDevice)
  <2>1. b2d \in Seq(ToDevice)
      BY Zenon DEF VsockInv, Base, Types
  <2> QED BY <1>1, <2>1, Sending
<1>3. Base'
    BY <1>1, <1>2, Zenon DEF VsockInv, Base, Types, InHand, NoMutualWait, devVars, Streams
<1>4. \A k \in Hosts : Fresh(k)' => Fresh(k)
    BY <1>1, Zenon DEF Fresh
<1> QED BY <1>1, <1>3, <1>4, BesideKeeps, Zenon

(* A listen port's task pairs, waits or stores a pair.                     *)
LEMMA ListenKeeps ==
    ASSUME VsockInv, NEW p \in ListenPorts, PairOrWait(p) \/ InsertPaired(p), UNCHANGED devVars
    PROVE  VsockInv'
<1>1. /\ p \in Ports /\ p \notin ConnectPorts /\ \A r \in ConnectPorts : r \in Ports
      /\ checked \in [Ports -> Streams] /\ late \in [Ports -> Streams]
      /\ pending_hosts \in [ListenPorts -> Streams] /\ connections \in [Ports -> Streams]
    BY PortsAssumption, Zenon DEF Ports, VsockInv, Base, Types
<1>2. /\ UNCHANGED <<hst, hclosed, pending_connect_hosts, unclaimed, discarded, b2d, d2b>>
      /\ checked' = checked \/ checked' = [checked EXCEPT ![p] = Nobody]
      /\ \/ late' = late
         \/ late' = [late EXCEPT ![p] = checked[p]] \/ late' = [late EXCEPT ![p] = Nobody]
      /\ pending_hosts' = pending_hosts \/ pending_hosts' = [pending_hosts EXCEPT ![p] = checked[p]]
      /\ \/ connections' = connections
         \/ connections' = [connections EXCEPT ![PortOf[late[p]]] = late[p]]
    BY Zenon DEF PairOrWait, InsertPaired, Bridge, hostVars
<1>3. Types'
    BY <1>1, <1>2, Zenon DEF VsockInv, Base, Types, Streams, devVars
<1>4. InHand'
    BY <1>1, <1>2 DEF VsockInv, Base, InHand
<1>5. NoMutualWait'
    BY <1>1, Zenon DEF VsockInv, Base, NoMutualWait, PairOrWait, InsertPaired
<1>6. \A h \in Hosts : Fresh(h)' => Fresh(h)
    BY <1>1, <1>2, PortsAssumption, Zenon DEF Fresh
<1>7. \A r \in ConnectPorts : late'[r] = late[r]
    BY <1>1, <1>2, Zenon
<1> QED BY <1>2, <1>3, <1>4, <1>5, <1>6, <1>7, BesideKeeps, Zenon DEF Base

(* A connect port's task stores its stream, unless one is stored.          *)
LEMMA PendKeeps ==
    ASSUME VsockInv, NEW p \in ConnectPorts, PendConnect(p), UNCHANGED devVars
    PROVE  VsockInv'
<1> DEFINE h == checked[p]
<1>1. /\ p \in Ports
      /\ checked \in [Ports -> Streams] /\ late \in [Ports -> Streams]
      /\ pending_connect_hosts \in [ConnectPorts -> Streams]
      /\ b2d \in Seq(ToDevice) /\ d2b \in Seq(ToBridge)
      /\ h \in Streams /\ h # Nobody
    BY Zenon DEF Ports, VsockInv, Base, Types, PendConnect
<1>2. h \in Hosts /\ PortOf[h] = p /\ hst[h] = "accepted"
    BY <1>1, Zenon DEF Streams, VsockInv, Base, InHand
<1>3. /\ UNCHANGED <<connections, pending_hosts, pending_guests, hst, hclosed, unclaimed, discarded,
                     b2d, d2b, pending, conns>>
      /\ checked' = [checked EXCEPT ![p] = Nobody]
    BY Zenon DEF PendConnect, hostVars, devVars
<1>4. \A k \in Hosts : Fresh(k)' => Fresh(k) /\ k # h
    BY <1>1, <1>2, <1>3, PortsAssumption, Zenon DEF Fresh
<1>5. CASE pending_connect_hosts[p] # Nobody
  <2>1. late' = late /\ pending_connect_hosts' = pending_connect_hosts
      BY <1>5, Zenon DEF PendConnect
  <2>2. Base'
      BY <1>1, <1>3, <2>1 DEF VsockInv, Base, Types, InHand, NoMutualWait, Streams
  <2> QED BY <1>3, <1>4, <2>1, <2>2, BesideKeeps, Zenon
<1>6. CASE pending_connect_hosts[p] = Nobody
  <2>1. /\ late' = [late EXCEPT ![p] = h]
        /\ pending_connect_hosts' = [pending_connect_hosts EXCEPT ![p] = h]
      BY <1>6, Zenon DEF PendConnect
  <2>2. Types'
      BY <1>1, <1>3, <2>1, Zenon DEF VsockInv, Base, Types, Streams
  <2>3. InHand'
      BY <1>1, <1>2, <1>3, <2>1 DEF VsockInv, Base, InHand
  <2>4. NoMutualWait'
      BY <1>3, Zenon DEF VsockInv, Base, NoMutualWait
  <2> HIDE DEF h
  <2>5. ASSUME NEW k \in Hosts, Fresh(k)'
        PROVE  Unknown(k)'
    <3>1. Unknown(k) /\ k # h
        BY <1>4, <2>5, Zenon DEF VsockInv, Core
    <3>2. \A r \in ConnectPorts : late'[r] # k
        BY <1>1, <2>1, <3>1 DEF Unknown, Absent
    <3> QED BY <1>3, <3>1, <3>2, Zenon DEF Unknown, Absent
  <2>6. ASSUME NEW r \in ConnectPorts, r \notin discarded'
        PROVE  OneRequest(r)'
    <3>1. Single(r, pending_connect_hosts[r], late[r], b2d, pending, d2b, conns)
        BY <1>3, <2>6, Zenon DEF VsockInv, Core, OneRequest
    <3>2. CASE r # p
      <4>1. pending_connect_hosts'[r] = pending_connect_hosts[r] /\ late'[r] = late[r]
          BY <1>1, <2>1, <3>2, Zenon DEF Ports
      <4> QED BY <1>3, <3>1, <4>1, Zenon DEF OneRequest
    <3>3. CASE r = p
      <4>1. pending_connect_hosts'[r] = h /\ late'[r] = h
          BY <1>1, <2>1, <3>3, Zenon
      <4>2. Unknown(h)
          BY <1>1, <1>2, PortsAssumption, Zenon DEF VsockInv, Core, Fresh, h
      <4>3. None(d2b, Of(h, Answers)) /\ \A c \in conns : c.who # h
          BY <4>2, Zenon DEF Unknown, Absent
      <4>4. \A q \in pending : q.who # Nobody
          BY PortsAssumption, Zenon DEF VsockInv, Base, Types
      <4>5. Single(r, Nobody, late[r], b2d, pending, d2b, conns)
          BY <1>6, <3>1, <3>3, Zenon
      <4>6. Single(r, h, h, b2d, pending, d2b, conns)
          BY <1>1, <4>3, <4>4, <4>5, Pended, Zenon
      <4> QED BY <1>3, <4>1, <4>6, Zenon DEF OneRequest
    <3> QED BY <3>2, <3>3, Zenon
  <2>7. AcceptedHasStream'
      BY <1>3, Zenon DEF VsockInv, Core, AcceptedHasStream
  <2> QED BY <2>2, <2>3, <2>4, <2>5, <2>6, <2>7, Zenon DEF VsockInv, Base, Core
<1> QED BY <1>5, <1>6, Zenon

(* A connect port's task announces its stream.                             *)
LEMMA SendKeeps ==
    ASSUME VsockInv, NEW p \in ConnectPorts, SendConnect(p), UNCHANGED devVars
    PROVE  VsockInv'
<1> DEFINE h == late[p]
           m == Msg("Connect", PortOf[h], h)
<1>1. /\ p \in Ports /\ late \in [Ports -> Streams]
      /\ b2d \in Seq(ToDevice) /\ d2b \in Seq(ToBridge)
      /\ h \in Streams /\ h # Nobody
    BY Zenon DEF Ports, VsockInv, Base, Types, SendConnect
<1>2. h \in Hosts /\ PortOf[h] = p
    BY <1>1, Zenon DEF Streams, VsockInv, Base, InHand
<1>3. /\ UNCHANGED <<connections, pending_hosts, pending_guests, pending_connect_hosts, checked,
                     hst, hclosed, unclaimed, discarded, d2b, pending, conns>>
      /\ late' = [late EXCEPT ![p] = Nobody]
      /\ b2d' = Append(b2d, m)
    BY Zenon DEF SendConnect, Announce, hostVars, devVars
<1>4. m \in ToDevice /\ m \in Asks(p) /\ m.who = h /\ m.port = p
    BY <1>1, <1>2, Zenon DEF Msg, ToDevice, Asks
<1> HIDE DEF h, m
<1>5. Base'
    BY <1>1, <1>3, <1>4 DEF VsockInv, Base, Types, InHand, NoMutualWait, Streams
<1>6. ASSUME NEW k \in Hosts, Fresh(k)'
      PROVE  Unknown(k)'
  <2>1. Unknown(k)
      BY <1>3, <1>6, Zenon DEF Fresh, VsockInv, Core
  <2>2. k # h
      BY <2>1, Zenon DEF Unknown, Absent, h
  <2>3. \A r \in ConnectPorts : late'[r] # k
      BY <1>1, <1>3, <2>1, PortsAssumption DEF Unknown, Absent
  <2>4. \A r \in ConnectPorts : m \notin Of(k, Asks(r))
      BY <1>4, <2>2, Zenon DEF Of
  <2>5. \A r \in ConnectPorts : None(b2d', Of(k, Asks(r)))
      BY <1>1, <1>3, <1>4, <2>1, <2>4, Sending DEF Unknown, Absent
  <2> QED BY <1>3, <2>1, <2>3, <2>5, Zenon DEF Unknown, Absent
<1>7. ASSUME NEW r \in ConnectPorts, r \notin discarded'
      PROVE  OneRequest(r)'
  <2> DEFINE w == pending_connect_hosts[r]
  <2>1. Single(r, w, late[r], b2d, pending, d2b, conns) /\ w' = w
      BY <1>3, <1>7, Zenon DEF VsockInv, Core, OneRequest
  <2> HIDE DEF w
  <2>2. CASE r = p
    <3>1. late[r] = h /\ late'[r] = Nobody
        BY <1>1, <1>3, <2>2, Zenon DEF h
    <3>2. Single(r, w, Nobody, b2d', pending, d2b, conns)
        BY <1>1, <1>3, <1>4, <2>1, <2>2, <3>1, Asked, Zenon
    <3> QED BY <1>3, <2>1, <3>1, <3>2, Zenon DEF OneRequest, w
  <2>3. CASE r # p
    <3>1. late'[r] = late[r]
        BY <1>1, <1>3, <2>3, Zenon DEF Ports
    <3>2. m \notin Asks(r)
        BY <1>4, <2>3, Zenon DEF Asks
    <3>3. Less(b2d, b2d', Asks(r)) /\ Less(d2b, d2b, Grants(r) \cup Of(w, Ends(r)))
        BY <1>1, <1>3, <1>4, <3>2, Channels, Zenon
    <3>4. Single(r, w, late[r], b2d', pending, d2b, conns)
        BY <2>1, <3>3, Untouched, Zenon
    <3> QED BY <1>3, <2>1, <3>1, <3>4, Zenon DEF OneRequest, w
  <2> QED BY <2>2, <2>3, Zenon
<1>8. AcceptedHasStream'
    BY <1>3, Zenon DEF VsockInv, Core, AcceptedHasStream
<1> QED BY <1>5, <1>6, <1>7, <1>8, Zenon DEF VsockInv, Core

(* The main loop hears of an acceptance or of an end on a connect port     *)
(* and keeps no stream for it any more.                                    *)
LEMMA LetGo ==
    ASSUME VsockInv, Base', NEW m, d2b # <<>>, m = Head(d2b), d2b' = Tail(d2b),
           m.kind \in {"Connected", "Shutdown"}, m.port \in ConnectPorts,
           UNCHANGED <<devVars, checked, late, hst, b2d>>,
           pending_connect_hosts' = [pending_connect_hosts EXCEPT ![m.port] = Nobody],
           discarded' \in {discarded, discarded \cup {m.port}},
           \/ m.kind = "Connected" /\ unclaimed' \in {unclaimed, unclaimed \cup {m.port}}
           \/ m.kind = "Shutdown" /\ unclaimed' = unclaimed,
           m.kind = "Connected" /\ unclaimed' # unclaimed => pending_connect_hosts[m.port] # m.who,
           m.kind = "Shutdown" /\ m.port \notin discarded'
               => pending_connect_hosts[m.port] \in {Nobody, m.who}
    PROVE  VsockInv'
<1> DEFINE p == m.port
<1>1. /\ pending_connect_hosts \in [ConnectPorts -> Streams]
      /\ b2d \in Seq(ToDevice) /\ d2b \in Seq(ToBridge) /\ m \in ToBridge
    BY DEF VsockInv, Base, Types
<1>2. /\ m.kind = "Connected" => m \in Grants(p)
      /\ m.kind = "Shutdown" => m \in Ends(p)
    BY <1>1, Zenon DEF Grants, Ends
<1> HIDE DEF p
<1>3. ASSUME NEW h \in Hosts, Fresh(h)'
      PROVE  Unknown(h)'
  <2>1. Unknown(h)
      BY <1>3, Zenon DEF Fresh, VsockInv, Core
  <2>2. None(d2b', Of(h, Answers))
      BY <1>1, <2>1, Taking, Zenon DEF Unknown, Absent
  <2> QED BY <2>1, <2>2, Zenon DEF Unknown, Absent, devVars
<1>4. ASSUME NEW r \in ConnectPorts, r \notin discarded'
      PROVE  OneRequest(r)'
  <2> DEFINE w == pending_connect_hosts[r]
             l == late[r]
  <2>1. Single(r, w, l, b2d, pending, d2b, conns) /\ w \in Streams
      BY <1>1, <1>4, Zenon DEF VsockInv, Core, OneRequest
  <2>2. UNCHANGED <<l, b2d, pending, conns>>
      BY Zenon DEF devVars
  <2>3. CASE r = p
    <3>1. w' = Nobody
        BY <1>1, <2>3, Zenon DEF p
    <3>2. m.kind = "Shutdown" => w \in {Nobody, m.who}
        BY <1>4, <2>3, Zenon DEF p
    <3> HIDE DEF w, l
    <3>3. Single(r, Nobody, l, b2d, pending, d2b', conns)
        BY <1>1, <1>2, <2>1, <2>3, <3>2, Accepted, Dropped, Zenon
    <3> QED BY <2>2, <3>1, <3>3, Zenon DEF OneRequest, w, l
  <2>4. CASE r # p
    <3>1. w' = w
        BY <1>1, <2>4, Zenon DEF p
    <3> HIDE DEF w, l
    <3>2. Less(d2b, d2b', Grants(r) \cup Of(w, Ends(r))) /\ Less(b2d, b2d, Asks(r))
        BY <1>1, Channels, Zenon
    <3>3. Single(r, w, l, b2d, pending, d2b', conns)
        BY <2>1, <3>2, Untouched, Zenon
    <3> QED BY <2>2, <3>1, <3>3, Zenon DEF OneRequest, w, l
  <2> QED BY <2>3, <2>4, Zenon
<1>5. AcceptedHasStream'
  <2>1. CASE unclaimed' = unclaimed
      BY <2>1, Zenon DEF VsockInv, Core, AcceptedHasStream
  <2>2. CASE unclaimed' # unclaimed
    <3>1. ASSUME p \notin discarded
          PROVE  FALSE
      <4>1. Single(p, pending_connect_hosts[p], late[p], b2d, pending, d2b, conns)
          BY <3>1, Zenon DEF VsockInv, Core, OneRequest, p
      <4>2. m.who = pending_connect_hosts[p]
          BY <1>1, <1>2, <2>2, <4>1, Accepted
      <4> QED BY <2>2, <4>2, Zenon DEF p
    <3> QED BY <2>2, <3>1, Zenon DEF VsockInv, Core, AcceptedHasStream, p
  <2> QED BY <2>1, <2>2, Zenon
<1> QED BY <1>3, <1>4, <1>5, Zenon DEF VsockInv, Core

LEMMA LoopKeeps ==
    ASSUME VsockInv, BridgeHandles, UNCHANGED devVars
    PROVE  VsockInv'
<1> DEFINE m == Head(d2b)
<1>1. /\ d2b # <<>> /\ d2b' = Tail(d2b) /\ d2b \in Seq(ToBridge) /\ d2b' \in Seq(ToBridge)
      /\ m \in ToBridge /\ b2d \in Seq(ToDevice)
      /\ UNCHANGED <<checked, late, hst, hclosed, conns, pending>>
    BY DEF BridgeHandles, VsockInv, Base, Types, hostVars, devVars
<1>2. /\ m.port \in Ports /\ m.who \in Streams
      /\ m.kind \in {"Connect", "Connected", "Data", "Shutdown"}
      /\ m.kind = "Connected" => m.port \in ConnectPorts
    BY <1>1, Zenon DEF ToBridge
<1>3. /\ connections \in [Ports -> Streams] /\ pending_hosts \in [ListenPorts -> Streams]
      /\ pending_connect_hosts \in [ConnectPorts -> Streams] /\ hclosed \subseteq Hosts
    BY Zenon DEF VsockInv, Base, Types
<1>4. \A h \in Hosts : Fresh(h)' => Fresh(h)
    BY <1>1, Zenon DEF Fresh
<1>5. InHand'
    BY <1>1, Zenon DEF VsockInv, Base, InHand
<1> HIDE DEF m
<1>6. CASE m.kind = "Connect" /\ OnConnect(m)
  <2>1. UNCHANGED <<pending_connect_hosts, unclaimed, discarded, b2d>>
      BY <1>6, Zenon DEF OnConnect
  <2>2. connections' \in [Ports -> Streams] /\ pending_hosts' \in [ListenPorts -> Streams]
      BY <1>3, <1>6, Zenon DEF OnConnect, Bridge, Streams
  <2>3. Types'
      BY <1>1, <2>1, <2>2, Zenon DEF VsockInv, Base, Types
  <2>4. NoMutualWait'
      BY <1>3, <1>6, Zenon DEF OnConnect, VsockInv, Base, NoMutualWait
  <2> QED BY <1>1, <1>4, <1>5, <2>1, <2>3, <2>4, BesideKeeps, Zenon DEF Base
<1>7. CASE m.kind = "Data" /\ OnData(m)
  <2>1. /\ UNCHANGED <<pending_hosts, pending_guests, pending_connect_hosts, unclaimed, discarded>>
        /\ connections' \in [Ports -> Streams]
      BY <1>3, <1>7, Zenon DEF OnData, Streams
  <2>2. b2d' = b2d \/ \E k \in ToDevice \ AllAsks : b2d' = Append(b2d, k)
    <3>1. \A h \in hclosed : Msg("Closed", PortOf[h], h) \in ToDevice \ AllAsks
        BY <1>3, Announced, Zenon
    <3> QED BY <1>7, <3>1, Zenon DEF OnData, Announce
  <2>3. b2d' \in Seq(ToDevice)
    <3>1. \A k \in ToDevice : Append(b2d, k) \in Seq(ToDevice)
        BY <1>1, Sending, Zenon
    <3> QED BY <1>1, <2>2, <3>1, Zenon
  <2>4. Types' /\ NoMutualWait'
      BY <1>1, <2>1, <2>3, Zenon DEF VsockInv, Base, Types, NoMutualWait
  <2> QED BY <1>1, <1>4, <1>5, <2>1, <2>2, <2>4, BesideKeeps, Zenon DEF Base
<1>8. CASE m.kind = "Connected" /\ OnConnected(m)
  <2>1. /\ UNCHANGED <<pending_hosts, pending_guests, discarded, b2d>>
        /\ connections' \in [Ports -> Streams]
        /\ pending_connect_hosts' = [pending_connect_hosts EXCEPT ![m.port] = Nobody]
      BY <1>2, <1>3, <1>8, Zenon DEF OnConnected, Bridge
  <2>2. /\ unclaimed' \in {unclaimed, unclaimed \cup {m.port}}
        /\ unclaimed' # unclaimed => pending_connect_hosts[m.port] # m.who
      BY <1>8, Zenon DEF OnConnected
  <2>3. Types' /\ NoMutualWait'
      BY <1>1, <1>3, <2>1, Zenon DEF VsockInv, Base, Types, NoMutualWait, Streams
  <2> QED BY <1>1, <1>2, <1>5, <1>8, <2>1, <2>2, <2>3, LetGo, Zenon DEF Base, m
<1>9. CASE m.kind = "Shutdown" /\ OnShutdown(m)
  <2>1. /\ UNCHANGED <<pending_hosts, pending_guests, unclaimed, b2d>>
        /\ connections' \in [Ports -> Streams]
      BY <1>2, <1>3, <1>9, Zenon DEF OnShutdown, Streams
  <2>2. CASE m.port \in ConnectPorts
    <3>1. pending_connect_hosts' = [pending_connect_hosts EXCEPT ![m.port] = Nobody]
        BY <1>3, <1>9, <2>2, Zenon DEF OnShutdown
    <3>2. /\ discarded' \in {discarded, discarded \cup {m.port}}
          /\ m.port \notin discarded' => pending_connect_hosts[m.port] \in {Nobody, m.who}
        BY <1>9, <2>2, Zenon DEF OnShutdown
    <3>3. Types' /\ NoMutualWait'
        BY <1>1, <1>3, <2>1, <3>1, Zenon DEF VsockInv, Base, Types, NoMutualWait, Streams
    <3> QED BY <1>1, <1>5, <1>9, <2>1, <2>2, <3>1, <3>2, <3>3, LetGo, Zenon DEF Base, m
  <2>3. CASE m.port \notin ConnectPorts
    <3>1. pending_connect_hosts' = pending_connect_hosts /\ discarded' = discarded
        BY <1>3, <1>9, <2>3, Zenon DEF OnShutdown
    <3>2. Types' /\ NoMutualWait'
        BY <1>1, <1>3, <2>1, <3>1, Zenon DEF VsockInv, Base, Types, NoMutualWait, Streams
    <3> QED BY <1>1, <1>4, <1>5, <2>1, <3>1, <3>2, BesideKeeps, Zenon DEF Base
  <2> QED BY <2>2, <2>3, Zenon
<1> QED BY <1>2, <1>6, <1>7, <1>8, <1>9, Zenon DEF BridgeHandles, m

LEMMA BridgeKeeps ==
    ASSUME VsockInv, BridgeStep
    PROVE  VsockInv'
<1>1. UNCHANGED devVars
    BY Zenon DEF BridgeStep
<1>2. CASE BridgeHandles
    BY <1>1, <1>2, LoopKeeps, Zenon
<1>3. ASSUME NEW p \in Ports, PortStep(p)
      PROVE  VsockInv'
    BY <1>1, <1>3, ListenKeeps, PendKeeps, SendKeeps, Zenon DEF PortStep, PairOrWait,
       InsertPaired, PendConnect, SendConnect
<1>4. ASSUME NEW h \in Hosts, Accept(h) \/ ReaderStep(h)
      PROVE  VsockInv'
    BY <1>1, <1>4, AcceptKeeps, ReaderKeeps, Zenon
<1> QED BY <1>2, <1>3, <1>4, Zenon DEF BridgeStep

-----------------------------------------------------------------------------
LEMMA VsockInvHolds == Spec => []VsockInv
<1>1. VsockInv /\ [Next]_vars => VsockInv'
  <2> SUFFICES ASSUME VsockInv, [Next]_vars
               PROVE  VsockInv'
      BY Zenon
  <2>1. CASE UNCHANGED vars
      BY <2>1, Same, Zenon DEF vars, devVars, bridgeVars, hostVars, relevant
  <2> QED BY <2>1, DeviceKeeps, BridgeKeeps, HostKeeps, GuestKeeps, Zenon DEF Next
<1> QED BY <1>1, InitVsockInv, PTL DEF Spec

(* vsock_bridge.rs:126-143,217-239: whatever the interleaving of a port's  *)
(* accept task with the main loop, a stream and a guest never both wait    *)
(* for each other on a listen port.                                        *)
THEOREM VsockNoMutualWait == Spec => []NoMutualWait
<1>1. VsockInv => NoMutualWait
    BY Zenon DEF VsockInv, Base
<1> QED BY <1>1, VsockInvHolds, PTL

(* vsock_bridge.rs:148-180, virtio/vsock.rs:283-327,472-505: an acceptance *)
(* of the guest finds the stream it was asked for, for any number of       *)
(* streams and ports, as long as no Shutdown of an earlier connection took *)
(* the port's stream away.                                                 *)
THEOREM VsockAcceptedHasStream == Spec => []AcceptedHasStream
<1>1. VsockInv => AcceptedHasStream
    BY Zenon DEF VsockInv, Core
<1> QED BY <1>1, VsockInvHolds, PTL
=============================================================================
