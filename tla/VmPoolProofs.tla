---------------------------- MODULE VmPoolProofs ----------------------------
(***************************************************************************)
(* Proofs about VmPool, for any number of clients and VMs, any size, and   *)
(* whatever fails or is cancelled: the pool's state is well typed, a VM    *)
(* has one owner, no used VM comes back into the pool, no running VM is    *)
(* lost while the pool is open, the cleanup task leaves none running, and  *)
(* no wake-up is lost.                                                     *)
(***************************************************************************)
EXTENDS VmPool, FiniteSetTheorems, TLAPS

NoDup(s) == \A i, j \in DOMAIN s : s[i] = s[j] => i = j
Before(s, e, d) == \E i, j \in DOMAIN s : i < j /\ s[i] = e /\ s[j] = d

-----------------------------------------------------------------------------
(* Sequences as stacks and queues, seen as sets of VMs.                    *)

LEMMA LenOfSeq ==
    ASSUME NEW S
    PROVE  /\ <<>> \in Seq(S)
           /\ \A s \in Seq(S) : Len(s) \in Nat /\ DOMAIN s = 1 .. Len(s)
  OBVIOUS

LEMMA Concatenation ==
    ASSUME NEW S, NEW a \in Seq(S), NEW b \in Seq(S)
    PROVE  /\ a \o b \in Seq(S) /\ Len(a \o b) = Len(a) + Len(b)
           /\ \A i \in 1 .. Len(a) + Len(b) :
                 (a \o b)[i] = IF i <= Len(a) THEN a[i] ELSE b[i - Len(a)]
  OBVIOUS

(* Vec::push: the set gains the element.                                   *)
LEMMA PushProperties ==
    ASSUME NEW S, NEW s \in Seq(S), NEW v \in S
    PROVE  /\ Append(s, v) \in Seq(S)
           /\ Range(Append(s, v)) = Range(s) \cup {v}
           /\ NoDup(s) /\ v \notin Range(s) => NoDup(Append(s, v))
  <1>1. /\ Append(s, v) \in Seq(S)
        /\ Len(Append(s, v)) = Len(s) + 1
        /\ \A i \in 1 .. Len(s) : Append(s, v)[i] = s[i]
        /\ Append(s, v)[Len(s) + 1] = v
        /\ DOMAIN Append(s, v) = 1 .. Len(s) + 1 /\ DOMAIN s = 1 .. Len(s) /\ Len(s) \in Nat
    OBVIOUS
  <1>2. Range(Append(s, v)) = Range(s) \cup {v}
    BY <1>1 DEF Range
  <1>3. NoDup(s) /\ v \notin Range(s) => NoDup(Append(s, v))
    BY <1>1 DEF Range, NoDup
  <1> QED BY <1>1, <1>2, <1>3, Zenon

(* Vec::pop: the set loses the last element, if there is no duplicate.     *)
LEMMA PopProperties ==
    ASSUME NEW S, NEW s \in Seq(S), s # <<>>
    PROVE  /\ SubSeq(s, 1, Len(s) - 1) \in Seq(S)
           /\ Len(SubSeq(s, 1, Len(s) - 1)) = Len(s) - 1 /\ Len(s) \in Nat
           /\ s[Len(s)] \in Range(s) /\ s[Len(s)] \in S
           /\ NoDup(s) => /\ NoDup(SubSeq(s, 1, Len(s) - 1))
                         /\ Range(SubSeq(s, 1, Len(s) - 1)) = Range(s) \ {s[Len(s)]}
  <1> DEFINE f == SubSeq(s, 1, Len(s) - 1)
             v == s[Len(s)]
  <1>1. Len(s) \in Nat \ {0} /\ DOMAIN s = 1 .. Len(s)
    OBVIOUS
  <1>2. /\ f \in Seq(S) /\ Len(f) = Len(s) - 1
        /\ DOMAIN f = 1 .. Len(s) - 1
        /\ \A i \in 1 .. Len(s) - 1 : f[i] = s[i]
    BY <1>1
  <1> HIDE DEF f
  <1>3. v \in Range(s) /\ v \in S
    BY <1>1 DEF Range
  <1>4. NoDup(s) => NoDup(f) /\ Range(f) = Range(s) \ {v}
    <2> SUFFICES ASSUME NoDup(s) PROVE NoDup(f) /\ Range(f) = Range(s) \ {v}
      BY Zenon
    <2>1. NoDup(f)
      BY <1>1, <1>2 DEF NoDup
    <2>2. Range(f) \subseteq Range(s) \ {v}
      BY <1>1, <1>2, <1>3 DEF NoDup, Range
    <2>3. ASSUME NEW x \in Range(s), x # v PROVE x \in Range(f)
      <3>1. PICK i \in 1 .. Len(s) : s[i] = x
        BY Zenon, <1>1 DEF Range
      <3>2. i # Len(s)
        BY <2>3, <3>1, Zenon
      <3>3. i \in 1 .. Len(s) - 1
        <4>1. \A n \in Nat : \A k \in 1 .. n : k # n => k \in 1 .. n - 1
          OBVIOUS
        <4>2. Len(s) \in Nat
          BY <1>1, Zenon
        <4> QED BY Zenon, <3>2, <4>1, <4>2
      <3> QED BY Zenon, <1>2, <3>1, <3>3 DEF Range
    <2> QED BY <2>2, <2>1, <2>3, Zenon
  <1> QED BY <1>1, <1>2, <1>3, <1>4, Zenon DEF f

(* Vec::drain: the set loses the first element, if there is no duplicate.  *)
LEMMA ShiftProperties ==
    ASSUME NEW S, NEW s \in Seq(S), s # <<>>
    PROVE  /\ Tail(s) \in Seq(S) /\ Len(Tail(s)) = Len(s) - 1
           /\ Head(s) \in Range(s) /\ Head(s) \in S
           /\ Range(s) \ {Head(s)} \subseteq Range(Tail(s))
           /\ NoDup(s) => NoDup(Tail(s)) /\ Range(Tail(s)) = Range(s) \ {Head(s)}
  <1>1. /\ Len(s) \in Nat \ {0} /\ DOMAIN s = 1 .. Len(s)
        /\ Tail(s) \in Seq(S) /\ Len(Tail(s)) = Len(s) - 1
        /\ DOMAIN Tail(s) = 1 .. Len(s) - 1
        /\ \A i \in 1 .. Len(s) - 1 : Tail(s)[i] = s[i + 1]
        /\ Head(s) = s[1]
    OBVIOUS
  <1>2. Head(s) \in Range(s) /\ Head(s) \in S
    BY <1>1 DEF Range
  <1>3. Range(s) \ {Head(s)} \subseteq Range(Tail(s))
    <2> SUFFICES ASSUME NEW x \in Range(s), x # Head(s)
                 PROVE  x \in Range(Tail(s))
      BY Zenon
    <2>1. PICK i \in 1 .. Len(s) : s[i] = x
      BY <1>1, Zenon DEF Range
    <2>2. i - 1 \in 1 .. Len(s) - 1 /\ Tail(s)[i - 1] = x
      BY <1>1, <2>1
    <2> QED BY Zenon, <1>1, <2>2 DEF Range
  <1>4. NoDup(s) => NoDup(Tail(s)) /\ Range(Tail(s)) \subseteq Range(s) \ {Head(s)}
    BY <1>1 DEF NoDup, Range
  <1> QED BY <1>1, <1>2, <1>3, <1>4, Zenon

(* What is left of a sequence without its first n elements.                *)
LEMMA DropFirst ==
    ASSUME NEW S, NEW s \in Seq(S), NEW n \in 0 .. Len(s)
    PROVE  /\ SubSeq(s, n + 1, Len(s)) \in Seq(S)
           /\ Len(SubSeq(s, n + 1, Len(s))) = Len(s) - n
           /\ \A i \in 1 .. Len(s) - n : SubSeq(s, n + 1, Len(s))[i] = s[n + i]
  <1> DEFINE t == SubSeq(s, n + 1, Len(s))
  <1>1. Len(s) \in Nat /\ n + 1 \in Int /\ n \in Int
    OBVIOUS
  <1>2. \A i \in n + 1 .. Len(s) : s[i] \in S
    BY <1>1
  <1>3. /\ t \in Seq(S)
        /\ Len(t) = IF n + 1 <= Len(s) THEN Len(s) - (n + 1) + 1 ELSE 0
        /\ \A i \in 1 .. Len(s) - (n + 1) + 1 : t[i] = s[(n + 1) + i - 1]
    BY <1>1, <1>2
  <1> HIDE DEF t
  <1>4. Len(s) - (n + 1) + 1 = Len(s) - n /\ (~(n + 1 <= Len(s)) => Len(s) - n = 0)
    BY <1>1
  <1>5. \A i \in 1 .. Len(s) - n : (n + 1) + i - 1 = n + i
    BY <1>1
  <1>6. t \in Seq(S) /\ Len(t) = Len(s) - n /\ \A i \in 1 .. Len(s) - n : t[i] = s[n + i]
    BY <1>3, <1>4, <1>5, Zenon
  <1> QED BY <1>6, Zenon DEF t

(* Removing a waiter (dropping its Notified) closes the gap it leaves.     *)
LEMMA WithoutIndex ==
    ASSUME NEW S, NEW s \in Seq(S), NEW c \in Range(s)
    PROVE  \E k \in 1 .. Len(s) :
              /\ s[k] = c
              /\ Without(s, c) \in Seq(S) /\ Len(Without(s, c)) = Len(s) - 1
              /\ \A i \in 1 .. Len(s) - 1 : Without(s, c)[i] = IF i < k THEN s[i] ELSE s[i + 1]
  <1> DEFINE k == CHOOSE i \in DOMAIN s : s[i] = c
             a == SubSeq(s, 1, k - 1)
             b == SubSeq(s, k + 1, Len(s))
             w == Without(s, c)
  <1>1. k \in 1 .. Len(s) /\ s[k] = c /\ Len(s) \in Nat /\ DOMAIN s = 1 .. Len(s)
    BY DEF Range
  <1>2. w = a \o b
    BY Zenon DEF Without
  <1> HIDE DEF k, w
  <1>3. a \in Seq(S) /\ Len(a) = k - 1 /\ \A i \in 1 .. k - 1 : a[i] = s[i]
    BY <1>1
  <1>4. b \in Seq(S) /\ Len(b) = Len(s) - k /\ \A i \in 1 .. Len(s) - k : b[i] = s[k + i]
    <2>1. k \in 0 .. Len(s)
      BY <1>1
    <2> QED BY Zenon, <2>1, DropFirst
  <1> HIDE DEF a, b
  <1>5. /\ w \in Seq(S) /\ Len(w) = Len(a) + Len(b)
        /\ \A i \in 1 .. Len(a) + Len(b) : w[i] = IF i <= Len(a) THEN a[i] ELSE b[i - Len(a)]
    BY Zenon, <1>2, <1>3, <1>4, Concatenation
  <1>6. Len(a) + Len(b) = Len(s) - 1
    BY <1>1, <1>3, <1>4
  <1>7. \A i \in 1 .. Len(s) - 1 : w[i] = IF i < k THEN s[i] ELSE s[i + 1]
    <2> TAKE i \in 1 .. Len(s) - 1
    <2>1. CASE i < k
      <3>1. i \in 1 .. k - 1 /\ i <= Len(a) /\ i \in 1 .. Len(a) + Len(b)
        BY <1>1, <1>3, <1>6, <2>1
      <3> QED BY <1>3, <1>5, <2>1, <3>1, Zenon
    <2>2. CASE ~(i < k)
      <3>1. i - Len(a) \in 1 .. Len(s) - k /\ ~(i <= Len(a)) /\ i \in 1 .. Len(a) + Len(b)
            /\ k + (i - Len(a)) = i + 1
        BY <1>1, <1>3, <1>6, <2>2
      <3> QED BY Zenon, <1>4, <1>5, <2>2, <3>1
    <2> QED BY <2>1, <2>2, Zenon
  <1> QED BY Zenon, <1>1, <1>5, <1>6, <1>7 DEF w

(* Removing a waiter keeps the others, in their order.                     *)
LEMMA WithoutKeepsOrder ==
    ASSUME NEW S, NEW s \in Seq(S), NEW c \in Range(s)
    PROVE  /\ Without(s, c) \in Seq(S)
           /\ Range(s) \ {c} \subseteq Range(Without(s, c))
           /\ Range(Without(s, c)) \subseteq Range(s)
           /\ NoDup(s) => NoDup(Without(s, c)) /\ c \notin Range(Without(s, c))
           /\ \A d, e : Before(Without(s, c), e, d) => Before(s, e, d)
  <1> DEFINE w == Without(s, c)
  <1>1. PICK k \in 1 .. Len(s) :
           /\ s[k] = c /\ w \in Seq(S) /\ Len(w) = Len(s) - 1
           /\ \A i \in 1 .. Len(s) - 1 : w[i] = IF i < k THEN s[i] ELSE s[i + 1]
    BY WithoutIndex
  <1> HIDE DEF w
  <1>2. Len(s) \in Nat /\ DOMAIN s = 1 .. Len(s) /\ DOMAIN w = 1 .. Len(s) - 1
    BY <1>1, LenOfSeq, Zenon
  <1>3. ASSUME NEW x \in Range(s), x # c PROVE x \in Range(w)
    <2>1. PICK i \in 1 .. Len(s) : s[i] = x
      BY <1>2, Zenon DEF Range
    <2>2. CASE i < k
      <3>1. i \in 1 .. Len(s) - 1 /\ w[i] = x
        BY <1>1, <1>2, <2>1, <2>2
      <3> QED BY Zenon, <1>2, <3>1 DEF Range
    <2>3. CASE i > k
      <3>1. i - 1 \in 1 .. Len(s) - 1 /\ w[i - 1] = x
        BY <1>1, <1>2, <2>1, <2>3
      <3> QED BY Zenon, <1>2, <3>1 DEF Range
    <2> QED BY <1>1, <1>2, <1>3, <2>1, <2>2, <2>3
  <1> DEFINE up(i) == IF i < k THEN i ELSE i + 1
  <1>4. /\ \A i \in DOMAIN w : up(i) \in DOMAIN s /\ w[i] = s[up(i)] /\ up(i) # k
        /\ \A i, j \in DOMAIN w : i < j => up(i) < up(j)
    BY <1>1, <1>2
  <1>5. Range(w) \subseteq Range(s)
    BY Zenon, <1>4 DEF Range
  <1>6. \A d, e : Before(w, e, d) => Before(s, e, d)
    BY Zenon, <1>4 DEF Before
  <1>7. NoDup(s) => NoDup(w) /\ c \notin Range(w)
    <2>1. \A i, j \in DOMAIN w : up(i) = up(j) => i = j
      BY <1>1, <1>2
    <2>2. k \in DOMAIN s /\ s[k] = c
      BY <1>1, <1>2, Zenon
    <2> HIDE DEF up
    <2>3. NoDup(s) => NoDup(w)
      BY Zenon, <1>4, <2>1 DEF NoDup
    <2>4. NoDup(s) => c \notin Range(w)
      <3> SUFFICES ASSUME NoDup(s), c \in Range(w) PROVE FALSE
        BY Zenon
      <3>1. PICK i \in DOMAIN w : w[i] = c
        BY Zenon DEF Range
      <3>2. up(i) \in DOMAIN s /\ s[up(i)] = s[k] /\ up(i) # k
        BY Zenon, <1>4, <2>2, <3>1
      <3> QED BY Zenon, <2>2, <3>2 DEF NoDup
    <2> QED BY <2>3, <2>4, Zenon
  <1> QED BY <1>1, <1>3, <1>5, <1>6, <1>7, Zenon DEF w

-----------------------------------------------------------------------------
(* The inductive invariant: with the properties, that a future waiting is  *)
(* among the waiters, so that dropping it finds it, and that a client in   *)
(* reserve() holds no VM, so that taking one overwrites none.              *)
WaitersListed == \A c \in Clients : fut[c] = "waiting" => c \in Range(waiters)
ReservingHoldsNone == \A c \in Clients : rpc[c] # "idle" => held[c] = NoVm
IInv ==
    /\ TypeOK /\ WaitersListed /\ ReservingHoldsNone
    /\ SoleOwner /\ FreshForReserve /\ NothingLostWhileOpen

(* tokio's notify_one keeps the types and wakes the oldest waiter only.    *)
LEMMA NotifyOneKeeps ==
    ASSUME TypeOK, WaitersListed,
           NEW f \in [Clients -> {"none", "waiting", "one", "done"}],
           \A c \in Clients : f[c] = "waiting" => fut[c] = "waiting",
           NotifyOne(f)
    PROVE  /\ fut' \in [Clients -> {"none", "waiting", "one", "done"}]
           /\ waiters' \in Seq(Clients) /\ permit' \in BOOLEAN
           /\ WaitersListed'
  <1>1. CASE waiters = <<>>
    BY <1>1, Zenon DEF TypeOK, WaitersListed, NotifyOne
  <1>2. CASE waiters # <<>>
    <2>1. /\ Tail(waiters) \in Seq(Clients) /\ Head(waiters) \in Clients
          /\ Range(waiters) \ {Head(waiters)} \subseteq Range(Tail(waiters))
      BY <1>2, ShiftProperties, Zenon DEF TypeOK
    <2>2. /\ fut' = [f EXCEPT ![Head(waiters)] = "one"] /\ waiters' = Tail(waiters)
          /\ permit' = permit
      BY <1>2, Zenon DEF NotifyOne
    <2> QED BY <2>1, <2>2, Zenon DEF TypeOK, WaitersListed
  <1> QED BY <1>1, <1>2, Zenon

(* Registering a waiter (Notified::enable) keeps the waiter list and the   *)
(* futures in step.                                                        *)
LEMMA EnableKeeps ==
    ASSUME TypeOK, WaitersListed, NEW c \in Clients, Enable(c)
    PROVE  /\ fut' \in [Clients -> {"none", "waiting", "one", "done"}]
           /\ waiters' \in Seq(Clients) /\ permit' \in BOOLEAN
           /\ WaitersListed'
  <1>1. /\ Append(waiters, c) \in Seq(Clients)
        /\ Range(Append(waiters, c)) = Range(waiters) \cup {c}
    BY PushProperties DEF TypeOK
  <1>2. CASE permit
    BY Zenon, <1>2 DEF TypeOK, WaitersListed, Enable
  <1>3. CASE ~permit
    BY Zenon, <1>1, <1>3 DEF TypeOK, WaitersListed, Enable
  <1> QED BY <1>2, <1>3, Zenon

(* Dropping a Notified, which passes an unused wake-up on, keeps them in   *)
(* step.                                                                   *)
LEMMA DropNotifiedKeeps ==
    ASSUME TypeOK, WaitersListed, NEW c \in Clients, DropNotified(c)
    PROVE  /\ fut' \in [Clients -> {"none", "waiting", "one", "done"}]
           /\ waiters' \in Seq(Clients) /\ permit' \in BOOLEAN
           /\ WaitersListed'
  <1> DEFINE f == [fut EXCEPT ![c] = "none"]
  <1>1. /\ f \in [Clients -> {"none", "waiting", "one", "done"}]
        /\ \A d \in Clients : f[d] = "waiting" => fut[d] = "waiting"
        /\ f[c] = "none"
    BY Zenon DEF TypeOK
  <1>2. CASE fut[c] = "one"
    <2>1. NotifyOne(f)
      BY <1>2, Zenon DEF DropNotified
    <2> QED BY Zenon, <1>1, <2>1, NotifyOneKeeps
  <1>3. CASE fut[c] = "waiting"
    <2>1. fut' = f /\ waiters' = Without(waiters, c) /\ permit' = permit
      BY <1>3, Zenon DEF DropNotified
    <2>2. /\ Without(waiters, c) \in Seq(Clients)
          /\ Range(waiters) \ {c} \subseteq Range(Without(waiters, c))
      BY <1>3, WithoutKeepsOrder, Zenon DEF TypeOK, WaitersListed
    <2> QED BY <1>1, <2>1, <2>2, Zenon DEF TypeOK, WaitersListed
  <1>4. CASE fut[c] \notin {"one", "waiting"}
    <2>1. fut' = f /\ waiters' = waiters /\ permit' = permit
      BY <1>4, Zenon DEF DropNotified
    <2> QED BY <1>1, <2>1, Zenon DEF TypeOK, WaitersListed
  <1> QED BY <1>2, <1>3, <1>4, Zenon

-----------------------------------------------------------------------------
(* The pool VmPool::new starts from satisfies the invariant.               *)
LEMMA InitIInv == Init => IInv
  <1> SUFFICES ASSUME Init PROVE IInv
    BY Zenon
  <1>1. TypeOK /\ WaitersListed
    <2>1. available \in Seq(VMs) /\ waiters \in Seq(Clients)
      BY LenOfSeq, Zenon DEF Init
    <2> QED BY Zenon, <2>1, MaxReserveAssumption DEF Init, TypeOK, WaitersListed, Phases
  <1>2. InPool = {}
    BY DEF Init, InPool, Range
  <1>3. ReservingHoldsNone /\ SoleOwner /\ FreshForReserve /\ NothingLostWhileOpen
    BY <1>2, NoVmAssumption DEF Init, ReservingHoldsNone, SoleOwner, FreshForReserve,
                                NothingLostWhileOpen, Owned
  <1> QED BY <1>1, <1>3, Zenon DEF IInv

(* Every step keeps the types and the list of waiters.                     *)
LEMMA NextTypes == IInv /\ [Next]_vars => TypeOK' /\ WaitersListed'
  <1> SUFFICES ASSUME IInv, [Next]_vars PROVE TypeOK' /\ WaitersListed'
    BY Zenon
  <1> USE DEF poolVars, vmVars, taskVars, notifyVars
  <1>0. TypeOK /\ WaitersListed
    BY Zenon DEF IInv
  <1>1. ASSUME NEW v \in VMs, NewSpawns(v) PROVE TypeOK' /\ WaitersListed'
    BY <1>0, <1>1, PushProperties, Zenon DEF NewSpawns, SpawnVm, TypeOK, WaitersListed
  <1>2. CASE NewFails \/ NewReturns
    <2>1. CASE NewFails
      <3>1. available' \in Seq(VMs)
        BY <2>1, LenOfSeq, Zenon DEF NewFails
      <3> QED BY <1>0, <2>1, <3>1, Zenon DEF NewFails, TypeOK, WaitersListed, Phases
    <2>2. CASE NewReturns
      BY <1>0, <2>2, Zenon DEF NewReturns, TypeOK, WaitersListed, Phases
    <2> QED BY <1>2, <2>1, <2>2, Zenon
  <1>3. ASSUME NEW c \in Clients, ReserveEnable(c) PROVE TypeOK' /\ WaitersListed'
    <2>1. Enable(c)
      BY <1>3, Zenon DEF ReserveEnable
    <2>2. calls' \in [Clients -> Nat]
      <3>1. calls \in [Clients -> Nat] /\ calls' \in {calls, [calls EXCEPT ![c] = @ - 1]}
            /\ (calls' # calls => calls[c] > 0)
        BY <1>0, <1>3, Zenon DEF ReserveEnable, TypeOK
      <3> QED BY <3>1
    <2>3. rpc' \in [Clients -> {"idle", "top", "locking", "waiting"}]
      <3>1. /\ rpc \in [Clients -> {"idle", "top", "locking", "waiting"}]
            /\ rpc' = [rpc EXCEPT ![c] = "locking"]
        BY <1>0, <1>3, Zenon DEF ReserveEnable, TypeOK
      <3> QED BY <3>1, Zenon
    <2> QED BY <1>0, <1>3, <2>1, <2>2, <2>3, EnableKeeps, Zenon DEF ReserveEnable, TypeOK
  <1>4. ASSUME NEW c \in Clients, ReservePops(c) PROVE TypeOK' /\ WaitersListed'
    <2>1. DropNotified(c) /\ available # <<>>
      BY <1>4, Zenon DEF ReservePops
    <2>2. SubSeq(available, 1, Len(available) - 1) \in Seq(VMs) /\ Top \in VMs
      BY Zenon, <1>0, <2>1, PopProperties DEF TypeOK, Top
    <2> QED BY <1>0, <1>4, <2>1, <2>2, DropNotifiedKeeps, Zenon DEF ReservePops, TakeTop, TypeOK
  <1>5. ASSUME NEW c \in Clients, ReserveFindsNone(c) \/ ReserveWakes(c) \/ DropPooledVm(c)
        PROVE  TypeOK' /\ WaitersListed'
    BY Zenon, <1>0, <1>5 DEF ReserveFindsNone, ReserveWakes, DropPooledVm, TypeOK, WaitersListed
  <1>6. ASSUME NEW c \in Clients, ReserveCancelled(c) PROVE TypeOK' /\ WaitersListed'
    <2>1. DropNotified(c)
      BY <1>6, Zenon DEF ReserveCancelled
    <2> QED BY <1>0, <1>6, <2>1, DropNotifiedKeeps, Zenon DEF ReserveCancelled, TypeOK
  <1>7. ASSUME NEW c \in Clients, TryReserve(c) PROVE TypeOK' /\ WaitersListed'
    <2>1. SubSeq(available, 1, Len(available) - 1) \in Seq(VMs) /\ Top \in VMs
      BY Zenon, <1>0, <1>7, PopProperties DEF TypeOK, TryReserve, Top
    <2>2. calls' \in [Clients -> Nat]
      BY <1>0, <1>7 DEF TypeOK, TryReserve
    <2> QED BY <1>0, <1>7, <2>1, <2>2, Zenon DEF TryReserve, TakeTop, TypeOK, WaitersListed
  <1>8. ASSUME NEW v \in VMs, TaskKills(v) \/ TaskSpawns(v) \/ VmExits(v)
        PROVE  TypeOK' /\ WaitersListed'
    BY <1>0, <1>8 DEF TaskKills, TaskSpawns, SpawnVm, VmExits, TypeOK, WaitersListed
  <1>9. ASSUME NEW v \in VMs, TaskPushes(v) PROVE TypeOK' /\ WaitersListed'
    BY <1>0, <1>9, PushProperties DEF TaskPushes, TypeOK, WaitersListed
  <1>10. CASE TaskNotifies
    <2>1. NotifyOne(fut) /\ notifying' \in Nat
      BY <1>0, <1>10 DEF TaskNotifies, TypeOK
    <2>2. /\ fut' \in [Clients -> {"none", "waiting", "one", "done"}]
          /\ waiters' \in Seq(Clients) /\ permit' \in BOOLEAN
          /\ WaitersListed'
      BY Zenon, <1>0, <2>1, NotifyOneKeeps DEF TypeOK
    <2> QED BY <1>0, <1>10, <2>1, <2>2, Zenon DEF TaskNotifies, TypeOK
  <1>11. CASE TaskSpawnFails \/ DropSetsFlag \/ DropChecksCount \/ CleanupEnds
    <2>1. CASE TaskSpawnFails
      BY <1>0, <2>1 DEF TaskSpawnFails, TypeOK, WaitersListed
    <2>2. CASE DropSetsFlag
      BY <1>0, <2>2, Zenon DEF DropSetsFlag, TypeOK, WaitersListed, Phases
    <2>3. CASE DropChecksCount
      BY <1>0, <2>3, Zenon DEF DropChecksCount, TypeOK, WaitersListed, Phases
    <2>4. CASE CleanupEnds
      BY <1>0, <2>4, Zenon DEF CleanupEnds, TypeOK, WaitersListed
    <2> QED BY <1>11, <2>1, <2>2, <2>3, <2>4, Zenon
  <1>12. CASE CleanupKills
    BY <1>0, <1>12, ShiftProperties, Zenon DEF CleanupKills, TypeOK, WaitersListed
  <1>13. CASE UNCHANGED vars
    BY <1>0, <1>13, Zenon DEF vars, TypeOK, WaitersListed
  <1> QED BY <1>1, <1>2, <1>3, <1>4, <1>5, <1>6, <1>7, <1>8, <1>9, <1>10, <1>11, <1>12, <1>13,
             Zenon DEF Next, NewStep, TaskStep

-----------------------------------------------------------------------------
(* A VM has one owner, and used ones do not come back.  Only the steps     *)
(* that move a VM matter.                                                  *)
Safe == SoleOwner /\ FreshForReserve /\ NothingLostWhileOpen

(* pop: a VM leaves the pool and goes to client c, and is used from then.  *)
LEMMA TakeTopSafe ==
    ASSUME IInv, NEW c \in Clients, held[c] = NoVm, available # <<>>, TakeTop(c),
           UNCHANGED <<phase, killing, pushing, running>>
    PROVE  Safe'
  <1> DEFINE v == Top
  <1>1. /\ v \in InPool /\ v \in VMs /\ NoDup(available') /\ InPool' = InPool \ {v}
    <2>1. available \in Seq(VMs) /\ NoDup(available)
      BY Zenon DEF IInv, TypeOK, SoleOwner, NoDup
    <2>2. available' = SubSeq(available, 1, Len(available) - 1)
      BY Zenon DEF TakeTop
    <2> QED BY Zenon, <2>1, <2>2, PopProperties DEF InPool, Top
  <1>2. held' = [held EXCEPT ![c] = v] /\ dirty' = dirty \cup {v}
    BY Zenon DEF TakeTop
  <1> HIDE DEF v
  <1>3. v # NoVm /\ \A d \in Clients : held[d] # v
    BY <1>1, NoVmAssumption, Zenon DEF IInv, SoleOwner
  <1>4. SoleOwner'
    BY <1>1, <1>2, <1>3, Zenon DEF IInv, TypeOK, SoleOwner, NoDup
  <1>5. FreshForReserve'
    BY <1>1, <1>2 DEF IInv, SoleOwner, FreshForReserve
  <1>6. NothingLostWhileOpen'
    <2>1. Held' = Held \cup {v}
      BY <1>2, <1>3, Zenon DEF IInv, TypeOK, Held
    <2> QED BY <1>1, <2>1, Zenon DEF IInv, NothingLostWhileOpen, Owned
  <1> QED BY <1>4, <1>5, <1>6, Zenon DEF Safe

(* push: a VM nobody else has, and that is not used, enters the pool.      *)
LEMMA PushSafe ==
    ASSUME IInv, NEW v \in VMs, v \notin InPool, v \notin killing, v \notin pushing',
           \A c \in Clients : held[c] # v,
           pushing' \subseteq pushing, pushing \subseteq pushing' \cup {v},
           v \notin dirty', dirty' \subseteq dirty, running' \subseteq running \cup {v},
           available' = Append(available, v),
           UNCHANGED <<phase, held, killing>>
    PROVE  Safe'
  <1>1. NoDup(available') /\ InPool' = InPool \cup {v}
    <2>1. available \in Seq(VMs) /\ NoDup(available) /\ v \notin Range(available)
      BY Zenon DEF IInv, TypeOK, SoleOwner, NoDup, InPool
    <2> QED BY <2>1, PushProperties DEF InPool
  <1>2. SoleOwner'
    <2>1. \A i, j \in DOMAIN available' : available'[i] = available'[j] => i = j
      BY <1>1, Zenon DEF NoDup
    <2>2. \A c, d \in Clients : held'[c] = held'[d] /\ held'[c] # NoVm => c = d
      BY Zenon DEF IInv, SoleOwner
    <2>3. \A c \in Clients : held'[c] \notin InPool' \cup killing' \cup pushing'
      BY <1>1, Zenon DEF IInv, SoleOwner
    <2>4. InPool' \cap (killing' \cup pushing') = {} /\ killing' \cap pushing' = {}
      BY <1>1 DEF IInv, SoleOwner
    <2> QED BY <2>1, <2>2, <2>3, <2>4, Zenon DEF SoleOwner
  <1>3. FreshForReserve'
    BY <1>1, Zenon DEF IInv, FreshForReserve
  <1>4. NothingLostWhileOpen'
    BY <1>1, Zenon DEF IInv, NothingLostWhileOpen, Owned, Held
  <1> QED BY <1>2, <1>3, <1>4, Zenon DEF Safe

(* Every step of the pool keeps the part of the invariant that is about    *)
(* VMs and their owners.                                                   *)
LEMMA NextSafe == IInv /\ [Next]_vars => Safe'
  <1> SUFFICES ASSUME IInv, [Next]_vars PROVE Safe'
    BY Zenon
  <1> USE DEF poolVars, vmVars, taskVars, notifyVars
  <1>1. ASSUME NEW v \in VMs, NewSpawns(v) PROVE Safe'
    <2>1. /\ v \notin InPool /\ v \notin Held /\ v \notin killing /\ v \notin pushing
          /\ dirty' = dirty \ {v} /\ running' = running \cup {v}
          /\ available' = Append(available, v)
          /\ UNCHANGED <<phase, held, killing, pushing>>
      BY <1>1, Zenon DEF NewSpawns, SpawnVm, Free, Owned
    <2>2. \A c \in Clients : held[c] # v
      BY <2>1, NoVmAssumption, Zenon DEF Held
    <2> QED BY <2>1, <2>2, PushSafe, Zenon
  <1>2. CASE NewFails
    <2>1. InPool' = {} /\ NoDup(available')
      BY <1>2 DEF NewFails, InPool, Range, NoDup
    <2>2. phase' = "failed" /\ UNCHANGED <<held, killing, pushing, running, dirty>>
      BY <1>2, Zenon DEF NewFails
    <2> QED BY <2>1, <2>2, Zenon DEF IInv, Safe, SoleOwner, FreshForReserve, NothingLostWhileOpen,
               NoDup
  <1>3. ASSUME NEW c \in Clients, ReservePops(c) PROVE Safe'
    <2>1. held[c] = NoVm
      BY <1>3, Zenon DEF ReservePops, IInv, ReservingHoldsNone
    <2> QED BY <1>3, <2>1, TakeTopSafe, Zenon DEF ReservePops
  <1>4. ASSUME NEW c \in Clients, TryReserve(c) PROVE Safe'
    BY <1>4, TakeTopSafe, Zenon DEF TryReserve
  <1>5. ASSUME NEW c \in Clients, DropPooledVm(c) PROVE Safe'
    <2>1. /\ held[c] # NoVm /\ held' = [held EXCEPT ![c] = NoVm]
          /\ killing' = killing \cup {held[c]}
          /\ UNCHANGED <<phase, available, pushing, running, dirty>>
      BY <1>5, Zenon DEF DropPooledVm
    <2>2. Owned' = Owned /\ InPool' = InPool
      <3>1. InPool' = InPool
        BY <2>1, Zenon DEF InPool
      <3>2. \A d \in Clients : held'[d] = IF d = c THEN NoVm ELSE held[d]
        BY <2>1, Zenon DEF IInv, TypeOK
      <3>3. Held = Held' \cup {held[c]}
        BY <2>1, <3>2, Zenon DEF Held
      <3> QED BY <2>1, <3>1, <3>3, Zenon DEF Owned
    <2>3. SoleOwner'
      <3> DEFINE w == held[c]
      <3>1. /\ w # NoVm /\ w \notin InPool \cup killing \cup pushing
            /\ \A d \in Clients : held[d] = w => d = c
        BY <2>1, Zenon DEF IInv, SoleOwner
      <3>2. \A d \in Clients : held'[d] = IF d = c THEN NoVm ELSE held[d]
        BY <2>1, Zenon DEF IInv, TypeOK
      <3>3. killing' = killing \cup {w} /\ NoVm \notin InPool \cup killing \cup pushing
        BY <2>1, NoVmAssumption DEF IInv, TypeOK, InPool, Range
      <3> HIDE DEF w
      <3>4. \A d \in Clients : held'[d] \notin InPool' \cup killing' \cup pushing'
        BY <2>1, <2>2, <3>1, <3>2, <3>3 DEF IInv, SoleOwner
      <3>5. \A d, e \in Clients : held'[d] = held'[e] /\ held'[d] # NoVm => d = e
        BY <3>2, Zenon DEF IInv, SoleOwner
      <3> QED BY <2>1, <2>2, <3>1, <3>3, <3>4, <3>5 DEF IInv, SoleOwner
    <2> QED BY <2>1, <2>2, <2>3, Zenon DEF IInv, Safe, FreshForReserve, NothingLostWhileOpen
  <1>6. ASSUME NEW v \in VMs, TaskKills(v) PROVE Safe'
    <2>1. /\ killing' = killing \ {v} /\ running' = running \ {v} /\ dirty' = dirty \ {v}
          /\ UNCHANGED <<phase, available, held, pushing>> /\ InPool' = InPool /\ Held' = Held
      BY <1>6, Zenon DEF TaskKills, InPool, Held
    <2> QED BY <2>1, Zenon DEF IInv, Safe, SoleOwner, FreshForReserve, NothingLostWhileOpen, Owned
  <1>7. ASSUME NEW v \in VMs, TaskSpawns(v) PROVE Safe'
    <2>1. /\ v \notin InPool /\ v \notin Held /\ v \notin killing
          /\ dirty' = dirty \ {v} /\ running' = running \cup {v} /\ pushing' = pushing \cup {v}
          /\ UNCHANGED <<phase, available, held, killing>> /\ InPool' = InPool /\ Held' = Held
      BY <1>7, Zenon DEF TaskSpawns, SpawnVm, Free, Owned, InPool, Held
    <2>2. \A c \in Clients : held[c] # v
      BY <2>1, NoVmAssumption, Zenon DEF Held
    <2> QED BY <2>1, <2>2
            DEF IInv, Safe, SoleOwner, FreshForReserve, NothingLostWhileOpen, Owned
  <1>8. ASSUME NEW v \in VMs, TaskPushes(v) PROVE Safe'
    <2>1. /\ v \in pushing /\ pushing' = pushing \ {v} /\ available' = Append(available, v)
          /\ UNCHANGED <<phase, held, killing, running, dirty>>
      BY <1>8, Zenon DEF TaskPushes
    <2>2. /\ v \notin InPool /\ v \notin killing /\ v \notin dirty
          /\ \A c \in Clients : held[c] # v
      BY <2>1, Zenon DEF IInv, SoleOwner, FreshForReserve
    <2> QED BY <2>1, <2>2, PushSafe, Zenon
  <1>9. CASE CleanupKills
    <2> DEFINE v == Head(available)
    <2>1. /\ NoDup(available') /\ InPool' = InPool \ {v}
      BY Zenon, <1>9, ShiftProperties DEF CleanupKills, IInv, TypeOK, SoleOwner, NoDup, InPool
    <2>2. /\ running' = running \ {v} /\ dirty' = dirty \ {v}
          /\ UNCHANGED <<phase, held, killing, pushing>> /\ Held' = Held
      BY <1>9, Zenon DEF CleanupKills, Held
    <2> HIDE DEF v
    <2> QED BY <2>1, <2>2, Zenon DEF IInv, Safe, SoleOwner, FreshForReserve, NothingLostWhileOpen,
               Owned, NoDup
  <1>10. ASSUME NEW v \in VMs, VmExits(v) PROVE Safe'
    <2>1. /\ running' \subseteq running /\ InPool' = InPool /\ Held' = Held
          /\ UNCHANGED <<phase, available, held, killing, pushing, dirty>>
      BY <1>10, Zenon DEF VmExits, InPool, Held
    <2> QED BY <2>1, Zenon DEF IInv, Safe, SoleOwner, FreshForReserve, NothingLostWhileOpen, Owned
  <1>11. ASSUME UNCHANGED vmVars, phase' = phase \/ phase \in {"creating", "open", "dropping"}
         PROVE  Safe'
    <2>1. InPool' = InPool /\ Held' = Held
      BY <1>11, Zenon DEF InPool, Held
    <2> QED BY <1>11, <2>1, Zenon DEF IInv, Safe, SoleOwner, FreshForReserve,
               NothingLostWhileOpen, Owned
  <1>12. ASSUME NEW c \in Clients,
                ReserveEnable(c) \/ ReserveFindsNone(c) \/ ReserveWakes(c) \/ ReserveCancelled(c)
         PROVE  Safe'
    BY <1>11, <1>12, Zenon DEF ReserveEnable, ReserveFindsNone, ReserveWakes, ReserveCancelled
  <1>13. CASE \/ NewReturns \/ TaskNotifies \/ TaskSpawnFails \/ DropSetsFlag \/ DropChecksCount
              \/ CleanupEnds \/ UNCHANGED vars
    BY <1>11, <1>13, Zenon DEF NewReturns, TaskNotifies, TaskSpawnFails, DropSetsFlag,
       DropChecksCount,
                        CleanupEnds, vars
  <1> QED BY <1>1, <1>2, <1>3, <1>4, <1>5, <1>6, <1>7, <1>8, <1>9, <1>10, <1>12, <1>13, Zenon
             DEF Next, NewStep, TaskStep

(* A client is handed a VM only when it has none.                          *)
LEMMA NextReserving == IInv /\ [Next]_vars => ReservingHoldsNone'
  <1> SUFFICES ASSUME IInv, [Next]_vars, NEW c \in Clients, rpc'[c] # "idle"
               PROVE  held'[c] = NoVm
    BY Zenon DEF ReservingHoldsNone
  <1> USE DEF poolVars, vmVars, taskVars, notifyVars
  <1>0. /\ rpc[c] # "idle" => held[c] = NoVm
        /\ held \in [Clients -> VMs \cup {NoVm}]
        /\ rpc \in [Clients -> {"idle", "top", "locking", "waiting"}]
    BY Zenon DEF IInv, ReservingHoldsNone, TypeOK
  <1>1. CASE UNCHANGED <<held, rpc>>
    BY <1>0, <1>1, Zenon
  <1>2. ASSUME NEW d \in Clients,
               ReserveEnable(d) \/ ReserveFindsNone(d) \/ ReserveWakes(d) \/ ReserveCancelled(d)
        PROVE  held'[c] = NoVm
    BY <1>0, <1>2, Zenon DEF ReserveEnable, ReserveFindsNone, ReserveWakes, ReserveCancelled
  <1>3. ASSUME NEW d \in Clients, ReservePops(d) \/ TryReserve(d) \/ DropPooledVm(d)
        PROVE  held'[c] = NoVm
    BY <1>0, <1>3, Zenon DEF ReservePops, TryReserve, DropPooledVm, TakeTop
  <1>4. CASE NewStep \/ TaskStep \/ TaskSpawnFails
    BY Zenon, <1>1, <1>4 DEF NewStep, NewSpawns, NewFails, NewReturns, TaskStep, TaskKills,
       TaskSpawns,
                      TaskPushes, TaskNotifies, TaskSpawnFails
  <1>5. CASE \/ DropSetsFlag \/ DropChecksCount \/ CleanupKills \/ CleanupEnds
             \/ (\E v \in VMs : VmExits(v)) \/ UNCHANGED vars
    BY Zenon, <1>1, <1>5 DEF DropSetsFlag, DropChecksCount, CleanupKills, CleanupEnds, VmExits, vars
  <1> QED BY Zenon, <1>2, <1>3, <1>4, <1>5 DEF Next

-----------------------------------------------------------------------------
(* The inductive invariant of the cleanup: nobody is inside reserve()      *)
(* unless the pool is open (it borrows the pool) ...                       *)
ReservingOpen == \A c \in Clients : rpc[c] # "idle" => phase = "open"

(* ... the drop tasks that have a VM are finitely many, so that counting   *)
(* the references tells whether there is one ...                           *)
TasksFinite == IsFiniteSet(killing) /\ IsFiniteSet(pushing)

(* ... and while the cleanup task is there, it has the only reference: no  *)
(* client has a VM, no drop task has or will have one, and what runs is in *)
(* the pool.                                                               *)
CleanupAlone ==
    cleanup # "none" =>
        /\ phase = "gone" /\ \A c \in Clients : held[c] = NoVm
        /\ killing = {} /\ pushing = {} /\ spawning = 0
        /\ running \subseteq InPool /\ (cleanup = "done" => available = <<>>)

TInv == IInv /\ ReservingOpen /\ TasksFinite /\ CleanupAlone

(* reserve() borrows the pool: it is not closed or dropped meanwhile.      *)
LEMMA NextReservingOpen == TInv /\ [Next]_vars => ReservingOpen'
  <1> SUFFICES ASSUME TInv, [Next]_vars, NEW c \in Clients, rpc'[c] # "idle"
               PROVE  phase' = "open"
    BY Zenon DEF ReservingOpen
  <1> USE DEF poolVars, vmVars, taskVars, notifyVars
  <1>0. /\ \A d \in Clients : rpc[d] # "idle" => phase = "open"
        /\ rpc \in [Clients -> {"idle", "top", "locking", "waiting"}]
    BY Zenon DEF TInv, IInv, ReservingOpen, TypeOK
  <1>1. ASSUME NEW d \in Clients,
               \/ ReserveEnable(d) \/ ReservePops(d) \/ ReserveFindsNone(d) \/ ReserveWakes(d)
               \/ ReserveCancelled(d)
        PROVE  phase' = "open"
    <2>1. phase' = phase
      BY Zenon, <1>1 DEF ReserveEnable, ReservePops, ReserveFindsNone, ReserveWakes,
         ReserveCancelled
    <2>2. phase = "open" \/ rpc[d] # "idle"
      BY <1>1, CancelPointsAssumption, Zenon DEF ReserveEnable, ReservePops, ReserveFindsNone,
         ReserveWakes, ReserveCancelled
    <2> QED BY Zenon, <1>0, <2>1, <2>2
  <1>2. CASE UNCHANGED <<phase, rpc>>
    BY <1>0, <1>2, Zenon
  <1>3. CASE NewFails \/ NewReturns \/ DropSetsFlag \/ DropChecksCount
    BY <1>0, <1>3, Zenon DEF NewFails, NewReturns, DropSetsFlag, DropChecksCount
  <1>4. ASSUME NEW d \in Clients, TryReserve(d) \/ DropPooledVm(d)
        PROVE  UNCHANGED <<phase, rpc>>
    BY Zenon, <1>4 DEF TryReserve, DropPooledVm
  <1>5. ASSUME NEW v \in VMs, \/ NewSpawns(v) \/ TaskKills(v) \/ TaskSpawns(v) \/ TaskPushes(v)
                              \/ VmExits(v)
        PROVE  UNCHANGED <<phase, rpc>>
    BY Zenon, <1>5 DEF NewSpawns, TaskKills, TaskSpawns, TaskPushes, VmExits
  <1>6. CASE TaskNotifies \/ TaskSpawnFails \/ CleanupKills \/ CleanupEnds \/ UNCHANGED vars
    BY Zenon, <1>2, <1>6 DEF TaskNotifies, TaskSpawnFails, CleanupKills, CleanupEnds, vars
  <1> QED BY Zenon, <1>1, <1>2, <1>3, <1>4, <1>5, <1>6 DEF Next, NewStep, TaskStep

(* A step starts or ends one task at most.                                 *)
LEMMA NextTasksFinite == TInv /\ [Next]_vars => TasksFinite'
  <1> SUFFICES ASSUME TInv, [Next]_vars PROVE TasksFinite'
    BY Zenon
  <1> USE DEF poolVars, vmVars, taskVars, notifyVars
  <1>0. IsFiniteSet(killing) /\ IsFiniteSet(pushing)
    BY Zenon DEF TInv, TasksFinite
  <1>1. CASE UNCHANGED <<killing, pushing>>
    BY <1>0, <1>1, Zenon DEF TasksFinite
  <1>2. ASSUME NEW c \in Clients, DropPooledVm(c) PROVE TasksFinite'
    BY <1>0, <1>2, FS_AddElement, Zenon DEF DropPooledVm, TasksFinite
  <1>3. ASSUME NEW v \in VMs, TaskKills(v) PROVE TasksFinite'
    BY <1>0, <1>3, FS_RemoveElement, Zenon DEF TaskKills, TasksFinite
  <1>4. ASSUME NEW v \in VMs, TaskSpawns(v) PROVE TasksFinite'
    BY <1>0, <1>4, FS_AddElement, Zenon DEF TaskSpawns, TasksFinite
  <1>5. ASSUME NEW v \in VMs, TaskPushes(v) PROVE TasksFinite'
    BY <1>0, <1>5, FS_RemoveElement, Zenon DEF TaskPushes, TasksFinite
  <1>6. ASSUME NEW c \in Clients,
               \/ ReserveEnable(c) \/ ReservePops(c) \/ ReserveFindsNone(c) \/ ReserveWakes(c)
               \/ ReserveCancelled(c) \/ TryReserve(c)
        PROVE  UNCHANGED <<killing, pushing>>
    BY Zenon, <1>6 DEF ReserveEnable, ReservePops, ReserveFindsNone, ReserveWakes, ReserveCancelled,
                       TryReserve
  <1>7. CASE \/ NewStep \/ TaskNotifies \/ TaskSpawnFails \/ \E v \in VMs : VmExits(v)
    BY Zenon, <1>1, <1>7 DEF NewStep, NewSpawns, NewFails, NewReturns, TaskNotifies, TaskSpawnFails,
                             VmExits
  <1>8. CASE \/ DropSetsFlag \/ DropChecksCount \/ CleanupKills \/ CleanupEnds \/ UNCHANGED vars
    BY Zenon, <1>1, <1>8 DEF DropSetsFlag, DropChecksCount, CleanupKills, CleanupEnds, vars
  <1> QED BY Zenon, <1>1, <1>2, <1>3, <1>4, <1>5, <1>6, <1>7, <1>8 DEF Next, TaskStep

(* Arc::strong_count is 1 in VmPool::drop only if no client has a VM and   *)
(* no drop task is left (pool/mod.rs:170).                                 *)
LEMMA OnlyReference ==
    ASSUME TInv, phase = "dropping", StrongCount = 1
    PROVE  /\ \A c \in Clients : held[c] = NoVm
           /\ killing = {} /\ pushing = {} /\ spawning = 0
           /\ running \subseteq InPool
  <1> DEFINE H == {c \in Clients : held[c] # NoVm}
  <1>1. IsFiniteSet(H)
    BY ClientsAssumption, FS_Subset, Zenon
  <1>2. IsFiniteSet(killing) /\ IsFiniteSet(pushing) /\ spawning \in Nat /\ notifying \in Nat
    BY Zenon DEF TInv, TasksFinite, IInv, TypeOK
  <1>3. Cardinality(H) \in Nat /\ Cardinality(killing) \in Nat /\ Cardinality(pushing) \in Nat
    BY <1>1, <1>2, FS_CardinalityType, Zenon
  <1>4. 1 + Cardinality(H) + Cardinality(killing) + spawning + Cardinality(pushing) + notifying
          + (IF cleanup = "draining" THEN 1 ELSE 0) = 1
    BY Zenon DEF StrongCount
  <1> HIDE DEF H
  <1>5. Cardinality(H) = 0 /\ Cardinality(killing) = 0 /\ Cardinality(pushing) = 0 /\ spawning = 0
    BY <1>2, <1>3, <1>4
  <1>6. H = {} /\ killing = {} /\ pushing = {}
    BY <1>1, <1>2, <1>5, FS_EmptySet, Zenon
  <1>7. \A c \in Clients : held[c] = NoVm
    BY <1>6, Zenon DEF H
  <1>8. running \subseteq Owned
    BY Zenon DEF TInv, IInv, NothingLostWhileOpen
  <1>9. Owned = InPool
    BY <1>6, <1>7, Zenon DEF Owned, Held
  <1> QED BY <1>5, <1>6, <1>7, <1>8, <1>9, Zenon

(* Once the cleanup task is started nothing adds a VM behind it.           *)
LEMMA NextCleanupAlone == TInv /\ [Next]_vars => CleanupAlone'
  <1> SUFFICES ASSUME TInv, [Next]_vars PROVE CleanupAlone'
    BY Zenon
  <1> USE DEF poolVars, vmVars, taskVars, notifyVars
  <1>0. CleanupAlone /\ ReservingOpen /\ TypeOK
    BY Zenon DEF TInv, IInv
  <1>1. CASE DropChecksCount
    <2>1. /\ phase = "dropping" /\ phase' = "gone" /\ cleanup = "none"
          /\ cleanup' = IF StrongCount = 1 THEN "draining" ELSE cleanup
          /\ UNCHANGED <<available, held, killing, pushing, running, spawning>>
      BY <1>0, <1>1, Zenon DEF DropChecksCount, CleanupAlone
    <2>2. InPool' = InPool
      BY <2>1, Zenon DEF InPool
    <2> QED BY <2>1, <2>2, OnlyReference, Zenon DEF CleanupAlone
  <1> SUFFICES ASSUME ~DropChecksCount, cleanup' # "none" PROVE CleanupAlone'
    BY <1>1, Zenon DEF CleanupAlone
  <1>2. cleanup # "none" /\ phase = "gone"
    <2>1. ASSUME NEW c \in Clients,
                 \/ ReserveEnable(c) \/ ReservePops(c) \/ ReserveFindsNone(c) \/ ReserveWakes(c)
                 \/ ReserveCancelled(c) \/ TryReserve(c) \/ DropPooledVm(c)
          PROVE  UNCHANGED cleanup
      BY Zenon, <2>1 DEF ReserveEnable, ReservePops, ReserveFindsNone, ReserveWakes,
                         ReserveCancelled, TryReserve, DropPooledVm
    <2>2. ASSUME NEW v \in VMs,
                 NewSpawns(v) \/ TaskKills(v) \/ TaskSpawns(v) \/ TaskPushes(v) \/ VmExits(v)
          PROVE  UNCHANGED cleanup
      BY Zenon, <2>2 DEF NewSpawns, TaskKills, TaskSpawns, TaskPushes, VmExits
    <2>3. \/ NewFails \/ NewReturns \/ TaskNotifies \/ TaskSpawnFails \/ DropSetsFlag
          \/ UNCHANGED vars
          => UNCHANGED cleanup
      BY Zenon DEF NewFails, NewReturns, TaskNotifies, TaskSpawnFails, DropSetsFlag, vars
    <2>4. CleanupKills \/ CleanupEnds => cleanup = "draining"
      BY Zenon DEF CleanupKills, CleanupEnds
    <2>5. cleanup # "none"
      <3>1. UNCHANGED cleanup \/ cleanup = "draining"
        BY Zenon, <2>1, <2>2, <2>3, <2>4 DEF Next, NewStep, TaskStep
      <3> QED BY <3>1, Zenon
    <2> QED BY <1>0, <2>5, Zenon DEF CleanupAlone
  <1>3. /\ \A c \in Clients : held[c] = NoVm /\ rpc[c] = "idle"
        /\ killing = {} /\ pushing = {} /\ spawning = 0
        /\ running \subseteq InPool /\ (cleanup = "done" => available = <<>>)
    <2>1. phase # "open"
      BY <1>2, Zenon
    <2> QED BY Zenon, <1>0, <1>2, <2>1 DEF CleanupAlone, ReservingOpen
  <1>4. CASE CleanupKills
    <2>1. /\ available # <<>> /\ available \in Seq(VMs) /\ available' = Tail(available)
          /\ running' = running \ {Head(available)} /\ cleanup' = "draining"
          /\ UNCHANGED <<phase, held, killing, pushing, spawning>>
      BY <1>0, <1>4, Zenon DEF CleanupKills, TypeOK
    <2>2. Range(available) \ {Head(available)} \subseteq Range(Tail(available))
      BY <2>1, ShiftProperties, Zenon
    <2>3. running' \subseteq InPool'
      BY <1>3, <2>1, <2>2, Zenon DEF InPool
    <2> QED BY <1>2, <1>3, <2>1, <2>3, Zenon DEF CleanupAlone
  <1>5. CASE CleanupEnds
    BY <1>2, <1>3, <1>5, Zenon DEF CleanupEnds, CleanupAlone, InPool
  <1>6. ASSUME UNCHANGED <<cleanup, phase, available, held, killing, pushing, spawning>>,
               running' \subseteq running
        PROVE  CleanupAlone'
    BY <1>2, <1>3, <1>6, Zenon DEF CleanupAlone, InPool
  <1>7. CASE TaskNotifies \/ (\E v \in VMs : VmExits(v)) \/ UNCHANGED vars
    BY <1>6, <1>7, Zenon DEF TaskNotifies, VmExits, vars
  <1>8. ASSUME NEW c \in Clients
        PROVE  ~(\/ ReserveEnable(c) \/ ReservePops(c) \/ ReserveFindsNone(c) \/ ReserveWakes(c)
                 \/ ReserveCancelled(c) \/ TryReserve(c) \/ DropPooledVm(c))
    BY <1>2, <1>3, CancelPointsAssumption, Zenon DEF ReserveEnable, ReservePops, ReserveFindsNone,
       ReserveWakes, ReserveCancelled, TryReserve,
           DropPooledVm
  <1>9. /\ \A v \in VMs : ~NewSpawns(v) /\ ~TaskKills(v) /\ ~TaskSpawns(v) /\ ~TaskPushes(v)
        /\ ~NewFails /\ ~NewReturns /\ ~DropSetsFlag /\ ~TaskSpawnFails
    <2>1. ASSUME NEW v \in VMs
          PROVE  /\ NewSpawns(v) => phase = "creating"
                 /\ TaskKills(v) => v \in killing
                 /\ TaskPushes(v) => v \in pushing
                 /\ TaskSpawns(v) => spawning > 0
      BY Zenon DEF NewSpawns, TaskKills, TaskPushes, TaskSpawns
    <2>2. /\ NewFails \/ NewReturns => phase = "creating"
          /\ DropSetsFlag => phase = "open"
          /\ TaskSpawnFails => spawning > 0
      BY Zenon DEF NewFails, NewReturns, DropSetsFlag, TaskSpawnFails
    <2>3. phase # "creating" /\ phase # "open" /\ ~(spawning > 0)
      BY <1>2, <1>3
    <2> QED BY Zenon, <1>3, <2>1, <2>2, <2>3
  <1> QED BY Zenon, <1>4, <1>5, <1>7, <1>8, <1>9 DEF Next, NewStep, TaskStep

(* The pool VmPool::new starts from satisfies it.                          *)
LEMMA InitTInv == Init => TInv
  <1> SUFFICES ASSUME Init PROVE TInv
    BY Zenon
  <1>1. ReservingOpen /\ CleanupAlone
    BY Zenon DEF Init, ReservingOpen, CleanupAlone
  <1>2. TasksFinite
    BY FS_EmptySet, Zenon DEF Init, TasksFinite
  <1> QED BY <1>1, <1>2, InitIInv, Zenon DEF TInv

(* Every step keeps it.                                                    *)
LEMMA NextTInv == TInv /\ [Next]_vars => TInv'
  BY NextTypes, NextSafe, NextReserving, NextReservingOpen, NextTasksFinite, NextCleanupAlone,
     Zenon DEF TInv, IInv, Safe

-----------------------------------------------------------------------------
(* The invariant holds in every reachable state of the pool's code.        *)
THEOREM Inductive == Spec => []IInv
  <1>1. IInv /\ [Next]_vars => IInv'
    BY NextTypes, NextSafe, NextReserving, Zenon DEF IInv, Safe
  <1> QED BY <1>1, InitIInv, PTL DEF Spec

(* pool/mod.rs: every variable of the pool keeps its type, for any number  *)
(* of clients and VMs.                                                     *)
THEOREM PoolTypes == Spec => []TypeOK
  BY Inductive, PTL DEF IInv

(* pool/mod.rs:120-128,212-224: whatever clients, drop tasks and the       *)
(* cleanup task do, a VM is in one place only.                             *)
THEOREM PoolSoleOwner == Spec => []SoleOwner
  BY Inductive, PTL DEF IInv

(* pool/mod.rs:43 "ensuring fresh state for each reservation".             *)
THEOREM PoolFresh == Spec => []FreshForReserve
  BY Inductive, PTL DEF IInv

(* pool/mod.rs:212-224: until the VmPool is dropped, every running VM is   *)
(* in the pool, with a client or with a drop task that will kill it.       *)
THEOREM PoolLosesNothing == Spec => []NothingLostWhileOpen
  BY Inductive, PTL DEF IInv

(* pool/mod.rs:169-189: when the cleanup task VmPool::drop started is      *)
(* through, no VM runs: it is started only as the last reference, nothing  *)
(* gives a VM back behind it, and every VM that runs is one it drains.     *)
THEOREM PoolCleanup == Spec => []CleanupLeavesNothing
  <1>1. TInv => CleanupLeavesNothing
    <2> SUFFICES ASSUME TInv, cleanup = "done" PROVE running = {}
      BY Zenon DEF CleanupLeavesNothing
    <2>1. running \subseteq InPool /\ available = <<>>
      BY Zenon DEF TInv, CleanupAlone
    <2> QED BY <2>1 DEF InPool, Range
  <1> QED BY <1>1, InitTInv, NextTInv, PTL DEF Spec

-----------------------------------------------------------------------------
(* No wake-up is lost, if no caller gives up reserve() while it waits for  *)
(* the lock: while a client sleeps there is a notify_one to come, or a     *)
(* client awake, for every VM in the pool.                                 *)

(* The oldest waiter is before all others; taking it keeps their order.    *)
LEMMA TailKeepsOrder ==
    ASSUME NEW S, NEW s \in Seq(S), s # <<>>
    PROVE  /\ \A d, e : Before(Tail(s), e, d) => Before(s, e, d)
           /\ \A d \in Range(s) : d # Head(s) => Before(s, Head(s), d)
  <1>1. /\ Len(s) \in Nat \ {0} /\ DOMAIN s = 1 .. Len(s) /\ DOMAIN Tail(s) = 1 .. Len(s) - 1
        /\ \A i \in 1 .. Len(s) - 1 : Tail(s)[i] = s[i + 1]
        /\ Head(s) = s[1]
    OBVIOUS
  <1>2. /\ \A i \in DOMAIN Tail(s) : i + 1 \in DOMAIN s /\ Tail(s)[i] = s[i + 1]
        /\ \A i, j \in DOMAIN Tail(s) : i < j => i + 1 < j + 1
    BY <1>1
  <1>3. \A d, e : Before(Tail(s), e, d) => Before(s, e, d)
    BY Zenon, <1>2 DEF Before
  <1>4. ASSUME NEW d \in Range(s), d # Head(s) PROVE Before(s, Head(s), d)
    <2>1. PICK j \in DOMAIN s : s[j] = d
      BY Zenon DEF Range
    <2>2. 1 \in DOMAIN s /\ 1 < j
      BY <1>1, <1>4, <2>1
    <2> QED BY Zenon, <1>1, <2>1, <2>2 DEF Before
  <1> QED BY <1>3, <1>4, Zenon

(* A waiter that joins is before nobody.                                   *)
LEMMA AppendKeepsOrder ==
    ASSUME NEW S, NEW s \in Seq(S), NEW c \in S, c \notin Range(s), NEW d, d # c, NEW e,
           Before(Append(s, c), e, d)
    PROVE  Before(s, e, d) /\ e # c
  <1>1. /\ Len(s) \in Nat /\ DOMAIN s = 1 .. Len(s) /\ DOMAIN Append(s, c) = 1 .. Len(s) + 1
        /\ \A i \in 1 .. Len(s) : Append(s, c)[i] = s[i]
        /\ Append(s, c)[Len(s) + 1] = c
    OBVIOUS
  <1>2. PICK i, j \in DOMAIN Append(s, c) : i < j /\ Append(s, c)[i] = e /\ Append(s, c)[j] = d
    BY Zenon DEF Before
  <1>3. i \in DOMAIN s /\ j \in DOMAIN s /\ s[i] = e /\ s[j] = d
    BY <1>1, <1>2
  <1> QED BY Zenon, <1>2, <1>3 DEF Before, Range

(* Counting what covers a sleeper before (S) and after (T) a step that    *)
(* takes at most x out of it.                                              *)
LEMMA Counting ==
    ASSUME NEW S, NEW T, IsFiniteSet(S), IsFiniteSet(T), NEW x, S \ {x} \subseteq T
    PROVE  /\ Cardinality(S) \in Nat /\ Cardinality(T) \in Nat
           /\ Cardinality(S) <= Cardinality(T) + 1
           /\ x \in T => Cardinality(S) <= Cardinality(T)
           /\ x \in T /\ x \notin S => Cardinality(S) + 1 <= Cardinality(T)
           /\ \A y \in T : y \notin S => Cardinality(S) <= Cardinality(T)
  <1>1. /\ Cardinality(S) \in Nat /\ Cardinality(T) \in Nat
    BY FS_CardinalityType, Zenon
  <1>2. /\ IsFiniteSet(S \ {x})
        /\ Cardinality(S \ {x}) = IF x \in S THEN Cardinality(S) - 1 ELSE Cardinality(S)
    BY FS_RemoveElement, Zenon
  <1>3. Cardinality(S \ {x}) <= Cardinality(T)
    BY FS_Subset, Zenon
  <1>4. x \in T => Cardinality(S) <= Cardinality(T)
    BY FS_Subset, Zenon
  <1>5. ASSUME NEW y \in T, y \notin S PROVE Cardinality(S) <= Cardinality(T)
    <2>1. /\ IsFiniteSet(T \ {y}) /\ Cardinality(T \ {y}) = Cardinality(T) - 1
      BY <1>5, FS_RemoveElement, Zenon
    <2>2. Cardinality(S \ {x}) <= Cardinality(T \ {y})
      BY <1>5, <2>1, FS_Subset, Zenon
    <2> QED BY <1>1, <1>2, <2>1, <2>2
  <1>6. x \in T /\ x \notin S => Cardinality(S) + 1 <= Cardinality(T)
    <2> SUFFICES ASSUME x \in T, x \notin S PROVE Cardinality(S) + 1 <= Cardinality(T)
      BY Zenon
    <2>1. /\ IsFiniteSet(T \ {x}) /\ Cardinality(T \ {x}) = Cardinality(T) - 1
      BY FS_RemoveElement, Zenon
    <2>2. Cardinality(S) <= Cardinality(T \ {x})
      BY <2>1, FS_Subset, Zenon
    <2> QED BY <1>1, <2>1, <2>2
  <1> QED BY <1>1, <1>2, <1>3, <1>4, <1>5, <1>6

-----------------------------------------------------------------------------
(* The inductive invariant: Notify's list holds each waiting future once,  *)
(* and nothing else; there is no permit beside a waiter; between two turns *)
(* of reserve() there is no future ...                                     *)
NotifyInOrder ==
    /\ NoDup(waiters) /\ \A c \in Range(waiters) : fut[c] = "waiting"
    /\ permit => waiters = <<>>
    /\ \A c \in Clients : rpc[c] \in {"idle", "top"} => fut[c] = "none"

(* ... and each sleeper d is covered: by the wake-ups given out, by the    *)
(* clients that are to register again, and by the clients that look at the *)
(* pool now, except those that would get the next wake-up before d does.   *)
Sleeps(d) == rpc[d] = "waiting" /\ fut[d] = "waiting"
Covering(d) ==
    {e \in Clients : \/ rpc[e] = "top" \/ fut[e] = "one"
                     \/ (rpc[e] = "locking" /\ ~Before(waiters, e, d))}
SleepersCovered ==
    \A d \in Clients : Sleeps(d) => Len(available) <= notifying + Cardinality(Covering(d))

WInv == TInv /\ NotifyInOrder /\ SleepersCovered

(* notify_one: the oldest waiter gets the wake-up, and nobody else does;   *)
(* without a waiter the permit is stored.                                  *)
LEMMA NotifyOneInOrder ==
    ASSUME TypeOK, NEW f \in [Clients -> {"none", "waiting", "one", "done"}],
           NoDup(waiters), \A c \in Range(waiters) : f[c] = "waiting",
           permit => waiters = <<>>, NotifyOne(f)
    PROVE  /\ NoDup(waiters') /\ \A c \in Range(waiters') : fut'[c] = "waiting"
           /\ permit' => waiters' = <<>>
           /\ Range(waiters') \subseteq Range(waiters)
           /\ \A c \in Clients : \/ fut'[c] = f[c]
                                 \/ c = Head(waiters) /\ waiters # <<>> /\ fut'[c] = "one"
           /\ \A d, e \in Clients : Before(waiters', e, d) => Before(waiters, e, d)
           /\ \A d \in Range(waiters) : fut'[d] = "waiting" =>
                 /\ Head(waiters) \in Clients /\ Before(waiters, Head(waiters), d)
                 /\ fut'[Head(waiters)] = "one" /\ f[Head(waiters)] = "waiting"
  <1>1. CASE waiters = <<>>
    <2>1. fut' = f /\ waiters' = waiters
      BY <1>1, Zenon DEF NotifyOne
    <2>2. Range(waiters) = {}
      BY <1>1 DEF Range
    <2> QED BY <1>1, <2>1, <2>2, Zenon
  <1>2. CASE waiters # <<>>
    <2>1. /\ fut' = [f EXCEPT ![Head(waiters)] = "one"] /\ waiters' = Tail(waiters)
          /\ permit' = permit
      BY <1>2, Zenon DEF NotifyOne
    <2>2. /\ Head(waiters) \in Clients /\ Head(waiters) \in Range(waiters)
          /\ NoDup(Tail(waiters)) /\ Range(Tail(waiters)) = Range(waiters) \ {Head(waiters)}
      BY <1>2, ShiftProperties, Zenon DEF TypeOK
    <2>3. /\ \A d, e : Before(Tail(waiters), e, d) => Before(waiters, e, d)
          /\ \A d \in Range(waiters) : d # Head(waiters) => Before(waiters, Head(waiters), d)
      BY Zenon, <1>2, TailKeepsOrder DEF TypeOK
    <2>4. Range(waiters) \subseteq Clients
      BY DEF TypeOK, Range
    <2> QED BY <1>2, <2>1, <2>2, <2>3, <2>4, Zenon
  <1> QED BY <1>1, <1>2, Zenon

(* Dropping a Notified takes it off the list, or passes its wake-up on.    *)
LEMMA DropNotifiedInOrder ==
    ASSUME TypeOK, WaitersListed, NotifyInOrder, NEW c \in Clients, DropNotified(c)
    PROVE  /\ NoDup(waiters') /\ \A e \in Range(waiters') : fut'[e] = "waiting"
           /\ permit' => waiters' = <<>>
           /\ fut'[c] = "none"
           /\ \A e \in Clients \ {c} : fut'[e] = fut[e] \/ (fut[e] = "waiting" /\ fut'[e] = "one")
           /\ \A d, e \in Clients : Before(waiters', e, d) => Before(waiters, e, d)
           /\ fut[c] = "one" =>
                 \A d \in Clients : fut[d] = "waiting" /\ fut'[d] = "waiting" =>
                    \E h \in Clients : /\ Before(waiters, h, d)
                                       /\ fut'[h] = "one" /\ fut[h] = "waiting"
  <1> DEFINE f == [fut EXCEPT ![c] = "none"]
  <1>1. /\ f \in [Clients -> {"none", "waiting", "one", "done"}] /\ f[c] = "none"
        /\ \A d \in Clients \ {c} : f[d] = fut[d]
    BY Zenon DEF TypeOK
  <1>2. Range(waiters) \subseteq Clients /\ waiters \in Seq(Clients)
    BY DEF TypeOK, Range
  <1>3. CASE fut[c] = "one"
    <2>1. NotifyOne(f)
      BY <1>3, Zenon DEF DropNotified
    <2>2. \A d \in Range(waiters) : d # c /\ f[d] = "waiting"
      BY <1>1, <1>2, <1>3, Zenon DEF NotifyInOrder
    <2> HIDE DEF f
    <2>3. /\ NoDup(waiters') /\ \A d \in Range(waiters') : fut'[d] = "waiting"
          /\ permit' => waiters' = <<>>
          /\ \A d \in Clients : \/ fut'[d] = f[d]
                                \/ d = Head(waiters) /\ waiters # <<>> /\ fut'[d] = "one"
          /\ \A d, e \in Clients : Before(waiters', e, d) => Before(waiters, e, d)
          /\ \A d \in Range(waiters) : fut'[d] = "waiting" =>
                /\ Head(waiters) \in Clients /\ Before(waiters, Head(waiters), d)
                /\ fut'[Head(waiters)] = "one" /\ f[Head(waiters)] = "waiting"
      BY <1>1, <2>1, <2>2, NotifyOneInOrder, Zenon DEF NotifyInOrder
    <2>4. waiters # <<>> => Head(waiters) \in Range(waiters)
      BY <1>2, ShiftProperties, Zenon
    <2>5. \A e \in Clients \ {c} : fut'[e] = fut[e] \/ (fut[e] = "waiting" /\ fut'[e] = "one")
      BY <1>1, <2>2, <2>3, <2>4, Zenon
    <2>6. fut'[c] = "none"
      BY <1>1, <2>2, <2>3, <2>4, Zenon
    <2>7. \A d \in Clients : fut[d] = "waiting" => d \in Range(waiters)
      BY Zenon DEF WaitersListed
    <2>8. ASSUME NEW d \in Clients, fut[d] = "waiting", fut'[d] = "waiting"
          PROVE  \E h \in Clients : /\ Before(waiters, h, d)
                                    /\ fut'[h] = "one" /\ fut[h] = "waiting"
      <3>1. /\ Head(waiters) \in Clients /\ Before(waiters, Head(waiters), d)
            /\ fut'[Head(waiters)] = "one" /\ f[Head(waiters)] = "waiting"
        BY <2>3, <2>7, <2>8, Zenon
      <3>2. fut[Head(waiters)] = "waiting"
        BY <1>1, <3>1, Zenon
      <3> QED BY <3>1, <3>2, Zenon
    <2> QED BY <2>3, <2>5, <2>6, <2>8, Zenon
  <1>4. CASE fut[c] = "waiting"
    <2>1. fut' = f /\ waiters' = Without(waiters, c) /\ permit' = permit
      BY <1>4, Zenon DEF DropNotified
    <2>2. c \in Range(waiters)
      BY <1>4, Zenon DEF WaitersListed
    <2>3. /\ Range(waiters') \subseteq Range(waiters) /\ NoDup(waiters') /\ c \notin Range(waiters')
          /\ \A d, e : Before(waiters', e, d) => Before(waiters, e, d)
      BY <1>2, <2>1, <2>2, WithoutKeepsOrder, Zenon DEF NotifyInOrder
    <2>4. ~permit
      BY <2>2 DEF NotifyInOrder, Range
    <2> QED BY <1>1, <1>2, <1>4, <2>1, <2>3, <2>4, Zenon DEF NotifyInOrder
  <1>5. CASE fut[c] \notin {"one", "waiting"}
    <2>1. fut' = f /\ waiters' = waiters /\ permit' = permit
      BY <1>5, Zenon DEF DropNotified
    <2> QED BY Zenon, <1>1, <1>2, <1>5, <2>1 DEF NotifyInOrder
  <1> QED BY Zenon, <1>3, <1>4, <1>5

(* The steps that leave Notify and the clients in reserve() alone.         *)
LEMMA OtherSteps ==
    ASSUME [Next]_vars,
           \A c \in Clients : ~(\/ ReserveEnable(c) \/ ReservePops(c) \/ ReserveFindsNone(c)
                                \/ ReserveWakes(c) \/ ReserveCancelled(c)),
           ~TaskNotifies
    PROVE  UNCHANGED <<fut, waiters, permit, rpc>>
  <1> USE DEF poolVars, vmVars, taskVars, notifyVars
  <1>1. ASSUME NEW d \in Clients, TryReserve(d) \/ DropPooledVm(d)
        PROVE  UNCHANGED <<fut, waiters, permit, rpc>>
    BY Zenon, <1>1 DEF TryReserve, DropPooledVm
  <1>2. ASSUME NEW v \in VMs, \/ NewSpawns(v) \/ TaskKills(v) \/ TaskSpawns(v) \/ TaskPushes(v)
                              \/ VmExits(v)
        PROVE  UNCHANGED <<fut, waiters, permit, rpc>>
    BY Zenon, <1>2 DEF NewSpawns, TaskKills, TaskSpawns, TaskPushes, VmExits
  <1>3. CASE TaskSpawnFails \/ CleanupKills \/ CleanupEnds \/ UNCHANGED vars
    BY Zenon, <1>3 DEF TaskSpawnFails, CleanupKills, CleanupEnds, vars
  <1>4. CASE NewFails \/ NewReturns \/ DropSetsFlag \/ DropChecksCount
    BY Zenon, <1>4 DEF NewFails, NewReturns, DropSetsFlag, DropChecksCount
  <1> QED BY Zenon, <1>1, <1>2, <1>3, <1>4 DEF Next, NewStep, TaskStep

(* Every step keeps Notify's list in order.                                *)
LEMMA NextInOrder == WInv /\ [Next]_vars => NotifyInOrder'
  <1> SUFFICES ASSUME WInv, [Next]_vars PROVE NotifyInOrder'
    BY Zenon
  <1> USE DEF poolVars, vmVars, taskVars, notifyVars
  <1>0. /\ TypeOK /\ WaitersListed /\ NotifyInOrder
        /\ rpc \in [Clients -> {"idle", "top", "locking", "waiting"}]
        /\ fut \in [Clients -> {"none", "waiting", "one", "done"}]
        /\ waiters \in Seq(Clients) /\ Range(waiters) \subseteq Clients
    BY DEF WInv, TInv, IInv, TypeOK, Range
  <1>1. ASSUME NEW c \in Clients, ReserveEnable(c) PROVE NotifyInOrder'
    <2>1. /\ rpc[c] \in {"idle", "top"} /\ rpc' = [rpc EXCEPT ![c] = "locking"] /\ Enable(c)
      BY <1>1, Zenon DEF ReserveEnable
    <2>2. fut[c] = "none" /\ c \notin Range(waiters)
      BY <1>0, <2>1, Zenon DEF NotifyInOrder
    <2>3. CASE permit
      <3>1. permit' = FALSE /\ fut' = [fut EXCEPT ![c] = "done"] /\ waiters' = waiters
        BY <2>1, <2>3, Zenon DEF Enable
      <3> QED BY <1>0, <2>1, <2>2, <3>1, Zenon DEF NotifyInOrder
    <2>4. CASE ~permit
      <3>1. permit' = permit /\ fut' = [fut EXCEPT ![c] = "waiting"] /\ waiters' = Append(waiters,
      c)
        BY <2>1, <2>4, Zenon DEF Enable
      <3>2. NoDup(Append(waiters, c)) /\ Range(Append(waiters, c)) = Range(waiters) \cup {c}
        BY <1>0, <2>2, PushProperties DEF NotifyInOrder
      <3> QED BY <1>0, <2>1, <2>2, <2>4, <3>1, <3>2 DEF NotifyInOrder
    <2> QED BY <2>3, <2>4, Zenon
  <1>2. ASSUME NEW c \in Clients, ReservePops(c) \/ ReserveCancelled(c) PROVE NotifyInOrder'
    <2>1. DropNotified(c) /\ rpc' = [rpc EXCEPT ![c] = "idle"]
      BY <1>2, Zenon DEF ReservePops, ReserveCancelled
    <2>2. /\ NoDup(waiters') /\ \A e \in Range(waiters') : fut'[e] = "waiting"
          /\ permit' => waiters' = <<>>
          /\ fut'[c] = "none"
          /\ \A e \in Clients \ {c} : fut'[e] = fut[e] \/ (fut[e] = "waiting" /\ fut'[e] = "one")
      BY <1>0, <2>1, DropNotifiedInOrder, Zenon
    <2> QED BY <1>0, <2>1, <2>2, Zenon DEF NotifyInOrder
  <1>3. ASSUME NEW c \in Clients, ReserveFindsNone(c) PROVE NotifyInOrder'
    BY <1>0, <1>3, Zenon DEF ReserveFindsNone, NotifyInOrder
  <1>4. ASSUME NEW c \in Clients, ReserveWakes(c) PROVE NotifyInOrder'
    BY <1>0, <1>4, Zenon DEF ReserveWakes, NotifyInOrder
  <1>5. CASE TaskNotifies
    <2>1. NotifyOne(fut) /\ rpc' = rpc
      BY <1>5, Zenon DEF TaskNotifies
    <2>2. /\ NoDup(waiters') /\ \A c \in Range(waiters') : fut'[c] = "waiting"
          /\ permit' => waiters' = <<>>
          /\ \A c \in Clients : \/ fut'[c] = fut[c]
                                \/ c = Head(waiters) /\ waiters # <<>> /\ fut'[c] = "one"
      BY <1>0, <2>1, NotifyOneInOrder, Zenon DEF NotifyInOrder
    <2>3. waiters # <<>> => fut[Head(waiters)] = "waiting"
      BY <1>0, ShiftProperties, Zenon DEF NotifyInOrder
    <2> QED BY <1>0, <2>1, <2>2, <2>3, Zenon DEF NotifyInOrder
  <1>6. CASE UNCHANGED <<fut, waiters, permit, rpc>>
    BY <1>0, <1>6, Zenon DEF NotifyInOrder
  <1> QED BY Zenon, <1>1, <1>2, <1>3, <1>4, <1>5, <1>6, OtherSteps

(* The sets that are counted are finite.                                   *)
LEMMA CoveringFinite ==
    ASSUME NEW d
    PROVE  IsFiniteSet(Covering(d)) /\ Cardinality(Covering(d)) \in Nat
  <1>1. Covering(d) \in SUBSET Clients
    BY Zenon DEF Covering
  <1> QED BY <1>1, ClientsAssumption, FS_Subset, FS_CardinalityType, Zenon

(* A step that leaves the clients alone and takes VMs out of the pool, or  *)
(* adds one with a wake-up to come.                                        *)
LEMMA PoolStepCovered ==
    ASSUME WInv, UNCHANGED <<fut, waiters, rpc>>, available' \in Seq(VMs), notifying' \in Nat,
           \/ (Len(available') <= Len(available) /\ notifying' = notifying)
           \/ (Len(available') = Len(available) + 1 /\ notifying' = notifying + 1)
    PROVE  SleepersCovered'
  <1> SUFFICES ASSUME NEW d \in Clients, Sleeps(d)'
               PROVE  Len(available') <= notifying' + Cardinality(Covering(d)')
    BY Zenon DEF SleepersCovered
  <1>1. Covering(d)' = Covering(d) /\ Sleeps(d)
    BY Zenon DEF Covering, Sleeps
  <1>2. Len(available) <= notifying + Cardinality(Covering(d))
    BY <1>1, Zenon DEF WInv, SleepersCovered
  <1>3. Cardinality(Covering(d)) \in Nat /\ notifying \in Nat
        /\ Len(available) \in Nat /\ Len(available') \in Nat
    BY CoveringFinite, LenOfSeq, Zenon DEF WInv, TInv, IInv, TypeOK
  <1> HIDE DEF Covering
  <1> QED BY <1>1, <1>2, <1>3

(* A step of reserve(): a caller that stops covering the sleepers leaves   *)
(* one VM less, or has passed its wake-up on.                              *)
LEMMA ReserveStepCovered ==
    ASSUME WInv, CancelPoints \subseteq {"waiting"}, [Next]_vars, NEW c \in Clients,
           \/ ReserveEnable(c) \/ ReservePops(c) \/ ReserveFindsNone(c) \/ ReserveWakes(c)
           \/ ReserveCancelled(c)
    PROVE  SleepersCovered'
  <1> USE DEF poolVars, vmVars, taskVars, notifyVars
  <1> SUFFICES ASSUME NEW d \in Clients, Sleeps(d)'
               PROVE  Len(available') <= notifying' + Cardinality(Covering(d)')
    BY Zenon DEF SleepersCovered
  <1> DEFINE S == Covering(d)
             T == Covering(d)'
  <1>0. /\ TypeOK /\ WaitersListed /\ NotifyInOrder
        /\ rpc \in [Clients -> {"idle", "top", "locking", "waiting"}]
        /\ fut \in [Clients -> {"none", "waiting", "one", "done"}]
        /\ waiters \in Seq(Clients) /\ Len(available) \in Nat /\ notifying \in Nat
    BY LenOfSeq, Zenon DEF WInv, TInv, IInv, TypeOK
  <1>f. IsFiniteSet(S) /\ IsFiniteSet(T) /\ Cardinality(S) \in Nat /\ Cardinality(T) \in Nat
    <2>1. Covering(d)' \in SUBSET Clients
      BY Zenon DEF Covering
    <2> QED BY <2>1, CoveringFinite, ClientsAssumption, FS_Subset, FS_CardinalityType, Zenon
  <1>1. CASE ReserveEnable(c)
    <2>1. /\ rpc[c] \in {"idle", "top"} /\ rpc' = [rpc EXCEPT ![c] = "locking"] /\ Enable(c)
          /\ available' = available /\ notifying' = notifying
      BY <1>1, Zenon DEF ReserveEnable
    <2>2. fut[c] = "none" /\ c \notin Range(waiters) /\ d # c
      BY <1>0, <2>1, Zenon DEF NotifyInOrder, Sleeps
    <2>3. fut'[d] = fut[d] /\ rpc'[d] = rpc[d]
      BY <1>0, <2>1, <2>2, Zenon DEF Enable
    <2>4. Sleeps(d) /\ ~permit
      <3>1. Sleeps(d)
        BY Zenon, <2>3 DEF Sleeps
      <3>2. waiters # <<>>
        BY <1>0, <3>1 DEF Sleeps, WaitersListed, Range
      <3> QED BY <1>0, <3>1, <3>2, Zenon DEF NotifyInOrder
    <2>5. fut' = [fut EXCEPT ![c] = "waiting"] /\ waiters' = Append(waiters, c)
      BY <2>1, <2>4, Zenon DEF Enable
    <2>6. ASSUME NEW e \in Clients, Before(waiters', e, d)
          PROVE  Before(waiters, e, d) /\ e # c
      <3>1. Before(Append(waiters, c), e, d)
        BY <2>5, <2>6, Zenon
      <3> QED BY <1>0, <2>2, <3>1, AppendKeepsOrder
    <2>7. S \subseteq T
      BY <1>0, <2>1, <2>2, <2>5, <2>6, Zenon DEF Covering
    <2>8. Len(available) <= notifying + Cardinality(S)
      BY <2>4, Zenon DEF WInv, SleepersCovered
    <2>9. Cardinality(S) <= Cardinality(T)
      BY <1>f, <2>7, FS_Subset, Zenon
    <2> HIDE DEF S, T
    <2>10. Len(available') <= notifying' + Cardinality(T)
      BY <1>0, <1>f, <2>1, <2>8, <2>9
    <2> QED BY <2>10, Zenon DEF T
  <1>2. CASE ReservePops(c) \/ ReserveCancelled(c)
    <2>1. DropNotified(c) /\ rpc' = [rpc EXCEPT ![c] = "idle"] /\ notifying' = notifying
      BY <1>2, Zenon DEF ReservePops, ReserveCancelled
    <2>2. /\ fut'[c] = "none"
          /\ \A e \in Clients \ {c} : fut'[e] = fut[e] \/ (fut[e] = "waiting" /\ fut'[e] = "one")
          /\ \A e \in Clients : Before(waiters', e, d) => Before(waiters, e, d)
          /\ fut[c] = "one" =>
                \A x \in Clients : fut[x] = "waiting" /\ fut'[x] = "waiting" =>
                   \E h \in Clients : /\ Before(waiters, h, x)
                                      /\ fut'[h] = "one" /\ fut[h] = "waiting"
      BY <1>0, <2>1, DropNotifiedInOrder, Zenon
    <2>3. d # c /\ Sleeps(d)
      BY <1>0, <2>1, <2>2, Zenon DEF Sleeps
    <2>4. S \ {c} \subseteq T
      BY <1>0, <2>1, <2>2, Zenon DEF Covering
    <2>5. Len(available) <= notifying + Cardinality(S)
      BY <2>3, Zenon DEF WInv, SleepersCovered
    <2>6. CASE ReservePops(c)
      <3>1. Len(available') = Len(available) - 1
        <4>1. available \in Seq(VMs) /\ available # <<>> /\ available' = SubSeq(available, 1,
        Len(available) - 1)
          BY <2>6, Zenon DEF WInv, TInv, IInv, TypeOK, ReservePops, TakeTop
        <4> QED BY <4>1, PopProperties, Zenon
      <3>2. Cardinality(S) <= Cardinality(T) + 1
        BY <1>f, <2>4, Counting, Zenon
      <3> HIDE DEF S, T
      <3>3. Len(available') <= notifying' + Cardinality(T)
        BY <1>0, <1>f, <2>1, <2>5, <3>1, <3>2
      <3> QED BY <3>3, Zenon DEF T
    <2>7. CASE ReserveCancelled(c)
      <3>1. rpc[c] = "waiting" /\ fut[c] # "done" /\ available' = available
        BY Zenon, <2>7 DEF ReserveCancelled
      <3>2. Cardinality(S) <= Cardinality(T)
        <4>1. CASE fut[c] = "one"
          <5>1. PICK h \in Clients : /\ Before(waiters, h, d)
                                     /\ fut'[h] = "one" /\ fut[h] = "waiting"
            BY Zenon, <2>2, <2>3, <4>1 DEF Sleeps
          <5>2. rpc[h] # "top"
            BY <1>0, <5>1, Zenon DEF NotifyInOrder
          <5>3. h \in T /\ h \notin S
            <6>1. fut[h] # "one" /\ ~(rpc[h] = "locking" /\ ~Before(waiters, h, d))
              BY <5>1, Zenon
            <6> QED BY Zenon, <5>1, <5>2, <6>1 DEF Covering
          <5> QED BY Zenon, <1>f, <2>4, <5>3, Counting
        <4>2. CASE fut[c] # "one"
          <5>1. c \notin S
            BY <3>1, <4>2, Zenon DEF Covering
          <5>2. S \subseteq T
            BY <2>4, <5>1, Zenon
          <5> QED BY Zenon, <1>f, <5>2, FS_Subset
        <4> QED BY <4>1, <4>2, Zenon
      <3> HIDE DEF S, T
      <3>3. Len(available') <= notifying' + Cardinality(T)
        BY <1>0, <1>f, <2>1, <2>5, <3>1, <3>2
      <3> QED BY <3>3, Zenon DEF T
    <2> QED BY <1>2, <2>6, <2>7, Zenon
  <1>3. CASE ReserveFindsNone(c)
    <2>1. Len(available') = 0 /\ notifying' = notifying
      BY <1>3, Zenon DEF ReserveFindsNone
    <2> HIDE DEF T
    <2>2. Len(available') <= notifying' + Cardinality(T)
      BY <1>0, <1>f, <2>1
    <2> QED BY <2>2, Zenon DEF T
  <1>4. CASE ReserveWakes(c)
    <2>1. /\ fut' = [fut EXCEPT ![c] = "none"] /\ rpc' = [rpc EXCEPT ![c] = "top"]
          /\ UNCHANGED <<available, notifying, waiters>>
      BY <1>4, Zenon DEF ReserveWakes
    <2>2. Sleeps(d) /\ S \subseteq T
      BY <1>0, <2>1, Zenon DEF Sleeps, Covering
    <2>3. Len(available) <= notifying + Cardinality(S)
      BY <2>2, Zenon DEF WInv, SleepersCovered
    <2>4. Cardinality(S) <= Cardinality(T)
      BY <1>f, <2>2, FS_Subset, Zenon
    <2> HIDE DEF S, T
    <2>5. Len(available') <= notifying' + Cardinality(T)
      BY <1>0, <1>f, <2>1, <2>3, <2>4
    <2> QED BY <2>5, Zenon DEF T
  <1> QED BY <1>1, <1>2, <1>3, <1>4, Zenon

(* The drop task's notify_one: the wake-up it owed goes to the oldest      *)
(* waiter, which then covers every other sleeper.                          *)
LEMMA NotifyCovered ==
    ASSUME WInv, TaskNotifies
    PROVE  SleepersCovered'
  <1> USE DEF poolVars, vmVars, taskVars, notifyVars
  <1> SUFFICES ASSUME NEW d \in Clients, Sleeps(d)'
               PROVE  Len(available') <= notifying' + Cardinality(Covering(d)')
    BY Zenon DEF SleepersCovered
  <1> DEFINE S == Covering(d)
             T == Covering(d)'
  <1>0. /\ TypeOK /\ WaitersListed /\ NotifyInOrder
        /\ fut \in [Clients -> {"none", "waiting", "one", "done"}]
        /\ waiters \in Seq(Clients) /\ Len(available) \in Nat /\ notifying \in Nat
    BY LenOfSeq, Zenon DEF WInv, TInv, IInv, TypeOK
  <1>f. IsFiniteSet(S) /\ IsFiniteSet(T) /\ Cardinality(S) \in Nat /\ Cardinality(T) \in Nat
    <2>1. Covering(d)' \in SUBSET Clients
      BY Zenon DEF Covering
    <2> QED BY <2>1, CoveringFinite, ClientsAssumption, FS_Subset, FS_CardinalityType, Zenon
  <1>1. NotifyOne(fut) /\ rpc' = rpc /\ available' = available /\ notifying' = notifying - 1
    BY Zenon DEF TaskNotifies
  <1>2. /\ \A c \in Clients : \/ fut'[c] = fut[c]
                              \/ c = Head(waiters) /\ waiters # <<>> /\ fut'[c] = "one"
        /\ \A x, e \in Clients : Before(waiters', e, x) => Before(waiters, e, x)
        /\ \A x \in Range(waiters) : fut'[x] = "waiting" =>
              /\ Head(waiters) \in Clients /\ Before(waiters, Head(waiters), x)
              /\ fut'[Head(waiters)] = "one" /\ fut[Head(waiters)] = "waiting"
    BY Zenon, <1>0, <1>1, NotifyOneInOrder DEF NotifyInOrder
  <1>3. Sleeps(d)
    BY <1>1, <1>2, Zenon DEF Sleeps
  <1>4. d \in Range(waiters)
    BY <1>0, <1>3, Zenon DEF Sleeps, WaitersListed
  <1> DEFINE h == Head(waiters)
  <1>5. h \in Clients /\ Before(waiters, h, d) /\ fut'[h] = "one" /\ fut[h] = "waiting"
    BY <1>2, <1>4, Zenon DEF Sleeps
  <1>6. rpc[h] # "top"
    BY <1>0, <1>5, Zenon DEF NotifyInOrder
  <1> HIDE DEF h
  <1>7. h \in T /\ h \notin S /\ S \subseteq T
    BY <1>1, <1>2, <1>5, <1>6, Zenon DEF Covering
  <1>8. Cardinality(S) + 1 <= Cardinality(T)
    BY <1>f, <1>7, Counting, Zenon
  <1>9. Len(available) <= notifying + Cardinality(S)
    BY <1>3, Zenon DEF WInv, SleepersCovered
  <1> HIDE DEF S, T
  <1>10. Len(available') <= notifying' + Cardinality(T)
    BY <1>0, <1>f, <1>1, <1>8, <1>9
  <1> QED BY <1>10, Zenon DEF T

(* The pool VmPool::new starts from satisfies it.                          *)
LEMMA InitWInv == Init => WInv
  <1> SUFFICES ASSUME Init PROVE WInv
    BY Zenon
  <1>1. Range(waiters) = {} /\ NoDup(waiters)
    BY DEF Init, Range, NoDup
  <1>2. NotifyInOrder /\ SleepersCovered
    BY <1>1, Zenon DEF Init, NotifyInOrder, SleepersCovered, Sleeps
  <1> QED BY <1>2, InitTInv, Zenon DEF WInv

(* Every step keeps the sleepers covered, if no caller gives up on         *)
(* reserve() while it waits for the lock.                                  *)
LEMMA NextCovered ==
    ASSUME CancelPoints \subseteq {"waiting"}, WInv, [Next]_vars
    PROVE  SleepersCovered'
  <1> USE DEF poolVars, vmVars, taskVars, notifyVars
  <1>0. /\ TypeOK /\ TypeOK' /\ ReservingOpen
        /\ available' \in Seq(VMs) /\ available \in Seq(VMs) /\ notifying' \in Nat
    BY NextTypes, Zenon DEF WInv, TInv, IInv, TypeOK
  <1>1. ASSUME NEW c \in Clients,
               \/ ReserveEnable(c) \/ ReservePops(c) \/ ReserveFindsNone(c) \/ ReserveWakes(c)
               \/ ReserveCancelled(c)
        PROVE  SleepersCovered'
    BY <1>1, ReserveStepCovered, Zenon
  <1>2. CASE TaskNotifies
    BY <1>2, NotifyCovered, Zenon
  <1> SUFFICES ASSUME UNCHANGED <<fut, waiters, permit, rpc>>, ~TaskNotifies,
                      \A c \in Clients : ~(\/ ReserveEnable(c) \/ ReservePops(c)
                                           \/ ReserveFindsNone(c) \/ ReserveWakes(c)
                                           \/ ReserveCancelled(c))
               PROVE  SleepersCovered'
    BY Zenon, <1>1, <1>2, OtherSteps
  <1>3. CASE UNCHANGED <<available, notifying>>
    BY <1>0, <1>3, PoolStepCovered
  <1>4. ASSUME NEW v \in VMs, NewSpawns(v) PROVE SleepersCovered'
    BY <1>0, <1>4, Zenon DEF NewSpawns, ReservingOpen, SleepersCovered, Sleeps
  <1>5. CASE NewFails
    <2>1. Len(available') = 0 /\ notifying' = notifying /\ Len(available) \in Nat
      BY <1>0, <1>5 DEF NewFails
    <2> QED BY <1>0, <2>1, PoolStepCovered
  <1>6. ASSUME NEW c \in Clients, TryReserve(c) PROVE SleepersCovered'
    <2>1. available # <<>> /\ available' = SubSeq(available, 1,
    Len(available) - 1) /\ notifying' = notifying
      BY <1>6, Zenon DEF TryReserve, TakeTop
    <2>2. Len(available') = Len(available) - 1 /\ Len(available) \in Nat
      BY <1>0, <2>1, PopProperties, Zenon
    <2>3. Len(available') <= Len(available)
      BY <2>2
    <2> QED BY <1>0, <2>1, <2>3, PoolStepCovered, Zenon
  <1>7. ASSUME NEW v \in VMs, TaskPushes(v) PROVE SleepersCovered'
    <2>1. Len(available') = Len(available) + 1 /\ notifying' = notifying + 1
      BY <1>0, <1>7 DEF TaskPushes
    <2> QED BY <1>0, <2>1, PoolStepCovered, Zenon
  <1>8. CASE CleanupKills
    <2>1. available # <<>> /\ available' = Tail(available) /\ notifying' = notifying
      BY <1>8, Zenon DEF CleanupKills
    <2>2. Len(available') = Len(available) - 1 /\ Len(available) \in Nat
      BY <1>0, <2>1
    <2>3. Len(available') <= Len(available)
      BY <2>2
    <2> QED BY <1>0, <2>1, <2>3, PoolStepCovered, Zenon
  <1>9. ASSUME NEW v \in VMs, TaskKills(v) \/ TaskSpawns(v) \/ VmExits(v)
        PROVE  UNCHANGED <<available, notifying>>
    BY Zenon, <1>9 DEF TaskKills, TaskSpawns, VmExits
  <1>10. CASE NewReturns \/ TaskSpawnFails \/ DropSetsFlag \/ DropChecksCount \/ CleanupEnds
              \/ (\E c \in Clients : DropPooledVm(c)) \/ UNCHANGED vars
    BY Zenon, <1>3, <1>10 DEF NewReturns, TaskSpawnFails, DropSetsFlag, DropChecksCount,
       CleanupEnds,
                              DropPooledVm, vars
  <1> QED BY Zenon, <1>3, <1>4, <1>5, <1>6, <1>7, <1>8, <1>9, <1>10 DEF Next, NewStep, TaskStep

(* What covers a sleeper is awake.                                         *)
LEMMA CoveredImplies == TInv /\ SleepersCovered => WakeupsCoverVms
  <1> SUFFICES ASSUME TInv, SleepersCovered, NEW c \in Clients, Sleeps(c)
               PROVE  Len(available) <= notifying + Cardinality({d \in Clients : Awake(d)})
    BY Zenon DEF WakeupsCoverVms, Sleeps
  <1> DEFINE A == {d \in Clients : Awake(d)}
  <1>1. IsFiniteSet(A) /\ Cardinality(A) \in Nat
    BY ClientsAssumption, FS_Subset, FS_CardinalityType, Zenon
  <1>2. Covering(c) \subseteq A
    BY Zenon DEF Covering, Awake
  <1>3. Cardinality(Covering(c)) <= Cardinality(A) /\ Cardinality(Covering(c)) \in Nat
    BY <1>1, <1>2, CoveringFinite, FS_Subset, Zenon
  <1>4. Len(available) <= notifying + Cardinality(Covering(c))
    BY Zenon DEF SleepersCovered
  <1>5. Len(available) \in Nat /\ notifying \in Nat
    BY LenOfSeq, Zenon DEF TInv, IInv, TypeOK
  <1> HIDE DEF A
  <1>6. Len(available) <= notifying + Cardinality(A)
    BY <1>1, <1>3, <1>4, <1>5
  <1> QED BY <1>6, Zenon DEF A

(* pool/mod.rs:102,110-115: while a client sleeps in notified.await there  *)
(* is, for each VM in the pool, a notify_one to come or a client awake     *)
(* that will look; proved for callers that give up reserve() only while    *)
(* asleep.  (A caller that gives up while it waits for the lock breaks it: *)
(* see NoStrandedWaiter.)                                                  *)
THEOREM PoolWakeups ==
    ASSUME CancelPoints \subseteq {"waiting"}
    PROVE  Spec => []WakeupsCoverVms
  <1>1. WInv /\ [Next]_vars => WInv'
    BY NextTInv, NextInOrder, NextCovered, Zenon DEF WInv
  <1>2. WInv => WakeupsCoverVms
    BY CoveredImplies, Zenon DEF WInv
  <1> QED BY <1>1, <1>2, InitWInv, PTL DEF Spec
=============================================================================
