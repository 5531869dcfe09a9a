--------------------------- MODULE VirtioFsProofs ---------------------------
(***************************************************************************)
(* Proofs about VirtioFs, for any directory, names, flags and bounds: the  *)
(* inode table covers the references answered to the guest, a nodeid keeps *)
(* its path for ever, and a read-only share is not changed.                *)
(***************************************************************************)
EXTENDS VirtioFs, TLAPS

(* What holds of the inode table.  Numbers below next were given out once; *)
(* an entry of keys may be stale, its node forgotten.                      *)
Nodes == [path : Paths \cup {Root}, nlookup : Nat]
Table(t) ==
    /\ t = [nodes |-> t.nodes, keys |-> t.keys, next |-> t.next]
    /\ t.next \in Nat \ {0}
    /\ t.nodes \in [DOMAIN t.nodes -> Nodes]
    /\ DOMAIN t.nodes \subseteq 1 .. (t.next - 1)
    /\ t.keys \in [DOMAIN t.keys -> 1 .. (t.next - 1)]

(* From table t to table u: no number comes back and no path changes.      *)
Kept(t, u) ==
    \A n \in DOMAIN u.nodes : n < t.next => n \in DOMAIN t.nodes /\ u.nodes[n].path = t.nodes[n].path

(* The inductive invariant: the references the guest holds are of numbers  *)
(* that were given out, and the table covers them.                         *)
FsInv ==
    /\ Table(inodes)
    /\ refs \in [DOMAIN refs -> Nat] /\ DOMAIN refs \subseteq 1 .. (inodes.next - 1)
    /\ HeldCovered

-----------------------------------------------------------------------------
(* lookup_path (inode.rs): its result is 0 and changes nothing, is a node  *)
(* that is counted once more, a stale number, or a new one.                *)
LookupDoes(t, u, ino) ==
    /\ Table(u) /\ t.next <= u.next
    /\ ino \in 0 .. (u.next - 1)
    /\ ino = 0 => u = t
    /\ Kept(t, u)
    /\ \A n \in DOMAIN u.nodes \ {ino} : n < t.next /\ u.nodes[n].nlookup = t.nodes[n].nlookup
    /\ ino \in DOMAIN u.nodes =>
          IF ino < t.next THEN u.nodes[ino].nlookup = t.nodes[ino].nlookup + 1 ELSE u.nodes[ino].nlookup = 1

LEMMA LookupPathDoes ==
    ASSUME NEW t, Table(t), NEW h, NEW p
    PROVE  LookupDoes(t, LookupPath(t, h, p).t, LookupPath(t, h, p).ino)
  <1>1. /\ t.next \in Nat \ {0} /\ \A n \in DOMAIN t.nodes : n \in Nat \ {0} /\ n < t.next
        /\ \A n \in DOMAIN t.nodes : t.nodes[n].nlookup \in Nat
    BY DEF Table, Nodes
  <1>2. ASSUME NEW n \in 0 .. (t.next - 1), n \notin DOMAIN t.nodes
        PROVE  LookupDoes(t, t, n)
    BY <1>1, <1>2 DEF LookupDoes, Kept
  <1>3. ASSUME NEW n \in DOMAIN t.nodes PROVE LookupDoes(t, Counted(t, n), n)
    <2> DEFINE u == Counted(t, n)
    <2>1. u = [nodes |-> [t.nodes EXCEPT ![n].nlookup = @ + 1], keys |-> t.keys, next |-> t.next]
      BY DEF Counted, Table
    <2>2. /\ u.next = t.next /\ u.keys = t.keys /\ u = [nodes |-> u.nodes, keys |-> u.keys, next |-> u.next]
          /\ u.nodes = [t.nodes EXCEPT ![n].nlookup = @ + 1]
      BY <2>1
    <2> HIDE DEF u
    <2>3. /\ DOMAIN u.nodes = DOMAIN t.nodes
          /\ \A m \in DOMAIN t.nodes : m # n => u.nodes[m] = t.nodes[m]
          /\ u.nodes[n] = [t.nodes[n] EXCEPT !.nlookup = @ + 1]
      BY <2>2
    <2>4. /\ u.nodes \in [DOMAIN u.nodes -> Nodes]
          /\ u.nodes[n].path = t.nodes[n].path /\ u.nodes[n].nlookup = t.nodes[n].nlookup + 1
      BY <2>2, <2>3 DEF Table, Nodes
    <2>5. Table(u)
      BY <2>2, <2>3, <2>4 DEF Table
    <2>6. Kept(t, u)
      BY Zenon, <2>3, <2>4 DEF Kept
    <2>7. /\ n \in 0 .. (u.next - 1) /\ n # 0 /\ n < t.next /\ t.next <= u.next
          /\ \A m \in DOMAIN u.nodes : m < t.next
      BY <1>1, <2>2, <2>3
    <2> QED BY Zenon, <2>3, <2>4, <2>5, <2>6, <2>7 DEF LookupDoes, u
  <1>4. ASSUME NEW k, p \in Paths \cup {Root} PROVE LookupDoes(t, NewNode(t, k, p).t, NewNode(t, k, p).ino)
    <2> DEFINE e == [path |-> p, nlookup |-> 1]
               u == [nodes |-> Put(t.nodes, t.next, e), keys |-> Put(t.keys, k, t.next), next |-> t.next + 1]
    <2>1. NewNode(t, k, p).t = u /\ NewNode(t, k, p).ino = t.next
      BY DEF NewNode
    <2>2. /\ u.next = t.next + 1 /\ u = [nodes |-> u.nodes, keys |-> u.keys, next |-> u.next]
          /\ u.nodes = Put(t.nodes, t.next, e) /\ u.keys = Put(t.keys, k, t.next)
          /\ e \in Nodes /\ e.nlookup = 1
      BY <1>4 DEF Nodes
    <2> HIDE DEF u, e
    <2>3. /\ DOMAIN u.nodes = DOMAIN t.nodes \cup {t.next} /\ u.nodes[t.next] = e
          /\ \A m \in DOMAIN t.nodes : m # t.next => u.nodes[m] = t.nodes[m]
      BY <2>2 DEF Put
    <2>4. /\ u.nodes \in [DOMAIN u.nodes -> Nodes]
          /\ u.keys \in [DOMAIN u.keys -> 1 .. (u.next - 1)]
      BY <1>1, <2>2 DEF Table, Put
    <2>5. Table(u)
      BY <1>1, <2>2, <2>3, <2>4 DEF Table
    <2>6. Kept(t, u)
      BY <1>1, <2>3 DEF Kept
    <2>7. LookupDoes(t, u, t.next)
      BY <1>1, <2>2, <2>3, <2>5, <2>6 DEF LookupDoes
    <2> QED BY <2>1, <2>7
  <1>5. 0 \in 0 .. (t.next - 1) /\ 0 \notin DOMAIN t.nodes
    BY DEF Table
  <1>6. \A k \in DOMAIN t.keys : t.keys[k] \in 0 .. (t.next - 1)
    BY DEF Table
  <1>7. Exists(h, p) => p \in Paths \cup {Root}
    BY DEF Exists, KindAt
  <1> QED BY <1>2, <1>3, <1>4, <1>5, <1>6, <1>7 DEF LookupPath, Found

(* An answer gives the guest the reference that lookup counted, or none.   *)
LEMMA Answered ==
    ASSUME FsInv, NEW ino, LookupDoes(inodes, inodes', ino), EntryOut(ino) \/ EntryOut(0)
    PROVE  FsInv' /\ Kept(inodes, inodes')
  <1> DEFINE t == inodes
             u == inodes'
  <1>1. /\ t.next \in Nat \ {0} /\ u.next \in Nat \ {0} /\ t.next <= u.next /\ ino \in 0 .. (u.next - 1)
        /\ \A n \in DOMAIN t.nodes : t.nodes[n].nlookup \in Nat
        /\ \A n \in DOMAIN u.nodes : n \in Nat \ {0}
    BY DEF FsInv, Table, Nodes, LookupDoes
  <1>2. /\ \A n \in DOMAIN refs : refs[n] \in Nat /\ n \in Nat \ {0} /\ n < t.next
        /\ \A n \in DOMAIN refs \cap DOMAIN t.nodes : t.nodes[n].nlookup >= refs[n]
    BY <1>1 DEF FsInv, HeldCovered
  <1>3. /\ \A n \in DOMAIN u.nodes \ {ino} : /\ n < t.next /\ n \in DOMAIN t.nodes
                                              /\ u.nodes[n].nlookup = t.nodes[n].nlookup
        /\ ino \in DOMAIN u.nodes => IF ino < t.next
                                     THEN ino \in DOMAIN t.nodes /\ u.nodes[ino].nlookup = t.nodes[ino].nlookup + 1
                                     ELSE u.nodes[ino].nlookup = 1
    BY DEF LookupDoes, Kept
  <1>4. /\ refs' \in [DOMAIN refs' -> Nat] /\ DOMAIN refs' \subseteq DOMAIN refs \cup {ino}
        /\ DOMAIN refs' \subseteq 1 .. (u.next - 1)
        /\ \A n \in DOMAIN refs' : IF n \in DOMAIN refs THEN /\ n # ino => refs'[n] = refs[n]
                                                           /\ refs'[n] \in {refs[n], refs[n] + 1}
                                   ELSE n = ino /\ refs'[n] = 1
    BY <1>1, <1>2 DEF EntryOut, Put, FsInv
  <1>5. HeldCovered'
    BY <1>1, <1>2, <1>3, <1>4 DEF HeldCovered
  <1> QED BY <1>4, <1>5 DEF FsInv, LookupDoes

(* Removing: numbers are dropped and none is added.                        *)
Shrinks(t, u) ==
    /\ Table(u) /\ u.next = t.next /\ DOMAIN u.nodes \subseteq DOMAIN t.nodes
    /\ \A n \in DOMAIN u.nodes : u.nodes[n].path = t.nodes[n].path

LEMMA RemoveDoes ==
    ASSUME NEW t, Table(t), NEW h, NEW p
    PROVE  /\ Shrinks(t, RemoveByPath(t, h, p))
           /\ \A n \in DOMAIN RemoveByPath(t, h, p).nodes : RemoveByPath(t, h, p).nodes[n] = t.nodes[n]
  <1> DEFINE u == RemoveByPath(t, h, p)
             k == h.at[p]
             n == t.keys[k]
  <1>1. CASE Exists(h, p) /\ p # Root /\ h.at[p] \in DOMAIN t.keys
    <2>1. u = [t EXCEPT !.nodes = Drop(@, n), !.keys = Drop(@, k)]
      BY Zenon, <1>1 DEF RemoveByPath
    <2> HIDE DEF u, k, n
    <2>2. u = [nodes |-> Drop(t.nodes, n), keys |-> Drop(t.keys, k), next |-> t.next]
      BY Zenon, <2>1 DEF Table
    <2>3. /\ u.next = t.next /\ u = [nodes |-> u.nodes, keys |-> u.keys, next |-> u.next]
          /\ u.nodes = Drop(t.nodes, n) /\ u.keys = Drop(t.keys, k)
      BY <2>2
    <2>4. /\ DOMAIN u.nodes = DOMAIN t.nodes \ {n} /\ \A m \in DOMAIN u.nodes : u.nodes[m] = t.nodes[m]
          /\ u.nodes \in [DOMAIN u.nodes -> Nodes] /\ u.keys \in [DOMAIN u.keys -> 1 .. (u.next - 1)]
      BY <2>3 DEF Drop, Table
    <2>5. Shrinks(t, u)
      BY <2>3, <2>4 DEF Shrinks, Table
    <2> QED BY Zenon, <2>4, <2>5 DEF u
  <1>2. CASE ~(Exists(h, p) /\ p # Root /\ h.at[p] \in DOMAIN t.keys)
    <2>1. u = t
      BY Zenon, <1>2 DEF RemoveByPath
    <2> HIDE DEF u
    <2>2. Shrinks(t, u)
      BY <2>1 DEF Shrinks
    <2> QED BY Zenon, <2>1, <2>2 DEF u
  <1> QED BY Zenon, <1>1, <1>2

LEMMA ForgetDoes ==
    ASSUME NEW t, Table(t), NEW h, NEW n, NEW count \in Nat
    PROVE  /\ Shrinks(t, Forget(t, h, n, count))
           /\ \A m \in DOMAIN Forget(t, h, n, count).nodes :
                 \/ Forget(t, h, n, count).nodes[m] = t.nodes[m] /\ (m # n \/ m = ROOT_INODE)
                 \/ m = n /\ Forget(t, h, n, count).nodes[m].nlookup = t.nodes[m].nlookup - count
  <1>1. CASE n = ROOT_INODE \/ n \notin DOMAIN t.nodes
    BY <1>1 DEF Forget, Shrinks
  <1>2. CASE n # ROOT_INODE /\ n \in DOMAIN t.nodes /\ t.nodes[n].nlookup > count
    <2> DEFINE u == Forget(t, h, n, count)
    <2>1. t.nodes[n].nlookup \in Nat /\ t.nodes[n].nlookup - count \in Nat \ {0}
      BY <1>2 DEF Table, Nodes
    <2>2. u = [nodes |-> [t.nodes EXCEPT ![n].nlookup = t.nodes[n].nlookup - count], keys |-> t.keys, next |-> t.next]
      BY <1>2, <2>1 DEF Forget, Table
    <2>3. /\ u.next = t.next /\ u.keys = t.keys /\ u = [nodes |-> u.nodes, keys |-> u.keys, next |-> u.next]
          /\ u.nodes = [t.nodes EXCEPT ![n].nlookup = t.nodes[n].nlookup - count]
      BY <2>2
    <2> HIDE DEF u
    <2>4. /\ DOMAIN u.nodes = DOMAIN t.nodes
          /\ \A m \in DOMAIN t.nodes : m # n => u.nodes[m] = t.nodes[m]
          /\ u.nodes \in [DOMAIN u.nodes -> Nodes]
          /\ u.nodes[n].path = t.nodes[n].path /\ u.nodes[n].nlookup = t.nodes[n].nlookup - count
      BY <1>2, <2>1, <2>3 DEF Table, Nodes
    <2>5. Shrinks(t, u)
      BY <2>3, <2>4 DEF Shrinks, Table
    <2> QED BY <2>4, <2>5 DEF u
  <1>3. CASE n # ROOT_INODE /\ n \in DOMAIN t.nodes /\ ~(t.nodes[n].nlookup > count)
    <2> DEFINE u == Forget(t, h, n, count)
    <2>1. PICK ks : /\ u = [nodes |-> Drop(t.nodes, n), keys |-> ks, next |-> t.next]
                    /\ ks \in [DOMAIN ks -> 1 .. (t.next - 1)]
      <3>1. u = [DropKeyAt(t, h, t.nodes[n].path) EXCEPT !.nodes = Drop(@, n)]
        BY <1>3 DEF Forget
      <3>2. PICK ks : /\ DropKeyAt(t, h, t.nodes[n].path) = [nodes |-> t.nodes, keys |-> ks, next |-> t.next]
                      /\ ks \in [DOMAIN ks -> 1 .. (t.next - 1)]
        <4>1. CASE Exists(h, t.nodes[n].path) /\ t.nodes[n].path # Root
          <5>1. Drop(t.keys, h.at[t.nodes[n].path]) \in [DOMAIN Drop(t.keys, h.at[t.nodes[n].path]) -> 1 .. (t.next - 1)]
            BY DEF Drop, Table
          <5> QED BY Zenon, <4>1, <5>1 DEF DropKeyAt, Table
        <4>2. CASE ~(Exists(h, t.nodes[n].path) /\ t.nodes[n].path # Root)
          BY Zenon, <4>2 DEF DropKeyAt, Table
        <4> QED BY Zenon, <4>1, <4>2
      <3> QED BY <3>1, <3>2
    <2>2. /\ u.next = t.next /\ u = [nodes |-> u.nodes, keys |-> u.keys, next |-> u.next]
          /\ u.nodes = Drop(t.nodes, n) /\ u.keys \in [DOMAIN u.keys -> 1 .. (u.next - 1)]
      BY <2>1
    <2> HIDE DEF u
    <2>3. /\ DOMAIN u.nodes = DOMAIN t.nodes \ {n} /\ \A m \in DOMAIN u.nodes : u.nodes[m] = t.nodes[m]
          /\ u.nodes \in [DOMAIN u.nodes -> Nodes]
      BY <2>2 DEF Drop, Table
    <2>4. Shrinks(t, u)
      BY <2>2, <2>3 DEF Shrinks, Table
    <2> QED BY <2>3, <2>4 DEF u
  <1> QED BY <1>1, <1>2, <1>3

LEMMA Removed ==
    ASSUME FsInv, UNCHANGED refs, NEW h, NEW p, inodes' = RemoveByPath(inodes, h, p)
    PROVE  FsInv' /\ Kept(inodes, inodes')
  <1> DEFINE u == RemoveByPath(inodes, h, p)
  <1>0. Table(inodes) /\ Shrinks(inodes, u) /\ \A n \in DOMAIN u.nodes : u.nodes[n] = inodes.nodes[n]
    BY RemoveDoes DEF FsInv
  <1> HIDE DEF u
  <1>1. /\ inodes' = u
        /\ Shrinks(inodes, inodes') /\ \A n \in DOMAIN inodes'.nodes : inodes'.nodes[n] = inodes.nodes[n]
    BY <1>0 DEF u
  <1>2. Table(inodes)' /\ Kept(inodes, inodes')
    BY <1>0, <1>1 DEF Shrinks, Table, Kept
  <1> QED BY <1>0, <1>1, <1>2 DEF FsInv, Shrinks, HeldCovered

-----------------------------------------------------------------------------
(* The requests that change the inode table.                               *)
LEMMA CreateKeeps ==
    ASSUME FsInv, NEW parent, NEW name, NEW trunc, HandleCreate(parent, name, trunc)
    PROVE  FsInv' /\ Kept(inodes, inodes')
  <1>1. PICK p \in Paths :
          LET r == LookupPath(inodes, host, p) IN
          \/ r.ino # 0 /\ OpenCreated(host, r, p, trunc)
          \/ /\ r.ino = 0 /\ IsFile(host, p)
             /\ OpenCreated(Change(host, p), LookupPath(r.t, Change(host, p), p), p, trunc)
          \/ /\ r.ino = 0 /\ CanAdd(host, p)
             /\ \E k \in Free : LET made == Add(host, p, k, "file") IN
                    OpenCreated(made, LookupPath(r.t, made, p), p, trunc)
    BY DEF HandleCreate
  <1> DEFINE r == LookupPath(inodes, host, p)
  <1>2. Table(inodes)
    BY DEF FsInv
  <1>3. LookupDoes(inodes, r.t, r.ino)
    BY Zenon, <1>2, LookupPathDoes
  <1>4. r.ino = 0 => r.t = inodes
    BY Zenon, <1>3 DEF LookupDoes
  <1>5. \E made : OpenCreated(made, LookupPath(inodes, host, p), p, trunc)
                 \/ OpenCreated(made, LookupPath(inodes, made, p), p, trunc)
    BY Zenon, <1>1, <1>4
  <1>6. PICK made, s : /\ OpenCreated(made, s, p, trunc)
                       /\ s = LookupPath(inodes, host, p) \/ s = LookupPath(inodes, made, p)
    BY Zenon, <1>5
  <1>7. LookupDoes(inodes, s.t, s.ino)
    BY Zenon, <1>2, <1>6, LookupPathDoes
  <1>8. inodes' = s.t /\ (EntryOut(s.ino) \/ EntryOut(0))
    BY Zenon, <1>6 DEF OpenCreated
  <1> QED BY Zenon, <1>7, <1>8, Answered

LEMMA ForgetKeeps ==
    ASSUME FsInv, NEW n \in DOMAIN refs, NEW count \in 1 .. refs[n], HandleForget(n, count)
    PROVE  FsInv' /\ Kept(inodes, inodes')
  <1> DEFINE u == Forget(inodes, host, n, count)
  <1>1. Table(inodes) /\ count \in Nat /\ inodes' = u
    BY DEF FsInv, HandleForget
  <1>2. /\ Shrinks(inodes, u)
        /\ \A m \in DOMAIN u.nodes : \/ u.nodes[m] = inodes.nodes[m] /\ (m # n \/ m = ROOT_INODE)
                                     \/ m = n /\ u.nodes[m].nlookup = inodes.nodes[m].nlookup - count
    BY <1>1, ForgetDoes
  <1> HIDE DEF u
  <1>3. /\ \A m \in DOMAIN inodes.nodes : inodes.nodes[m].nlookup \in Nat
        /\ \A m \in DOMAIN refs : refs[m] \in Nat
    BY <1>1 DEF FsInv, Table, Nodes
  <1>4. /\ refs' \in [DOMAIN refs' -> Nat] /\ DOMAIN refs' \subseteq DOMAIN refs
        /\ \A m \in DOMAIN refs' : refs'[m] = IF m = n THEN refs[m] - count ELSE refs[m]
    BY <1>3 DEF HandleForget, Drop, FsInv
  <1>5. Table(inodes)' /\ Kept(inodes, inodes')
    BY <1>1, <1>2 DEF Shrinks, Table, Kept
  <1>6. HeldCovered'
    BY <1>1, <1>2, <1>3, <1>4 DEF HeldCovered, Shrinks, FsInv
  <1> QED BY <1>1, <1>2, <1>4, <1>5, <1>6 DEF FsInv, Shrinks

LEMMA RequestKeeps ==
    ASSUME FsInv, Request
    PROVE  FsInv' /\ Kept(inodes, inodes')
  <1>1. Table(inodes)
    BY DEF FsInv
  <1>2. ASSUME UNCHANGED <<inodes, refs>> PROVE FsInv' /\ Kept(inodes, inodes')
    BY <1>1, <1>2 DEF FsInv, HeldCovered, Table, Kept
  <1>3. ASSUME NEW p, NEW h, inodes' = LookupPath(inodes, h, p).t,
               EntryOut(LookupPath(inodes, h, p).ino) \/ EntryOut(0)
        PROVE  FsInv' /\ Kept(inodes, inodes')
    BY Zenon, <1>1, <1>3, LookupPathDoes, Answered
  <1>4. ASSUME NEW n, NEW name, HandleLookup(n, name) PROVE FsInv' /\ Kept(inodes, inodes')
    <2>1. /\ inodes' = Lookup(inodes, host, n, name).t
          /\ EntryOut(Lookup(inodes, host, n, name).ino) \/ EntryOut(0)
      BY Zenon, <1>4 DEF HandleLookup
    <2>2. CASE n \in DOMAIN inodes.nodes
      BY Zenon, <1>3, <2>1, <2>2 DEF Lookup
    <2>3. CASE n \notin DOMAIN inodes.nodes
      <3>1. inodes' = inodes /\ refs' = refs
        BY <2>1, <2>3 DEF Lookup, EntryOut
      <3> QED BY <1>2, <3>1
    <2> QED BY Zenon, <2>2, <2>3
  <1>5. ASSUME NEW n, NEW name, HandleMkdir(n, name) PROVE FsInv' /\ Kept(inodes, inodes')
    BY Zenon, <1>3, <1>5 DEF HandleMkdir
  <1>6. ASSUME NEW op, NEW n, NEW name, HandleRemove(op, n, name) PROVE FsInv' /\ Kept(inodes, inodes')
    BY Zenon, <1>6, Removed DEF HandleRemove, guestVars
  <1>7. ASSUME NEW n, NEW name, NEW m, NEW other, HandleRename(n, name, m, other)
        PROVE  FsInv' /\ Kept(inodes, inodes')
    BY Zenon, <1>7, Removed DEF HandleRename, guestVars
  <1>8. ASSUME NEW m, NEW n, NEW name, HandleLink(m, n, name) PROVE FsInv' /\ Kept(inodes, inodes')
    BY Zenon, <1>3, <1>8 DEF HandleLink
  <1>9. ASSUME NEW n, \/ HandleSetattr(n) \/ HandleOpendir(n) \/ (\E flags \in OpenFlags : HandleOpen(n, flags))
                     \/ HandleWrite(n) \/ HandleRelease(n) \/ (\E size \in 1 .. MaxPage : HandleReaddir(n, size))
        PROVE  FsInv' /\ Kept(inodes, inodes')
    BY <1>2, <1>9 DEF HandleSetattr, HandleOpendir, HandleOpen, HandleWrite, HandleRelease, HandleReaddir, guestVars
  <1> QED BY Zenon, <1>4, <1>5, <1>6, <1>7, <1>8, <1>9, CreateKeeps, ForgetKeeps DEF Request

LEMMA NextKeeps ==
    ASSUME FsInv, [Next]_vars
    PROVE  FsInv' /\ Kept(inodes, inodes')
  <1>1. CASE UNCHANGED <<inodes, refs>>
    BY <1>1 DEF FsInv, HeldCovered, Table, Kept
  <1>2. CASE UNCHANGED inodes /\ GuestLosesAll
    BY <1>2 DEF FsInv, HeldCovered, Table, Kept, GuestLosesAll
  <1>3. (HandleQueueReady \/ HandleInit \/ HostChanges \/ UNCHANGED vars) => UNCHANGED <<inodes, refs>>
    BY DEF HandleQueueReady, HandleInit, HostChanges, vars, device, guestVars
  <1>4. (HandleDestroy \/ Reset) => UNCHANGED inodes /\ GuestLosesAll
    BY Zenon DEF HandleDestroy, Reset
  <1> QED BY Zenon, <1>1, <1>2, <1>3, <1>4, RequestKeeps DEF Next

LEMMA InitFsInv == Init => FsInv
  BY DEF Init, FsInv, NewInodes, Table, Nodes, HeldCovered, ROOT_INODE

(* The count kept for a node covers what the guest was answered, whatever  *)
(* else the guest and the host did: HeldCovered.                           *)
THEOREM FsHeldCovered == Spec => []HeldCovered
  <1>1. FsInv => HeldCovered
    BY DEF FsInv
  <1> QED BY <1>1, InitFsInv, NextKeeps, PTL DEF Spec

(* A nodeid keeps its path for as long as the device lives: NodesStable.   *)
THEOREM FsNodesStable == Spec => NodesStable
  <1>1. FsInv /\ [Next]_vars => [\A n \in DOMAIN inodes'.nodes : n < inodes.next =>
          n \in DOMAIN inodes.nodes /\ inodes'.nodes[n].path = inodes.nodes[n].path]_vars
    BY Zenon, NextKeeps DEF Kept
  <1> QED BY <1>1, InitFsInv, NextKeeps, PTL DEF Spec, NodesStable

-----------------------------------------------------------------------------
(* The host directory keeps its shape, which says that the inode at a path *)
(* is one of the inodes whose contents Settled keeps.                      *)
Directories == [at : [Paths -> HostInos \cup {NoFile}], kind : [HostInos -> {"free", "file", "dir"}],
                data : [HostInos -> {0, 1}]]
HostInv == host \in Directories /\ hleft \in Nat

LEMMA SettledKeeps ==
    ASSUME NEW h \in Directories, NEW hs
    PROVE  /\ Settled(h, hs) \in Directories /\ Settled(h, hs).at = h.at
           /\ \A p \in Paths : h.at[p] # NoFile => Settled(h, hs).data[h.at[p]] = h.data[h.at[p]]
  <1>1. h = [at |-> h.at, kind |-> h.kind, data |-> h.data]
        /\ h.at \in [Paths -> HostInos \cup {NoFile}] /\ h.kind \in [HostInos -> {"free", "file", "dir"}]
        /\ h.data \in [HostInos -> {0, 1}]
    BY DEF Directories
  <1> DEFINE K == [k \in HostInos |-> IF k \in Used(h, hs) THEN h.kind[k] ELSE "free"]
             D == [k \in HostInos |-> IF k \in Used(h, hs) THEN h.data[k] ELSE 0]
  <1>2. Settled(h, hs) = [h EXCEPT !.kind = K, !.data = D]
    BY Zenon DEF Settled
  <1>3. K \in [HostInos -> {"free", "file", "dir"}] /\ D \in [HostInos -> {0, 1}]
    BY <1>1
  <1>4. \A p \in Paths : h.at[p] # NoFile => h.at[p] \in HostInos /\ h.at[p] \in Used(h, hs)
    BY <1>1 DEF Used
  <1>5. \A p \in Paths : h.at[p] # NoFile => D[h.at[p]] = h.data[h.at[p]]
    BY <1>4
  <1> HIDE DEF K, D
  <1>6. Settled(h, hs) = [at |-> h.at, kind |-> K, data |-> D]
    BY Zenon, <1>1, <1>2 DEF Directories
  <1> QED BY <1>1, <1>3, <1>5, <1>6 DEF Directories

LEMMA ChangesKeep ==
    ASSUME NEW h \in Directories
    PROVE  /\ \A p : Change(h, p) \in Directories
           /\ \A p : \A k \in HostInos, kind \in {"file", "dir"} : Add(h, p, k, kind) \in Directories
           /\ \A p : \A x \in HostInos \cup {NoFile} : [h EXCEPT !.at[p] = x] \in Directories
           /\ \A hs, fh : WriteFile(h, hs, fh) \in Directories
           /\ \A p, q : SetName(h, p, q) \in Directories
  <1>1. \A p : Change(h, p) \in Directories
    BY DEF Change, Directories
  <1>2. ASSUME NEW p, NEW k \in HostInos, NEW kind \in {"file", "dir"} PROVE Add(h, p, k, kind) \in Directories
    BY Zenon DEF Add, Directories
  <1>3. ASSUME NEW p, NEW x \in HostInos \cup {NoFile} PROVE [h EXCEPT !.at[p] = x] \in Directories
    BY DEF Directories
  <1>4. \A hs, fh : WriteFile(h, hs, fh) \in Directories
    BY DEF WriteFile, Directories
  <1>5. ASSUME NEW p, NEW q PROVE SetName(h, p, q) \in Directories
    <2> DEFINE A == [r \in Paths |->
                       IF Within(q, r) /\ Moved(q, p, r) \in Paths THEN h.at[Moved(q, p, r)]
                       ELSE IF Within(p, r) \/ Within(q, r) THEN NoFile ELSE h.at[r]]
    <2>1. A \in [Paths -> HostInos \cup {NoFile}]
      BY DEF Directories
    <2>2. SetName(h, p, q) = h \/ SetName(h, p, q) = [h EXCEPT !.at = A]
      BY Zenon DEF SetName
    <2> HIDE DEF A
    <2> QED BY <2>1, <2>2 DEF Directories
  <1> QED BY Zenon, <1>1, <1>2, <1>3, <1>4, <1>5

LEMMA HostKeeps ==
    ASSUME HostInv, [Next]_vars
    PROVE  HostInv'
  <1>1. host \in Directories /\ Free \subseteq HostInos
    BY DEF HostInv, Free
  <1>2. \A h \in Directories : \A hs : Settled(h, hs) \in Directories
    BY Zenon, SettledKeeps
  <1>3. ASSUME NEW made \in Directories, NEW r, NEW p, NEW trunc, OpenCreated(made, r, p, trunc)
        PROVE  host' \in Directories
    BY Zenon, <1>2, <1>3, ChangesKeep DEF OpenCreated, Directory
  <1>4. ASSUME NEW parent, NEW name, NEW trunc, HandleCreate(parent, name, trunc) PROVE host' \in Directories
    BY Zenon, <1>1, <1>3, <1>4, ChangesKeep DEF HandleCreate
  <1>5. ASSUME NEW n, NEW name, HandleMkdir(n, name) PROVE host' \in Directories
    BY Zenon, <1>1, <1>5, ChangesKeep DEF HandleMkdir
  <1>6. ASSUME NEW op, NEW n, NEW name, HandleRemove(op, n, name) PROVE host' \in Directories
    BY Zenon, <1>1, <1>2, <1>6, ChangesKeep DEF HandleRemove, Directory
  <1>7. ASSUME NEW n, NEW name, NEW m, NEW other, HandleRename(n, name, m, other) PROVE host' \in Directories
    BY Zenon, <1>1, <1>2, <1>7, ChangesKeep DEF HandleRename, Directory
  <1>8. ASSUME NEW m, NEW n, NEW name, HandleLink(m, n, name) PROVE host' \in Directories
    <2>1. \A old \in Paths : host.at[old] \in HostInos \cup {NoFile}
      BY <1>1 DEF Directories
    <2>2. PICK old, p \in Paths : host' = [host EXCEPT !.at[p] = host.at[old]]
      BY Zenon, <1>8 DEF HandleLink
    <2> QED BY <1>1, <2>1, <2>2, ChangesKeep
  <1>9. ASSUME NEW n, \/ HandleSetattr(n) \/ HandleOpendir(n) \/ (\E flags \in OpenFlags : HandleOpen(n, flags))
                     \/ HandleWrite(n) \/ HandleRelease(n) \/ (\E size \in 1 .. MaxPage : HandleReaddir(n, size))
        PROVE  host' \in Directories
    BY Zenon, <1>1, <1>2, <1>9, ChangesKeep
       DEF HandleSetattr, HandleOpendir, HandleOpen, HandleWrite, HandleRelease, HandleReaddir, Directory
  <1>10. ASSUME HostChanges PROVE host' \in Directories
    BY Zenon, <1>1, <1>2, <1>10, ChangesKeep DEF HostChanges, Directory
  <1>11. ASSUME \/ HandleQueueReady \/ HandleInit \/ HandleDestroy \/ Reset \/ UNCHANGED vars
                \/ (\E n, count : HandleForget(n, count)) \/ (\E n, name : HandleLookup(n, name))
         PROVE  host' = host
    BY Zenon, <1>11 DEF HandleQueueReady, HandleInit, HandleDestroy, Reset, vars, HandleForget, HandleLookup
  <1>12. host' \in Directories
    BY Zenon, <1>1, <1>4, <1>5, <1>6, <1>7, <1>8, <1>9, <1>10, <1>11 DEF Next, Request
  <1>13. hleft' = hleft \/ (hleft > 0 /\ hleft' = hleft - 1)
    BY DEF Next, Request, HandleQueueReady, HandleInit, HandleDestroy, Reset, HostChanges, vars, HandleForget, HandleLookup,
           HandleFuseRequest, HandleSetattr, HandleOpendir, HandleOpen, HandleWrite, HandleRelease, HandleReaddir,
           HandleCreate, HandleMkdir, HandleRemove, HandleRename, HandleLink
  <1> QED BY <1>12, <1>13 DEF HostInv

(* What a step of a read-only share may do to the directory.               *)
Untouched ==
    /\ host'.at = host.at
    /\ \A p \in Paths : host.at[p] # NoFile => host'.data[host.at[p]] = host.data[host.at[p]]

LEMMA ReadOnlyStep ==
    ASSUME HostInv, [Next]_vars, read_only, hleft' = hleft
    PROVE  Untouched
  <1>1. host' = host => Untouched
    BY Zenon DEF Untouched
  <1>2. ASSUME NEW op \in RequiresWriteAccess, HandleFuseRequest(op) PROVE FALSE
    BY Zenon, <1>2 DEF HandleFuseRequest
  <1>3. ~HostChanges
    BY DEF HostChanges, HostInv
  <1>4. ASSUME NEW n, NEW flags, HandleOpen(n, flags) PROVE host' = host
    <2>1. PICK p : host' = IF /\ OpenFile(handles, host, p, flags, n, read_only).fh # 0
                              /\ "trunc" \in flags THEN Change(host, p) ELSE host
      BY Zenon, <1>4 DEF HandleOpen
    <2>2. "trunc" \in flags => OpenFile(handles, host, p, flags, n, read_only) = Refused(handles)
      BY Zenon DEF OpenFile, OpensFile
    <2>3. Refused(handles).fh = 0
      BY DEF Refused
    <2> QED BY Zenon, <2>1, <2>2, <2>3
  <1>5. ASSUME NEW fh, HandleRelease(fh) PROVE Untouched
    BY Zenon, <1>5, SettledKeeps DEF HandleRelease, Directory, HostInv, Untouched
  <1>6. /\ \A n, name : ~HandleMkdir(n, name) /\ ~HandleRemove("unlink", n, name) /\ ~HandleRemove("rmdir", n, name)
        /\ \A n, name, trunc : ~HandleCreate(n, name, trunc)
        /\ \A n, name, m, other : ~HandleRename(n, name, m, other)
        /\ \A m, n, name : ~HandleLink(m, n, name)
        /\ \A n : ~HandleSetattr(n) /\ ~HandleWrite(n)
    BY <1>2 DEF HandleMkdir, HandleCreate, HandleRemove, HandleRename, HandleLink, HandleSetattr, HandleWrite,
                RequiresWriteAccess
  <1>7. ASSUME \/ HandleQueueReady \/ HandleInit \/ HandleDestroy \/ Reset \/ UNCHANGED vars
               \/ (\E n, count : HandleForget(n, count)) \/ (\E n, name : HandleLookup(n, name))
               \/ (\E n : HandleOpendir(n)) \/ (\E fh, size : HandleReaddir(fh, size))
        PROVE  host' = host
    BY Zenon, <1>7 DEF HandleQueueReady, HandleInit, HandleDestroy, Reset, vars, HandleForget, HandleLookup,
                       HandleOpendir, HandleReaddir
  <1> QED BY Zenon, <1>1, <1>3, <1>4, <1>5, <1>6, <1>7 DEF Next, Request

(* No request through a read-only share changes a name or a file, whatever *)
(* handles are open on it: ReadOnlyKept.                                   *)
THEOREM FsReadOnlyKept == Spec => ReadOnlyKept
  <1>1. Init => HostInv
    BY FsAssumption, FuseAssumption DEF Init, HostInv, Directories
  <1>2. HostInv /\ [Next]_vars => HostInv'
    BY HostKeeps
  <1>3. HostInv /\ [Next]_vars => [read_only /\ hleft' = hleft =>
          host'.at = host.at /\ \A p \in Paths : host.at[p] # NoFile =>
                                    host'.data[host.at[p]] = host.data[host.at[p]]]_vars
    BY Zenon, ReadOnlyStep DEF Untouched
  <1> QED BY <1>1, <1>2, <1>3, PTL DEF Spec, ReadOnlyKept
====
