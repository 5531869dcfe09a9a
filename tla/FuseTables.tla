------------------------------ MODULE FuseTables ------------------------------
(***************************************************************************)
(* crates/linux/kvm/src/fuse/inode.rs and handle.rs: the inode table and   *)
(* the handle table of a virtio-fs device, as operators on the tables, and *)
(* the host directory they are about, which is external.                   *)
(*                                                                         *)
(* A path is the sequence of names below host_root.  There are no symbolic *)
(* links, so a path that exists is canonical and inside the root.  A host  *)
(* inode number is used again once its file has no name and no open        *)
(* handle.  An error is the result 0: which errno it is tells nothing      *)
(* apart here.  A file's contents and attributes are one bit that every    *)
(* change flips.                                                           *)
(***************************************************************************)
EXTENDS Integers, FiniteSets, Sequences, Functions

CONSTANTS
    Paths,          \* bound: the paths below the root
    HostInos,       \* bound: host inode numbers, (dev, ino) pairs
    NoFile,         \* nothing is at a path
    MaxInodes,      \* MAX_INODES
    MaxHandles      \* MAX_HANDLES

ASSUME FuseAssumption ==
    /\ MaxInodes \in Nat \ {0} /\ MaxHandles \in Nat
    /\ NoFile \notin HostInos
    /\ <<>> \notin Paths

ROOT_INODE == 1
Root == <<>>
Parent(p) == SubSeq(p, 1, Len(p) - 1)
FileName(p) == p[Len(p)]
Within(p, q) == Len(p) <= Len(q) /\ SubSeq(q, 1, Len(p)) = p

-----------------------------------------------------------------------------
(* The host directory: what is at each path, and of each inode its kind    *)
(* and its contents.                                                       *)

KindAt(host, p) ==
    CASE p = Root -> "dir"
      [] p \in Paths /\ host.at[p] # NoFile -> host.kind[host.at[p]]
      [] OTHER -> "none"
Exists(host, p) == KindAt(host, p) # "none"
IsDir(host, p) == KindAt(host, p) = "dir"
IsFile(host, p) == KindAt(host, p) = "file"
Children(host, p) == {q \in Paths : Parent(q) = p /\ host.at[q] # NoFile}
CanAdd(host, p) == p \in Paths /\ ~Exists(host, p) /\ IsDir(host, Parent(p))

Add(host, p, k, kind) == [host EXCEPT !.at[p] = k, !.kind[k] = kind]
Change(host, p) == [host EXCEPT !.data[host.at[p]] = 1 - @]

(* rename(2): what was at new is replaced, what is below old moves along.  *)
Moved(old, new, q) == new \o SubSeq(q, Len(old) + 1, Len(q))
CanRename(host, old, new) ==
    /\ Exists(host, old) /\ old # Root /\ new \in Paths /\ IsDir(host, Parent(new))
    /\ Exists(host, new) => /\ IsDir(host, old) = IsDir(host, new)
                            /\ Children(host, new) = {}
    /\ Within(old, new) => old = new
    /\ \A q \in Paths : Within(old, q) /\ host.at[q] # NoFile => Moved(old, new, q) \in Paths
SetName(host, old, new) ==
    IF old = new \/ host.at[old] = host.at[new] THEN host
    ELSE [host EXCEPT !.at = [q \in Paths |->
            IF Within(new, q) /\ Moved(new, old, q) \in Paths THEN @[Moved(new, old, q)]
            ELSE IF Within(old, q) \/ Within(new, q) THEN NoFile ELSE @[q]]]

-----------------------------------------------------------------------------
(* The inode table: nodes is by_guest_ino, keys is by_host_key.            *)

NewInodes == [nodes |-> [n \in {ROOT_INODE} |-> [path |-> Root, nlookup |-> 1]],
              keys |-> [k \in {} |-> 0], next |-> ROOT_INODE + 1]

Put(f, x, y) == [z \in DOMAIN f \cup {x} |-> IF z = x THEN y ELSE f[z]]
Drop(f, x) == [z \in DOMAIN f \ {x} |-> f[z]]

GetPath(t, n) == IF n \in DOMAIN t.nodes THEN <<t.nodes[n].path>> ELSE <<>>

(* Mutant: a file found again is not counted.                              *)
CountedOnce(t, n) == t

(* What lookup_path finds: a known host file, no room, or a new one.       *)
Counted(t, n) == [t EXCEPT !.nodes[n].nlookup = @ + 1]
Found(t, n) ==
    [t |-> IF n \in DOMAIN t.nodes THEN Counted(t, n) ELSE t, ino |-> n]
(* Mutant: the number follows the size of the table.                       *)
NewNodeBySize(t, k, p) ==
    LET n == Cardinality(DOMAIN t.nodes) + 1 IN
    [t |-> [nodes |-> Put(t.nodes, n, [path |-> p, nlookup |-> 1]),
            keys |-> Put(t.keys, k, n), next |-> t.next + 1],
     ino |-> n]

NewNode(t, k, p) ==
    [t |-> [nodes |-> Put(t.nodes, t.next, [path |-> p, nlookup |-> 1]),
            keys |-> Put(t.keys, k, t.next), next |-> t.next + 1],
     ino |-> t.next]
InodesFull(t) == Cardinality(DOMAIN t.nodes) >= MaxInodes

LookupPath(t, host, p) ==
    IF ~Exists(host, p) THEN [t |-> t, ino |-> 0]
    ELSE IF host.at[p] \in DOMAIN t.keys THEN Found(t, t.keys[host.at[p]])
    ELSE IF InodesFull(t) THEN [t |-> t, ino |-> 0]
    ELSE NewNode(t, host.at[p], p)

Lookup(t, host, parent, name) ==
    IF parent \in DOMAIN t.nodes THEN LookupPath(t, host, Append(t.nodes[parent].path, name))
    ELSE [t |-> t, ino |-> 0]

(* The key removed is that of the file now at the path.                    *)
DropKeyAt(t, host, p) ==
    IF Exists(host, p) /\ p # Root THEN [t EXCEPT !.keys = Drop(@, host.at[p])] ELSE t

Forget(t, host, n, count) ==
    IF n = ROOT_INODE \/ n \notin DOMAIN t.nodes THEN t
    ELSE LET left == IF t.nodes[n].nlookup > count THEN t.nodes[n].nlookup - count ELSE 0
         IN IF left > 0 THEN [t EXCEPT !.nodes[n].nlookup = left]
            ELSE [DropKeyAt(t, host, t.nodes[n].path) EXCEPT !.nodes = Drop(@, n)]

(* validate_parent_and_name: a sequence of at most one path.               *)
ParentAndName(t, host, parent, name) ==
    IF parent \in DOMAIN t.nodes /\ Exists(host, t.nodes[parent].path)
    THEN <<Append(t.nodes[parent].path, name)>> ELSE <<>>

RemoveByPath(t, host, p) ==
    IF Exists(host, p) /\ p # Root /\ host.at[p] \in DOMAIN t.keys
    THEN [t EXCEPT !.nodes = Drop(@, t.keys[host.at[p]]), !.keys = Drop(@, host.at[p])]
    ELSE t

-----------------------------------------------------------------------------
(* The handle table.  A handle has the host file it was opened on; one of  *)
(* a directory has the names read when it was opened.                      *)

NewHandles == [open |-> [h \in {} |-> 0], next |-> 1]
HandlesFull(hs) == Cardinality(DOMAIN hs.open) >= MaxHandles

Opened(hs, handle) ==
    [hs |-> [open |-> Put(hs.open, hs.next, handle), next |-> hs.next + 1], fh |-> hs.next]
Refused(hs) == [hs |-> hs, fh |-> 0]

(* OpenOptions: append implies write access, truncate needs it and not     *)
(* append, and one of the three accesses is needed.                        *)
OpensFile(host, p, flags) ==
    /\ IsFile(host, p) \/ (IsDir(host, p) /\ flags \cap {"write", "append"} = {})
    /\ flags \cap {"read", "write", "append"} # {}
    /\ "trunc" \in flags => "write" \in flags /\ "append" \notin flags

FileHandle(host, p, flags, n) ==
    [kind |-> "file", file |-> host.at[p], ino |-> n,
     writable |-> flags \cap {"write", "append"} # {}, names |-> <<>>]
InSomeOrder(S) == CHOOSE s \in [1 .. Cardinality(S) -> S] : Range(s) = S
DirHandle(host, p, n) ==
    [kind |-> "dir", file |-> NoFile, ino |-> n, writable |-> FALSE,
     names |-> <<".", "..">> \o InSomeOrder({FileName(q) : q \in Children(host, p)})]

OpenFile(hs, host, p, flags, n, read_only) ==
    IF HandlesFull(hs) \/ ("write" \in flags /\ read_only) \/ ~OpensFile(host, p, flags)
    THEN Refused(hs) ELSE Opened(hs, FileHandle(host, p, flags, n))

CreateFile(hs, host, p, n) ==
    IF HandlesFull(hs) \/ ~IsFile(host, p) THEN Refused(hs)
    ELSE Opened(hs, FileHandle(host, p, {"write"}, n))

OpenDir(hs, host, p, n) ==
    IF HandlesFull(hs) \/ ~IsDir(host, p) THEN Refused(hs)
    ELSE Opened(hs, DirHandle(host, p, n))

Release(hs, fh) == [hs EXCEPT !.open = Drop(@, fh)]

(* A write through a handle reaches the file it was opened on, wherever    *)
(* that file's name is now.                                                *)
WriteFile(host, hs, fh) == [host EXCEPT !.data[hs.open[fh].file] = 1 - @]

(* read_dir: the entries open_dir collected, from offset on.               *)
Entries(hs, fh, offset) == SubSeq(hs.open[fh].names, offset + 1, Len(hs.open[fh].names))

(* The packing of handle_readdir: as many entries as fit, each with the    *)
(* offset that follows it.                                                 *)
ReadDir(hs, fh, offset, size) ==
    LET rest == Entries(hs, fh, offset) IN
    [i \in 1 .. IF size < Len(rest) THEN size ELSE Len(rest) |-> [name |-> rest[i], off |-> offset + i]]
=============================================================================
