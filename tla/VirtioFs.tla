------------------------------ MODULE VirtioFs ------------------------------
(***************************************************************************)
(* crates/linux/kvm/src/virtio/fs.rs: the requests of a virtio-fs device.  *)
(* A notification of the guest makes the device answer every request in    *)
(* the queue, one after the other, under the device's lock; a step here is *)
(* one request, from the guest's decision to send it to its use of the     *)
(* answer.  (A request the guest sends before it has the answer to another *)
(* one it could also send after it.)                                       *)
(*                                                                         *)
(* External: the guest's kernel, which counts the references it was given  *)
(* for a nodeid and forgets no more than that, and other processes of the  *)
(* host, which change the directory between two requests.  Requests that   *)
(* change neither the tables nor the directory (getattr, readlink, read,   *)
(* statfs, fsync, flush, access, mknod) are left out.                      *)
(***************************************************************************)
EXTENDS FuseTables

CONSTANTS
    Names,              \* names the guest uses
    OpenFlags,          \* flags of an open: subsets of read write append trunc
    MaxPage,            \* bound: entries of one readdir
    MaxRequests,        \* bound: requests of the guest
    MaxHostSteps        \* bound: changes by other processes

ASSUME FsAssumption ==
    /\ OpenFlags \subseteq SUBSET {"read", "write", "append", "trunc"}
    /\ {MaxPage, MaxRequests, MaxHostSteps} \subseteq Nat

VARIABLES
    host,               \* the shared directory: at, kind, data
    inodes, handles,    \* the tables
    read_only,
    ready,              \* the request queue is ready
    fuse_initialized,
    refs,               \* the guest: nodeid -> references it holds
    listing,            \* the guest: directory handle -> where it reads on
    fhs,                \* the guest: handles it has not released
    rleft, hleft        \* what is left of the bounds

device == <<inodes, handles, ready, fuse_initialized, read_only>>
guestVars == <<refs, listing, fhs>>
vars == <<host, device, guestVars, rleft, hleft>>

Used(h, hs) == {h.at[p] : p \in Paths} \cup {hs.open[f].file : f \in DOMAIN hs.open}
Free == HostInos \ Used(host, handles)

(* The inode of a file without a name and without a handle is free.        *)
Settled(h, hs) ==
    [h EXCEPT !.kind = [k \in HostInos |-> IF k \in Used(h, hs) THEN @[k] ELSE "free"],
              !.data = [k \in HostInos |-> IF k \in Used(h, hs) THEN @[k] ELSE 0]]

Init ==
    /\ host = [at |-> [p \in Paths |-> NoFile], kind |-> [k \in HostInos |-> "free"],
               data |-> [k \in HostInos |-> 0]]
    /\ inodes = NewInodes /\ handles = NewHandles
    /\ read_only \in BOOLEAN
    /\ ready = FALSE /\ fuse_initialized = FALSE
    /\ refs = [n \in {} |-> 0] /\ listing = [h \in {} |-> 0] /\ fhs = {}
    /\ rleft = MaxRequests /\ hleft = MaxHostSteps

-----------------------------------------------------------------------------
(* Mutant: Write needs no write access.                                    *)
WriteIsFree == {"setattr", "symlink", "mknod", "mkdir", "unlink", "rmdir", "rename", "link", "create"}

RequiresWriteAccess ==
    {"setattr", "symlink", "mknod", "mkdir", "unlink", "rmdir", "rename", "link", "write", "create"}

(* A request reaches its handler: from a guest that has mounted the share, *)
(* through a ready queue, unless the share is read-only and it would write.*)
HandleFuseRequest(op) ==
    /\ ready /\ fuse_initialized /\ rleft > 0
    /\ ~(read_only /\ op \in RequiresWriteAccess)
    /\ rleft' = rleft - 1
    /\ UNCHANGED <<ready, fuse_initialized, read_only, hleft>>

Held == {ROOT_INODE} \cup DOMAIN refs
Directory(h, hs) == host' = Settled(h, hs)

(* Answers: an entry gives the guest a reference, an open a handle.        *)
EntryOut(n) ==
    refs' = IF n = 0 THEN refs ELSE Put(refs, n, IF n \in DOMAIN refs THEN refs[n] + 1 ELSE 1)
OpenOut(r) ==
    /\ handles' = r.hs
    /\ fhs' = IF r.fh = 0 THEN fhs ELSE fhs \cup {r.fh}
    /\ listing' = IF r.fh # 0 /\ r.hs.open[r.fh].kind = "dir"
                  THEN Put(listing, r.fh, 0) ELSE listing

HandleLookup(parent, name) ==
    /\ HandleFuseRequest("lookup")
    /\ LET r == Lookup(inodes, host, parent, name) IN
       /\ inodes' = r.t
       /\ EntryOut(IF r.ino \in DOMAIN r.t.nodes /\ Exists(host, r.t.nodes[r.ino].path)
                   THEN r.ino ELSE 0)
    /\ UNCHANGED <<host, handles, listing, fhs>>

HandleForget(n, count) ==
    /\ HandleFuseRequest("forget")
    /\ inodes' = Forget(inodes, host, n, count)
    /\ refs' = IF refs[n] = count THEN Drop(refs, n) ELSE [refs EXCEPT ![n] = @ - count]
    /\ UNCHANGED <<host, handles, listing, fhs>>

(* One of its changes may fail after another was made.                     *)
HandleSetattr(n) ==
    /\ HandleFuseRequest("setattr")
    /\ \E p \in {x \in Paths : <<x>> = GetPath(inodes, n) /\ Exists(host, x)} : host' = Change(host, p)
    /\ UNCHANGED <<inodes, handles, guestVars>>

(* mkdir: the directory stays when the table has no room for its inode.    *)
HandleMkdir(parent, name) ==
    /\ HandleFuseRequest("mkdir")
    /\ \E p \in {x \in Paths : <<x>> = ParentAndName(inodes, host, parent, name)}, k \in Free :
          /\ CanAdd(host, p)
          /\ LET made == Add(host, p, k, "dir")
                 r == LookupPath(inodes, made, p)
             IN host' = made /\ inodes' = r.t /\ EntryOut(r.ino)
    /\ UNCHANGED <<handles, listing, fhs>>

(* Opening what lookup_path found, by its path.                            *)
OpenCreated(made, r, p, trunc) ==
    LET o == CreateFile(handles, made, p, r.ino) IN
    /\ inodes' = r.t
    /\ IF r.ino = 0 THEN Directory(made, handles) /\ EntryOut(0) /\ OpenOut(Refused(handles))
       ELSE /\ Directory(IF o.fh # 0 /\ trunc THEN Change(made, p) ELSE made, o.hs)
            /\ OpenOut(o)
            /\ EntryOut(IF o.fh # 0 THEN r.ino ELSE 0)

(* A lookup that fails, for whatever reason, makes the file: an existing   *)
(* one it empties.                                                         *)
HandleCreate(parent, name, trunc) ==
    /\ HandleFuseRequest("create")
    /\ \E p \in {x \in Paths : <<x>> = ParentAndName(inodes, host, parent, name)} :
          LET r == LookupPath(inodes, host, p) IN
          \/ r.ino # 0 /\ OpenCreated(host, r, p, trunc)
          \/ /\ r.ino = 0 /\ IsFile(host, p)
             /\ OpenCreated(Change(host, p), LookupPath(r.t, Change(host, p), p), p, trunc)
          \/ /\ r.ino = 0 /\ CanAdd(host, p)
             /\ \E k \in Free : LET made == Add(host, p, k, "file") IN
                    OpenCreated(made, LookupPath(r.t, made, p), p, trunc)

(* unlink and rmdir: remove_by_path runs when the name is gone.            *)
HandleRemove(op, parent, name) ==
    /\ HandleFuseRequest(op)
    /\ \E p \in {x \in Paths : <<x>> = ParentAndName(inodes, host, parent, name)} :
          /\ IF op = "unlink" THEN IsFile(host, p) ELSE IsDir(host, p) /\ Children(host, p) = {}
          /\ LET gone == [host EXCEPT !.at[p] = NoFile] IN
                 Directory(gone, handles) /\ inodes' = RemoveByPath(inodes, gone, p)
    /\ UNCHANGED <<handles, guestVars>>

HandleRename(parent, name, newdir, newname) ==
    /\ HandleFuseRequest("rename")
    /\ \E p, q \in Paths :
          /\ <<p>> = ParentAndName(inodes, host, parent, name)
          /\ <<q>> = ParentAndName(inodes, host, newdir, newname)
          /\ CanRename(host, p, q)
          /\ LET moved == SetName(host, p, q) IN
                 Directory(moved, handles) /\ inodes' = RemoveByPath(inodes, moved, p)
    /\ UNCHANGED <<handles, guestVars>>

HandleLink(n, parent, name) ==
    /\ HandleFuseRequest("link")
    /\ \E old, p \in Paths :
          /\ <<old>> = GetPath(inodes, n) /\ IsFile(host, old)
          /\ <<p>> = ParentAndName(inodes, host, parent, name) /\ CanAdd(host, p)
          /\ LET linked == [host EXCEPT !.at[p] = host.at[old]]
                 r == LookupPath(inodes, linked, p)
             IN host' = linked /\ inodes' = r.t /\ EntryOut(r.ino)
    /\ UNCHANGED <<handles, listing, fhs>>

HandleOpen(n, flags) ==
    /\ HandleFuseRequest("open")
    /\ \E p \in {x \in Paths : <<x>> = GetPath(inodes, n)} :
          LET o == OpenFile(handles, host, p, flags, n, read_only) IN
          /\ OpenOut(o)
          /\ host' = IF o.fh # 0 /\ "trunc" \in flags THEN Change(host, p) ELSE host
    /\ UNCHANGED <<inodes, refs>>

HandleOpendir(n) ==
    /\ HandleFuseRequest("opendir")
    /\ \E p \in Paths \cup {Root} : <<p>> = GetPath(inodes, n) /\ OpenOut(OpenDir(handles, host, p, n))
    /\ UNCHANGED <<host, inodes, refs>>

HandleWrite(fh) ==
    /\ HandleFuseRequest("write")
    /\ handles.open[fh].writable
    /\ host' = WriteFile(host, handles, fh)
    /\ UNCHANGED <<inodes, handles, guestVars>>

HandleReaddir(fh, size) ==
    /\ HandleFuseRequest("readdir")
    /\ LET page == ReadDir(handles, fh, listing[fh], size) IN
       /\ page # <<>>
       /\ listing' = [listing EXCEPT ![fh] = page[Len(page)].off]
    /\ UNCHANGED <<host, inodes, handles, refs, fhs>>

HandleRelease(fh) ==
    /\ HandleFuseRequest("release")
    /\ handles' = Release(handles, fh)
    /\ Directory(host, Release(handles, fh))
    /\ fhs' = fhs \ {fh} /\ listing' = Drop(listing, fh)
    /\ UNCHANGED <<inodes, refs>>

-----------------------------------------------------------------------------
(* The device's life: the driver sets up the queue, mounts, unmounts,      *)
(* and resets the device.  The tables outlive all of it.                   *)

GuestLosesAll == refs' = [n \in {} |-> 0] /\ listing' = [h \in {} |-> 0] /\ fhs' = {}

HandleQueueReady ==
    /\ ~ready /\ ready' = TRUE
    /\ UNCHANGED <<host, inodes, handles, fuse_initialized, read_only, guestVars, rleft, hleft>>

HandleInit ==
    /\ ready /\ ~fuse_initialized /\ fuse_initialized' = TRUE
    /\ UNCHANGED <<host, inodes, handles, ready, read_only, guestVars, rleft, hleft>>

HandleDestroy ==
    /\ ready /\ fuse_initialized /\ fhs = {} /\ fuse_initialized' = FALSE
    /\ GuestLosesAll
    /\ UNCHANGED <<host, inodes, handles, ready, read_only, rleft, hleft>>

(* Status 0: a driver that starts again knows nothing of the one before.   *)
Reset ==
    /\ ready /\ rleft > 0
    /\ ready' = FALSE /\ fuse_initialized' = FALSE
    /\ GuestLosesAll /\ rleft' = rleft - 1
    /\ UNCHANGED <<host, inodes, handles, read_only, hleft>>

(* Another process of the host adds, removes or renames.                   *)
HostChanges ==
    /\ hleft > 0 /\ hleft' = hleft - 1
    /\ \/ \E p \in Paths, k \in Free, kind \in {"file", "dir"} :
             CanAdd(host, p) /\ host' = Add(host, p, k, kind)
       \/ \E p \in Paths : /\ Exists(host, p) /\ Children(host, p) = {}
                           /\ Directory([host EXCEPT !.at[p] = NoFile], handles)
       \/ \E p, q \in Paths : CanRename(host, p, q) /\ p # q /\ Directory(SetName(host, p, q), handles)
    /\ UNCHANGED <<device, guestVars, rleft>>

Request ==
    \/ \E n \in Held, name \in Names :
          \/ HandleLookup(n, name) \/ HandleMkdir(n, name)
          \/ \E trunc \in BOOLEAN : HandleCreate(n, name, trunc)
          \/ \E op \in {"unlink", "rmdir"} : HandleRemove(op, n, name)
          \/ \E m \in Held, other \in Names : HandleRename(n, name, m, other)
          \/ \E m \in Held : HandleLink(m, n, name)
    \/ \E n \in Held :
          HandleSetattr(n) \/ HandleOpendir(n) \/ \E flags \in OpenFlags : HandleOpen(n, flags)
    \/ \E n \in DOMAIN refs : \E count \in 1 .. refs[n] : HandleForget(n, count)
    \/ \E fh \in fhs : HandleWrite(fh) \/ HandleRelease(fh)
    \/ \E fh \in DOMAIN listing, size \in 1 .. MaxPage : HandleReaddir(fh, size)

Next == Request \/ HandleQueueReady \/ HandleInit \/ HandleDestroy \/ Reset \/ HostChanges

Spec == Init /\ [][Next]_vars

-----------------------------------------------------------------------------
(* inode.rs:87-92, :124-133: a node is dropped when the guest has given    *)
(* back all its references, never while it counts on some: the count of an *)
(* entry covers what was answered to the guest, failed answers included.   *)
HeldCovered ==
    \A n \in DOMAIN refs \cap DOMAIN inodes.nodes : inodes.nodes[n].nlookup >= refs[n]

(* fs.rs:426, "generation: 0": a nodeid is never given to another path,    *)
(* not even after it was forgotten or the device was reset.                *)
NodesStable ==
    [][\A n \in DOMAIN inodes'.nodes : n < inodes.next =>
          n \in DOMAIN inodes.nodes /\ inodes'.nodes[n].path = inodes.nodes[n].path]_vars

(* handle.rs:67, fs.rs:324: through a read-only share no request changes   *)
(* a name or a file, not even on a handle opened for appending.            *)
ReadOnlyKept ==
    [][read_only /\ hleft' = hleft =>
          host'.at = host.at /\ \A p \in Paths : host.at[p] # NoFile =>
                                    host'.data[host.at[p]] = host.data[host.at[p]]]_vars

=============================================================================
