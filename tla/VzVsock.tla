------------------------------ MODULE VzVsock -------------------------------
(***************************************************************************)
(* A vsock port of a machine of Virtualization.framework, passed on to a   *)
(* Unix socket of the host (crates/apple/vz/src/vsock.rs).  The listener's *)
(* delegate puts the descriptor of a guest's connection into a channel of  *)
(* one place; a task accepts one host, waits for one guest and copies      *)
(* between the two.  "Currently, each vsock port only supports one         *)
(* connection": whoever comes later is turned away or left alone.          *)
(*                                                                         *)
(* Data is counted in chunks: sent by the owner of an end, read by the     *)
(* bridge from it, passed on to the other end.                             *)
(***************************************************************************)
EXTENDS Naturals

CONSTANTS
    Hosts, Guests,  \* connections programs of the host and of the guest make,
                    \* numbered in the order they are made
    MaxChunks       \* bound: chunks sent on one connection

ASSUME EndsAssumption == Hosts \cap Guests = {}

Ends == Hosts \union Guests

VARIABLES
    task,           \* "none", "bind", "accept", "recv", "done"
    path,           \* the socket file exists
    place,          \* "out", "backlog", "held", "chan", "lost", "bridged", "cut", "dropped"
    closed,         \* ends their owners have closed
    sent, read, passed

dataVars == <<closed, sent, read, passed>>
sockVars == <<task, path, place, dataVars>>

SockInit ==
    /\ task = "none" /\ path = FALSE
    /\ place = [x \in Ends |-> "out"] /\ closed = {}
    /\ sent = [x \in Ends |-> 0] /\ read = [x \in Ends |-> 0] /\ passed = [x \in Ends |-> 0]

Move(x, where) == place' = [place EXCEPT ![x] = where]
Served == {x \in Ends : place[x] \in {"held", "chan", "bridged"}}
Held == CHOOSE h \in Hosts : place[h] = "held"
Link == {x \in Ends : place[x] = "bridged"}
Peer(x) == CHOOSE y \in Link : y # x

-----------------------------------------------------------------------------
(* The task removes an old file and binds, or reports that it cannot and   *)
(* ends.                                                                   *)
Binds ==
    /\ task = "bind"
    /\ \/ task' = "accept" /\ path' = TRUE
       \/ task' = "done" /\ path' = FALSE
    /\ UNCHANGED <<place, dataVars>>

Comes(S, x) == place[x] = "out" /\ \A y \in S : y < x => place[y] # "out"

(* External: connect() on the socket file.                                 *)
HostConnects(h) ==
    /\ path /\ Comes(Hosts, h) /\ Move(h, "backlog")
    /\ UNCHANGED <<task, path, dataVars>>

Accepts(h) ==
    /\ task = "accept" /\ place[h] = "backlog"
    /\ task' = "recv" /\ Move(h, "held")
    /\ UNCHANGED <<path, dataVars>>

(* listener:shouldAcceptNewConnection: says yes in every case, also when   *)
(* try_send finds the channel full or its receiver gone.                   *)
ShouldAccept(g) ==
    /\ Comes(Guests, g)
    /\ Move(g, IF task # "done" /\ \A o \in Guests : place[o] # "chan"
               THEN "chan" ELSE "lost")
    /\ UNCHANGED <<task, path, dataVars>>

(* Mutant: a host that has gone is not paired.                             *)
TakesForLiveHost(g) ==
    /\ task = "recv" /\ place[g] = "chan" /\ Held \notin closed
    /\ \E end \in {"bridged", "dropped"} :
          place' = [x \in Ends |-> IF x \in {g, Held} THEN end
                                   ELSE IF place[x] = "backlog" THEN "dropped" ELSE place[x]]
    /\ task' = "done" /\ path' = FALSE
    /\ UNCHANGED dataVars

(* The guest's descriptor has come: the pair gets a task of its own, or is *)
(* dropped when that cannot watch the descriptor.  The file is removed and *)
(* the listener closed, with the hosts still in its backlog.               *)
Takes(g) ==
    /\ task = "recv" /\ place[g] = "chan"
    /\ \E end \in {"bridged", "dropped"} :
          place' = [x \in Ends |-> IF x \in {g, Held} THEN end
                                   ELSE IF place[x] = "backlog" THEN "dropped" ELSE place[x]]
    /\ task' = "done" /\ path' = FALSE
    /\ UNCHANGED dataVars

-----------------------------------------------------------------------------
(* External: what the owner of an end does.  Nobody reads from a lost      *)
(* connection, so its owner's steps are left out; what is sent before the  *)
(* bridge reads, or closed in the backlog, may as well come later.         *)
Sends(x) ==
    /\ x \in Link \ closed /\ sent[x] < MaxChunks
    /\ sent' = [sent EXCEPT ![x] = @ + 1]
    /\ UNCHANGED <<task, path, place, closed, read, passed>>

Closes(x) ==
    /\ x \in Served \ closed /\ closed' = closed \union {x}
    /\ UNCHANGED <<task, path, place, sent, read, passed>>

-----------------------------------------------------------------------------
(* bridge_connection: two loops, each reading a buffer and writing it out. *)
Reads(x) ==
    /\ x \in Link /\ read[x] = passed[x] /\ read[x] < sent[x]
    /\ read' = [read EXCEPT ![x] = @ + 1]
    /\ UNCHANGED <<task, path, place, closed, sent, passed>>

(* A failed write to the guest leaves only the inner loop: the chunk is    *)
(* dropped and the next one read.  A failed write to the host ends the     *)
(* bridge (BridgeEnds).                                                    *)
Writes(x) ==
    /\ x \in Link /\ passed[x] < read[x]
    /\ x \in Hosts \/ Peer(x) \notin closed
    /\ passed' = [passed EXCEPT ![x] = @ + 1]
    /\ UNCHANGED <<task, path, place, closed, sent, read>>

(* Mutant: the end is acted on before the buffer is written out.           *)
EofBeforeWrite(x) == x \in closed /\ read[x] = sent[x]

Eof(x) == x \in closed /\ read[x] = sent[x] /\ passed[x] = read[x]
WriteFails(x) == x \in Guests /\ passed[x] < read[x] /\ Peer(x) \in closed

(* select!: the loop that ends first ends the other, and both descriptors  *)
(* are closed.                                                             *)
BridgeEnds ==
    /\ \E x \in Link : Eof(x) \/ WriteFails(x)
    /\ place' = [x \in Ends |-> IF x \in Link THEN "cut" ELSE place[x]]
    /\ UNCHANGED <<task, path, dataVars>>
=============================================================================
