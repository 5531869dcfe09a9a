------------------------------- MODULE VmPool -------------------------------
(***************************************************************************)
(* crates/capsa/src/pool/mod.rs: a pool of pre-created VMs.  reserve() and *)
(* try_reserve() hand a VM out as a PooledVm; dropping the PooledVm starts *)
(* a task that kills the VM and spawns a replacement; dropping the VmPool  *)
(* raises shutting_down and, when it holds the only Arc, starts a task     *)
(* that kills the VMs still in the pool.                                   *)
(*                                                                         *)
(* A VM is an identity from VMs that a spawn takes when it is free.  The   *)
(* VM runs until it is killed or its guest exits: neither VmHandle nor the *)
(* KVM backend's handle kills it when the handle is merely dropped.  A     *)
(* step is what the code does between two await points.  tokio's Notify is *)
(* external and modelled from how reserve() uses it: one stored permit, a  *)
(* FIFO of waiters, and a Notified future that passes its wake-up on when  *)
(* it is dropped between being notified and being polled.                  *)
(***************************************************************************)
EXTENDS Integers, FiniteSets, Sequences, Functions

CONSTANTS
    Clients,        \* tasks that share the pool; each holds at most one VM
    VMs,            \* identities of VMs
    NoVm,           \* "no VM"
    Size,           \* the size argument of VmPool::new
    MaxReserve,     \* bound: reserve() calls per client
    SpawnMayFail,   \* whether HypervisorBackend::start may return Err
    CancelPoints    \* awaits of reserve() at which a caller may drop it

ASSUME SizeAssumption == Size \in Nat \ {0}
ASSUME NoVmAssumption == NoVm \notin VMs
ASSUME ClientsAssumption == IsFiniteSet(Clients)
ASSUME MaxReserveAssumption == MaxReserve \in Nat
ASSUME SpawnMayFailAssumption == SpawnMayFail \in BOOLEAN
ASSUME CancelPointsAssumption == CancelPoints \subseteq {"locking", "waiting"}

VARIABLES
    phase,          \* the VmPool value: creating, open, dropping, gone, failed
    shutting_down,  \* VmPoolInner.shutting_down
    available,      \* VmPoolInner.available, the last element on top
    held,           \* the PooledVm of each client
    killing,        \* VMs whose PooledVm was dropped and is being killed
    spawning,       \* number of drop tasks inside spawn_vm
    pushing,        \* replacements spawned and not yet pushed
    notifying,      \* number of drop tasks between push and notify_one
    cleanup,        \* the task VmPool::drop starts: none, draining, done
    shrunk,         \* history: a replacement could not be spawned
    running,        \* VMs whose vCPU threads run
    dirty,          \* running VMs a client has had since they booted
    calls,          \* reserve() calls each client may still make
    rpc,            \* where each client is in reserve()
    fut,            \* the Notified future of each client's reserve()
    waiters,        \* Notify: registered futures, oldest first
    permit          \* Notify: the stored permit

poolVars == <<phase, shutting_down, cleanup, shrunk>>
vmVars == <<available, held, killing, pushing, running, dirty>>
taskVars == <<spawning, notifying>>
notifyVars == <<fut, waiters, permit>>
vars == <<poolVars, vmVars, taskVars, notifyVars, calls, rpc>>

Phases == {"creating", "open", "dropping", "gone", "failed"}
InPool == Range(available)
Top == available[Len(available)]
Held == {held[c] : c \in Clients} \ {NoVm}
Owned == InPool \cup Held \cup killing \cup pushing
Free == VMs \ (running \cup Owned)

(***************************************************************************)
(* References to VmPoolInner: the VmPool, every PooledVm, every drop task  *)
(* and the cleanup task each own one Arc.                                  *)
(***************************************************************************)
StrongCount ==
    (IF phase \in {"open", "dropping"} THEN 1 ELSE 0)
    + Cardinality({c \in Clients : held[c] # NoVm})
    + Cardinality(killing) + spawning + Cardinality(pushing) + notifying
    + (IF cleanup = "draining" THEN 1 ELSE 0)

Init ==
    /\ phase = "creating" /\ shutting_down = FALSE /\ cleanup = "none" /\ shrunk = FALSE
    /\ available = <<>>
    /\ held = [c \in Clients |-> NoVm]
    /\ killing = {} /\ pushing = {} /\ running = {} /\ dirty = {}
    /\ spawning = 0 /\ notifying = 0
    /\ calls = [c \in Clients |-> MaxReserve]
    /\ rpc = [c \in Clients |-> "idle"]
    /\ fut = [c \in Clients |-> "none"]
    /\ waiters = <<>> /\ permit = FALSE

-----------------------------------------------------------------------------
(* VmPool::new: spawn the VMs one after the other.                         *)

SpawnVm(v) ==
    /\ v \in Free
    /\ running' = running \cup {v}
    /\ dirty' = dirty \ {v}

NewSpawns(v) ==
    /\ phase = "creating" /\ Len(available) < Size
    /\ SpawnVm(v)
    /\ available' = Append(available, v)
    /\ UNCHANGED <<poolVars, held, killing, pushing, taskVars, notifyVars, calls, rpc>>

(* A failed spawn leaves new with `?`: the handles made so far are dropped. *)
NewFails ==
    /\ phase = "creating" /\ Len(available) < Size
    /\ SpawnMayFail
    /\ phase' = "failed"
    /\ available' = <<>>
    /\ UNCHANGED <<shutting_down, cleanup, shrunk, held, killing, pushing, running, dirty, taskVars,
                   notifyVars, calls, rpc>>

NewReturns ==
    /\ phase = "creating" /\ Len(available) = Size
    /\ phase' = "open"
    /\ UNCHANGED <<shutting_down, cleanup, shrunk, vmVars, taskVars, notifyVars, calls, rpc>>

-----------------------------------------------------------------------------
(* tokio's Notify.                                                         *)

Without(s, c) ==
    LET i == CHOOSE j \in DOMAIN s : s[j] = c
    IN  SubSeq(s, 1, i - 1) \o SubSeq(s, i + 1, Len(s))

(* notify_one, with f the futures once the caller has changed its own.     *)
NotifyOne(f) ==
    IF waiters = <<>>
    THEN permit' = TRUE /\ fut' = f /\ UNCHANGED waiters
    ELSE /\ fut' = [f EXCEPT ![Head(waiters)] = "one"]
         /\ waiters' = Tail(waiters)
         /\ UNCHANGED permit

(* Notified::enable on a new future: take the permit or join the waiters.  *)
Enable(c) ==
    IF permit
    THEN permit' = FALSE /\ fut' = [fut EXCEPT ![c] = "done"] /\ UNCHANGED waiters
    ELSE /\ fut' = [fut EXCEPT ![c] = "waiting"]
         /\ waiters' = Append(waiters, c)
         /\ UNCHANGED permit

(* Dropping a Notified: one notified but not polled hands the wake-up on.  *)
DropNotified(c) ==
    LET f == [fut EXCEPT ![c] = "none"] IN
    CASE fut[c] = "one" -> NotifyOne(f)
      [] fut[c] = "waiting" ->
            fut' = f /\ waiters' = Without(waiters, c) /\ UNCHANGED permit
      [] OTHER -> fut' = f /\ UNCHANGED <<waiters, permit>>

-----------------------------------------------------------------------------
(* VmPool::reserve and try_reserve.  Both borrow the VmPool, so they run   *)
(* only while it is open: their shutting_down checks never fire.           *)

(* The top of the loop: register, check shutting_down, go for the lock.    *)
ReserveEnable(c) ==
    /\ phase = "open" /\ ~shutting_down
    /\ held[c] = NoVm
    /\ \/ rpc[c] = "idle" /\ calls[c] > 0 /\ calls' = [calls EXCEPT ![c] = @ - 1]
       \/ rpc[c] = "top" /\ UNCHANGED calls
    /\ Enable(c)
    /\ rpc' = [rpc EXCEPT ![c] = "locking"]
    /\ UNCHANGED <<poolVars, vmVars, taskVars>>

(* Mutant: the VM is handed out but left in the pool.                      *)
TakeTopPeeks(c) ==
    /\ held' = [held EXCEPT ![c] = Top]
    /\ dirty' = dirty \cup {Top}
    /\ UNCHANGED available

TakeTop(c) ==
    /\ held' = [held EXCEPT ![c] = Top]
    /\ available' = SubSeq(available, 1, Len(available) - 1)
    /\ dirty' = dirty \cup {Top}

(* Under the lock: return the popped VM, or find none and wait.            *)
ReservePops(c) ==
    /\ rpc[c] = "locking" /\ available # <<>>
    /\ TakeTop(c)
    /\ DropNotified(c)
    /\ rpc' = [rpc EXCEPT ![c] = "idle"]
    /\ UNCHANGED <<poolVars, killing, pushing, running, taskVars, calls>>

ReserveFindsNone(c) ==
    /\ rpc[c] = "locking" /\ available = <<>>
    /\ rpc' = [rpc EXCEPT ![c] = "waiting"]
    /\ UNCHANGED <<poolVars, vmVars, taskVars, notifyVars, calls>>

(* notified.await completes and the loop starts over.                      *)
ReserveWakes(c) ==
    /\ rpc[c] = "waiting" /\ fut[c] \in {"one", "done"}
    /\ fut' = [fut EXCEPT ![c] = "none"]
    /\ rpc' = [rpc EXCEPT ![c] = "top"]
    /\ UNCHANGED <<poolVars, vmVars, taskVars, waiters, permit, calls>>

(* The caller drops the reserve() future (a timeout or a select) while it  *)
(* is suspended in lock().await or notified.await.                         *)
ReserveCancelled(c) ==
    /\ rpc[c] \in CancelPoints
    /\ rpc[c] = "waiting" => fut[c] # "done"
    /\ DropNotified(c)
    /\ rpc' = [rpc EXCEPT ![c] = "idle"]
    /\ UNCHANGED <<poolVars, vmVars, taskVars, calls>>

(* try_reserve; PoolEmpty, for an empty pool or a contended lock, changes  *)
(* nothing.                                                                *)
TryReserve(c) ==
    /\ phase = "open" /\ ~shutting_down
    /\ rpc[c] = "idle" /\ held[c] = NoVm /\ calls[c] > 0
    /\ available # <<>>
    /\ TakeTop(c)
    /\ calls' = [calls EXCEPT ![c] = @ - 1]
    /\ UNCHANGED <<poolVars, killing, pushing, running, taskVars, notifyVars, rpc>>

-----------------------------------------------------------------------------
(* PooledVm::drop and the task it spawns.                                  *)

DropPooledVm(c) ==
    /\ held[c] # NoVm
    /\ held' = [held EXCEPT ![c] = NoVm]
    /\ killing' = killing \cup {held[c]}
    /\ UNCHANGED <<poolVars, available, pushing, running, dirty, taskVars, notifyVars, calls,
                   rpc>>

TaskOnlyKills(v) ==
    /\ v \in killing
    /\ killing' = killing \ {v}
    /\ running' = running \ {v}
    /\ dirty' = dirty \ {v}
    /\ UNCHANGED <<poolVars, available, held, pushing, taskVars, notifyVars, calls, rpc>>

(* vm.kill().await, then the shutting_down check.                          *)
TaskKills(v) ==
    /\ v \in killing
    /\ killing' = killing \ {v}
    /\ running' = running \ {v}
    /\ dirty' = dirty \ {v}
    /\ spawning' = IF shutting_down THEN spawning ELSE spawning + 1
    /\ UNCHANGED <<poolVars, available, held, pushing, notifying, notifyVars, calls, rpc>>

TaskSpawns(v) ==
    /\ spawning > 0
    /\ SpawnVm(v)
    /\ spawning' = spawning - 1
    /\ pushing' = pushing \cup {v}
    /\ UNCHANGED <<poolVars, available, held, killing, notifying, notifyVars, calls, rpc>>

TaskSpawnFails ==
    /\ spawning > 0 /\ SpawnMayFail
    /\ spawning' = spawning - 1
    /\ shrunk' = TRUE
    /\ UNCHANGED <<phase, shutting_down, cleanup, vmVars, notifying, notifyVars, calls, rpc>>

(* Mutant: the replacement is pushed without notify_one.                   *)
TaskPushesSilently(v) ==
    /\ v \in pushing
    /\ pushing' = pushing \ {v}
    /\ available' = Append(available, v)
    /\ UNCHANGED <<poolVars, held, killing, running, dirty, taskVars, notifyVars, calls, rpc>>

TaskPushes(v) ==
    /\ v \in pushing
    /\ pushing' = pushing \ {v}
    /\ available' = Append(available, v)
    /\ notifying' = notifying + 1
    /\ UNCHANGED <<poolVars, held, killing, running, dirty, spawning, notifyVars, calls, rpc>>

TaskNotifies ==
    /\ notifying > 0
    /\ notifying' = notifying - 1
    /\ NotifyOne(fut)
    /\ UNCHANGED <<poolVars, vmVars, spawning, calls, rpc>>

-----------------------------------------------------------------------------
(* VmPool::drop.  Nobody is inside reserve(), so notify_waiters finds no   *)
(* waiter.                                                                 *)

DropSetsFlag ==
    /\ phase = "open"
    /\ \A c \in Clients : rpc[c] = "idle"
    /\ phase' = "dropping"
    /\ shutting_down' = TRUE
    /\ UNCHANGED <<cleanup, shrunk, vmVars, taskVars, notifyVars, calls, rpc>>

(* Mutant: the pool is drained whoever else holds a reference.             *)
DropAlwaysDrains ==
    /\ phase = "dropping"
    /\ phase' = "gone"
    /\ cleanup' = "draining"
    /\ UNCHANGED <<shutting_down, shrunk, vmVars, taskVars, notifyVars, calls, rpc>>

DropChecksCount ==
    /\ phase = "dropping"
    /\ phase' = "gone"
    /\ cleanup' = IF StrongCount = 1 THEN "draining" ELSE cleanup
    /\ UNCHANGED <<shutting_down, shrunk, vmVars, taskVars, notifyVars, calls, rpc>>

(* The cleanup task: drain the pool from the front, killing each VM.       *)
CleanupKills ==
    /\ cleanup = "draining" /\ available # <<>>
    /\ available' = Tail(available)
    /\ running' = running \ {Head(available)}
    /\ dirty' = dirty \ {Head(available)}
    /\ UNCHANGED <<poolVars, held, killing, pushing, taskVars, notifyVars, calls, rpc>>

CleanupEnds ==
    /\ cleanup = "draining" /\ available = <<>>
    /\ cleanup' = "done"
    /\ UNCHANGED <<phase, shutting_down, shrunk, vmVars, taskVars, notifyVars, calls, rpc>>

(* The guest of a VM halts, or the client that holds the VM kills it.      *)
VmExits(v) ==
    /\ v \in running
    /\ running' = running \ {v}
    /\ UNCHANGED <<poolVars, available, held, killing, pushing, dirty, taskVars, notifyVars,
                   calls, rpc>>

-----------------------------------------------------------------------------
NewStep == (\E v \in VMs : NewSpawns(v)) \/ NewFails \/ NewReturns

ReserveStep(c) ==
    \/ rpc[c] = "top" /\ ReserveEnable(c)
    \/ ReservePops(c)
    \/ ReserveFindsNone(c)
    \/ ReserveWakes(c)

TaskStep ==
    \/ \E v \in VMs : TaskKills(v) \/ TaskSpawns(v) \/ TaskPushes(v)
    \/ TaskNotifies

Next ==
    \/ NewStep
    \/ \E c \in Clients :
          \/ ReserveEnable(c) \/ ReservePops(c) \/ ReserveFindsNone(c) \/ ReserveWakes(c)
          \/ ReserveCancelled(c) \/ TryReserve(c) \/ DropPooledVm(c)
    \/ TaskStep \/ TaskSpawnFails
    \/ DropSetsFlag \/ DropChecksCount \/ CleanupKills \/ CleanupEnds
    \/ \E v \in VMs : VmExits(v)

Spec == Init /\ [][Next]_vars

(* The runtime polls every task that is ready, a client drops the VM it    *)
(* holds after a while, and a backend finishes starting a VM.              *)
FairSpec ==
    /\ Spec
    /\ WF_vars(NewStep)
    /\ \A c \in Clients : WF_vars(ReserveStep(c)) /\ WF_vars(DropPooledVm(c))
    /\ WF_vars(TaskStep)

-----------------------------------------------------------------------------
(* Types of every variable of the pool.                                    *)
TypeOK ==
    /\ phase \in Phases
    /\ shutting_down \in BOOLEAN /\ shrunk \in BOOLEAN
    /\ cleanup \in {"none", "draining", "done"}
    /\ available \in Seq(VMs)
    /\ held \in [Clients -> VMs \cup {NoVm}]
    /\ killing \subseteq VMs /\ pushing \subseteq VMs
    /\ running \subseteq VMs /\ dirty \subseteq VMs
    /\ spawning \in Nat /\ notifying \in Nat
    /\ calls \in [Clients -> Nat]
    /\ rpc \in [Clients -> {"idle", "top", "locking", "waiting"}]
    /\ fut \in [Clients -> {"none", "waiting", "one", "done"}]
    /\ waiters \in Seq(Clients)
    /\ permit \in BOOLEAN

(* pool/mod.rs:120-128,212-224: a VM is in one place: never in the pool    *)
(* twice, never with two clients, never in the pool or with a client while *)
(* a drop task still kills or pushes it.                                   *)
SoleOwner ==
    /\ \A i, j \in DOMAIN available : available[i] = available[j] => i = j
    /\ \A c, d \in Clients : held[c] = held[d] /\ held[c] # NoVm => c = d
    /\ \A c \in Clients : held[c] \notin InPool \cup killing \cup pushing
    /\ InPool \cap (killing \cup pushing) = {}
    /\ killing \cap pushing = {}

(* pool/mod.rs:43 "ensuring fresh state for each reservation": no VM a     *)
(* client has had is ever in the pool or on its way back into it.          *)
FreshForReserve == dirty \cap (InPool \cup pushing) = {}

(* While the VmPool value exists no VM runs that nobody can kill: it is in *)
(* the pool, with a client or with a drop task.                            *)
NothingLostWhileOpen ==
    phase \in {"creating", "open", "dropping"} => running \subseteq Owned

(* pool/mod.rs:180-188: once the cleanup task is through no VM runs: being *)
(* the last reference, it met every VM there was.                          *)
CleanupLeavesNothing == cleanup = "done" => running = {}

(* pool/mod.rs:102,110-115: a client asleep in notified.await while VMs    *)
(* are in the pool is covered: there is a wake-up on its way, or a client  *)
(* about to look, for each of those VMs.                                   *)
Awake(c) == rpc[c] \in {"top", "locking"} \/ fut[c] = "one"
WakeupsCoverVms ==
    (\E c \in Clients : rpc[c] = "waiting" /\ fut[c] = "waiting")
        => Len(available) <= notifying + Cardinality({d \in Clients : Awake(d)})

(* pool/mod.rs:102 "will block asynchronously until a VM becomes           *)
(* available": nobody sleeps beside a VM with no wake-up on its way.       *)
NoStrandedWaiter ==
    (\E c \in Clients : rpc[c] = "waiting" /\ fut[c] = "waiting") /\ available # <<>>
        => notifying > 0 \/ \E d \in Clients : Awake(d)

(* pool/mod.rs:108-133: if spawns succeed, VMs are given back and the      *)
(* competing reservations are finite, every reserve() returns.             *)
ReserveReturns == \A c \in Clients : rpc[c] # "idle" ~> rpc[c] = "idle" \/ shrunk

(* pool/mod.rs:4 "it is killed and replaced with a fresh VM": once the     *)
(* clients have had their VMs a pool that could spawn every replacement is *)
(* full again, and stays so.                                               *)
PoolRefills == <>[](phase = "open" /\ ~shrunk => Len(available) = Size)
=============================================================================
