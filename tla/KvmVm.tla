-------------------------------- MODULE KvmVm --------------------------------
(***************************************************************************)
(* One VM of the KVM backend: the vCPU threads start_vm creates            *)
(* (crates/linux/kvm/src/vm.rs, arch/x86_64/vcpu.rs) and the calls that    *)
(* KvmVmHandle (crates/linux/kvm/src/handle.rs) offers to concurrent       *)
(* callers: wait, kill (shutdown is kill) and console_stream.              *)
(*                                                                         *)
(* A vCPU thread is at the top of its loop, between the check of running   *)
(* and KVM_RUN ("entering"), in the guest, past its try_send ("exiting")   *)
(* or dead.  SIGUSR1 interrupts KVM_RUN only: its handler does nothing, so *)
(* a signal that arrives while the thread is elsewhere leaves no trace.    *)
(***************************************************************************)
EXTENDS Integers, FiniteSets, Sequences

CONSTANTS
    Callers,        \* tasks that share the handle
    NCpu,           \* config.resources.cpus
    StartMayFail,   \* whether creating a vCPU may fail
    MaxCalls        \* bound: calls made on the handle

ASSUME CallersAssumption == Callers \cap {"handle", "dropped", "nobody"} = {}
ASSUME NCpuAssumption == NCpu \in Nat \ {0}
ASSUME MaxCallsAssumption == MaxCalls \in Nat
ASSUME StartMayFailAssumption == StartMayFail \in BOOLEAN

VARIABLES
    phase,      \* start_vm: starting, up (it returned a handle), failed
    vcpu,       \* where each vCPU thread is
    running,    \* the shared running flag
    chan,       \* exit codes in the exit channel, capacity 1
    rx,         \* the receiver: in the handle, with a waiter, or dropped
    joins,      \* vcpu_handles not yet joined
    joiner,     \* the caller that holds the lock of vcpu_handles
    fds,        \* host ends of the console pipes the handle still has
    bpc,        \* where each caller is in a call on the handle
    sig,        \* vCPU threads each killer has yet to signal
    ret,        \* what each caller's last call returned
    callsLeft,  \* calls that may still be made
    firstCode,  \* history: the code of the first vCPU to stop
    killed      \* history: whether kill was ever called

vcpuVars == <<vcpu, running, chan, firstCode>>
handleVars == <<rx, joins, joiner, fds>>
callVars == <<bpc, sig, ret, callsLeft>>
kvmVars == <<phase, vcpuVars, handleVars, callVars, killed>>

VCpus == 0 .. NCpu - 1
NoCode == 99
Nobody == "nobody"
Codes == {-1, 0, 1}
NoResult == [result |-> "none", code |-> NoCode]
Alive == {i \in VCpus : vcpu[i] \notin {"unborn", "dead"}}

KvmInit ==
    /\ phase = "starting"
    /\ vcpu = [i \in VCpus |-> "unborn"]
    /\ running = TRUE
    /\ chan = <<>> /\ rx = "handle"
    /\ joins = {} /\ joiner = Nobody
    /\ fds = {"read", "write"}
    /\ bpc = [c \in Callers |-> "idle"]
    /\ sig = [c \in Callers |-> {}]
    /\ ret = [c \in Callers |-> NoResult]
    /\ callsLeft = MaxCalls
    /\ firstCode = NoCode /\ killed = FALSE

-----------------------------------------------------------------------------
(* start_vm: create the vCPU threads in order; a failure before, between   *)
(* or after them (setting up the console input) leaves with `?` and drops  *)
(* the JoinHandles made so far.                                            *)

SpawnVCpu(i) ==
    /\ phase = "starting"
    /\ vcpu[i] = "unborn" /\ \A j \in 0 .. i - 1 : vcpu[j] # "unborn"
    /\ vcpu' = [vcpu EXCEPT ![i] = "top"]
    /\ joins' = joins \cup {i}
    /\ UNCHANGED <<phase, running, chan, firstCode, rx, joiner, fds, callVars, killed>>

StartFails ==
    /\ phase = "starting" /\ StartMayFail
    /\ phase' = "failed"
    /\ rx' = "dropped" /\ joins' = {} /\ fds' = {}
    /\ UNCHANGED <<vcpuVars, joiner, callVars, killed>>

StartReturns ==
    /\ phase = "starting"
    /\ \A i \in VCpus : vcpu[i] # "unborn"
    /\ phase' = "up"
    /\ UNCHANGED <<vcpuVars, handleVars, callVars, killed>>

-----------------------------------------------------------------------------
(* run_vcpu.                                                               *)

(* exit_tx.try_send: fails when the channel is full or has no receiver.    *)
TrySend(code) ==
    /\ chan' = IF chan = <<>> /\ rx # "dropped" THEN <<code>> ELSE chan
    /\ firstCode' = IF firstCode = NoCode THEN code ELSE firstCode

StopWith(i, code) ==
    /\ TrySend(code)
    /\ vcpu' = [vcpu EXCEPT ![i] = "exiting"]
    /\ UNCHANGED running

VCpuChecksRunning(i) ==
    /\ vcpu[i] = "top"
    /\ IF running
       THEN vcpu' = [vcpu EXCEPT ![i] = "entering"] /\ UNCHANGED <<running, chan, firstCode>>
       ELSE StopWith(i, -1)
    /\ UNCHANGED <<phase, handleVars, callVars, killed>>

VCpuEnters(i) ==
    /\ vcpu[i] = "entering"
    /\ vcpu' = [vcpu EXCEPT ![i] = "guest"]
    /\ UNCHANGED <<phase, running, chan, firstCode, handleVars, callVars, killed>>

(* Hlt or Shutdown, and an error other than EINTR and EAGAIN.              *)
GuestHalts(i) ==
    /\ vcpu[i] = "guest"
    /\ \E code \in {0, 1} : StopWith(i, code)
    /\ UNCHANGED <<phase, handleVars, callVars, killed>>

(* A port or MMIO access, served by the devices.                           *)
GuestAccessesDevice(i) ==
    /\ vcpu[i] = "guest"
    /\ vcpu' = [vcpu EXCEPT ![i] = "top"]
    /\ UNCHANGED <<phase, running, chan, firstCode, handleVars, callVars, killed>>

(* Mutant: a vCPU that ends leaves running set.                            *)
VCpuEnds(i) ==
    /\ vcpu[i] = "exiting"
    /\ vcpu' = [vcpu EXCEPT ![i] = "dead"]
    /\ UNCHANGED <<phase, running, chan, firstCode, handleVars, callVars, killed>>

VCpuClearsRunning(i) ==
    /\ vcpu[i] = "exiting"
    /\ running' = FALSE
    /\ vcpu' = [vcpu EXCEPT ![i] = "dead"]
    /\ UNCHANGED <<phase, chan, firstCode, handleVars, callVars, killed>>

VCpuStep(i) == VCpuChecksRunning(i) \/ VCpuEnters(i) \/ VCpuClearsRunning(i)
GuestStep(i) == GuestHalts(i) \/ GuestAccessesDevice(i)

-----------------------------------------------------------------------------
Call(c, where) ==
    /\ bpc[c] = "idle"
    /\ bpc' = [bpc EXCEPT ![c] = where]
    /\ ret' = [ret EXCEPT ![c] = NoResult]
    /\ UNCHANGED <<phase, vcpuVars, handleVars, sig, killed>>

Goto(c, where) == bpc' = [bpc EXCEPT ![c] = where] /\ UNCHANGED <<ret, callsLeft>>

Return(c, result, code) ==
    /\ bpc' = [bpc EXCEPT ![c] = "idle"]
    /\ ret' = [ret EXCEPT ![c] = [result |-> result, code |-> code]]
    /\ UNCHANGED callsLeft

(* wait: only the first caller finds the receiver.                         *)
WaitTakes(c) ==
    /\ bpc[c] = "wait"
    /\ IF rx = "handle"
       THEN rx' = c /\ Goto(c, "recv")
       ELSE UNCHANGED rx /\ Return(c, "code", 0)
    /\ UNCHANGED <<phase, vcpuVars, joins, joiner, fds, sig, killed>>

WaitReceives(c) ==
    /\ bpc[c] = "recv"
    /\ \/ chan # <<>> /\ Return(c, "code", Head(chan)) /\ chan' = <<>>
       \/ chan = <<>> /\ Alive = {} /\ Return(c, "code", 0) /\ UNCHANGED chan
    /\ rx' = "dropped"
    /\ UNCHANGED <<phase, vcpu, running, firstCode, joins, joiner, fds, sig, killed>>

(* The caller drops the wait() future (wait_timeout, stop): the receiver   *)
(* goes with it.                                                           *)
WaitCancelled(c) ==
    /\ bpc[c] = "recv"
    /\ Return(c, "cancelled", NoCode)
    /\ rx' = "dropped" /\ chan' = <<>>
    /\ UNCHANGED <<phase, vcpu, running, firstCode, joins, joiner, fds, sig, killed>>

(* Mutant: kill only sends the signals.                                    *)
KillKeepsRunning(c) ==
    /\ bpc[c] = "kill"
    /\ killed' = TRUE
    /\ sig' = [sig EXCEPT ![c] = VCpus]
    /\ Goto(c, "signal")
    /\ UNCHANGED <<phase, vcpuVars, handleVars>>

(* kill: clear running, signal every thread, join every thread, close the  *)
(* console's write end and end the console input task.                     *)
KillClearsRunning(c) ==
    /\ bpc[c] = "kill"
    /\ running' = FALSE /\ killed' = TRUE
    /\ sig' = [sig EXCEPT ![c] = VCpus]
    /\ Goto(c, "signal")
    /\ UNCHANGED <<phase, vcpu, chan, firstCode, handleVars>>

KillSignals(c, i) ==
    /\ bpc[c] = "signal"
    /\ i \in sig[c] /\ \A j \in sig[c] : i <= j
    /\ sig' = [sig EXCEPT ![c] = @ \ {i}]
    /\ vcpu' = [vcpu EXCEPT ![i] = IF @ = "guest" THEN "top" ELSE @]
    /\ UNCHANGED <<phase, running, chan, firstCode, handleVars, bpc, ret, callsLeft, killed>>

KillLocksHandles(c) ==
    /\ bpc[c] = "signal" /\ sig[c] = {}
    /\ joiner = Nobody
    /\ joiner' = c
    /\ Goto(c, "join")
    /\ UNCHANGED <<phase, vcpuVars, rx, joins, fds, sig, killed>>

(* Mutant: the JoinHandle is dropped, which detaches the thread.           *)
KillDetaches(c, i) ==
    /\ bpc[c] = "join" /\ i \in joins /\ \A j \in joins : i <= j
    /\ joins' = joins \ {i}
    /\ UNCHANGED <<phase, vcpuVars, rx, joiner, fds, callVars, killed>>

KillJoins(c, i) ==
    /\ bpc[c] = "join" /\ i \in joins /\ \A j \in joins : i <= j
    /\ vcpu[i] = "dead"
    /\ joins' = joins \ {i}
    /\ UNCHANGED <<phase, vcpuVars, rx, joiner, fds, callVars, killed>>

KillReturns(c) ==
    /\ bpc[c] = "join" /\ joins = {}
    /\ fds' = fds \ {"write"}
    /\ joiner' = Nobody
    /\ Return(c, "killed", NoCode)
    /\ UNCHANGED <<phase, vcpuVars, rx, joins, sig, killed>>

(* console_stream: take the read end, then the write end.                  *)
ConsoleTakesRead(c) ==
    /\ bpc[c] = "console"
    /\ fds' = fds \ {"read"}
    /\ Goto(c, IF "read" \in fds THEN "console_got_read" ELSE "console_no_read")
    /\ UNCHANGED <<phase, vcpuVars, rx, joins, joiner, sig, killed>>

ConsoleTakesWrite(c) ==
    /\ bpc[c] \in {"console_got_read", "console_no_read"}
    /\ fds' = fds \ {"write"}
    /\ IF bpc[c] = "console_got_read" /\ "write" \in fds
       THEN Return(c, "stream", NoCode)
       ELSE Return(c, "ConsoleNotEnabled", NoCode)
    /\ UNCHANGED <<phase, vcpuVars, rx, joins, joiner, sig, killed>>

CallStep(c) ==
    \/ WaitTakes(c) \/ WaitReceives(c)
    \/ KillClearsRunning(c) \/ KillLocksHandles(c) \/ KillReturns(c)
    \/ \E i \in VCpus : KillSignals(c, i) \/ KillJoins(c, i)
    \/ ConsoleTakesRead(c) \/ ConsoleTakesWrite(c)

StartStep == (\E i \in VCpus : SpawnVCpu(i)) \/ StartReturns

(* Steps of the VM and of the calls in progress.                           *)
KvmStep ==
    \/ StartStep \/ StartFails
    \/ \E i \in VCpus : VCpuStep(i) \/ GuestStep(i)
    \/ \E c \in Callers : CallStep(c)

-----------------------------------------------------------------------------
(* handle.rs:101-104: whoever returns from kill, be it the second killer   *)
(* that found vcpu_handles drained, leaves no vCPU thread behind.          *)
KilledMeansDead == \A c \in Callers : ret[c].result = "killed" => Alive = {}

(* vcpu.rs:271-274 "only the first vCPU to exit will have its code         *)
(* recorded": what the channel holds is the code of the first vCPU to      *)
(* stop, and it is -1 (:267 "Killed by external signal") only after a      *)
(* kill, also when other vCPUs see the flag a halt has cleared.            *)
FirstCodeRecorded == chan # <<>> => chan[1] = firstCode /\ (chan[1] = -1 => killed)

(* vm.rs:75-77 "This causes vcpu.run() to return with EINTR, allowing the  *)
(* thread to check the `running` flag and exit gracefully": kill returns.  *)
KillReturnsEventually == \A c \in Callers : bpc[c] = "kill" ~> ret[c].result = "killed"

(* vcpu.rs:273 "Other vCPUs will detect the `running` flag is false": when *)
(* one vCPU stops, all do.                                                 *)
OneStopsAllStop == (\E i \in VCpus : vcpu[i] = "dead") /\ phase = "up" ~> Alive = {}
=============================================================================
