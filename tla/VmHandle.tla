------------------------------ MODULE VmHandle ------------------------------
(***************************************************************************)
(* crates/capsa/src/handle.rs: the VmHandle a user shares between tasks,   *)
(* over the KVM backend of module KvmVm.  The handle keeps its own idea of *)
(* the VM in status and exit_code and follows the backend only when one of *)
(* its calls returns.  The KVM backend's calls return no error, so the     *)
(* paths to VmStatus::Failed are absent here.                              *)
(***************************************************************************)
EXTENDS KvmVm

CONSTANTS
    Waiters,        \* callers that call wait() or wait_timeout()
    WaitTimeouts    \* whether wait_timeout() is used, and may expire

ASSUME WaitersAssumption == Waiters \subseteq Callers
ASSUME WaitTimeoutsAssumption == WaitTimeouts \in BOOLEAN

VARIABLES
    status,     \* VmHandle.status
    exit_code,  \* VmHandle.exit_code
    temp_files, \* whether the temporary files still exist
    hpc         \* where each caller is in a call on the VmHandle

handleOnly == <<status, exit_code, temp_files, hpc>>
vars == <<kvmVars, handleOnly>>

Init ==
    /\ KvmInit
    /\ status = "running" /\ exit_code = NoCode /\ temp_files = TRUE
    /\ hpc = [c \in Callers |-> "idle"]

-----------------------------------------------------------------------------
HGoto(c, where) == hpc' = [hpc EXCEPT ![c] = where]

Enter(c, where) ==
    /\ phase = "up" /\ hpc[c] = "idle" /\ callsLeft > 0
    /\ callsLeft' = callsLeft - 1
    /\ HGoto(c, where)

(* A backend call made by a VmHandle call in progress.                     *)
Backend(c, where) == Call(c, where) /\ UNCHANGED callsLeft

Returned(c, where, result) ==
    /\ hpc[c] = where /\ bpc[c] = "idle" /\ ret[c].result = result

(* status.store(STATUS_STOPPED) and cleanup_temp_files at a call's end.    *)
Stopped(c) ==
    /\ status' = "stopped" /\ temp_files' = FALSE
    /\ HGoto(c, "idle")
    /\ UNCHANGED kvmVars

(* start: load and compare, then store STARTING and RUNNING.  No call of   *)
(* the backend is made.  AlreadyRunning changes nothing.                   *)
StartChecks(c) ==
    /\ status # "running"
    /\ Enter(c, "start")
    /\ UNCHANGED <<phase, vcpuVars, handleVars, bpc, sig, ret, killed, status, exit_code, temp_files>>

StartStores(c) ==
    /\ hpc[c] = "start"
    /\ status' = "running"
    /\ HGoto(c, "idle")
    /\ UNCHANGED <<kvmVars, exit_code, temp_files>>

(* stop_with_timeout: load and compare (NotRunning changes nothing); store *)
(* STOPPING and shut the backend down; wait.  KVM's shutdown is kill: it   *)
(* returns with every thread joined, the exit code sent or the channel     *)
(* closed, so wait is ready when timeout first polls it and the branch of  *)
(* the expired grace period is dead.                                       *)
StopChecks(c) ==
    /\ status = "running"
    /\ Enter(c, "stop")
    /\ UNCHANGED <<phase, vcpuVars, handleVars, bpc, sig, ret, killed, status, exit_code, temp_files>>

(* Mutant: the files are removed before the VM is shut down.               *)
StopCleansUpFirst(c) ==
    /\ hpc[c] = "stop"
    /\ status' = "stopping" /\ temp_files' = FALSE
    /\ Backend(c, "kill")
    /\ HGoto(c, "shutdown")
    /\ UNCHANGED exit_code

StopShutsDown(c) ==
    /\ hpc[c] = "stop"
    /\ status' = "stopping"
    /\ Backend(c, "kill")
    /\ HGoto(c, "shutdown")
    /\ UNCHANGED <<exit_code, temp_files>>

StopWaits(c) ==
    /\ Returned(c, "shutdown", "killed")
    /\ Backend(c, "wait")
    /\ HGoto(c, "grace")
    /\ UNCHANGED <<status, exit_code, temp_files>>

StopGetsCode(c) ==
    /\ Returned(c, "grace", "code")
    /\ exit_code' = ret[c].code
    /\ Stopped(c)

(* kill.                                                                   *)
KillBegins(c) ==
    /\ Enter(c, "kill")
    /\ Call(c, "kill")
    /\ UNCHANGED <<status, exit_code, temp_files>>

KillEnds(c) ==
    /\ Returned(c, "kill", "killed")
    /\ Stopped(c)
    /\ UNCHANGED exit_code

(* wait, and wait_timeout, which drops the wait when the time is up.       *)
WaitBegins(c) ==
    /\ c \in Waiters
    /\ Enter(c, "wait")
    /\ Call(c, "wait")
    /\ UNCHANGED <<status, exit_code, temp_files>>

WaitEnds(c) ==
    /\ Returned(c, "wait", "code")
    /\ exit_code' = ret[c].code
    /\ Stopped(c)

WaitTimesOut(c) ==
    /\ WaitTimeouts
    /\ hpc[c] = "wait"
    /\ WaitCancelled(c)
    /\ HGoto(c, "idle")
    /\ UNCHANGED <<status, exit_code, temp_files>>

(* console.                                                                *)
ConsoleBegins(c) ==
    /\ Enter(c, "console")
    /\ Call(c, "console")
    /\ UNCHANGED <<status, exit_code, temp_files>>

ConsoleEnds(c) ==
    /\ Returned(c, "console", "stream") \/ Returned(c, "console", "ConsoleNotEnabled")
    /\ HGoto(c, "idle")
    /\ UNCHANGED <<kvmVars, status, exit_code, temp_files>>

-----------------------------------------------------------------------------
HandleStep(c) ==
    \/ StartStores(c)
    \/ StopShutsDown(c) \/ StopWaits(c) \/ StopGetsCode(c)
    \/ KillEnds(c) \/ WaitEnds(c) \/ ConsoleEnds(c)

Next ==
    \/ KvmStep /\ UNCHANGED handleOnly
    \/ \E c \in Callers :
          \/ StartChecks(c) \/ StopChecks(c) \/ KillBegins(c) \/ WaitBegins(c) \/ ConsoleBegins(c)
          \/ HandleStep(c)
          \/ WaitTimesOut(c)

Spec == Init /\ [][Next]_vars

(* The host schedules every thread and polls every task.  Nothing makes a  *)
(* guest leave KVM_RUN.                                                    *)
FairSpec ==
    /\ Spec
    /\ WF_vars(StartStep /\ UNCHANGED handleOnly)
    /\ \A i \in VCpus : WF_vars(VCpuStep(i) /\ UNCHANGED handleOnly)
    /\ \A c \in Callers :
          WF_vars(CallStep(c) /\ UNCHANGED handleOnly) /\ WF_vars(HandleStep(c))

(* The same with a guest that keeps accessing devices or halts.            *)
ChattySpec ==
    FairSpec /\ \A i \in VCpus : WF_vars(GuestStep(i) /\ UNCHANGED handleOnly)

-----------------------------------------------------------------------------
(* handle.rs:86 "temp files to clean up when VM stops", kvm handle.rs:72:  *)
(* a VM is reported Stopped, and its files are removed, only when a vCPU   *)
(* has stopped or an earlier wait has taken the exit receiver.             *)
StoppedJustified ==
    status = "stopped" \/ ~temp_files
        => (\E i \in VCpus : vcpu[i] \in {"exiting", "dead"}) \/ rx # "handle"

(* handle.rs:142-145: stop, once begun, returns.                           *)
StopReturns == \A c \in Callers : hpc[c] = "stop" ~> hpc[c] = "idle"
=============================================================================
