--------------------------- MODULE VmHandleProofs ---------------------------
(***************************************************************************)
(* Proofs about VmHandle and KvmVm, for any number of vCPUs and of callers *)
(* that share the handle: kill leaves no thread, the exit code recorded is *)
(* the first one, and a VM is reported stopped only with a cause.          *)
(***************************************************************************)
EXTENDS VmHandle, TLAPS

Types ==
    /\ phase \in {"starting", "up", "failed"}
    /\ vcpu \in [VCpus -> {"unborn", "top", "entering", "guest", "exiting", "dead"}]
    /\ running \in BOOLEAN /\ killed \in BOOLEAN
    /\ joins \subseteq VCpus
    /\ DOMAIN bpc = Callers /\ DOMAIN ret = Callers /\ DOMAIN hpc = Callers

(* There are no calls before start_vm has returned a handle.               *)
CallsLater ==
    phase # "up" => \A c \in Callers : bpc[c] = "idle" /\ hpc[c] = "idle" /\ ret[c].result = "none"

(* A thread is started with its JoinHandle, which goes when it is joined.  *)
ThreadsJoined ==
    /\ phase = "starting" => joins = {i \in VCpus : vcpu[i] # "unborn"}
    /\ phase = "up" => \A i \in VCpus : vcpu[i] # "unborn" /\ (i \in joins \/ vcpu[i] = "dead")
    /\ \A c \in Callers : ret[c].result = "killed" => joins = {}

(* The exit channel holds the first code until somebody takes it, and      *)
(* nobody stops before there is one.                                       *)
CodeRecorded ==
    /\ firstCode = NoCode =>
          chan = <<>> /\ (running \/ killed) /\ \A i \in VCpus : vcpu[i] \notin {"exiting", "dead"}
    /\ chan = <<>> /\ rx # "dropped" => firstCode = NoCode
    /\ chan # <<>> => chan = <<firstCode>>
    /\ firstCode = -1 => killed

(* A wait that returned has used the receiver.                             *)
ReceiverTaken == \A c \in Callers : ret[c].result = "code" => rx # "handle"

IInv ==
    /\ Types /\ CallsLater /\ ThreadsJoined /\ CodeRecorded /\ ReceiverTaken /\ StoppedJustified

-----------------------------------------------------------------------------
(* A VM that start_vm has not begun satisfies the invariant.               *)
LEMMA InitIInv == Init => IInv
  <1> SUFFICES ASSUME Init PROVE IInv
    OBVIOUS
  <1> USE DEF Init, KvmInit
  <1>1. Types
    BY Zenon DEF Types
  <1>2. CallsLater /\ ReceiverTaken
    BY DEF CallsLater, ReceiverTaken, NoResult
  <1>3. ThreadsJoined
    BY DEF ThreadsJoined, NoResult
  <1>4. CodeRecorded /\ StoppedJustified
    BY DEF CodeRecorded, StoppedJustified, NoCode
  <1> QED BY <1>1, <1>2, <1>3, <1>4 DEF IInv

(* start_vm: a thread comes with its JoinHandle, and a failure drops all.  *)
LEMMA StartKeeps == IInv /\ (StartStep \/ StartFails) /\ UNCHANGED handleOnly => IInv'
  <1> SUFFICES ASSUME IInv, StartStep \/ StartFails, UNCHANGED handleOnly PROVE IInv'
    OBVIOUS
  <1> USE DEF handleOnly, vcpuVars, handleVars, callVars
  <1>1. ASSUME NEW i \in VCpus, SpawnVCpu(i) PROVE IInv'
    BY <1>1 DEF SpawnVCpu, IInv, Types, CallsLater, ThreadsJoined, CodeRecorded, ReceiverTaken,
                StoppedJustified
  <1>2. CASE StartReturns
    BY <1>2 DEF StartReturns, IInv, Types, CallsLater, ThreadsJoined, CodeRecorded, ReceiverTaken,
                StoppedJustified
  <1>3. CASE StartFails
    BY <1>3 DEF StartFails, IInv, Types, CallsLater, ThreadsJoined, CodeRecorded, ReceiverTaken,
                StoppedJustified
  <1> QED BY <1>1, <1>2, <1>3 DEF StartStep

(* run_vcpu: the first thread to stop finds an empty channel or none at    *)
(* all, and sees running cleared by nobody but a kill.                     *)
LEMMA VCpuKeeps ==
    ASSUME NEW i \in VCpus
    PROVE  IInv /\ (VCpuStep(i) \/ GuestStep(i)) /\ UNCHANGED handleOnly => IInv'
  <1> SUFFICES ASSUME IInv, VCpuStep(i) \/ GuestStep(i), UNCHANGED handleOnly PROVE IInv'
    OBVIOUS
  <1> USE DEF handleOnly, vcpuVars, handleVars, callVars
  <1>1. ASSUME NEW code \in {-1, 0, 1}, StopWith(i, code), code = -1 => ~running,
               vcpu[i] \in {"top", "guest"}, UNCHANGED <<phase, handleVars, callVars, killed>>
        PROVE  IInv'
    <2>1. code # NoCode
      BY DEF NoCode
    <2>2. CodeRecorded'
      <3>1. /\ chan' = IF chan = <<>> /\ rx # "dropped" THEN <<code>> ELSE chan
            /\ firstCode' = IF firstCode = NoCode THEN code ELSE firstCode
        BY <1>1 DEF StopWith, TrySend
      <3>2. firstCode' # NoCode
        BY <2>1, <3>1
      <3>3. firstCode' = -1 => killed'
        BY <1>1, <3>1 DEF IInv, CodeRecorded
      <3>4. chan' # <<>> => chan' = <<firstCode'>>
        BY <3>1 DEF IInv, CodeRecorded
      <3>5. chan' = <<>> /\ rx' # "dropped" => firstCode' = NoCode
        BY <1>1, <3>1
      <3> QED BY <3>2, <3>3, <3>4, <3>5 DEF CodeRecorded
    <2> QED BY <1>1, <2>2 DEF StopWith, TrySend, IInv, Types, CallsLater, ThreadsJoined, ReceiverTaken,
                              StoppedJustified
  <1>2. CASE VCpuChecksRunning(i)
    <2>1. CASE running
      BY <1>2, <2>1 DEF VCpuChecksRunning, IInv, Types, CallsLater, ThreadsJoined, CodeRecorded,
                        ReceiverTaken, StoppedJustified
    <2>2. CASE ~running
      BY <1>1, <1>2, <2>2 DEF VCpuChecksRunning
    <2> QED BY <2>1, <2>2
  <1>3. CASE VCpuEnters(i)
    BY <1>3 DEF VCpuEnters, IInv, Types, CallsLater, ThreadsJoined, CodeRecorded, ReceiverTaken,
                StoppedJustified
  <1>4. CASE VCpuClearsRunning(i)
    BY Zenon, <1>4 DEF VCpuClearsRunning, IInv, Types, CallsLater, ThreadsJoined, CodeRecorded,
                ReceiverTaken, StoppedJustified
  <1>5. CASE GuestHalts(i)
    BY <1>1, <1>5 DEF GuestHalts
  <1>6. CASE GuestAccessesDevice(i)
    BY <1>6 DEF GuestAccessesDevice, IInv, Types, CallsLater, ThreadsJoined, CodeRecorded,
                ReceiverTaken, StoppedJustified
  <1> QED BY <1>2, <1>3, <1>4, <1>5, <1>6 DEF VCpuStep, GuestStep

(* The calls of KvmVmHandle.  kill returns when every JoinHandle was taken *)
(* from the list by somebody who waited for its thread.                    *)
LEMMA CallKeeps ==
    ASSUME NEW c \in Callers
    PROVE  IInv /\ CallStep(c) /\ UNCHANGED handleOnly => IInv'
  <1> SUFFICES ASSUME IInv, CallStep(c), UNCHANGED handleOnly PROVE IInv'
    OBVIOUS
  <1> USE DEF handleOnly, vcpuVars, handleVars, callVars
  <1>0. /\ Types /\ CallsLater /\ ThreadsJoined /\ CodeRecorded /\ ReceiverTaken
        /\ c # "handle" /\ c # "dropped"
    BY CallersAssumption DEF IInv
  <1>1. bpc[c] # "idle" => phase = "up"
    BY <1>0 DEF CallsLater
  <1>2. CASE WaitTakes(c)
    BY <1>0, <1>1, <1>2
       DEF WaitTakes, Goto, Return, IInv, Types, CallsLater, ThreadsJoined, CodeRecorded,
           ReceiverTaken, StoppedJustified
  <1>3. CASE WaitReceives(c)
    BY <1>0, <1>1, <1>3
       DEF WaitReceives, Return, IInv, Types, CallsLater, ThreadsJoined, CodeRecorded,
           ReceiverTaken, StoppedJustified
  <1>4. CASE KillClearsRunning(c)
    BY Zenon, <1>0, <1>1, <1>4
       DEF KillClearsRunning, Goto, IInv, Types, CallsLater, ThreadsJoined, CodeRecorded,
           ReceiverTaken, StoppedJustified
  <1>5. CASE KillLocksHandles(c)
    BY <1>0, <1>1, <1>5
       DEF KillLocksHandles, Goto, IInv, Types, CallsLater, ThreadsJoined, CodeRecorded,
           ReceiverTaken, StoppedJustified
  <1>6. CASE KillReturns(c)
    BY <1>0, <1>1, <1>6
       DEF KillReturns, Return, NoCode, IInv, Types, CallsLater, ThreadsJoined, CodeRecorded,
           ReceiverTaken, StoppedJustified
  <1>7. ASSUME NEW i \in VCpus, KillSignals(c, i) PROVE IInv'
    BY <1>0, <1>1, <1>7 DEF KillSignals, IInv, Types, CallsLater, ThreadsJoined, CodeRecorded,
           ReceiverTaken, StoppedJustified
  <1>8. ASSUME NEW i \in VCpus, KillJoins(c, i) PROVE IInv'
    BY <1>0, <1>1, <1>8 DEF KillJoins, IInv, Types, CallsLater, ThreadsJoined, CodeRecorded,
           ReceiverTaken, StoppedJustified
  <1>9. CASE ConsoleTakesRead(c)
    BY <1>0, <1>1, <1>9
       DEF ConsoleTakesRead, Goto, IInv, Types, CallsLater, ThreadsJoined, CodeRecorded,
           ReceiverTaken, StoppedJustified
  <1>10. CASE ConsoleTakesWrite(c)
    BY <1>0, <1>1, <1>10
       DEF ConsoleTakesWrite, Return, NoCode, IInv, Types, CallsLater, ThreadsJoined, CodeRecorded,
           ReceiverTaken, StoppedJustified
  <1> QED BY <1>2, <1>3, <1>4, <1>5, <1>6, <1>7, <1>8, <1>9, <1>10 DEF CallStep

(* The calls of VmHandle: each enters the backend or comes back from it.   *)
LEMMA HandleKeeps ==
    ASSUME NEW c \in Callers,
           \/ StartChecks(c) \/ StopChecks(c) \/ KillBegins(c) \/ WaitBegins(c) \/ ConsoleBegins(c)
           \/ HandleStep(c) \/ WaitTimesOut(c),
           IInv
    PROVE  IInv'
  <1> USE DEF kvmVars, vcpuVars, handleVars, callVars
  <1>0. /\ Types /\ CallsLater /\ ThreadsJoined /\ CodeRecorded /\ ReceiverTaken /\ StoppedJustified
        /\ c # "handle" /\ c # "dropped" /\ 0 \in VCpus
    BY CallersAssumption, NCpuAssumption DEF IInv, VCpus
  <1>1. bpc[c] # "idle" \/ hpc[c] # "idle" \/ ret[c].result # "none" => phase = "up"
    BY <1>0 DEF CallsLater
  <1>2. ASSUME phase = "up", DOMAIN bpc' = Callers, DOMAIN ret' = Callers, DOMAIN hpc' = Callers,
               UNCHANGED <<phase, vcpuVars, handleVars, killed>>,
               \A d \in Callers : ret'[d] = ret[d] \/ ret'[d].result = "none",
               StoppedJustified'
        PROVE  IInv'
    BY <1>0, <1>2 DEF IInv, Types, CallsLater, ThreadsJoined, CodeRecorded, ReceiverTaken
  <1>3. ASSUME NEW where, Call(c, where), phase = "up", UNCHANGED <<status, temp_files>>,
               DOMAIN hpc' = Callers
        PROVE  IInv'
    BY <1>0, <1>2, <1>3 DEF Call, NoResult, Types, StoppedJustified
  <1>4. ASSUME Stopped(c), phase = "up",
               rx # "handle" \/ \E i \in VCpus : vcpu[i] = "dead"
        PROVE  IInv'
    BY <1>0, <1>2, <1>4 DEF Stopped, HGoto, Types, StoppedJustified
  <1>5. CASE StartChecks(c) \/ StopChecks(c)
    BY <1>0, <1>2, <1>5 DEF StartChecks, StopChecks, Enter, HGoto, Types, StoppedJustified
  <1>6. CASE KillBegins(c) \/ WaitBegins(c) \/ ConsoleBegins(c)
    BY <1>0, <1>3, <1>6 DEF KillBegins, WaitBegins, ConsoleBegins, Enter, HGoto, Types
  <1>7. CASE StopShutsDown(c)
    BY <1>0, <1>1, <1>2, <1>7 DEF StopShutsDown, Backend, Call, NoResult, HGoto, Types, StoppedJustified
  <1>8. CASE StopWaits(c)
    BY <1>0, <1>1, <1>3, <1>8 DEF StopWaits, Returned, Backend, HGoto, Types
  <1>9. CASE StopGetsCode(c) \/ WaitEnds(c)
    BY <1>0, <1>1, <1>4, <1>9 DEF StopGetsCode, WaitEnds, Returned, ReceiverTaken
  <1>10. CASE KillEnds(c)
    BY <1>0, <1>1, <1>4, <1>10 DEF KillEnds, Returned, ThreadsJoined
  <1>11. CASE StartStores(c) \/ ConsoleEnds(c)
    BY <1>0, <1>1, <1>2, <1>11 DEF StartStores, ConsoleEnds, Returned, HGoto, Types, StoppedJustified
  <1>12. CASE WaitTimesOut(c)
    BY <1>0, <1>1, <1>12
       DEF WaitTimesOut, WaitCancelled, Return, HGoto, IInv, Types, CallsLater, ThreadsJoined,
           CodeRecorded, ReceiverTaken, StoppedJustified
  <1> QED BY <1>5, <1>6, <1>7, <1>8, <1>9, <1>10, <1>11, <1>12 DEF HandleStep

-----------------------------------------------------------------------------
(* The invariant holds in every reachable state of VM and handle.          *)
THEOREM VmInductive == Spec => []IInv
  <1>1. ASSUME IInv, UNCHANGED vars PROVE IInv'
    <2>1. UNCHANGED <<phase, vcpu, running, killed, joins, chan, rx, firstCode, bpc, ret, hpc,
                      status, temp_files>>
      BY <1>1 DEF vars, kvmVars, vcpuVars, handleVars, callVars, handleOnly
    <2>2. Types' /\ CallsLater'
      BY <1>1, <2>1 DEF IInv, Types, CallsLater
    <2>3. ThreadsJoined'
      BY <1>1, <2>1 DEF IInv, ThreadsJoined
    <2>4. CodeRecorded'
      BY <1>1, <2>1 DEF IInv, CodeRecorded
    <2>5. ReceiverTaken' /\ StoppedJustified'
      BY <1>1, <2>1 DEF IInv, ReceiverTaken, StoppedJustified
    <2> QED BY <2>2, <2>3, <2>4, <2>5 DEF IInv
  <1>2. IInv /\ Next => IInv'
    BY StartKeeps, VCpuKeeps, CallKeeps, HandleKeeps DEF Next, KvmStep
  <1> QED BY <1>1, <1>2, InitIInv, PTL DEF Spec

(* handle.rs:101-104: whoever returns from kill leaves no vCPU thread.     *)
THEOREM VmKilledMeansDead == Spec => []KilledMeansDead
  <1>1. IInv => KilledMeansDead
    BY DEF IInv, CallsLater, ThreadsJoined, KilledMeansDead, Alive
  <1> QED BY <1>1, VmInductive, PTL

(* vcpu.rs:271-274: the channel holds the code of the first vCPU to stop,  *)
(* and -1 only after a kill.                                               *)
THEOREM VmFirstCode == Spec => []FirstCodeRecorded
  <1>1. IInv => FirstCodeRecorded
    BY DEF IInv, CodeRecorded, FirstCodeRecorded
  <1> QED BY <1>1, VmInductive, PTL

(* handle.rs:86: Stopped is reported, and the files are removed, only when *)
(* a vCPU has stopped or an earlier wait has taken the exit receiver.      *)
THEOREM VmStoppedJustified == Spec => []StoppedJustified
  BY VmInductive, PTL DEF IInv
=============================================================================
