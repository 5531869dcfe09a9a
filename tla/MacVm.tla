------------------------------- MODULE MacVm --------------------------------
(***************************************************************************)
(* A machine on macOS: VmHandle (crates/capsa/src/handle.rs) over          *)
(* SubprocessVmHandle (crates/capsa/src/backend/macos/mod.rs), which sends *)
(* every call as a tarpc request over pipes to a daemon of its own,        *)
(* capsa-apple-vzd, which holds the machine (VzVm) and its vsock port      *)
(* (VzVsock).                                                              *)
(*                                                                         *)
(* Every request is made with context::current(), which gives it ten       *)
(* seconds: the client's future and the server's handler end on their own  *)
(* when they are over.  Time is not counted, so a request may expire       *)
(* whenever it is under way.                                               *)
(***************************************************************************)
EXTENDS VzVm, VzVsock

CONSTANTS
    Callers,        \* 1 .. n: calls of the handle, in the order they are made
    MayCall         \* bound: by the number of ports, the methods of each call

ASSUME CallersAssumption == Callers \X {"shutdown", "wait", "kill"} \subseteq Rpcs

VARIABLES
    ports,          \* the number of listen ports configured
    daemon,         \* "up", "exited"
    handle,         \* "starting", "up", "dropped"
    status, files,  \* VmHandle's status; its temporary files exist
    api, on         \* per call: its method, the request it awaits

callVars == <<api, on>>
handleVars == <<handle, status, files>>
vars == <<vzVars, sockVars, ports, daemon, handleVars, callVars>>

Init ==
    /\ VzInit /\ SockInit
    /\ ports \in {0, 1}
    /\ daemon = "up" /\ handle = "starting" /\ status = "Running" /\ files = TRUE
    /\ api = [c \in Callers |-> "none"]
    /\ on = [c \in Callers |-> "none"]

Awaited(c) == <<c, on[c]>>

-----------------------------------------------------------------------------
(* The daemon.                                                             *)
Up(A) == daemon = "up" /\ A /\ UNCHANGED <<ports, daemon, handleVars, callVars>>

(* The listeners are set up and the port's task spawned before start_vm.   *)
DaemonStartsVm ==
    Up(/\ StartVm(Start)
       /\ task' = IF ports = 1 THEN "bind" ELSE task
       /\ UNCHANGED <<path, place, dataVars>>)

Handler(r) ==
    CreateVm(r) \/ StartReturns(r) \/ WaitTakes(r) \/ WaitReturns(r) \/ Dispatches(r)
    \/ ShutdownReturns(r) \/ KillReturns(r)

DaemonHandles == Up((\E r \in Rpcs : Handler(r)) /\ UNCHANGED sockVars)
DaemonMain == Up((\E r \in Rpcs : MainRuns(r)) /\ UNCHANGED sockVars)
DaemonReceives == Up(Receives /\ UNCHANGED sockVars)
DaemonAborts == Up((\E r \in Rpcs : Aborts(r)) /\ UNCHANGED sockVars)
Framework == Up((FrameworkStarts \/ FrameworkStops \/ FrameworkRefuses) /\ UNCHANGED sockVars)
Guest == Up(GuestStops /\ UNCHANGED sockVars)

PortTask == Up((Binds \/ (\E h \in Hosts : Accepts(h)) \/ (\E g \in Guests : Takes(g)))
               /\ UNCHANGED vzVars)
Bridge == Up(((\E x \in Ends : Reads(x) \/ Writes(x)) \/ BridgeEnds) /\ UNCHANGED vzVars)

(* Programs of the host and of the guest, the latter while it runs.        *)
Peers ==
    Up(/\ \/ \E h \in Hosts : HostConnects(h) \/ Sends(h) \/ Closes(h)
          \/ vm = "running" /\ ports = 1 /\ \E g \in Guests : ShouldAccept(g) \/ Sends(g) \/ Closes(g)
       /\ UNCHANGED vzVars)

(* External: the connections of a machine that has stopped are closed.     *)
GuestEndsClose ==
    Up(/\ vm = "stopped" /\ \E g \in Guests : Closes(g)
       /\ UNCHANGED vzVars)

(* The process ends, and the machine with it.                              *)
DaemonEnds ==
    /\ daemon = "up" /\ daemon' = "exited"
    /\ vm' = "gone" /\ main' = {} /\ stops' = {} /\ sender' = FALSE /\ reason' = "none"
    /\ at' = [r \in Rpcs |-> IF at[r] = "none" THEN "none" ELSE "end"]
    /\ task' = "done"
    /\ place' = [x \in Ends |-> IF x \in Served \/ place[x] \in {"backlog", "lost"} THEN "dropped" ELSE place[x]]
    /\ UNCHANGED <<nativeVars, spared, ans, path, dataVars, ports, handleVars, callVars>>

(* main returns when the pipe is at its end and no request is in flight.   *)
DaemonExits ==
    /\ handle = "dropped" /\ \A r \in Rpcs : at[r] \in {"none", "end"}
    /\ DaemonEnds

-----------------------------------------------------------------------------
(* SubprocessVmHandle.  A request to a daemon that has exited fails.       *)
Send(r) == at' = IF daemon = "up" THEN [at EXCEPT ![r] = "sent"] ELSE at
KeepsDaemon == UNCHANGED <<vm, frameVars, nativeVars, main, stops, spared, sockVars, ports, daemon>>

(* MacOsBackend::start spawns the daemon and sends the request to start.   *)
StartSends ==
    /\ handle = "starting" /\ at[Start] = "none" /\ daemon = "up"
    /\ Send(Start)
    /\ KeepsDaemon /\ UNCHANGED <<ans, handleVars, callVars>>

(* Its answer, or the failure of the request: client and child are dropped *)
(* with the error, and nobody kills the child.                             *)
StartEnds(ok) ==
    /\ handle = "starting"
    /\ handle' = IF ok THEN "up" ELSE "dropped"
    /\ KeepsDaemon /\ UNCHANGED <<at, status, files, callVars>>

StartAnswered ==
    /\ ans[Start] # "none" /\ ans' = [ans EXCEPT ![Start] = "none"]
    /\ StartEnds(ans[Start] = "ok")

StartExpires == at[Start] # "none" /\ StartEnds(FALSE) /\ UNCHANGED ans

-----------------------------------------------------------------------------
(* VmHandle.                                                               *)
Await(c, op) == on' = [on EXCEPT ![c] = op]
Return(c) == on' = [on EXCEPT ![c] = "none"]

Begins(c) ==
    /\ handle = "up" /\ api[c] = "none"
    /\ \A d \in Callers : d < c => api[d] # "none"
    /\ \E call \in MayCall[ports][c] :
          /\ api' = [api EXCEPT ![c] = call]
          /\ CASE call = "stop" /\ status # "Running" -> Return(c) /\ UNCHANGED <<at, status>>
               [] call = "stop" /\ status = "Running" ->
                    status' = "Stopping" /\ Send(<<c, "shutdown">>) /\ Await(c, "shutdown")
               [] call = "kill" -> Send(<<c, "kill">>) /\ Await(c, "kill") /\ UNCHANGED status
               [] OTHER -> Send(<<c, "wait">>) /\ Await(c, "wait") /\ UNCHANGED status
    /\ KeepsDaemon /\ UNCHANGED <<ans, handle, files>>

(* Stopped or Failed, with cleanup_temp_files: the socket's file goes too. *)
Finishes(state) == status' = state /\ files' = FALSE /\ path' = FALSE
KeepsStatus == UNCHANGED <<status, files, path>>

Ok(c) ==
    IF on[c] = "shutdown"
    THEN Send(<<c, "wait">>) /\ Await(c, "wait") /\ KeepsStatus
    ELSE Finishes("Stopped") /\ Return(c) /\ UNCHANGED at

Err(c) ==
    /\ IF api[c] = "stop" /\ on[c] = "wait" THEN Finishes("Failed") ELSE KeepsStatus
    /\ Return(c) /\ UNCHANGED at

KeepsRest == UNCHANGED <<vm, frameVars, nativeVars, main, stops, spared, task, place, dataVars,
                         ports, daemon, handle, api>>

Answered(c) ==
    /\ on[c] # "none" /\ ans[Awaited(c)] # "none"
    /\ ans' = [ans EXCEPT ![Awaited(c)] = "none"]
    /\ IF ans[Awaited(c)] = "ok" THEN Ok(c) ELSE Err(c)
    /\ KeepsRest

(* DeadlineExceeded, or the connection to the daemon is closed.            *)
Expires(c) == on[c] # "none" /\ Err(c) /\ KeepsRest /\ UNCHANGED ans

(* The grace period of stop is over: its wait is dropped, the guest killed. *)
GraceEnds(c) ==
    /\ api[c] = "stop" /\ on[c] = "wait"
    /\ Send(<<c, "kill">>) /\ Await(c, "kill")
    /\ KeepsStatus /\ KeepsRest /\ UNCHANGED ans

WaitTimesOut(c) ==
    /\ api[c] = "wait_timeout" /\ on[c] = "wait" /\ Return(c)
    /\ KeepsStatus /\ KeepsRest /\ UNCHANGED <<at, ans>>

(* The handle is dropped when no call borrows it; the program may also end *)
(* at any moment.  Either way the pipes close.                             *)
Drops ==
    /\ handle = "up" /\ \A c \in Callers : on[c] = "none"
    /\ handle' = "dropped"
    /\ KeepsDaemon /\ UNCHANGED <<at, ans, status, files, callVars>>

ProgramEnds ==
    /\ handle # "dropped" /\ handle' = "dropped"
    /\ on' = [c \in Callers |-> "none"]
    /\ KeepsDaemon /\ UNCHANGED <<at, ans, status, files, api>>

-----------------------------------------------------------------------------
Client(c) == Begins(c) \/ Answered(c) \/ Expires(c) \/ GraceEnds(c) \/ WaitTimesOut(c)

Next ==
    \/ DaemonStartsVm \/ DaemonHandles \/ DaemonMain \/ DaemonReceives \/ DaemonAborts
    \/ Framework \/ Guest \/ PortTask \/ Bridge \/ Peers \/ GuestEndsClose
    \/ DaemonExits \/ DaemonEnds
    \/ StartSends \/ StartAnswered \/ StartExpires
    \/ \E c \in Callers : Client(c)
    \/ Drops \/ ProgramEnds

(* The tasks of the daemon run, its clock aborts requests, and a process   *)
(* with nothing left to do exits.  Nothing is assumed of the framework,    *)
(* the guest, the programs or the client.                                  *)
Spec ==
    /\ Init /\ [][Next]_vars
    /\ WF_vars(DaemonAborts) /\ WF_vars(PortTask) /\ WF_vars(Bridge) /\ WF_vars(DaemonExits)
-----------------------------------------------------------------------------
(* However calls, expiries and aborts interleave, the handle says Stopped  *)
(* and removes the temporary files, the sockets of vsock ports among them, *)
(* only when the machine is down, with two exceptions: a kill() answered   *)
(* Ok while the framework had not stopped it (its result and the timeout   *)
(* are ignored, handle.rs:164 of apple/vz), and a stop() whose wait failed *)
(* or expired, which leaves the handle Failed and the guest alone          *)
(* (handle.rs:167-172 of capsa).  Stopped comes with the removal.          *)
FilesGoWithVm == ~files => Down \/ spared \/ status = "Failed"

(* No machine survives its owner: once the handle is dropped, the start    *)
(* has failed or the program has ended, with requests in flight or not,    *)
(* the daemon exits and takes the machine along (mod.rs:268-270).          *)
DroppedMeansGone == handle = "dropped" ~> daemon = "exited" /\ Down

(* Of a bridged pair, the end that was cut off without having closed got   *)
(* everything the other one had sent before it closed, unless a chunk of   *)
(* its own was on the way to the end that had closed.                      *)
CloserDrained ==
    \A h \in Hosts, g \in Guests :
        place[h] = "cut" /\ place[g] = "cut" =>
            \A x \in {h, g} : LET y == IF x = h THEN g ELSE h IN
                x \in closed /\ y \notin closed /\ read[y] = passed[y] => passed[x] = sent[x]

(* A guest's connection that waits in the channel while a host waits at    *)
(* the socket is taken, and what either end of a bridge sends is passed on *)
(* unless an end is closed, even if the host is gone by then.              *)
PairServed ==
    /\ (\E g \in Guests, h \in Hosts : place[g] = "chan" /\ place[h] \in {"backlog", "held"})
          ~> (\A g \in Guests : place[g] # "chan")
    /\ (\E x \in Link : passed[x] < sent[x]) ~> (\A x \in Link : passed[x] = sent[x])
=============================================================================
