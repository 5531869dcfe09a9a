-------------------------------- MODULE VzVm --------------------------------
(***************************************************************************)
(* A machine of Virtualization.framework as the daemon capsa-apple-vzd     *)
(* holds it: NativeVirtualizationBackend::start and NativeVmHandle         *)
(* (crates/apple/vz), with one handler per request (crates/apple/vzd,      *)
(* server.rs).  A handler is an async task; the server aborts it at an     *)
(* await when the request's deadline passes or the client cancels it.      *)
(*                                                                         *)
(* What the framework does with the machine is external: it starts or      *)
(* fails to, a stop completes, fails or never completes, and the delegate  *)
(* is told when the guest stops.                                           *)
(***************************************************************************)
EXTENDS Naturals

CONSTANTS
    Rpcs,           \* requests <<caller, operation>>
    Start           \* the request that starts the machine

ASSUME StartAssumption == Start \in Rpcs /\ Start[2] \notin {"shutdown", "wait", "kill"}

VARIABLES
    vm,             \* "none", "created", "starting", "failed", "running", "stopped", "gone"
    sender,         \* the delegate still has its stop_sender
    reason,         \* the content of the channel of one place: "none", "guest", "error"
    receiver,       \* "none", "handle" (in stop_receiver), "taken", "spent"
    result,         \* the stop reason a blocking task has received
    running,        \* NativeVmHandle::running
    main,           \* requests with a closure queued for the main thread
    stops,          \* kill requests whose completion handler has not run
    spared,         \* a kill ended although its stop did not (history)
    at,             \* where the handler of a request is
    ans             \* the answer on its way to the client

frameVars == <<sender, reason>>
nativeVars == <<receiver, result, running>>
vzVars == <<vm, frameVars, nativeVars, main, stops, spared, at, ans>>

VzInit ==
    /\ vm = "none" /\ sender = FALSE /\ reason = "none"
    /\ receiver = "none" /\ result = "none" /\ running = FALSE
    /\ main = {} /\ stops = {} /\ spared = FALSE
    /\ at = [r \in Rpcs |-> "none"] /\ ans = [r \in Rpcs |-> "none"]

Down == vm \notin {"starting", "running"}

Goto(r, place) == at' = [at EXCEPT ![r] = place] /\ UNCHANGED ans
Answer(r, a) == at' = [at EXCEPT ![r] = "end"] /\ ans' = [ans EXCEPT ![r] = a]

-----------------------------------------------------------------------------
(* start.  create_vm runs on the main thread and may refuse the            *)
(* configuration; the delegate gets the sending half of the channel.       *)
CreateVm(r) ==
    /\ r = Start /\ at[r] = "sent"
    /\ \/ vm' = "created" /\ sender' = TRUE /\ Goto(r, "created")
       \/ Answer(r, "err") /\ UNCHANGED <<vm, sender>>
    /\ UNCHANGED <<reason, nativeVars, main, stops, spared>>

(* start_vm hands the machine to the framework with a completion handler.  *)
StartVm(r) ==
    /\ at[r] = "created" /\ vm = "created"
    /\ vm' = "starting" /\ Goto(r, "starting")
    /\ UNCHANGED <<frameVars, nativeVars, main, stops, spared>>

(* External: the framework's answer to start.                              *)
FrameworkStarts ==
    /\ vm = "starting" /\ vm' \in {"running", "failed"}
    /\ UNCHANGED <<frameVars, nativeVars, main, stops, spared, at, ans>>

(* The completion has arrived: the handle is made and entered in handles,  *)
(* or the error returned.  The 30 seconds backend.rs grants the start are  *)
(* never over before the 10 of the request, which abort the handler.       *)
StartReturns(r) ==
    /\ at[r] = "starting" /\ vm # "starting"
    /\ IF vm = "failed"
       THEN Answer(r, "err") /\ UNCHANGED nativeVars
       ELSE Answer(r, "ok") /\ receiver' = "handle" /\ running' = TRUE /\ UNCHANGED result
    /\ UNCHANGED <<vm, frameVars, main, stops, spared>>

-----------------------------------------------------------------------------
(* The delegate's two methods: the sender is taken, its one message sent.  *)
DidStop(why) ==
    /\ sender' = FALSE
    /\ reason' = IF sender THEN why ELSE reason

(* External: the guest powers off, of itself or asked to, or fails.        *)
GuestStops ==
    /\ vm = "running" /\ vm' = "stopped"
    /\ \E why \in {"guest", "error"} : DidStop(why)
    /\ UNCHANGED <<nativeVars, main, stops, spared, at, ans>>

(* External: stopWithCompletionHandler completes.  Whether the delegate is *)
(* told of a machine stopped this way is left open.                        *)
FrameworkStops ==
    /\ stops # {} /\ stops' = {} /\ vm' = "stopped"
    /\ DidStop("guest") \/ UNCHANGED frameVars
    /\ UNCHANGED <<nativeVars, main, spared, at, ans>>

(* External: it completes with an error, which kill does not look at.      *)
FrameworkRefuses ==
    /\ stops # {} /\ stops' = {}
    /\ spared' = (spared \/ ~Down)
    /\ UNCHANGED <<vm, frameVars, nativeVars, main, at, ans>>

-----------------------------------------------------------------------------
(* Mutant: a wait() without the receiver takes the machine for stopped.    *)
WaitTakesForStopped(r) ==
    /\ r[2] = "wait" /\ at[r] = "sent"
    /\ IF receiver = "handle"
       THEN receiver' = "taken" /\ Goto(r, "recv")
       ELSE Answer(r, "ok") /\ UNCHANGED receiver
    /\ UNCHANGED <<vm, frameVars, result, running, main, stops, spared>>

(* wait: the receiver can be taken once.  Without it the flag decides.     *)
WaitTakes(r) ==
    /\ r[2] = "wait" /\ at[r] = "sent"
    /\ IF receiver = "handle"
       THEN receiver' = "taken" /\ Goto(r, "recv")
       ELSE Answer(r, IF running THEN "err" ELSE "ok") /\ UNCHANGED receiver
    /\ UNCHANGED <<vm, frameVars, result, running, main, stops, spared>>

(* The blocking task, which an abort of its handler does not end.          *)
Receives ==
    /\ receiver = "taken" /\ reason # "none"
    /\ result' = reason /\ reason' = "none" /\ receiver' = "spent"
    /\ UNCHANGED <<vm, sender, running, main, stops, spared, at, ans>>

WaitReturns(r) ==
    /\ at[r] = "recv" /\ receiver = "spent"
    /\ running' = FALSE
    /\ Answer(r, IF result = "guest" THEN "ok" ELSE "err")
    /\ UNCHANGED <<vm, frameVars, receiver, result, main, stops, spared>>

-----------------------------------------------------------------------------
(* shutdown and kill queue a closure for the main thread.                  *)
Dispatches(r) ==
    /\ r[2] \in {"shutdown", "kill"} /\ at[r] = "sent"
    /\ main' = main \union {r} /\ Goto(r, "main")
    /\ UNCHANGED <<vm, frameVars, nativeVars, stops, spared>>

(* The main thread runs it, the handler aborted or not: shutdown asks the  *)
(* guest, which may or may not obey; kill asks the framework, which        *)
(* answers at once when the machine does not run.                          *)
MainRuns(r) ==
    /\ r \in main /\ main' = main \ {r}
    /\ stops' = IF r[2] = "kill" /\ ~Down THEN stops \union {r} ELSE stops
    /\ UNCHANGED <<vm, frameVars, nativeVars, spared, at, ans>>

ShutdownReturns(r) ==
    /\ r[2] = "shutdown" /\ at[r] = "main" /\ r \notin main
    /\ Answer(r, "ok")
    /\ UNCHANGED <<vm, frameVars, nativeVars, main, stops, spared>>

(* kill waits at most 5 seconds for the completion and ignores what it     *)
(* says; the handle counts as stopped in every case.                       *)
KillReturns(r) ==
    /\ r[2] = "kill" /\ at[r] = "main" /\ r \notin main
    /\ running' = FALSE
    /\ spared' = (spared \/ (r \in stops /\ ~Down))
    /\ Answer(r, "ok")
    /\ UNCHANGED <<vm, frameVars, receiver, result, main, stops>>

(* Mutant: a wait() that blocks its thread cannot be dropped.              *)
AbortsUnlessBlocked(r) ==
    /\ at[r] \notin {"none", "end", "recv"}
    /\ Goto(r, "end")
    /\ UNCHANGED <<vm, frameVars, nativeVars, main, stops, spared>>

(* The server drops the handler's future at the await it is in.            *)
Aborts(r) ==
    /\ at[r] \notin {"none", "end"}
    /\ Goto(r, "end")
    /\ UNCHANGED <<vm, frameVars, nativeVars, main, stops, spared>>
=============================================================================
