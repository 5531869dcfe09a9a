----------------------------- MODULE MacVmProofs -----------------------------
(***************************************************************************)
(* Safety of a machine on macOS, for any number of calls, connections and  *)
(* chunks: its files go with it (MInv), and a bridge that ends has passed  *)
(* on what the end that closed had sent (DInv).                            *)
(***************************************************************************)
EXTENDS MacVm, TLAPS

(* The inductive invariant.  First, what the variables hold.               *)
MacTypes ==
    /\ vm \in {"none", "created", "starting", "failed", "running", "stopped", "gone"}
    /\ at \in [Rpcs -> {"none", "sent", "created", "starting", "recv", "main", "end"}]
    /\ ans \in [Rpcs -> {"none", "ok", "err"}]
    /\ \A r \in Rpcs \ {Start} : at[r] \notin {"created", "starting"}
    /\ at[Start] \notin {"recv", "main"}
    /\ on \in [Callers -> {"none", "shutdown", "wait", "kill"}]
    /\ main \subseteq Rpcs \ {Start} /\ stops \subseteq Rpcs
    /\ daemon \in {"up", "exited"} /\ handle \in {"starting", "up", "dropped"}

(* The machine has been started, and has stopped if the daemon's handle    *)
(* says so, or a kill has spared it.  This never ends.                     *)
Past == vm \in {"running", "stopped", "gone"}
Ended == vm \in {"stopped", "gone"} \/ spared
Settled == Past /\ (running \/ Ended)

(* The start: one request, which creates one machine.                      *)
StartInOrder ==
    /\ daemon = "up" /\ at[Start] \in {"none", "sent"} => vm = "none"
    /\ at[Start] = "starting" => vm # "none" /\ vm # "created"
    /\ vm = "gone" => daemon = "exited"
    /\ ans[Start] = "ok" \/ handle = "up" => Settled

(* No other request is made before the machine is started, and its answer  *)
(* Ok to a wait or a kill, the stop reason and the end of a kill's closure *)
(* mean that the machine is down or was spared.                            *)
RequestsInOrder ==
    /\ \A r \in Rpcs \ {Start} : at[r] # "none" => Settled
    /\ \A r \in Rpcs : ans[r] # "none" => at[r] # "none"
    /\ \A r \in main : at[r] # "none"
    /\ stops # {} => Settled
    /\ \A r \in Rpcs : r[2] \in {"wait", "kill"} /\ ans[r] = "ok" => Ended
    /\ \A r \in Rpcs : r[2] = "kill" /\ at[r] = "main" /\ r \notin main \cup stops => Ended
    /\ reason # "none" \/ receiver = "spent" => vm \in {"stopped", "gone"}

(* A call awaits a request only with a machine that was started; so the    *)
(* files were there until then.                                            *)
CallsInOrder ==
    /\ \A c \in Callers : on[c] # "none" => handle = "up"
    /\ ~files => Past /\ (Ended \/ status = "Failed")

MInv == MacTypes /\ StartInOrder /\ RequestsInOrder /\ CallsInOrder

-----------------------------------------------------------------------------
(* The requests of a call are requests, and none of them is the start.     *)
LEMMA CallRequests ==
    ASSUME NEW c \in Callers, NEW op \in {"shutdown", "wait", "kill"}
    PROVE  <<c, op>> \in Rpcs /\ <<c, op>> # Start /\ <<c, op>>[2] = op
  BY CallersAssumption, StartAssumption

(* What a step may never take back: that the machine was started, that it  *)
(* is down since, and that a kill has spared it.                           *)
LEMMA Forever ==
    ASSUME MInv, [Next]_vars
    PROVE  /\ Settled => Settled'
           /\ Past /\ Ended => Ended'
           /\ vm \in {"stopped", "gone"} => vm' \in {"stopped", "gone"}
  <1> DEFINE Goal == /\ Settled => Settled'
                     /\ Past /\ Ended => Ended'
                     /\ vm \in {"stopped", "gone"} => vm' \in {"stopped", "gone"}
  <1> SUFFICES Goal
    OBVIOUS
  <1> USE DEF vzVars, frameVars, nativeVars, sockVars, handleVars, callVars
  <1>1. CASE UNCHANGED <<vm, running, spared>>
    BY <1>1 DEF Settled, Past, Ended
  <1>2. ASSUME NEW r \in Rpcs, Handler(r), daemon = "up" PROVE Goal
    <2>1. CASE CreateVm(r)
      <3>1. vm = "none"
        BY <1>2, <2>1 DEF CreateVm, MInv, StartInOrder
      <3> QED BY <3>1 DEF Settled, Past
    <2>2. CASE StartReturns(r)
      <3>1. UNCHANGED <<vm, spared>> /\ (running' = TRUE \/ running' = running)
        BY <2>2 DEF StartReturns
      <3> QED BY <3>1 DEF Settled, Past, Ended
    <2>3. CASE WaitReturns(r)
      <3>1. UNCHANGED <<vm, spared>> /\ vm \in {"stopped", "gone"}
        BY <2>3 DEF WaitReturns, MInv, RequestsInOrder
      <3> QED BY <3>1 DEF Settled, Past, Ended
    <2>4. CASE KillReturns(r)
      <3>1. vm' = vm /\ spared' = (spared \/ (r \in stops /\ ~Down))
            /\ r[2] = "kill" /\ at[r] = "main" /\ r \notin main
        BY <2>4 DEF KillReturns
      <3>2. r \notin stops => Ended
        BY <3>1 DEF MInv, RequestsInOrder
      <3>3. Past => Ended'
        BY Zenon, <3>1, <3>2 DEF Past, Ended, Down
      <3> QED BY <3>1, <3>3 DEF Settled, Past, Ended
    <2>5. CASE WaitTakes(r) \/ Dispatches(r) \/ ShutdownReturns(r)
      BY Zenon, <1>1, <2>5 DEF WaitTakes, Dispatches, ShutdownReturns
    <2> QED BY Zenon, <1>2, <2>1, <2>2, <2>3, <2>4, <2>5 DEF Handler
  <1>3. CASE FrameworkStarts \/ StartVm(Start)
    BY <1>3 DEF FrameworkStarts, StartVm, Settled, Past
  <1>4. CASE GuestStops \/ FrameworkStops
    <2>1. vm' = "stopped" /\ UNCHANGED <<running, spared>>
      BY <1>4 DEF GuestStops, FrameworkStops
    <2> QED BY <2>1 DEF Settled, Past, Ended
  <1>5. CASE FrameworkRefuses
    <2>1. UNCHANGED <<vm, running>> /\ spared' = (spared \/ ~Down)
      BY <1>5 DEF FrameworkRefuses
    <2> QED BY Zenon, <2>1 DEF Settled, Past, Ended
  <1>6. CASE DaemonEnds
    BY <1>6 DEF DaemonEnds, Settled, Past, Ended
  <1>7. CASE (\E r \in Rpcs : MainRuns(r) \/ Aborts(r)) \/ Receives
    BY Zenon, <1>1, <1>7 DEF MainRuns, Aborts, Receives
  <1>8. CASE PortTask \/ Bridge \/ Peers \/ GuestEndsClose \/ UNCHANGED vars
    BY Zenon, <1>1, <1>8 DEF PortTask, Bridge, Peers, GuestEndsClose, Up, vars
  <1>9. CASE StartSends \/ StartAnswered \/ StartExpires \/ Drops \/ ProgramEnds
    BY Zenon, <1>1, <1>9 DEF StartSends, StartAnswered, StartExpires, StartEnds, Drops, ProgramEnds,
                             KeepsDaemon
  <1>10. ASSUME NEW c \in Callers, Client(c) PROVE Goal
    BY Zenon, <1>1, <1>10 DEF Client, Begins, Answered, Expires, GraceEnds, WaitTimesOut, KeepsDaemon,
                              KeepsRest
  <1> QED BY Zenon, <1>2, <1>3, <1>4, <1>5, <1>6, <1>7, <1>8, <1>9, <1>10
          DEF Next, DaemonStartsVm, DaemonHandles, DaemonMain, DaemonReceives, DaemonAborts, Framework,
              Guest, DaemonExits, Up

-----------------------------------------------------------------------------
LEMMA InitMInv == Init => MInv
  <1> SUFFICES ASSUME Init PROVE MInv
    OBVIOUS
  <1>1. MacTypes
    BY StartAssumption DEF Init, VzInit, MacTypes
  <1>2. StartInOrder
    BY StartAssumption DEF Init, VzInit, StartInOrder
  <1>3. RequestsInOrder
    BY DEF Init, VzInit, RequestsInOrder
  <1>4. CallsInOrder
    BY DEF Init, VzInit, CallsInOrder
  <1> QED BY Zenon, <1>1, <1>2, <1>3, <1>4 DEF MInv

(* A step of the handler of one request other than the start, which may    *)
(* queue a closure or answer.                                              *)
LEMMA RequestStep ==
    ASSUME MInv, [Next]_vars, NEW r \in Rpcs, r # Start, Settled,
           UNCHANGED <<handleVars, callVars, daemon, vm, reason, stops>>,
           at' \in [Rpcs -> {"none", "sent", "created", "starting", "recv", "main", "end"}],
           ans' \in [Rpcs -> {"none", "ok", "err"}],
           at'[r] \in {"recv", "main", "end"},
           \A q \in Rpcs \ {r} : at'[q] = at[q] /\ ans'[q] = ans[q],
           r[2] \in {"wait", "kill"} /\ ans'[r] = "ok" => ans[r] = "ok" \/ Ended',
           main' = main \/ main' = main \union {r},
           at'[r] = "main" => r \in main',
           receiver' = "spent" => receiver = "spent"
    PROVE  MInv'
  <1> USE DEF handleVars, callVars
  <1>1. Settled' /\ (Past /\ Ended => Ended') /\ Past /\ Past'
    BY Forever DEF Settled
  <1>2. MacTypes'
    BY StartAssumption DEF MInv, MacTypes
  <1>3. StartInOrder'
    BY <1>1, StartAssumption DEF MInv, StartInOrder
  <1>4. RequestsInOrder' /\ CallsInOrder'
    BY <1>1 DEF MInv, MacTypes, RequestsInOrder, CallsInOrder
  <1> QED BY Zenon, <1>2, <1>3, <1>4 DEF MInv

(* The steps of the daemon's handlers.                                     *)
LEMMA HandlerKeeps ==
    ASSUME MInv, NEW r \in Rpcs, DaemonHandles, Handler(r), [Next]_vars
    PROVE  MInv'
  <1> USE DEF frameVars, nativeVars, sockVars, handleVars, callVars, Goto, Answer
  <1>1. daemon = "up" /\ UNCHANGED <<ports, daemon, handleVars, callVars>>
    BY DEF DaemonHandles, Up
  <1>2. at \in [Rpcs -> {"none", "sent", "created", "starting", "recv", "main", "end"}]
        /\ ans \in [Rpcs -> {"none", "ok", "err"}]
    BY DEF MInv, MacTypes
  <1>3. CASE CreateVm(r)
    <2>1. r = Start /\ at[Start] = "sent" /\ vm = "none" /\ ~Settled /\ ~Past
      BY <1>1, <1>3 DEF CreateVm, MInv, StartInOrder, Settled, Past
    <2>2. MacTypes' /\ StartInOrder'
      BY <1>1, <1>3, <2>1 DEF CreateVm, MInv, MacTypes, StartInOrder
    <2>3. RequestsInOrder' /\ CallsInOrder'
      BY <1>1, <1>3, <2>1, StartAssumption DEF CreateVm, MInv, RequestsInOrder, MacTypes, CallsInOrder, Ended
    <2> QED BY Zenon, <2>2, <2>3 DEF MInv
  <1>4. CASE StartReturns(r)
    <2>1. r = Start /\ vm \notin {"none", "created", "starting"}
      BY <1>4 DEF StartReturns, MInv, MacTypes, StartInOrder
    <2>2. ans'[Start] = "ok" => Settled'
      BY <1>4, <2>1 DEF StartReturns, MInv, MacTypes, Settled, Past
    <2>3. (Settled => Settled') /\ (Past => Past') /\ (Ended => Ended')
      BY <1>4, Forever DEF StartReturns, Past, Ended
    <2>4. MacTypes' /\ StartInOrder'
      BY <1>1, <1>4, <2>1, <2>2, <2>3 DEF StartReturns, MInv, MacTypes, StartInOrder
    <2>5. RequestsInOrder' /\ CallsInOrder'
      BY <1>1, <1>4, <2>1, <2>3, StartAssumption
         DEF StartReturns, MInv, RequestsInOrder, MacTypes, CallsInOrder
    <2> QED BY Zenon, <2>4, <2>5 DEF MInv
  <1>5. CASE WaitTakes(r)
    <2>1. r # Start /\ Settled /\ (~running => Ended)
      BY <1>5, StartAssumption DEF WaitTakes, MInv, RequestsInOrder, Settled
    <2>2. /\ UNCHANGED <<vm, reason, spared, main, stops>>
          /\ at' = [at EXCEPT ![r] = "recv"] \/ at' = [at EXCEPT ![r] = "end"]
          /\ receiver' = receiver \/ receiver' = "taken"
          /\ \/ ans' = ans \/ ans' = [ans EXCEPT ![r] = "err"]
             \/ ans' = [ans EXCEPT ![r] = "ok"] /\ Ended
      BY Zenon, <1>5, <2>1 DEF WaitTakes
    <2>3. Ended => Ended'
      BY <2>2 DEF Ended
    <2> QED BY <1>1, <1>2, <2>1, <2>2, <2>3, RequestStep
  <1>6. CASE WaitReturns(r)
    <2>1. r # Start /\ Settled /\ Ended'
      BY <1>6 DEF WaitReturns, MInv, MacTypes, RequestsInOrder, Ended
    <2> QED BY <1>1, <1>2, <1>6, <2>1, RequestStep DEF WaitReturns
  <1>7. CASE Dispatches(r) \/ ShutdownReturns(r)
    <2>1. r # Start /\ Settled
      BY <1>7, StartAssumption DEF Dispatches, ShutdownReturns, MInv, RequestsInOrder
    <2> QED BY <1>1, <1>2, <1>7, <2>1, RequestStep DEF Dispatches, ShutdownReturns
  <1>8. CASE KillReturns(r)
    <2>1. r # Start /\ Settled /\ vm' = vm /\ (r \notin stops => Ended)
      BY <1>8, StartAssumption DEF KillReturns, MInv, RequestsInOrder
    <2>2. (spared \/ (r \in stops /\ ~Down)) => spared'
      BY Zenon, <1>8 DEF KillReturns
    <2>3. Ended'
      BY Zenon, <2>1, <2>2 DEF Settled, Past, Ended, Down
    <2> QED BY <1>1, <1>2, <1>8, <2>1, <2>3, RequestStep DEF KillReturns
  <1> QED BY Zenon, <1>3, <1>4, <1>5, <1>6, <1>7, <1>8 DEF Handler

(* The other steps of the daemon, of the framework and of the guest.       *)
LEMMA DaemonKeeps ==
    ASSUME MInv, [Next]_vars, UNCHANGED <<handleVars, callVars>>,
           DaemonStartsVm \/ DaemonMain \/ DaemonReceives \/ DaemonAborts \/ Framework \/ Guest
             \/ DaemonEnds
    PROVE  MInv'
  <1> USE DEF frameVars, nativeVars, sockVars, handleVars, callVars, Goto
  <1>1. /\ Settled => Settled'
        /\ Past /\ Ended => Ended'
        /\ vm \in {"stopped", "gone"} => vm' \in {"stopped", "gone"}
    BY Forever
  <1>2. Settled => Past /\ Past' /\ vm # "none"
    BY <1>1 DEF Settled, Past
  <1>3. CASE DaemonEnds
    <2>1. vm' = "gone" /\ Settled' /\ Ended' /\ Past'
      BY <1>3 DEF DaemonEnds, Settled, Ended, Past
    <2>2. at' \in [Rpcs -> {"none", "end"}] /\ \A r \in Rpcs : at'[r] = "none" => at[r] = "none"
      BY <1>3 DEF DaemonEnds
    <2>3. MacTypes' /\ StartInOrder'
      BY <1>3, <2>1, <2>2, StartAssumption DEF DaemonEnds, MInv, MacTypes, StartInOrder
    <2>4. RequestsInOrder' /\ CallsInOrder'
      BY <1>3, <2>1, <2>2 DEF DaemonEnds, MInv, RequestsInOrder, CallsInOrder
    <2> QED BY Zenon, <2>3, <2>4 DEF MInv
  <1>4. CASE DaemonStartsVm
    <2>1. vm = "created" /\ vm' = "starting" /\ StartVm(Start) /\ ~Settled /\ ~Past /\ daemon' = daemon
      BY <1>4 DEF DaemonStartsVm, Up, StartVm, Settled, Past
    <2>2. MacTypes' /\ StartInOrder'
      BY <2>1, StartAssumption DEF StartVm, MInv, MacTypes, StartInOrder
    <2>3. RequestsInOrder' /\ CallsInOrder'
      BY <2>1, StartAssumption DEF StartVm, MInv, MacTypes, RequestsInOrder, CallsInOrder, Ended
    <2> QED BY Zenon, <2>2, <2>3 DEF MInv
  <1>5. CASE DaemonMain
    <2>1. PICK r \in Rpcs : MainRuns(r) /\ daemon' = daemon
      BY <1>5 DEF DaemonMain, Up
    <2>2. Settled /\ r # Start
      BY <2>1 DEF MainRuns, MInv, MacTypes, RequestsInOrder
    <2>3. r[2] = "kill" => r \in stops' \/ Ended
      BY <1>2, <2>1, <2>2 DEF MainRuns, Down, Past, Ended
    <2>4. MacTypes' /\ StartInOrder'
      BY <1>1, <2>1 DEF MainRuns, MInv, MacTypes, StartInOrder
    <2>5. RequestsInOrder' /\ CallsInOrder'
      BY <1>1, <1>2, <2>1, <2>2, <2>3 DEF MainRuns, MInv, RequestsInOrder, CallsInOrder
    <2> QED BY Zenon, <2>4, <2>5 DEF MInv
  <1>6. CASE DaemonReceives
    <2>1. Receives /\ daemon' = daemon
      BY <1>6 DEF DaemonReceives, Up
    <2>2. MacTypes' /\ StartInOrder'
      BY <1>1, <2>1 DEF Receives, MInv, MacTypes, StartInOrder
    <2>3. RequestsInOrder' /\ CallsInOrder'
      BY <1>1, <2>1 DEF Receives, MInv, RequestsInOrder, CallsInOrder, Past, Ended
    <2> QED BY Zenon, <2>2, <2>3 DEF MInv
  <1>7. CASE DaemonAborts
    <2>1. PICK r \in Rpcs : Aborts(r) /\ daemon' = daemon
      BY <1>7 DEF DaemonAborts, Up
    <2>2. MacTypes' /\ StartInOrder'
      BY <1>1, <2>1 DEF Aborts, MInv, MacTypes, StartInOrder
    <2>3. RequestsInOrder' /\ CallsInOrder'
      BY <1>1, <2>1 DEF Aborts, MInv, MacTypes, RequestsInOrder, CallsInOrder, Past, Ended
    <2> QED BY Zenon, <2>2, <2>3 DEF MInv
  <1>8. CASE Framework \/ Guest
    <2>1. /\ FrameworkStarts \/ FrameworkStops \/ FrameworkRefuses \/ GuestStops
          /\ daemon = "up" /\ daemon' = daemon
      BY <1>8 DEF Framework, Guest, Up
    <2>2. /\ UNCHANGED <<at, ans, main, receiver>>
          /\ stops' = stops \/ stops' = {}
          /\ vm # "none" /\ vm' \in {"running", "failed", "stopped", vm}
          /\ reason' = reason \/ vm' = "stopped"
          /\ Past => Past'
      BY <1>2, <2>1 DEF FrameworkStarts, FrameworkStops, FrameworkRefuses, GuestStops, MInv,
                        RequestsInOrder, Past
    <2>3. \A r \in stops : r \in stops' \/ Ended'
      <3>1. CASE FrameworkStarts \/ GuestStops
        BY <3>1 DEF FrameworkStarts, GuestStops
      <3>2. CASE FrameworkStops
        BY <3>2 DEF FrameworkStops, Ended
      <3>3. CASE FrameworkRefuses
        <4>1. spared' = (spared \/ ~Down) /\ vm' = vm /\ Past
          BY <1>2, <3>3 DEF FrameworkRefuses, MInv, RequestsInOrder
        <4> QED BY Zenon, <4>1 DEF Past, Down, Ended
      <3> QED BY Zenon, <2>1, <3>1, <3>2, <3>3
    <2>4. MacTypes' /\ StartInOrder'
      BY <1>1, <2>1, <2>2 DEF MInv, MacTypes, StartInOrder
    <2>5. RequestsInOrder' /\ CallsInOrder'
      BY <1>1, <1>2, <2>2, <2>3, StartAssumption DEF MInv, RequestsInOrder, CallsInOrder
    <2> QED BY Zenon, <2>4, <2>5 DEF MInv
  <1> QED BY Zenon, <1>3, <1>4, <1>5, <1>6, <1>7, <1>8

(* A step of the client changes the requests in at most two places: one    *)
(* other than the start is sent, of a machine that was started, and one    *)
(* answer is taken.                                                        *)
LEMMA ClientRequests ==
    ASSUME MInv,
           UNCHANGED <<vm, frameVars, nativeVars, main, stops, spared, daemon>>,
           at' = at \/ \E r \in Rpcs \ {Start} : Settled /\ Send(r),
           ans' = ans \/ \E r \in Rpcs : ans' = [ans EXCEPT ![r] = "none"],
           handle' \in {handle, "dropped"},
           on' \in [Callers -> {"none", "shutdown", "wait", "kill"}]
    PROVE  MacTypes' /\ StartInOrder' /\ RequestsInOrder' /\ (Settled' <=> Settled)
           /\ (Past' <=> Past) /\ (Ended' <=> Ended)
  <1> USE DEF frameVars, nativeVars
  <1>1. (Settled' <=> Settled) /\ (Past' <=> Past) /\ (Ended' <=> Ended)
    BY DEF Settled, Past, Ended
  <1>2. /\ ans' \in [Rpcs -> {"none", "ok", "err"}]
        /\ \A r \in Rpcs : ans'[r] \in {ans[r], "none"}
    BY DEF MInv, MacTypes
  <1>3. /\ at' \in [Rpcs -> {"none", "sent", "created", "starting", "recv", "main", "end"}]
        /\ at'[Start] = at[Start]
        /\ \A r \in Rpcs \ {Start} : at'[r] = at[r] \/ (at'[r] = "sent" /\ Settled)
    <2>1. CASE at' = at
      BY <2>1 DEF MInv, MacTypes
    <2>2. ASSUME NEW r \in Rpcs \ {Start}, Settled, Send(r) PROVE <1>3!:
      BY <2>2, StartAssumption DEF MInv, MacTypes, Send
    <2> QED BY Zenon, <2>1, <2>2
  <1>4. MacTypes'
    BY <1>2, <1>3 DEF MInv, MacTypes
  <1>5. StartInOrder'
    BY <1>1, <1>2, <1>3, StartAssumption DEF MInv, StartInOrder
  <1>6. RequestsInOrder'
    <2>1. (\A r \in Rpcs \ {Start} : at[r] # "none" => Settled)'
      BY <1>1, <1>3 DEF MInv, RequestsInOrder
    <2>2. \A r \in Rpcs : at[r] # "none" => at'[r] # "none"
      BY <1>3
    <2>3. \A r \in Rpcs : at'[r] = "main" => at[r] = "main"
      BY <1>3
    <2> QED BY <1>1, <1>2, <2>1, <2>2, <2>3 DEF MInv, MacTypes, RequestsInOrder
  <1> QED BY Zenon, <1>1, <1>4, <1>5, <1>6

LEMMA ClientKeeps ==
    ASSUME MInv, NEW c \in Callers, Client(c)
    PROVE  MInv'
  <1> USE DEF frameVars, nativeVars, sockVars, Awaited
  <1>1. /\ UNCHANGED <<vm, frameVars, nativeVars, main, stops, spared, daemon>>
        /\ handle' = handle
    BY Zenon DEF Client, Begins, Answered, Expires, GraceEnds, WaitTimesOut, KeepsDaemon, KeepsRest
  <1>2. \A op \in {"shutdown", "wait", "kill"} : <<c, op>> \in Rpcs /\ <<c, op>> # Start /\ <<c, op>>[2] = op
    BY Zenon, CallRequests
  <1>3. handle = "up" /\ Settled
    <2>1. handle = "up" \/ on[c] # "none"
      BY DEF Client, Begins, Answered, Expires, GraceEnds, WaitTimesOut
    <2> QED BY <2>1 DEF MInv, CallsInOrder, StartInOrder
  <1>4. on[c] # "none" => Awaited(c) \in Rpcs /\ Awaited(c)[2] = on[c]
    BY <1>2 DEF MInv, MacTypes
  <1>5. on' \in [Callers -> {"none", "shutdown", "wait", "kill"}]
    <2>1. \E op \in {"none", "shutdown", "wait", "kill"} : on' = [on EXCEPT ![c] = op]
      BY DEF Client, Begins, Answered, Expires, GraceEnds, WaitTimesOut, Ok, Err, Await, Return
    <2> QED BY <2>1 DEF MInv, MacTypes
  <1>6. at' = at \/ \E r \in Rpcs \ {Start} : Settled /\ Send(r)
    <2>1. at' = at \/ \E op \in {"shutdown", "wait", "kill"} : Send(<<c, op>>)
      BY DEF Client, Begins, Answered, Expires, GraceEnds, WaitTimesOut, Ok, Err
    <2> QED BY Zenon, <1>2, <1>3, <2>1
  <1>7. ans' = ans \/ \E r \in Rpcs : ans' = [ans EXCEPT ![r] = "none"]
    BY <1>4 DEF Client, Begins, Answered, Expires, GraceEnds, WaitTimesOut
  <1>8. MacTypes' /\ StartInOrder' /\ RequestsInOrder' /\ (Past' <=> Past) /\ (Ended' <=> Ended)
    BY <1>1, <1>5, <1>6, <1>7, ClientRequests
  <1>9. Past
    BY <1>3 DEF Settled
  <1>10. \/ files' = files /\ (status' = status \/ status = "Running")
         \/ status' = "Failed"
         \/ Ended
    <2>1. CASE Answered(c)
      <3>1. CASE ans[Awaited(c)] = "ok" /\ on[c] # "shutdown"
        BY <2>1, <3>1, <1>4 DEF Answered, MInv, MacTypes, RequestsInOrder
      <3>2. CASE ans[Awaited(c)] = "ok" /\ on[c] = "shutdown"
        BY Zenon, <2>1, <3>2 DEF Answered, Ok, KeepsStatus
      <3>3. CASE ans[Awaited(c)] # "ok"
        BY Zenon, <2>1, <3>3 DEF Answered, Err, KeepsStatus, Finishes
      <3> QED BY Zenon, <3>1, <3>2, <3>3
    <2>2. CASE Begins(c)
      <3>1. files' = files
        BY Zenon, <2>2 DEF Begins
      <3>2. status' = status \/ status = "Running"
        BY <2>2 DEF Begins
      <3> QED BY Zenon, <3>1, <3>2
    <2>3. CASE Expires(c)
      BY Zenon, <2>3 DEF Expires, Err, KeepsStatus, Finishes
    <2>4. CASE GraceEnds(c) \/ WaitTimesOut(c)
      BY Zenon, <2>4 DEF GraceEnds, WaitTimesOut, KeepsStatus
    <2> QED BY Zenon, <2>1, <2>2, <2>3, <2>4 DEF Client
  <1>11. CallsInOrder'
    BY <1>1, <1>3, <1>8, <1>9, <1>10 DEF MInv, CallsInOrder
  <1> QED BY Zenon, <1>8, <1>11 DEF MInv

(* The start as the client sees it, and the end of the handle.             *)
LEMMA HandleKeeps ==
    ASSUME MInv, StartSends \/ StartAnswered \/ StartExpires \/ Drops \/ ProgramEnds
    PROVE  MInv'
  <1> USE DEF frameVars, nativeVars, sockVars, handleVars, callVars, KeepsDaemon
  <1>1. UNCHANGED <<vm, frameVars, nativeVars, main, stops, spared, daemon, status, files>>
    BY Zenon DEF StartSends, StartAnswered, StartExpires, StartEnds, Drops, ProgramEnds
  <1>2. (Settled' <=> Settled) /\ (Past' <=> Past) /\ (Ended' <=> Ended)
    BY <1>1 DEF Settled, Past, Ended
  <1>3. CASE StartSends \/ (StartAnswered /\ ans[Start] = "ok")
    <2>1. /\ on' = on /\ handle # "up" /\ (handle' = handle \/ (handle' = "up" /\ Settled))
          /\ at' = at \/ (at' = [at EXCEPT ![Start] = "sent"] /\ at[Start] = "none" /\ daemon = "up")
          /\ ans' = ans \/ ans' = [ans EXCEPT ![Start] = "none"]
      BY <1>3 DEF StartSends, StartAnswered, StartEnds, Send, MInv, StartInOrder
    <2>2. MacTypes' /\ StartInOrder'
      BY <1>1, <1>2, <2>1, StartAssumption DEF MInv, MacTypes, StartInOrder
    <2>3. RequestsInOrder' /\ CallsInOrder'
      BY <1>1, <1>2, <2>1, StartAssumption DEF MInv, MacTypes, RequestsInOrder, CallsInOrder
    <2> QED BY Zenon, <2>2, <2>3 DEF MInv
  <1>4. CASE (StartAnswered /\ ans[Start] # "ok") \/ StartExpires \/ Drops \/ ProgramEnds
    <2>1. at' = at /\ handle' = "dropped" /\ (ans' = ans \/ ans' = [ans EXCEPT ![Start] = "none"])
      BY Zenon, <1>4 DEF StartAnswered, StartExpires, StartEnds, Drops, ProgramEnds
    <2>2. on' \in [Callers -> {"none"}]
      BY <1>4 DEF StartAnswered, StartExpires, StartEnds, Drops, ProgramEnds, MInv, MacTypes, CallsInOrder
    <2>3. MacTypes' /\ StartInOrder' /\ RequestsInOrder'
      BY <1>1, <2>1, <2>2, StartAssumption, ClientRequests
    <2> QED BY <1>1, <1>2, <2>2, <2>3 DEF MInv, CallsInOrder
  <1> QED BY Zenon, <1>3, <1>4

LEMMA NextMInv == MInv /\ [Next]_vars => MInv'
  <1> SUFFICES ASSUME MInv, [Next]_vars PROVE MInv'
    OBVIOUS
  <1>1. CASE DaemonHandles
    <2>1. PICK r \in Rpcs : Handler(r)
      BY <1>1 DEF DaemonHandles, Up
    <2> QED BY <1>1, <2>1, HandlerKeeps
  <1>2. CASE DaemonStartsVm \/ DaemonMain \/ DaemonReceives \/ DaemonAborts \/ Framework \/ Guest
               \/ DaemonEnds
    <2>1. UNCHANGED <<handleVars, callVars>>
      BY Zenon, <1>2 DEF DaemonStartsVm, DaemonMain, DaemonReceives, DaemonAborts, Framework, Guest,
                         DaemonEnds, Up
    <2> QED BY <1>2, <2>1, DaemonKeeps
  <1>3. CASE PortTask \/ Bridge \/ Peers \/ GuestEndsClose \/ UNCHANGED vars
    <2>1. UNCHANGED <<vzVars, daemon, handleVars, callVars>>
      BY <1>3 DEF PortTask, Bridge, Peers, GuestEndsClose, Up, vars
    <2>2. UNCHANGED <<vm, at, ans, on, main, stops, daemon, handle, running, spared, reason, receiver,
                      files, status>>
      BY <2>1 DEF vzVars, frameVars, nativeVars, handleVars, callVars
    <2> QED BY <2>2 DEF MInv, MacTypes, StartInOrder, RequestsInOrder, CallsInOrder, Settled, Past, Ended
  <1>4. CASE StartSends \/ StartAnswered \/ StartExpires \/ Drops \/ ProgramEnds
    BY <1>4, HandleKeeps
  <1>5. CASE \E c \in Callers : Client(c)
    BY <1>5, ClientKeeps
  <1> QED BY <1>1, <1>2, <1>3, <1>4, <1>5 DEF Next, DaemonExits

(* The files of a machine, the sockets of its vsock ports among them, are  *)
(* removed by VmHandle (handle.rs of capsa) only when the machine is down, *)
(* was spared by a kill, or stop() has failed: for any number of calls.    *)
THEOREM MacFilesGo == Spec => []FilesGoWithVm
  <1>1. MInv => FilesGoWithVm
    BY DEF MInv, CallsInOrder, FilesGoWithVm, Ended, Down
  <1> QED BY InitMInv, NextMInv, <1>1, PTL DEF Spec

-----------------------------------------------------------------------------
(* One host and one guest are ever bridged, by a task that is done then.   *)
Bridged == {x \in Ends : place[x] \in {"bridged", "cut"}}

SockTypes ==
    /\ place \in [Ends -> {"out", "backlog", "held", "chan", "lost", "bridged", "cut", "dropped"}]
    /\ sent \in [Ends -> Nat] /\ read \in [Ends -> Nat] /\ passed \in [Ends -> Nat]

TaskInOrder ==
    /\ vm \in {"none", "created"} => task = "none"
    /\ task = "recv" => \E h \in Hosts : place[h] = "held"
    /\ Bridged # {} => task = "done"

OneBridge == Bridged = {} \/ \E h \in Hosts, g \in Guests : Bridged = {h, g} /\ place[h] = place[g]

DInv == SockTypes /\ TaskInOrder /\ OneBridge /\ CloserDrained

(* A step that moves no end of a bridge, into it or out of it, and leaves  *)
(* the data of the ends that were cut alone.                               *)
LEMMA BridgeAlone ==
    ASSUME OneBridge, CloserDrained,
           \A x \in Ends : place[x] \in {"bridged", "cut"} \/ place'[x] \in {"bridged", "cut"}
                              => place'[x] = place[x],
           \A x \in Ends : place[x] = "cut" => /\ x \in closed' <=> x \in closed
                                               /\ sent'[x] = sent[x] /\ read'[x] = read[x]
                                               /\ passed'[x] = passed[x]
    PROVE  Bridged' = Bridged /\ OneBridge' /\ CloserDrained'
  <1>1. Bridged' = Bridged
    BY DEF Bridged
  <1>2. OneBridge'
    <2>1. CASE Bridged = {}
      BY <1>1, <2>1 DEF OneBridge
    <2>2. CASE Bridged # {}
      <3>1. PICK h \in Hosts, g \in Guests : Bridged = {h, g} /\ place[h] = place[g]
        BY <2>2 DEF OneBridge
      <3>2. place'[h] = place[h] /\ place'[g] = place[g]
        BY <3>1 DEF Bridged
      <3>3. Bridged' = {h, g} /\ place'[h] = place'[g]
        BY Zenon, <1>1, <3>1, <3>2
      <3> QED BY Zenon, <3>3 DEF OneBridge
    <2> QED BY Zenon, <2>1, <2>2
  <1>3. CloserDrained'
    <2> SUFFICES ASSUME NEW h \in Hosts, NEW g \in Guests, place'[h] = "cut", place'[g] = "cut",
                        NEW x \in {h, g}, NEW y, y = IF x = h THEN g ELSE h,
                        x \in closed', y \notin closed', read'[y] = passed'[y]
                 PROVE  passed'[x] = sent'[x]
      BY DEF CloserDrained
    <2>1. place[h] = "cut" /\ place[g] = "cut" /\ x \in Ends /\ y \in Ends /\ place[x] = "cut" /\ place[y] = "cut"
      BY DEF Ends
    <2>2. x \in closed /\ y \notin closed /\ read[y] = passed[y] /\ passed'[x] = passed[x] /\ sent'[x] = sent[x]
      BY <2>1
    <2> QED BY <2>1, <2>2 DEF CloserDrained
  <1> QED BY Zenon, <1>1, <1>2, <1>3

(* While an end is cut, none is bridged: there is one bridge.              *)
LEMMA CutMeansNoLink ==
    ASSUME OneBridge, NEW x \in Ends, place[x] = "cut"
    PROVE  Link = {}
  <1>1. PICK h \in Hosts, g \in Guests : Bridged = {h, g} /\ place[h] = place[g]
    BY DEF OneBridge, Bridged
  <1>2. \A y \in Bridged : place[y] = "cut"
    BY <1>1 DEF Bridged
  <1> QED BY <1>2 DEF Link, Bridged

LEMMA TakesBridges ==
    ASSUME DInv, vm' = vm, NEW g \in Guests, Takes(g)
    PROVE  DInv'
  <1>1. Bridged = {} /\ task' = "done"
    BY DEF Takes, DInv, TaskInOrder
  <1>2. Held \in Hosts
    BY DEF Takes, DInv, TaskInOrder, Held
  <1>3. PICK end \in {"bridged", "dropped"} :
          place' = [x \in Ends |-> IF x \in {g, Held} THEN end
                                   ELSE IF place[x] = "backlog" THEN "dropped" ELSE place[x]]
    BY DEF Takes
  <1>4. SockTypes'
    BY <1>3 DEF Takes, dataVars, DInv, SockTypes
  <1>5. \A x \in Ends : place'[x] # "cut" /\ (place'[x] = "bridged" <=> x \in {g, Held} /\ end = "bridged")
    BY <1>1, <1>3 DEF Bridged
  <1>6. OneBridge'
    <2>1. CASE end = "bridged"
      <3>1. Bridged' = {Held, g}
        BY <1>2, <1>5, <2>1 DEF Bridged, Ends
      <3>2. place'[Held] = place'[g]
        BY <1>2, <1>5, <2>1 DEF Ends
      <3> QED BY <1>2, <3>1, <3>2 DEF OneBridge
    <2>2. CASE end # "bridged"
      BY <1>5, <2>2 DEF OneBridge, Bridged
    <2> QED BY Zenon, <2>1, <2>2
  <1>7. CloserDrained'
    BY <1>5 DEF CloserDrained, Ends
  <1>8. TaskInOrder'
    BY <1>1 DEF Takes, DInv, TaskInOrder
  <1> QED BY Zenon, <1>4, <1>6, <1>7, <1>8 DEF DInv

(* bridge_connection: the loop that ends first had passed on all its end   *)
(* had sent, or found its peer closed with a chunk in its buffer.          *)
LEMMA BridgeEndsDrained ==
    ASSUME DInv, BridgeEnds
    PROVE  OneBridge' /\ Bridged' = Bridged /\ SockTypes' /\ CloserDrained'
  <1>1. PICK z \in Link : Eof(z) \/ WriteFails(z)
    BY DEF BridgeEnds
  <1>2. place' = [x \in Ends |-> IF x \in Link THEN "cut" ELSE place[x]] /\ UNCHANGED dataVars
    BY DEF BridgeEnds
  <1>3. PICK h \in Hosts, g \in Guests : Bridged = {h, g} /\ place[h] = place[g]
    BY <1>1 DEF DInv, OneBridge, Bridged, Link
  <1>4. Link = {h, g} /\ h # g
    BY <1>1, <1>3, EndsAssumption DEF Bridged, Link
  <1>5. SockTypes'
    BY <1>2 DEF dataVars, DInv, SockTypes
  <1>6. Bridged' = {h, g} /\ place'[h] = place'[g]
    BY <1>2, <1>3, <1>4 DEF Bridged, Ends
  <1>7. OneBridge'
    BY <1>6 DEF OneBridge
  <1>8. CloserDrained'
    <2> SUFFICES ASSUME NEW i \in Hosts, NEW j \in Guests, place'[i] = "cut", place'[j] = "cut",
                        NEW x \in {i, j}, NEW y, y = IF x = i THEN j ELSE i,
                        x \in closed', y \notin closed', read'[y] = passed'[y]
                 PROVE  passed'[x] = sent'[x]
      BY DEF CloserDrained
    <2>1. i \in Bridged' /\ j \in Bridged'
      BY DEF Bridged, Ends
    <2>2. i = h /\ j = g
      BY <1>6, <2>1, EndsAssumption
    <2>3. x \in closed /\ y \notin closed /\ read[y] = passed[y] /\ UNCHANGED <<passed, sent>>
      BY <1>2 DEF dataVars
    <2>4. Link = {x, y} /\ x # y
      BY <1>4, <2>2
    <2>5. Peer(x) = y
      BY <2>4 DEF Peer
    <2>6. CASE Eof(z)
      BY <1>1, <2>3, <2>4, <2>6 DEF Eof
    <2>7. CASE WriteFails(z)
      <3>1. passed[z] < read[z] /\ Peer(z) \in closed /\ z \in {x, y}
        BY Zenon, <1>1, <2>4, <2>7 DEF WriteFails
      <3>2. passed[y] \in Nat /\ ~(passed[y] < passed[y])
        BY <2>4 DEF Link, DInv, SockTypes
      <3>3. z # y
        BY Zenon, <2>3, <3>1, <3>2
      <3> QED BY Zenon, <2>3, <2>5, <3>1, <3>3
    <2> QED BY Zenon, <1>1, <2>6, <2>7
  <1> QED BY Zenon, <1>3, <1>5, <1>6, <1>7, <1>8

(* The steps of the port's task, the bridge and the programs.              *)
LEMMA PortKeeps ==
    ASSUME DInv, vm' = vm, PortTask \/ Bridge \/ Peers \/ GuestEndsClose
    PROVE  DInv'
  <1> USE DEF dataVars, Move, Comes
  <1>1. CASE \E g \in Guests : Takes(g)
    BY <1>1, TakesBridges
  <1>2. CASE Binds \/ (\E h \in Hosts : Accepts(h) \/ HostConnects(h)) \/ (\E g \in Guests : ShouldAccept(g))
    <2>1. /\ UNCHANGED dataVars
          /\ \/ place' = place
             \/ \E x \in Ends, to \in {"backlog", "held", "chan", "lost"} :
                   place[x] \in {"out", "backlog"} /\ place' = [place EXCEPT ![x] = to]
      BY <1>2 DEF Binds, Accepts, HostConnects, ShouldAccept, Ends
    <2>2. SockTypes'
      BY <2>1 DEF DInv, SockTypes
    <2>3. /\ \A x \in Ends : place[x] \in {"bridged", "cut"} \/ place'[x] \in {"bridged", "cut"}
                                => place'[x] = place[x]
          /\ \A x \in Ends : place[x] = "held" => place'[x] = "held"
      BY <2>1 DEF DInv, SockTypes
    <2>4. Bridged' = Bridged /\ OneBridge' /\ CloserDrained'
      BY <2>1, <2>3, BridgeAlone DEF DInv
    <2>5. TaskInOrder'
      <3>1. /\ task' = task \/ (task # "none" /\ task # "done")
            /\ task' = "recv" => task = "recv" \/ \E h \in Hosts : Accepts(h)
        BY <1>2 DEF Binds, Accepts, HostConnects, ShouldAccept
      <3>2. ASSUME NEW h \in Hosts, Accepts(h) PROVE place'[h] = "held"
        BY <3>2 DEF Accepts, DInv, SockTypes, Ends
      <3> QED BY <2>3, <2>4, <3>1, <3>2 DEF DInv, TaskInOrder, Ends
    <2> QED BY Zenon, <2>2, <2>4, <2>5 DEF DInv
  <1>3. CASE \E x \in Ends : Sends(x) \/ Reads(x) \/ Writes(x) \/ Closes(x)
    <2>1. UNCHANGED <<task, place>> /\ Bridged' = Bridged
      BY <1>3 DEF Sends, Reads, Writes, Closes, Bridged
    <2>2. SockTypes'
      BY <1>3 DEF Sends, Reads, Writes, Closes, DInv, SockTypes, Link, Served
    <2>3. ASSUME NEW x \in Ends, place[x] = "cut"
          PROVE  /\ x \in closed' <=> x \in closed
                 /\ sent'[x] = sent[x] /\ read'[x] = read[x] /\ passed'[x] = passed[x]
      <3>1. Link = {}
        BY <2>3, CutMeansNoLink DEF DInv
      <3>2. PICK e \in Served \ closed : closed' = closed \union {e} /\ UNCHANGED <<sent, read, passed>>
        BY <1>3, <3>1 DEF Sends, Reads, Writes, Closes
      <3>3. e # x
        BY <2>3 DEF Served
      <3> QED BY Zenon, <3>2, <3>3
    <2>4. OneBridge' /\ CloserDrained'
      BY Zenon, <2>1, <2>3, BridgeAlone DEF DInv
    <2> QED BY <2>1, <2>2, <2>4 DEF DInv, TaskInOrder
  <1>4. CASE BridgeEnds
    <2>1. OneBridge' /\ Bridged' = Bridged /\ SockTypes' /\ CloserDrained'
      BY <1>4, BridgeEndsDrained
    <2>2. Bridged # {} /\ task' = task
      BY <1>4 DEF BridgeEnds, Bridged, Link
    <2>3. TaskInOrder'
      BY Zenon, <2>1, <2>2 DEF DInv, TaskInOrder
    <2> QED BY Zenon, <2>1, <2>3 DEF DInv
  <1> QED BY Zenon, <1>1, <1>2, <1>3, <1>4 DEF PortTask, Bridge, Peers, GuestEndsClose, Up, Ends

LEMMA InitDInv == Init => DInv
  BY DEF Init, VzInit, SockInit, DInv, SockTypes, TaskInOrder, OneBridge, Bridged, CloserDrained, Ends

LEMMA NextDInv == MInv /\ DInv /\ [Next]_vars => DInv'
  <1> SUFFICES ASSUME MInv, DInv, [Next]_vars PROVE DInv'
    OBVIOUS
  <1> USE DEF vzVars, frameVars, nativeVars, sockVars, dataVars
  <1>1. CASE PortTask \/ Bridge \/ Peers \/ GuestEndsClose
    <2>1. vm' = vm
      BY <1>1 DEF PortTask, Bridge, Peers, GuestEndsClose, Up
    <2> QED BY <1>1, <2>1, PortKeeps
  <1>2. ASSUME UNCHANGED <<place, dataVars>>,
               task' = task \/ (task = "none" /\ task' # "recv"),
               vm' \in {"none", "created"} => task' = "none"
        PROVE  DInv'
    <2>1. Bridged' = Bridged /\ OneBridge' /\ CloserDrained'
      BY Zenon, <1>2, BridgeAlone DEF DInv
    <2> QED BY <1>2, <2>1 DEF DInv, TaskInOrder, SockTypes
  <1>3. CASE DaemonStartsVm
    <2>1. vm = "created" /\ vm' = "starting"
      BY <1>3 DEF DaemonStartsVm, Up, StartVm
    <2>2. UNCHANGED <<place, dataVars>> /\ (task' = task \/ task' = "bind")
      BY <1>3 DEF DaemonStartsVm, Up
    <2> QED BY <1>2, <2>1, <2>2 DEF DInv, TaskInOrder
  <1>4. CASE DaemonEnds
    <2>1. /\ task' = "done" /\ vm' = "gone" /\ UNCHANGED dataVars
          /\ place' = [x \in Ends |-> IF x \in Served \/ place[x] \in {"backlog", "lost"}
                                      THEN "dropped" ELSE place[x]]
      BY <1>4 DEF DaemonEnds
    <2>2. SockTypes' /\ TaskInOrder'
      BY <2>1 DEF DInv, SockTypes, TaskInOrder
    <2>3. CASE Link = {}
      <3>1. \A x \in Ends : place[x] \in {"bridged", "cut"} \/ place'[x] \in {"bridged", "cut"}
                              => place'[x] = place[x]
        BY <2>1, <2>3 DEF Link, Served
      <3>2. OneBridge' /\ CloserDrained'
        BY <2>1, <3>1, BridgeAlone DEF DInv
      <3> QED BY Zenon, <2>2, <3>2 DEF DInv
    <2>4. CASE Link # {}
      <3>1. \A x \in Ends : place[x] # "cut"
        BY <2>4, CutMeansNoLink DEF DInv
      <3>2. \A x \in Ends : place'[x] \notin {"bridged", "cut"}
        BY <2>1, <3>1 DEF Served
      <3>3. OneBridge' /\ CloserDrained'
        BY <3>2 DEF OneBridge, Bridged, CloserDrained, Ends
      <3> QED BY Zenon, <2>2, <3>3 DEF DInv
    <2> QED BY Zenon, <2>3, <2>4
  <1>5. CASE DaemonHandles \/ DaemonMain \/ DaemonReceives \/ DaemonAborts \/ Framework \/ Guest
    <2>1. UNCHANGED <<task, place, dataVars>> /\ daemon = "up"
      BY <1>5 DEF DaemonHandles, DaemonMain, DaemonReceives, DaemonAborts, Framework, Guest, Up
    <2>2. vm' \in {"none", "created"} => vm \in {"none", "created"}
      <3>1. CASE \E r \in Rpcs : CreateVm(r)
        <4>1. at[Start] = "sent"
          BY Zenon, <3>1 DEF CreateVm
        <4> QED BY <2>1, <4>1 DEF MInv, StartInOrder
      <3>2. CASE ~\E r \in Rpcs : CreateVm(r)
        <4>1. vm' = vm \/ vm' \in {"running", "failed"} \/ vm' = "stopped"
          BY Zenon, <1>5, <3>2
             DEF DaemonHandles, DaemonMain, DaemonReceives, DaemonAborts, Framework, Guest, Up, Handler,
                 StartReturns, WaitTakes, WaitReturns, Dispatches, ShutdownReturns, KillReturns, MainRuns,
                 Receives, Aborts, FrameworkStarts, FrameworkStops, FrameworkRefuses, GuestStops
        <4> QED BY Zenon, <4>1
      <3> QED BY Zenon, <3>1, <3>2
    <2> QED BY <1>2, <2>1, <2>2 DEF DInv, TaskInOrder
  <1>6. CASE StartSends \/ StartAnswered \/ StartExpires \/ Drops \/ ProgramEnds
               \/ (\E c \in Callers : Client(c)) \/ UNCHANGED vars
    <2>1. UNCHANGED <<vm, task, place, dataVars>>
      BY Zenon, <1>6 DEF StartSends, StartAnswered, StartExpires, StartEnds, Drops, ProgramEnds, KeepsDaemon,
              Client, Begins, Answered, Expires, GraceEnds, WaitTimesOut, KeepsRest, vars
    <2> QED BY <1>2, <2>1 DEF DInv, TaskInOrder
  <1> QED BY <1>1, <1>3, <1>4, <1>5, <1>6 DEF Next, DaemonExits

(* Of a pair that bridge_connection (vsock.rs of apple/vz) has let go, the *)
(* end that had not closed got everything the other one had sent before it *)
(* closed, unless a chunk of its own was on the way: for any number of     *)
(* connections and chunks.                                                 *)
THEOREM MacCloserDrained == Spec => []CloserDrained
  <1>1. Init => MInv /\ DInv
    BY InitMInv, InitDInv
  <1>2. MInv /\ DInv /\ [Next]_vars => (MInv /\ DInv)'
    BY NextMInv, NextDInv
  <1>3. MInv /\ DInv => CloserDrained
    BY DEF DInv
  <1> QED BY <1>1, <1>2, <1>3, PTL DEF Spec
====
