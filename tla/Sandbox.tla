------------------------------ MODULE Sandbox -------------------------------
(***************************************************************************)
(* A sandbox from the host's side: AgentClient and wait_ready              *)
(* (crates/capsa/src/sandbox/client.rs), composed with the guest's init    *)
(* and agent.  The host connects over vsock and pings until the agent      *)
(* answers, then makes calls, several at a time, on that connection.       *)
(***************************************************************************)
EXTENDS SandboxGuest, FiniteSets

CONSTANTS
    Configs,        \* configurations given to the builder
    MaxCalls        \* bound: calls made on the connection that is ready

ASSUME BoundsAssumption == Conns = 1..Cardinality(Conns) /\ MaxCalls \in Nat

VARIABLES
    ready,          \* wait_ready: "connecting", "pinging", "ready", "timed out"
    conn,           \* the connection in use
    calls           \* per call: "unused", "sent", "ok", "failed", "expired"

hostVars == <<ready, conn, calls>>
vars == <<initVars, agentVars, hostVars>>

(* A connection's ping has its number; the other calls are numbered above. *)
PingOf(c) == [id |-> c, kind |-> "ping"]
CallIds == Cardinality(Conns) + 1 .. Cardinality(Conns) + MaxCalls

Init ==
    /\ GuestInit(Configs)
    /\ ready = "connecting" /\ conn = 0 /\ calls = [n \in CallIds |-> "unused"]

-----------------------------------------------------------------------------
(* One turn of wait_ready's loop: connect and send the ping.  A connection *)
(* to a port nobody listens on is made at the socket and then reset.       *)
ConnectAndPing ==
    /\ ready = "connecting" /\ conn + 1 \in Conns
    /\ conn' = conn + 1 /\ ready' = "pinging"
    /\ link' = [link EXCEPT ![conn + 1] =
                  IF MachineUp /\ agent = "up" THEN "backlog" ELSE "refused"]
    /\ requests' = [requests EXCEPT ![conn + 1] = <<PingOf(conn + 1)>>]
    /\ UNCHANGED <<initVars, agent, runq, holder, sleeping, exitedFor, finished, answers, calls>>

PingReturns ==
    /\ ready = "pinging" /\ answers[conn] # <<>>
    /\ ready' = "ready" /\ answers' = [answers EXCEPT ![conn] = Tail(@)]
    /\ UNCHANGED <<initVars, agent, runq, holder, sleeping, exitedFor, link, requests,
                   finished, conn, calls>>

(* The ping fails, or passes its own deadline; the client is dropped.      *)
PingFails ==
    /\ ready = "pinging"
    /\ ready' = "connecting" /\ link' = [link EXCEPT ![conn] = "closed"]
    /\ UNCHANGED <<initVars, agent, runq, holder, sleeping, exitedFor, requests, finished,
                   answers, conn, calls>>

(* The timeout around the loop.                                            *)
WaitReadyTimesOut ==
    /\ ready \in {"connecting", "pinging"}
    /\ ready' = "timed out"
    /\ link' = IF conn = 0 THEN link ELSE [link EXCEPT ![conn] = "closed"]
    /\ UNCHANGED <<initVars, agent, runq, holder, sleeping, exitedFor, requests, finished,
                   answers, conn, calls>>

-----------------------------------------------------------------------------
(* A call of the client that wait_ready returned.                          *)
Call(n, kind) ==
    /\ ready = "ready" /\ calls[n] = "unused"
    /\ \A m \in CallIds : m < n => calls[m] # "unused"
    /\ calls' = [calls EXCEPT ![n] = "sent"]
    /\ requests' = [requests EXCEPT ![conn] = Append(@, [id |-> n, kind |-> kind])]
    /\ UNCHANGED <<initVars, agent, runq, holder, sleeping, exitedFor, link, finished,
                   answers, ready, conn>>

(* An answer ends the call it is for, if that call still waits.            *)
CallReturns ==
    /\ ready = "ready" /\ answers[conn] # <<>>
    /\ LET n == Head(answers[conn]).id
       IN  calls' = IF calls[n] = "sent" THEN [calls EXCEPT ![n] = "ok"] ELSE calls
    /\ answers' = [answers EXCEPT ![conn] = Tail(@)]
    /\ UNCHANGED <<initVars, agent, runq, holder, sleeping, exitedFor, link, requests,
                   finished, ready, conn>>

(* The connection ends once what the agent wrote has been read.            *)
CallsFail ==
    /\ ready = "ready" /\ (agent = "gone" \/ ~MachineUp) /\ answers[conn] = <<>>
    /\ \E n \in CallIds : calls[n] = "sent"
    /\ calls' = [n \in CallIds |-> IF calls[n] = "sent" THEN "failed" ELSE calls[n]]
    /\ UNCHANGED <<initVars, agentVars, ready, conn>>

(* The deadline of context::current().                                     *)
CallExpires(n) ==
    /\ calls[n] = "sent" /\ calls' = [calls EXCEPT ![n] = "expired"]
    /\ UNCHANGED <<initVars, agentVars, ready, conn>>

CancelledStep ==
    \E n \in CallIds, kind \in {"file", "exec", "shutdown"} :
        calls[n] = "expired" /\ DropHandle(conn, [id |-> n, kind |-> kind])

-----------------------------------------------------------------------------
Requests == [id : CallIds, kind : {"file", "exec", "shutdown"}] \union {PingOf(c) : c \in Conns}

AgentStep ==
    \/ AgentListens
    \/ WakeAccept
    \/ RunAccept
    \/ \E c \in Conns : WakeServe(c) \/ RunServe(c)
    \/ \E c \in Conns, q \in Requests : RunSimple(c, q) \/ RunExec(c, q) \/ RunShutdown(c, q)
    \/ \E q \in Requests : RunExit(q) \/ TimerFires(q) \/ ProcessExits(q)

HostStep == CallReturns \/ CallsFail

Next ==
    \/ (InitStep \/ AgentStep \/ CommandEnds \/ CancelledStep) /\ UNCHANGED hostVars
    \/ (Setup \/ SetupFails \/ MainEnds \/ AgentFails) /\ UNCHANGED hostVars
    \/ ConnectAndPing \/ PingReturns \/ PingFails \/ WaitReadyTimesOut
    \/ \E n \in CallIds, kind \in {"file", "exec", "shutdown"} : Call(n, kind)
    \/ HostStep
    \/ \E n \in CallIds : CallExpires(n)

Spec == Init /\ [][Next]_vars

(* The guest's kernel runs init and the agent, the host's runtime the      *)
(* client.  Nothing makes a command or the main process end, and nothing   *)
(* makes a deadline pass.                                                  *)
FairSpec ==
    /\ Spec
    /\ WF_vars(InitStep /\ UNCHANGED hostVars)
    /\ WF_vars(AgentStep /\ UNCHANGED hostVars)
    /\ WF_vars(HostStep)

-----------------------------------------------------------------------------
(* Guest paths are written to the command line as they are, so only one    *)
(* without white space survives.                                           *)
Plain(cfg) == \A i \in DOMAIN cfg.shares : ~Contains(cfg.shares[i].guest, " ")

(* Once wait_ready has returned a client, every share of the configuration *)
(* is mounted, each host directory at its own guest path: the agent is     *)
(* spawned after mount_shares, and the tags that the builder writes into   *)
(* the command line are the tags of the devices.                           *)
ReadyMeansMounted ==
    ready = "ready" /\ Plain(config) => mounted = config.shares

(* The main process is started with exactly the program and arguments the  *)
(* builder was given, whatever characters they hold, across percent        *)
(* encoding, the ':' that joins them and the spaces of the command line.   *)
RunsAsAsked ==
    main # "none" => config.main.kind = "run" /\ argv = config.main.argv

(* When the agent exits on behalf of a shutdown call, that call's answer   *)
(* has already been written to its connection, whatever else the thread    *)
(* was asked to do in between.                                             *)
ShutdownAnswered ==
    \A q \in exitedFor, c \in Conns :
        q \notin ToSet(finished[c]) /\ q \notin ToSet(requests[c])

(* The machine stops once the main process has ended or the agent has      *)
(* exited, in whatever order init comes to reap them, and also when the    *)
(* agent was killed before the main process ended.                         *)
StopsWithProcess ==
    (main = "gone" \/ [pid |-> "agent", how |-> "exited"] \in zombies) ~> ~MachineUp

(* A call gets its answer or an error without the help of its deadline,    *)
(* unless a command holds the agent's thread.                              *)
CallsReturn ==
    \A n \in CallIds : calls[n] = "sent" ~> (calls[n] # "sent" \/ holder # Idle)
=============================================================================
