---------------------------- MODULE SandboxGuest ----------------------------
(***************************************************************************)
(* The two programs of a sandbox's guest: the init                         *)
(* (crates/sandbox/init/src/main.rs), which is process 1, and the agent    *)
(* (crates/sandbox/agent/src/main.rs), which answers the host's calls from *)
(* one thread.                                                             *)
(*                                                                         *)
(* The agent's thread runs its ready tasks first in, first out:            *)
(*   accept    the loop of async_main                                      *)
(*   serve     one connection: reads requests, writes finished answers     *)
(*   handle    one request                                                 *)
(*   exit      what shutdown spawns                                        *)
(* A task runs from one await to the next in one step, except a command,   *)
(* which holds the thread for as long as it runs.                          *)
(***************************************************************************)
EXTENDS Naturals, Sequences, SequencesExt, SandboxCmdline

CONSTANT Conns      \* connections the host may make, one after the other

VARIABLES
    config,         \* what the builder was given
    parsed,         \* what init read from the command line
    pid1,           \* where init's run is
    mounted,        \* <<tag, path>> mounts made so far
    main,           \* the main process: "none", "up", "gone"
    argv,           \* what it was started with
    agent,          \* the agent: "none", "starting", "up", "gone"
    zombies,        \* children that ended and were not waited for
    runq,           \* the agent's ready tasks
    holder,         \* the request whose command holds the thread
    sleeping,       \* shutdown requests whose exit waits for its 100 ms
    exitedFor,      \* the shutdown request the agent exited for
    link,           \* per connection: "new", "refused", "backlog", "served", "closed"
    requests,       \* per connection: sent by the host, not yet read
    finished,       \* per connection: answers not yet written
    answers         \* per connection: written, not yet read by the host

initVars == <<config, parsed, pid1, mounted, main, argv, zombies>>
taskVars == <<runq, holder, sleeping, exitedFor, link, requests, finished, answers>>
agentVars == <<agent, taskVars>>

Idle == [task |-> "none"]
Accept == [task |-> "accept"]
Serve(c) == [task |-> "serve", conn |-> c]
Handle(c, q) == [task |-> "handle", conn |-> c, req |-> q]
Exit(q) == [task |-> "exit", req |-> q, slept |-> FALSE]
ExitSlept(q) == [task |-> "exit", req |-> q, slept |-> TRUE]

GuestInit(configs) ==
    /\ config \in configs /\ parsed = <<>>
    /\ pid1 = "setup" /\ mounted = <<>> /\ main = "none" /\ argv = <<>>
    /\ agent = "none" /\ zombies = {} /\ runq = <<>> /\ holder = Idle
    /\ sleeping = {} /\ exitedFor = {} /\ link = [c \in Conns |-> "new"]
    /\ requests = [c \in Conns |-> <<>>]
    /\ finished = [c \in Conns |-> <<>>]
    /\ answers = [c \in Conns |-> <<>>]

-----------------------------------------------------------------------------
(* The init.  When process 1 ends the kernel panics and, with panic=-1 and *)
(* reboot=t, the machine stops: pid1 = "ended".                            *)
MachineUp == pid1 # "ended"

EndInit == /\ pid1' = "ended"
           /\ UNCHANGED <<config, parsed, mounted, main, argv, zombies, agentVars>>

(* setup_basic_filesystems, setup_console and parse_cmdline.               *)
Setup ==
    /\ pid1 = "setup"
    /\ LET read == ParseCmdline(GenerateCmdline(config))
       IN  ~read.error /\ parsed' = read
    /\ pid1' = "mounting"
    /\ UNCHANGED <<config, mounted, main, argv, zombies, agentVars>>

(* Any of run's steps may return an error; a bad command line always does. *)
SetupFails == pid1 \in {"setup", "mounting", "main"} /\ EndInit

(* One turn of mount_shares: the mount takes the device with that tag.     *)
MountShare ==
    LET n == Len(mounted) + 1
        found == {s \in ToSet(GenerateShares(config)) : s.tag = parsed.mounts[n].tag}
    IN  /\ pid1 = "mounting" /\ n <= Len(parsed.mounts)
        /\ \E s \in found :
              mounted' = Append(mounted, [host |-> s.host, guest |-> parsed.mounts[n].path])
        /\ UNCHANGED <<config, parsed, pid1, main, argv, zombies, agentVars>>

(* Mutant: the agent is started without waiting for the mounts.            *)
SharesListed == Len(mounted) <= Len(parsed.mounts)

SharesMounted == Len(mounted) = Len(parsed.mounts)

SpawnAgent ==
    /\ pid1 = "mounting" /\ SharesMounted
    /\ pid1' = "main" /\ agent' = "starting"
    /\ UNCHANGED <<config, parsed, mounted, main, argv, zombies, taskVars>>

SpawnMainProcess ==
    /\ pid1 = "main"
    /\ IF parsed.main # <<>> THEN main' = "up" /\ argv' = parsed.main
                             ELSE UNCHANGED <<main, argv>>
    /\ pid1' = "loop"
    /\ UNCHANGED <<config, parsed, mounted, zombies, agentVars>>

(* Mutant: a main process killed by a signal is reaped like any other.     *)
EndsOnExit(z) == z.how = "exited"

(* Which child's end makes event_loop exit: the main process however it    *)
(* ended, the agent only when it exited by itself.                         *)
EndsTheLoop(z) == z.pid = "main" \/ (z.pid = "agent" /\ z.how = "exited")

(* waitpid returns any child that has ended.                               *)
WaitChild ==
    /\ pid1 = "loop"
    /\ \E z \in zombies :
          /\ zombies' = zombies \ {z}
          /\ pid1' = IF EndsTheLoop(z) THEN "ended" ELSE pid1
    /\ UNCHANGED <<config, parsed, mounted, main, argv, agentVars>>

(* ECHILD.                                                                 *)
NoMoreChildren ==
    /\ pid1 = "loop" /\ zombies = {} /\ main # "up" /\ agent = "gone"
    /\ EndInit

InitStep == MountShare \/ SpawnAgent \/ SpawnMainProcess \/ WaitChild \/ NoMoreChildren

(* The main process is the user's: it ends when it likes, or is killed.    *)
MainEnds ==
    /\ MachineUp /\ main = "up"
    /\ main' = "gone"
    /\ \E how \in {"exited", "signaled"} :
          zombies' = zombies \union {[pid |-> "main", how |-> how]}
    /\ UNCHANGED <<config, parsed, pid1, mounted, argv, agentVars>>

-----------------------------------------------------------------------------
(* The agent.                                                              *)
AgentListens ==
    /\ MachineUp /\ agent = "starting" /\ agent' = "up"
    /\ UNCHANGED <<initVars, taskVars>>

AgentGone(how) ==
    /\ agent' = "gone" /\ runq' = <<>> /\ holder' = Idle /\ sleeping' = {}
    /\ zombies' = zombies \union {[pid |-> "agent", how |-> how]}
    /\ UNCHANGED <<config, parsed, pid1, mounted, main, argv, link, requests, finished, answers>>

(* The bind fails and main exits with 1, or the kernel kills the process.  *)
AgentFails ==
    /\ MachineUp
    /\ \/ agent = "starting" /\ AgentGone("exited")
       \/ agent \in {"starting", "up"} /\ AgentGone("signaled")
    /\ UNCHANGED exitedFor

Thread == MachineUp /\ agent = "up" /\ holder = Idle

Woken(queue, t) == IF Contains(queue, t) THEN queue ELSE Append(queue, t)

(* The reactor: a readable listener or connection, a timer that is due.    *)
WakeAccept ==
    /\ Thread /\ \E c \in Conns : link[c] = "backlog"
    /\ ~Contains(runq, Accept)
    /\ runq' = Append(runq, Accept)
    /\ UNCHANGED <<initVars, agent, holder, sleeping, exitedFor, link, requests, finished, answers>>

WakeServe(c) ==
    /\ Thread /\ link[c] = "served" /\ requests[c] # <<>>
    /\ ~Contains(runq, Serve(c))
    /\ runq' = Append(runq, Serve(c))
    /\ UNCHANGED <<initVars, agent, holder, sleeping, exitedFor, link, requests, finished, answers>>

TimerFires(q) ==
    /\ Thread /\ q \in sleeping
    /\ sleeping' = sleeping \ {q}
    /\ runq' = Append(runq, ExitSlept(q))
    /\ UNCHANGED <<initVars, agent, holder, exitedFor, link, requests, finished, answers>>

Takes(t) == Thread /\ runq # <<>> /\ Head(runq) = t

(* async_main's loop: every connection waiting gets a task of its own.     *)
RunAccept ==
    LET new == SetToSeq({c \in Conns : link[c] = "backlog"})
    IN  /\ Takes(Accept)
        /\ runq' = Tail(runq) \o [i \in DOMAIN new |-> Serve(new[i])]
        /\ link' = [c \in Conns |-> IF link[c] = "backlog" THEN "served" ELSE link[c]]
        /\ UNCHANGED <<initVars, agent, holder, sleeping, exitedFor, requests, finished, answers>>

(* execute(..).for_each(spawn): every request read is spawned, then every  *)
(* finished answer is written.                                             *)
RunServe(c) ==
    /\ Takes(Serve(c))
    /\ runq' = Tail(runq) \o [i \in DOMAIN requests[c] |-> Handle(c, requests[c][i])]
    /\ requests' = [requests EXCEPT ![c] = <<>>]
    /\ answers' = [answers EXCEPT ![c] = @ \o finished[c]]
    /\ finished' = [finished EXCEPT ![c] = <<>>]
    /\ UNCHANGED <<initVars, agent, holder, sleeping, exitedFor, link>>

Finish(c, q) == finished' = [finished EXCEPT ![c] = Append(@, q)]

(* ping, and the calls on files and on the system's description.           *)
RunSimple(c, q) ==
    /\ q.kind \in {"ping", "file"} /\ Takes(Handle(c, q))
    /\ Finish(c, q) /\ runq' = Woken(Tail(runq), Serve(c))
    /\ UNCHANGED <<initVars, agent, holder, sleeping, exitedFor, link, requests, answers>>

(* exec_command waits for the command on the agent's only thread.          *)
RunExec(c, q) ==
    /\ q.kind = "exec" /\ Takes(Handle(c, q))
    /\ holder' = Handle(c, q) /\ runq' = Tail(runq)
    /\ UNCHANGED <<initVars, agent, sleeping, exitedFor, link, requests, finished, answers>>

(* Mutant: the answer is kept but nobody is told.                          *)
CommandEndsQuietly ==
    /\ MachineUp /\ agent = "up" /\ holder # Idle
    /\ holder' = Idle
    /\ Finish(holder.conn, holder.req)
    /\ UNCHANGED <<initVars, agent, runq, sleeping, exitedFor, link, requests, answers>>

CommandEnds ==
    /\ MachineUp /\ agent = "up" /\ holder # Idle
    /\ holder' = Idle
    /\ Finish(holder.conn, holder.req) /\ runq' = Woken(runq, Serve(holder.conn))
    /\ UNCHANGED <<initVars, agent, sleeping, exitedFor, link, requests, answers>>

(* shutdown: the exit is spawned, then the answer is returned.             *)
RunShutdown(c, q) ==
    /\ q.kind = "shutdown" /\ Takes(Handle(c, q))
    /\ Finish(c, q) /\ runq' = Woken(Append(Tail(runq), Exit(q)), Serve(c))
    /\ UNCHANGED <<initVars, agent, holder, sleeping, exitedFor, link, requests, answers>>

(* Mutant: the task exits as soon as it runs.                              *)
ExitsAtOnce(t) == TRUE

(* The task spawned by shutdown exits once its sleep is over.              *)
ExitsNow(t) == t.slept

RunExit(q) ==
    /\ Takes(Exit(q)) /\ ~ExitsNow(Exit(q))
    /\ sleeping' = sleeping \union {q} /\ runq' = Tail(runq)
    /\ UNCHANGED <<initVars, agent, holder, exitedFor, link, requests, finished, answers>>

ProcessExits(q) ==
    /\ \E t \in {Exit(q), ExitSlept(q)} : Takes(t) /\ ExitsNow(t)
    /\ AgentGone("exited") /\ exitedFor' = {q}

(* A request its caller gave up on is cancelled if it has not started.     *)
DropHandle(c, q) ==
    /\ Takes(Handle(c, q))
    /\ runq' = Tail(runq)
    /\ UNCHANGED <<initVars, agent, holder, sleeping, exitedFor, link, requests, finished, answers>>
=============================================================================
