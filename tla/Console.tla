------------------------------ MODULE Console -------------------------------
(***************************************************************************)
(* VmConsole (crates/capsa/src/console.rs) on top of the console of a KVM  *)
(* machine, with a shell on the guest's side.  Several tasks may use one   *)
(* VmConsole: its methods take &self.                                      *)
(*                                                                         *)
(* A caller performs the operations of its script one after the other:     *)
(*   exec    write the command and the printf of its marker, then wait     *)
(*           for the marker at the start of a line                         *)
(*   prompt  wait_for the shell's prompt                                   *)
(*   drain   read_available                                                *)
(***************************************************************************)
EXTENDS VirtioConsole, FiniteSets

CONSTANTS
    Callers,
    Scripts,        \* functions from callers to sequences of operations
    Nobody

ASSUME CapacityAssumption == {RxRing, BufCap, InCap, OutCap} \subseteq Nat \ {0}

VARIABLES
    script,         \* what each caller still has to do
    st,             \* per caller: "idle", "write", "lock", "read"
    id,             \* per caller: cmd_id of its exec
    counter,        \* CMD_COUNTER
    reader,         \* who holds the reader's Mutex
    line, buffer,   \* read_line's unfinished line; VmConsole::buffer
    results,        \* the ids of exec calls that returned Ok
    written,        \* the lines written, in order (history)
    consumed,       \* the lines the shell has read, in order (history)
    running,        \* the command the shell runs
    completed,      \* commands that have ended (history)
    pieces,         \* number of pieces produced
    taken, lost     \* pieces returned to callers, pieces dropped (history)

callVars == <<script, st, id, counter, reader, line, buffer, results, written, taken, lost>>
shellVars == <<consumed, running, completed, pieces>>
vars == <<vm, devVars, callVars, shellVars>>

Init ==
    /\ ConsoleInit
    /\ script \in Scripts
    /\ st = [t \in Callers |-> "idle"] /\ id = [t \in Callers |-> 0] /\ counter = 0
    /\ reader = Nobody /\ line = <<>> /\ buffer = <<>> /\ results = {}
    /\ written = <<>> /\ taken = {} /\ lost = {}
    /\ consumed = <<>> /\ running = 0 /\ completed = {} /\ pieces = 0

-----------------------------------------------------------------------------
(* The shell: it echoes the line it reads, the marker's text included,     *)
(* runs it, and prints the marker on a line of its own and a prompt.       *)
Piece(k, kind, n) == [seq |-> k, kind |-> kind, cmd |-> n, nl |-> kind # "prompt"]

ShellReads ==
    /\ running = 0 /\ tty # <<>>
    /\ Transmit(<<Piece(pieces + 1, "echo", Head(tty))>>)
    /\ running' = Head(tty) /\ consumed' = Append(consumed, Head(tty)) /\ tty' = Tail(tty)
    /\ pieces' = pieces + 1
    /\ UNCHANGED <<vm, task, pipeIn, input_buffer, ready, avail, used, pipeOut, callVars, completed>>

CommandEnds ==
    /\ running # 0
    /\ Transmit(<<Piece(pieces + 1, "marker", running), Piece(pieces + 2, "prompt", running)>>)
    /\ completed' = completed \union {running} /\ running' = 0
    /\ pieces' = pieces + 2
    /\ UNCHANGED <<vm, task, pipeIn, input_buffer, ready, avail, used, tty, pipeOut, callVars, consumed>>

-----------------------------------------------------------------------------
Op(t) == Head(script[t])
Done(t) == script' = [script EXCEPT ![t] = Tail(@)]
GoTo(t, state) == st' = [st EXCEPT ![t] = state]

(* exec takes a number; write_line then waits for room in the pipe.        *)
ExecBegins(t) ==
    /\ st[t] = "idle" /\ script[t] # <<>> /\ Op(t) = "exec"
    /\ counter' = counter + 1 /\ id' = [id EXCEPT ![t] = counter + 1]
    /\ GoTo(t, "write")
    /\ UNCHANGED <<vm, devVars, shellVars, script, reader, line, buffer, results, written,
                   taken, lost>>

ExecWrites(t) ==
    /\ st[t] = "write" /\ task = "running" /\ Len(pipeIn) < InCap
    /\ pipeIn' = Append(pipeIn, id[t]) /\ written' = Append(written, id[t])
    /\ GoTo(t, "lock")
    /\ UNCHANGED <<vm, task, input_buffer, ready, avail, used, tty, tx, pipeOut, shellVars,
                   script, id, counter, reader, line, buffer, results, taken, lost>>

(* The pipe's other end is closed.                                         *)
ExecCannotWrite(t) ==
    /\ st[t] = "write" /\ task = "ended"
    /\ GoTo(t, "idle") /\ Done(t)
    /\ UNCHANGED <<vm, devVars, shellVars, id, counter, reader, line, buffer, results, written,
                   taken, lost>>

PromptBegins(t) ==
    /\ st[t] = "idle" /\ script[t] # <<>> /\ Op(t) = "prompt"
    /\ GoTo(t, "lock")
    /\ UNCHANGED <<vm, devVars, shellVars, script, id, counter, reader, line, buffer, results,
                   written, taken, lost>>

(* Mutant: the marker's text without the newline in front of it.           *)
MatchesText(t, p) ==
    IF Op(t) = "exec" THEN p.kind \in {"echo", "marker"} /\ p.cmd = id[t] ELSE p.kind = "prompt"

(* ExecMarker::as_pattern, or the prompt.                                  *)
Matches(t, p) ==
    IF Op(t) = "exec" THEN p.kind = "marker" /\ p.cmd = id[t] ELSE p.kind = "prompt"

(* The search at the top of wait_for's loop: what is found is drained from *)
(* the buffer with all that precedes it, and the call returns.             *)
Search(t, text) ==
    LET at == SelectInSeq(text, LAMBDA p : Matches(t, p))
    IN  IF at = 0
        THEN /\ buffer' = text /\ reader' = t /\ GoTo(t, "read")
             /\ UNCHANGED <<script, results, taken>>
        ELSE /\ buffer' = SubSeq(text, at + 1, Len(text)) /\ reader' = Nobody
             /\ GoTo(t, "idle") /\ Done(t)
             /\ results' = IF Op(t) = "exec" THEN results \union {id[t]} ELSE results
             /\ taken' = taken \union {text[i].seq : i \in 1..at}

WaitLocks(t) ==
    /\ st[t] = "lock" /\ reader = Nobody
    /\ Search(t, buffer)
    /\ UNCHANGED <<vm, devVars, shellVars, id, counter, line, written, lost>>

(* read_line takes what is there; a finished line goes into the buffer.    *)
WaitReads(t) ==
    /\ st[t] = "read" /\ pipeOut # <<>>
    /\ pipeOut' = Tail(pipeOut)
    /\ LET all == Append(line, Head(pipeOut))
       IN  IF Head(pipeOut).nl THEN line' = <<>> /\ Search(t, buffer \o all)
           ELSE line' = all /\ UNCHANGED <<buffer, reader, st, script, results, taken>>
    /\ UNCHANGED <<vm, task, pipeIn, input_buffer, ready, avail, used, tty, tx, shellVars,
                   id, counter, written, lost>>

(* The end of the output: what is left of a line still counts as one.      *)
WaitEnds(t) ==
    /\ st[t] = "read" /\ pipeOut = <<>> /\ Closed
    /\ IF line # <<>> THEN line' = <<>> /\ Search(t, buffer \o line)
       ELSE /\ GoTo(t, "idle") /\ Done(t) /\ reader' = Nobody
            /\ UNCHANGED <<line, buffer, results, taken>>
    /\ UNCHANGED <<vm, devVars, shellVars, id, counter, written, lost>>

(* A wait that is dropped while it reads loses the unfinished line, which  *)
(* read_line has taken from the stream and not yet returned.               *)
DropsLine(t) == reader = t /\ lost' = lost \union {p.seq : p \in ToSet(line)}
                           /\ buffer' = buffer /\ line' = <<>> /\ reader' = Nobody

TimesOut(t) ==
    /\ st[t] \in {"lock", "read"}
    /\ GoTo(t, "idle") /\ Done(t)
    /\ DropsLine(t) \/ (reader # t /\ UNCHANGED <<lost, buffer, line, reader>>)
    /\ UNCHANGED <<vm, devVars, shellVars, id, counter, results, written, taken>>

(* read_available reads the stream and leaves the buffer alone.            *)
ReadAvailable(t) ==
    /\ st[t] = "idle" /\ script[t] # <<>> /\ Op(t) = "drain" /\ reader = Nobody
    /\ pipeOut' = <<>> /\ taken' = taken \union {p.seq : p \in ToSet(pipeOut)} /\ Done(t)
    /\ UNCHANGED <<vm, task, pipeIn, input_buffer, ready, avail, used, tty, tx, shellVars,
                   st, id, counter, reader, line, buffer, results, written, lost>>

-----------------------------------------------------------------------------
DeviceStep == InputTask \/ DriverReady \/ DriverTakes \/ WritePiece \/ KillReturns

CallerStep(t) ==
    \/ ExecBegins(t) \/ ExecWrites(t) \/ ExecCannotWrite(t) \/ PromptBegins(t)
    \/ WaitLocks(t) \/ WaitReads(t) \/ WaitEnds(t) \/ ReadAvailable(t)

Progress ==
    \/ DeviceStep /\ UNCHANGED <<callVars, shellVars>>
    \/ ShellReads
    \/ CommandEnds
    \/ \E t \in Callers : CallerStep(t)

Next ==
    \/ Progress
    \/ \E t \in Callers : TimesOut(t)
    \/ (GuestStops \/ Kill) /\ UNCHANGED <<callVars, shellVars>>

Spec == Init /\ [][Next]_vars

(* The vCPUs, the input task and the callers keep running and every        *)
(* command ends; no timeout has to expire.  The scripts are finite, so     *)
(* that progress made as long as possible is all the fairness needed.      *)
FairSpec == Spec /\ WF_vars(Progress)

-----------------------------------------------------------------------------
(* Commands reach the shell in the order in which write_line put them into *)
(* the pipe, none twice and none missing, however the input task cuts the  *)
(* stream, whether or not the device had buffers for it at the time, and   *)
(* however often the driver gives buffers back.                            *)
InputInOrder ==
    written = consumed \o tty \o FlattenSeq(used) \o input_buffer \o pipeIn

(* exec returns Ok only when its command has ended: the echo of the        *)
(* command, which holds the marker's text, does not count, and neither do  *)
(* another caller's marker and what is left in the buffer.                 *)
ExecMeansCompleted == results \subseteq completed

(* No output is repeated, reordered or dropped on its way through the      *)
(* device, the pipe, the unfinished line and the buffer, except that a     *)
(* wait that times out loses a line whose end it has not seen.             *)
OutputAccounted ==
    LET stream == buffer \o line \o pipeOut \o tx
    IN  /\ \A i, j \in DOMAIN stream : i < j => stream[i].seq < stream[j].seq
        /\ {p.seq : p \in ToSet(stream)} \union taken \union lost = 1..pieces
        /\ \A n \in lost : n \notin taken

(* What may keep a call waiting for ever, when no timeout ends it:         *)
(* the marker was drained by another caller that waited for a later one;   *)
Stolen(t) == Op(t) = "exec" /\ id[t] \in completed
                /\ \A p \in ToSet(buffer \o line \o pipeOut \o tx) : ~Matches(t, p)

(* the pattern has been read but its line has no end yet;                  *)
Unfinished(t) == \E p \in ToSet(line) : Matches(t, p)

(* every prompt printed has been drained, or lost with a line;             *)
NoPrompt(t) == Op(t) = "prompt" /\ ~\E p \in ToSet(buffer \o line \o pipeOut \o tx) : Matches(t, p)

(* the guest powered off, and the input task holds the pipes open;         *)
HeldOpen == vm = "off" /\ task = "running"

(* both pipes are full and nobody reads.                                   *)
Jammed == Len(pipeIn) = InCap /\ tx # <<>> /\ Len(pipeOut) = OutCap /\ reader = Nobody

(* In the end every call has returned or one of these holds it back, and   *)
(* kill() has returned unless the guest's output has no reader: nothing    *)
(* else can make a caller of VmConsole wait for ever.                      *)
Settled ==
    /\ \A t \in Callers :
          \/ st[t] = "idle" /\ script[t] = <<>>
          \/ st[t] = "read" /\ (Stolen(t) \/ Unfinished(t) \/ NoPrompt(t) \/ HeldOpen)
          \/ st[t] \in {"idle", "lock"} /\ reader # Nobody
          \/ st[t] = "write" /\ Jammed
    /\ vm = "killing" => tx # <<>> /\ Len(pipeOut) = OutCap /\ reader = Nobody

CallsSettle == <>[]Settled
=============================================================================
