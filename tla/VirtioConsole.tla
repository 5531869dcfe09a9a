--------------------------- MODULE VirtioConsole ----------------------------
(***************************************************************************)
(* The console of a KVM machine: the two pipes between the host and the    *)
(* device, the task that carries input to it (crates/linux/kvm/src/vm.rs)  *)
(* and the virtio device itself (crates/linux/kvm/src/virtio/console.rs).  *)
(*                                                                         *)
(* Input travels as lines, output as pieces that end in a newline or not.  *)
(* A vCPU thread that handles a transmit notification keeps the device's   *)
(* Mutex until all of it is written to the pipe: the Mutex is taken        *)
(* exactly while tx is not empty.                                          *)
(***************************************************************************)
EXTENDS Naturals, Sequences, SequencesExt

CONSTANTS
    RxRing,         \* buffers the driver gives the device for input
    BufCap,         \* lines that fit one of them
    InCap, OutCap   \* capacities of the pipes

VARIABLES
    vm,             \* "up", "killing", "dead", or "off": stopped by its guest
    task,           \* console_input_task: "running" or "ended"
    pipeIn,         \* written by the host, not read by the task
    input_buffer,   \* in the device, not yet in a buffer of the guest
    ready,          \* the queues are set up
    avail,          \* buffers the device may still use
    used,           \* buffers returned to the driver, with their lines
    tty,            \* input the driver has passed on
    tx,             \* output the vCPU has to write
    pipeOut         \* output the host has not read

devVars == <<task, pipeIn, input_buffer, ready, avail, used, tty, tx, pipeOut>>

ConsoleInit ==
    /\ vm = "up" /\ task = "running" /\ pipeIn = <<>> /\ input_buffer = <<>>
    /\ ready = FALSE /\ avail = 0 /\ used = <<>> /\ tty = <<>> /\ tx = <<>> /\ pipeOut = <<>>

Running == vm = "up"
Unlocked == tx = <<>>

-----------------------------------------------------------------------------
(* Mutant: the bytes given to the guest stay in input_buffer.              *)
KeptInput(input, taken) == input

(* input.drain(..to_write).                                                *)
Drained(input, taken) == SubSeq(input, taken + 1, Len(input))

(* Mutant: without the early return for no input.                          *)
PoppedUnchecked(input, buffers, filled) == IF buffers > filled THEN filled + 1 ELSE filled

(* process_rx_queue: buffers are filled while there is input.  A buffer is *)
(* taken from the ring before the input is looked at, so that the one      *)
(* taken when the input has run out is neither filled nor returned.        *)
Popped(input, buffers, filled) ==
    IF input # <<>> /\ buffers > filled THEN filled + 1 ELSE filled

RxResult(input, buffers) ==
    LET needed == (Len(input) + BufCap - 1) \div BufCap
        filled == IF needed <= buffers THEN needed ELSE buffers
        last(i) == IF i * BufCap < Len(input) THEN i * BufCap ELSE Len(input)
    IN  [input |-> Drained(input, last(filled)),
         avail |-> buffers - Popped(input, buffers, filled),
         used  |-> [i \in 1..filled |-> SubSeq(input, (i - 1) * BufCap + 1, last(i))]]

ProcessRx(input, buffers, returned) ==
    LET result == IF ready' THEN RxResult(input, buffers)
                            ELSE [input |-> input, avail |-> buffers, used |-> <<>>]
    IN  /\ input_buffer' = result.input /\ avail' = result.avail
        /\ used' = returned \o result.used

(* console_input_task: one read of the pipe, any number of lines at once,  *)
(* then enqueue_input, for which it waits for the device's Mutex.          *)
InputTask ==
    /\ task = "running" /\ vm # "dead" /\ Unlocked /\ pipeIn # <<>>
    /\ \E n \in 1..Len(pipeIn) :
          /\ pipeIn' = SubSeq(pipeIn, n + 1, Len(pipeIn))
          /\ UNCHANGED ready
          /\ ProcessRx(input_buffer \o SubSeq(pipeIn, 1, n), avail, used)
    /\ task' = IF Running THEN "running" ELSE "ended"
    /\ UNCHANGED <<vm, tty, tx, pipeOut>>

(* The driver sets the queues up, gives all its buffers and notifies.      *)
DriverReady ==
    /\ Running /\ ~ready /\ Unlocked
    /\ ready' = TRUE /\ ProcessRx(input_buffer, RxRing, <<>>)
    /\ UNCHANGED <<vm, task, pipeIn, tty, tx, pipeOut>>

(* The driver passes a buffer's lines on, gives it back and notifies.      *)
DriverTakes ==
    /\ Running /\ used # <<>> /\ Unlocked
    /\ tty' = tty \o Head(used)
    /\ UNCHANGED ready /\ ProcessRx(input_buffer, avail + 1, Tail(used))
    /\ UNCHANGED <<vm, task, pipeIn, tx, pipeOut>>

(* process_tx_queue, started by a notification for these pieces.           *)
Transmit(pieces) == Running /\ ready /\ Unlocked /\ tx' = pieces

(* Mutant: a piece is read again from the ring, whose index was not kept.  *)
WriteAgain == Running /\ tx # <<>> /\ Len(pipeOut) < OutCap
                /\ pipeOut' = Append(pipeOut, Head(tx)) /\ tx' \in {tx, Tail(tx)}
                /\ UNCHANGED <<vm, task, pipeIn, input_buffer, ready, avail, used, tty>>

(* write_all to the pipe blocks while the pipe is full, and goes on after  *)
(* a signal.                                                               *)
WritePiece ==
    /\ tx # <<>> /\ Len(pipeOut) < OutCap
    /\ pipeOut' = Append(pipeOut, Head(tx)) /\ tx' = Tail(tx)
    /\ UNCHANGED <<vm, task, pipeIn, input_buffer, ready, avail, used, tty>>

-----------------------------------------------------------------------------
(* The guest powers off, or kill() stores running and signals the vCPUs.   *)
GuestStops == Running /\ vm' = "off" /\ UNCHANGED devVars

Kill == vm \in {"up", "off"} /\ vm' = "killing" /\ UNCHANGED devVars

(* kill() joins the vCPU threads, which a blocked write keeps from ending, *)
(* and then aborts the input task.                                         *)
KillReturns ==
    /\ vm = "killing" /\ Unlocked
    /\ vm' = "dead" /\ task' = "ended"
    /\ UNCHANGED <<pipeIn, input_buffer, ready, avail, used, tty, tx, pipeOut>>

(* The pipes' guest ends are closed once neither a vCPU nor the task holds *)
(* the devices.                                                            *)
Closed == vm \in {"off", "dead"} /\ task = "ended" /\ Unlocked
=============================================================================
