----------------------------- MODULE VirtioNet ------------------------------
(***************************************************************************)
(* crates/linux/kvm/src/virtio/net.rs: the virtio-net device of each       *)
(* machine, between its driver and one end of a datagram socketpair.  The  *)
(* device is behind a Mutex.  A vCPU that notifies the transmit queue      *)
(* holds it for the whole of process_tx_queue, which sends with flags 0 on *)
(* a blocking socket; the polling task (vm.rs:404-415) takes it with       *)
(* try_lock and never waits.                                               *)
(*                                                                         *)
(* A frame is its sender, its number and its destination.  A ring is what  *)
(* it makes available to the device.  The driver is external: it kicks     *)
(* with every frame, so a transmit ring that is not empty is being served, *)
(* and kicks when it has posted receive buffers.                           *)
(***************************************************************************)
EXTENDS Naturals, Sequences

CONSTANTS
    VMs,            \* the machines
    SockCap,        \* frames a socket buffers in one direction
    RxRing          \* receive buffers a driver posts

VARIABLES
    ready,      \* devices with DRIVER_OK and both queues ready
    txRing,     \* frames available in the transmit ring
    rxBufs,     \* buffers available in the receive ring
    rx_queue,   \* VirtioNet.rx_queue
    up, down,   \* the socketpair: to the host, to the device
    sent,       \* frames each station has sent
    inbox,      \* frames each station's driver has been given
    resets      \* resets so far

netVars == <<ready, txRing, rxBufs, rx_queue, up, down, sent, inbox, resets>>

(* The devices of the machines in up0 are up.                              *)
NetInit(stations, up0) ==
    /\ ready = up0
    /\ txRing = [v \in VMs |-> <<>>]
    /\ rxBufs = [v \in VMs |-> 0]
    /\ rx_queue = [v \in VMs |-> <<>>]
    /\ up = [v \in VMs |-> <<>>]
    /\ down = [v \in VMs |-> <<>>]
    /\ sent = [s \in stations |-> 0]
    /\ inbox = [s \in stations |-> <<>>]
    /\ resets = 0

(* The Mutex is held by a vCPU in process_tx_queue.                        *)
Sending(v) == txRing[v] # <<>>

-----------------------------------------------------------------------------
(* handle_mmio_write, by register.                                         *)

(* The queues (QUEUE_SEL, QUEUE_NUM, their addresses, QUEUE_READY) and     *)
(* DRIVER_OK.                                                              *)
BringUp(v) ==
    /\ v \notin ready
    /\ ready' = ready \cup {v}
    /\ UNCHANGED <<txRing, rxBufs, rx_queue, up, down, sent, inbox, resets>>

(* STATUS 0: the queues go back to their default, rx_queue stays.          *)
ResetDevice(v) ==
    /\ v \in ready /\ ~Sending(v)
    /\ ready' = ready \ {v}
    /\ rxBufs' = [rxBufs EXCEPT ![v] = 0]
    /\ resets' = resets + 1
    /\ UNCHANGED <<txRing, rx_queue, up, down, sent, inbox>>

(* A frame is queued and QUEUE_NOTIFY written: process_tx_queue begins, or *)
(* finds one frame more.                                                   *)
QueueFrame(v, dst) ==
    /\ v \in ready
    /\ sent' = [sent EXCEPT ![v] = @ + 1]
    /\ txRing' = [txRing EXCEPT ![v] =
                     Append(@, [src |-> v, n |-> sent[v] + 1, dst |-> dst])]
    /\ UNCHANGED <<ready, rxBufs, rx_queue, up, down, inbox, resets>>

(* One turn of its loop: pop a chain, send the frame, return the chain.    *)
(* The send waits for room in the socket; the last turn ends the hold.     *)
SendFrame(v) ==
    /\ Sending(v) /\ Len(up[v]) < SockCap
    /\ up' = [up EXCEPT ![v] = Append(@, Head(txRing[v]))]
    /\ txRing' = [txRing EXCEPT ![v] = Tail(@)]
    /\ UNCHANGED <<ready, rxBufs, rx_queue, down, sent, inbox, resets>>

SendWaits(v) == Sending(v) /\ Len(up[v]) = SockCap

(* A signal ends a send that waits; its result is ignored.                 *)
SendInterrupted(v) ==
    /\ SendWaits(v)
    /\ txRing' = [txRing EXCEPT ![v] = Tail(@)]
    /\ UNCHANGED <<ready, rxBufs, rx_queue, up, down, sent, inbox, resets>>

-----------------------------------------------------------------------------
Least(a, b) == IF a <= b THEN a ELSE b

(* process_rx_queue: a chain for each pending frame, while there are both. *)
ProcessRxQueue(v, pending, bufs) ==
    LET n == IF v \in ready THEN Least(bufs, Len(pending)) ELSE 0
    IN  /\ inbox' = [inbox EXCEPT ![v] = @ \o SubSeq(pending, 1, n)]
        /\ rx_queue' = [rx_queue EXCEPT ![v] = SubSeq(pending, n + 1, Len(pending))]
        /\ rxBufs' = [rxBufs EXCEPT ![v] = bufs - n]

(* poll_rx, each tick: everything the socket holds, then what can be       *)
(* handed over.  A tick that finds the socket empty hands over nothing     *)
(* that the last one, or the driver's kick, did not.                       *)
PollRx(v) ==
    /\ ~Sending(v) /\ down[v] # <<>>
    /\ down' = [down EXCEPT ![v] = <<>>]
    /\ ProcessRxQueue(v, rx_queue[v] \o down[v], rxBufs[v])
    /\ UNCHANGED <<ready, txRing, up, sent, resets>>

(* Receive buffers are posted and QUEUE_NOTIFY written.                    *)
PostBuffers(v) ==
    /\ v \in ready /\ ~Sending(v) /\ rxBufs[v] < RxRing
    /\ ProcessRxQueue(v, rx_queue[v], RxRing)
    /\ UNCHANGED <<ready, txRing, up, down, sent, resets>>
=============================================================================
