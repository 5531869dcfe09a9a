------------------------------ MODULE Cluster -------------------------------
(***************************************************************************)
(* A network cluster: the machines' virtio-net devices (VirtioNet), the    *)
(* switch and its gateway (Switch), the bridge between each device's       *)
(* socketpair and its port (crates/net/src/bridge.rs), and how a machine   *)
(* joins (crates/capsa/src/cluster.rs and backend/linux/kvm.rs).           *)
(*                                                                         *)
(* Machines start, fail to start and are killed at any time; the process   *)
(* that holds the guest's end of the socketpair may die.                   *)
(***************************************************************************)
EXTENDS VirtioNet, Switch, FiniteSets

CONSTANT
    Scenarios       \* bound: what each guest sends, the machines that may go, resets

VARIABLES
    boot,           \* LinuxKvmBackend::start of each machine
    dhcp_started,   \* NetworkCluster.dhcp_started
    bridge,         \* bridge_to_switch: off, up, writer gone, over
    alive,          \* machines whose vCPUs run
    closed,         \* guest ends that are closed
    scenario        \* the scenario of the behaviour

joinVars == <<boot, dhcp_started>>
faultVars == <<alive, closed, scenario>>
vars == <<netVars, switchVars, joinVars, bridge, faultVars>>

ASSUME StationsAssumption == VMs \subseteq Stations /\ Gateway \in Stations \ VMs
ASSUME CapacityAssumption == ChanCap \in Nat \ {0} /\ SockCap \in Nat \ {0}

(* The machines are all to start, or have all joined.                      *)
Init ==
    /\ scenario \in Scenarios
    /\ LET on == IF scenario.joined THEN VMs ELSE {} IN
          /\ NetInit(Stations, on)
          /\ SwitchInit(IF scenario.joined THEN <<Gateway>> \o SetToSeq(VMs) ELSE <<>>)
          /\ boot = [v \in VMs |-> IF scenario.joined THEN "done" ELSE "new"]
          /\ dhcp_started = scenario.joined
          /\ bridge = [v \in VMs |-> IF scenario.joined THEN "up" ELSE "off"]
          /\ alive = on
          /\ closed = {}

Mortal == scenario.mortal

-----------------------------------------------------------------------------
(* LinuxKvmBackend::start: create_port of the cluster, then the machine,   *)
(* then the bridge.                                                        *)
Goes(v, from, to) == boot[v] = from /\ boot' = [boot EXCEPT ![v] = to]

(* ensure_dhcp_started: the compare_exchange.                              *)
EnsureDhcpStarted(v) ==
    /\ Goes(v, "new", IF dhcp_started THEN "port" ELSE "gateway")
    /\ dhcp_started' = TRUE
    /\ UNCHANGED <<netVars, switchVars, bridge, faultVars>>

StartGateway(v) ==
    /\ Goes(v, "gateway", "port")
    /\ CreatePort(Gateway)
    /\ dhcp_started' = TRUE
    /\ UNCHANGED <<netVars, bridge, faultVars>>

JoinCluster(v) ==
    /\ Goes(v, "port", "start")
    /\ CreatePort(v)
    /\ UNCHANGED <<dhcp_started, netVars, bridge, faultVars>>

StartVm(v) ==
    /\ Goes(v, "start", "done")
    /\ alive' = alive \cup {v}
    /\ bridge' = [bridge EXCEPT ![v] = "up"]
    /\ UNCHANGED <<dhcp_started, closed, scenario, netVars, switchVars>>

(* The inner start fails: the port and the host end are dropped, the       *)
(* switch keeps the port's entry.                                          *)
StartFails(v) ==
    /\ v \in Mortal
    /\ Goes(v, "start", "failed")
    /\ DropReceiver(v)
    /\ UNCHANGED <<dhcp_started, netVars, bridge, faultVars>>

-----------------------------------------------------------------------------
(* bridge_to_switch.  A frame in a task's hand is counted in the channel   *)
(* it goes to or comes from, and the two channels from the switch to the   *)
(* socketpair are one.                                                     *)

(* vm_to_switch.                                                           *)
BridgeReads(v) ==
    /\ bridge[v] # "off" /\ up[v] # <<>> /\ Len(toSwitch[v]) < ChanCap
    /\ toSwitch' = [toSwitch EXCEPT ![v] = Append(@, Head(up[v]))]
    /\ up' = [up EXCEPT ![v] = Tail(@)]
    /\ UNCHANGED <<ready, txRing, rxBufs, rx_queue, down, sent, inbox, resets>>
    /\ UNCHANGED <<ports, listening, mac_table, fromSwitch, turn>>
    /\ UNCHANGED <<joinVars, bridge, faultVars>>

(* switch_to_vm and vm_writer: the write waits for room.                   *)
BridgeWrites(v) ==
    /\ bridge[v] = "up" /\ v \notin closed
    /\ fromSwitch[v] # <<>> /\ Len(down[v]) < SockCap
    /\ down' = [down EXCEPT ![v] = Append(@, Head(fromSwitch[v]))]
    /\ fromSwitch' = [fromSwitch EXCEPT ![v] = Tail(@)]
    /\ UNCHANGED <<ready, txRing, rxBufs, rx_queue, up, sent, inbox, resets>>
    /\ UNCHANGED <<ports, listening, mac_table, toSwitch, turn>>
    /\ UNCHANGED <<joinVars, bridge, faultVars>>

(* A closed guest end is an error that ends the writer; switch_to_vm finds *)
(* out at its next frame, and drops the port's receiver.                   *)
BridgeEnds(v) ==
    /\ fromSwitch[v] # <<>>
    /\ \/ /\ bridge[v] = "up" /\ v \in closed
          /\ bridge' = [bridge EXCEPT ![v] = "writer gone"]
          /\ fromSwitch' = [fromSwitch EXCEPT ![v] = Tail(@)]
          /\ UNCHANGED <<ports, listening, mac_table, toSwitch, turn>>
       \/ /\ bridge[v] = "writer gone"
          /\ bridge' = [bridge EXCEPT ![v] = "over"]
          /\ DropReceiver(v)
    /\ UNCHANGED <<netVars, joinVars, faultVars>>

-----------------------------------------------------------------------------
(* A running guest and its device.                                         *)
SendNext(v) ==
    LET sends == scenario.sends[v]
    IN  sent[v] < Len(sends) /\ QueueFrame(v, sends[sent[v] + 1])

DriverStep(v) ==
    /\ v \in alive
    /\ BringUp(v) \/ PostBuffers(v) \/ SendNext(v)
    /\ UNCHANGED <<switchVars, joinVars, bridge, faultVars>>

DriverResets(v) ==
    /\ v \in alive /\ resets < scenario.resets /\ ResetDevice(v)
    /\ UNCHANGED <<switchVars, joinVars, bridge, faultVars>>

Transmits(v) ==
    /\ SendFrame(v)
    /\ UNCHANGED <<switchVars, joinVars, bridge, faultVars>>

(* Mutant: the polling task stops with the machine.                        *)
PollWhileAlive(v) ==
    /\ v \in alive /\ PollRx(v)
    /\ UNCHANGED <<switchVars, joinVars, bridge, faultVars>>

(* The polling task; nothing ends it while the guest's end is open.        *)
Poll(v) ==
    /\ v \notin closed /\ PollRx(v)
    /\ UNCHANGED <<switchVars, joinVars, bridge, faultVars>>

SwitchSends ==
    /\ SendToPort
    /\ UNCHANGED <<netVars, joinVars, bridge, faultVars>>

PortStep(s) ==
    /\ TakeFrame(s)
    /\ UNCHANGED <<netVars, joinVars, bridge, faultVars>>

GatewayStep ==
    /\ \/ GatewayTick(0) /\ UNCHANGED sent
       \/ /\ GatewayTick(sent[Gateway] + 1)
          /\ sent' = [sent EXCEPT ![Gateway] = @ + 1]
    /\ UNCHANGED <<ready, txRing, rxBufs, rx_queue, up, down, inbox, resets>>
    /\ UNCHANGED <<joinVars, bridge, faultVars>>

-----------------------------------------------------------------------------
(* KvmVmHandle::kill: SIGUSR1 ends a send that waits; the vCPU finishes    *)
(* process_tx_queue and exits, the tasks stay.                             *)
KillVm(v) ==
    /\ v \in alive \cap Mortal
    /\ alive' = alive \ {v}
    /\ SendInterrupted(v) \/ (~SendWaits(v) /\ UNCHANGED netVars)
    /\ UNCHANGED <<closed, scenario, switchVars, joinVars, bridge>>

(* The process with the guest's end dies, and the machine with it.         *)
GuestEndCloses(v) ==
    /\ v \in Mortal \ closed /\ boot[v] = "done"
    /\ alive' = alive \ {v}
    /\ closed' = closed \cup {v}
    /\ ready' = ready \ {v}
    /\ txRing' = [txRing EXCEPT ![v] = <<>>]
    /\ down' = [down EXCEPT ![v] = <<>>]
    /\ UNCHANGED <<rxBufs, rx_queue, up, sent, inbox, resets>>
    /\ UNCHANGED <<scenario, switchVars, joinVars, bridge>>

StartStep(v) ==
    \/ EnsureDhcpStarted(v) \/ StartGateway(v) \/ JoinCluster(v) \/ StartVm(v)

(* What tasks, vCPUs and drivers do, and what may befall a machine.        *)
Progress ==
    \/ \E v \in VMs : \/ StartStep(v) \/ DriverStep(v) \/ Transmits(v) \/ Poll(v)
                      \/ BridgeReads(v) \/ BridgeWrites(v) \/ BridgeEnds(v)
    \/ \E s \in Stations : PortStep(s)
    \/ SwitchSends \/ GatewayStep

Fault(v) == StartFails(v) \/ KillVm(v) \/ GuestEndCloses(v) \/ DriverResets(v)

Next == Progress \/ \E v \in VMs : Fault(v)

Spec == Init /\ [][Next]_vars

(* The runtime runs some task, or a vCPU runs, as long as one can: traffic *)
(* is finite, so no more is needed.  No fault must happen.                 *)
FairSpec == Spec /\ WF_vars(Progress)

-----------------------------------------------------------------------------
(* bridge.rs, switch.rs, net.rs: whatever starts, fails, closes or is      *)
(* killed, the machines are on one Ethernet segment: each hears the        *)
(* others' frames in order, at most once, and never its own.               *)
Segment == INSTANCE EthSegment
OneSegment == Segment!Spec

(* The one way the cluster stops: the switch waits for room in the port of *)
(* a machine whose vCPU waits, with the device, for the switch.            *)
Gridlock ==
    /\ turn # NoTurn
    /\ LET w == Head(turn.left) IN
          /\ w \in VMs \cap listening
          /\ Len(fromSwitch[w]) = ChanCap /\ Len(down[w]) = SockCap
          /\ Len(toSwitch[w]) = ChanCap /\ SendWaits(w)

(* Nothing is under way, except what waits for a machine that is dead.     *)
Quiet ==
    /\ turn = NoTurn /\ \A s \in Stations : toSwitch[s] = <<>> /\ fromSwitch[s] = <<>>
    /\ \A v \in VMs : /\ txRing[v] = <<>> /\ up[v] = <<>> /\ down[v] = <<>>
                      /\ v \in alive => rx_queue[v] = <<>>

(* switch.rs:97-173, net.rs:129-155, bridge.rs:23-144: what is sent gets   *)
(* through in the end, whichever machines are starting, dead, closed or    *)
(* never read, or the cluster stops in gridlock.                           *)
Settles == <>[](Quiet \/ Gridlock)

Heard(w, v, n) == \E i \in DOMAIN inbox[w] : inbox[w][i].src = v /\ inbox[w][i].n = n

(* switch.rs:125-155: once all is quiet a machine has heard every frame    *)
(* that was for it: no learned port was wrong, no broadcast missed anyone. *)
QuietMeansHeard ==
    scenario.joined /\ Quiet =>
        \A v, w \in alive : \A n \in 1 .. sent[v] :
            v # w /\ scenario.sends[v][n] \in {Bcast, w} => Heard(w, v, n)
=============================================================================
