---------------------------- MODULE AddressPool ----------------------------
(***************************************************************************)
(* What a DHCP server promises to the machines of a network: an address is *)
(* held for one machine, for the first time ever, from when it is given    *)
(* out until it comes back; a machine uses only the address held for it;   *)
(* and no address comes back while it is in use.                           *)
(***************************************************************************)
CONSTANTS Machines, Addresses, None

VARIABLES
    held,       \* the address held for each machine
    uses,       \* the address each machine uses
    spent       \* the addresses given out so far

poolVars == <<held, uses, spent>>

Init ==
    /\ held = [m \in Machines |-> None]
    /\ uses = [m \in Machines |-> None]
    /\ spent = {}

Allocate(m) ==
    /\ held[m] = None
    /\ \E a \in Addresses \ spent : /\ held' = [held EXCEPT ![m] = a]
                                    /\ spent' = spent \cup {a}
    /\ UNCHANGED uses

Use(m) ==
    /\ held[m] # None
    /\ uses' = [uses EXCEPT ![m] = held[m]]
    /\ UNCHANGED <<held, spent>>

Leave(m) ==
    /\ uses[m] # None
    /\ uses' = [uses EXCEPT ![m] = None]
    /\ UNCHANGED <<held, spent>>

Return(m) ==
    /\ held[m] # None /\ uses[m] = None
    /\ held' = [held EXCEPT ![m] = None]
    /\ UNCHANGED <<uses, spent>>

Next == \E m \in Machines : Allocate(m) \/ Use(m) \/ Leave(m) \/ Return(m)

Spec == Init /\ [][Next]_poolVars
=============================================================================
