-------------------------------- MODULE Pci ---------------------------------
(***************************************************************************)
(* The enumeration of the PCI buses (src/drivers/pci/pci.c).               *)
(*                                                                         *)
(* The machine is a function from the places <<bus, device, function>>     *)
(* that are occupied to what is there; it is external.  The recursion of   *)
(* pci_enumerate_bus and pci_check_function is the stack of the places     *)
(* that each active loop looks at next.                                    *)
(***************************************************************************)
EXTENDS Integers, Sequences, FiniteSets

CONSTANTS
    Machines,           \* the machines to boot
    DEVICES,            \* devices of a bus: 32
    FUNCTIONS,          \* functions of a device: 8
    MAX_PCI_DEVICES

\* What may be at a place: a bridge to the bus secondary, the card, or anything else.
Bridge(secondary) == [kind |-> "bridge", secondary |-> secondary]
Card(line) == [kind |-> "card", line |-> line]
Other == [kind |-> "other"]

\* A place has a number on its bus, what a bridge names is the number of a bus, and
\* function 0 is there when another of the device is, on the host's own device always
\* (PCI; external).
ASSUME PciAssumption ==
    /\ DEVICES \in Nat \ {0} /\ FUNCTIONS \in Nat \ {0}
    /\ MAX_PCI_DEVICES \in Nat \ {0}
    /\ \A m \in Machines :
          /\ <<0, 0, 0>> \in DOMAIN m
          /\ \A p \in DOMAIN m :
                /\ p \in Nat \X (0 .. DEVICES - 1) \X (0 .. FUNCTIONS - 1)
                /\ <<p[1], p[2], 0>> \in DOMAIN m
                /\ m[p].kind = "bridge" => m[p].secondary \in Nat

VARIABLES
    machine,
    scan,           \* the places the loops look at next, innermost first
    pci_devices     \* the places found, in order

pciVars == <<machine, scan, pci_devices>>

Present(m, p) == p \in DOMAIN m
\* Bit 0x80 of the header type.
Multi(m, bus, dev) == \E f \in 1 .. FUNCTIONS - 1 : Present(m, <<bus, dev, f>>)

\* pci_enumerate: bus 0 or, when device 0 has several functions, the bus with the
\* number of each, in order.
FirstBuses(m) ==
    {f \in 0 .. FUNCTIONS - 1 : IF Multi(m, 0, 0) THEN Present(m, <<0, 0, f>>) ELSE f = 0}

PciInit ==
    /\ machine \in Machines
    /\ \E bus \in [1 .. Cardinality(FirstBuses(machine)) -> FirstBuses(machine)] :
          /\ \A i, j \in DOMAIN bus : i < j => bus[i] < bus[j]
          /\ scan = [i \in DOMAIN bus |-> <<bus[i], 0, 0>>]
    /\ pci_devices = << >>

\* Mutant of After: the last function is left out.
AfterShort(p) ==
    IF Multi(machine, p[1], p[2]) /\ Present(machine, <<p[1], p[2], 0>>) /\ p[3] < FUNCTIONS - 2
    THEN <<p[1], p[2], p[3] + 1>>
    ELSE <<p[1], p[2] + 1, 0>>

\* Mutant of After: the number of a device wraps.
AfterWrap(p) ==
    IF Multi(machine, p[1], p[2]) /\ Present(machine, <<p[1], p[2], 0>>) /\ p[3] < FUNCTIONS - 1
    THEN <<p[1], p[2], p[3] + 1>>
    ELSE <<p[1], (p[2] + 1) % DEVICES, 0>>

\* The place the loops of pci_enumerate_bus come to after p.
After(p) ==
    IF Multi(machine, p[1], p[2]) /\ Present(machine, <<p[1], p[2], 0>>) /\ p[3] < FUNCTIONS - 1
    THEN <<p[1], p[2], p[3] + 1>>
    ELSE <<p[1], p[2] + 1, 0>>

\* The bus of the innermost loop has no device left: it returns.
EndOfBus ==
    /\ scan # << >> /\ scan[1][2] >= DEVICES
    /\ scan' = Tail(scan)
    /\ UNCHANGED <<machine, pci_devices>>

\* Nothing is at the place, or the table is full.
PassOver ==
    /\ scan # << >> /\ scan[1][2] < DEVICES
    /\ Present(machine, scan[1]) => Len(pci_devices) >= MAX_PCI_DEVICES
    /\ scan' = <<After(scan[1])>> \o Tail(scan)
    /\ UNCHANGED <<machine, pci_devices>>

\* pci_check_function stores the function and enters the bus behind a bridge.
check_function ==
    /\ scan # << >> /\ scan[1][2] < DEVICES
    /\ Present(machine, scan[1])
    /\ Len(pci_devices) < MAX_PCI_DEVICES
    /\ pci_devices' = Append(pci_devices, scan[1])
    /\ LET f == machine[scan[1]]
           rest == <<After(scan[1])>> \o Tail(scan)
       IN  scan' = IF f.kind = "bridge" THEN <<<<f.secondary, 0, 0>>>> \o rest ELSE rest
    /\ UNCHANGED machine

pci_enumerate == EndOfBus \/ PassOver \/ check_function

-----------------------------------------------------------------------------
(***************************************************************************)
(* Properties.                                                             *)
(***************************************************************************)

Bridges == {p \in DOMAIN machine : machine[p].kind = "bridge"}

\* The buses that can be reached from the first ones: those in every set of buses that
\* has the first ones and what is behind its own bridges.
Numbers == FirstBuses(machine) \cup {machine[p].secondary : p \in Bridges}
Buses ==
    {b \in Numbers : \A B \in SUBSET Numbers :
        /\ FirstBuses(machine) \subseteq B
        /\ \A p \in Bridges : p[1] \in B => machine[p].secondary \in B
        => b \in B}

Reachable == {p \in DOMAIN machine : p[1] \in Buses}

\* Every bus is behind one bridge, bus 0 behind none, and device 0 is one function.
Tree ==
    /\ ~ Multi(machine, 0, 0)
    /\ \A p \in Bridges : machine[p].secondary # 0
    /\ \A p, q \in Bridges : machine[p].secondary = machine[q].secondary => p = q

Found == {pci_devices[i] : i \in 1 .. Len(pci_devices)}

\* The enumeration finds every function that can be reached, unless the table has
\* filled up, none else, and each once when the buses are a tree.  (A bus that is
\* both behind a bridge and numbered like a function of device 0 is found twice,
\* and a driver is initialised twice; a bridge to bus 0 fills the table.)
FoundOnce ==
    scan = << >> =>
        /\ Found \subseteq Reachable
        /\ Len(pci_devices) < MAX_PCI_DEVICES => Found = Reachable
        /\ Tree => Cardinality(Found) = Len(pci_devices)
=============================================================================
