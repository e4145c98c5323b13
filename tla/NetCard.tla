------------------------------ MODULE NetCard -------------------------------
(***************************************************************************)
(* From the enumeration of the buses to the running network card: Pci and  *)
(* then, when pci_register_drivers has found a card and rtl8139_init has   *)
(* set it up, Rtl8139.                                                     *)
(***************************************************************************)
EXTENDS Pci, Rtl8139

\* pic_remap leaves the lines of the first controller and line 10 open; of the
\* others rtl8139_init opens none (mouse_init opens line 12).
OpenLines == 0 .. 7 \cup {10, 12}

VARIABLES
    up,         \* pci_register_drivers is done
    irq_line    \* the line of the card, -1 without one (io_base is 0)

ncVars == <<pciVars, vars, up, irq_line>>

NcInit == PciInit /\ Init /\ up = FALSE /\ irq_line = -1

Enumerate == pci_enumerate /\ UNCHANGED <<vars, up, irq_line>>

\* pci_register_drivers calls rtl8139_init for every card in the table; the last
\* one counts.  It installs irq10_handler for the line and opens none.
pci_register_drivers ==
    /\ scan = << >> /\ ~ up
    /\ up' = TRUE
    /\ LET cards == SelectSeq(pci_devices, LAMBDA p : machine[p].kind = "card")
       IN  irq_line' = IF cards = << >> THEN -1 ELSE machine[cards[Len(cards)]].line
    /\ UNCHANGED <<pciVars, vars>>

\* The card runs.
Running == up /\ irq_line # -1 /\ UNCHANGED <<pciVars, up, irq_line>>

Irq == irq_line \in OpenLines /\ IrqEnter

NcNext ==
    \/ Enumerate
    \/ pci_register_drivers
    \/ Running /\ rtl8139_send
    \/ Running /\ Irq
    \/ Running /\ DrainFrame
    \/ Running /\ DrainGarbage
    \/ Running /\ DrainReset
    \/ Running /\ DrainEnd
    \/ Running /\ IrqAck
    \/ \E n \in Sizes : Running /\ CardReceives(n)
    \/ Running /\ CardSends

\* kernel_main enumerates the buses and goes on.
NcSpec ==
    /\ NcInit /\ [][NcNext]_ncVars
    /\ WF_ncVars(Enumerate) /\ WF_ncVars(pci_register_drivers)

\* The boot gets past the buses of every machine, one with a bridge that leads back
\* to its own bus too: the table that fills up ends the recursion.
EnumerationEnds == <>up
=============================================================================
