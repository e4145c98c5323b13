------------------------------ MODULE Rtl8139 -------------------------------
(***************************************************************************)
(* The network card's driver (src/drivers/rtl8139/rtl8139.c): the receive  *)
(* ring that the interrupt handler empties while the card fills it, and    *)
(* the four transmit descriptors used in turn.                             *)
(*                                                                         *)
(* The handler runs with interrupts disabled, as system calls do, but the  *)
(* card goes on receiving and sending between its steps.  The card is      *)
(* external: it wraps a frame that reaches the end of the ring, takes the  *)
(* read pointer modulo the ring's size, drops a frame it has no room for,  *)
(* and sends its descriptors in turn.  Frames are numbered; their sizes    *)
(* include the 4-byte header and are multiples of 4, written as units.     *)
(***************************************************************************)
EXTENDS Integers, Sequences, FiniteSets

CONSTANTS
    RING,            \* 8192 bytes
    Sizes,           \* of received frames
    DESCRIPTORS,     \* 4
    MaxRx, MaxTx     \* bounds: numbers of frames received and sent (a frame read
                     \* again after a reset counts at most twice)

ASSUME RtlAssumption ==
    /\ RING \in Nat \ {0}
    /\ Sizes \subseteq 1 .. RING - 1
    /\ DESCRIPTORS \in Nat \ {0}
    /\ MaxRx \in Nat /\ MaxTx \in Nat

VARIABLES
    pc, status,          \* the interrupt handler; its copy of the ISR register
    current_rx_offset,
    tx,                  \* the next descriptor
    isr,                 \* the card: its ISR register
    ring,                \* the frame whose header is at an offset; 0: no header
    wr, rd,              \* where it writes next; where the driver reads (CAPR)
    desc, owned,         \* the frames in the descriptors; those still to be sent
    next_tx,             \* the card's next descriptor
    size,                \* history: the sizes of the frames received
    start,               \* history: what the card had received before each of
                         \* them and, last, what it has received by now
    delivered,           \* history: the frames handed to eth_rx
    late,                \* history: frames received after the handler's last look
    submitted, sent      \* history: the number of frames submitted; those sent

rxhistory == <<size, start, delivered, late>>
rxvars == <<pc, status, current_rx_offset, isr, ring, wr, rd, rxhistory>>
txvars == <<tx, desc, owned, next_tx, submitted, sent>>
vars == <<rxvars, txvars>>

Offset == 0 .. RING - 1
Descriptor == 0 .. DESCRIPTORS - 1

\* rtl8139_init; io_base is set.
Init ==
    /\ pc = "idle" /\ status = {} /\ isr = {}
    /\ current_rx_offset = 0 /\ wr = 0 /\ rd = 0
    /\ ring = [o \in Offset |-> 0]
    /\ tx = 0 /\ next_tx = 0 /\ owned = {}
    /\ desc = [d \in Descriptor |-> 0]
    /\ size = <<>> /\ start = <<0>> /\ delivered = <<>> /\ late = {}
    /\ submitted = 0 /\ sent = {}

-----------------------------------------------------------------------------
(***************************************************************************)
(* The driver.                                                             *)
(***************************************************************************)

\* Mutant of NextDescriptor: a step is forgotten at the last descriptor.
NextDescriptorShort == IF tx >= DESCRIPTORS - 2 THEN 0 ELSE tx + 1

NextDescriptor == (tx + 1) % DESCRIPTORS

\* rtl8139_send, from a system call or from eth_rx in the handler: the
\* descriptor's status is read for the log only.  No frame of the kernel is too large.
rtl8139_send ==
    /\ submitted < MaxTx         \* bound
    /\ pc # "ack"
    /\ submitted' = submitted + 1
    /\ desc' = [desc EXCEPT ![tx] = submitted + 1]
    /\ owned' = owned \cup {tx}
    /\ tx' = NextDescriptor
    /\ UNCHANGED <<rxvars, next_tx, sent>>

\* rtl8139_irq_handler reads ISR.
IrqEnter ==
    /\ pc = "idle" /\ isr # {}
    /\ status' = isr
    /\ pc' = IF "ROK" \in isr THEN "drain" ELSE "ack"
    /\ UNCHANGED <<current_rx_offset, isr, ring, wr, rd, rxhistory, txvars>>

Empty == rd = wr       \* BUFE

\* Mutant of DrainFrame: the header is not counted.
DrainFrameNoHeader ==
    /\ pc = "drain" /\ ~ Empty /\ current_rx_offset < RING
    /\ Len(delivered) < 2 * MaxRx      \* bound
    /\ LET f == ring[current_rx_offset]
       IN  /\ f # 0
           /\ delivered' = Append(delivered, f)
           /\ current_rx_offset' = current_rx_offset + size[f] - 1
    /\ rd' = current_rx_offset' % RING
    /\ UNCHANGED <<pc, status, isr, ring, wr, size, start, late, txvars>>

\* The frame at the offset is handed on; the offset is not taken modulo RING.
DrainFrame ==
    /\ pc = "drain" /\ ~ Empty /\ current_rx_offset < RING
    /\ Len(delivered) < 2 * MaxRx      \* bound
    /\ LET f == ring[current_rx_offset]
       IN  /\ f # 0
           /\ delivered' = Append(delivered, f)
           /\ current_rx_offset' = current_rx_offset + size[f]
    /\ rd' = current_rx_offset' % RING
    /\ UNCHANGED <<pc, status, isr, ring, wr, size, start, late, txvars>>

\* No header is at the offset: the next one is anywhere.
DrainGarbage ==
    /\ pc = "drain" /\ ~ Empty /\ current_rx_offset < RING
    /\ ring[current_rx_offset] = 0
    /\ current_rx_offset' \in 0 .. RING
    /\ rd' = current_rx_offset' % RING
    /\ UNCHANGED <<pc, status, isr, ring, wr, rxhistory, txvars>>

\* "RX overflow, resetting".
DrainReset ==
    /\ pc = "drain" /\ ~ Empty /\ current_rx_offset >= RING
    /\ current_rx_offset' = 0
    /\ rd' = 0
    /\ pc' = "ack"
    /\ UNCHANGED <<status, isr, ring, wr, rxhistory, txvars>>

\* Mutant of DrainEnd: one frame for each interrupt.
DrainEndOne ==
    /\ pc = "drain"
    /\ pc' = "ack"
    /\ UNCHANGED <<status, current_rx_offset, isr, ring, wr, rd, rxhistory, txvars>>

DrainEnd ==
    /\ pc = "drain" /\ Empty
    /\ pc' = "ack"
    /\ UNCHANGED <<status, current_rx_offset, isr, ring, wr, rd, rxhistory, txvars>>

\* ISR is cleared where it was set when it was read, so a frame received since
\* DrainEnd goes unannounced.
IrqAck ==
    /\ pc = "ack"
    /\ isr' = isr \ status
    /\ pc' = "idle"
    /\ status' = {}
    /\ UNCHANGED <<current_rx_offset, ring, wr, rd, rxhistory, txvars>>

-----------------------------------------------------------------------------
(***************************************************************************)
(* The card.                                                               *)
(***************************************************************************)

\* The frame's bytes take the place of what was there.
Stored(f, n) ==
    [o \in Offset |-> IF o = wr THEN f ELSE IF (o - wr) % RING < n THEN 0 ELSE ring[o]]

CardReceives(n) ==
    LET f == Len(size) + 1
    IN  /\ f <= MaxRx            \* bound
        /\ Empty \/ n < (rd - wr) % RING
        /\ ring' = Stored(f, n)
        /\ size' = Append(size, n)
        /\ start' = Append(start, start[f] + n)
        /\ wr' = (wr + n) % RING
        /\ isr' = isr \cup {"ROK"}
        /\ late' = IF pc = "ack" /\ "ROK" \in status THEN late \cup {f} ELSE late
        /\ UNCHANGED <<pc, status, current_rx_offset, rd, delivered, txvars>>

CardSends ==
    /\ next_tx \in owned
    /\ owned' = owned \ {next_tx}
    /\ sent' = sent \cup {desc[next_tx]}
    /\ next_tx' = (next_tx + 1) % DESCRIPTORS
    /\ isr' = isr \cup {"TOK"}
    /\ UNCHANGED <<pc, status, current_rx_offset, ring, wr, rd, rxhistory, tx, desc,
                   submitted>>

Next ==
    \/ rtl8139_send
    \/ IrqEnter \/ DrainFrame \/ DrainGarbage \/ DrainReset \/ DrainEnd \/ IrqAck
    \/ \E n \in Sizes : CardReceives(n)
    \/ CardSends

Spec == Init /\ [][Next]_vars

-----------------------------------------------------------------------------
(***************************************************************************)
(* Properties.                                                             *)
(***************************************************************************)

\* The frames received so far fit in one lap of the ring.
FirstLap == start[Len(start)] <= RING

\* Until the ring has come round, every frame is handed on whole, once and in the
\* order of arrival, however arrivals and interrupts interleave.  (Then the reset
\* in the handler puts it out of step with the card.)
DeliveredInOrder == FirstLap => delivered = [i \in 1 .. Len(delivered) |-> i]

\* Until then a frame that waits with no interrupt to come arrived between the
\* handler's last look at the ring and its acknowledgement: no other is left.
StrandedOnlyByAck ==
    FirstLap /\ pc = "idle" /\ "ROK" \notin isr =>
        \A f \in Len(delivered) + 1 .. Len(size) : f \in late

\* Every frame submitted is sent or still to be sent, or was overwritten by the one
\* submitted DESCRIPTORS later: rtl8139_send does not wait for the card.
FrameLostOnlyToFourth ==
    \A f \in 1 .. submitted :
        \/ f \in sent
        \/ \E d \in owned : desc[d] = f
        \/ f + DESCRIPTORS <= submitted
=============================================================================
