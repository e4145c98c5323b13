-------------------------------- MODULE Ps2 ---------------------------------
(***************************************************************************)
(* The PS/2 controller that the keyboard and the mouse share: mouse_init   *)
(* (src/drivers/mouse.c), which polls it during the boot with interrupts   *)
(* off, and then the two interrupt handlers, keyboard_irq of Keyboard and  *)
(* mouse_irq, through the interrupt controller (src/drivers/pic.c) and the *)
(* entries of src/cpu/irq.asm.                                             *)
(*                                                                         *)
(* External: the 8042 has one output buffer, for the bytes of the keyboard *)
(* and of the mouse and for its own answers, and raises line 1 or line 12  *)
(* when it fills it.  The 8259 remembers a request until it is served; of  *)
(* one whose byte has been read in the meantime, some forget it and some   *)
(* do not.  Reading an empty buffer returns the last byte again.           *)
(***************************************************************************)
EXTENDS Keyboard

CONSTANTS
    Keys,           \* bytes that the keyboard sends
    Reports,        \* movements that the mouse reports
    Config,         \* the configuration byte that the firmware leaves
    StartX, StartY, \* where the pointer begins (100, 100)
    MaxX, MaxY,     \* its last column and row (1919, 1079)
    MaxReports,     \* bound: reports of the mouse
    MaxEvents       \* bound: bytes from the keyboard and reports of the mouse

ASSUME Ps2Assumption ==
    /\ Keys \subseteq ScanCodes
    /\ Config \in Byte
    /\ Reports \subseteq [buttons : 0 .. 7, dx : -128 .. 127, dy : -128 .. 127]
    /\ MaxX \in Nat /\ MaxY \in Nat /\ StartX \in 0 .. MaxX /\ StartY \in 0 .. MaxY

\* The bit with the mask m, one of 1, 2, 4, ..., 128.
Bit(b, m) == (b \div m) % 2 = 1
With(b, m) == IF Bit(b, m) THEN b ELSE b + m
Without(b, m) == IF Bit(b, m) THEN b - m ELSE b

\* Bits of the configuration byte: the interrupts of keyboard and mouse, and their
\* clocks when stopped.
KbdInt == 1
AuxInt == 2
KbdOff == 16
AuxOff == 32
ACK == 250

VARIABLES
    obuf,           \* the output buffer: << >> or one byte and its source
    last,           \* the last byte read from it
    config,         \* the configuration byte
    answer,         \* the controller's answer that waits for the buffer
    kbd_out,        \* bytes the keyboard has not yet got into the buffer
    mouse_out,      \* the same for the mouse
    requests,       \* the lines, of 1 and 12, with a request at the 8259
    boot,           \* where the boot is: "before", "config", "ack" or "done"
    mouse_cycle, mouse_packet, mouse_x, mouse_y, mouse_buttons,
    typed,          \* history: the bytes of the keyboard
    reported,       \* history: the reports of the mouse
    kbd_heard, mouse_heard,     \* history: the bytes each handler has read
    stray           \* history: mouse_init read a byte that was not for it, or a
                    \* request has outlived its byte

controller == <<obuf, last, config, answer, kbd_out, mouse_out, requests>>
mouse == <<mouse_cycle, mouse_packet, mouse_x, mouse_y, mouse_buttons>>
history == <<typed, reported, kbd_heard, mouse_heard, stray>>
ps2Vars == <<vars, controller, boot, mouse, history>>

Ps2Init ==
    /\ Init
    /\ obuf = << >> /\ last = 0 /\ config = Config /\ answer = << >>
    /\ kbd_out = << >> /\ mouse_out = << >>
    /\ requests = {}
    /\ boot = "before"
    /\ mouse_cycle = 0 /\ mouse_packet = <<0, 0, 0>>
    /\ mouse_x = StartX /\ mouse_y = StartY /\ mouse_buttons = 0
    /\ typed = << >> /\ reported = << >>
    /\ kbd_heard = << >> /\ mouse_heard = << >>
    /\ stray = FALSE

-----------------------------------------------------------------------------
(***************************************************************************)
(* The devices and the controller (external).                              *)
(***************************************************************************)

Press(sc) ==
    /\ Len(typed) + Len(reported) < MaxEvents
    /\ typed' = Append(typed, sc)
    /\ kbd_out' = Append(kbd_out, sc)
    /\ UNCHANGED <<vars, obuf, last, config, answer, mouse_out, requests, boot, mouse,
                   reported, kbd_heard, mouse_heard, stray>>

\* The three bytes of a report: buttons and signs, then the two movements.
Packet(r) ==
    <<8 + r.buttons + (IF r.dx < 0 THEN 16 ELSE 0) + (IF r.dy < 0 THEN 32 ELSE 0),
      r.dx % 256, r.dy % 256>>

\* The mouse reports once it has been enabled.
Report(r) ==
    /\ boot \in {"ack", "done"}
    /\ Len(reported) < MaxReports
    /\ Len(typed) + Len(reported) < MaxEvents
    /\ reported' = Append(reported, r)
    /\ mouse_out' = mouse_out \o Packet(r)
    /\ UNCHANGED <<vars, obuf, last, config, answer, kbd_out, requests, boot, mouse,
                   typed, kbd_heard, mouse_heard, stray>>

Fill(src, b, line, int) ==
    /\ obuf = << >>
    /\ obuf' = <<src, b>>
    /\ requests' = IF Bit(config, int) THEN requests \cup {line} ELSE requests
    /\ UNCHANGED <<vars, last, config, boot, mouse, history>>

FillAnswer ==
    /\ answer # << >>
    /\ Fill("answer", answer[1], 1, KbdInt)
    /\ answer' = << >>
    /\ UNCHANGED <<kbd_out, mouse_out>>

FillKbd ==
    /\ kbd_out # << >> /\ ~ Bit(config, KbdOff)
    /\ Fill("kbd", kbd_out[1], 1, KbdInt)
    /\ kbd_out' = Tail(kbd_out)
    /\ UNCHANGED <<answer, mouse_out>>

FillAux ==
    /\ mouse_out # << >> /\ ~ Bit(config, AuxOff)
    /\ Fill("aux", mouse_out[1], 12, AuxInt)
    /\ mouse_out' = Tail(mouse_out)
    /\ UNCHANGED <<answer, kbd_out>>

\* inb(0x60).
Port == IF obuf = << >> THEN last ELSE obuf[2]
ReadPort == obuf' = << >> /\ last' = Port

-----------------------------------------------------------------------------
(***************************************************************************)
(* mouse_init.  ps2_read waits for a byte, whosever it is.                 *)
(***************************************************************************)

\* Commands 0xA8, the mouse's clock runs, and 0x20, send the configuration.
MouseInitStart ==
    /\ boot = "before"
    /\ boot' = "config"
    /\ config' = Without(config, AuxOff)
    /\ answer' = <<config'>>
    /\ UNCHANGED <<vars, obuf, last, kbd_out, mouse_out, requests, mouse, history>>

\* A byte is read by polling; its request is remembered or not.
Polled ==
    /\ obuf # << >>
    /\ ReadPort
    /\ \/ UNCHANGED requests
       \/ requests' = requests \ {IF obuf[1] = "aux" THEN 12 ELSE 1}

\* Mutant of NewConfig: the byte that was read is thrown away.
NewConfigOnly(status) == 2

\* status |= 0x02.
NewConfig(status) == With(status, AuxInt)

\* Command 0x60 writes the configuration, 0xD4 0xF4 enables the mouse, which
\* acknowledges.
MouseInitConfig ==
    /\ boot = "config"
    /\ Polled
    /\ stray' = (obuf[1] # "answer")
    /\ config' = NewConfig(Port)
    /\ mouse_out' = Append(mouse_out, ACK)
    /\ boot' = "ack"
    /\ UNCHANGED <<vars, answer, kbd_out, mouse, typed, reported, kbd_heard, mouse_heard>>

\* The acknowledgement; pic_enable_irq(12), and soon kernel_main's sti.
MouseInitAck ==
    /\ boot = "ack"
    /\ Polled
    /\ stray' = (stray \/ obuf[1] # "aux" \/ requests' # {})
    /\ boot' = "done"
    /\ UNCHANGED <<vars, config, answer, kbd_out, mouse_out, mouse, typed, reported,
                   kbd_heard, mouse_heard>>

-----------------------------------------------------------------------------
(***************************************************************************)
(* The interrupt handlers; line 1 comes before line 12.                    *)
(***************************************************************************)

Serve(line) ==
    /\ boot = "done"
    /\ line \in requests
    /\ requests' = requests \ {line}
    /\ ReadPort
    /\ UNCHANGED <<config, answer, kbd_out, mouse_out, boot, typed, reported, stray>>

Irq1 ==
    /\ Serve(1)
    /\ kbd_heard' = Append(kbd_heard, Port)
    /\ \/ Port = 224 /\ IrqPrefix
       \/ Port >= 128 /\ Port # 224 /\ IrqBreak
       \/ IrqExtended(Port)
       \/ IrqPlain(Port)
    /\ UNCHANGED <<mouse, mouse_heard>>

\* The first byte of a packet has bit 3 set.
MouseFirst(data) ==
    /\ mouse_cycle = 0
    /\ \/ ~ Bit(data, 8) /\ UNCHANGED <<mouse_cycle, mouse_packet>>
       \/ /\ Bit(data, 8)
          /\ mouse_packet' = [mouse_packet EXCEPT ![1] = data]
          /\ mouse_cycle' = 1
    /\ UNCHANGED <<mouse_x, mouse_y, mouse_buttons>>

MouseSecond(data) ==
    /\ mouse_cycle = 1
    /\ mouse_packet' = [mouse_packet EXCEPT ![2] = ToChar(data)]
    /\ mouse_cycle' = 2
    /\ UNCHANGED <<mouse_x, mouse_y, mouse_buttons>>

\* Mutant of Clamp: the lower bound is forgotten.
ClampHigh(n, max) == IF n > max THEN max ELSE n

Clamp(n, max) == IF n < 0 THEN 0 ELSE IF n > max THEN max ELSE n

\* Mutant of MouseThird: the count of bytes is not reset.
MouseThirdNoReset(data) ==
    /\ mouse_cycle = 2
    /\ mouse_packet' = [mouse_packet EXCEPT ![3] = ToChar(data)]
    /\ mouse_buttons' = mouse_packet[1] % 8
    /\ mouse_x' = Clamp(mouse_x + mouse_packet[2], MaxX)
    /\ mouse_y' = Clamp(mouse_y - mouse_packet'[3], MaxY)
    /\ UNCHANGED mouse_cycle

MouseThird(data) ==
    /\ mouse_cycle = 2
    /\ mouse_packet' = [mouse_packet EXCEPT ![3] = ToChar(data)]
    /\ mouse_cycle' = 0
    /\ mouse_buttons' = mouse_packet[1] % 8
    /\ mouse_x' = Clamp(mouse_x + mouse_packet[2], MaxX)
    /\ mouse_y' = Clamp(mouse_y - mouse_packet'[3], MaxY)

Irq12 ==
    /\ 1 \notin requests
    /\ Serve(12)
    /\ mouse_heard' = Append(mouse_heard, Port)
    /\ MouseFirst(Port) \/ MouseSecond(Port) \/ MouseThird(Port)
    /\ UNCHANGED <<vars, kbd_heard>>

SysRead(len) ==
    /\ boot = "done"
    /\ Sys_read(len)
    /\ UNCHANGED <<controller, boot, mouse, history>>

Ps2Next ==
    \/ \E sc \in Keys : Press(sc)
    \/ \E r \in Reports : Report(r)
    \/ FillAnswer \/ FillKbd \/ FillAux
    \/ MouseInitStart \/ MouseInitConfig \/ MouseInitAck
    \/ Irq1 \/ Irq12
    \/ \E len \in ReadLens : SysRead(len)

\* The shell polls read(STDIN, &c, 1) for ever, as in Keyboard.
Ps2Spec ==
    /\ Ps2Init /\ [][Ps2Next]_ps2Vars
    /\ WF_ps2Vars(\E len \in ReadLens \ {0} : SysRead(len))

-----------------------------------------------------------------------------
(***************************************************************************)
(* Properties.                                                             *)
(***************************************************************************)

\* mouse_init changes the configuration in two bits only, so that the keyboard goes
\* on interrupting, unless a key was typed before the answer was read: its code is
\* then taken for the configuration.
ConfigKept ==
    boot \in {"ack", "done"} /\ ~ stray =>
        config = With(Without(Config, AuxOff), AuxInt)

\* The bytes of a sequence of reports.
Bytes(n) == [i \in 1 .. 3 * n |-> Packet(reported[(i + 2) \div 3])[((i - 1) % 3) + 1]]
Waiting(src) == IF obuf # << >> /\ obuf[1] = src THEN <<obuf[2]>> ELSE << >>

\* Both devices share one buffer, and every byte reaches the handler of its device,
\* once and in order, and the mouse's bytes fall into the packets that were sent,
\* unless mouse_init has left a request without a byte or read a byte it was not
\* waiting for: from there on packets may be out of step.
BytesInStep ==
    boot = "done" /\ ~ stray =>
        /\ kbd_heard \o Waiting("kbd") \o kbd_out = typed
        /\ mouse_heard \o Waiting("aux") \o mouse_out = Bytes(Len(reported))
        /\ mouse_cycle = Len(mouse_heard) % 3

\* The place on a line from 0 to max that is nearest to v.
Apart(u, v) == IF u < v THEN v - u ELSE u - v
Nearest(v, max) == CHOOSE w \in 0 .. max : \A u \in 0 .. max : Apart(w, v) <= Apart(u, v)

\* Where the first n reports should have moved the pointer, screen rows going down.
Pointed(n) ==
    LET to[k \in 0 .. n] ==
            IF k = 0 THEN [x |-> StartX, y |-> StartY, buttons |-> 0]
            ELSE LET p == to[k - 1]
                     r == reported[k]
                 IN  [x |-> Nearest(p.x + r.dx, MaxX), y |-> Nearest(p.y - r.dy, MaxY),
                      buttons |-> r.buttons]
    IN  to[n]

\* The pointer follows the mouse: it is where all whole reports have moved it, each
\* to the nearest place on the screen, for movements that fit a signed byte.
PointerFollows ==
    boot = "done" /\ ~ stray =>
        [x |-> mouse_x, y |-> mouse_y, buttons |-> mouse_buttons] =
            Pointed(Len(mouse_heard) \div 3)
=============================================================================
