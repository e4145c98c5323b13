------------------------------ MODULE Keyboard ------------------------------
(***************************************************************************)
(* The PS/2 keyboard driver (src/drivers/keyboard.c) and the system call   *)
(* that drains it, SYS_READ (src/user/syscall.c).                          *)
(*                                                                         *)
(* keyboard_irq runs from an interrupt gate and SYS_READ from the int 0x80 *)
(* gate, which is an interrupt gate too, so each of them is one atomic     *)
(* step; the interleavings are those of whole handlers.                    *)
(*                                                                         *)
(* Characters are the integers of the C type char, which is signed in this *)
(* build (i386 gcc): the arrow codes 0x80..0x83 are negative.              *)
(***************************************************************************)
EXTENDS Integers, Sequences

CONSTANTS
    KBD_BUF_SIZE,   \* slots of kbd_buf
    keymap,         \* character of every make code, 0 where there is none
    ScanCodes,      \* the scan codes the keyboard may send
    ReadLens,       \* the lengths callers pass to SYS_READ
    MaxKeys         \* bound: characters accepted in one behaviour

Byte == 0 .. 255
MakeCode == 0 .. 127

ASSUME KbdAssumption ==
    /\ KBD_BUF_SIZE \in Nat \ {0}
    /\ keymap \in [MakeCode -> 0 .. 127]
    /\ ScanCodes \subseteq Byte
    /\ ReadLens \subseteq Nat
    /\ MaxKeys \in Nat

\* Storing an unsigned byte in a C char.
ToChar(b) == IF b < 128 THEN b ELSE b - 256

Char == -128 .. 127

KEY_UP == ToChar(128)
KEY_DOWN == ToChar(129)
KEY_LEFT == ToChar(130)
KEY_RIGHT == ToChar(131)

\* The make codes of the four cursor keys (after the prefix).
Arrow == {72, 80, 75, 77}

arrow(sc) == IF sc = 72 THEN KEY_UP
             ELSE IF sc = 80 THEN KEY_DOWN
             ELSE IF sc = 75 THEN KEY_LEFT ELSE KEY_RIGHT

VARIABLES
    kbd_buf,        \* the ring, indexed from 0
    kbd_head,       \* next slot to write
    kbd_tail,       \* next slot to read
    extended,       \* the previous byte was the prefix 0xE0
    accepted,       \* history: every character put in the ring, in order
    delivered       \* history: every character SYS_READ stored for a caller

vars == <<kbd_buf, kbd_head, kbd_tail, extended, accepted, delivered>>

Init ==
    /\ kbd_buf = [i \in 0 .. KBD_BUF_SIZE - 1 |-> 0]
    /\ kbd_head = 0
    /\ kbd_tail = 0
    /\ extended = FALSE
    /\ accepted = << >>
    /\ delivered = << >>

-----------------------------------------------------------------------------

\* The index after i in the ring.
Succ(i) == (i + 1) % KBD_BUF_SIZE

\* Mutant of kbd_full: the push never looks at the tail.
kbd_fullUnchecked == FALSE

\* The ring is full one slot early: a full ring and an empty one must differ.
kbd_full == Succ(kbd_head) = kbd_tail

\* kbd_push: store c and advance the head, or drop c when the ring is full.
kbd_push(c) ==
    \/ /\ kbd_full
       /\ UNCHANGED <<kbd_buf, kbd_head, accepted>>
    \/ /\ ~ kbd_full
       /\ Len(accepted) < MaxKeys
       /\ kbd_buf' = [kbd_buf EXCEPT ![kbd_head] = c]
       /\ kbd_head' = Succ(kbd_head)
       /\ accepted' = Append(accepted, c)

\* keyboard_irq, one disjunct per way out of the handler.
IrqPrefix ==
    /\ 224 \in ScanCodes
    /\ extended' = TRUE
    /\ UNCHANGED <<kbd_buf, kbd_head, kbd_tail, accepted, delivered>>

IrqBreak ==
    /\ \E sc \in ScanCodes : sc >= 128 /\ sc # 224
    /\ extended' = FALSE
    /\ UNCHANGED <<kbd_buf, kbd_head, kbd_tail, accepted, delivered>>

IrqExtended(sc) ==
    /\ sc < 128
    /\ extended
    /\ \/ sc \in Arrow /\ kbd_push(arrow(sc))
       \/ sc \notin Arrow /\ UNCHANGED <<kbd_buf, kbd_head, accepted>>
    /\ extended' = FALSE
    /\ UNCHANGED <<kbd_tail, delivered>>

IrqPlain(sc) ==
    /\ sc < 128
    /\ ~ extended
    /\ \/ keymap[sc] # 0 /\ kbd_push(keymap[sc])
       \/ keymap[sc] = 0 /\ UNCHANGED <<kbd_buf, kbd_head, accepted>>
    /\ UNCHANGED <<kbd_tail, extended, delivered>>

keyboard_irq ==
    \/ IrqPrefix
    \/ IrqBreak
    \/ \E sc \in ScanCodes : IrqExtended(sc) \/ IrqPlain(sc)

-----------------------------------------------------------------------------

\* How many characters the ring holds, and which, oldest first.
Count == (kbd_head - kbd_tail + KBD_BUF_SIZE) % KBD_BUF_SIZE
Slot(i) == (kbd_tail + i - 1) % KBD_BUF_SIZE
Pending == [i \in 1 .. Count |-> kbd_buf[Slot(i)]]

\* What the loop of SYS_READ takes for a negative result of kbd_pop: an empty
\* ring, or a character whose code is negative.
Negative(c) == c < 0

\* Mutant of StopsAfter: the loop looks at the next character and takes it
\* only if it is not negative.
StopsBefore(len, n) ==
    /\ n <= len
    /\ \A i \in 1 .. n : ~ Negative(Pending[i])
    /\ n = Count \/ n = len \/ (n < Count /\ Negative(Pending[n + 1]))

\* The loop of SYS_READ(len) has taken n characters when it ends: len of them,
\* all there were, or those up to the first negative one, which is out of the
\* ring by then.
StopsAfter(len, n) ==
    /\ n <= len
    /\ \A i \in 1 .. n - 1 : ~ Negative(Pending[i])
    /\ n = Count \/ n = len \/ (n > 0 /\ Negative(Pending[n]))

\* A negative character that ended the loop is not stored.
Stored(n) == IF n > 0 /\ Negative(Pending[n]) THEN n - 1 ELSE n

\* Mutant of Sys_read: kbd_pop is called before the test of i < len, so the
\* character after a full buffer is taken and thrown away.
Sys_readPopFirst(len) ==
    \E n \in 0 .. Count :
        /\ StopsAfter(len, n)
        /\ kbd_tail' = (kbd_tail + IF n < Count THEN n + 1 ELSE n) % KBD_BUF_SIZE
        /\ delivered' = delivered \o SubSeq(Pending, 1, Stored(n))
        /\ UNCHANGED <<kbd_buf, kbd_head, extended, accepted>>

\* SYS_READ: n calls of kbd_pop that find a character, then the end of the
\* loop; the characters stored reach the caller.
Sys_read(len) ==
    \E n \in 0 .. Count :
        /\ StopsAfter(len, n)
        /\ kbd_tail' = (kbd_tail + n) % KBD_BUF_SIZE
        /\ delivered' = delivered \o SubSeq(Pending, 1, Stored(n))
        /\ UNCHANGED <<kbd_buf, kbd_head, extended, accepted>>

Next == keyboard_irq \/ \E len \in ReadLens : Sys_read(len)

Spec == Init /\ [][Next]_vars

\* The shell polls read(STDIN, &c, 1) for ever (userspace/shell.c), and a
\* system call always completes.
Fairness == WF_vars(\E len \in ReadLens \ {0} : Sys_read(len))

FairSpec == Spec /\ Fairness

-----------------------------------------------------------------------------

\* Types: the indices of kbd_push and kbd_pop stay inside kbd_buf.
TypeOK ==
    /\ kbd_buf \in [0 .. KBD_BUF_SIZE - 1 -> Char]
    /\ kbd_head \in 0 .. KBD_BUF_SIZE - 1
    /\ kbd_tail \in 0 .. KBD_BUF_SIZE - 1
    /\ extended \in BOOLEAN
    /\ accepted \in Seq(Char)
    /\ delivered \in Seq(Char)

\* The ring of kbd_push and kbd_pop implements a first-in first-out queue of
\* KBD_BUF_SIZE - 1 characters: a push at the limit neither overwrites the
\* oldest character nor makes the full ring look empty, and SYS_READ only ever
\* removes the oldest ones.
Fifo == INSTANCE BoundedFifo WITH
            Values <- Char, Capacity <- KBD_BUF_SIZE - 1,
            queue <- Pending, input <- accepted

ImplementsFifo == Fifo!Spec

\* The characters of a sequence without the cursor keys.
Plain(s) ==
    LET upto[i \in 0 .. Len(s)] ==
            IF i = 0 THEN << >>
            ELSE IF Negative(s[i]) THEN upto[i - 1] ELSE Append(upto[i - 1], s[i])
    IN  upto[Len(s)]

\* No typed key is lost between the interrupt and the caller: whatever the
\* order of interrupts and reads of any length, the characters delivered by
\* SYS_READ followed by those still waiting are exactly the accepted ones
\* without the cursor keys, in the order they were typed.
NoTypedKeyLost == Plain(accepted) = delivered \o Plain(Pending)

\* A cursor key in the ring ends a read but never blocks it: with a reader
\* that keeps polling, every accepted character leaves the ring.
EveryKeyIsTaken ==
    \A n \in 1 .. MaxKeys :
        Len(accepted) >= n ~> Len(accepted) - Count >= n
=============================================================================
