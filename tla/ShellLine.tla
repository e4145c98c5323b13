----------------------------- MODULE ShellLine ------------------------------
(***************************************************************************)
(* The shell's line editor (userspace/shell.c, _start) on the terminal: a  *)
(* key is taken with SYS_READ, echoed with SYS_WRITE and kept in buf.      *)
(* Only the shell writes here; the pointer is the subject of Terminal.     *)
(***************************************************************************)
EXTENDS Screen, Sequences

CONSTANTS
    BUF_SIZE,
    Prompts,      \* what prompt() may print: the working directory and "> "
    Outputs       \* what a command may print

\* What the shell writes is made of what term_putc is given.
Codes == Chars \cup {Space} \cup Controls

\* kernel_main asks for 1920 by 1080 pixels (src/kernel/entry.asm): lines hold a
\* whole number of glyphs, and there is more than one line.
ASSUME ShellLineAssumption ==
    /\ BUF_SIZE \in Nat \ {0}
    /\ fb_width % FontWidth = 0
    /\ 2 * FontHeight <= fb_height
    /\ Prompts \subseteq Seq(Codes) /\ Outputs \subseteq Seq(Codes)

VARIABLES
    screen,
    buf,          \* the first pos characters of buf
    start,        \* history: the cell after the prompt
    tracked       \* history: every key of the line was echoed in a cell of its own

lineVars == <<screen, buf, start, tracked>>

Columns == fb_width \div FontWidth

\* The number of cells before the cursor, in reading order.
CellIndex(t) == (t.y \div FontHeight) * Columns + t.x \div FontWidth

CellAt(n) == Cell((n % Columns) * FontWidth, (n \div Columns) * FontHeight)

\* SYS_WRITE of a string.
write(t, s) ==
    LET after[k \in 0 .. Len(s)] == IF k = 0 THEN t ELSE term_putc(after[k - 1], s[k])
    IN  after[Len(s)]

NewLine(t) ==
    /\ \E p \in Prompts : screen' = write(t, p)
    /\ buf' = <<>>
    /\ start' = CellIndex(screen')
    /\ tracked' = TRUE

LineInit ==
    /\ \E p \in Prompts : screen = write(Cleared, p)
    /\ buf = <<>>
    /\ start = CellIndex(screen)
    /\ tracked = TRUE

Rubout == <<"backspace", Space, "backspace">>

\* '\b': nothing on an empty line.
KeyBackspace ==
    /\ buf # <<>>
    /\ buf' = SubSeq(buf, 1, Len(buf) - 1)
    /\ screen' = write(screen, Rubout)
    /\ UNCHANGED <<start, tracked>>

Kept(c) == IF Len(buf) < BUF_SIZE - 1 THEN Append(buf, c) ELSE buf

\* Any other key but Enter: echoed whether or not buf has room for it.
Key(c) ==
    /\ buf' = Kept(c)
    /\ screen' = write(screen, <<c>>)
    /\ tracked' = (tracked /\ c # "control" /\ buf' # buf /\ screen'.y >= screen.y)
    /\ UNCHANGED start

\* Enter, the command (an empty line is none) and the next prompt.
Enter ==
    LET t == write(screen, <<"newline">>)
    IN  \/ NewLine(t)
        \/ buf # <<>> /\ \E out \in Outputs : NewLine(write(t, out))
        \/ buf # <<>> /\ NewLine(Cleared)      \* clear

LineNext ==
    \/ KeyBackspace
    \/ \E c \in Chars \cup {Space, "control"} : Key(c)
    \/ Enter

LineSpec == LineInit /\ [][LineNext]_lineVars

-----------------------------------------------------------------------------
\* What the user sees is what the command will be: the cells from the prompt to
\* the cursor spell buf, over wrapped lines and rubouts back across a line's end.
\* A key that draws nothing, a key that buf has no room for and a line that goes
\* on at the top of the screen end this (tracked), but buf always has room for its
\* terminating zero.
LineOnScreen ==
    /\ Len(buf) < BUF_SIZE
    /\ tracked =>
        /\ CellIndex(screen) = start + Len(buf)
        /\ \A i \in 1 .. Len(buf) : \A p \in CellAt(start + i - 1) : screen.px[p] = buf[i]
=============================================================================
