------------------------------ MODULE Terminal ------------------------------
(***************************************************************************)
(* The framebuffer terminal (src/drivers/fb_terminal.c): text written by   *)
(* SYS_WRITE at a cursor, and the mouse pointer that timer_callback paints *)
(* over it, keeping what was below to put it back.                         *)
(*                                                                         *)
(* System calls and interrupts run with interrupts disabled, so each is    *)
(* one step.                                                               *)
(***************************************************************************)
EXTENDS Screen

CONSTANTS
    CURSOR_SIZE,
    Shape,               \* the opaque pixels of cursor_pattern
    MouseMaxX, MouseMaxY \* 1919 and 1079, whatever the size of the screen

Offsets == (0 .. CURSOR_SIZE - 1) \X (0 .. CURSOR_SIZE - 1)

ASSUME TerminalAssumption ==
    /\ CURSOR_SIZE \in Nat
    /\ Shape \subseteq Offsets
    /\ MouseMaxX \in Nat /\ MouseMaxY \in Nat

Pointer == "pointer"
Black == "black"          \* what getpixel returns off the screen
Contents == Chars \cup {Space, Pointer, Black}

None == <<-1, -1>>        \* last_mouse_x and last_mouse_y after term_clear

VARIABLES
    term,            \* cursor_x, cursor_y and the pixels of fb
    mouse,           \* <<mouse_x, mouse_y>>
    last_mouse,      \* where the pointer is painted
    cursor_buffer,   \* what was below it
    text,            \* history: what the terminal last wrote at each pixel
    tainted          \* history: pixels it wrote while the pointer was painted there

vars == <<term, mouse, last_mouse, cursor_buffer, text, tainted>>

-----------------------------------------------------------------------------
(***************************************************************************)
(* The pointer.                                                            *)
(***************************************************************************)

Plus(p, o) == <<p[1] + o[1], p[2] + o[2]>>
Minus(p, q) == <<p[1] - q[1], p[2] - q[2]>>

\* The pixels of the pointer's square when it is painted at m.
Under(m) == IF m = None THEN {} ELSE {p \in Pixels : Minus(p, m) \in Offsets}

restore_cursor_background(px) ==
    [p \in Pixels |-> IF p \in Under(last_mouse) THEN cursor_buffer[Minus(p, last_mouse)] ELSE px[p]]

save_cursor_background(px) ==
    [o \in Offsets |-> IF Plus(mouse, o) \in Pixels THEN px[Plus(mouse, o)] ELSE Black]

draw_cursor_shape(px) ==
    [p \in Pixels |-> IF Minus(p, mouse) \in Shape THEN Pointer ELSE px[p]]

\* Mutant of draw_mouse: the new background is saved before the old one is put back.
draw_mouseSaveFirst ==
    /\ cursor_buffer' = save_cursor_background(term.px)
    /\ term' = [term EXCEPT !.px = draw_cursor_shape(restore_cursor_background(term.px))]
    /\ last_mouse' = mouse
    /\ UNCHANGED <<mouse, text, tainted>>

\* timer_callback, at every tick.
draw_mouse ==
    LET restored == restore_cursor_background(term.px)
    IN  /\ cursor_buffer' = save_cursor_background(restored)
        /\ term' = [term EXCEPT !.px = draw_cursor_shape(restored)]
        /\ last_mouse' = mouse
        /\ UNCHANGED <<mouse, text, tainted>>

\* mouse_irq at the last byte of a packet: any move, clamped.
mouse_irq(x, y) ==
    /\ mouse' = <<x, y>>
    /\ UNCHANGED <<term, last_mouse, cursor_buffer, text, tainted>>

-----------------------------------------------------------------------------
\* term_init_fb; the pointer is at <<100, 100>> on a 1920 by 1080 screen.
Init ==
    /\ term = Cleared
    /\ mouse = <<0, 0>>
    /\ last_mouse = None
    /\ cursor_buffer = [o \in Offsets |-> Black]
    /\ text = Cleared.px
    /\ tainted = {}

\* SYS_WRITE of one character to the standard output.
Sys_write(c) ==
    LET written == Written(term, c)
    IN  /\ term' = term_putc(term, c)
        /\ text' = [p \in Pixels |-> IF p \in written THEN term'.px[p] ELSE text[p]]
        /\ tainted' = (tainted \ written) \cup (written \cap Under(last_mouse))
        /\ UNCHANGED <<mouse, last_mouse, cursor_buffer>>

\* SYS_CLEAR: the pointer is forgotten with the text.
Sys_clear ==
    /\ term' = Cleared
    /\ last_mouse' = None
    /\ text' = Cleared.px
    /\ tainted' = {}
    /\ UNCHANGED <<mouse, cursor_buffer>>

Next ==
    \/ \E c \in Chars \cup {Space} \cup Controls : Sys_write(c)
    \/ Sys_clear
    \/ draw_mouse
    \/ \E x \in 0 .. MouseMaxX, y \in 0 .. MouseMaxY : mouse_irq(x, y)

Spec == Init /\ [][Next]_vars

-----------------------------------------------------------------------------
(***************************************************************************)
(* Properties.                                                             *)
(***************************************************************************)

\* Type invariant.
TypeOK ==
    /\ term \in [x : 0 .. fb_width, y : 0 .. fb_height, px : [Pixels -> Contents]]
    /\ mouse \in (0 .. MouseMaxX) \X (0 .. MouseMaxY)
    /\ last_mouse \in ((0 .. MouseMaxX) \X (0 .. MouseMaxY)) \cup {None}
    /\ cursor_buffer \in [Offsets -> Contents]
    /\ text \in [Pixels -> Contents]
    /\ tainted \subseteq Pixels

\* The cursor never leaves the screen, whatever mix of wrapped lines, newlines and
\* backspaces came before: term_putc's next glyph is drawn in full.
CursorOnScreen == term.x <= fb_width /\ term.y + FontHeight <= fb_height

\* The pointer puts back what it covered: away from it the screen shows what the
\* terminal wrote, except where it wrote below the painted pointer (there
\* draw_mouse puts the older pixels back over the text).
PointerRestoresText ==
    \A p \in Pixels \ (tainted \cup Under(last_mouse)) : term.px[p] = text[p]
=============================================================================
