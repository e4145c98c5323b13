------------------------------- MODULE Screen -------------------------------
(***************************************************************************)
(* Text on the framebuffer terminal (src/drivers/fb_terminal.c): where     *)
(* term_putc moves the cursor and what it draws.  A pixel is abstracted to *)
(* what it is part of: the glyph of a character or the background, which   *)
(* is also the glyph of a space.                                           *)
(***************************************************************************)
EXTENDS Integers

CONSTANTS
    Chars,               \* printable characters other than the space
    fb_width, fb_height,
    FontWidth,           \* SCALED_FONT_WIDTH
    FontHeight           \* SCALED_FONT_HEIGHT and SCALED_FONT_Y_STEP

Space == "space"

\* The characters term_putc does not print: the last stands for all it ignores.
Controls == {"newline", "return", "backspace", "control"}

ASSUME ScreenAssumption ==
    /\ Chars \cap ({Space} \cup Controls) = {}
    /\ FontWidth \in Nat \ {0} /\ FontHeight \in Nat \ {0}
    /\ fb_width \in Nat /\ FontWidth <= fb_width
    /\ fb_height \in Nat /\ FontHeight <= fb_height

Pixels == (0 .. fb_width - 1) \X (0 .. fb_height - 1)

\* term_clear
Cleared == [x |-> 0, y |-> 0, px |-> [p \in Pixels |-> Space]]

-----------------------------------------------------------------------------
(***************************************************************************)
(* t is the terminal before a character, the value the one after.          *)
(***************************************************************************)

\* The pixels of the character cell at x, y; putpixel ignores those off the screen.
Cell(x, y) ==
    {p \in Pixels : x <= p[1] /\ p[1] < x + FontWidth /\ y <= p[2] /\ p[2] < y + FontHeight}

draw_char(px, ch, x, y) == [p \in Pixels |-> IF p \in Cell(x, y) THEN ch ELSE px[p]]

At(t, x, y) == [x |-> x, y |-> y, px |-> t.px]

\* Mutant of ToTop: the last line may begin below the screen's last full line.
ToTopLate(y) == IF y > fb_height THEN 0 ELSE y

\* A line that does not fit is the first one; nothing scrolls.
ToTop(y) == IF y + FontHeight > fb_height THEN 0 ELSE y

Newline(t) == At(t, 0, ToTop(t.y + FontHeight))

Return(t) == At(t, 0, t.y)

Erase(t, x, y) == [x |-> x, y |-> y, px |-> draw_char(t.px, Space, x, y)]

\* Mutant of Backspace: at a line's start the cursor goes behind the line above.
BackspaceBehind(t) ==
    IF t.x >= FontWidth THEN Erase(t, t.x - FontWidth, t.y)
    ELSE IF t.y >= FontHeight THEN Erase(t, fb_width, t.y - FontHeight)
    ELSE t

\* One cell back, to the end of the line above from a line's start; not from the
\* top left corner.
Backspace(t) ==
    IF t.x >= FontWidth THEN Erase(t, t.x - FontWidth, t.y)
    ELSE IF t.y >= FontHeight THEN Erase(t, fb_width - FontWidth, t.y - FontHeight)
    ELSE t

\* Where the next printable character goes.
Place(t) ==
    LET wraps == t.x + FontWidth > fb_width
    IN  At(t, IF wraps THEN 0 ELSE t.x, ToTop(IF wraps THEN t.y + FontHeight ELSE t.y))

Printable(t, ch) ==
    LET at == Place(t)
    IN  [x |-> at.x + FontWidth, y |-> at.y, px |-> draw_char(at.px, ch, at.x, at.y)]

\* term_putc; other control characters are ignored.
term_putc(t, c) ==
    CASE c = "newline" -> Newline(t)
      [] c = "return" -> Return(t)
      [] c = "backspace" -> Backspace(t)
      [] c = "control" -> t
      [] c \in Chars \cup {Space} -> Printable(t, c)

\* The pixels term_putc writes.
Written(t, c) ==
    IF c \in Chars \cup {Space} THEN Cell(Place(t).x, Place(t).y)
    ELSE IF c = "backspace" /\ Backspace(t) # t THEN Cell(Backspace(t).x, Backspace(t).y)
    ELSE {}

=============================================================================
