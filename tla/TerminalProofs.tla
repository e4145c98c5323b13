--------------------------- MODULE TerminalProofs ---------------------------
(***************************************************************************)
(* For every size of screen and glyph, and for every pointer: the cursor   *)
(* stays where a glyph is drawn in full, the pointer puts back what it     *)
(* covered, and the state keeps its type.  For every screen of whole cells *)
(* the shell's line is what stands between the prompt and the cursor.      *)
(***************************************************************************)
EXTENDS Terminal, ShellLine, WellFoundedInduction, TLAPS

\* A terminal whose cursor is on the screen.
Good(t) ==
    /\ t \in [x : Nat, y : Nat, px : [Pixels -> Contents]]
    /\ t.x <= fb_width
    /\ t.y + FontHeight <= fb_height

\* Drawing a character changes pixels to that character only.
LEMMA DrawCharType ==
    ASSUME NEW px \in [Pixels -> Contents], NEW ch \in Contents, NEW x, NEW y
    PROVE  draw_char(px, ch, x, y) \in [Pixels -> Contents]
BY DEF draw_char

\* A line that ToTop accepts is on the screen.
LEMMA ToTopFits ==
    ASSUME NEW y \in Nat
    PROVE  ToTop(y) \in Nat /\ ToTop(y) + FontHeight <= fb_height
BY ScreenAssumption DEF ToTop

\* term_putc keeps the cursor on the screen, for every character.
LEMMA PutcGood ==
    ASSUME NEW t, Good(t), NEW c \in Chars \cup {Space} \cup Controls
    PROVE  Good(term_putc(t, c))
<1>0. /\ t.x \in Nat /\ t.y \in Nat /\ t.px \in [Pixels -> Contents]
      /\ t.x <= fb_width /\ t.y + FontHeight <= fb_height
  BY DEF Good
<1>1. CASE c = "newline"
  <2>1. term_putc(t, c) = Newline(t)
    BY <1>1, ScreenAssumption DEF term_putc, Controls, Space
  <2>2. ToTop(t.y + FontHeight) \in Nat /\ ToTop(t.y + FontHeight) + FontHeight <= fb_height
    BY <1>0, ToTopFits, ScreenAssumption
  <2> QED
    BY <1>0, <2>1, <2>2, ScreenAssumption DEF Newline, At, Good
<1>2. CASE c = "return"
  <2>1. term_putc(t, c) = Return(t)
    BY <1>2, ScreenAssumption DEF term_putc, Controls, Space
  <2> QED
    BY <1>0, <2>1, ScreenAssumption DEF Return, At, Good
<1>3. CASE c = "backspace"
  <2>1. term_putc(t, c) = Backspace(t)
    BY <1>3, ScreenAssumption DEF term_putc, Controls, Space
  <2>2. \A x, y : draw_char(t.px, Space, x, y) \in [Pixels -> Contents]
    BY <1>0, DrawCharType DEF Contents
  <2>3. \A x, y \in Nat : x <= fb_width /\ y + FontHeight <= fb_height => Good(Erase(t, x, y))
    BY <2>2 DEF Erase, Good
  <2>4. CASE t.x >= FontWidth
    BY <1>0, <2>1, <2>3, <2>4, ScreenAssumption DEF Backspace
  <2>5. CASE t.x < FontWidth /\ t.y >= FontHeight
    BY <1>0, <2>1, <2>3, <2>5, ScreenAssumption DEF Backspace
  <2>6. CASE t.x < FontWidth /\ t.y < FontHeight
    BY <1>0, <2>1, <2>6, ScreenAssumption DEF Backspace
  <2> QED
    BY <1>0, <2>4, <2>5, <2>6, ScreenAssumption
<1>4. CASE c = "control"
  BY <1>4, ScreenAssumption DEF term_putc, Controls, Space
<1>5. CASE c \in Chars \cup {Space}
  <2>1. term_putc(t, c) = Printable(t, c)
    BY <1>5, ScreenAssumption DEF term_putc, Controls, Space
  <2>2. /\ Place(t).x \in Nat /\ Place(t).x + FontWidth <= fb_width
        /\ Place(t).y \in Nat /\ Place(t).y + FontHeight <= fb_height
        /\ Place(t).px = t.px
    <3>1. CASE t.x + FontWidth > fb_width
      BY <1>0, <3>1, ToTopFits, ScreenAssumption DEF Place, At
    <3>2. CASE ~ (t.x + FontWidth > fb_width)
      BY <1>0, <3>2, ToTopFits, ScreenAssumption DEF Place, At
    <3> QED
      BY <3>1, <3>2
  <2>3. draw_char(t.px, c, Place(t).x, Place(t).y) \in [Pixels -> Contents]
    BY <1>0, <1>5, DrawCharType DEF Contents
  <2> QED
    BY <2>1, <2>2, <2>3, ScreenAssumption DEF Printable, Good
<1> QED
  BY <1>1, <1>2, <1>3, <1>4, <1>5 DEF Controls

\* Outside of Written, term_putc leaves the screen as it is.
LEMMA PutcWrites ==
    ASSUME NEW t, Good(t), NEW c \in Chars \cup {Space} \cup Controls,
           NEW p \in Pixels, p \notin Written(t, c)
    PROVE  term_putc(t, c).px[p] = t.px[p]
<1>1. CASE c \in {"newline", "return", "control"}
  <2>1. term_putc(t, c) \in {Newline(t), Return(t), t}
    BY <1>1, ScreenAssumption DEF term_putc, Controls, Space
  <2> QED
    BY <2>1 DEF Newline, Return, At
<1>2. CASE c = "backspace"
  <2>1. term_putc(t, c) = Backspace(t)
    BY <1>2, ScreenAssumption DEF term_putc, Controls, Space
  <2>2. CASE Backspace(t) = t
    BY <2>1, <2>2
  <2>3. CASE Backspace(t) # t
    <3>1. PICK x, y : Backspace(t) = Erase(t, x, y)
      BY <2>3 DEF Backspace
    <3>2. p \notin Cell(x, y)
      BY <1>2, <2>3, <3>1, ScreenAssumption DEF Written, Erase, Controls, Space
    <3> QED
      BY <2>1, <3>1, <3>2 DEF Erase, draw_char
  <2> QED
    BY <2>2, <2>3
<1>3. CASE c \in Chars \cup {Space}
  <2>1. term_putc(t, c) = Printable(t, c)
    BY <1>3, ScreenAssumption DEF term_putc, Controls, Space
  <2>2. p \notin Cell(Place(t).x, Place(t).y)
    BY <1>3 DEF Written
  <2>3. Place(t).px = t.px
    BY DEF Place, At
  <2> QED
    BY <2>1, <2>2, <2>3 DEF Printable, draw_char
<1> QED
  BY <1>1, <1>2, <1>3 DEF Controls

-----------------------------------------------------------------------------
(***************************************************************************)
(* The inductive invariant.  PointerRestoresText alone is not inductive:   *)
(* what draw_mouse puts back is in cursor_buffer, so the invariant says    *)
(* that the buffer holds the text below the pointer.                       *)
(***************************************************************************)

Places == (0 .. MouseMaxX) \X (0 .. MouseMaxY)

Shapes ==
    /\ Good(term)
    /\ mouse \in Places
    /\ last_mouse \in Places \cup {None}
    /\ cursor_buffer \in [Offsets -> Contents]
    /\ text \in [Pixels -> Contents]
    /\ tainted \subseteq Pixels

BufferHoldsText ==
    \A p \in Under(last_mouse) \ tainted : cursor_buffer[Minus(p, last_mouse)] = text[p]

PointerInv == Shapes /\ PointerRestoresText /\ BufferHoldsText

\* Below the pointer are pixels of the screen, each at an offset of its square.
LEMMA UnderFacts ==
    ASSUME NEW m, NEW p \in Under(m)
    PROVE  p \in Pixels /\ m # None /\ Minus(p, m) \in Offsets
BY DEF Under

\* Offsets are differences.
LEMMA PlusMinus ==
    ASSUME NEW m \in Places, NEW p \in Pixels
    PROVE  Plus(m, Minus(p, m)) = p
BY DEF Places, Pixels, Plus, Minus

\* Once the background is put back, the screen shows the text.
LEMMA RestoredIsText ==
    ASSUME PointerInv
    PROVE  /\ restore_cursor_background(term.px) \in [Pixels -> Contents]
           /\ \A p \in Pixels \ tainted : restore_cursor_background(term.px)[p] = text[p]
<1>1. term.px \in [Pixels -> Contents]
  BY DEF PointerInv, Shapes, Good
<1>2. \A p \in Under(last_mouse) : cursor_buffer[Minus(p, last_mouse)] \in Contents
  BY UnderFacts DEF PointerInv, Shapes
<1> QED
  BY <1>1, <1>2 DEF PointerInv, BufferHoldsText, PointerRestoresText, restore_cursor_background

\* The initial state satisfies the invariant.
LEMMA InitInv == Init => PointerInv
<1> SUFFICES ASSUME Init PROVE PointerInv
  OBVIOUS
<1>1. Cleared.px \in [Pixels -> Contents] /\ Good(Cleared)
  BY ScreenAssumption DEF Cleared, Good, Contents
<1>2. Under(None) = {}
  BY DEF Under
<1>3. <<0, 0>> \in Places
  BY TerminalAssumption DEF Places
<1> QED
  BY <1>1, <1>2, <1>3 DEF Init, PointerInv, Shapes, PointerRestoresText, BufferHoldsText, Contents

\* Every step keeps the invariant.
LEMMA StepInv == PointerInv /\ [Next]_vars => PointerInv'
<1> SUFFICES ASSUME PointerInv, [Next]_vars PROVE PointerInv'
  OBVIOUS
<1>1. ASSUME NEW c \in Chars \cup {Space} \cup Controls, Sys_write(c) PROVE PointerInv'
  <2> DEFINE W == Written(term, c)
  <2>1. Good(term) /\ Good(term')
    BY <1>1, PutcGood DEF Sys_write, PointerInv, Shapes
  <2>2. term' = term_putc(term, c) /\ UNCHANGED <<mouse, last_mouse, cursor_buffer>>
    BY <1>1 DEF Sys_write
  <2>3. text' = [p \in Pixels |-> IF p \in W THEN term'.px[p] ELSE text[p]]
    BY <1>1 DEF Sys_write
  <2>4. tainted' = (tainted \ W) \cup (W \cap Under(last_mouse))
    BY <1>1 DEF Sys_write
  <2>5. Under(last_mouse) \subseteq Pixels
    BY UnderFacts
  <2>6. Shapes'
    BY <2>1, <2>2, <2>3, <2>4, <2>5 DEF Shapes, PointerInv, Good
  <2>7. \A p \in Pixels \ W : term'.px[p] = term.px[p]
    BY <2>1, <2>2, PutcWrites
  <2>8. Under(last_mouse)' = Under(last_mouse)
    BY <2>2 DEF Under
  <2> HIDE DEF W
  <2>9. PointerRestoresText'
    BY <2>3, <2>4, <2>7, <2>8 DEF PointerRestoresText, PointerInv
  <2>10. BufferHoldsText'
    BY <2>2, <2>3, <2>4, <2>5, <2>8 DEF BufferHoldsText, PointerInv
  <2> QED
    BY <2>6, <2>9, <2>10 DEF PointerInv
<1>2. CASE Sys_clear
  <2>1. Good(Cleared) /\ Cleared.px \in [Pixels -> Contents]
    BY ScreenAssumption DEF Cleared, Good, Contents
  <2>2. Under(last_mouse)' = {}
    BY <1>2 DEF Sys_clear, Under
  <2> QED
    BY <1>2, <2>1, <2>2
    DEF Sys_clear, PointerInv, Shapes, PointerRestoresText, BufferHoldsText, Good
<1>3. CASE draw_mouse
  <2> DEFINE R == restore_cursor_background(term.px)
  <2>1. R \in [Pixels -> Contents] /\ \A p \in Pixels \ tainted : R[p] = text[p]
    BY RestoredIsText
  <2>2. /\ cursor_buffer' = save_cursor_background(R)
        /\ term' = [term EXCEPT !.px = draw_cursor_shape(R)]
        /\ last_mouse' = mouse
        /\ UNCHANGED <<mouse, text, tainted>>
    BY <1>3 DEF draw_mouse
  <2> HIDE DEF R
  <2>3. save_cursor_background(R) \in [Offsets -> Contents]
    BY <2>1 DEF save_cursor_background, Contents
  <2>4. draw_cursor_shape(R) \in [Pixels -> Contents]
    BY <2>1 DEF draw_cursor_shape, Contents
  <2>5. Shapes'
    BY <2>2, <2>3, <2>4 DEF PointerInv, Shapes, Good
  <2>6. mouse # None /\ mouse \in Places
    BY DEF PointerInv, Shapes, Places, None
  <2>7. \A p \in Pixels \ Under(mouse) : draw_cursor_shape(R)[p] = R[p]
    BY <2>6, TerminalAssumption DEF draw_cursor_shape, Under
  <2>8. \A p \in Under(mouse) : save_cursor_background(R)[Minus(p, mouse)] = R[p]
    <3> SUFFICES ASSUME NEW p \in Under(mouse)
                 PROVE  save_cursor_background(R)[Minus(p, mouse)] = R[p]
      OBVIOUS
    <3>1. Minus(p, mouse) \in Offsets /\ p \in Pixels
      BY UnderFacts
    <3>2. Plus(mouse, Minus(p, mouse)) = p
      BY <2>6, <3>1, PlusMinus
    <3> QED
      BY <3>1, <3>2 DEF save_cursor_background
  <2>9. term'.px = draw_cursor_shape(R)
    BY <2>2 DEF PointerInv, Shapes, Good
  <2>10. Under(last_mouse)' = Under(mouse)
    BY <2>2 DEF Under
  <2>11. PointerRestoresText'
    BY <2>1, <2>2, <2>7, <2>9, <2>10 DEF PointerRestoresText
  <2>12. BufferHoldsText'
    BY <2>1, <2>2, <2>8, <2>10, UnderFacts DEF BufferHoldsText
  <2> QED
    BY <2>5, <2>11, <2>12 DEF PointerInv
<1>4. ASSUME NEW x \in 0 .. MouseMaxX, NEW y \in 0 .. MouseMaxY, mouse_irq(x, y)
      PROVE  PointerInv'
  <2>1. Under(last_mouse)' = Under(last_mouse)
    BY <1>4 DEF mouse_irq, Under
  <2> QED
    BY <1>4, <2>1
    DEF mouse_irq, PointerInv, Shapes, Places, PointerRestoresText, BufferHoldsText, Good
<1>5. CASE UNCHANGED vars
  <2>1. Under(last_mouse)' = Under(last_mouse)
    BY <1>5 DEF vars, Under
  <2> QED
    BY <1>5, <2>1
    DEF vars, PointerInv, Shapes, PointerRestoresText, BufferHoldsText, Good
<1> QED
  BY <1>1, <1>2, <1>3, <1>4, <1>5 DEF Next

\* The invariant holds in every reachable state.
LEMMA InvAlways == Spec => []PointerInv
BY InitInv, StepInv, PTL DEF Spec

\* The terminal's state keeps its type.
THEOREM TypeCorrect == Spec => []TypeOK
<1>1. PointerInv => TypeOK
  BY ScreenAssumption DEF PointerInv, Shapes, Places, Good, TypeOK
<1> QED
  BY <1>1, InvAlways, PTL

\* term_putc draws every glyph in full, on every screen at least one glyph large.
THEOREM GlyphsInFull == Spec => []CursorOnScreen
<1>1. PointerInv => CursorOnScreen
  BY DEF PointerInv, Shapes, Good, CursorOnScreen
<1> QED
  BY <1>1, InvAlways, PTL

\* The mouse pointer leaves the text as it was, for every shape and every path of it.
THEOREM PointerIsTransparent == Spec => []PointerRestoresText
<1>1. PointerInv => PointerRestoresText
  BY DEF PointerInv
<1> QED
  BY <1>1, InvAlways, PTL

-----------------------------------------------------------------------------
(***************************************************************************)
(* The shell's line (ShellLine).  The cursor is always at the corner of a  *)
(* cell; the cells of a line that is tracked have the numbers from start   *)
(* on, and the next one is the cursor's.                                   *)
(***************************************************************************)

\* The terminal t has its cursor behind a cells of the line b.
Corner(t, a, b) == t.x = a * FontWidth /\ t.y = b * FontHeight

Aligned(t) == Good(t) /\ \E a \in 0 .. Columns, b \in Nat : Corner(t, a, b)

\* Dividing what has been put together.
LEMMA Division ==
    ASSUME NEW n \in Nat \ {0}, NEW q \in Nat, NEW r \in 0 .. n - 1
    PROVE  (q * n + r) \div n = q /\ (q * n + r) % n = r
OBVIOUS

\* A line holds a whole number of cells.
LEMMA LineWidth == Columns \in Nat \ {0} /\ fb_width = Columns * FontWidth
<1>1. fb_width \in Nat /\ FontWidth \in Nat \ {0} /\ FontWidth <= fb_width /\ fb_width % FontWidth = 0
  BY ScreenAssumption, ShellLineAssumption
<1>2. fb_width = FontWidth * (fb_width \div FontWidth) + (fb_width % FontWidth)
  BY <1>1
<1>3. fb_width \div FontWidth \in Nat /\ fb_width \div FontWidth # 0
  BY <1>1
<1>4. QED
  BY <1>1, <1>2, <1>3 DEF Columns

\* The order of multiples.
LEMMA Multiples ==
    ASSUME NEW n \in Nat \ {0}, NEW a \in Nat, NEW b \in Nat
    PROVE  /\ a * n \in Nat
           /\ a * n <= b * n => a <= b
           /\ a * n < b * n => a + 1 <= b
           /\ a < b => a * n + n <= b * n
           /\ (a + 1) * n = a * n + n
           /\ a >= 1 => (a - 1) * n = a * n - n
OBVIOUS

\* The number of the cell at a corner.
LEMMA CornerIndex ==
    ASSUME NEW t, NEW a \in Nat, NEW b \in Nat, Corner(t, a, b)
    PROVE  CellIndex(t) = b * Columns + a
<1>1. FontWidth \in Nat \ {0} /\ FontHeight \in Nat \ {0}
  BY ScreenAssumption
<1>2. (a * FontWidth) \div FontWidth = a
  BY <1>1, Division
<1>3. (b * FontHeight) \div FontHeight = b
  BY <1>1, Division
<1>4. QED
  BY <1>2, <1>3 DEF Corner, CellIndex

\* The cell with a number.
LEMMA CellOf ==
    ASSUME NEW a \in 0 .. Columns - 1, NEW b \in Nat
    PROVE  CellAt(b * Columns + a) = Cell(a * FontWidth, b * FontHeight)
<1>1. (b * Columns + a) \div Columns = b /\ (b * Columns + a) % Columns = a
  BY LineWidth, Division
<1>2. QED
  BY <1>1 DEF CellAt

\* Cells with different numbers are apart.
LEMMA CellsApart ==
    ASSUME NEW m \in Nat, NEW n \in Nat, m # n
    PROVE  CellAt(m) \cap CellAt(n) = {}
<1>1. PICK a, b, c, d \in Nat : /\ a = m % Columns /\ b = m \div Columns
                                /\ c = n % Columns /\ d = n \div Columns
  <2>1. \A k \in Nat : k % Columns \in Nat /\ k \div Columns \in Nat
    BY LineWidth
  <2>2. QED
    BY <2>1
<1>2. m = b * Columns + a /\ n = d * Columns + c
  <2>1. m = Columns * (m \div Columns) + (m % Columns) /\ n = Columns * (n \div Columns) + (n % Columns)
    BY LineWidth
  <2>2. QED
    BY <1>1, <2>1, LineWidth
<1>3. a # c \/ b # d
  BY <1>2
<1>4. FontWidth \in Nat \ {0} /\ FontHeight \in Nat \ {0}
  BY ScreenAssumption
<1>5. ASSUME NEW k \in Nat \ {0}, NEW e \in Nat, NEW f \in Nat, NEW z \in Nat,
             e * k <= z, z < e * k + k, f * k <= z, z < f * k + k
      PROVE  e = f
  <2>1. e < f => e * k + k <= f * k
    BY Multiples
  <2>2. f < e => f * k + k <= e * k
    BY Multiples
  <2>3. e * k \in Nat /\ f * k \in Nat
    BY Multiples
  <2>4. QED
    BY <1>5, <2>1, <2>2, <2>3
<1>6. ASSUME NEW p \in CellAt(m), p \in CellAt(n) PROVE FALSE
  <2>1. /\ p[1] \in Nat /\ p[2] \in Nat
        /\ a * FontWidth <= p[1] /\ p[1] < a * FontWidth + FontWidth
        /\ b * FontHeight <= p[2] /\ p[2] < b * FontHeight + FontHeight
        /\ c * FontWidth <= p[1] /\ p[1] < c * FontWidth + FontWidth
        /\ d * FontHeight <= p[2] /\ p[2] < d * FontHeight + FontHeight
    BY <1>1, <1>6 DEF CellAt, Cell, Pixels
  <2>2. a = c /\ b = d
    BY <1>4, <1>5, <2>1
  <2>3. QED
    BY <1>3, <2>2
<1>7. QED
  BY <1>6

-----------------------------------------------------------------------------
(***************************************************************************)
(* One character.                                                          *)
(***************************************************************************)

\* The line that ToTop gives begins at a multiple of the line's height.
LEMMA ToTopAligned ==
    ASSUME NEW b \in Nat
    PROVE  \E d \in Nat : ToTop(b * FontHeight) = d * FontHeight
<1>1. 0 = 0 * FontHeight
  BY ScreenAssumption
<1>2. QED
  BY <1>1 DEF ToTop

\* Where a printable character goes, and the cursor behind it.
LEMMA PlaceAligned ==
    ASSUME NEW t, Aligned(t)
    PROVE  \E a \in 0 .. Columns - 1, b \in Nat :
              /\ Corner(Place(t), a, b)
              /\ b * FontHeight >= t.y => CellIndex(t) = b * Columns + a
<1>1. PICK a \in 0 .. Columns, b \in Nat : Corner(t, a, b)
  BY DEF Aligned
<1>2. /\ FontWidth \in Nat \ {0} /\ FontHeight \in Nat \ {0} /\ fb_height \in Nat
      /\ 2 * FontHeight <= fb_height
      /\ t.y \in Nat /\ t.y + FontHeight <= fb_height
      /\ Columns \in Nat \ {0} /\ fb_width = Columns * FontWidth
      /\ t.x = a * FontWidth /\ t.y = b * FontHeight
  BY <1>1, LineWidth, ScreenAssumption, ShellLineAssumption DEF Aligned, Good, Corner
<1>3. CellIndex(t) = b * Columns + a
  BY <1>1, CornerIndex
<1>4. CASE a < Columns
  <2>1. a * FontWidth + FontWidth <= fb_width
    BY <1>2, <1>4, Multiples
  <2>2. Place(t).x = t.x /\ Place(t).y = t.y
    <3>1. ~ (t.x + FontWidth > fb_width)
      <4>1. a * FontWidth \in Nat /\ fb_width \in Nat
        BY <1>2, Multiples
      <4>2. QED
        BY <1>2, <2>1, <4>1
    <3>2. ToTop(t.y) = t.y
      BY <1>2 DEF ToTop
    <3>3. QED
      BY <3>1, <3>2 DEF Place, At
  <2>3. a \in 0 .. Columns - 1 /\ Corner(Place(t), a, b)
    BY <1>1, <1>2, <1>4, <2>2 DEF Corner
  <2>4. QED
    BY <1>3, <2>3
<1>5. CASE a = Columns
  <2>1. Place(t).x = 0 /\ Place(t).y = ToTop(t.y + FontHeight)
    <3>1. t.x + FontWidth > fb_width
      <4>1. Columns * FontWidth \in Nat
        BY <1>2, Multiples
      <4>2. QED
        BY <1>2, <1>5, <4>1
    <3>2. QED
      BY <3>1 DEF Place, At
  <2>2. t.y + FontHeight = (b + 1) * FontHeight
    BY <1>2, Multiples
  <2>3. 0 = 0 * FontWidth /\ 0 = 0 * FontHeight /\ 0 \in 0 .. Columns - 1 /\ 0 \in Nat
    BY <1>2
  <2>4. CASE ToTop(t.y + FontHeight) = t.y + FontHeight
    <3>1. Corner(Place(t), 0, b + 1)
      BY <2>1, <2>2, <2>3, <2>4 DEF Corner
    <3>2. (b + 1) * Columns + 0 = b * Columns + a
      BY <1>2, <1>5, Multiples
    <3>3. QED
      BY <1>3, <2>3, <3>1, <3>2
  <2>5. CASE ToTop(t.y + FontHeight) # t.y + FontHeight
    <3>1. ToTop(t.y + FontHeight) = 0 /\ t.y # 0
      BY <1>2, <2>5 DEF ToTop
    <3>2. Corner(Place(t), 0, 0) /\ ~ (0 * FontHeight >= t.y)
      BY <1>2, <2>1, <2>3, <3>1 DEF Corner
    <3>3. QED
      BY <2>3, <3>2
  <2>6. QED
    BY <2>4, <2>5
<1>6. QED
  BY <1>1, <1>4, <1>5, LineWidth

\* A printable character is drawn in the cell at the cursor, unless that begins the
\* screen again, and the cursor goes on by one.
LEMMA PrintStep ==
    ASSUME NEW t, Aligned(t), NEW c \in Chars \cup {Space}
    PROVE  /\ Aligned(term_putc(t, c))
           /\ term_putc(t, c).y >= t.y =>
                 /\ CellIndex(term_putc(t, c)) = CellIndex(t) + 1
                 /\ \A p \in Pixels : term_putc(t, c).px[p] =
                                         IF p \in CellAt(CellIndex(t)) THEN c ELSE t.px[p]
<1>1. PICK u : u = term_putc(t, c)
  OBVIOUS
<1>2. u = Printable(t, c)
  BY <1>1, ScreenAssumption DEF term_putc, Controls, Space
<1>3. PICK a \in 0 .. Columns - 1, b \in Nat :
         /\ Corner(Place(t), a, b)
         /\ b * FontHeight >= t.y => CellIndex(t) = b * Columns + a
  BY PlaceAligned
<1>4. /\ u.x = a * FontWidth + FontWidth /\ u.y = b * FontHeight
      /\ u.px = draw_char(t.px, c, a * FontWidth, b * FontHeight)
  BY <1>2, <1>3 DEF Printable, Place, At, Corner
<1>5. Corner(u, a + 1, b)
  BY <1>4, LineWidth, Multiples, ScreenAssumption DEF Corner
<1>6. a + 1 \in 0 .. Columns /\ a \in Nat
  BY LineWidth
<1>7. Good(u)
  BY <1>1, PutcGood DEF Aligned
<1>8. ASSUME u.y >= t.y
      PROVE  /\ CellIndex(u) = CellIndex(t) + 1
             /\ \A p \in Pixels : u.px[p] = IF p \in CellAt(CellIndex(t)) THEN c ELSE t.px[p]
  <2>1. CellIndex(t) = b * Columns + a
    BY <1>3, <1>4, <1>8
  <2>2. CellIndex(u) = b * Columns + (a + 1)
    BY <1>5, <1>6, CornerIndex
  <2>3. CellAt(CellIndex(t)) = Cell(a * FontWidth, b * FontHeight)
    BY <2>1, CellOf
  <2>4. b * Columns \in Nat
    BY LineWidth
  <2>5. QED
    BY <1>4, <1>6, <2>1, <2>2, <2>3, <2>4 DEF draw_char
<1>9. QED
  BY <1>1, <1>5, <1>6, <1>7, <1>8 DEF Aligned

\* Backspace blanks the cell before the cursor and leaves the cursor there, where the
\* next character is drawn in the same line.
LEMMA BackStep ==
    ASSUME NEW t, Aligned(t)
    PROVE  /\ Aligned(Backspace(t))
           /\ CellIndex(t) # 0 =>
                 /\ CellIndex(Backspace(t)) = CellIndex(t) - 1
                 /\ Backspace(t).x + FontWidth <= fb_width
                 /\ \A p \in Pixels : Backspace(t).px[p] =
                                         IF p \in CellAt(CellIndex(t) - 1) THEN Space ELSE t.px[p]
<1>1. PICK u : u = Backspace(t)
  OBVIOUS
<1>2. PICK a \in 0 .. Columns, b \in Nat : Corner(t, a, b)
  BY DEF Aligned
<1>3. /\ FontWidth \in Nat \ {0} /\ FontHeight \in Nat \ {0} /\ fb_width \in Nat
      /\ Columns \in Nat \ {0} /\ fb_width = Columns * FontWidth /\ a \in Nat
      /\ t.x = a * FontWidth /\ t.y = b * FontHeight
  BY <1>2, LineWidth, ScreenAssumption DEF Corner
<1>4. CellIndex(t) = b * Columns + a
  BY <1>2, <1>3, CornerIndex
<1>5. Good(u)
  <2>1. term_putc(t, "backspace") = Backspace(t)
    BY ScreenAssumption DEF term_putc, Controls, Space
  <2>2. QED
    BY <1>1, <2>1, PutcGood DEF Aligned, Controls
<1>6. ASSUME NEW c \in 0 .. Columns - 1, NEW d \in Nat, d * Columns + c + 1 = b * Columns + a,
             u = Erase(t, c * FontWidth, d * FontHeight)
      PROVE  /\ Aligned(u)
             /\ CellIndex(u) = CellIndex(t) - 1
             /\ u.x + FontWidth <= fb_width
             /\ \A p \in Pixels : u.px[p] = IF p \in CellAt(CellIndex(t) - 1) THEN Space ELSE t.px[p]
  <2>1. Corner(u, c, d) /\ c \in 0 .. Columns /\ c \in Nat
    BY <1>3, <1>6 DEF Corner, Erase
  <2>2. d * Columns \in Nat /\ b * Columns \in Nat
    BY <1>3
  <2>3. CellIndex(u) = d * Columns + c /\ CellIndex(t) - 1 = d * Columns + c
    BY <1>3, <1>4, <1>6, <2>1, <2>2, CornerIndex
  <2>4. CellAt(d * Columns + c) = Cell(c * FontWidth, d * FontHeight)
    BY CellOf
  <2>5. c * FontWidth + FontWidth <= fb_width
    BY <1>3, <2>1, Multiples
  <2>6. QED
    BY <1>5, <1>6, <2>1, <2>3, <2>4, <2>5 DEF Erase, draw_char, Aligned
<1>7. CASE a # 0
  <2>1. a - 1 \in 0 .. Columns - 1 /\ (a - 1) * FontWidth = a * FontWidth - FontWidth
    BY <1>3, <1>7, Multiples
  <2>2. t.x >= FontWidth
    BY <1>3, <2>1, Multiples
  <2>3. u = Erase(t, (a - 1) * FontWidth, b * FontHeight)
    BY <1>1, <1>3, <2>1, <2>2 DEF Backspace
  <2>4. b * Columns + (a - 1) + 1 = b * Columns + a
    BY <1>3
  <2>5. QED
    BY <1>1, <1>6, <2>1, <2>3, <2>4
<1>8. CASE a = 0 /\ b # 0
  <2>1. t.x = 0 /\ ~ (t.x >= FontWidth)
    BY <1>3, <1>8
  <2>2. b - 1 \in Nat /\ (b - 1) * FontHeight = b * FontHeight - FontHeight
    BY <1>3, <1>8, Multiples
  <2>3. t.y >= FontHeight
    BY <1>3, <2>2, Multiples
  <2>4. fb_width - FontWidth = (Columns - 1) * FontWidth /\ Columns - 1 \in 0 .. Columns - 1
    BY <1>3, Multiples
  <2>5. u = Erase(t, (Columns - 1) * FontWidth, (b - 1) * FontHeight)
    BY <1>1, <1>3, <2>1, <2>2, <2>3, <2>4 DEF Backspace
  <2>6. (b - 1) * Columns + (Columns - 1) + 1 = b * Columns + a
    <3>1. (b - 1) * Columns = b * Columns - Columns /\ b * Columns \in Nat
      BY <1>3, <1>8, Multiples
    <3>2. QED
      BY <1>3, <1>8, <3>1
  <2>7. QED
    BY <1>1, <1>6, <2>2, <2>4, <2>5, <2>6
<1>9. CASE a = 0 /\ b = 0
  <2>1. t.x = 0 /\ t.y = 0 /\ CellIndex(t) = 0
    BY <1>3, <1>4, <1>9
  <2>2. u = t
    BY <1>1, <1>3, <2>1 DEF Backspace
  <2>3. QED
    BY <1>1, <2>1, <2>2
<1>10. QED
  BY <1>7, <1>8, <1>9

\* Every character keeps the cursor at the corner of a cell.
LEMMA PutcAligned ==
    ASSUME NEW t, Aligned(t), NEW c \in Codes
    PROVE  Aligned(term_putc(t, c))
<1>1. Good(term_putc(t, c))
  BY PutcGood DEF Aligned, Codes
<1>2. PICK a \in 0 .. Columns, b \in Nat : Corner(t, a, b)
  BY DEF Aligned
<1>3. CASE c = "newline"
  <2>1. term_putc(t, c) = Newline(t)
    BY <1>3, ScreenAssumption DEF term_putc, Controls, Space
  <2>2. t.y + FontHeight = (b + 1) * FontHeight
    BY <1>2, Multiples, ScreenAssumption DEF Corner
  <2>3. PICK d \in Nat : ToTop((b + 1) * FontHeight) = d * FontHeight
    BY ToTopAligned
  <2>4. Corner(term_putc(t, c), 0, d) /\ 0 \in 0 .. Columns
    BY <2>1, <2>2, <2>3, LineWidth, ScreenAssumption DEF Newline, At, Corner
  <2>5. QED
    BY <1>1, <2>4 DEF Aligned
<1>4. CASE c = "return"
  <2>1. term_putc(t, c) = Return(t)
    BY <1>4, ScreenAssumption DEF term_putc, Controls, Space
  <2>2. Corner(term_putc(t, c), 0, b) /\ 0 \in 0 .. Columns
    BY <1>2, <2>1, LineWidth, ScreenAssumption DEF Return, At, Corner
  <2>3. QED
    BY <1>1, <2>2 DEF Aligned
<1>5. CASE c = "backspace"
  <2>1. term_putc(t, c) = Backspace(t)
    BY <1>5, ScreenAssumption DEF term_putc, Controls, Space
  <2>2. QED
    BY <2>1, BackStep
<1>6. CASE c = "control"
  BY <1>6, ScreenAssumption DEF term_putc, Controls, Space
<1>7. CASE c \in Chars \cup {Space}
  BY <1>7, PrintStep
<1>8. QED
  BY <1>3, <1>4, <1>5, <1>6, <1>7 DEF Codes, Controls

-----------------------------------------------------------------------------
(***************************************************************************)
(* A string of characters.  write is a function by recursion; that there   *)
(* is one takes an induction.                                              *)
(***************************************************************************)

\* A set of naturals that is not empty has a least element.
LEMMA LeastElement ==
    ASSUME NEW T, T \subseteq Nat, T # {}
    PROVE  \E m \in T : \A k \in T : m <= k
<1>1. IsWellFoundedOn(OpToRel(<, Nat), Nat)
  BY NatLessThanWellFounded, Zenon
<1>2. PICK m \in T : \A k \in T : ~ (<<k, m>> \in OpToRel(<, Nat))
  BY <1>1, WFMin, Zenon
<1>3. ASSUME NEW k \in T PROVE m <= k
  <2>1. ~ (<<k, m>> \in {ss \in Nat \X Nat : ss[1] < ss[2]})
    BY <1>2 DEF OpToRel
  <2>2. QED
    BY <2>1
<1>4. QED
  BY <1>3

\* A set that has 0, and with every number the next, has all up to n.
LEMMA SetInduction ==
    ASSUME NEW n \in Nat, NEW T, 0 \in T, \A k \in 0 .. n - 1 : k \in T => k + 1 \in T
    PROVE  \A k \in 0 .. n : k \in T
<1> DEFINE Out == {k \in 0 .. n : k \notin T}
<1> SUFFICES ASSUME Out # {} PROVE FALSE
  OBVIOUS
<1>1. PICK m \in Out : \A k \in Out : m <= k
  <2>1. Out \subseteq Nat
    OBVIOUS
  <2> HIDE DEF Out
  <2>2. QED
    BY <2>1, LeastElement
<1>2. m \in 0 .. n /\ m \notin T /\ m # 0
  OBVIOUS
<1>3. PICK k \in 0 .. n - 1 : k + 1 = m
  <2>1. m - 1 \in 0 .. n - 1 /\ (m - 1) + 1 = m
    BY <1>2
  <2>2. QED
    BY <2>1
<1>4. k \notin T
  BY <1>2, <1>3
<1>5. QED
  BY <1>1, <1>3, <1>4

\* The function g on 0 .. n starts with first and goes on by step.
Iterates(g, S, first, n, step) ==
    /\ g \in [0 .. n -> S]
    /\ g[0] = first
    /\ \A i \in 1 .. n : g[i] = step[<<i, g[i - 1]>>]

\* There is a function for every recursion over 0 .. n.
LEMMA Iteration ==
    ASSUME NEW S, NEW first \in S, NEW n \in Nat, NEW step \in [(1 .. n) \X S -> S]
    PROVE  \E g : Iterates(g, S, first, n, step)
<1> DEFINE Starts(k, g) == g[0] = first /\ \A i \in 1 .. k : g[i] = step[<<i, g[i - 1]>>]
           T == {k \in 0 .. n : \E g \in [0 .. k -> S] : Starts(k, g)}
<1>1. 0 \in T
  <2>1. PICK g : g = [i \in 0 .. 0 |-> first]
    OBVIOUS
  <2>2. g \in [0 .. 0 -> S] /\ g[0] = first
    BY <2>1
  <2>3. Starts(0, g)
    BY <2>2
  <2>4. 0 \in 0 .. n
    OBVIOUS
  <2> HIDE DEF Starts
  <2>5. QED
    BY <2>2, <2>3, <2>4
<1>2. ASSUME NEW k \in 0 .. n - 1, k \in T PROVE k + 1 \in T
  <2>1. PICK g \in [0 .. k -> S] : Starts(k, g)
    BY <1>2
  <2>2. PICK e \in S : e = step[<<k + 1, g[k]>>]
    <3>1. k + 1 \in 1 .. n /\ g[k] \in S
      OBVIOUS
    <3>2. QED
      BY <3>1
  <2>3. PICK h : h = [i \in 0 .. k + 1 |-> IF i <= k THEN g[i] ELSE e]
    OBVIOUS
  <2>4. h \in [0 .. k + 1 -> S]
    BY <2>3
  <2>5. /\ \A i \in 0 .. k : h[i] = g[i]
        /\ h[k + 1] = e
    BY <2>3
  <2>6. h[0] = first
    BY <2>1, <2>5
  <2>7. ASSUME NEW i \in 1 .. k + 1 PROVE h[i] = step[<<i, h[i - 1]>>]
    <3>1. i - 1 \in 0 .. k /\ h[i - 1] = g[i - 1]
      BY <2>5
    <3>2. CASE i \in 1 .. k
      <4>1. h[i] = g[i] /\ g[i] = step[<<i, g[i - 1]>>]
        BY <2>1, <2>5, <3>2
      <4>2. QED
        BY <3>1, <4>1
    <3>3. CASE i = k + 1
      <4>1. i - 1 = k /\ h[i] = e
        BY <2>5, <3>3
      <4>2. QED
        BY <2>2, <3>1, <3>3, <4>1
    <3>4. QED
      BY <3>2, <3>3
  <2>8. Starts(k + 1, h)
    BY <2>6, <2>7
  <2>9. k + 1 \in 0 .. n
    OBVIOUS
  <2> HIDE DEF Starts
  <2>10. QED
    BY <2>4, <2>8, <2>9
<1>3. \A k \in 0 .. n : k \in T
  <2> HIDE DEF T
  <2>1. QED
    BY <1>1, <1>2, SetInduction
<1>4. QED
  BY <1>3 DEF Iterates

\* The recursion of write.
After(t, s) ==
    CHOOSE g : g = [k \in 0 .. Len(s) |-> IF k = 0 THEN t ELSE term_putc(g[k - 1], s[k])]

LEMMA WriteAfter == \A t, s : write(t, s) = After(t, s)[Len(s)]
BY DEF write, After

LEMMA AfterSteps ==
    ASSUME NEW t, Aligned(t), NEW s \in Seq(Codes)
    PROVE  /\ After(t, s)[0] = t
           /\ \A k \in 1 .. Len(s) : After(t, s)[k] = term_putc(After(t, s)[k - 1], s[k])
           /\ \A k \in 0 .. Len(s) : Aligned(After(t, s)[k])
<1> DEFINE S == {u \in [x : Nat, y : Nat, px : [Pixels -> Contents]] : Aligned(u)}
<1>1. PICK n \in Nat : n = Len(s)
  OBVIOUS
<1>2. PICK step : step = [e \in (1 .. n) \X S |-> term_putc(e[2], s[e[1]])]
  OBVIOUS
<1>3. \A u : Aligned(u) <=> u \in S
  BY DEF Aligned, Good
<1>4. step \in [(1 .. n) \X S -> S]
  <2>1. ASSUME NEW i \in 1 .. n, NEW u \in S PROVE term_putc(u, s[i]) \in S
    <3>1. Aligned(u) /\ s[i] \in Codes
      BY <1>1
    <3>2. QED
      BY <1>3, <3>1, PutcAligned, Zenon
  <2> HIDE DEF S
  <2>2. QED
    BY <1>2, <2>1
<1>5. t \in S
  BY <1>3
<1> HIDE DEF S
<1>6. PICK g : Iterates(g, S, t, n, step)
  BY <1>4, <1>5, Iteration
<1>7. /\ g \in [0 .. n -> S] /\ g[0] = t
      /\ \A i \in 1 .. n : g[i] = step[<<i, g[i - 1]>>]
  BY <1>6 DEF Iterates
<1>8. ASSUME NEW i \in 1 .. n PROVE g[i] = term_putc(g[i - 1], s[i])
  <2>1. i - 1 \in 0 .. n /\ g[i - 1] \in S
    BY <1>7
  <2>2. step[<<i, g[i - 1]>>] = term_putc(g[i - 1], s[i])
    BY <1>2, <2>1
  <2>3. QED
    BY <1>7, <2>2
<1>9. g = [k \in 0 .. Len(s) |-> IF k = 0 THEN t ELSE term_putc(g[k - 1], s[k])]
  <2>1. \A k \in 0 .. n : g[k] = IF k = 0 THEN t ELSE term_putc(g[k - 1], s[k])
    BY <1>7, <1>8
  <2>2. QED
    BY <1>1, <1>7, <2>1
<1>10. PICK f : f = After(t, s)
  OBVIOUS
<1>11. f = [k \in 0 .. Len(s) |-> IF k = 0 THEN t ELSE term_putc(f[k - 1], s[k])]
  BY <1>9, <1>10 DEF After
<1>12. f[0] = t /\ \A k \in 1 .. n : f[k] = term_putc(f[k - 1], s[k])
  <2>1. \A k \in 0 .. n : f[k] = IF k = 0 THEN t ELSE term_putc(f[k - 1], s[k])
    BY <1>1, <1>11
  <2>2. QED
    BY <2>1
<1>13. \A k \in 0 .. n : Aligned(f[k])
  <2> DEFINE T == {k \in 0 .. n : Aligned(f[k])}
  <2>1. 0 \in T
    BY <1>12
  <2>2. ASSUME NEW k \in 0 .. n - 1, k \in T PROVE k + 1 \in T
    <3>1. k + 1 \in 1 .. n /\ (k + 1) - 1 = k
      OBVIOUS
    <3>2. f[k + 1] = term_putc(f[k], s[k + 1]) /\ s[k + 1] \in Codes
      BY <1>1, <1>12, <3>1
    <3>3. QED
      BY <2>2, <3>2, PutcAligned
  <2> HIDE DEF T
  <2>3. \A k \in 0 .. n : k \in T
    BY <2>1, <2>2, SetInduction
  <2>4. QED
    BY <2>3 DEF T
<1>14. QED
  BY <1>1, <1>10, <1>12, <1>13

\* Writing a string keeps the cursor at the corner of a cell.
LEMMA WriteAligned ==
    ASSUME NEW t, Aligned(t), NEW s \in Seq(Codes)
    PROVE  Aligned(write(t, s))
<1>1. Len(s) \in 0 .. Len(s)
  OBVIOUS
<1>2. QED
  BY <1>1, WriteAfter, AfterSteps

\* Writing one character, and rubbing one out.
LEMMA WriteFew ==
    ASSUME NEW t, Aligned(t)
    PROVE  /\ \A c \in Codes : write(t, <<c>>) = term_putc(t, c)
           /\ write(t, Rubout) = Backspace(term_putc(Backspace(t), Space))
<1>1. ASSUME NEW c \in Codes PROVE write(t, <<c>>) = term_putc(t, c)
  <2>1. PICK s \in Seq(Codes) : s = <<c>>
    <3>1. <<c>> \in Seq(Codes)
      OBVIOUS
    <3>2. QED
      BY <3>1
  <2>2. Len(s) = 1 /\ s[1] = c /\ 1 \in 1 .. 1 /\ 1 - 1 = 0
    BY <2>1
  <2>3. After(t, s)[1] = term_putc(After(t, s)[1 - 1], s[1]) /\ After(t, s)[0] = t
    BY <2>2, AfterSteps
  <2>4. QED
    BY <2>1, <2>2, <2>3, WriteAfter
<1>2. write(t, Rubout) = Backspace(term_putc(Backspace(t), Space))
  <2>1. PICK s \in Seq(Codes) : s = Rubout
    <3>1. "backspace" \in Codes /\ Space \in Codes
      BY DEF Codes, Controls
    <3>2. Rubout \in Seq(Codes)
      BY <3>1 DEF Rubout
    <3>3. QED
      BY <3>2
  <2>2. Len(s) = 3 /\ s[1] = "backspace" /\ s[2] = Space /\ s[3] = "backspace"
    BY <2>1 DEF Rubout
  <2> DEFINE f == After(t, s)
  <2>3. f[0] = t /\ \A k \in 1 .. 3 : f[k] = term_putc(f[k - 1], s[k])
    BY <2>2, AfterSteps
  <2> HIDE DEF f
  <2>4. /\ f[1] = term_putc(t, "backspace") /\ f[2] = term_putc(f[1], Space)
        /\ f[3] = term_putc(f[2], "backspace")
    BY <2>2, <2>3
  <2>5. \A u : term_putc(u, "backspace") = Backspace(u)
    BY ScreenAssumption DEF term_putc, Controls, Space
  <2>6. write(t, Rubout) = f[3]
    BY <2>1, <2>2, WriteAfter DEF f
  <2>7. QED
    BY <2>4, <2>5, <2>6
<1>3. QED
  BY <1>1, <1>2

-----------------------------------------------------------------------------
(***************************************************************************)
(* The line.                                                               *)
(***************************************************************************)

LineInv ==
    /\ Aligned(screen)
    /\ buf \in Seq(Codes)
    /\ start \in Nat
    /\ tracked \in BOOLEAN
    /\ LineOnScreen

LEMMA IndexType ==
    ASSUME NEW t, Aligned(t)
    PROVE  CellIndex(t) \in Nat
<1>1. PICK a \in Nat, b \in Nat : Corner(t, a, b)
  BY LineWidth DEF Aligned
<1>2. b * Columns + a \in Nat
  BY LineWidth
<1>3. QED
  BY <1>1, <1>2, CornerIndex

LEMMA ClearedAligned == Aligned(Cleared)
<1>1. Good(Cleared)
  BY ScreenAssumption DEF Good, Cleared, Contents
<1>2. Corner(Cleared, 0, 0) /\ 0 \in 0 .. Columns
  BY LineWidth, ScreenAssumption DEF Corner, Cleared
<1>3. QED
  BY <1>1, <1>2 DEF Aligned

\* The prompt of an empty line.
LEMMA EmptyLine ==
    ASSUME NEW t, Aligned(t), NEW p \in Prompts
    PROVE  Aligned(write(t, p)) /\ CellIndex(write(t, p)) \in Nat
<1>1. p \in Seq(Codes)
  BY ShellLineAssumption
<1>2. QED
  BY <1>1, WriteAligned, IndexType

LEMMA LineInitInv == LineInit => LineInv
<1> SUFFICES ASSUME LineInit PROVE LineInv
  OBVIOUS
<1>1. PICK p \in Prompts : screen = write(Cleared, p)
  BY DEF LineInit
<1>2. Aligned(screen) /\ CellIndex(screen) \in Nat
  BY <1>1, EmptyLine, ClearedAligned
<1>3. buf \in Seq(Codes) /\ Len(buf) = 0 /\ start = CellIndex(screen) /\ tracked \in BOOLEAN
  BY DEF LineInit
<1>4. QED
  BY <1>2, <1>3, ShellLineAssumption DEF LineInv, LineOnScreen

LEMMA NewLineInv ==
    ASSUME NEW t, Aligned(t), NewLine(t)
    PROVE  LineInv'
<1>1. PICK p \in Prompts : screen' = write(t, p)
  BY DEF NewLine
<1>2. Aligned(screen') /\ CellIndex(screen') \in Nat
  BY <1>1, EmptyLine
<1>3. buf' \in Seq(Codes) /\ Len(buf') = 0 /\ start' = CellIndex(screen') /\ tracked' \in BOOLEAN
  BY DEF NewLine
<1>4. PICK u : u = screen'
  OBVIOUS
<1>5. CellIndex(screen)' = CellIndex(u) /\ Aligned(screen)' = Aligned(u)
  BY <1>4 DEF CellIndex, Aligned, Good, Corner
<1>6. LineOnScreen'
  BY <1>2, <1>3, <1>4, <1>5, ShellLineAssumption DEF LineOnScreen
<1>7. QED
  BY <1>2, <1>3, <1>4, <1>5, <1>6 DEF LineInv

LEMMA EnterInv == LineInv /\ Enter => LineInv'
<1> SUFFICES ASSUME LineInv, Enter PROVE LineInv'
  OBVIOUS
<1>1. PICK t : t = write(screen, <<"newline">>)
  OBVIOUS
<1>2. Aligned(t)
  <2>1. "newline" \in Codes
    BY DEF Codes, Controls
  <2>2. <<"newline">> \in Seq(Codes)
    BY <2>1
  <2>3. QED
    BY <1>1, <2>2, WriteAligned DEF LineInv
<1>3. CASE NewLine(t)
  BY <1>2, <1>3, NewLineInv
<1>4. ASSUME NEW out \in Outputs, NewLine(write(t, out)) PROVE LineInv'
  <2>1. out \in Seq(Codes)
    BY ShellLineAssumption
  <2>2. QED
    BY <1>2, <1>4, <2>1, WriteAligned, NewLineInv
<1>5. CASE NewLine(Cleared)
  BY <1>5, ClearedAligned, NewLineInv
<1>6. QED
  BY <1>1, <1>3, <1>4, <1>5 DEF Enter

LEMMA KeyInv ==
    ASSUME LineInv, NEW c \in Chars \cup {Space, "control"}, Key(c)
    PROVE  LineInv'
<1>1. PICK u : u = screen'
  OBVIOUS
<1>2. CellIndex(screen)' = CellIndex(u) /\ Aligned(screen)' = Aligned(u)
  BY <1>1 DEF CellIndex, Aligned, Good, Corner
<1>3. /\ Aligned(screen) /\ buf \in Seq(Codes) /\ start \in Nat /\ Len(buf) < BUF_SIZE
      /\ BUF_SIZE \in Nat /\ tracked \in BOOLEAN /\ c \in Codes
  BY ShellLineAssumption DEF LineInv, LineOnScreen, Codes, Controls
<1>4. u = term_putc(screen, c)
  BY <1>1, <1>3, WriteFew DEF Key
<1>5. Aligned(u)
  BY <1>3, <1>4, PutcAligned
<1>6. /\ buf' \in Seq(Codes) /\ Len(buf') < BUF_SIZE
      /\ buf' # buf => buf' = Append(buf, c)
  BY <1>3 DEF Key, Kept
<1>7. start' = start /\ tracked' \in BOOLEAN
  BY DEF Key
<1>8. ASSUME tracked'
      PROVE  /\ CellIndex(u) = start + Len(buf')
             /\ \A i \in 1 .. Len(buf') : \A p \in CellAt(start + i - 1) : u.px[p] = buf'[i]
  <2>1. tracked /\ c # "control" /\ buf' # buf /\ u.y >= screen.y
    BY <1>1, <1>8 DEF Key
  <2>2. /\ CellIndex(screen) = start + Len(buf)
        /\ \A i \in 1 .. Len(buf) : \A p \in CellAt(start + i - 1) : screen.px[p] = buf[i]
    BY <2>1 DEF LineInv, LineOnScreen
  <2>3. /\ CellIndex(u) = CellIndex(screen) + 1
        /\ \A p \in Pixels : u.px[p] = IF p \in CellAt(CellIndex(screen)) THEN c ELSE screen.px[p]
    BY <1>3, <1>4, <2>1, PrintStep
  <2>4. /\ Len(buf) \in Nat /\ Len(buf') = Len(buf) + 1 /\ buf'[Len(buf) + 1] = c
        /\ \A i \in 1 .. Len(buf) : buf'[i] = buf[i]
    BY <1>3, <1>6, <2>1
  <2>5. ASSUME NEW i \in 1 .. Len(buf'), NEW p \in CellAt(start + i - 1)
        PROVE  u.px[p] = buf'[i]
    <3>1. p \in Pixels
      BY DEF CellAt, Cell
    <3>2. CASE i = Len(buf) + 1
      <4>1. start + i - 1 = CellIndex(screen)
        BY <1>3, <2>2, <2>4, <3>2
      <4>2. QED
        BY <2>3, <2>4, <3>1, <3>2, <4>1
    <3>3. CASE i \in 1 .. Len(buf)
      <4>1. start + i - 1 \in Nat /\ start + Len(buf) \in Nat /\ start + i - 1 # start + Len(buf)
        BY <1>3, <2>4, <3>3
      <4>2. p \notin CellAt(CellIndex(screen))
        BY <2>2, <4>1, CellsApart
      <4>3. QED
        BY <2>2, <2>3, <2>4, <3>1, <3>3, <4>2
    <3>4. QED
      BY <2>4, <3>2, <3>3
  <2>6. CellIndex(u) = start + Len(buf')
    BY <1>3, <2>2, <2>3, <2>4
  <2>7. QED
    BY <2>5, <2>6
<1>9. LineOnScreen'
  BY <1>1, <1>2, <1>6, <1>7, <1>8 DEF LineOnScreen, CellAt, Cell, Pixels, Columns
<1>10. QED
  BY <1>2, <1>3, <1>5, <1>6, <1>7, <1>9 DEF LineInv

LEMMA BackspaceInv == LineInv /\ KeyBackspace => LineInv'
<1> SUFFICES ASSUME LineInv, KeyBackspace PROVE LineInv'
  OBVIOUS
<1>1. PICK u, b : u = Backspace(screen) /\ b = term_putc(u, Space)
  OBVIOUS
<1>2. PICK v : v = screen'
  OBVIOUS
<1>3. CellIndex(screen)' = CellIndex(v) /\ Aligned(screen)' = Aligned(v)
  BY <1>2 DEF CellIndex, Aligned, Good, Corner
<1>4. /\ Aligned(screen) /\ buf \in Seq(Codes) /\ start \in Nat /\ Len(buf) < BUF_SIZE
      /\ BUF_SIZE \in Nat /\ tracked \in BOOLEAN /\ buf # << >>
  BY ShellLineAssumption DEF LineInv, LineOnScreen, KeyBackspace
<1>5. v = Backspace(b)
  BY <1>1, <1>2, <1>4, WriteFew DEF KeyBackspace
<1>6. Aligned(u) /\ Aligned(b) /\ Aligned(v)
  BY <1>1, <1>4, <1>5, BackStep, PrintStep
<1>7. /\ buf' \in Seq(Codes) /\ Len(buf) \in Nat /\ Len(buf') = Len(buf) - 1 /\ Len(buf') \in Nat
      /\ \A i \in 1 .. Len(buf') : buf'[i] = buf[i]
  <2>1. PICK s \in Seq(Codes) : s = buf
    BY <1>4
  <2>2. PICK m \in Nat : m = Len(s) - 1
    <3>1. s # << >> => Len(s) \in Nat /\ Len(s) # 0
      OBVIOUS
    <3>2. Len(s) - 1 \in Nat
      BY <1>4, <2>1, <3>1
    <3>3. QED
      BY <3>2
  <2>3. PICK w : w = SubSeq(s, 1, Len(s) - 1)
    OBVIOUS
  <2>4. w \in Seq(Codes) /\ Len(w) = Len(s) - 1 /\ \A i \in 1 .. Len(w) : w[i] = s[i]
    <3>1. /\ SubSeq(s, 1, m) \in Seq(Codes) /\ Len(SubSeq(s, 1, m)) = m
          /\ \A i \in 1 .. m : SubSeq(s, 1, m)[i] = s[i]
      BY <2>2
    <3>2. QED
      BY <2>2, <2>3, <3>1
  <2>5. w = buf'
    BY <2>1, <2>3 DEF KeyBackspace
  <2>6. QED
    BY <1>4, <2>1, <2>2, <2>4, <2>5
<1>8. start' = start /\ tracked' = tracked
  BY DEF KeyBackspace
<1>9. ASSUME tracked
      PROVE  /\ CellIndex(v) = start + Len(buf')
             /\ \A i \in 1 .. Len(buf') : \A p \in CellAt(start + i - 1) : v.px[p] = buf'[i]
  <2>1. /\ CellIndex(screen) = start + Len(buf)
        /\ \A i \in 1 .. Len(buf) : \A p \in CellAt(start + i - 1) : screen.px[p] = buf[i]
    BY <1>9 DEF LineInv, LineOnScreen
  <2>2. PICK n \in Nat : n = start + Len(buf') /\ n + 1 = CellIndex(screen)
    <3>1. start + Len(buf') \in Nat
      BY <1>4, <1>7
    <3>2. (start + Len(buf')) + 1 = CellIndex(screen)
      BY <1>4, <1>7, <2>1
    <3>3. QED
      BY <3>1, <3>2
  <2>3. /\ CellIndex(u) = n /\ u.x + FontWidth <= fb_width
        /\ \A p \in Pixels : u.px[p] = IF p \in CellAt(n) THEN Space ELSE screen.px[p]
    <3>1. CellIndex(screen) # 0 /\ CellIndex(screen) - 1 = n
      BY <2>2
    <3>2. QED
      BY <1>1, <1>4, <3>1, BackStep
  <2>4. b.y >= u.y
    <3>1. u.x \in Nat /\ u.y \in Nat /\ u.y + FontHeight <= fb_height
      BY <1>6 DEF Aligned, Good
    <3>2. ~ (u.x + FontWidth > fb_width) /\ ~ (u.y + FontHeight > fb_height)
      BY <2>3, <3>1, ScreenAssumption
    <3>3. Place(u).y = u.y
      BY <3>2 DEF Place, At, ToTop
    <3>4. b = Printable(u, Space)
      BY <1>1, ScreenAssumption DEF term_putc, Controls, Space
    <3>5. QED
      BY <3>1, <3>3, <3>4 DEF Printable
  <2>5. /\ CellIndex(b) = n + 1
        /\ \A p \in Pixels : b.px[p] = IF p \in CellAt(n) THEN Space ELSE u.px[p]
    BY <1>1, <1>6, <2>3, <2>4, PrintStep
  <2>6. /\ CellIndex(v) = n
        /\ \A p \in Pixels : v.px[p] = IF p \in CellAt(n) THEN Space ELSE b.px[p]
    <3>1. CellIndex(b) # 0 /\ CellIndex(b) - 1 = n
      BY <2>5
    <3>2. QED
      BY <1>5, <1>6, <3>1, BackStep
  <2>7. ASSUME NEW i \in 1 .. Len(buf'), NEW p \in CellAt(start + i - 1)
        PROVE  v.px[p] = buf'[i]
    <3>1. p \in Pixels
      BY DEF CellAt, Cell
    <3>2. start + i - 1 \in Nat /\ start + i - 1 # n /\ i \in 1 .. Len(buf)
      BY <1>4, <1>7, <2>2
    <3>3. p \notin CellAt(n)
      BY <3>2, CellsApart
    <3>4. v.px[p] = screen.px[p]
      BY <2>3, <2>5, <2>6, <3>1, <3>3
    <3>5. QED
      BY <1>7, <2>1, <3>2, <3>4
  <2>8. QED
    BY <2>2, <2>6, <2>7
<1>10. LineOnScreen'
  <2>1. Len(buf') < BUF_SIZE
    BY <1>4, <1>7
  <2>2. QED
    BY <1>2, <1>3, <1>8, <1>9, <2>1 DEF LineOnScreen, CellAt, Cell, Pixels, Columns
<1>11. QED
  BY <1>3, <1>4, <1>6, <1>7, <1>8, <1>10 DEF LineInv

LEMMA LineQuiet == LineInv /\ UNCHANGED lineVars => LineInv'
BY DEF LineInv, LineOnScreen, lineVars, Aligned, Good, Corner, CellIndex, CellAt, Cell, Pixels, Columns

\* What the user sees between the prompt and the cursor is what the command will
\* be, for every screen of whole cells and every prompt, output and buffer size.
THEOREM LineIsOnScreen == LineSpec => []LineOnScreen
<1>1. LineInv /\ [LineNext]_lineVars => LineInv'
  BY LineQuiet, KeyInv, BackspaceInv, EnterInv DEF LineNext
<1>2. LineInv => LineOnScreen
  BY DEF LineInv
<1>3. QED
  BY LineInitInv, <1>1, <1>2, PTL DEF LineSpec
=============================================================================
