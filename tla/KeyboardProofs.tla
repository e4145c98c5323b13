--------------------------- MODULE KeyboardProofs ---------------------------
(***************************************************************************)
(* Proofs about Keyboard and Ps2 for every ring size, key map, set of scan *)
(* codes, read lengths, screen and configuration.                          *)
(***************************************************************************)
EXTENDS Ps2, SequenceTheorems, WellFoundedInduction, TLAPS

N == KBD_BUF_SIZE

\* The modulo of the ring indices, for sums below twice the size.
LEMMA ModTwice ==
    \A x \in 0 .. 2 * N - 1 : x % N = IF x < N THEN x ELSE x - N
BY KbdAssumption DEF N

\* The number of characters between a tail and a head.
LEMMA Distance ==
    ASSUME NEW h \in 0 .. N - 1, NEW t \in 0 .. N - 1
    PROVE  (h - t + N) % N = IF h >= t THEN h - t ELSE h - t + N
<1>1. N \in Nat \ {0}
  BY KbdAssumption DEF N
<1>2. h - t + N \in 0 .. 2 * N - 1
  BY <1>1
<1>3. QED
  BY <1>1, <1>2, ModTwice

\* The tail after n characters have been popped.
LEMMA Advance ==
    ASSUME NEW t \in 0 .. N - 1, NEW n \in 0 .. N - 1
    PROVE  (t + n) % N = IF t + n < N THEN t + n ELSE t + n - N
<1>1. N \in Nat \ {0}
  BY KbdAssumption DEF N
<1>2. t + n \in 0 .. 2 * N - 1
  BY <1>1
<1>3. QED
  BY <1>1, <1>2, ModTwice

\* Appending to a sequence, position by position.
LEMMA AppendAsFunction ==
    ASSUME NEW S, NEW s \in Seq(S), NEW e \in S
    PROVE  Append(s, e) = [i \in 1 .. Len(s) + 1 |-> IF i <= Len(s) THEN s[i] ELSE e]
<1>1. /\ Append(s, e) \in Seq(S) /\ Len(Append(s, e)) = Len(s) + 1
      /\ \A i \in 1 .. Len(s) : Append(s, e)[i] = s[i]
  OBVIOUS
<1>2. Append(s, e)[Len(s) + 1] = e
  OBVIOUS
<1>3. Len(s) \in Nat
  OBVIOUS
<1>4. \A i \in 1 .. Len(s) + 1 :
         Append(s, e)[i] = IF i <= Len(s) THEN s[i] ELSE e
  BY <1>1, <1>2, <1>3
<1>5. Append(s, e) = [i \in 1 .. Len(s) + 1 |-> Append(s, e)[i]]
  BY <1>1, LenProperties
<1>6. QED
  BY <1>4, <1>5

\* The slot i - 1 places after a tail.
LEMMA Place ==
    ASSUME NEW t \in 0 .. N - 1, NEW i \in 1 .. N
    PROVE  (t + i - 1) % N = IF t + i - 1 < N THEN t + i - 1 ELSE t + i - 1 - N
<1>1. N \in Nat \ {0}
  BY KbdAssumption DEF N
<1>2. t + i - 1 \in 0 .. 2 * N - 1
  BY <1>1
<1>3. QED
  BY <1>1, <1>2, ModTwice

\* What the scan codes push are characters.
LEMMA KeysAreChars ==
    /\ \A sc \in Arrow : arrow(sc) \in Char
    /\ \A sc \in MakeCode : keymap[sc] \in Char
<1>1. /\ KEY_UP = -128 /\ KEY_DOWN = -127
      /\ KEY_LEFT = -126 /\ KEY_RIGHT = -125
  BY DEF KEY_UP, KEY_DOWN, KEY_LEFT, KEY_RIGHT, ToChar
<1>2. \A sc \in Arrow : arrow(sc) \in {KEY_UP, KEY_DOWN, KEY_LEFT, KEY_RIGHT}
  BY DEF arrow
<1>3. {KEY_UP, KEY_DOWN, KEY_LEFT, KEY_RIGHT} \subseteq Char
  BY <1>1 DEF Char
<1>4. 0 .. 127 \subseteq Char
  BY DEF Char
<1>5. \A sc \in MakeCode : keymap[sc] \in 0 .. 127
  BY KbdAssumption
<1>6. QED
  BY <1>2, <1>3, <1>4, <1>5

\* The indices without modulo.
LEMMA Indices ==
    ASSUME TypeOK
    PROVE  /\ N \in Nat \ {0}
           /\ kbd_head \in 0 .. N - 1 /\ kbd_tail \in 0 .. N - 1
           /\ kbd_buf \in [0 .. N - 1 -> Char]
           /\ Count = IF kbd_head >= kbd_tail THEN kbd_head - kbd_tail
                      ELSE kbd_head - kbd_tail + N
           /\ Count \in 0 .. N - 1
           /\ \A i \in 1 .. N :
                 /\ Slot(i) = IF kbd_tail + i - 1 < N THEN kbd_tail + i - 1
                              ELSE kbd_tail + i - 1 - N
                 /\ Slot(i) \in 0 .. N - 1
           /\ Succ(kbd_head) = IF kbd_head + 1 < N THEN kbd_head + 1 ELSE 0
           /\ Pending \in Seq(Char) /\ Len(Pending) = Count
<1>1. /\ N \in Nat \ {0} /\ kbd_head \in 0 .. N - 1 /\ kbd_tail \in 0 .. N - 1
      /\ kbd_buf \in [0 .. N - 1 -> Char]
  BY KbdAssumption DEF TypeOK, N
<1>2. Count = IF kbd_head >= kbd_tail THEN kbd_head - kbd_tail
              ELSE kbd_head - kbd_tail + N
  BY <1>1, Distance DEF Count, N
<1>3. \A i \in 1 .. N :
         Slot(i) = IF kbd_tail + i - 1 < N THEN kbd_tail + i - 1
                   ELSE kbd_tail + i - 1 - N
  BY <1>1, Place DEF Slot, N
<1>4. \A i \in 1 .. N : Slot(i) \in 0 .. N - 1
  BY <1>1, <1>3
<1>5. Succ(kbd_head) = IF kbd_head + 1 < N THEN kbd_head + 1 ELSE 0
  <2>1. kbd_head + 1 \in 0 .. 2 * N - 1
    BY <1>1
  <2>2. Succ(kbd_head) = (kbd_head + 1) % N
    BY DEF Succ, N
  <2>3. (kbd_head + 1) % N =
           IF kbd_head + 1 < N THEN kbd_head + 1 ELSE kbd_head + 1 - N
    BY ONLY <1>1, <2>1, ModTwice
  <2>4. QED
    BY ONLY <1>1, <2>2, <2>3
<1>6. Count \in 0 .. N - 1
  BY <1>1, <1>2
<1>7. Pending \in Seq(Char) /\ Len(Pending) = Count
  <2>1. \A i \in 1 .. Count : kbd_buf[Slot(i)] \in Char
    BY <1>1, <1>4, <1>6
  <2>2. QED
    BY <1>6, <2>1 DEF Pending
<1>8. QED
  BY <1>1, <1>2, <1>3, <1>4, <1>5, <1>6, <1>7

\* A push into a ring that is not full appends to the pending characters.
LEMMA PushAppends ==
    ASSUME TypeOK, NEW c \in Char, ~ kbd_full,
           kbd_buf' = [kbd_buf EXCEPT ![kbd_head] = c],
           kbd_head' = Succ(kbd_head), kbd_tail' = kbd_tail
    PROVE  /\ kbd_head' \in 0 .. N - 1
           /\ kbd_buf' \in [0 .. N - 1 -> Char]
           /\ Len(Pending) < N - 1
           /\ Pending' = Append(Pending, c)
<1>1. /\ N \in Nat \ {0} /\ kbd_head \in 0 .. N - 1 /\ kbd_tail \in 0 .. N - 1
      /\ kbd_buf \in [0 .. N - 1 -> Char]
      /\ Count = IF kbd_head >= kbd_tail THEN kbd_head - kbd_tail
                 ELSE kbd_head - kbd_tail + N
      /\ Count \in 0 .. N - 1
      /\ kbd_head' = IF kbd_head + 1 < N THEN kbd_head + 1 ELSE 0
      /\ kbd_head' # kbd_tail
      /\ Pending \in Seq(Char) /\ Len(Pending) = Count
  BY Indices DEF kbd_full
<1>a. Pending \in Seq(Char) /\ Len(Pending) = Count
  BY <1>1
<1>2. kbd_head' \in 0 .. N - 1 /\ kbd_buf' \in [0 .. N - 1 -> Char]
  BY <1>1
<1>3. Count < N - 1
  BY ONLY <1>1
<1>4. Count' = Count + 1
  <2>1. Count' = (kbd_head' - kbd_tail + N) % N
    BY DEF Count, N
  <2>2. Count' = IF kbd_head' >= kbd_tail THEN kbd_head' - kbd_tail
                 ELSE kbd_head' - kbd_tail + N
    BY ONLY <1>1, <1>2, <2>1, Distance
  <2>3. QED
    BY ONLY <1>1, <1>3, <2>2
<1>5. \A i \in 1 .. N : Slot(i)' = Slot(i)
  BY DEF Slot
<1>6. \A i \in 1 .. N :
         /\ Slot(i) = IF kbd_tail + i - 1 < N THEN kbd_tail + i - 1
                      ELSE kbd_tail + i - 1 - N
         /\ Slot(i) \in 0 .. N - 1
  BY Indices
<1>7. \A i \in 1 .. Count : Slot(i) # kbd_head
  BY ONLY <1>1, <1>3, <1>6
<1>8. Slot(Count + 1) = kbd_head
  BY ONLY <1>1, <1>3, <1>6
<1>9. Pending' = [i \in 1 .. Count + 1 |-> IF i <= Count THEN Pending[i] ELSE c]
  <2>1. \A i \in 1 .. Count : kbd_buf'[Slot(i)] = kbd_buf[Slot(i)]
    BY <1>1, <1>6, <1>7
  <2>2. kbd_buf'[Slot(Count + 1)] = c
    BY <1>1, <1>8
  <2>3. \A i \in 1 .. Count : Pending[i] = kbd_buf[Slot(i)]
    BY DEF Pending
  <2>4. Pending' = [i \in 1 .. Count + 1 |-> kbd_buf'[Slot(i)]]
    BY <1>1, <1>3, <1>4, <1>5 DEF Pending
  <2>5. \A i \in 1 .. Count + 1 :
           kbd_buf'[Slot(i)] = IF i <= Count THEN Pending[i] ELSE c
    <3> SUFFICES ASSUME NEW i \in 1 .. Count + 1
                 PROVE  kbd_buf'[Slot(i)] = IF i <= Count THEN Pending[i] ELSE c
      OBVIOUS
    <3>1. CASE i \in 1 .. Count
      BY ONLY <1>1, <2>1, <2>3, <3>1
    <3>2. CASE i = Count + 1
      BY ONLY <1>1, <2>2, <3>2
    <3>3. QED
      BY <1>1, <3>1, <3>2
  <2>6. QED
    BY <2>4, <2>5
<1>10. Append(Pending, c) =
          [i \in 1 .. Count + 1 |-> IF i <= Count THEN Pending[i] ELSE c]
  BY ONLY <1>a, c \in Char, AppendAsFunction
<1>11. QED
  BY <1>1, <1>2, <1>3, <1>9, <1>10

\* A read that pops n characters removes the n oldest.
LEMMA ReadTakesOldest ==
    ASSUME TypeOK, NEW n \in 0 .. Count,
           kbd_tail' = (kbd_tail + n) % KBD_BUF_SIZE,
           kbd_buf' = kbd_buf, kbd_head' = kbd_head
    PROVE  /\ kbd_tail' \in 0 .. N - 1
           /\ Len(Pending) = Count
           /\ Pending' = SubSeq(Pending, n + 1, Len(Pending))
<1>1. /\ N \in Nat \ {0} /\ kbd_head \in 0 .. N - 1 /\ kbd_tail \in 0 .. N - 1
      /\ Count = IF kbd_head >= kbd_tail THEN kbd_head - kbd_tail
                 ELSE kbd_head - kbd_tail + N
      /\ Count \in 0 .. N - 1
      /\ n \in 0 .. Count
      /\ Pending \in Seq(Char) /\ Len(Pending) = Count
  BY Indices
<1>2. kbd_tail' = IF kbd_tail + n < N THEN kbd_tail + n ELSE kbd_tail + n - N
  <2>1. n \in 0 .. N - 1
    BY <1>1
  <2>2. kbd_tail' = (kbd_tail + n) % N
    BY DEF N
  <2>3. QED
    BY ONLY <1>1, <2>1, <2>2, Advance
<1>3. kbd_tail' \in 0 .. N - 1
  BY ONLY <1>1, <1>2
<1>4. Count' = Count - n
  <2>1. Count' = (kbd_head - kbd_tail' + N) % N
    BY DEF Count, N
  <2>2. Count' = IF kbd_head >= kbd_tail' THEN kbd_head - kbd_tail'
                 ELSE kbd_head - kbd_tail' + N
    BY ONLY <1>1, <1>3, <2>1, Distance
  <2>3. QED
    BY ONLY <1>1, <1>2, <2>2
<1>5. \A i \in 1 .. Count - n : Slot(i)' = Slot(n + i)
  <2>1. \A i \in 1 .. Count - n : Slot(i)' = (kbd_tail' + i - 1) % N
    BY DEF Slot, N
  <2>2. \A i \in 1 .. Count - n :
           Slot(i)' = IF kbd_tail' + i - 1 < N THEN kbd_tail' + i - 1
                      ELSE kbd_tail' + i - 1 - N
    <3>1. ASSUME NEW i \in 1 .. Count - n PROVE i \in 1 .. N
      BY <1>1
    <3>2. QED
      BY ONLY <1>3, <2>1, <3>1, Place
  <2>3. \A i \in 1 .. N :
           Slot(i) = IF kbd_tail + i - 1 < N THEN kbd_tail + i - 1
                     ELSE kbd_tail + i - 1 - N
    BY Indices
  <2>4. ASSUME NEW i \in 1 .. Count - n PROVE Slot(i)' = Slot(n + i)
    <3>1. n + i \in 1 .. N
      BY ONLY <1>1, i \in 1 .. Count - n
    <3>2. QED
      BY ONLY <1>1, <1>2, <2>2, <2>3, <3>1, i \in 1 .. Count - n
  <2>5. QED
    BY <2>4
<1>6. Pending' = [i \in 1 .. Count - n |-> Pending[n + i]]
  <2>1. \A i \in 1 .. Count - n : Pending[n + i] = kbd_buf[Slot(n + i)]
    BY <1>1 DEF Pending
  <2>2. QED
    BY <1>4, <1>5, <2>1 DEF Pending
<1>7. SubSeq(Pending, n + 1, Count) = [i \in 1 .. Count - n |-> Pending[n + i]]
  BY <1>1
<1>8. QED
  BY <1>1, <1>3, <1>6, <1>7
-----------------------------------------------------------------------------

\* The initial ring is empty and well typed.
LEMMA InitFacts == Init => TypeOK /\ Pending = << >>
<1> SUFFICES ASSUME Init PROVE TypeOK /\ Pending = << >>
  OBVIOUS
<1>1. TypeOK
  <2>1. 0 \in Char /\ 0 \in 0 .. KBD_BUF_SIZE - 1
    BY KbdAssumption DEF Char
  <2>2. << >> \in Seq(Char)
    OBVIOUS
  <2>3. kbd_buf \in [0 .. KBD_BUF_SIZE - 1 -> Char]
    BY <2>1 DEF Init
  <2>4. QED
    BY <2>1, <2>2, <2>3 DEF Init, TypeOK
<1>2. Count = 0
  BY <1>1, Indices DEF Init
<1>3. QED
  BY <1>1, <1>2 DEF Pending

\* A kbd_push from an interrupt keeps the types and is a Put, or nothing.
LEMMA PushStep ==
    ASSUME TypeOK, NEW c \in Char, kbd_push(c), extended' \in BOOLEAN,
           UNCHANGED <<kbd_tail, delivered>>
    PROVE  TypeOK' /\ (Fifo!Put \/ UNCHANGED <<Pending, accepted>>)
<1>1. CASE kbd_full /\ UNCHANGED <<kbd_buf, kbd_head, accepted>>
  BY <1>1 DEF TypeOK, Pending, Count, Slot
<1>2. CASE /\ ~ kbd_full
           /\ kbd_buf' = [kbd_buf EXCEPT ![kbd_head] = c]
           /\ kbd_head' = Succ(kbd_head)
           /\ accepted' = Append(accepted, c)
  <2>1. /\ kbd_head' \in 0 .. N - 1
        /\ kbd_buf' \in [0 .. N - 1 -> Char]
        /\ Len(Pending) < N - 1
        /\ Pending' = Append(Pending, c)
    BY <1>2, PushAppends
  <2>2. accepted' \in Seq(Char)
    BY <1>2 DEF TypeOK
  <2>3. TypeOK'
    BY <2>1, <2>2 DEF TypeOK, N
  <2>4. accepted' # accepted
    BY <1>2 DEF TypeOK
  <2>5. Fifo!Put
    BY <1>2, <2>1, <2>4 DEF Fifo!Put, N
  <2>6. QED
    BY <2>3, <2>5
<1>3. QED
  BY <1>1, <1>2 DEF kbd_push

\* An interrupt that touches neither the ring nor the reader.
LEMMA QuietStep ==
    ASSUME TypeOK, extended' \in BOOLEAN,
           UNCHANGED <<kbd_buf, kbd_head, kbd_tail, accepted, delivered>>
    PROVE  TypeOK' /\ UNCHANGED <<Pending, accepted>>
BY DEF TypeOK, Pending, Count, Slot

\* A SYS_READ keeps the types and is a Take, or nothing when the ring is empty.
LEMMA ReadStep ==
    ASSUME TypeOK, NEW len, Sys_read(len)
    PROVE  TypeOK' /\ (Fifo!Take \/ UNCHANGED <<Pending, accepted>>)
<1>1. PICK n \in 0 .. Count :
         /\ kbd_tail' = (kbd_tail + n) % KBD_BUF_SIZE
         /\ delivered' = delivered \o SubSeq(Pending, 1, Stored(n))
         /\ UNCHANGED <<kbd_buf, kbd_head, extended, accepted>>
  BY DEF Sys_read
<1>2. /\ kbd_tail' \in 0 .. N - 1
      /\ Len(Pending) = Count /\ Pending \in Seq(Char) /\ Count \in Nat
      /\ Pending' = SubSeq(Pending, n + 1, Len(Pending))
  BY <1>1, ReadTakesOldest, Indices
<1>3. delivered' \in Seq(Char)
  <2>1. Stored(n) \in 0 .. Len(Pending)
    BY <1>2 DEF Stored
  <2>2. SubSeq(Pending, 1, Stored(n)) \in Seq(Char)
    BY <1>2, <2>1
  <2>3. QED
    BY <1>1, <2>2 DEF TypeOK
<1>4. TypeOK'
  BY <1>1, <1>2, <1>3 DEF TypeOK, N
<1>5. CASE n = 0
  <2>1. SubSeq(Pending, 1, Len(Pending)) = Pending
    BY <1>2, SubSeqFull
  <2>2. QED
    BY <1>1, <1>2, <1>4, <1>5, <2>1
<1>6. CASE n # 0
  <2>1. n \in 1 .. Len(Pending)
    BY <1>2, <1>6
  <2>2. QED
    BY <1>1, <1>2, <1>4, <2>1 DEF Fifo!Take
<1>7. QED
  BY <1>5, <1>6

\* A handler runs, whatever byte the controller has for it, or something else does.
KeyStep ==
    \/ IrqPrefix \/ IrqBreak
    \/ \E sc \in Byte : IrqExtended(sc) \/ IrqPlain(sc)
    \/ \E len : Sys_read(len)
    \/ UNCHANGED vars

LEMMA NextIsKeyStep == [Next]_vars => KeyStep
BY KbdAssumption DEF Next, keyboard_irq, KeyStep

\* Every step keeps the types and is a step of the queue, or leaves it alone.
LEMMA NextStep == TypeOK /\ KeyStep => TypeOK' /\ [Fifo!Next]_<<Pending, accepted>>
<1> SUFFICES ASSUME TypeOK, KeyStep
             PROVE  TypeOK' /\ (Fifo!Next \/ UNCHANGED <<Pending, accepted>>)
  OBVIOUS
<1>1. extended \in BOOLEAN /\ TRUE \in BOOLEAN /\ FALSE \in BOOLEAN
  BY DEF TypeOK
<1>2. CASE IrqPrefix
  BY <1>1, <1>2, QuietStep DEF IrqPrefix
<1>3. CASE IrqBreak
  BY <1>1, <1>3, QuietStep DEF IrqBreak
<1>4. ASSUME NEW sc \in Byte, IrqExtended(sc)
      PROVE  TypeOK' /\ (Fifo!Put \/ UNCHANGED <<Pending, accepted>>)
  <2>1. CASE sc \in Arrow /\ kbd_push(arrow(sc))
    BY <1>1, <1>4, <2>1, PushStep, KeysAreChars DEF IrqExtended
  <2>2. CASE UNCHANGED <<kbd_buf, kbd_head, accepted>>
    BY <1>1, <1>4, <2>2, QuietStep DEF IrqExtended
  <2>3. QED
    BY <1>4, <2>1, <2>2 DEF IrqExtended
<1>5. ASSUME NEW sc \in Byte, IrqPlain(sc)
      PROVE  TypeOK' /\ (Fifo!Put \/ UNCHANGED <<Pending, accepted>>)
  <2>1. sc \in MakeCode
    BY <1>5 DEF IrqPlain, MakeCode, Byte
  <2>2. CASE kbd_push(keymap[sc])
    BY <1>1, <1>5, <2>1, <2>2, PushStep, KeysAreChars DEF IrqPlain
  <2>3. CASE UNCHANGED <<kbd_buf, kbd_head, accepted>>
    BY <1>1, <1>5, <2>3, QuietStep DEF IrqPlain
  <2>4. QED
    BY <1>5, <2>2, <2>3 DEF IrqPlain
<1>6. ASSUME NEW len, Sys_read(len)
      PROVE  TypeOK' /\ (Fifo!Take \/ UNCHANGED <<Pending, accepted>>)
  BY <1>6, ReadStep
<1>7. CASE UNCHANGED vars
  BY <1>1, <1>7, QuietStep DEF vars
<1>8. QED
  BY <1>2, <1>3, <1>4, <1>5, <1>6, <1>7 DEF KeyStep, Fifo!Next

\* The ring indices stay inside kbd_buf and everything in it is a character.
THEOREM TypeCorrect == Spec => []TypeOK
<1>1. Init => TypeOK
  BY InitFacts
<1>2. TypeOK /\ [Next]_vars => TypeOK'
  BY NextStep, NextIsKeyStep
<1>3. QED
  BY <1>1, <1>2, PTL DEF Spec

\* For every ring size the ring of keyboard.c is a bounded first-in first-out
\* queue: no interleaving of interrupts and reads overwrites, duplicates or
\* reorders a character that was accepted.
THEOREM RingIsFifo == Spec => ImplementsFifo
<1>1. Init => Fifo!Init
  BY InitFacts DEF Fifo!Init, Init
<1>2. TypeOK /\ [Next]_vars => [Fifo!Next]_<<Pending, accepted>>
  BY NextStep, NextIsKeyStep
<1>3. QED
  BY <1>1, <1>2, TypeCorrect, PTL DEF Spec, ImplementsFifo, Fifo!Spec

-----------------------------------------------------------------------------
(***************************************************************************)
(* Induction, and functions defined by recursion.                          *)
(***************************************************************************)

\* A set of naturals that is not empty has a least element.
LEMMA LeastElement ==
    ASSUME NEW T, T \subseteq Nat, T # {}
    PROVE  \E m \in T : \A k \in T : m <= k
<1>1. IsWellFoundedOn(OpToRel(<, Nat), Nat)
  BY NatLessThanWellFounded, Zenon
<1>2. PICK m \in T : \A k \in T : ~ (<<k, m>> \in OpToRel(<, Nat))
  BY <1>1, WFMin, Zenon
<1>3. ASSUME NEW k \in T PROVE m <= k
  <2>1. ~ (<<k, m>> \in {ss \in Nat \X Nat : ss[1] < ss[2]})
    BY <1>2 DEF OpToRel
  <2>2. QED
    BY <2>1
<1>4. QED
  BY <1>3

\* A set that has 0, and with every number the next, has all up to n.
LEMMA SetInduction ==
    ASSUME NEW n \in Nat, NEW T, 0 \in T, \A k \in 0 .. n - 1 : k \in T => k + 1 \in T
    PROVE  \A k \in 0 .. n : k \in T
<1> DEFINE Out == {k \in 0 .. n : k \notin T}
<1> SUFFICES ASSUME Out # {} PROVE FALSE
  OBVIOUS
<1>1. PICK m \in Out : \A k \in Out : m <= k
  <2>1. Out \subseteq Nat
    OBVIOUS
  <2> HIDE DEF Out
  <2>2. QED
    BY <2>1, LeastElement
<1>2. m \in 0 .. n /\ m \notin T /\ m # 0
  OBVIOUS
<1>3. PICK k \in 0 .. n - 1 : k + 1 = m
  <2>1. m - 1 \in 0 .. n - 1 /\ (m - 1) + 1 = m
    BY <1>2
  <2>2. QED
    BY <2>1
<1>4. k \notin T
  BY <1>2, <1>3
<1>5. QED
  BY <1>1, <1>3, <1>4

\* The function g on 0 .. n starts with first and goes on by step.
Iterates(g, S, first, n, step) ==
    /\ g \in [0 .. n -> S]
    /\ g[0] = first
    /\ \A i \in 1 .. n : g[i] = step[<<i, g[i - 1]>>]

\* There is a function for every recursion over 0 .. n.
LEMMA Iteration ==
    ASSUME NEW S, NEW first \in S, NEW n \in Nat, NEW step \in [(1 .. n) \X S -> S]
    PROVE  \E g : Iterates(g, S, first, n, step)
<1> DEFINE Good(k, g) == g[0] = first /\ \A i \in 1 .. k : g[i] = step[<<i, g[i - 1]>>]
           T == {k \in 0 .. n : \E g \in [0 .. k -> S] : Good(k, g)}
<1>1. 0 \in T
  <2>1. PICK g : g = [i \in 0 .. 0 |-> first]
    OBVIOUS
  <2>2. g \in [0 .. 0 -> S] /\ g[0] = first
    BY <2>1
  <2>3. Good(0, g)
    BY <2>2
  <2>4. 0 \in 0 .. n
    OBVIOUS
  <2> HIDE DEF Good
  <2>5. QED
    BY <2>2, <2>3, <2>4
<1>2. ASSUME NEW k \in 0 .. n - 1, k \in T PROVE k + 1 \in T
  <2>1. PICK g \in [0 .. k -> S] : Good(k, g)
    BY <1>2
  <2>2. PICK e \in S : e = step[<<k + 1, g[k]>>]
    <3>1. k + 1 \in 1 .. n /\ g[k] \in S
      OBVIOUS
    <3>2. QED
      BY <3>1
  <2>3. PICK h : h = [i \in 0 .. k + 1 |-> IF i <= k THEN g[i] ELSE e]
    OBVIOUS
  <2>4. h \in [0 .. k + 1 -> S]
    BY <2>3
  <2>5. /\ \A i \in 0 .. k : h[i] = g[i]
        /\ h[k + 1] = e
    BY <2>3
  <2>6. h[0] = first
    BY <2>1, <2>5
  <2>7. ASSUME NEW i \in 1 .. k + 1 PROVE h[i] = step[<<i, h[i - 1]>>]
    <3>1. i - 1 \in 0 .. k /\ h[i - 1] = g[i - 1]
      BY <2>5
    <3>2. CASE i \in 1 .. k
      <4>1. h[i] = g[i] /\ g[i] = step[<<i, g[i - 1]>>]
        BY <2>1, <2>5, <3>2
      <4>2. QED
        BY <3>1, <4>1
    <3>3. CASE i = k + 1
      <4>1. i - 1 = k /\ h[i] = e
        BY <2>5, <3>3
      <4>2. QED
        BY <2>2, <3>1, <3>3, <4>1
    <3>4. QED
      BY <3>2, <3>3
  <2>8. Good(k + 1, h)
    BY <2>6, <2>7
  <2>9. k + 1 \in 0 .. n
    OBVIOUS
  <2> HIDE DEF Good
  <2>10. QED
    BY <2>4, <2>8, <2>9
<1>3. \A k \in 0 .. n : k \in T
  <2> HIDE DEF T
  <2>1. QED
    BY <1>1, <1>2, SetInduction
<1>4. QED
  BY <1>3 DEF Iterates

-----------------------------------------------------------------------------
(***************************************************************************)
(* The characters that SYS_READ delivers.                                  *)
(***************************************************************************)

\* The recursion of Plain.
Upto(s) ==
    CHOOSE g : g = [i \in 0 .. Len(s) |->
                       IF i = 0 THEN << >>
                       ELSE IF Negative(s[i]) THEN g[i - 1] ELSE Append(g[i - 1], s[i])]

LEMMA PlainUpto == \A s : Plain(s) = Upto(s)[Len(s)]
BY DEF Plain, Upto

\* What the recursion computes, step by step.
LEMMA UptoSteps ==
    ASSUME NEW s \in Seq(Char)
    PROVE  /\ Upto(s)[0] = << >>
           /\ \A i \in 1 .. Len(s) :
                 Upto(s)[i] = IF Negative(s[i]) THEN Upto(s)[i - 1]
                              ELSE Append(Upto(s)[i - 1], s[i])
           /\ \A i \in 0 .. Len(s) : Upto(s)[i] \in Seq(Char)
<1> DEFINE n == Len(s)
           step == [p \in (1 .. n) \X Seq(Char) |->
                       IF Negative(s[p[1]]) THEN p[2] ELSE Append(p[2], s[p[1]])]
           Body(g) == [i \in 0 .. n |->
                       IF i = 0 THEN << >>
                       ELSE IF Negative(s[i]) THEN g[i - 1] ELSE Append(g[i - 1], s[i])]
<1>1. n \in Nat /\ << >> \in Seq(Char)
  OBVIOUS
<1>2. step \in [(1 .. n) \X Seq(Char) -> Seq(Char)]
  <2>1. ASSUME NEW p \in (1 .. n) \X Seq(Char)
        PROVE  (IF Negative(s[p[1]]) THEN p[2] ELSE Append(p[2], s[p[1]])) \in Seq(Char)
    <3>1. p[1] \in 1 .. n /\ p[2] \in Seq(Char) /\ s[p[1]] \in Char
      OBVIOUS
    <3>2. QED
      BY <3>1
  <2>2. QED
    BY <2>1
<1>3. PICK g \in [0 .. n -> Seq(Char)] :
         g[0] = << >> /\ \A i \in 1 .. n : g[i] = step[<<i, g[i - 1]>>]
  <2> HIDE DEF step, n
  <2>1. \E g : Iterates(g, Seq(Char), << >>, n, step)
    BY <1>1, <1>2, Iteration
  <2>2. QED
    BY <2>1 DEF Iterates
<1>4. g = Body(g)
  <2>1. ASSUME NEW i \in 0 .. n PROVE g[i] = Body(g)[i]
    <3>1. CASE i = 0
      BY <1>3, <3>1
    <3>2. CASE i # 0
      <4>1. i \in 1 .. n /\ i - 1 \in 0 .. n /\ g[i - 1] \in Seq(Char)
        BY SMTT(30), <1>1, <3>2
      <4>2. step[<<i, g[i - 1]>>] =
               IF Negative(s[i]) THEN g[i - 1] ELSE Append(g[i - 1], s[i])
        BY <4>1
      <4>3. QED
        BY <1>3, <3>2, <4>1, <4>2
    <3>3. QED
      BY <3>1, <3>2
  <2>2. QED
    BY <2>1
<1>5. Upto(s) = Body(Upto(s))
  BY <1>4 DEF Upto
<1>6. PICK u : u = Upto(s)
  OBVIOUS
<1>7. u[0] = << >>
  BY <1>1, <1>5, <1>6
<1>8. ASSUME NEW i \in 1 .. n
      PROVE  u[i] = IF Negative(s[i]) THEN u[i - 1] ELSE Append(u[i - 1], s[i])
  <2>1. i \in 0 .. n /\ i # 0
    BY <1>1
  <2>2. u = Body(u)
    BY <1>5, <1>6
  <2>3. Body(u)[i] = IF Negative(s[i]) THEN u[i - 1] ELSE Append(u[i - 1], s[i])
    BY <2>1
  <2> HIDE DEF Body
  <2>4. QED
    BY <2>2, <2>3
<1>9. \A i \in 0 .. n : u[i] \in Seq(Char)
  <2> DEFINE T == {i \in 0 .. n : u[i] \in Seq(Char)}
  <2>1. 0 \in T
    <3>1. 0 \in 0 .. n
      BY <1>1
    <3> HIDE DEF n
    <3>2. QED
      BY <1>1, <1>7, <3>1
  <2>2. ASSUME NEW k \in 0 .. n - 1, k \in T PROVE k + 1 \in T
    <3>1. k + 1 \in 1 .. n /\ (k + 1) - 1 = k /\ s[k + 1] \in Char
      BY <1>1
    <3>2. u[k + 1] = IF Negative(s[k + 1]) THEN u[k] ELSE Append(u[k], s[k + 1])
      BY <1>8, <3>1
    <3>3. u[k + 1] \in Seq(Char)
      BY <2>2, <3>1, <3>2
    <3>4. QED
      BY <1>1, <3>1, <3>3
  <2>3. \A k \in 0 .. n : k \in T
    <3> HIDE DEF T
    <3>1. QED
      BY <1>1, <2>1, <2>2, SetInduction
  <2>4. QED
    BY <2>3
<1>10. QED
  BY <1>6, <1>7, <1>8, <1>9

\* Taking one more element from the front.
LEMMA OneMoreTaken ==
    ASSUME NEW S, NEW s \in Seq(S), NEW i \in 1 .. Len(s)
    PROVE  Append(SubSeq(s, 1, i - 1), s[i]) = SubSeq(s, 1, i)
<1>1. PICK a, b : a = Append(SubSeq(s, 1, i - 1), s[i]) /\ b = SubSeq(s, 1, i)
  OBVIOUS
<1>2. /\ SubSeq(s, 1, i - 1) \in Seq(S) /\ Len(SubSeq(s, 1, i - 1)) = i - 1
      /\ \A j \in 1 .. i - 1 : SubSeq(s, 1, i - 1)[j] = s[j]
  OBVIOUS
<1>3. a \in Seq(S) /\ Len(a) = i /\ \A j \in 1 .. i : a[j] = s[j]
  BY <1>1, <1>2
<1>4. b \in Seq(S) /\ Len(b) = i /\ \A j \in 1 .. i : b[j] = s[j]
  BY <1>1
<1>5. a = b
  BY <1>3, <1>4, SeqEqual
<1>6. QED
  BY <1>1, <1>5

\* Names for the two operations, which the provers take apart otherwise.
Cat(a, b) == a \o b
Snoc(a, e) == Append(a, e)

\* Appending to the second of two sequences.
LEMMA AppendInside ==
    ASSUME NEW S, NEW a \in Seq(S), NEW b \in Seq(S), NEW e \in S
    PROVE  Snoc(Cat(a, b), e) = Cat(a, Snoc(b, e))
<1>1. PICK x : x = a \o b
  OBVIOUS
<1>2. /\ x \in Seq(S) /\ Len(x) = Len(a) + Len(b)
      /\ Len(a) \in Nat /\ Len(b) \in Nat
      /\ \A i \in 1 .. Len(a) + Len(b) : x[i] = IF i <= Len(a) THEN a[i] ELSE b[i - Len(a)]
  BY <1>1, ConcatProperties
<1>3. PICK y : y = Append(b, e)
  OBVIOUS
<1>4. y \in Seq(S) /\ Len(y) = Len(b) + 1 /\ y[Len(b) + 1] = e
      /\ \A i \in 1 .. Len(b) : y[i] = b[i]
  BY <1>3
<1>5. PICK z : z = a \o y
  OBVIOUS
<1>6. /\ z \in Seq(S) /\ Len(z) = Len(a) + Len(y)
      /\ \A i \in 1 .. Len(a) + Len(y) : z[i] = IF i <= Len(a) THEN a[i] ELSE y[i - Len(a)]
  <2>1. /\ a \o y \in Seq(S) /\ Len(a \o y) = Len(a) + Len(y)
        /\ \A i \in 1 .. Len(a) + Len(y) :
              (a \o y)[i] = IF i <= Len(a) THEN a[i] ELSE y[i - Len(a)]
    <3>1. y \in Seq(S)
      BY <1>4
    <3>2. QED
      BY <3>1, ConcatProperties
  <2>2. QED
    BY <1>5, <2>1, Zenon
<1>7. PICK u : u = Append(x, e)
  OBVIOUS
<1>8. u \in Seq(S) /\ Len(u) = Len(x) + 1 /\ u[Len(x) + 1] = e
      /\ \A i \in 1 .. Len(x) : u[i] = x[i]
  <2>1. x \in Seq(S)
    BY <1>2
  <2>2. /\ Append(x, e) \in Seq(S) /\ Len(Append(x, e)) = Len(x) + 1
        /\ Append(x, e)[Len(x) + 1] = e
        /\ \A i \in 1 .. Len(x) : Append(x, e)[i] = x[i]
    BY <2>1, AppendProperties
  <2>3. QED
    BY <1>7, <2>2, Zenon
<1>9. ASSUME NEW i \in 1 .. Len(u) PROVE u[i] = z[i]
  <2>1. CASE i <= Len(a)
    <3>1. i \in 1 .. Len(x) /\ i \in 1 .. Len(a) + Len(b) /\ i \in 1 .. Len(a) + Len(y)
      BY <1>2, <1>4, <1>8, <2>1
    <3>2. u[i] = x[i] /\ x[i] = a[i] /\ z[i] = a[i]
      BY <1>2, <1>6, <1>8, <2>1, <3>1
    <3>3. QED
      BY <3>2
  <2>2. CASE i > Len(a) /\ i <= Len(x)
    <3>1. i \in 1 .. Len(x) /\ i - Len(a) \in 1 .. Len(b) /\ i \in 1 .. Len(a) + Len(y)
      BY <1>2, <1>4, <1>8, <2>2
    <3>2. QED
      BY <1>2, <1>4, <1>6, <1>8, <2>2, <3>1
  <2>3. CASE i = Len(x) + 1
    <3>1. i - Len(a) = Len(b) + 1 /\ ~ (i <= Len(a)) /\ i \in 1 .. Len(a) + Len(y)
      BY <1>2, <1>4, <2>3
    <3>2. z[i] = y[i - Len(a)]
      BY <1>6, <3>1
    <3>3. QED
      BY <1>4, <1>8, <2>3, <3>1, <3>2
  <2>4. QED
    BY <1>2, <1>8, <2>1, <2>2, <2>3
<1>10. Len(u) = Len(z)
  BY <1>2, <1>4, <1>6, <1>8
<1>11. u = z
  BY <1>6, <1>8, <1>9, <1>10, SeqEqual
<1>12. QED
  BY <1>1, <1>3, <1>5, <1>7, <1>11 DEF Cat, Snoc

\* The recursion up to n looks only at the first n characters.
LEMMA SamePrefix ==
    ASSUME NEW s \in Seq(Char), NEW t \in Seq(Char), NEW n \in Nat,
           n <= Len(s), n <= Len(t), \A i \in 1 .. n : s[i] = t[i]
    PROVE  Upto(s)[n] = Upto(t)[n]
<1> DEFINE T == {k \in 0 .. n : Upto(s)[k] = Upto(t)[k]}
<1>1. 0 \in T
  <2>1. 0 \in 0 .. n /\ Upto(s)[0] = Upto(t)[0]
    BY UptoSteps
  <2>2. QED
    BY <2>1
<1>2. ASSUME NEW k \in 0 .. n - 1, k \in T PROVE k + 1 \in T
  <2>1. PICK i \in 1 .. n : i = k + 1 /\ i - 1 = k /\ i \in 1 .. Len(s) /\ i \in 1 .. Len(t)
    OBVIOUS
  <2>2. /\ Upto(s)[i] = IF Negative(s[i]) THEN Upto(s)[i - 1]
                        ELSE Append(Upto(s)[i - 1], s[i])
        /\ Upto(t)[i] = IF Negative(t[i]) THEN Upto(t)[i - 1]
                        ELSE Append(Upto(t)[i - 1], t[i])
    BY <2>1, UptoSteps
  <2>3. s[i] = t[i] /\ Upto(s)[i - 1] = Upto(t)[i - 1]
    BY <1>2, <2>1
  <2>4. Upto(s)[i] = Upto(t)[i] /\ i \in 0 .. n
    BY <2>2, <2>3
  <2>5. QED
    BY <2>1, <2>4
<1>3. \A k \in 0 .. n : k \in T
  <2> HIDE DEF T
  <2>1. QED
    BY <1>1, <1>2, SetInduction
<1>4. n \in 0 .. n
  OBVIOUS
<1>5. QED
  BY <1>3, <1>4

\* One more character.
LEMMA PlainAppend ==
    ASSUME NEW s \in Seq(Char), NEW c \in Char
    PROVE  /\ Plain(s) \in Seq(Char)
           /\ Plain(Append(s, c)) = IF Negative(c) THEN Plain(s) ELSE Append(Plain(s), c)
<1>1. PICK t \in Seq(Char) : t = Append(s, c)
  BY AppendProperties, Zenon
<1>2. /\ Len(t) = Len(s) + 1 /\ Len(s) \in Nat /\ t[Len(s) + 1] = c
      /\ \A i \in 1 .. Len(s) : t[i] = s[i]
  BY <1>1
<1>3. Upto(t)[Len(s)] = Upto(s)[Len(s)]
  BY <1>2, SamePrefix
<1>4. PICK i \in 1 .. Len(t) : i = Len(t) /\ i - 1 = Len(s) /\ t[i] = c
  BY <1>2
<1>5. Upto(t)[i] = IF Negative(c) THEN Upto(t)[i - 1] ELSE Append(Upto(t)[i - 1], c)
  BY <1>4, UptoSteps
<1>6. Plain(t) = Upto(t)[i] /\ Plain(s) = Upto(s)[Len(s)]
  BY <1>4, PlainUpto
<1>7. Plain(s) \in Seq(Char)
  BY <1>2, <1>6, UptoSteps
<1>8. QED
  BY <1>1, <1>3, <1>4, <1>5, <1>6, <1>7

\* Without cursor keys nothing is left out.
LEMMA PlainPrefix ==
    ASSUME NEW s \in Seq(Char), NEW n \in 0 .. Len(s), \A i \in 1 .. n : ~ Negative(s[i])
    PROVE  Upto(s)[n] = SubSeq(s, 1, n)
<1> DEFINE T == {k \in 0 .. n : Upto(s)[k] = SubSeq(s, 1, k)}
<1>1. 0 \in T
  <2>1. 0 \in 0 .. n /\ Upto(s)[0] = << >>
    BY UptoSteps
  <2>2. SubSeq(s, 1, 0) = << >>
    OBVIOUS
  <2>3. QED
    BY <2>1, <2>2
<1>2. ASSUME NEW k \in 0 .. n - 1, k \in T PROVE k + 1 \in T
  <2>1. PICK i \in 1 .. n : i = k + 1 /\ i - 1 = k /\ i \in 1 .. Len(s) /\ s[i] \in Char
    OBVIOUS
  <2>2. Upto(s)[i] = Append(Upto(s)[i - 1], s[i])
    BY <2>1, UptoSteps
  <2>3. Upto(s)[i - 1] = SubSeq(s, 1, k)
    BY <1>2, <2>1
  <2>4. Append(SubSeq(s, 1, k), s[i]) = SubSeq(s, 1, i)
    BY <2>1, OneMoreTaken
  <2>5. QED
    BY SMTT(30), <2>1, <2>2, <2>3, <2>4
<1>3. \A k \in 0 .. n : k \in T
  <2> HIDE DEF T
  <2>1. QED
    BY SMTT(30), <1>1, <1>2, SetInduction
<1>4. n \in 0 .. n
  OBVIOUS
<1>5. QED
  BY <1>3, <1>4

\* The first k characters, then the others.
LEMMA PlainSplit ==
    ASSUME NEW s \in Seq(Char), NEW k \in 0 .. Len(s), NEW t, t = SubSeq(s, k + 1, Len(s))
    PROVE  Plain(s) = Upto(s)[k] \o Plain(t) /\ Plain(t) \in Seq(Char)
<1>1. /\ t \in Seq(Char) /\ Len(t) = Len(s) - k /\ Len(s) \in Nat /\ Len(t) \in Nat
      /\ \A i \in 1 .. Len(t) : t[i] = s[k + i]
  OBVIOUS
<1>2. Upto(s)[k] \in Seq(Char) /\ \A i \in 0 .. Len(t) : Upto(t)[i] \in Seq(Char)
  BY <1>1, UptoSteps
<1> DEFINE T == {i \in 0 .. Len(t) : Upto(s)[k + i] = Upto(s)[k] \o Upto(t)[i]}
<1>3. 0 \in T
  <2>1. Upto(t)[0] = << >>
    BY <1>1, UptoSteps
  <2>2. k + 0 = k /\ 0 \in 0 .. Len(t)
    BY <1>1
  <2>3. Upto(s)[k] \o << >> = Upto(s)[k]
    BY <1>2, ConcatEmptySeq
  <2>4. QED
    BY <2>1, <2>2, <2>3
<1>4. ASSUME NEW j \in 0 .. Len(t) - 1, j \in T PROVE j + 1 \in T
  <2>1. PICK i \in 1 .. Len(t) : i = j + 1 /\ i - 1 = j
    BY <1>1
  <2>2. PICK m \in 1 .. Len(s) : m = k + i /\ m - 1 = k + j /\ s[m] = t[i]
    BY <1>1, <2>1
  <2>3. /\ Upto(s)[m] = IF Negative(s[m]) THEN Upto(s)[m - 1]
                        ELSE Append(Upto(s)[m - 1], s[m])
        /\ Upto(t)[i] = IF Negative(t[i]) THEN Upto(t)[i - 1]
                        ELSE Append(Upto(t)[i - 1], t[i])
    BY <1>1, <2>1, <2>2, UptoSteps
  <2>4. Upto(s)[m - 1] = Upto(s)[k] \o Upto(t)[j]
    BY <1>4, <2>2
  <2>5. Append(Upto(s)[k] \o Upto(t)[j], t[i]) = Upto(s)[k] \o Append(Upto(t)[j], t[i])
    <3>1. Upto(t)[j] \in Seq(Char) /\ t[i] \in Char
      BY <1>1, <1>2, <2>1
    <3>2. PICK a, b, e : a = Upto(s)[k] /\ b = Upto(t)[j] /\ e = t[i]
      OBVIOUS
    <3>3. a \in Seq(Char) /\ b \in Seq(Char) /\ e \in Char
      BY <1>2, <3>1, <3>2
    <3>4. Append(a \o b, e) = a \o Append(b, e)
      <4>1. Snoc(Cat(a, b), e) = Cat(a, Snoc(b, e))
        BY <3>3, AppendInside
      <4>2. QED
        BY <4>1 DEF Cat, Snoc
    <3>5. QED
      BY <3>2, <3>4
  <2>6. Upto(s)[m] = Upto(s)[k] \o Upto(t)[i]
    BY <2>1, <2>2, <2>3, <2>4, <2>5
  <2>7. i \in 0 .. Len(t)
    BY <1>1
  <2>8. QED
    BY <2>1, <2>2, <2>6, <2>7
<1>5. \A i \in 0 .. Len(t) : i \in T
  <2> HIDE DEF T
  <2>1. QED
    BY <1>1, <1>3, <1>4, SetInduction
<1>6. Len(t) \in 0 .. Len(t) /\ k + Len(t) = Len(s)
  BY <1>1
<1>7. Upto(s)[Len(s)] = Upto(s)[k] \o Upto(t)[Len(t)]
  BY <1>5, <1>6
<1>8. QED
  BY <1>2, <1>6, <1>7, PlainUpto

\* What a read stores and leaves is what was pending, without the cursor keys.
LEMMA ReadSplits ==
    ASSUME NEW s \in Seq(Char), NEW n \in 0 .. Len(s),
           \A i \in 1 .. n - 1 : ~ Negative(s[i]),
           NEW m, m = IF n > 0 /\ Negative(s[n]) THEN n - 1 ELSE n
    PROVE  /\ Plain(s) = SubSeq(s, 1, m) \o Plain(SubSeq(s, n + 1, Len(s)))
           /\ SubSeq(s, 1, m) \in Seq(Char)
           /\ Plain(SubSeq(s, n + 1, Len(s))) \in Seq(Char)
<1>1. m \in 0 .. Len(s) /\ m \in 0 .. n
  OBVIOUS
<1>2. Upto(s)[n] = SubSeq(s, 1, m)
  <2>1. CASE n > 0 /\ Negative(s[n])
    <3>1. n \in 1 .. Len(s) /\ m = n - 1
      BY <2>1
    <3>2. Upto(s)[n] = Upto(s)[n - 1]
      BY <2>1, <3>1, UptoSteps
    <3>3. Upto(s)[m] = SubSeq(s, 1, m)
      BY <1>1, <3>1, PlainPrefix
    <3>4. QED
      BY <3>1, <3>2, <3>3
  <2>2. CASE ~ (n > 0 /\ Negative(s[n]))
    <3>1. m = n /\ \A i \in 1 .. n : ~ Negative(s[i])
      BY <2>2
    <3>2. QED
      BY <3>1, PlainPrefix
  <2>3. QED
    BY <2>1, <2>2
<1>3. SubSeq(s, 1, m) \in Seq(Char)
  BY <1>1
<1>4. PICK t : t = SubSeq(s, n + 1, Len(s))
  OBVIOUS
<1>5. Plain(s) = Upto(s)[n] \o Plain(t) /\ Plain(t) \in Seq(Char)
  BY <1>4, PlainSplit
<1>6. QED
  BY <1>2, <1>3, <1>4, <1>5

\* A kbd_push loses no key: what it refuses is not accepted either.
LEMMA PushLosesNone ==
    ASSUME TypeOK, NoTypedKeyLost, NEW c \in Char, kbd_push(c),
           UNCHANGED <<kbd_tail, delivered>>
    PROVE  NoTypedKeyLost'
<1>1. CASE UNCHANGED <<kbd_buf, kbd_head, accepted>>
  <2>1. UNCHANGED <<Pending, accepted, delivered>>
    BY <1>1 DEF Pending, Count, Slot
  <2>2. QED
    BY <2>1 DEF NoTypedKeyLost
<1>2. CASE /\ ~ kbd_full
           /\ kbd_buf' = [kbd_buf EXCEPT ![kbd_head] = c]
           /\ kbd_head' = Succ(kbd_head)
           /\ accepted' = Append(accepted, c)
  <2>1. Pending' = Append(Pending, c)
    BY <1>2, PushAppends
  <2>2. Pending \in Seq(Char) /\ accepted \in Seq(Char) /\ delivered \in Seq(Char)
    BY Indices DEF TypeOK
  <2>3. /\ Plain(accepted)' = IF Negative(c) THEN Plain(accepted)
                              ELSE Append(Plain(accepted), c)
        /\ Plain(Pending)' = IF Negative(c) THEN Plain(Pending)
                             ELSE Append(Plain(Pending), c)
        /\ Plain(Pending) \in Seq(Char)
    <3>1. /\ Plain(accepted') = Plain(Append(accepted, c))
          /\ Plain(Pending') = Plain(Append(Pending, c))
      BY <1>2, <2>1
    <3>2. Plain(accepted)' = Plain(accepted') /\ Plain(Pending)' = Plain(Pending')
      BY DEF Plain, Negative
    <3>3. QED
      BY <2>2, <3>1, <3>2, PlainAppend
  <2>4. Plain(accepted) = delivered \o Plain(Pending) /\ delivered' = delivered
    BY DEF NoTypedKeyLost
  <2>5. CASE Negative(c)
    BY <2>3, <2>4, <2>5 DEF NoTypedKeyLost
  <2>6. CASE ~ Negative(c)
    <3>1. Snoc(Cat(delivered, Plain(Pending)), c) = Cat(delivered, Snoc(Plain(Pending), c))
      BY <2>2, <2>3, AppendInside
    <3>2. Snoc(Plain(accepted), c) = Cat(delivered, Snoc(Plain(Pending), c))
      BY <2>4, <3>1 DEF Cat
    <3>3. QED
      BY <2>3, <2>4, <2>6, <3>2 DEF NoTypedKeyLost, Cat, Snoc
  <2>7. QED
    BY <2>5, <2>6
<1>3. QED
  BY <1>1, <1>2 DEF kbd_push

\* SYS_READ loses no key: what it takes and does not store is a cursor key.
LEMMA ReadLosesNone ==
    ASSUME TypeOK, NoTypedKeyLost, NEW len, Sys_read(len)
    PROVE  NoTypedKeyLost'
<1>1. PICK n \in 0 .. Count :
         /\ StopsAfter(len, n)
         /\ kbd_tail' = (kbd_tail + n) % KBD_BUF_SIZE
         /\ delivered' = delivered \o SubSeq(Pending, 1, Stored(n))
         /\ UNCHANGED <<kbd_buf, kbd_head, extended, accepted>>
  BY DEF Sys_read
<1>2. /\ Len(Pending) = Count /\ Pending \in Seq(Char) /\ delivered \in Seq(Char)
      /\ Pending' = SubSeq(Pending, n + 1, Len(Pending))
  BY <1>1, ReadTakesOldest, Indices DEF TypeOK
<1>3. PICK a, b : a = SubSeq(Pending, 1, Stored(n)) /\ b = Plain(Pending')
  OBVIOUS
<1>4. Plain(Pending) = a \o b /\ a \in Seq(Char) /\ b \in Seq(Char)
  <2>1. /\ n \in 0 .. Len(Pending)
        /\ \A i \in 1 .. n - 1 : ~ Negative(Pending[i])
        /\ Stored(n) = IF n > 0 /\ Negative(Pending[n]) THEN n - 1 ELSE n
    BY <1>1, <1>2 DEF StopsAfter, Stored
  <2>2. /\ Plain(Pending) = SubSeq(Pending, 1, Stored(n)) \o
                               Plain(SubSeq(Pending, n + 1, Len(Pending)))
        /\ SubSeq(Pending, 1, Stored(n)) \in Seq(Char)
        /\ Plain(SubSeq(Pending, n + 1, Len(Pending))) \in Seq(Char)
    BY <1>2, <2>1, ReadSplits
  <2>3. QED
    BY <1>2, <1>3, <2>2
<1>5. (delivered \o a) \o b = delivered \o (a \o b)
  <2>1. delivered \in Seq(Char) /\ a \in Seq(Char) /\ b \in Seq(Char)
    BY <1>2, <1>4
  <2>2. QED
    BY <2>1, ConcatAssociative
<1>6. Plain(accepted)' = Plain(accepted) /\ Plain(Pending)' = b
  <2>1. Plain(accepted)' = Plain(accepted') /\ Plain(Pending)' = Plain(Pending')
    BY DEF Plain, Negative
  <2>2. QED
    BY <1>1, <1>3, <2>1
<1>7. delivered' = delivered \o a /\ Plain(accepted) = delivered \o (a \o b)
  BY <1>1, <1>3, <1>4 DEF NoTypedKeyLost
<1>8. Plain(accepted)' = delivered' \o b
  BY <1>5, <1>6, <1>7
<1>9. QED
  BY <1>6, <1>8 DEF NoTypedKeyLost

LEMMA KeyStepLosesNone == TypeOK /\ NoTypedKeyLost /\ KeyStep => NoTypedKeyLost'
<1> SUFFICES ASSUME TypeOK, NoTypedKeyLost, KeyStep PROVE NoTypedKeyLost'
  OBVIOUS
<1>1. ASSUME UNCHANGED <<kbd_buf, kbd_head, kbd_tail, accepted, delivered>>
      PROVE  NoTypedKeyLost'
  <2>1. UNCHANGED <<Pending, accepted, delivered>>
    BY <1>1 DEF Pending, Count, Slot
  <2>2. QED
    BY <2>1 DEF NoTypedKeyLost
<1>2. CASE IrqPrefix \/ IrqBreak \/ UNCHANGED vars
  BY <1>1, <1>2 DEF IrqPrefix, IrqBreak, vars
<1>3. ASSUME NEW sc \in Byte, IrqExtended(sc) PROVE NoTypedKeyLost'
  <2>1. CASE sc \in Arrow /\ kbd_push(arrow(sc))
    BY <1>3, <2>1, PushLosesNone, KeysAreChars DEF IrqExtended
  <2>2. CASE UNCHANGED <<kbd_buf, kbd_head, accepted>>
    BY <1>1, <1>3, <2>2 DEF IrqExtended
  <2>3. QED
    BY <1>3, <2>1, <2>2 DEF IrqExtended
<1>4. ASSUME NEW sc \in Byte, IrqPlain(sc) PROVE NoTypedKeyLost'
  <2>1. sc \in MakeCode
    BY <1>4 DEF IrqPlain, MakeCode, Byte
  <2>2. CASE kbd_push(keymap[sc])
    BY <1>4, <2>1, <2>2, PushLosesNone, KeysAreChars DEF IrqPlain
  <2>3. CASE UNCHANGED <<kbd_buf, kbd_head, accepted>>
    BY <1>1, <1>4, <2>3 DEF IrqPlain
  <2>4. QED
    BY <1>4, <2>2, <2>3 DEF IrqPlain
<1>5. ASSUME NEW len, Sys_read(len) PROVE NoTypedKeyLost'
  BY <1>5, ReadLosesNone
<1>6. QED
  BY <1>2, <1>3, <1>4, <1>5 DEF KeyStep

LEMMA InitLosesNone == Init => NoTypedKeyLost
<1> SUFFICES ASSUME Init PROVE NoTypedKeyLost
  OBVIOUS
<1>1. Pending = << >> /\ accepted = << >> /\ delivered = << >>
  BY InitFacts DEF Init
<1>2. Plain(<< >>) = << >>
  <2>1. << >> \in Seq(Char) /\ Len(<< >>) = 0
    OBVIOUS
  <2>2. QED
    BY <2>1, PlainUpto, UptoSteps
<1>3. QED
  BY <1>1, <1>2 DEF NoTypedKeyLost

\* Between the interrupt and the caller of SYS_READ no key is lost, for every ring
\* size and any order of interrupts and reads: the keys delivered and those waiting
\* are the accepted ones, in order, without the cursor keys.
THEOREM NoKeyIsLost == Spec => []NoTypedKeyLost
<1>1. TypeOK /\ NoTypedKeyLost /\ [Next]_vars => NoTypedKeyLost'
  BY KeyStepLosesNone, NextIsKeyStep
<1>2. QED
  BY <1>1, InitLosesNone, TypeCorrect, PTL DEF Spec

-----------------------------------------------------------------------------
(***************************************************************************)
(* Sequences as streams.                                                   *)
(***************************************************************************)

One(e) == <<e>>

\* How sequences are put together.
LEMMA CatLaws ==
    ASSUME NEW S, NEW a \in Seq(S), NEW b \in Seq(S), NEW c \in Seq(S), NEW e \in S
    PROVE  /\ Cat(a, b) \in Seq(S) /\ One(e) \in Seq(S) /\ Snoc(a, e) \in Seq(S)
           /\ Cat(Cat(a, b), c) = Cat(a, Cat(b, c))
           /\ Cat(a, << >>) = a /\ Cat(<< >>, a) = a
           /\ Snoc(a, e) = Cat(a, One(e))
           /\ Len(Cat(a, b)) = Len(a) + Len(b) /\ Len(Snoc(a, e)) = Len(a) + 1
<1>1. Cat(a, b) \in Seq(S) /\ Len(Cat(a, b)) = Len(a) + Len(b)
  BY ConcatProperties DEF Cat
<1>2. One(e) \in Seq(S)
  BY DEF One
<1>3. Snoc(a, e) \in Seq(S) /\ Len(Snoc(a, e)) = Len(a) + 1
  BY AppendProperties DEF Snoc
<1>4. Cat(Cat(a, b), c) = Cat(a, Cat(b, c))
  <2>1. (a \o b) \o c = a \o (b \o c)
    BY ConcatAssociative
  <2>2. QED
    BY <2>1 DEF Cat
<1>5. Cat(a, << >>) = a /\ Cat(<< >>, a) = a
  BY ConcatEmptySeq DEF Cat
<1>6. Snoc(a, e) = Cat(a, One(e))
  <2>1. PICK nil \in Seq(S) : nil = << >>
    <3>1. << >> \in Seq(S)
      OBVIOUS
    <3>2. QED
      BY <3>1, Zenon
  <2>2. Snoc(Cat(a, nil), e) = Cat(a, Snoc(nil, e))
    BY AppendInside
  <2>3. Snoc(nil, e) = One(e)
    BY <2>1 DEF Snoc, One
  <2>4. QED
    BY <1>5, <2>1, <2>2, <2>3
<1>7. QED
  BY <1>1, <1>2, <1>3, <1>4, <1>5, <1>6

\* Taking sequences apart.
LEMMA TailLaws ==
    ASSUME NEW S, NEW a \in Seq(S), NEW e \in S
    PROVE  /\ a # << >> => /\ a[1] \in S /\ Tail(a) \in Seq(S)
                           /\ Cat(One(a[1]), Tail(a)) = a
           /\ Cat(One(e), a) # << >> /\ Cat(One(e), a)[1] = e
           /\ Tail(Cat(One(e), a)) = a
<1>1. ASSUME a # << >>
      PROVE  a[1] \in S /\ Tail(a) \in Seq(S) /\ Cat(One(a[1]), Tail(a)) = a
  <2>1. /\ Tail(a) \in Seq(S) /\ Len(Tail(a)) = Len(a) - 1 /\ Len(a) \in Nat \ {0}
        /\ \A i \in 1 .. Len(a) - 1 : Tail(a)[i] = a[i + 1]
    BY <1>1
  <2>2. a[1] \in S
    BY <2>1
  <2>3. PICK t, w : t = Tail(a) /\ w = <<a[1]>>
    OBVIOUS
  <2>4. w \in Seq(S) /\ Len(w) = 1 /\ w[1] = a[1] /\ t \in Seq(S) /\ Len(t) = Len(a) - 1
    BY <2>1, <2>2, <2>3
  <2>5. PICK z : z = w \o t
    OBVIOUS
  <2>6. /\ z \in Seq(S) /\ Len(z) = Len(w) + Len(t)
        /\ \A i \in 1 .. Len(w) + Len(t) : z[i] = IF i <= Len(w) THEN w[i] ELSE t[i - Len(w)]
    <3>1. w \in Seq(S) /\ t \in Seq(S)
      BY <2>4
    <3>2. /\ w \o t \in Seq(S) /\ Len(w \o t) = Len(w) + Len(t)
          /\ \A i \in 1 .. Len(w) + Len(t) :
                (w \o t)[i] = IF i <= Len(w) THEN w[i] ELSE t[i - Len(w)]
      BY <3>1, ConcatProperties
    <3>3. QED
      BY <2>5, <3>2, Zenon
  <2>7. ASSUME NEW i \in 1 .. Len(a) PROVE z[i] = a[i]
    <3>1. CASE i = 1
      BY <2>1, <2>4, <2>6, <3>1
    <3>2. CASE i # 1
      <4>1. /\ i - 1 \in 1 .. Len(a) - 1 /\ (i - 1) + 1 = i /\ ~ (i <= Len(w))
            /\ i \in 1 .. Len(w) + Len(t) /\ i - Len(w) = i - 1
        BY <2>1, <2>4, <3>2
      <4>2. z[i] = t[i - 1] /\ t[i - 1] = a[i]
        BY <2>1, <2>3, <2>6, <4>1
      <4>3. QED
        BY <4>2
    <3>3. QED
      BY <3>1, <3>2
  <2>8. Len(z) = Len(a)
    BY <2>1, <2>4, <2>6
  <2>9. z = a
    BY <2>6, <2>7, <2>8, SeqEqual
  <2>10. QED
    BY <2>1, <2>2, <2>3, <2>5, <2>9 DEF Cat, One
<1>2. PICK w, z : w = <<e>> /\ z = Cat(One(e), a)
  OBVIOUS
<1>3. /\ z \in Seq(S) /\ Len(z) = 1 + Len(a) /\ Len(a) \in Nat /\ z[1] = e
      /\ \A i \in 1 .. Len(a) : z[i + 1] = a[i]
  <2>1. w \in Seq(S) /\ Len(w) = 1 /\ w[1] = e /\ Len(a) \in Nat
    BY <1>2
  <2>2. /\ w \o a \in Seq(S) /\ Len(w \o a) = Len(w) + Len(a)
        /\ \A i \in 1 .. Len(w) + Len(a) :
              (w \o a)[i] = IF i <= Len(w) THEN w[i] ELSE a[i - Len(w)]
    <3>1. w \in Seq(S)
      BY <2>1
    <3>2. QED
      BY <3>1, ConcatProperties
  <2>3. z = w \o a
    BY <1>2 DEF Cat, One
  <2>4. /\ z \in Seq(S) /\ Len(z) = Len(w) + Len(a)
        /\ \A i \in 1 .. Len(w) + Len(a) : z[i] = IF i <= Len(w) THEN w[i] ELSE a[i - Len(w)]
    BY <2>2, <2>3, Zenon
  <2>5. z[1] = e
    BY <2>1, <2>4
  <2>6. ASSUME NEW i \in 1 .. Len(a) PROVE z[i + 1] = a[i]
    <3>1. i + 1 \in 1 .. Len(w) + Len(a) /\ ~ (i + 1 <= Len(w)) /\ (i + 1) - Len(w) = i
      BY <2>1
    <3>2. QED
      BY <2>4, <3>1
  <2>7. QED
    BY <2>1, <2>4, <2>5, <2>6
<1>4. z # << >>
  BY <1>3
<1>5. Tail(z) = a
  <2>1. /\ Tail(z) \in Seq(S) /\ Len(Tail(z)) = Len(z) - 1
        /\ \A i \in 1 .. Len(z) - 1 : Tail(z)[i] = z[i + 1]
    BY <1>3, <1>4
  <2>2. Len(Tail(z)) = Len(a) /\ \A i \in 1 .. Len(a) : Tail(z)[i] = a[i]
    BY <1>3, <2>1
  <2>3. QED
    BY <2>1, <2>2, SeqEqual
<1>6. QED
  BY <1>1, <1>2, <1>3, <1>4, <1>5

\* What a handler has read, what waits for it and what is still to come.
Stream(heard, waiting, out) == Cat(Cat(heard, waiting), out)

\* The device sends, the controller takes a byte, the handler reads it.
LEMMA StreamLaws ==
    ASSUME NEW S, NEW h \in Seq(S), NEW w \in Seq(S), NEW o \in Seq(S), NEW e \in S,
           NEW p \in Seq(S)
    PROVE  /\ Stream(h, w, Snoc(o, e)) = Snoc(Stream(h, w, o), e)
           /\ Stream(h, w, Cat(o, p)) = Cat(Stream(h, w, o), p)
           /\ o # << >> => Stream(h, One(o[1]), Tail(o)) = Stream(h, << >>, o)
           /\ Stream(Snoc(h, e), << >>, o) = Stream(h, One(e), o)
<1>1. Cat(h, w) \in Seq(S) /\ << >> \in Seq(S) /\ Snoc(h, e) \in Seq(S)
  BY CatLaws
<1>2. Stream(h, w, Snoc(o, e)) = Snoc(Stream(h, w, o), e)
  BY <1>1, AppendInside DEF Stream
<1>3. Stream(h, w, Cat(o, p)) = Cat(Stream(h, w, o), p)
  BY <1>1, CatLaws DEF Stream
<1>4. ASSUME o # << >> PROVE Stream(h, One(o[1]), Tail(o)) = Stream(h, << >>, o)
  <2>1. o[1] \in S /\ Tail(o) \in Seq(S) /\ Cat(One(o[1]), Tail(o)) = o
    BY <1>4, TailLaws
  <2>2. One(o[1]) \in Seq(S)
    BY <2>1 DEF One
  <2>3. Cat(Cat(h, One(o[1])), Tail(o)) = Cat(h, Cat(One(o[1]), Tail(o)))
    <3>1. PICK x \in Seq(S), y \in Seq(S) : x = One(o[1]) /\ y = Tail(o)
      BY <2>1, <2>2, Zenon
    <3>2. Cat(Cat(h, x), y) = Cat(h, Cat(x, y))
      BY CatLaws
    <3>3. QED
      BY <3>1, <3>2, Zenon
  <2>4. Cat(h, << >>) = h
    BY CatLaws
  <2>5. QED
    BY <2>1, <2>3, <2>4 DEF Stream
<1>5. Stream(Snoc(h, e), << >>, o) = Stream(h, One(e), o)
  <2>1. Cat(Snoc(h, e), << >>) = Snoc(h, e) /\ Snoc(h, e) = Cat(h, One(e))
    BY <1>1, CatLaws
  <2>2. QED
    BY <2>1 DEF Stream
<1>6. QED
  BY <1>2, <1>3, <1>4, <1>5

\* The byte that waits is the next of the stream.
LEMMA StreamNext ==
    ASSUME NEW S, NEW h \in Seq(S), NEW o \in Seq(S), NEW e \in S
    PROVE  /\ Stream(h, One(e), o) \in Seq(S)
           /\ Len(h) + 1 \in 1 .. Len(Stream(h, One(e), o))
           /\ Stream(h, One(e), o)[Len(h) + 1] = e
<1>1. PICK x : x = Snoc(h, e)
  OBVIOUS
<1>2. x \in Seq(S) /\ Len(x) = Len(h) + 1 /\ x[Len(h) + 1] = e /\ Len(h) \in Nat
  BY <1>1, AppendProperties DEF Snoc
<1>3. PICK z : z = Cat(x, o)
  OBVIOUS
<1>4. /\ z \in Seq(S) /\ Len(z) = Len(x) + Len(o) /\ Len(o) \in Nat
      /\ \A i \in 1 .. Len(x) + Len(o) : z[i] = IF i <= Len(x) THEN x[i] ELSE o[i - Len(x)]
  <2>1. x \in Seq(S) /\ Len(o) \in Nat
    BY <1>2
  <2>2. /\ x \o o \in Seq(S) /\ Len(x \o o) = Len(x) + Len(o)
        /\ \A i \in 1 .. Len(x) + Len(o) :
              (x \o o)[i] = IF i <= Len(x) THEN x[i] ELSE o[i - Len(x)]
    BY <2>1, ConcatProperties
  <2>3. z = x \o o
    BY <1>3 DEF Cat
  <2>4. QED
    BY <2>1, <2>2, <2>3, Zenon
<1>5. Len(h) + 1 \in 1 .. Len(x) + Len(o) /\ Len(h) + 1 <= Len(x)
  BY <1>2, <1>4
<1>6. z[Len(h) + 1] = e
  BY <1>2, <1>4, <1>5
<1>7. Stream(h, One(e), o) = z
  <2>1. Snoc(h, e) = Cat(h, One(e))
    BY CatLaws
  <2>2. QED
    BY <1>1, <1>3, <2>1 DEF Stream
<1>8. QED
  BY <1>4, <1>5, <1>6, <1>7

-----------------------------------------------------------------------------
(***************************************************************************)
(* The controller that the keyboard shares with the mouse: types.          *)
(***************************************************************************)

Source == {"kbd", "aux", "answer"}

\* The types of the variables that Ps2 adds to Keyboard.
ControllerType ==
    /\ obuf = << >> \/ \E s \in Source, b \in Byte : obuf = <<s, b>>
    /\ last \in Byte /\ config \in Byte
    /\ answer = << >> \/ \E b \in Byte : answer = <<b>>
    /\ kbd_out \in Seq(Byte) /\ mouse_out \in Seq(Byte)
    /\ requests \subseteq {1, 12}
    /\ boot \in {"before", "config", "ack", "done"}
    /\ stray \in BOOLEAN

HistoryType ==
    /\ typed \in Seq(Byte) /\ kbd_heard \in Seq(Byte) /\ mouse_heard \in Seq(Byte)
    /\ reported \in Seq(Reports)

MouseType ==
    /\ mouse_cycle \in 0 .. 2
    /\ mouse_packet \in [1 .. 3 -> Int]
    /\ mouse_x \in 0 .. MaxX /\ mouse_y \in 0 .. MaxY /\ mouse_buttons \in 0 .. 7

LEMMA PortIsByte == ControllerType => Port \in Byte
BY DEF ControllerType, Port

\* The bytes of a report.
LEMMA PacketBytes ==
    ASSUME NEW r \in Reports
    PROVE  /\ Packet(r) \in Seq(Byte) /\ Len(Packet(r)) = 3
           /\ Bit(Packet(r)[1], 8) /\ Packet(r)[1] % 8 = r.buttons
           /\ ToChar(Packet(r)[2]) = r.dx /\ ToChar(Packet(r)[3]) = r.dy
           /\ r.buttons \in 0 .. 7 /\ r.dx \in -128 .. 127 /\ r.dy \in -128 .. 127
<1>1. /\ r.buttons \in 0 .. 7 /\ r.dx \in -128 .. 127 /\ r.dy \in -128 .. 127
  BY Ps2Assumption
<1>2. PICK f : f = 8 + r.buttons + (IF r.dx < 0 THEN 16 ELSE 0) + (IF r.dy < 0 THEN 32 ELSE 0)
  OBVIOUS
<1>3. f \in Byte /\ (f \div 8) % 2 = 1 /\ f % 8 = r.buttons
  BY <1>1, <1>2 DEF Byte
<1>4. ASSUME NEW d \in -128 .. 127 PROVE d % 256 \in Byte /\ ToChar(d % 256) = d
  BY DEF Byte, ToChar
<1>5. Packet(r) = <<f, r.dx % 256, r.dy % 256>>
  BY <1>2 DEF Packet
<1>6. r.dx % 256 \in Byte /\ r.dy % 256 \in Byte
  BY <1>1, <1>4
<1>7. /\ Packet(r) \in Seq(Byte) /\ Len(Packet(r)) = 3
      /\ Packet(r)[1] = f /\ Packet(r)[2] = r.dx % 256 /\ Packet(r)[3] = r.dy % 256
  BY <1>3, <1>5, <1>6
<1>8. QED
  BY ZenonT(60), <1>1, <1>3, <1>4, <1>7 DEF Bit

\* Setting and clearing one of the bits that mouse_init touches.
LEMMA ConfigBytes ==
    ASSUME NEW b \in Byte
    PROVE  With(b, AuxInt) \in Byte /\ Without(b, AuxOff) \in Byte
BY DEF With, Without, Bit, AuxInt, AuxOff, Byte

\* To the keyboard's variables every step of the system is a step of a handler, or none.
LEMMA Ps2IsKeyStep == ControllerType /\ [Ps2Next]_ps2Vars => KeyStep
<1> SUFFICES ASSUME ControllerType, Ps2Next \/ UNCHANGED ps2Vars PROVE KeyStep
  OBVIOUS
<1>1. Port \in Byte
  BY PortIsByte
<1>2. CASE Irq1
  BY <1>1, <1>2 DEF Irq1, KeyStep
<1>3. ASSUME NEW len, SysRead(len) PROVE KeyStep
  BY <1>3 DEF SysRead, KeyStep
<1>4. CASE \/ \E sc \in Keys : Press(sc)
           \/ \E r \in Reports : Report(r)
           \/ FillAnswer \/ FillKbd \/ FillAux
           \/ MouseInitStart \/ MouseInitConfig \/ MouseInitAck \/ Irq12
           \/ UNCHANGED ps2Vars
  <2>1. UNCHANGED vars
    BY <1>4 DEF Press, Report, FillAnswer, FillKbd, FillAux, Fill, MouseInitStart,
       MouseInitConfig, MouseInitAck, Irq12, ps2Vars
  <2>2. QED
    BY <2>1 DEF KeyStep
<1>5. QED
  BY <1>2, <1>3, <1>4 DEF Ps2Next

\* Reading the port, taking a byte from a device.
LEMMA TakeBytes ==
    ASSUME ControllerType
    PROVE  /\ obuf # << >> => obuf[1] \in Source /\ obuf[2] \in Byte /\ Port = obuf[2]
                              /\ obuf = <<obuf[1], obuf[2]>>
           /\ answer # << >> => answer[1] \in Byte
           /\ kbd_out # << >> => kbd_out[1] \in Byte /\ Tail(kbd_out) \in Seq(Byte)
           /\ mouse_out # << >> => mouse_out[1] \in Byte /\ Tail(mouse_out) \in Seq(Byte)
           /\ \A s, b : <<s, b>> # << >> /\ <<s, b>>[1] = s /\ <<s, b>>[2] = b
<1>1. obuf # << >> => obuf[1] \in Source /\ obuf[2] \in Byte /\ Port = obuf[2]
                              /\ obuf = <<obuf[1], obuf[2]>>
  BY DEF ControllerType, Port
<1>2. answer # << >> => answer[1] \in Byte
  BY DEF ControllerType
<1>3. /\ kbd_out # << >> => kbd_out[1] \in Byte /\ Tail(kbd_out) \in Seq(Byte)
      /\ mouse_out # << >> => mouse_out[1] \in Byte /\ Tail(mouse_out) \in Seq(Byte)
  BY TailLaws DEF ControllerType
<1>4. \A s, b : <<s, b>> # << >> /\ <<s, b>>[1] = s /\ <<s, b>>[2] = b
  OBVIOUS
<1>5. QED
  BY <1>1, <1>2, <1>3, <1>4

\* Filling the buffer keeps the types.
LEMMA FillType ==
    ASSUME ControllerType, NEW s \in Source, NEW b \in Byte, NEW line \in {1, 12}, NEW int,
           Fill(s, b, line, int), answer' \in {answer, << >>},
           kbd_out' \in Seq(Byte), mouse_out' \in Seq(Byte)
    PROVE  ControllerType'
<1>1. obuf' = <<s, b>> /\ UNCHANGED <<last, config, boot, stray>> /\ requests' \subseteq {1, 12}
  BY DEF Fill, ControllerType, history
<1>2. QED
  BY <1>1 DEF ControllerType

\* Every step keeps the types of the controller.
LEMMA ControllerStep ==
    ControllerType /\ [Ps2Next]_ps2Vars => ControllerType'
<1> SUFFICES ASSUME ControllerType, Ps2Next \/ UNCHANGED ps2Vars PROVE ControllerType'
  OBVIOUS
<1>1. /\ last \in Byte /\ config \in Byte /\ kbd_out \in Seq(Byte) /\ mouse_out \in Seq(Byte)
      /\ requests \subseteq {1, 12} /\ Port \in Byte
  BY PortIsByte DEF ControllerType
<1>2. ASSUME NEW sc \in Keys, Press(sc) PROVE ControllerType'
  <2>1. sc \in Byte
    BY KbdAssumption, Ps2Assumption
  <2>2. kbd_out' \in Seq(Byte)
    BY <1>1, <1>2, <2>1, AppendProperties DEF Press
  <2>3. QED
    BY <1>2, <2>2 DEF Press, ControllerType
<1>3. ASSUME NEW r \in Reports, Report(r) PROVE ControllerType'
  <2>1. mouse_out' \in Seq(Byte)
    BY <1>1, <1>3, PacketBytes, ConcatProperties DEF Report
  <2>2. QED
    BY <1>3, <2>1 DEF Report, ControllerType
<1>4. CASE FillAnswer
  BY <1>1, <1>4, TakeBytes, FillType DEF FillAnswer, Source
<1>5. CASE FillKbd
  BY <1>1, <1>5, TakeBytes, FillType DEF FillKbd, Source
<1>6. CASE FillAux
  BY <1>1, <1>6, TakeBytes, FillType DEF FillAux, Source
<1>7. CASE MouseInitStart
  <2>1. config' \in Byte
    BY <1>1, <1>7, ConfigBytes DEF MouseInitStart
  <2>2. QED
    BY <1>7, <2>1 DEF MouseInitStart, ControllerType, history
<1>8. ASSUME Polled PROVE obuf' = << >> /\ last' \in Byte /\ requests' \subseteq {1, 12}
  BY <1>1, <1>8 DEF Polled, ReadPort
<1>9. CASE MouseInitConfig
  <2>1. config' \in Byte
    BY <1>1, <1>9, ConfigBytes DEF MouseInitConfig, NewConfig
  <2>2. mouse_out' \in Seq(Byte)
    <3>1. ACK \in Byte
      BY DEF ACK, Byte
    <3>2. QED
      BY <1>1, <1>9, <3>1, AppendProperties DEF MouseInitConfig
  <2>3. stray' \in BOOLEAN /\ boot' = "ack" /\ UNCHANGED <<answer, kbd_out>>
    BY <1>9 DEF MouseInitConfig
  <2>4. Polled
    BY <1>9 DEF MouseInitConfig
  <2>5. QED
    BY <1>1, <1>8, <2>1, <2>2, <2>3, <2>4 DEF ControllerType
<1>10. CASE MouseInitAck
  <2>1. stray' \in BOOLEAN /\ boot' = "done" /\ UNCHANGED <<config, answer, kbd_out, mouse_out>>
    BY <1>10 DEF MouseInitAck
  <2>2. Polled
    BY <1>10 DEF MouseInitAck
  <2>3. QED
    BY <1>8, <2>1, <2>2 DEF ControllerType
<1>11. ASSUME NEW line, Serve(line) PROVE ControllerType'
  BY <1>1, <1>11 DEF Serve, ReadPort, ControllerType
<1>12. CASE Irq1 \/ Irq12
  BY <1>11, <1>12 DEF Irq1, Irq12
<1>13. ASSUME NEW len, SysRead(len) PROVE ControllerType'
  BY <1>13 DEF SysRead, ControllerType, controller, history
<1>14. CASE UNCHANGED ps2Vars
  BY <1>14 DEF ps2Vars, ControllerType, controller, history
<1>15. QED
  BY <1>2, <1>3, <1>4, <1>5, <1>6, <1>7, <1>9, <1>10, <1>12, <1>13, <1>14 DEF Ps2Next

\* Every step keeps the types of the histories.
LEMMA HistoryStep ==
    ControllerType /\ HistoryType /\ [Ps2Next]_ps2Vars => HistoryType'
<1> SUFFICES ASSUME ControllerType, HistoryType, Ps2Next \/ UNCHANGED ps2Vars
             PROVE  HistoryType'
  OBVIOUS
<1>1. Port \in Byte
  BY PortIsByte
<1>2. ASSUME NEW sc \in Keys, Press(sc) PROVE HistoryType'
  <2>1. sc \in Byte
    BY KbdAssumption, Ps2Assumption
  <2>2. QED
    BY <1>2, <2>1, AppendProperties DEF Press, HistoryType
<1>3. ASSUME NEW r \in Reports, Report(r) PROVE HistoryType'
  BY <1>3, AppendProperties DEF Report, HistoryType
<1>4. CASE \/ FillAnswer \/ FillKbd \/ FillAux
           \/ MouseInitStart \/ MouseInitConfig \/ MouseInitAck
           \/ (\E len \in ReadLens : SysRead(len)) \/ UNCHANGED ps2Vars
  <2>1. UNCHANGED <<typed, kbd_heard, mouse_heard, reported>>
    BY <1>4 DEF FillAnswer, FillKbd, FillAux, Fill, MouseInitStart, MouseInitConfig,
       MouseInitAck, SysRead, ps2Vars, history
  <2>2. QED
    BY <2>1 DEF HistoryType
<1>5. CASE Irq1
  BY <1>1, <1>5, AppendProperties DEF Irq1, Serve, HistoryType
<1>6. CASE Irq12
  BY <1>1, <1>6, AppendProperties DEF Irq12, Serve, HistoryType
<1>7. QED
  BY <1>2, <1>3, <1>4, <1>5, <1>6 DEF Ps2Next

\* Every step keeps the pointer on the screen.
LEMMA MouseStep ==
    ControllerType /\ MouseType /\ [Ps2Next]_ps2Vars => MouseType'
<1> SUFFICES ASSUME ControllerType, MouseType, Ps2Next \/ UNCHANGED ps2Vars
             PROVE  MouseType'
  OBVIOUS
<1>1. Port \in Byte /\ ToChar(Port) \in Int
  BY PortIsByte DEF Byte, ToChar
<1>2. \A v \in Int, max \in Nat : Clamp(v, max) \in 0 .. max
  BY DEF Clamp
<1>3. CASE Irq12
  <2>1. CASE MouseFirst(Port) \/ MouseSecond(Port)
    BY <1>1, <2>1 DEF MouseFirst, MouseSecond, MouseType, Byte
  <2>2. CASE MouseThird(Port)
    <3>1. /\ mouse_packet' \in [1 .. 3 -> Int] /\ mouse_packet'[3] \in Int
          /\ mouse_packet[1] \in Int /\ mouse_packet[2] \in Int
      BY <1>1, <2>2 DEF MouseThird, MouseType
    <3>2. /\ mouse_x + mouse_packet[2] \in Int /\ mouse_y - mouse_packet'[3] \in Int
          /\ mouse_packet[1] % 8 \in 0 .. 7
      BY <3>1, Ps2Assumption DEF MouseType
    <3>3. mouse_x' \in 0 .. MaxX /\ mouse_y' \in 0 .. MaxY
      BY <1>2, <2>2, <3>2, Ps2Assumption DEF MouseThird
    <3>4. QED
      BY <2>2, <3>1, <3>2, <3>3 DEF MouseThird, MouseType
  <2>3. QED
    BY <1>3, <2>1, <2>2 DEF Irq12
<1>4. CASE ~ Irq12
  <2>1. UNCHANGED mouse
    BY <1>4 DEF Ps2Next, Press, Report, FillAnswer, FillKbd, FillAux, Fill, MouseInitStart,
       MouseInitConfig, MouseInitAck, Irq1, SysRead, ps2Vars
  <2>2. QED
    BY <2>1 DEF MouseType, mouse
<1>5. QED
  BY <1>3, <1>4

Ps2Type == TypeOK /\ ControllerType /\ HistoryType /\ MouseType

LEMMA Ps2InitTypes == Ps2Init => Ps2Type
<1> SUFFICES ASSUME Ps2Init PROVE Ps2Type
  OBVIOUS
<1>1. TypeOK
  BY InitFacts DEF Ps2Init
<1>2. 0 \in Byte /\ Config \in Byte /\ << >> \in Seq(Byte) /\ << >> \in Seq(Reports)
  BY Ps2Assumption DEF Byte
<1>3. ControllerType /\ HistoryType
  BY <1>2 DEF Ps2Init, ControllerType, HistoryType
<1>4. MouseType
  BY Ps2Assumption DEF Ps2Init, MouseType
<1>5. QED
  BY <1>1, <1>3, <1>4 DEF Ps2Type

LEMMA Ps2KeepsTypes == Ps2Type /\ [Ps2Next]_ps2Vars => Ps2Type'
BY Ps2IsKeyStep, NextStep, ControllerStep, HistoryStep, MouseStep DEF Ps2Type

\* Keyboard, mouse and controller together keep their types: the ring indices stay in
\* the ring, the pointer stays on the screen and mouse_packet is never indexed
\* outside its three bytes.
THEOREM Ps2TypeCorrect == Ps2Spec => []Ps2Type
BY Ps2InitTypes, Ps2KeepsTypes, PTL DEF Ps2Spec

\* The ring is a first-in first-out queue for any bytes that the shared controller may
\* give to keyboard_irq, those of the mouse and repeated ones included.
THEOREM SharedRingIsFifo == Ps2Spec => ImplementsFifo
<1>1. Ps2Init => Fifo!Init
  BY InitFacts DEF Fifo!Init, Init, Ps2Init
<1>2. Ps2Type /\ [Ps2Next]_ps2Vars => [Fifo!Next]_<<Pending, accepted>>
  BY NextStep, Ps2IsKeyStep DEF Ps2Type
<1>3. QED
  BY <1>1, <1>2, Ps2TypeCorrect, PTL DEF Ps2Spec, ImplementsFifo, Fifo!Spec

\* The same for the characters on their way to the caller of SYS_READ.
THEOREM NoSharedKeyIsLost == Ps2Spec => []NoTypedKeyLost
<1>1. Ps2Init => NoTypedKeyLost
  BY InitLosesNone DEF Ps2Init
<1>2. Ps2Type /\ NoTypedKeyLost /\ [Ps2Next]_ps2Vars => NoTypedKeyLost'
  BY KeyStepLosesNone, Ps2IsKeyStep DEF Ps2Type
<1>3. QED
  BY <1>1, <1>2, Ps2TypeCorrect, PTL DEF Ps2Spec

-----------------------------------------------------------------------------
(***************************************************************************)
(* mouse_init and the configuration byte.                                  *)
(***************************************************************************)

Holds(src) == obuf # << >> /\ obuf[1] = src

Started == Without(Config, AuxOff)

\* Until mouse_init has read the configuration only the keyboard and the answer can
\* fill the buffer, and the answer is the configuration; the mouse is silent.
BootInv ==
    /\ boot = "before" => config = Config /\ answer = << >> /\ ~ Holds("answer")
    /\ boot = "config" => /\ config = Started
                          /\ answer # << >> => answer[1] = Started /\ ~ Holds("answer")
                          /\ Holds("answer") => obuf[2] = Started
    /\ boot \in {"before", "config"} =>
          ~ stray /\ ~ Holds("aux") /\ mouse_out = << >> /\ reported = << >>
    /\ boot \in {"ack", "done"} /\ ~ stray =>
          answer = << >> /\ ~ Holds("answer") /\ config = With(Started, AuxInt)

LEMMA BootStep == Ps2Type /\ BootInv /\ [Ps2Next]_ps2Vars => BootInv'
<1> SUFFICES ASSUME Ps2Type, BootInv, Ps2Next \/ UNCHANGED ps2Vars PROVE BootInv'
  OBVIOUS
<1>1. ControllerType /\ HistoryType
  BY DEF Ps2Type
<1>2. CASE \E sc \in Keys : Press(sc)
  BY <1>2 DEF Press, BootInv, Holds
<1>3. CASE \E r \in Reports : Report(r)
  BY <1>3 DEF Report, BootInv, Holds
<1>4. ASSUME NEW s \in Source, NEW b, NEW line, NEW int, Fill(s, b, line, int)
      PROVE  /\ UNCHANGED <<config, boot, stray, reported>>
             /\ obuf = << >> /\ obuf'[1] = s /\ obuf'[2] = b
             /\ \A src : Holds(src)' => src = s
  BY <1>4 DEF Fill, Holds, history
<1>5. CASE FillAnswer
  <2>1. /\ answer # << >> /\ answer' = << >> /\ UNCHANGED mouse_out
        /\ UNCHANGED <<config, boot, stray, reported>>
        /\ obuf'[2] = answer[1] /\ ~ Holds("aux")'
    BY <1>4, <1>5 DEF FillAnswer, Source
  <2>2. QED
    BY <2>1 DEF BootInv
<1>6. CASE FillKbd
  <2>1. /\ UNCHANGED <<config, boot, stray, reported, answer, mouse_out>>
        /\ ~ Holds("aux")' /\ ~ Holds("answer")'
    BY <1>4, <1>6 DEF FillKbd, Source
  <2>2. QED
    BY <2>1 DEF BootInv
<1>7. CASE FillAux
  <2>1. /\ mouse_out # << >>
        /\ UNCHANGED <<config, boot, stray, reported, answer>> /\ ~ Holds("answer")'
    BY <1>4, <1>7 DEF FillAux, Source
  <2>2. boot \in {"ack", "done"}
    BY <1>1, <2>1 DEF BootInv, ControllerType
  <2>3. QED
    BY <2>1, <2>2 DEF BootInv
<1>8. CASE MouseInitStart
  <2>1. /\ boot = "before" /\ boot' = "config" /\ config' = Started /\ answer'[1] = Started
        /\ UNCHANGED <<obuf, mouse_out, stray, reported>>
    BY <1>8 DEF MouseInitStart, BootInv, Started, history
  <2>2. QED
    BY <2>1 DEF BootInv, Holds
<1>9. CASE MouseInitConfig
  <2>1. /\ boot = "config" /\ boot' = "ack" /\ obuf' = << >> /\ obuf # << >>
        /\ config' = With(obuf[2], AuxInt) /\ answer' = answer
        /\ stray' = (obuf[1] # "answer")
    BY <1>9 DEF MouseInitConfig, Polled, ReadPort, NewConfig, Port
  <2>2. QED
    BY <2>1 DEF BootInv, Holds
<1>10. CASE MouseInitAck
  <2>1. /\ boot = "ack" /\ boot' = "done" /\ obuf' = << >> /\ UNCHANGED <<config, answer>>
        /\ ~ stray' => ~ stray
    BY <1>10 DEF MouseInitAck, Polled, ReadPort
  <2>2. QED
    BY <2>1 DEF BootInv, Holds
<1>11. CASE Irq1 \/ Irq12
  <2>1. boot = "done" /\ obuf' = << >> /\ UNCHANGED <<config, answer, boot, stray>>
    BY <1>11 DEF Irq1, Irq12, Serve, ReadPort
  <2>2. QED
    BY <2>1 DEF BootInv, Holds
<1>12. CASE (\E len \in ReadLens : SysRead(len)) \/ UNCHANGED ps2Vars
  <2>1. UNCHANGED <<config, answer, boot, stray, obuf, mouse_out, reported>>
    BY <1>12 DEF SysRead, ps2Vars, controller, history
  <2>2. QED
    BY <2>1 DEF BootInv, Holds
<1>13. QED
  BY <1>2, <1>3, <1>5, <1>6, <1>7, <1>8, <1>9, <1>10, <1>11, <1>12 DEF Ps2Next

\* mouse_init leaves the configuration as the firmware made it but for the mouse's
\* clock and interrupt, for every configuration byte, unless it read another byte.
THEOREM ConfigurationKept == Ps2Spec => []ConfigKept
<1>1. Ps2Init => BootInv
  BY DEF Ps2Init, BootInv, Holds
<1>2. BootInv => ConfigKept
  BY DEF BootInv, ConfigKept, Started
<1>3. QED
  BY <1>1, <1>2, BootStep, Ps2TypeCorrect, PTL DEF Ps2Spec

-----------------------------------------------------------------------------
(***************************************************************************)
(* The bytes of the two devices.                                           *)
(***************************************************************************)

\* The bytes of the reports rs.
BytesOf(rs) == [i \in 1 .. 3 * Len(rs) |-> Packet(rs[(i + 2) \div 3])[((i - 1) % 3) + 1]]

LEMMA ByteOfPacket ==
    ASSUME NEW rs \in Seq(Reports)
    PROVE  /\ BytesOf(rs) \in Seq(Byte) /\ Len(BytesOf(rs)) = 3 * Len(rs)
           /\ \A i \in 1 .. 3 * Len(rs) :
                 /\ (i + 2) \div 3 \in 1 .. Len(rs)
                 /\ BytesOf(rs)[i] = Packet(rs[(i + 2) \div 3])[((i - 1) % 3) + 1]
<1>1. Len(rs) \in Nat /\ \A j \in 1 .. Len(rs) : rs[j] \in Reports
  OBVIOUS
<1>2. PICK n \in Nat : n = Len(rs)
  BY <1>1
<1>3. ASSUME NEW i \in 1 .. 3 * n
      PROVE  (i + 2) \div 3 \in 1 .. n /\ ((i - 1) % 3) + 1 \in 1 .. 3
  OBVIOUS
<1>4. ASSUME NEW i \in 1 .. 3 * n
      PROVE  Packet(rs[(i + 2) \div 3])[((i - 1) % 3) + 1] \in Byte
  <2>1. PICK r \in Reports, k \in 1 .. 3 : r = rs[(i + 2) \div 3] /\ k = ((i - 1) % 3) + 1
    BY <1>1, <1>2, <1>3
  <2>2. PICK p \in Seq(Byte) : p = Packet(r) /\ Len(p) = 3
    BY PacketBytes
  <2>3. Packet(r)[k] \in Byte
    BY <2>2, ElementOfSeq
  <2>4. QED
    BY <2>1, <2>3
<1>5. /\ BytesOf(rs) \in [1 .. 3 * n -> Byte]
      /\ \A i \in 1 .. 3 * n :
            BytesOf(rs)[i] = Packet(rs[(i + 2) \div 3])[((i - 1) % 3) + 1]
  BY <1>2, <1>4 DEF BytesOf
<1>6. 3 * n \in Nat
  OBVIOUS
<1>7. BytesOf(rs) \in Seq(Byte) /\ Len(BytesOf(rs)) = 3 * n
  BY <1>5, <1>6
<1>8. QED
  BY <1>2, <1>3, <1>5, <1>7

\* A new report adds its three bytes.
LEMMA BytesGrow ==
    ASSUME NEW rs \in Seq(Reports), NEW r \in Reports
    PROVE  BytesOf(Append(rs, r)) = Cat(BytesOf(rs), Packet(r))
<1>1. PICK n, rt : n = Len(rs) /\ rt = Append(rs, r)
  OBVIOUS
<1> n \in Nat
  BY <1>1
<1>2. /\ rt \in Seq(Reports) /\ Len(rt) = n + 1 /\ rt[n + 1] = r
      /\ \A j \in 1 .. n : rt[j] = rs[j]
  BY <1>1, AppendProperties
<1>3. PICK x, p, y : x = BytesOf(rs) /\ p = Packet(r) /\ y = BytesOf(rt)
  OBVIOUS
<1>4. /\ x \in Seq(Byte) /\ Len(x) = 3 * n /\ p \in Seq(Byte) /\ Len(p) = 3
      /\ y \in Seq(Byte) /\ Len(y) = 3 * n + 3
  <2>1. x \in Seq(Byte) /\ Len(x) = 3 * n
    BY <1>1, <1>3, ByteOfPacket
  <2>2. y \in Seq(Byte) /\ Len(y) = 3 * (n + 1)
    BY <1>2, <1>3, ByteOfPacket
  <2>3. p \in Seq(Byte) /\ Len(p) = 3
    BY <1>3, PacketBytes
  <2>4. QED
    BY <2>1, <2>2, <2>3
<1>5. PICK z : z = x \o p
  OBVIOUS
<1>6. /\ z \in Seq(Byte) /\ Len(z) = Len(x) + Len(p)
      /\ \A i \in 1 .. Len(x) + Len(p) : z[i] = IF i <= Len(x) THEN x[i] ELSE p[i - Len(x)]
  <2>1. x \in Seq(Byte) /\ p \in Seq(Byte)
    BY <1>4
  <2>2. /\ x \o p \in Seq(Byte) /\ Len(x \o p) = Len(x) + Len(p)
        /\ \A i \in 1 .. Len(x) + Len(p) :
              (x \o p)[i] = IF i <= Len(x) THEN x[i] ELSE p[i - Len(x)]
    BY <2>1, ConcatProperties
  <2>3. QED
    BY <1>5, <2>2, Zenon
<1>7. ASSUME NEW i \in 1 .. 3 * n + 3 PROVE y[i] = z[i]
  <2>1. i \in 1 .. 3 * Len(rt) /\ i \in 1 .. Len(x) + Len(p)
    BY <1>2, <1>4
  <2>2. y[i] = Packet(rt[(i + 2) \div 3])[((i - 1) % 3) + 1]
    BY <1>2, <1>3, <2>1, ByteOfPacket
  <2>3. CASE i <= 3 * n
    <3>1. i \in 1 .. 3 * n /\ (i + 2) \div 3 \in 1 .. n
      BY <2>3
    <3>2. x[i] = Packet(rs[(i + 2) \div 3])[((i - 1) % 3) + 1]
      BY <1>1, <1>3, <3>1, ByteOfPacket
    <3>3. z[i] = x[i]
      BY <1>4, <1>6, <2>1, <2>3
    <3>4. rt[(i + 2) \div 3] = rs[(i + 2) \div 3]
      BY <1>2, <3>1
    <3>5. QED
      BY <2>2, <3>2, <3>3, <3>4
  <2>4. CASE ~ (i <= 3 * n)
    <3>1. (i + 2) \div 3 = n + 1 /\ ((i - 1) % 3) + 1 = i - 3 * n
      BY <2>4
    <3>2. z[i] = p[i - 3 * n]
      BY <1>4, <1>6, <2>1, <2>4
    <3>3. QED
      BY <1>2, <1>3, <2>2, <3>1, <3>2
  <2>5. QED
    BY <2>3, <2>4
<1>8. Len(y) = Len(z)
  BY <1>4, <1>6
<1>9. y = z
  BY <1>4, <1>6, <1>7, <1>8, SeqEqual
<1>10. QED
  BY <1>1, <1>3, <1>5, <1>9 DEF Cat

\* What the mouse has sent: its acknowledgement, until that is read, and the reports.
Sent == IF boot = "ack" THEN Cat(One(ACK), BytesOf(reported)) ELSE BytesOf(reported)

KbdStream == Stream(kbd_heard, Waiting("kbd"), kbd_out) = typed
AuxStream == Stream(mouse_heard, Waiting("aux"), mouse_out) = Sent

\* Every request stands for the byte in the buffer.
RequestInv ==
    boot = "done" => (1 \in requests => Holds("kbd")) /\ (12 \in requests => Holds("aux"))

\* Nothing has been handled before the interrupts are on.
QuietBoot == boot # "done" => mouse_heard = << >> /\ mouse_cycle = 0

LEMMA WaitingBytes ==
    ASSUME ControllerType
    PROVE  \A src : /\ Waiting(src) = IF Holds(src) THEN One(obuf[2]) ELSE << >>
                    /\ Waiting(src) \in Seq(Byte)
<1>1. \A b \in Byte : One(b) \in Seq(Byte)
  BY DEF One
<1>2. << >> \in Seq(Byte)
  OBVIOUS
<1>3. \A src : Waiting(src) = IF Holds(src) THEN One(obuf[2]) ELSE << >>
  BY DEF Waiting, Holds, One
<1>4. \A src : Holds(src) => obuf[2] \in Byte
  BY TakeBytes DEF Holds
<1>5. QED
  BY <1>1, <1>2, <1>3, <1>4

\* The buffer, empty before, holds a byte of s and of no other.
LEMMA FillWaits ==
    ASSUME ControllerType, ControllerType', NEW s, NEW b, NEW line, NEW int,
           Fill(s, b, line, int)
    PROVE  /\ \A src : ~ Holds(src) /\ Waiting(src) = << >>
           /\ Holds(s)' /\ Waiting(s)' = One(b)
           /\ \A src : src # s => ~ Holds(src)' /\ Waiting(src)' = << >>
<1>1. obuf = << >> /\ obuf' = <<s, b>>
  BY DEF Fill
<1>2. obuf' # << >> /\ obuf'[1] = s /\ obuf'[2] = b
  BY <1>1
<1>3. QED
  BY <1>1, <1>2 DEF Holds, Waiting, One

\* Reading the port empties the buffer.
LEMMA ReadWaits ==
    ASSUME ReadPort
    PROVE  \A src : ~ Holds(src)' /\ Waiting(src)' = << >>
BY DEF ReadPort, Holds, Waiting

\* No step leaves a request without its byte, or adds one for another byte.
LEMMA RequestStep ==
    Ps2Type /\ BootInv /\ (~ stray => RequestInv) /\ [Ps2Next]_ps2Vars
        => (~ stray' => RequestInv')
<1> SUFFICES ASSUME Ps2Type, BootInv, ~ stray => RequestInv, ~ stray', boot' = "done",
                    Ps2Next \/ UNCHANGED ps2Vars
             PROVE  (1 \in requests' => Holds("kbd")') /\ (12 \in requests' => Holds("aux")')
  BY DEF RequestInv
<1>1. ControllerType /\ requests \subseteq {1, 12}
  BY DEF Ps2Type, ControllerType
<1>2. CASE MouseInitAck
  <2>1. requests' = {}
    BY <1>2 DEF MouseInitAck
  <2>2. QED
    BY <2>1
<1>3. CASE MouseInitStart \/ MouseInitConfig
  BY <1>3 DEF MouseInitStart, MouseInitConfig
<1>4. ASSUME boot' = boot, stray' = stray
      PROVE  /\ boot = "done" /\ answer = << >>
             /\ (1 \in requests => Holds("kbd")) /\ (12 \in requests => Holds("aux"))
  BY <1>4 DEF RequestInv, BootInv
<1>5. CASE FillAnswer
  BY <1>4, <1>5 DEF FillAnswer, Fill, history
<1>6. CASE FillKbd \/ FillAux
  <2>1. /\ boot' = boot /\ stray' = stray /\ obuf = << >>
        /\ \/ obuf' = <<"kbd", kbd_out[1]>> /\ requests' \subseteq requests \cup {1}
           \/ obuf' = <<"aux", mouse_out[1]>> /\ requests' \subseteq requests \cup {12}
    BY <1>6 DEF FillKbd, FillAux, Fill, history
  <2>2. requests = {}
    BY <1>1, <1>4, <2>1 DEF Holds
  <2>3. QED
    BY <2>1, <2>2 DEF Holds
<1>7. CASE Irq1 \/ Irq12
  <2>1. /\ boot' = boot /\ stray' = stray
        /\ \/ 1 \in requests /\ requests' = requests \ {1}
           \/ 12 \in requests /\ requests' = requests \ {12}
    BY <1>7 DEF Irq1, Irq12, Serve
  <2>2. ~ (1 \in requests /\ 12 \in requests)
    BY <1>4, <2>1 DEF Holds
  <2>3. requests' = {}
    BY <1>1, <2>1, <2>2
  <2>4. QED
    BY <2>3
<1>8. CASE \/ \E sc \in Keys : Press(sc)
           \/ \E r \in Reports : Report(r)
           \/ \E len \in ReadLens : SysRead(len)
           \/ UNCHANGED ps2Vars
  <2>1. UNCHANGED <<boot, stray, requests, obuf>>
    BY <1>8 DEF Press, Report, SysRead, ps2Vars, controller, history
  <2>2. QED
    BY <1>4, <2>1 DEF Holds
<1>9. QED
  BY <1>2, <1>3, <1>5, <1>6, <1>7, <1>8 DEF Ps2Next

\* stray stays set, once mouse_init has begun to read.
LEMMA StrayStays ==
    ASSUME BootInv, Ps2Next \/ UNCHANGED ps2Vars, ~ stray'
    PROVE  ~ stray
<1>1. CASE MouseInitConfig
  BY <1>1 DEF MouseInitConfig, BootInv
<1>2. CASE MouseInitAck
  BY <1>2 DEF MouseInitAck
<1>3. CASE ~ MouseInitConfig /\ ~ MouseInitAck
  BY <1>3 DEF Ps2Next, Press, Report, FillAnswer, FillKbd, FillAux, Fill, MouseInitStart,
     Irq1, Irq12, Serve, SysRead, ps2Vars, history
<1>4. QED
  BY <1>1, <1>2, <1>3

\* Every byte of the keyboard is on its way or has been read by its handler.
LEMMA KbdStreamStep ==
    Ps2Type /\ BootInv /\ (~ stray => RequestInv /\ KbdStream) /\ [Ps2Next]_ps2Vars
        => (~ stray' => KbdStream')
<1> SUFFICES ASSUME Ps2Type, BootInv, ~ stray => RequestInv /\ KbdStream, ~ stray',
                    Ps2Next \/ UNCHANGED ps2Vars
             PROVE  KbdStream'
  OBVIOUS
<1>1. ~ stray /\ RequestInv /\ KbdStream
  BY StrayStays
<1>2. ControllerType /\ HistoryType /\ ControllerType'
  BY ControllerStep DEF Ps2Type
<1>3. PICK h \in Seq(Byte), w \in Seq(Byte), o \in Seq(Byte) :
         h = kbd_heard /\ w = Waiting("kbd") /\ o = kbd_out
  BY <1>2, WaitingBytes DEF ControllerType, HistoryType
<1>4. Stream(h, w, o) = typed
  BY <1>1, <1>3 DEF KbdStream
<1>5. ASSUME UNCHANGED <<kbd_heard, kbd_out, typed>>, Waiting("kbd")' = Waiting("kbd")
      PROVE  KbdStream'
  BY <1>1, <1>5 DEF KbdStream
<1>6. ASSUME NEW sc \in Keys, Press(sc) PROVE KbdStream'
  <2>1. sc \in Byte
    BY KbdAssumption, Ps2Assumption
  <2>2. Stream(h, w, Snoc(o, sc)) = Snoc(Stream(h, w, o), sc)
    BY <2>1, StreamLaws
  <2>3. /\ kbd_heard' = h /\ Waiting("kbd")' = w /\ kbd_out' = Snoc(o, sc)
        /\ typed' = Snoc(typed, sc)
    BY <1>3, <1>6 DEF Press, Waiting, Snoc
  <2>4. QED
    BY <1>4, <2>2, <2>3 DEF KbdStream
<1>7. CASE FillKbd
  <2>1. Fill("kbd", kbd_out[1], 1, KbdInt)
    BY <1>7 DEF FillKbd
  <2>2. /\ w = << >> /\ Waiting("kbd")' = One(o[1]) /\ o # << >>
        /\ kbd_heard' = h /\ kbd_out' = Tail(o) /\ typed' = typed
    BY <1>2, <1>3, <1>7, <2>1, FillWaits DEF FillKbd, Fill, history
  <2>3. Stream(h, One(o[1]), Tail(o)) = Stream(h, << >>, o)
    <3>1. 0 \in Byte
      BY DEF Byte
    <3>2. QED
      BY <2>2, <3>1, StreamLaws
  <2>4. QED
    BY <1>4, <2>2, <2>3 DEF KbdStream
<1>8. CASE FillAnswer \/ FillAux
  <2>1. PICK s, b, line, int : Fill(s, b, line, int) /\ s # "kbd"
    BY <1>8 DEF FillAnswer, FillAux
  <2>2. Waiting("kbd") = << >> /\ Waiting("kbd")' = << >>
    BY <1>2, <2>1, FillWaits
  <2>3. QED
    BY <1>5, <1>8, <2>2 DEF FillAnswer, FillAux, Fill, history
<1>9. CASE MouseInitConfig \/ MouseInitAck
  <2>1. ReadPort /\ obuf # << >> /\ obuf[1] # "kbd"
    BY <1>9 DEF MouseInitConfig, MouseInitAck, Polled
  <2>2. Waiting("kbd") = << >> /\ Waiting("kbd")' = << >>
    BY <2>1, ReadWaits DEF Waiting
  <2>3. QED
    BY <1>5, <1>9, <2>2 DEF MouseInitConfig, MouseInitAck
<1>10. CASE Irq1
  <2>1. Holds("kbd") /\ ReadPort
    BY <1>1, <1>10 DEF Irq1, Serve, RequestInv
  <2>2. PICK e \in Byte : e = obuf[2] /\ e = Port
    BY <1>2, <2>1, TakeBytes DEF Holds
  <2>3. /\ kbd_heard' = Snoc(h, e) /\ kbd_out' = o /\ typed' = typed
        /\ Waiting("kbd")' = << >> /\ w = One(e)
    BY <1>2, <1>3, <1>10, <2>1, <2>2, ReadWaits, WaitingBytes DEF Irq1, Serve, Snoc
  <2>4. Stream(Snoc(h, e), << >>, o) = Stream(h, One(e), o)
    BY StreamLaws
  <2>5. QED
    BY <1>4, <2>3, <2>4 DEF KbdStream
<1>11. CASE Irq12
  <2>1. Holds("aux") /\ ReadPort
    BY <1>1, <1>11 DEF Irq12, Serve, RequestInv
  <2>2. Waiting("kbd") = << >> /\ Waiting("kbd")' = << >>
    BY <2>1, ReadWaits DEF Waiting, Holds
  <2>3. QED
    BY <1>5, <1>11, <2>2 DEF Irq12, Serve
<1>12. CASE \/ \E r \in Reports : Report(r)
            \/ MouseInitStart
            \/ \E len \in ReadLens : SysRead(len)
            \/ UNCHANGED ps2Vars
  <2>1. UNCHANGED <<kbd_heard, kbd_out, typed, obuf>>
    BY <1>12 DEF Report, MouseInitStart, SysRead, ps2Vars, controller, history
  <2>2. QED
    BY <1>5, <2>1 DEF Waiting
<1>13. QED
  BY <1>6, <1>7, <1>8, <1>9, <1>10, <1>11, <1>12 DEF Ps2Next

\* The mouse is not heard and not followed before the boot is done.
LEMMA QuietBootStep ==
    Ps2Type /\ QuietBoot /\ [Ps2Next]_ps2Vars => QuietBoot'
<1> SUFFICES ASSUME QuietBoot, Ps2Next \/ UNCHANGED ps2Vars, boot' # "done"
             PROVE  mouse_heard' = << >> /\ mouse_cycle' = 0
  BY DEF QuietBoot
<1>1. ~ Irq1 /\ ~ Irq12 /\ ~ MouseInitAck
  BY DEF Irq1, Irq12, Serve, MouseInitAck
<1>2. boot # "done"
  BY <1>1 DEF Ps2Next, Press, Report, FillAnswer, FillKbd, FillAux, Fill, MouseInitStart,
     MouseInitConfig, SysRead, ps2Vars
<1>3. UNCHANGED <<mouse_heard, mouse_cycle>>
  BY <1>1 DEF Ps2Next, Press, Report, FillAnswer, FillKbd, FillAux, Fill, MouseInitStart,
     MouseInitConfig, SysRead, ps2Vars, history, mouse
<1>4. QED
  BY <1>2, <1>3 DEF QuietBoot

\* Every byte of the mouse is on its way or has been read by its handler.
LEMMA AuxStreamStep ==
    Ps2Type /\ BootInv /\ QuietBoot /\ (~ stray => RequestInv /\ AuxStream) /\
        [Ps2Next]_ps2Vars => (~ stray' => AuxStream')
<1> SUFFICES ASSUME Ps2Type, BootInv, QuietBoot, ~ stray => RequestInv /\ AuxStream, ~ stray',
                    Ps2Next \/ UNCHANGED ps2Vars
             PROVE  AuxStream'
  OBVIOUS
<1>1. ~ stray /\ RequestInv /\ AuxStream
  BY StrayStays
<1>2. ControllerType /\ HistoryType /\ ControllerType'
  BY ControllerStep DEF Ps2Type
<1>3. PICK h \in Seq(Byte), w \in Seq(Byte), o \in Seq(Byte), rs \in Seq(Reports) :
         h = mouse_heard /\ w = Waiting("aux") /\ o = mouse_out /\ rs = reported
  BY <1>2, WaitingBytes DEF ControllerType, HistoryType
<1>4. PICK bs \in Seq(Byte) : bs = BytesOf(rs)
  BY ByteOfPacket
<1>5. Stream(h, w, o) = IF boot = "ack" THEN Cat(One(ACK), bs) ELSE bs
  BY <1>1, <1>3, <1>4 DEF AuxStream, Sent
<1>6. ASSUME UNCHANGED <<mouse_heard, mouse_out, reported>>, Waiting("aux")' = Waiting("aux"),
             (boot' = "ack") <=> (boot = "ack")
      PROVE  AuxStream'
  BY <1>1, <1>6 DEF AuxStream, Sent
<1>7. ACK \in Byte /\ << >> \in Seq(Byte)
  BY DEF ACK, Byte
<1>8. One(ACK) \in Seq(Byte)
  BY <1>7 DEF One
<1>9. ASSUME NEW r \in Reports, Report(r) PROVE AuxStream'
  <2>1. PICK p \in Seq(Byte) : p = Packet(r)
    BY PacketBytes
  <2>2. Stream(h, w, Cat(o, p)) = Cat(Stream(h, w, o), p)
    BY <1>7, StreamLaws
  <2>3. /\ mouse_heard' = h /\ Waiting("aux")' = w /\ mouse_out' = Cat(o, p)
        /\ boot' = boot /\ reported' = Append(rs, r)
    BY <1>3, <1>9, <2>1 DEF Report, Waiting, Cat
  <2>4. BytesOf(reported') = Cat(bs, p)
    BY <1>4, <2>1, <2>3, BytesGrow
  <2>5. Cat(Cat(One(ACK), bs), p) = Cat(One(ACK), Cat(bs, p))
    BY <1>7, <1>8, CatLaws
  <2>6. Stream(h, w, Cat(o, p)) =
           IF boot = "ack" THEN Cat(One(ACK), Cat(bs, p)) ELSE Cat(bs, p)
    BY <1>5, <2>2, <2>5
  <2>7. QED
    BY <2>3, <2>4, <2>6 DEF AuxStream, Sent
<1>10. CASE FillAux
  <2>1. Fill("aux", mouse_out[1], 12, AuxInt)
    BY <1>10 DEF FillAux
  <2>2. /\ w = << >> /\ Waiting("aux")' = One(o[1]) /\ o # << >>
        /\ mouse_heard' = h /\ mouse_out' = Tail(o) /\ reported' = rs /\ boot' = boot
    BY <1>2, <1>3, <1>10, <2>1, FillWaits DEF FillAux, Fill, history
  <2>3. Stream(h, One(o[1]), Tail(o)) = Stream(h, << >>, o)
    BY <1>7, <2>2, StreamLaws
  <2>4. QED
    BY <1>4, <1>5, <2>2, <2>3 DEF AuxStream, Sent
<1>11. CASE FillAnswer \/ FillKbd
  <2>1. PICK s, b, line, int : Fill(s, b, line, int) /\ s # "aux"
    BY <1>11 DEF FillAnswer, FillKbd
  <2>2. Waiting("aux") = << >> /\ Waiting("aux")' = << >>
    BY <1>2, <2>1, FillWaits
  <2>3. QED
    BY <1>6, <1>11, <2>2 DEF FillAnswer, FillKbd, Fill, history
<1>12. CASE MouseInitConfig
  <2>1. /\ boot = "config" /\ boot' = "ack" /\ ReadPort
        /\ mouse_out' = Snoc(o, ACK) /\ mouse_heard' = h /\ reported' = rs
    BY <1>3, <1>12 DEF MouseInitConfig, Polled, Snoc
  <2>2. w = << >> /\ Waiting("aux")' = << >> /\ o = << >> /\ h = << >> /\ rs = << >>
    BY <1>2, <1>3, <2>1, ReadWaits, WaitingBytes DEF BootInv, QuietBoot
  <2>3. bs = << >>
    <3>1. Len(bs) = 3 * Len(rs) /\ Len(rs) = 0
      BY <1>4, <2>2, ByteOfPacket
    <3>2. QED
      BY <3>1
  <2>4. Stream(h, w, Snoc(o, ACK)) = Snoc(Stream(h, w, o), ACK)
    BY <1>7, StreamLaws
  <2>5. Stream(h, w, o) = bs /\ Snoc(bs, ACK) = Cat(bs, One(ACK))
    BY <1>5, <1>7, <2>1, CatLaws
  <2>6. Cat(bs, One(ACK)) = Cat(One(ACK), bs)
    BY <1>7, <1>8, <2>3, CatLaws
  <2>7. Stream(h, w, Snoc(o, ACK)) = Cat(One(ACK), bs)
    BY <2>4, <2>5, <2>6
  <2>8. QED
    BY <1>4, <2>1, <2>2, <2>7 DEF AuxStream, Sent
<1>13. CASE MouseInitAck
  <2>1. /\ boot = "ack" /\ boot' = "done" /\ ReadPort /\ Holds("aux")
        /\ mouse_out' = o /\ mouse_heard' = h /\ reported' = rs
    BY <1>3, <1>13 DEF MouseInitAck, Polled, Holds
  <2>2. PICK e \in Byte : e = obuf[2]
    BY <1>2, <2>1, TakeBytes DEF Holds
  <2>3. w = One(e) /\ Waiting("aux")' = << >> /\ h = << >>
    BY <1>2, <1>3, <2>1, <2>2, ReadWaits, WaitingBytes DEF QuietBoot
  <2>4. One(e) \in Seq(Byte)
    BY DEF One
  <2>5. Cat(<< >>, One(e)) = One(e) /\ Cat(<< >>, << >>) = << >> /\ Cat(<< >>, o) = o
    BY <1>7, <2>4, CatLaws
  <2>6. Cat(One(e), o) = Cat(One(ACK), bs)
    BY <1>5, <2>1, <2>3, <2>5 DEF Stream
  <2>7. o = bs
    <3>1. Tail(Cat(One(e), o)) = o
      BY TailLaws
    <3>2. Tail(Cat(One(ACK), bs)) = bs
      BY <1>7, TailLaws
    <3>3. QED
      BY <2>6, <3>1, <3>2
  <2>8. Stream(h, << >>, o) = bs
    BY <2>3, <2>5, <2>7 DEF Stream
  <2>9. QED
    BY <1>4, <2>1, <2>3, <2>8 DEF AuxStream, Sent
<1>14. CASE Irq12
  <2>1. Holds("aux") /\ ReadPort /\ boot = "done"
    BY <1>1, <1>14 DEF Irq12, Serve, RequestInv
  <2>2. PICK e \in Byte : e = obuf[2] /\ e = Port
    BY <1>2, <2>1, TakeBytes DEF Holds
  <2>3. /\ mouse_heard' = Snoc(h, e) /\ mouse_out' = o /\ reported' = rs /\ boot' = boot
        /\ Waiting("aux")' = << >> /\ w = One(e)
    BY <1>2, <1>3, <1>14, <2>1, <2>2, ReadWaits, WaitingBytes DEF Irq12, Serve, Snoc
  <2>4. Stream(Snoc(h, e), << >>, o) = Stream(h, One(e), o)
    BY <1>7, StreamLaws
  <2>5. QED
    BY <1>4, <1>5, <2>3, <2>4 DEF AuxStream, Sent
<1>15. CASE Irq1
  <2>1. Holds("kbd") /\ ReadPort
    BY <1>1, <1>15 DEF Irq1, Serve, RequestInv
  <2>2. Waiting("aux") = << >> /\ Waiting("aux")' = << >>
    BY <2>1, ReadWaits DEF Waiting, Holds
  <2>3. QED
    BY <1>6, <1>15, <2>2 DEF Irq1, Serve
<1>16. CASE \/ \E sc \in Keys : Press(sc)
            \/ MouseInitStart
            \/ \E len \in ReadLens : SysRead(len)
            \/ UNCHANGED ps2Vars
  <2>1. /\ UNCHANGED <<mouse_heard, mouse_out, reported, obuf>>
        /\ (boot' = "ack") <=> (boot = "ack")
    BY <1>16 DEF Press, MouseInitStart, SysRead, ps2Vars, controller, history
  <2>2. QED
    BY <1>6, <2>1 DEF Waiting
<1>17. QED
  BY <1>9, <1>10, <1>11, <1>12, <1>13, <1>14, <1>15, <1>16 DEF Ps2Next

-----------------------------------------------------------------------------
(***************************************************************************)
(* The pointer.                                                            *)
(***************************************************************************)

\* The comparisons of mouse_irq find the nearest place on the screen.
LEMMA ClampIsNearest ==
    ASSUME NEW v \in Int, NEW max \in Nat
    PROVE  Nearest(v, max) = Clamp(v, max) /\ Clamp(v, max) \in 0 .. max
<1> DEFINE Best(w) == \A u \in 0 .. max : Apart(w, v) <= Apart(u, v)
<1>1. PICK c \in 0 .. max : c = Clamp(v, max)
  BY DEF Clamp
<1>2. Best(c)
  BY <1>1 DEF Clamp, Apart
<1>3. ASSUME NEW w \in 0 .. max, Best(w) PROVE w = c
  <2>1. Apart(w, v) <= Apart(c, v)
    BY <1>3
  <2>2. QED
    BY <1>1, <2>1 DEF Clamp, Apart
<1>4. Nearest(v, max) = CHOOSE w \in 0 .. max : Best(w)
  BY DEF Nearest
<1> HIDE DEF Best
<1>5. QED
  BY <1>1, <1>2, <1>3, <1>4

OnScreen == [x : 0 .. MaxX, y : 0 .. MaxY, buttons : 0 .. 7]
Home == [x |-> StartX, y |-> StartY, buttons |-> 0]
Moved(p, r) == [x |-> Nearest(p.x + r.dx, MaxX), y |-> Nearest(p.y - r.dy, MaxY),
                buttons |-> r.buttons]

LEMMA MovesOnScreen ==
    /\ Home \in OnScreen
    /\ \A p \in OnScreen, r \in Reports :
          /\ Moved(p, r) \in OnScreen
          /\ Moved(p, r) = [x |-> Clamp(p.x + r.dx, MaxX), y |-> Clamp(p.y - r.dy, MaxY),
                            buttons |-> r.buttons]
<1>1. Home \in OnScreen
  BY Ps2Assumption DEF Home, OnScreen
<1>2. ASSUME NEW p \in OnScreen, NEW r \in Reports
      PROVE  /\ Moved(p, r) \in OnScreen
             /\ Moved(p, r) = [x |-> Clamp(p.x + r.dx, MaxX), y |-> Clamp(p.y - r.dy, MaxY),
                               buttons |-> r.buttons]
  <2>1. /\ r.buttons \in 0 .. 7 /\ MaxX \in Nat /\ MaxY \in Nat
        /\ p.x + r.dx \in Int /\ p.y - r.dy \in Int
    <3>1. r.buttons \in 0 .. 7 /\ r.dx \in -128 .. 127 /\ r.dy \in -128 .. 127
      BY PacketBytes
    <3>2. MaxX \in Nat /\ MaxY \in Nat
      BY Ps2Assumption
    <3>3. p.x \in 0 .. MaxX /\ p.y \in 0 .. MaxY
      BY DEF OnScreen
    <3>4. QED
      BY <3>1, <3>2, <3>3
  <2>2. /\ Nearest(p.x + r.dx, MaxX) = Clamp(p.x + r.dx, MaxX)
        /\ Clamp(p.x + r.dx, MaxX) \in 0 .. MaxX
    BY <2>1, ClampIsNearest
  <2>3. /\ Nearest(p.y - r.dy, MaxY) = Clamp(p.y - r.dy, MaxY)
        /\ Clamp(p.y - r.dy, MaxY) \in 0 .. MaxY
    BY <2>1, ClampIsNearest
  <2>4. QED
    BY <2>1, <2>2, <2>3 DEF Moved, OnScreen
<1>3. QED
  BY <1>1, <1>2

\* The recursion of Pointed, for the reports rs.
Trail(rs, n) ==
    CHOOSE g : g = [k \in 0 .. n |-> IF k = 0 THEN Home ELSE Moved(g[k - 1], rs[k])]

LEMMA PointedTrail == \A n : Pointed(n) = Trail(reported, n)[n]
BY DEF Pointed, Trail, Home, Moved

\* What the recursion computes, step by step.
LEMMA TrailSteps ==
    ASSUME NEW rs \in Seq(Reports), NEW n \in 0 .. Len(rs)
    PROVE  /\ Trail(rs, n)[0] = Home
           /\ \A i \in 1 .. n : Trail(rs, n)[i] = Moved(Trail(rs, n)[i - 1], rs[i])
           /\ \A i \in 0 .. n : Trail(rs, n)[i] \in OnScreen
<1> DEFINE step == [p \in (1 .. n) \X OnScreen |-> Moved(p[2], rs[p[1]])]
           Body(g) == [k \in 0 .. n |-> IF k = 0 THEN Home ELSE Moved(g[k - 1], rs[k])]
<1>1. n \in Nat /\ Home \in OnScreen /\ \A i \in 1 .. n : rs[i] \in Reports
  BY MovesOnScreen
<1>2. step \in [(1 .. n) \X OnScreen -> OnScreen]
  <2>1. ASSUME NEW p \in (1 .. n) \X OnScreen PROVE Moved(p[2], rs[p[1]]) \in OnScreen
    <3>1. p[1] \in 1 .. n /\ p[2] \in OnScreen /\ rs[p[1]] \in Reports
      BY <1>1
    <3>2. QED
      BY <3>1, MovesOnScreen
  <2>2. QED
    BY <2>1
<1>3. PICK g \in [0 .. n -> OnScreen] :
         g[0] = Home /\ \A i \in 1 .. n : g[i] = step[<<i, g[i - 1]>>]
  <2> HIDE DEF step
  <2>1. \E g : Iterates(g, OnScreen, Home, n, step)
    BY <1>1, <1>2, Iteration
  <2>2. QED
    BY <2>1 DEF Iterates
<1>4. g = Body(g)
  <2>1. ASSUME NEW i \in 0 .. n PROVE g[i] = Body(g)[i]
    <3>1. CASE i = 0
      BY <1>3, <3>1
    <3>2. CASE i # 0
      <4>1. i \in 1 .. n /\ i - 1 \in 0 .. n /\ g[i - 1] \in OnScreen
        BY <1>1, <3>2
      <4>2. step[<<i, g[i - 1]>>] = Moved(g[i - 1], rs[i])
        BY <4>1
      <4>3. QED
        BY <1>3, <3>2, <4>1, <4>2
    <3>3. QED
      BY <3>1, <3>2
  <2>2. QED
    BY <2>1
<1>5. PICK u : u = Trail(rs, n)
  OBVIOUS
<1>6. u = Body(u)
  BY <1>4, <1>5 DEF Trail
<1>7. u[0] = Home
  BY <1>1, <1>6
<1>8. ASSUME NEW i \in 1 .. n PROVE u[i] = Moved(u[i - 1], rs[i])
  <2>1. i \in 0 .. n /\ i # 0
    BY <1>1
  <2>2. Body(u)[i] = Moved(u[i - 1], rs[i])
    BY <2>1
  <2> HIDE DEF Body
  <2>3. QED
    BY <1>6, <2>2
<1>9. \A i \in 0 .. n : u[i] \in OnScreen
  <2> DEFINE T == {i \in 0 .. n : u[i] \in OnScreen}
  <2>1. 0 \in T
    BY <1>1, <1>7
  <2>2. ASSUME NEW k \in 0 .. n - 1, k \in T PROVE k + 1 \in T
    <3>1. k + 1 \in 1 .. n /\ (k + 1) - 1 = k /\ rs[k + 1] \in Reports
      BY <1>1
    <3>2. u[k + 1] = Moved(u[k], rs[k + 1])
      BY <1>8, <3>1
    <3>3. PICK p \in OnScreen, r \in Reports : p = u[k] /\ r = rs[k + 1]
      BY <2>2, <3>1
    <3>4. u[k + 1] \in OnScreen
      BY ZenonT(60), <3>2, <3>3, MovesOnScreen
    <3>5. QED
      BY <1>1, <3>1, <3>4
  <2>3. \A k \in 0 .. n : k \in T
    <3> HIDE DEF T
    <3>1. QED
      BY <1>1, <2>1, <2>2, SetInduction
  <2>4. QED
    BY <2>3
<1>10. QED
  BY <1>5, <1>7, <1>8, <1>9

\* Only the reports that have been followed matter.
LEMMA TrailAgrees ==
    ASSUME NEW rs \in Seq(Reports), NEW rt \in Seq(Reports),
           NEW n \in 0 .. Len(rs), NEW m \in 0 .. Len(rt), n <= m,
           \A i \in 1 .. n : rs[i] = rt[i]
    PROVE  Trail(rs, n)[n] = Trail(rt, m)[n]
<1>1. PICK u, v : u = Trail(rs, n) /\ v = Trail(rt, m)
  OBVIOUS
<1>2. u[0] = Home /\ \A i \in 1 .. n : u[i] = Moved(u[i - 1], rs[i])
  BY <1>1, TrailSteps
<1>3. v[0] = Home /\ \A i \in 1 .. m : v[i] = Moved(v[i - 1], rt[i])
  BY <1>1, TrailSteps
<1>4. n \in Nat /\ m \in Nat
  OBVIOUS
<1> DEFINE T == {k \in 0 .. n : u[k] = v[k]}
<1>5. 0 \in T
  BY <1>2, <1>3, <1>4
<1>6. ASSUME NEW k \in 0 .. n - 1, k \in T PROVE k + 1 \in T
  <2>1. PICK i \in 1 .. n : i = k + 1 /\ i - 1 = k /\ i \in 1 .. m
    BY <1>4
  <2>2. u[i] = Moved(u[k], rs[i]) /\ v[i] = Moved(v[k], rt[i]) /\ rs[i] = rt[i] /\ u[k] = v[k]
    BY <1>2, <1>3, <1>6, <2>1
  <2>3. u[i] = v[i] /\ i \in 0 .. n
    BY <2>2
  <2>4. QED
    BY <2>1, <2>3
<1>7. \A k \in 0 .. n : k \in T
  <2> HIDE DEF T
  <2>1. QED
    BY <1>4, <1>5, <1>6, SetInduction
<1>8. n \in 0 .. n
  BY <1>4
<1>9. QED
  BY <1>1, <1>7, <1>8

\* The whole reports that mouse_irq has read, and where it has moved the pointer.
WholeReports == Len(mouse_heard) \div 3
Pointer == [x |-> mouse_x, y |-> mouse_y, buttons |-> mouse_buttons]

\* mouse_cycle counts the bytes of the next report, the bytes it has are in
\* mouse_packet, and the pointer has followed the ones before.
FollowInv ==
    /\ mouse_cycle = Len(mouse_heard) % 3
    /\ Len(mouse_heard) <= 3 * Len(reported)
    /\ mouse_cycle >= 1 => mouse_packet[1] = Packet(reported[WholeReports + 1])[1]
    /\ mouse_cycle = 2 => mouse_packet[2] = reported[WholeReports + 1].dx
    /\ Pointer = Pointed(WholeReports)

LEMMA CountThrees ==
    \A k, n \in Nat : k <= 3 * n =>
        /\ k \div 3 \in 0 .. n
        /\ k % 3 \in 0 .. 2 /\ k = 3 * (k \div 3) + (k % 3)
        /\ k % 3 # 0 => k \div 3 + 1 \in 1 .. n
        /\ k < 3 * n => k \div 3 + 1 \in 1 .. n
OBVIOUS

\* A new report does not change what has been followed.
LEMMA ReportFollows ==
    ASSUME Ps2Type, FollowInv, NEW r \in Reports, Report(r)
    PROVE  FollowInv'
<1>1. PICK rs, rt, n, k :
         rs = reported /\ rt = reported' /\ n = Len(rs) /\ k = Len(mouse_heard)
  OBVIOUS
<1> rs \in Seq(Reports) /\ k \in Nat
  BY <1>1 DEF Ps2Type, HistoryType
<1>2. /\ rt \in Seq(Reports) /\ n \in Nat /\ Len(rt) = n + 1
      /\ \A i \in 1 .. n : rt[i] = rs[i]
  BY <1>1, AppendProperties DEF Report
<1>3. UNCHANGED <<mouse_heard, mouse_cycle, mouse_packet, Pointer, WholeReports>>
  BY DEF Report, mouse, Pointer, WholeReports
<1>4. PICK w : w = WholeReports
  OBVIOUS
<1>5. k <= 3 * n /\ w = k \div 3 /\ mouse_cycle = k % 3
  BY <1>1, <1>4 DEF FollowInv, WholeReports
<1>6. w \in 0 .. n /\ (mouse_cycle # 0 => w + 1 \in 1 .. n)
  BY <1>1, <1>2, <1>5, CountThrees
<1>7. Trail(rs, w)[w] = Trail(rt, w)[w]
  <2>1. w \in 0 .. Len(rs) /\ w \in 0 .. Len(rt) /\ w <= w /\ \A i \in 1 .. w : rs[i] = rt[i]
    BY <1>1, <1>2, <1>6
  <2>2. QED
    BY <1>2, <2>1, TrailAgrees
<1>8. Pointed(w) = Trail(rs, w)[w]
  BY <1>1, PointedTrail
<1>9. (Pointed(WholeReports))' = Trail(rt, w)[w]
  <2>1. (Pointed(WholeReports))' = Trail(reported', WholeReports')[WholeReports']
    BY DEF Pointed, Trail, Home, Moved
  <2>2. QED
    BY <1>1, <1>3, <1>4, <2>1
<1>10. mouse_cycle # 0 => rt[w + 1] = rs[w + 1]
  BY <1>2, <1>6
<1>11. Len(mouse_heard') <= 3 * Len(reported')
  BY <1>1, <1>2, <1>3, <1>5
<1>12. Pointer' = (Pointed(WholeReports))'
  BY <1>3, <1>4, <1>7, <1>8, <1>9 DEF FollowInv
<1>13. /\ mouse_cycle' >= 1 => mouse_packet'[1] = Packet(reported'[WholeReports' + 1])[1]
       /\ mouse_cycle' = 2 => mouse_packet'[2] = reported'[WholeReports' + 1].dx
  <2>1. /\ mouse_cycle >= 1 => mouse_packet[1] = Packet(rs[w + 1])[1]
        /\ mouse_cycle = 2 => mouse_packet[2] = rs[w + 1].dx
    BY <1>1, <1>4 DEF FollowInv
  <2>2. mouse_cycle \in 0 .. 2
    BY DEF Ps2Type, MouseType
  <2>3. QED
    BY <1>1, <1>3, <1>4, <1>10, <2>1, <2>2
<1>14. mouse_cycle' = Len(mouse_heard') % 3
  BY <1>3 DEF FollowInv
<1>15. QED
  BY <1>11, <1>12, <1>13, <1>14 DEF FollowInv, Packet

\* One more whole report moves the pointer once.
LEMMA PointedStep ==
    ASSUME NEW rs \in Seq(Reports), NEW w \in 0 .. Len(rs) - 1
    PROVE  /\ Trail(rs, w)[w] \in OnScreen
           /\ Trail(rs, w + 1)[w + 1] = Moved(Trail(rs, w)[w], rs[w + 1])
<1>1. /\ w \in 0 .. Len(rs) /\ w + 1 \in 0 .. Len(rs) /\ w <= w + 1 /\ w \in Nat
      /\ (w + 1) - 1 = w /\ w + 1 \in 1 .. w + 1 /\ w \in 0 .. w
  OBVIOUS
<1>2. Trail(rs, w)[w] \in OnScreen
  BY <1>1, TrailSteps
<1>3. Trail(rs, w)[w] = Trail(rs, w + 1)[w]
  <2>1. \A i \in 1 .. w : rs[i] = rs[i]
    OBVIOUS
  <2>2. QED
    BY <1>1, <2>1, TrailAgrees
<1>4. PICK v : v = w + 1
  OBVIOUS
<1>5. v \in 0 .. Len(rs) /\ v \in 1 .. v
  BY <1>1, <1>4
<1>6. Trail(rs, v)[v] = Moved(Trail(rs, v)[v - 1], rs[v])
  BY <1>5, TrailSteps
<1>7. QED
  BY <1>1, <1>2, <1>3, <1>4, <1>6

\* mouse_irq reads the next byte of the reports and follows them.
LEMMA IrqFollows ==
    ASSUME Ps2Type, FollowInv, AuxStream, RequestInv, Irq12
    PROVE  FollowInv'
<1>1. ControllerType /\ HistoryType /\ MouseType
  BY DEF Ps2Type
<1>2. PICK h, o, rs, k, n, w : h = mouse_heard /\ o = mouse_out /\ rs = reported /\
                               k = Len(h) /\ n = Len(rs) /\ w = WholeReports
  OBVIOUS
<1> /\ h \in Seq(Byte) /\ o \in Seq(Byte) /\ rs \in Seq(Reports) /\ k \in Nat /\ n \in Nat
  BY <1>1, <1>2 DEF ControllerType, HistoryType
<1>3. Holds("aux") /\ boot = "done" /\ reported' = reported
  BY DEF Irq12, Serve, RequestInv
<1>4. PICK e \in Byte : e = obuf[2] /\ e = Port
  BY <1>1, <1>3, TakeBytes DEF Holds
<1>5. mouse_heard' = Append(h, e)
  BY <1>2, <1>4 DEF Irq12
<1>6. Len(mouse_heard') = k + 1
  BY <1>2, <1>5, AppendProperties
<1>7. Stream(h, One(e), o) = BytesOf(rs)
  BY <1>1, <1>2, <1>3, <1>4, WaitingBytes DEF AuxStream, Sent
<1>8. k + 1 \in 1 .. 3 * n /\ BytesOf(rs)[k + 1] = e
  <2>1. Len(h) + 1 \in 1 .. Len(Stream(h, One(e), o)) /\ Stream(h, One(e), o)[Len(h) + 1] = e
    BY StreamNext
  <2>2. Len(BytesOf(rs)) = 3 * Len(rs)
    BY ByteOfPacket
  <2>3. QED
    BY <1>2, <1>7, <2>1, <2>2
<1>9. /\ w = k \div 3 /\ mouse_cycle = k % 3 /\ k < 3 * n
      /\ mouse_cycle >= 1 => mouse_packet[1] = Packet(rs[w + 1])[1]
      /\ mouse_cycle = 2 => mouse_packet[2] = rs[w + 1].dx
      /\ Pointer = Trail(rs, w)[w]
  BY <1>2, <1>8, PointedTrail DEF FollowInv, WholeReports
<1>10. w + 1 \in 1 .. n /\ w \in 0 .. n - 1 /\ k = 3 * w + mouse_cycle /\ mouse_cycle \in 0 .. 2
  BY <1>9, CountThrees
<1>11. PICK r \in Reports : r = rs[w + 1]
  BY <1>2, <1>10
<1>12. e = Packet(r)[mouse_cycle + 1]
  <2>1. e = Packet(rs[((k + 1) + 2) \div 3])[(((k + 1) - 1) % 3) + 1]
    BY <1>2, <1>8, ByteOfPacket
  <2>2. ((k + 1) + 2) \div 3 = w + 1 /\ (((k + 1) - 1) % 3) = mouse_cycle
    BY <1>10
  <2>3. QED
    BY <1>11, <2>1, <2>2
<1>13. /\ Bit(Packet(r)[1], 8) /\ Packet(r)[1] % 8 = r.buttons
       /\ ToChar(Packet(r)[2]) = r.dx /\ ToChar(Packet(r)[3]) = r.dy
  BY PacketBytes
<1>14. PICK wn : wn = WholeReports'
  OBVIOUS
<1>15. wn = (k + 1) \div 3
  BY <1>6, <1>14 DEF WholeReports
<1>16. (Pointed(WholeReports))' = Trail(rs, wn)[wn]
  <2>1. (Pointed(WholeReports))' = Trail(reported', WholeReports')[WholeReports']
    BY DEF Pointed, Trail, Home, Moved
  <2>2. QED
    BY <1>2, <1>3, <1>14, <2>1
<1>17. Len(mouse_heard') <= 3 * Len(reported')
  BY <1>2, <1>3, <1>6, <1>8
<1>18. mouse_packet \in [1 .. 3 -> Int]
  BY <1>1 DEF MouseType
<1>19. ASSUME mouse_cycle' = (k + 1) % 3,
              mouse_cycle' >= 1 => mouse_packet'[1] = Packet(rs[wn + 1])[1],
              mouse_cycle' = 2 => mouse_packet'[2] = rs[wn + 1].dx,
              Pointer' = Trail(rs, wn)[wn]
       PROVE  FollowInv'
  BY <1>2, <1>3, <1>6, <1>14, <1>16, <1>17, <1>19 DEF FollowInv, Packet
<1>20. CASE mouse_cycle = 0
  <2>1. MouseFirst(e) /\ Bit(e, 8)
    BY <1>4, <1>12, <1>13, <1>20 DEF Irq12, MouseFirst, MouseSecond, MouseThird
  <2>2. /\ mouse_cycle' = 1 /\ mouse_packet'[1] = Packet(rs[w + 1])[1] /\ Pointer' = Pointer
    BY <1>11, <1>12, <1>18, <1>20, <2>1 DEF MouseFirst, Pointer
  <2>3. wn = w /\ (k + 1) % 3 = 1
    BY <1>10, <1>15, <1>20
  <2>4. QED
    BY <1>9, <1>19, <2>2, <2>3
<1>21. CASE mouse_cycle = 1
  <2>1. MouseSecond(e)
    BY <1>4, <1>21 DEF Irq12, MouseFirst, MouseSecond, MouseThird
  <2>2. /\ mouse_cycle' = 2 /\ mouse_packet'[1] = mouse_packet[1]
        /\ mouse_packet'[2] = ToChar(e) /\ Pointer' = Pointer
    BY <1>18, <2>1 DEF MouseSecond, Pointer
  <2>3. wn = w /\ (k + 1) % 3 = 2
    BY <1>10, <1>15, <1>21
  <2>4. ToChar(e) = rs[w + 1].dx
    BY <1>11, <1>12, <1>13, <1>21
  <2>5. QED
    BY <1>9, <1>19, <1>21, <2>2, <2>3, <2>4
<1>22. CASE mouse_cycle = 2
  <2>1. MouseThird(e)
    BY <1>4, <1>22 DEF Irq12, MouseFirst, MouseSecond, MouseThird
  <2>2. ToChar(e) = r.dy /\ mouse_packet[1] % 8 = r.buttons /\ mouse_packet[2] = r.dx
    BY <1>9, <1>11, <1>12, <1>13, <1>22
  <2>3. /\ mouse_cycle' = 0 /\ mouse_buttons' = r.buttons
        /\ mouse_x' = Clamp(mouse_x + r.dx, MaxX) /\ mouse_y' = Clamp(mouse_y - r.dy, MaxY)
    BY <1>18, <2>1, <2>2 DEF MouseThird
  <2>4. PICK p : p = Trail(rs, w)[w]
    OBVIOUS
  <2>5. p \in OnScreen /\ Trail(rs, w + 1)[w + 1] = Moved(p, r)
    BY <1>2, <1>10, <1>11, <2>4, PointedStep
  <2>6. p.x = mouse_x /\ p.y = mouse_y
    BY <1>9, <2>4 DEF Pointer
  <2>7. Moved(p, r) = [x |-> Clamp(p.x + r.dx, MaxX), y |-> Clamp(p.y - r.dy, MaxY),
                       buttons |-> r.buttons]
    BY <2>5, MovesOnScreen
  <2>8. Pointer' = Moved(p, r)
    BY <2>3, <2>6, <2>7 DEF Pointer
  <2>9. wn = w + 1 /\ (k + 1) % 3 = 0
    BY <1>10, <1>15, <1>22
  <2>10. QED
    BY <1>19, <2>3, <2>5, <2>8, <2>9
<1>23. QED
  BY <1>10, <1>20, <1>21, <1>22

LEMMA FollowStep ==
    Ps2Type /\ BootInv /\ (~ stray => RequestInv /\ AuxStream /\ FollowInv) /\
        [Ps2Next]_ps2Vars => (~ stray' => FollowInv')
<1> SUFFICES ASSUME Ps2Type, BootInv, ~ stray => RequestInv /\ AuxStream /\ FollowInv,
                    ~ stray', Ps2Next \/ UNCHANGED ps2Vars
             PROVE  FollowInv'
  OBVIOUS
<1>1. RequestInv /\ AuxStream /\ FollowInv
  BY StrayStays
<1>2. CASE \E r \in Reports : Report(r)
  BY <1>1, <1>2, ReportFollows
<1>3. CASE Irq12
  BY <1>1, <1>3, IrqFollows
<1>4. CASE ~ Irq12 /\ ~ \E r \in Reports : Report(r)
  <2>1. UNCHANGED <<mouse, mouse_heard, reported>>
    BY <1>4 DEF Ps2Next, Press, FillAnswer, FillKbd, FillAux, Fill, MouseInitStart,
       MouseInitConfig, MouseInitAck, Irq1, Serve, SysRead, ps2Vars, history
  <2>2. UNCHANGED Pointed(WholeReports)
    BY <2>1 DEF Pointed, WholeReports
  <2>3. QED
    BY <1>1, <2>1, <2>2 DEF FollowInv, mouse, Pointer, WholeReports, Packet
<1>5. QED
  BY <1>2, <1>3, <1>4

\* While no byte has gone astray.
InStep == ~ stray => RequestInv /\ KbdStream /\ AuxStream /\ FollowInv

LEMMA InitInStep == Ps2Init => BootInv /\ QuietBoot /\ InStep
<1> SUFFICES ASSUME Ps2Init PROVE BootInv /\ QuietBoot /\ InStep
  OBVIOUS
<1>1. BootInv /\ QuietBoot /\ RequestInv
  BY DEF Ps2Init, BootInv, QuietBoot, RequestInv, Holds
<1>2. PICK nil : nil = << >>
  OBVIOUS
<1>3. nil \in Seq(Byte) /\ nil \in Seq(Reports) /\ 0 \in Byte
  BY <1>2 DEF Byte
<1>4. Stream(nil, nil, nil) = nil
  <2>1. Cat(nil, << >>) = nil
    BY <1>3, CatLaws
  <2>2. QED
    BY <1>2, <2>1 DEF Stream
<1>5. BytesOf(nil) = nil
  <2>1. Len(nil) = 0
    BY <1>2
  <2>2. BytesOf(nil) \in Seq(Byte) /\ Len(BytesOf(nil)) = 3 * Len(nil)
    BY <1>3, ByteOfPacket
  <2>3. Len(BytesOf(nil)) = 0
    BY <2>1, <2>2
  <2>4. QED
    BY <1>2, <2>2, <2>3
<1>6. KbdStream /\ AuxStream
  BY <1>2, <1>4, <1>5 DEF Ps2Init, KbdStream, AuxStream, Sent, Waiting
<1>7. FollowInv
  <2>1. WholeReports = 0 /\ Len(mouse_heard) = 0 /\ Len(reported) = 0 /\ mouse_cycle = 0
    BY DEF Ps2Init, WholeReports
  <2>2. Trail(reported, 0)[0] = Home
    <3>1. reported = nil /\ 0 \in 0 .. Len(reported)
      BY <1>2, <2>1 DEF Ps2Init
    <3>2. QED
      BY <1>3, <3>1, TrailSteps
  <2>3. Pointer = Home
    BY DEF Ps2Init, Pointer, Home
  <2>4. Pointed(0) = Home
    BY <2>2, PointedTrail
  <2>5. QED
    BY <2>1, <2>3, <2>4 DEF FollowInv
<1>8. QED
  BY <1>1, <1>6, <1>7 DEF InStep

LEMMA StepInStep ==
    Ps2Type /\ BootInv /\ QuietBoot /\ InStep /\ [Ps2Next]_ps2Vars
        => BootInv' /\ QuietBoot' /\ InStep'
BY BootStep, QuietBootStep, RequestStep, KbdStreamStep, AuxStreamStep, FollowStep DEF InStep

\* Every byte of the keyboard and of the mouse reaches the handler of its device, once
\* and in order, and the reports stay in step, for every configuration, any reports and
\* keys and any interleaving of the two devices, unless mouse_init took a wrong byte.
THEOREM EveryByteInStep == Ps2Spec => []BytesInStep
<1>1. BootInv /\ QuietBoot /\ InStep => BytesInStep
  <2>1. Bytes(Len(reported)) = BytesOf(reported)
    BY DEF Bytes, BytesOf
  <2>2. QED
    BY <2>1 DEF InStep, BytesInStep, KbdStream, AuxStream, FollowInv, Sent, Stream, Cat
<1>2. QED
  BY <1>1, InitInStep, StepInStep, Ps2TypeCorrect, PTL DEF Ps2Spec

\* The pointer is where all whole reports have moved it, each to the nearest place on
\* the screen, for a screen of any size and any movements of a signed byte.
THEOREM PointerFollowsMouse == Ps2Spec => []PointerFollows
<1>1. InStep => PointerFollows
  BY DEF InStep, FollowInv, PointerFollows, Pointer, WholeReports
<1>2. QED
  BY <1>1, InitInStep, StepInStep, Ps2TypeCorrect, PTL DEF Ps2Spec
=============================================================================
