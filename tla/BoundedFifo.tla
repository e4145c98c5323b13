---------------------------- MODULE BoundedFifo ----------------------------
(***************************************************************************)
(* What the keyboard driver promises the rest of the kernel: a first-in    *)
(* first-out queue of characters that holds at most Capacity of them and   *)
(* refuses a new one when it is full.  One read may take several.          *)
(***************************************************************************)
EXTENDS Integers, Sequences

CONSTANTS Values, Capacity

VARIABLES
    queue,
    input    \* everything the queue has accepted

Init == queue = << >> /\ input = << >>

\* The producer offers a value; a full queue ignores it.
Put == /\ Len(queue) < Capacity
       /\ input' # input
       /\ \E v \in Values :
             /\ input' = Append(input, v)
             /\ queue' = Append(queue, v)

\* The consumer takes the n oldest values, all at once.
Take == \E n \in 1 .. Len(queue) :
           /\ queue' = SubSeq(queue, n + 1, Len(queue))
           /\ UNCHANGED input

Next == Put \/ Take

Spec == Init /\ [][Next]_<<queue, input>>
=============================================================================
