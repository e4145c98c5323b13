----------------------------- MODULE FatListing -----------------------------
(***************************************************************************)
(* Listing the current directory with repeated SYS_READDIR calls, as the   *)
(* shell's ls does (userspace/shell.c), on the file system of Fat32.       *)
(***************************************************************************)
EXTENDS Fat32

VARIABLES
    index,   \* the index the program passes in and gets back
    listed,  \* the entries returned so far
    ended    \* a call has returned -1

listing == <<index, listed, ended>>

LInit == Init /\ index = 0 /\ listed = << >> /\ ended = FALSE

\* The slots that fat32_readdir passes over.
Passed == {"del", "lfn"}

\* The slots fat32_readdir may return for an index: the first live one from
\* there on, if no end mark comes before it.
NextListed(i) ==
    LET w == Walk(fat, cwd)
        kind(p) == SlotAt(At(w, p)).kind
    IN  {p \in Positions(w) :
            /\ p > i /\ kind(p) = "live"
            /\ \A q \in i + 1 .. p - 1 : kind(q) \in Passed}

\* Mutant of readdir: the index moves on to the next cluster.
readdirSkip ==
    /\ ~ ended
    /\ \/ \E p \in NextListed(index) :
             /\ listed' = Append(listed, At(Walk(fat, cwd), p))
             /\ index' = p + 1
             /\ ended' = FALSE
       \/ /\ NextListed(index) = {}
          /\ ended' = TRUE
          /\ UNCHANGED <<index, listed>>
    /\ UNCHANGED vars

\* SYS_READDIR: the entry found is returned and the index goes up by one, however
\* many deleted and long-name slots were passed over.
readdir ==
    /\ ~ ended
    /\ \/ \E p \in NextListed(index) :
             /\ listed' = Append(listed, At(Walk(fat, cwd), p))
             /\ index' = index + 1
             /\ ended' = FALSE
       \/ /\ NextListed(index) = {}
          /\ ended' = TRUE
          /\ UNCHANGED <<index, listed>>
    /\ UNCHANGED vars

\* Any other call ends the listing; the next one starts at index 0.
Other ==
    /\ Next
    /\ index' = 0 /\ listed' = << >> /\ ended' = FALSE

LSpec == LInit /\ [][readdir \/ Other]_<<vars, listing>>

\* A listing that has run to its end has returned every entry of the directory: once,
\* and once more for every deleted or long-name slot just before it, since the index
\* then goes up by less than was passed over.
ListingComplete ==
    ended =>
        LET w == Walk(fat, cwd)
            kind(p) == SlotAt(At(w, p)).kind
            before(p) == {q \in 1 .. p - 1 : \A r \in q .. p - 1 : kind(r) \in {"del", "lfn"}}
            times(p) == Cardinality({k \in 1 .. Len(listed) : listed[k] = At(w, p)})
        IN  \A p \in Positions(w) :
                kind(p) = "live" => times(p) = 1 + Cardinality(before(p))
=============================================================================
