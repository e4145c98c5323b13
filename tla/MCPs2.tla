-------------------------------- MODULE MCPs2 -------------------------------
(***************************************************************************)
(* TLC instance of Ps2: a small ring; the prefix, a letter, its release    *)
(* and a cursor key; two movements, one of them with a byte that could be  *)
(* the first of a packet.  Handlers may also meet bytes that are not keys. *)
(***************************************************************************)
EXTENDS Ps2

MCkeymap == [sc \in MakeCode |-> IF sc = 30 THEN 97 ELSE 0]
MCReports == {[buttons |-> 1, dx |-> -3, dy |-> 1], [buttons |-> 0, dx |-> 8, dy |-> -1]}
=============================================================================
