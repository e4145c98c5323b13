----------------------------- MODULE MCTerminal -----------------------------
(* Terminal on a screen whose width is not a multiple of the glyph's. *)
EXTENDS Terminal

\* A pointer with opaque and transparent pixels.
MCShape == {<<0, 0>>, <<1, 1>>}
=============================================================================
