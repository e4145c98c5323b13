---------------------------- MODULE MCShellLine -----------------------------
(* The line editor on a screen of a few cells. *)
EXTENDS ShellLine

CONSTANT a

MCPrompts == {<<a>>}
MCOutputs == {<<a, "newline">>}
=============================================================================
