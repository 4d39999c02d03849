---------------------------- MODULE MCGuiSession ----------------------------
(***************************************************************************)
(* Instances of GuiSession for TLC: the files that are opened and meshed,  *)
(* and the programs with the solver's output.                              *)
(***************************************************************************)
EXTENDS GuiSession

CONSTANTS a, newline, ball, none
OneLetter == {a}
Files == {ball, none}
AllGenerators == {"GEN_UNKNOWN", "GEN_TETLIB", "GEN_NGLIB", "GEN_ELMERGRID"}
=============================================================================
