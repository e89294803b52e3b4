--------------------------- MODULE MCCodeActSession ---------------------------
(* A finite instance of CodeActSession for TLC: four messages and four turns. *)
EXTENDS CodeActSession
=============================================================================
