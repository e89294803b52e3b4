------------------------------ MODULE MCMainLoop ------------------------------
(* Finite instances of MainLoop for TLC. *)
EXTENDS MainLoop
=============================================================================
