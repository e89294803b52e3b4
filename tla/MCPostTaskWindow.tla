--------------------------- MODULE MCPostTaskWindow ---------------------------
(* Finite instances of PostTaskWindow for TLC. *)
EXTENDS PostTaskWindow, TLC

MCSymmetry == Permutations(Task) \cup Permutations(Message)
=============================================================================
