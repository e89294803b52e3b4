--------------------------- MODULE MCCodeActExecutor ---------------------------
(* Finite instances of CodeActExecutor for TLC. *)
EXTENDS CodeActExecutor, TLC

MCSymmetry == Permutations(Task)
=============================================================================
