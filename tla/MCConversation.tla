---------------------------- MODULE MCConversation ----------------------------
(* A finite instance of Conversation for TLC: two deletions at a time, which  *)
(* are alike.                                                                 *)
EXTENDS Conversation, TLC

Deletions == Permutations(Delete)
=============================================================================
