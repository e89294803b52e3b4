----------------------------- MODULE MCSandboxPool -----------------------------
(* A finite instance of SandboxPool for TLC: a chat whose sandbox the debug   *)
(* console shares with the executor, a chat with its executor alone, and room *)
(* for one instance.                                                          *)
EXTENDS SandboxPool, TLC

CONSTANTS a, b, executorA, debugA, executorB

MCChatOf == (executorA :> a) @@ (debugA :> a) @@ (executorB :> b)
=============================================================================
