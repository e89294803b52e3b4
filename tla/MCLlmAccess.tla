------------------------------ MODULE MCLlmAccess ------------------------------
(* A finite instance of LlmAccess for TLC: a profile with two keys falls back *)
(* to one with a single key; the limiter allows one request at a time, and    *)
(* one a minute of the second profile, or is switched off.                    *)
EXTENDS LlmAccess, TLC

CONSTANTS k1, k2

MCKeysOf == <<{k1, k2}, {}>>
MCConfig ==
  {[enabled |-> TRUE, concurrency |-> (0 :> 1 @@ 1 :> 0 @@ 2 :> 0),
    rpm |-> (0 :> 0 @@ 1 :> 0 @@ 2 :> 1)],
   [enabled |-> FALSE, concurrency |-> (0 :> 0 @@ 1 :> 0 @@ 2 :> 1),
    rpm |-> (0 :> 0 @@ 1 :> 0 @@ 2 :> 0)]}
=============================================================================
