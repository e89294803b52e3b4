------------------------ MODULE MCAttentionAccumulator ------------------------
(* A finite instance of AttentionAccumulator for TLC. *)
EXTENDS AttentionAccumulator

CONSTANTS a, b, t

MCSignal(w, ag, ig) ==
  [chat |-> a, topic |-> t, weight |-> w, age |-> ag, ignored |-> ig]

\* A fresh start, and a pool with two signals of a topic, as a release wrote it
\* that kept ignored signals and did not merge them.
MCInitialPools == { {}, {MCSignal(1, 0, 0), MCSignal(1, 1, 1)} }

\* To reproduce what the README says of ignored signals.
MCEmptyPool == { {} }
=============================================================================
