-------------------------- MODULE MCRecordingPipeline --------------------------
(* A finite instance of RecordingPipeline for TLC: thresholds of three and two *)
(* messages, batches of two, a buffer of three.                                *)
EXTENDS RecordingPipeline

CONSTANTS t1, t2
=============================================================================
