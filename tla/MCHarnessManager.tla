---------------------------- MODULE MCHarnessManager ---------------------------
(* A finite instance of HarnessManager for TLC: the limits on retries, on the   *)
(* history and on the journals are cut down so that each is exceeded.           *)
EXTENDS HarnessManager
================================================================================
