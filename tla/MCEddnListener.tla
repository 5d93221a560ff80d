--------------------------- MODULE MCEddnListener ---------------------------
(***************************************************************************)
(* Instances of EddnListener.  The code's 30 s timeout and 10 s check      *)
(* interval are Timeout = 3 and CheckInterval = 1 in ticks of 10 s; ticks  *)
(* of 5 s give the thread a sleep that is interrupted by heartbeats.       *)
(***************************************************************************)
EXTENDS EddnListener

=============================================================================
