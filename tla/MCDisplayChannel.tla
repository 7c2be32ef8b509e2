------------------------- MODULE MCDisplayChannel -------------------------
(***************************************************************************)
(* Instances of DisplayChannel for TLC.  The 16-bit operation numbers, the *)
(* 24-bit open end and the limits are scaled down together, so that a run  *)
(* wraps the numbers, trims the history and trips both circuit breakers.   *)
(***************************************************************************)
EXTENDS DisplayChannel

=============================================================================
