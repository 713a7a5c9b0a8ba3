------------------------------ MODULE MCTimers ------------------------------
(***************************************************************************)
(* Small instances of Timers for TLC: the configuration gives the bounds.  *)
(***************************************************************************)
EXTENDS TimersProperties
=============================================================================
