---------------------------- MODULE MCTimerMgmt ----------------------------
(* TimerMgmt on a small instance. *)
EXTENDS TimerMgmt, TLC
=============================================================================
