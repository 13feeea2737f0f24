---------------------------- MODULE MCScheduler ----------------------------
(* Instances of Scheduler for TLC. *)
EXTENDS Scheduler
MCMillis == {0, 7, 62}
LiveMillis == {3}
=============================================================================
