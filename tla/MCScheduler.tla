---------------------------- MODULE MCScheduler ----------------------------
(* Two servers share the schedule.                                         *)
EXTENDS Scheduler

CONSTANTS s1, s2
=============================================================================
