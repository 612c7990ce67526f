---------------------------- MODULE MCScheduler ----------------------------
(* Small instances of Scheduler for TLC.                                   *)
EXTENDS Scheduler

MCKinds == {1}
MCTimes == 1..2
MCNoTimes == {}
=============================================================================
