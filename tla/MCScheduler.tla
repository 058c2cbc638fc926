---------------------------- MODULE MCScheduler ----------------------------
(* Small instances of Scheduler for TLC. *)
EXTENDS Scheduler
CONSTANTS a, b, c, d

TwoTasks == {Idle, a, b}
FourTasks == {Idle, a, b, c, d}
=============================================================================
