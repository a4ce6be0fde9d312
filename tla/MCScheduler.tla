---------------------------- MODULE MCScheduler ----------------------------
(* Bounds for Scheduler: the tables that a few registrations can build. *)
EXTENDS Scheduler

\* As register makes them: the control task (every tick), a slower task, a one-shot.
Registered == {<<1, 1>>, <<2, 2>>, <<1, 0>>}
=============================================================================
