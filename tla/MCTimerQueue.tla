---------------------------- MODULE MCTimerQueue ----------------------------
(* A small instance of TimerQueue for TLC: one timer in three repeats. *)
EXTENDS TimerQueue

OneRepeats == [t \in Timers |-> IF t = 2 THEN 1 ELSE 0]
Ahead == {-1, 2}
=============================================================================
