---------------------------- MODULE TimerService ----------------------------
(***************************************************************************)
(* What EventLoop::runAt, runAfter and runEvery promise, without a timer   *)
(* descriptor, a queue or a loop: no callback is called before the wall    *)
(* clock has shown the time it is due, a timer that does not repeat is     *)
(* called at most once, one that repeats is next due a whole interval      *)
(* after its callback, and a timer that is over is never touched again.    *)
(* TimerQueue.tla implements this module.                                  *)
(***************************************************************************)
EXTENDS Integers

CONSTANTS Timers,
          Interval     \* per timer: its interval, 0 if it does not repeat

VARIABLES clock,       \* the wall clock; it may be set
          shown,       \* the latest time the wall clock ever showed
          stage,       \* per timer: "new", "set", "called", "over"
          due          \* per timer: when it is due

timerVars == <<clock, shown, stage, due>>

ServiceInit == /\ clock \in Int
               /\ shown = clock
               /\ stage = [t \in Timers |-> "new"]
               /\ due \in [Timers -> Int]

Clock == /\ clock' \in Int
         /\ shown' = IF clock' > shown THEN clock' ELSE shown
         /\ UNCHANGED <<stage, due>>

Becomes(t, next) == /\ stage' = [stage EXCEPT ![t] = next]
                    /\ UNCHANGED <<clock, shown>>

\* A time in the past is as good as any.
Set(t) == /\ stage[t] = "new"
          /\ due'[t] \in Int
          /\ due' = [due EXCEPT ![t] = due'[t]]
          /\ Becomes(t, "set")

Call(t) == /\ stage[t] = "set" /\ due[t] <= shown
           /\ Becomes(t, "called") /\ UNCHANGED due

Again(t) == /\ stage[t] = "called" /\ Interval[t] > 0
            /\ due' = [due EXCEPT ![t] = clock + Interval[t]]
            /\ Becomes(t, "set")

Finish(t) == /\ stage[t] = "called" /\ Interval[t] = 0
             /\ Becomes(t, "over") /\ UNCHANGED due

\* The service ends between two callbacks, and timers that are set with it.
Shutdown == /\ \A t \in Timers : stage[t] # "called"
            /\ \E some \in SUBSET {t \in Timers : stage[t] = "set"} :
                  stage' = [t \in Timers |-> IF t \in some THEN "over" ELSE stage[t]]
            /\ UNCHANGED <<clock, shown, due>>

ServiceNext == \/ Clock \/ Shutdown
               \/ \E t \in Timers : Set(t) \/ Call(t) \/ Again(t) \/ Finish(t)

ServiceSpec == ServiceInit /\ [][ServiceNext]_timerVars
=============================================================================
