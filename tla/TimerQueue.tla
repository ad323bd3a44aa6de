----------------------------- MODULE TimerQueue -----------------------------
(***************************************************************************)
(* TimerQueue.cc and Timer.cc on their EventLoop: timers are added by the  *)
(* loop's thread (by a callback too) or through the functor queue by other *)
(* threads; the timer descriptor tells the loop that the first is due.     *)
(*                                                                         *)
(* There are two clocks.  Timestamp::now() is the wall clock, which can be *)
(* set; the descriptor counts on the monotonic clock.  Time is counted in  *)
(* units of 100 microseconds, the least time the descriptor is armed for.  *)
(* Time may pass, and the clock be set, before any step of the loop.       *)
(*                                                                         *)
(* A callback does anything, in particular it adds timers: these are steps *)
(* of their own while it runs.                                             *)
(***************************************************************************)
EXTENDS Integers, Sequences

CONSTANTS Timers,      \* the Timer objects, as their addresses
          Interval,    \* per timer: interval_, 0 if it does not repeat
          Delays,      \* how far ahead of now a timer may be set (or behind)
          Never,       \* the descriptor is not armed
          MaxTime,     \* bound: the monotonic clock
          MaxSet       \* bound: how often the wall clock is set, a unit each

ASSUME TimersAssumption == Timers \subseteq Nat /\ Interval \in [Timers -> Nat]
ASSUME DelaysAssumption == Delays \subseteq Int
ASSUME NeverAssumption == Never \notin Int
ASSUME BoundsAssumption == MaxTime \in Nat /\ MaxSet \in Nat

VARIABLES mono,      \* the monotonic clock
          wall,      \* Timestamp::now()
          setBack,   \* history: the wall clock was set back
          setAhead,  \* history: the wall clock was set ahead
          jumps,     \* bound: how often it was set
          shown,     \* history: the latest time the wall clock showed
          stage,     \* per Timer: "new", "queued" (in a functor), "set", "over"
          exp,       \* per Timer: expiration_
          timers,    \* timers_: a set of <<time, Timer>>
          armed,     \* the descriptor: the monotonic time it expires, or Never
          queued,    \* pendingFunctors_: the addTimerInLoop of other threads
          at,        \* the loop: "poll", "active", "read", "call", "reset", "gone"
          expired,   \* handleRead's vector of entries, in the order of the set
          done,      \* those of them the present loop has dealt with
          crossed    \* history: the descriptor was armed between poll and handleRead

vars == <<mono, wall, setBack, setAhead, jumps, shown, stage, exp, timers, armed,
          queued, at, expired, done, crossed>>
clocks == <<mono, wall, setBack, setAhead, jumps, shown>>
local == <<at, expired, done, crossed>>

----------------------------------------------------------------------------
(* timers_ is a std::set of pairs *)

Before(e, f) == e[1] < f[1] \/ (e[1] = f[1] /\ e[2] < f[2])

\* *timers_.begin()
First(set) == CHOOSE e \in set : \A f \in set \ {e} : Before(e, f)

\* MUTANT: the entries up to the present time and one unit.
ExpiredEarly(now) == {e \in timers : e[1] <= now + 1}

\* getExpired(): the entries up to <now, UINTPTR_MAX>.
Expired(now) == {e \in timers : e[1] <= now}

----------------------------------------------------------------------------
(* The descriptor *)

\* timerfd_settime: relative, on the monotonic clock, and at least one unit.  The
\* code reads now() just before it: what a timer waits for holds up to that gap.
ResetTimerfd(when) ==
    armed' = mono + (IF when - wall < 1 THEN 1 ELSE when - wall)

Readable == armed # Never /\ armed <= mono

\* read(): the descriptor is one-shot; if it has not expired, EAGAIN is logged.
ReadTimerFd == armed' = IF Readable THEN Never ELSE armed

----------------------------------------------------------------------------
Init == /\ mono = 0 /\ wall = 0 /\ shown = 0
        /\ setBack = FALSE /\ setAhead = FALSE /\ jumps = 0
        /\ stage = [t \in Timers |-> "new"]
        /\ exp = [t \in Timers |-> 0]
        /\ timers = {} /\ armed = Never /\ queued = <<>>
        /\ at = "poll" /\ expired = {} /\ done = {}
        /\ crossed = FALSE

----------------------------------------------------------------------------
(* Time *)

Later(a, b) == IF a > b THEN a ELSE b

\* Bound: beyond MaxTime time only passes for the descriptor to expire while a
\* timer that does not repeat is set.
TimeLeft == \/ mono < MaxTime
            \/ /\ armed # Never /\ mono < armed
               /\ \E t \in Timers : stage[t] = "set" /\ Interval[t] = 0

Tick == /\ TimeLeft /\ at # "gone"
        /\ mono' = mono + 1 /\ wall' = wall + 1
        /\ shown' = Later(shown, wall + 1)
        /\ UNCHANGED <<setBack, setAhead, jumps, stage, exp, timers, armed, queued, local>>

\* Somebody, or something, sets the wall clock.
SetClock == /\ jumps < MaxSet /\ at # "gone"
            /\ jumps' = jumps + 1
            /\ \/ wall' = wall - 1 /\ setBack' = TRUE /\ UNCHANGED setAhead
               \/ wall' = wall + 1 /\ setAhead' = TRUE /\ UNCHANGED setBack
            /\ shown' = Later(shown, wall')
            /\ UNCHANGED <<mono, stage, exp, timers, armed, queued, local>>

----------------------------------------------------------------------------
(* Adding timers *)

\* MUTANT: only a timer that is alone arms the descriptor.
AddTimerInLoopAlone(t, when) ==
    /\ timers' = timers \cup {<<when, t>>}
    /\ IF timers = {} THEN ResetTimerfd(when) ELSE UNCHANGED armed

\* addTimerInLoop(): the descriptor is armed anew if the timer is the first.
AddTimerInLoop(t, when) ==
    /\ timers' = timers \cup {<<when, t>>}
    /\ IF timers = {} \/ when < First(timers)[1]
       THEN ResetTimerfd(when)
       ELSE UNCHANGED armed

\* new Timer: runAt and runAfter take any time, runEvery the interval from now.
NewTimer(t, when, next) ==
    /\ stage[t] = "new" /\ at # "gone"
    /\ \E d \in Delays : when = wall + (IF Interval[t] > 0 THEN Interval[t] ELSE d)
    /\ exp' = [exp EXCEPT ![t] = when]
    /\ stage' = [stage EXCEPT ![t] = next]

Whens == {wall + d : d \in Delays \cup {Interval[t] : t \in Timers}}

\* addTimer() on the loop's thread: by a timer's callback, or by another handler
\* or a functor, also between the poll and handleRead.
AddHere(t) == \E when \in Whens :
    /\ at \in {"poll", "active"} \/ (at = "call" /\ done # expired)
    /\ NewTimer(t, when, "set")
    /\ AddTimerInLoop(t, when)
    /\ crossed' = (crossed \/ (at = "active" /\ armed' # armed))
    /\ UNCHANGED <<clocks, queued, at, expired, done>>

\* addTimer() on another thread: addTimerInLoop is queued.
AddElsewhere(t) == \E when \in Whens :
    /\ NewTimer(t, when, "queued")
    /\ queued' = Append(queued, t)
    /\ UNCHANGED <<clocks, timers, armed, local>>

\* The functor runs after the active channels have been handled.
RunFunctor == /\ at = "poll" /\ queued # <<>>
              /\ stage' = [stage EXCEPT ![Head(queued)] = "set"]
              /\ AddTimerInLoop(Head(queued), exp[Head(queued)])
              /\ queued' = Tail(queued)
              /\ UNCHANGED <<clocks, exp, local>>

----------------------------------------------------------------------------
(* handleRead() *)

\* The poll reports the descriptor; other channels may be handled first.
Poll == /\ at = "poll" /\ Readable
        /\ at' = "active"
        /\ UNCHANGED <<clocks, stage, exp, timers, armed, queued, expired, done, crossed>>

\* The time is taken, and the entries with it: the read between the two does not
\* touch timers_.
HandleRead == /\ at = "active"
              /\ expired' = Expired(wall)
              /\ timers' = timers \ Expired(wall)
              /\ at' = "read"
              /\ UNCHANGED <<clocks, stage, exp, armed, queued, done, crossed>>

\* The descriptor is read later than the time was taken.
Read == /\ at = "read"
        /\ ReadTimerFd
        /\ at' = "call"
        /\ UNCHANGED <<clocks, stage, exp, timers, queued, expired, done, crossed>>

\* The next entry of the loop over the expired ones.
NextExpired(e) == /\ done # expired
                  /\ e = First(expired \ done)
                  /\ done' = done \cup {e}

\* The callback of the next expired timer returns.
Run == /\ at = "call"
       /\ \E e \in expired : NextExpired(e)
       /\ UNCHANGED <<clocks, stage, exp, timers, armed, queued, at, expired, crossed>>

EndCalls == /\ at = "call" /\ done = expired
            /\ at' = "reset" /\ done' = {}
            /\ UNCHANGED <<clocks, stage, exp, timers, armed, queued, expired, crossed>>

\* Timer::restart and insert, or delete.
Renew(t) ==
    IF Interval[t] > 0
    THEN /\ exp' = [exp EXCEPT ![t] = wall + Interval[t]]
         /\ timers' = timers \cup {<<wall + Interval[t], t>>}
         /\ UNCHANGED stage
    ELSE /\ stage' = [stage EXCEPT ![t] = "over"]
         /\ UNCHANGED <<exp, timers>>

\* MUTANT: the descriptor is left to the timers that are inserted.
ResetInserted == /\ at = "reset"
                 /\ \E e \in expired :
                       /\ NextExpired(e)
                       /\ Renew(e[2])
                       /\ IF Interval[e[2]] > 0
                          THEN ResetTimerfd(First(timers')[1]) ELSE UNCHANGED armed
                 /\ UNCHANGED <<clocks, queued, at, expired, crossed>>

\* reset(), once per expired entry: the descriptor is armed anew each time.
Reset == /\ at = "reset"
         /\ \E e \in expired : NextExpired(e) /\ Renew(e[2])
         /\ IF timers' # {} THEN ResetTimerfd(First(timers')[1]) ELSE UNCHANGED armed
         /\ UNCHANGED <<clocks, queued, at, expired, crossed>>

EndReset == /\ at = "reset" /\ done = expired
            /\ at' = "poll" /\ expired' = {} /\ done' = {}
            /\ UNCHANGED <<clocks, stage, exp, timers, armed, queued, crossed>>

\* ~TimerQueue, on the loop's thread: the timers in timers_ are deleted and the
\* descriptor closed.  The Timer of a functor that never ran is not.
Destroy == /\ at = "poll"
           /\ stage' = [t \in Timers |-> IF \E e \in timers : e[2] = t
                                         THEN "over" ELSE stage[t]]
           /\ timers' = {} /\ armed' = Never /\ at' = "gone"
           /\ UNCHANGED <<clocks, exp, queued, expired, done, crossed>>

----------------------------------------------------------------------------
LoopStep == RunFunctor \/ Poll \/ HandleRead \/ Read \/ Run \/ EndCalls \/ Reset \/ EndReset

Next == \/ Tick \/ SetClock \/ LoopStep \/ Destroy
        \/ \E t \in Timers : AddHere(t) \/ AddElsewhere(t)

Spec == Init /\ [][Next]_vars

\* Time passes, the loop's thread runs, and callbacks return.
FairSpec == Spec /\ WF_vars(Tick) /\ WF_vars(LoopStep)

----------------------------------------------------------------------------
TypeOK == /\ mono \in Nat /\ wall \in Int /\ shown \in Int
          /\ setBack \in BOOLEAN /\ setAhead \in BOOLEAN /\ jumps \in Nat
          /\ stage \in [Timers -> {"new", "queued", "set", "over"}]
          /\ exp \in [Timers -> Int]
          /\ timers \in SUBSET (Int \X Timers)
          /\ armed \in Int \cup {Never}
          /\ queued \in Seq(Timers)
          /\ at \in {"poll", "active", "read", "call", "reset", "gone"}
          /\ crossed \in BOOLEAN
          /\ expired \in SUBSET (Int \X Timers) /\ done \in SUBSET expired

\* While the loop waits, the descriptor is armed if there is a timer: for the first
\* one, or the least time, unless the wall clock was set.  Two things break this,
\* both by a handleRead that finds nothing expired, after which reset() does not
\* arm: the wall clock set back, and a descriptor that another handler of the same
\* poll armed anew, which expires when the time has been taken but not yet read.
Armed == ~setBack /\ ~crossed /\ timers # {} =>
            /\ at \in {"poll", "active"} => armed # Never
            /\ at = "poll" /\ ~setAhead => armed - mono <= Later(First(timers)[1] - wall, 1)

\* Callbacks come no earlier than due, one after the other for each timer and once
\* for one that does not repeat, and a deleted Timer is never touched.
Called(t) == \/ at = "call" /\ \E e \in done : e[2] = t
             \/ at = "reset" /\ \E e \in expired \ done : e[2] = t
Stage(t) == CASE stage[t] = "queued" -> "set"
              [] stage[t] = "set" /\ Called(t) -> "called"
              [] OTHER -> stage[t]

Service == INSTANCE TimerService WITH clock <- wall,
                                      stage <- [t \in Timers |-> Stage(t)],
                                      due <- exp
Promised == Service!ServiceSpec

\* A timer that is set is called and deleted, whatever is added and called in the
\* meantime, but for the two cases above.  (Of those that do not repeat: MaxTime
\* ends the time of the others.)
Fires == \A t \in Timers :
    (stage[t] = "set" /\ Interval[t] = 0) ~> (stage[t] = "over" \/ setBack \/ crossed)
=============================================================================
