----------------------------- MODULE LoopThread -----------------------------
(***************************************************************************)
(* How the I/O threads come up and go down: the owner of the pool starts   *)
(* them one by one (EventLoopThreadPool.cc, EventLoopThread.cc, Thread.cc) *)
(* and gets the address of a loop that lives on the thread's stack; the    *)
(* destructors tell each loop to quit and join its thread.  What a loop    *)
(* does with functors and channels is module EventLoop's; here it polls    *)
(* until it quits.                                                         *)
(***************************************************************************)
EXTENDS Naturals, Sequences

CONSTANT NumThreads      \* numThreads_

ASSUME NumThreadsAssumption == NumThreads \in Nat

Threads == 1..NumThreads

VARIABLES owner,     \* where the owner is in start() or the destructors, and at which thread
          asleep,    \* the owner sleeps on the condition variable it waits for
          at,        \* where each thread is
          tid,       \* tid_ is set
          loop,      \* loop_, 0 for nullptr
          quit,      \* quit_ of the thread's loop
          wake,      \* the wakeup descriptor of the thread's loop is readable
          loops,     \* loops_ of the pool
          deleted,   \* the EventLoopThread has been destroyed
          lost       \* history: loop() has reset a quit_ that was set

vars == <<owner, asleep, at, tid, loop, quit, wake, loops, deleted, lost>>

Init == /\ owner = [step |-> IF NumThreads = 0 THEN "run" ELSE "create", nr |-> 1]
        /\ asleep = FALSE
        /\ at = [t \in Threads |-> "none"]
        /\ tid = [t \in Threads |-> FALSE]
        /\ loop = [t \in Threads |-> 0]
        /\ quit = [t \in Threads |-> FALSE]
        /\ wake = [t \in Threads |-> FALSE]
        /\ loops = <<>>
        /\ deleted = [t \in Threads |-> FALSE]
        /\ lost = [t \in Threads |-> FALSE]

Owner(step) == owner' = [owner EXCEPT !.step = step]

\* MUTANT: the loop over the threads goes one too far.
OwnerNextPast(step, last) ==
    owner' = IF owner.nr <= NumThreads THEN [step |-> step, nr |-> owner.nr + 1]
             ELSE [step |-> last, nr |-> owner.nr]

\* The next thread, if there is one.
OwnerNext(step, last) ==
    owner' = IF owner.nr < NumThreads THEN [step |-> step, nr |-> owner.nr + 1]
             ELSE [step |-> last, nr |-> owner.nr]

Go(t, from, to) == at[t] = from /\ at' = [at EXCEPT ![t] = to]

----------------------------------------------------------------------------
(* Starting *)

\* Thread::start() makes the thread.
Create == /\ owner.step = "create"
          /\ Go(owner.nr, "none", "born")
          /\ Owner("tid")
          /\ UNCHANGED <<asleep, tid, loop, quit, wake, loops, deleted, lost>>

\* tidReady is a local of start().
TidReady(t) == at[t] \notin {"none", "born", "numbered"}

\* cond.wait(lock, [&]() { return tidReady; })
AwaitTid ==
    /\ owner.step = "tid" /\ ~asleep
    /\ IF TidReady(owner.nr) THEN Owner("loop") /\ UNCHANGED asleep
                             ELSE asleep' = TRUE /\ UNCHANGED owner
    /\ UNCHANGED <<at, tid, loop, quit, wake, loops, deleted, lost>>

\* MUTANT: it sleeps without a look at loop_.
AwaitLoopBlindly ==
    /\ owner.step = "loop" /\ ~asleep
    /\ asleep' = TRUE
    /\ UNCHANGED <<owner, at, tid, loop, quit, wake, loops, deleted, lost>>

\* MUTANT: startLoop() does not wait.
AwaitLoopNot ==
    /\ owner.step = "loop"
    /\ loops' = Append(loops, loop[owner.nr])
    /\ OwnerNext("create", "run")
    /\ UNCHANGED <<asleep, at, tid, loop, quit, wake, deleted, lost>>

\* cond_.wait(lock, [this](){return loop_ != nullptr;}), and loops_.push_back(loop)
AwaitLoop ==
    /\ owner.step = "loop" /\ ~asleep
    /\ IF loop[owner.nr] # 0
       THEN /\ loops' = Append(loops, loop[owner.nr])
            /\ OwnerNext("create", "run")
            /\ UNCHANGED asleep
       ELSE asleep' = TRUE /\ UNCHANGED <<owner, loops>>
    /\ UNCHANGED <<at, tid, loop, quit, wake, deleted, lost>>

\* A condition variable may wake its waiter for nothing.
Spurious == /\ asleep /\ asleep' = FALSE
            /\ UNCHANGED <<owner, at, tid, loop, quit, wake, loops, deleted, lost>>

\* notify_one(): the owner wakes if it is waiting there.  After start() has returned,
\* its condition variable is a piece of dead stack that nobody waits on.
Notified(t, step) == asleep /\ ~(owner.step = step /\ owner.nr = t)

\* MUTANT: tidReady is set before tid_.
TakeTidLate(t) == /\ Go(t, "born", "ready")
                  /\ UNCHANGED <<owner, asleep, tid, loop, quit, wake, loops, deleted, lost>>

TakeTid(t) == /\ Go(t, "born", "numbered")
              /\ tid' = [tid EXCEPT ![t] = TRUE]
              /\ UNCHANGED <<owner, asleep, loop, quit, wake, loops, deleted, lost>>

SetReady(t) == /\ Go(t, "numbered", "ready")
               /\ UNCHANGED <<owner, asleep, tid, loop, quit, wake, loops, deleted, lost>>

NotifyTid(t) == /\ Go(t, "ready", "func")
                /\ asleep' = Notified(t, "tid")
                /\ UNCHANGED <<owner, tid, loop, quit, wake, loops, deleted, lost>>

\* threadFunc() makes its EventLoop, and under the lock sets loop_ and notifies.
Publish(t) == /\ Go(t, "func", "published")
              /\ loop' = [loop EXCEPT ![t] = t]
              /\ asleep' = Notified(t, "loop")
              /\ UNCHANGED <<owner, tid, quit, wake, loops, deleted, lost>>

----------------------------------------------------------------------------
(* Running *)

EnterLoop(t) == /\ Go(t, "published", "test")
                /\ quit' = [quit EXCEPT ![t] = FALSE]
                /\ lost' = [lost EXCEPT ![t] = quit[t]]
                /\ UNCHANGED <<owner, asleep, tid, loop, wake, loops, deleted>>

TestQuit(t) == /\ Go(t, "test", IF quit[t] THEN "left" ELSE "poll")
               /\ UNCHANGED <<owner, asleep, tid, loop, quit, wake, loops, deleted, lost>>

\* poll() returns, for the wakeup descriptor, another one, or the time-out.
PollReturns(t) == /\ Go(t, "poll", "test")
                  /\ wake' = [wake EXCEPT ![t] = FALSE]
                  /\ UNCHANGED <<owner, asleep, tid, loop, quit, loops, deleted, lost>>

\* The end of threadFunc(): under the lock loop_ is cleared ...
Clear(t) == /\ Go(t, "left", "cleared")
            /\ loop' = [loop EXCEPT ![t] = 0]
            /\ UNCHANGED <<owner, asleep, tid, quit, wake, loops, deleted, lost>>

\* ... and then the EventLoop on the stack is destroyed.
End(t) == /\ Go(t, "cleared", "ended")
          /\ UNCHANGED <<owner, asleep, tid, loop, quit, wake, loops, deleted, lost>>

----------------------------------------------------------------------------
(* Stopping *)

\* The members of the pool are destroyed: first loops_, then threads_.
Destroy == /\ owner.step = "run"
           /\ owner' = [step |-> IF NumThreads = 0 THEN "done" ELSE "delete", nr |-> 1]
           /\ loops' = <<>>
           /\ UNCHANGED <<asleep, at, tid, loop, quit, wake, deleted, lost>>

\* The EventLoopThread is gone: its Thread was joined, or is detached.
Deleted == deleted' = [deleted EXCEPT ![owner.nr] = TRUE] /\ OwnerNext("delete", "done")

\* ~EventLoopThread() looks at loop_ without the lock.
Delete == /\ owner.step = "delete"
          /\ IF loop[owner.nr] # 0 THEN Owner("quit") /\ UNCHANGED deleted ELSE Deleted
          /\ UNCHANGED <<asleep, at, tid, loop, quit, wake, loops, lost>>

\* quit() sets quit_ ...
SetQuit == /\ owner.step = "quit"
           /\ quit' = [quit EXCEPT ![owner.nr] = TRUE]
           /\ Owner("wakeup")
           /\ UNCHANGED <<asleep, at, tid, loop, wake, loops, deleted, lost>>

\* MUTANT: quit() takes the owner for the loop's thread.
WakeupNot == /\ owner.step = "wakeup"
             /\ Owner("join")
             /\ UNCHANGED <<asleep, at, tid, loop, quit, wake, loops, deleted, lost>>

\* ... and then writes the wakeup descriptor.  By then the loop may have seen quit_ and
\* be gone: the write to the closed descriptor fails and is logged.
Wakeup == /\ owner.step = "wakeup"
          /\ wake' = IF at[owner.nr] = "ended" THEN wake ELSE [wake EXCEPT ![owner.nr] = TRUE]
          /\ Owner("join")
          /\ UNCHANGED <<asleep, at, tid, loop, quit, loops, deleted, lost>>

\* MUTANT: the destructor does not wait for the thread.
JoinNot == /\ owner.step = "join"
           /\ Deleted
           /\ UNCHANGED <<asleep, at, tid, loop, quit, wake, loops, lost>>

\* thread_.join(), and the members are destroyed.
Join == /\ owner.step = "join" /\ at[owner.nr] = "ended"
        /\ Deleted
        /\ UNCHANGED <<asleep, at, tid, loop, quit, wake, loops, lost>>

----------------------------------------------------------------------------

OwnerStarts == Create \/ AwaitTid \/ AwaitLoop
OwnerStops == Delete \/ SetQuit \/ Wakeup \/ Join
ThreadStep(t) == TakeTid(t) \/ SetReady(t) \/ NotifyTid(t) \/ Publish(t)
                 \/ EnterLoop(t) \/ TestQuit(t) \/ Clear(t) \/ End(t)

Next == \/ OwnerStarts \/ Spurious \/ Destroy \/ OwnerStops
        \/ \E t \in Threads : ThreadStep(t) \/ PollReturns(t)

Spec == Init /\ [][Next]_vars

\* The threads are scheduled; only the wakeup descriptor is sure to end a poll().
FairSpec == /\ Spec
            /\ WF_vars(OwnerStarts) /\ WF_vars(OwnerStops)
            /\ \A t \in Threads : WF_vars(ThreadStep(t)) /\ WF_vars(wake[t] /\ PollReturns(t))

----------------------------------------------------------------------------
(* Properties *)

TypeOK ==
    /\ owner \in [step : {"create", "tid", "loop", "run", "delete", "quit", "wakeup", "join", "done"},
                  nr : Threads \cup {1}]
    /\ asleep \in BOOLEAN
    /\ at \in [Threads -> {"none", "born", "numbered", "ready", "func", "published",
                           "test", "poll", "left", "cleared", "ended"}]
    /\ tid \in [Threads -> BOOLEAN] /\ deleted \in [Threads -> BOOLEAN]
    /\ quit \in [Threads -> BOOLEAN] /\ wake \in [Threads -> BOOLEAN] /\ lost \in [Threads -> BOOLEAN]
    /\ loop \in [Threads -> 0..NumThreads]
    /\ loops \in Seq(0..NumThreads)

\* The loop is an object on the stack of its thread.
LoopLives(t) == at[t] \in {"published", "test", "poll", "left", "cleared"}

\* What start() has put into loops_ is a loop that lives, of a thread whose tid_ is
\* known, as long as the pool has it (EventLoopThreadPool.cc, start(); Thread.cc, start()).
HandedOutLives == \A i \in 1..Len(loops) :
    loops[i] = i /\ LoopLives(i) /\ tid[i]

\* An EventLoopThread is not destroyed before its thread is done with it, and the
\* thread is joined, never detached (~EventLoopThread, ~Thread).
OutlivesThread == \A t \in Threads : deleted[t] => at[t] = "ended"

\* start() comes back with all loops: neither of its waits misses its notify_one().
StartReturns == <>(owner.step \notin {"create", "tid", "loop"})

\* join() returns, unless quit() came before the thread had entered loop(), which
\* resets quit_ (EventLoop.cc, loop()).
JoinReturns == \A t \in Threads :
    owner = [step |-> "join", nr |-> t] ~> (deleted[t] \/ lost[t])
=============================================================================
