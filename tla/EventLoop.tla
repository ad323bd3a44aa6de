----------------------------- MODULE EventLoop -----------------------------
(***************************************************************************)
(* One EventLoop of the reactor (src/EventLoop.cc): the thread that owns   *)
(* it and runs loop(), and the foreign threads that hand it functors with  *)
(* queueInLoop() or ask it to stop with quit().                            *)
(*                                                                         *)
(* The foreign half of queueInLoop is two steps, the append under mutex_   *)
(* and then the write to the wakeup descriptor, and so is the foreign half *)
(* of quit: the owner may run between them.  The descriptor is an eventfd  *)
(* on Linux (a read clears the counter) and a non-blocking pipe elsewhere  *)
(* (a read takes one of the tokens, a write to a full pipe is lost).       *)
(*                                                                         *)
(* The other descriptors of the loop are one channel, "io": its handler    *)
(* may queue functors or quit, which is all of it that the loop sees.      *)
(***************************************************************************)
EXTENDS Naturals, Sequences

CONSTANTS Callers,       \* the foreign threads
          Functors,      \* the functors; each is submitted at most once
          WakeCapacity   \* how many unread writes the descriptor holds

ASSUME WakeCapacityAssumption == WakeCapacity \in Nat \ {0}

VARIABLES wakeupFd,      \* what createWakeupFd's #ifdef chose, for good
          pc,            \* where the owner is in loop()
          active,        \* activeChannels_ still to be handled
          pending,       \* pendingFunctors_
          functors,      \* doPendingFunctors' local batch, running one first
          calling,       \* callingPendingFunctors_
          wake,          \* unread writes in the wakeup descriptor
          quit,          \* quit_
          cpc,           \* per foreign thread: "idle", or "wake": must write
          executed       \* history: the functors that returned, in order

vars == <<wakeupFd, pc, active, pending, functors, calling, wake, quit, cpc,
          executed>>

Elems(s) == {s[i] : i \in DOMAIN s}

\* The queue a caller sees: what is left of the batch, then what is pending.
Waiting == functors \o pending

Fresh == Functors \ (Elems(executed) \cup Elems(functors) \cup Elems(pending))

----------------------------------------------------------------------------
(* The wakeup descriptor *)

\* MUTANT: the failure of a write to a full descriptor is not noticed.
WriteWakeUnchecked(w) == w + 1

\* wakeup(): a write to a full descriptor fails and is only logged.
WriteWake(w) == IF w < WakeCapacity THEN w + 1 ELSE w

\* handleRead(): an eventfd read returns the counter and clears it; eight
\* bytes of a pipe are one token.
ReadWake(w) == IF wakeupFd = "eventfd" \/ w = 0 THEN 0 ELSE w - 1

----------------------------------------------------------------------------
Init == /\ wakeupFd \in {"eventfd", "pipe"}
        /\ pc = "start"
        /\ active = {}
        /\ pending = <<>> /\ functors = <<>>
        /\ calling = FALSE
        /\ wake = 0
        /\ quit = FALSE
        /\ cpc = [t \in Callers |-> "idle"]
        /\ executed = <<>>

----------------------------------------------------------------------------
(* The owner: loop() *)

\* loop() sets quit_ to FALSE, also when somebody has called quit() already.
EnterLoop == /\ pc = "start"
             /\ pc' = "test"
             /\ quit' = FALSE
             /\ UNCHANGED <<wakeupFd, active, pending, functors, calling, wake, cpc, executed>>

\* while (!quit_) { activeChannels_.clear(); poller_->poll(...)
TestQuit == /\ pc = "test"
            /\ pc' = IF quit THEN "stopped" ELSE "poll"
            /\ active' = {}
            /\ UNCHANGED <<wakeupFd, pending, functors, calling, wake, quit, cpc, executed>>

\* poll() returns with the channels that are ready: the descriptors are level
\* triggered, so the wakeup channel is among them whenever a write is unread.
PollReturns(ready) ==
    /\ pc = "poll"
    /\ pc' = "dispatch"
    /\ active' = ready
    /\ UNCHANGED <<wakeupFd, pending, functors, calling, wake, quit, cpc, executed>>

PollWake == wake > 0 /\ \E io \in SUBSET {"io"} : PollReturns({"wakeup"} \cup io)

PollIo == wake = 0 /\ PollReturns({"io"})

\* The ten seconds of kPollTimeMs are over, or a signal interrupted poll().
PollTimeout == wake = 0 /\ PollReturns({})

\* wakeupChannel_'s read callback
HandleRead == /\ pc = "dispatch" /\ "wakeup" \in active
              /\ active' = active \ {"wakeup"}
              /\ wake' = ReadWake(wake)
              /\ UNCHANGED <<wakeupFd, pc, pending, functors, calling, quit, cpc, executed>>

\* The handler of another channel returns.
HandleIo == /\ pc = "dispatch" /\ "io" \in active
            /\ active' = active \ {"io"}
            /\ UNCHANGED <<wakeupFd, pc, pending, functors, calling, wake, quit, cpc, executed>>

\* MUTANT: the batch is a copy and the queue is cleared after it has run.
DoPendingFunctorsCopy ==
    /\ pc = "dispatch" /\ active = {}
    /\ pc' = "run"
    /\ calling' = TRUE
    /\ functors' = pending
    /\ UNCHANGED <<wakeupFd, active, pending, wake, quit, cpc, executed>>

\* MUTANT: callingPendingFunctors_ is never set.
DoPendingFunctorsUnflagged ==
    /\ pc = "dispatch" /\ active = {}
    /\ pc' = "run"
    /\ functors' = pending
    /\ pending' = <<>>
    /\ UNCHANGED <<wakeupFd, active, calling, wake, quit, cpc, executed>>

\* doPendingFunctors(): the flag is set before the queue is swapped out.
DoPendingFunctors ==
    /\ pc = "dispatch" /\ active = {}
    /\ pc' = "run"
    /\ calling' = TRUE
    /\ functors' = pending
    /\ pending' = <<>>
    /\ UNCHANGED <<wakeupFd, active, wake, quit, cpc, executed>>

\* The functor at the head of the batch returns.
RunFunctor == /\ pc = "run" /\ functors # <<>>
              /\ executed' = Append(executed, Head(functors))
              /\ functors' = Tail(functors)
              /\ UNCHANGED <<wakeupFd, pc, active, pending, calling, wake, quit, cpc>>

EndBatch == /\ pc = "run" /\ functors = <<>>
            /\ pc' = "test"
            /\ calling' = FALSE
            /\ UNCHANGED <<wakeupFd, active, pending, functors, wake, quit, cpc, executed>>

----------------------------------------------------------------------------
(* What a callback does while it runs on the owner's thread *)

InCallback == \/ pc = "dispatch" /\ "io" \in active
              \/ pc = "run" /\ functors # <<>>

\* queueInLoop() on the loop's own thread: no wakeup, unless a batch is being
\* run.  The append and the write are one step: nothing of the owner's can come
\* between them, and a foreign append or write commutes with both.  Before loop()
\* the owner queues nothing: no code of the repository does.
OwnerQueueInLoop(f) ==
    /\ InCallback
    /\ f \in Fresh
    /\ pending' = Append(pending, f)
    /\ wake' = IF calling THEN WriteWake(wake) ELSE wake
    /\ UNCHANGED <<wakeupFd, pc, active, functors, calling, quit, cpc, executed>>

OwnerQuit == /\ InCallback
             /\ quit' = TRUE
             /\ UNCHANGED <<wakeupFd, pc, active, pending, functors, calling, wake, cpc, executed>>

----------------------------------------------------------------------------
(* The foreign threads *)

QueueInLoop(t, f) ==
    /\ cpc[t] = "idle"
    /\ f \in Fresh
    /\ pending' = Append(pending, f)
    /\ cpc' = [cpc EXCEPT ![t] = "wake"]
    /\ UNCHANGED <<wakeupFd, pc, active, functors, calling, wake, quit, executed>>

\* MUTANT: quit() from another thread only sets the flag.
QuitUnwoken(t) == /\ cpc[t] = "idle"
                  /\ quit' = TRUE
                  /\ UNCHANGED <<wakeupFd, pc, active, pending, functors, calling, wake,
                                 cpc, executed>>

Quit(t) == /\ cpc[t] = "idle"
           /\ quit' = TRUE
           /\ cpc' = [cpc EXCEPT ![t] = "wake"]
           /\ UNCHANGED <<wakeupFd, pc, active, pending, functors, calling, wake, executed>>

Wakeup(t) == /\ cpc[t] = "wake"
             /\ wake' = WriteWake(wake)
             /\ cpc' = [cpc EXCEPT ![t] = "idle"]
             /\ UNCHANGED <<wakeupFd, pc, active, pending, functors, calling, quit, executed>>

----------------------------------------------------------------------------
\* The steps the owner takes on its own: everything but what the outside must
\* do for it (other descriptors, signals, the timeout) or a callback may do.
OwnerStep == \/ EnterLoop \/ TestQuit \/ PollWake \/ HandleRead \/ HandleIo
             \/ DoPendingFunctors \/ RunFunctor \/ EndBatch

CallbackStep == OwnerQuit \/ \E f \in Functors : OwnerQueueInLoop(f)

CallerStep(t) == \/ Quit(t) \/ Wakeup(t)
                 \/ \E f \in Functors : QueueInLoop(t, f)

Next == \/ OwnerStep \/ PollIo \/ PollTimeout \/ CallbackStep
        \/ \E t \in Callers : CallerStep(t)

Spec == Init /\ [][Next]_vars

\* Threads are scheduled and callbacks return.  poll() is fair only when the
\* wakeup channel is ready: neither other descriptors nor the timeout help.
Fairness == /\ WF_vars(OwnerStep)
            /\ \A t \in Callers : WF_vars(Wakeup(t))

FairSpec == Spec /\ Fairness

----------------------------------------------------------------------------
TypeOK == /\ wakeupFd \in {"eventfd", "pipe"}
          /\ pc \in {"start", "test", "poll", "dispatch", "run", "stopped"}
          /\ active \in SUBSET {"wakeup", "io"}
          /\ pending \in Seq(Functors)
          /\ functors \in Seq(Functors)
          /\ calling \in BOOLEAN
          /\ wake \in 0..WakeCapacity
          /\ quit \in BOOLEAN
          /\ cpc \in [Callers -> {"idle", "wake"}]
          /\ executed \in Seq(Functors)

\* A wakeup is in the descriptor or about to be written to it.
WakeComing == wake > 0 \/ \E t \in Callers : cpc[t] = "wake"

\* The loop never blocks in poll() on work it already has: while it polls with
\* a functor pending or quit_ set, a wakeup is there or on its way, although
\* handleRead consumes wakeups at a time of its own and full pipes drop them.
NoLostWakeup == pc = "poll" /\ (pending # <<>> \/ quit) => WakeComing

\* Functors run one at a time, in the order they were queued and once each,
\* across batches and whoever queued them (queueInLoop, doPendingFunctors).
Queue == INSTANCE TaskQueue WITH Tasks <- Functors, queue <- Waiting, ran <- executed
FifoOnce == Queue!QueueSpec

\* A functor that was handed to the loop runs, unless the loop stops; the poll
\* timeout and other traffic are not needed for it (queueInLoop's comment).
QueuedRuns == \A f \in Functors :
                 f \in Elems(pending) ~> (f \in Elems(executed) \/ pc = "stopped")

\* Once loop() runs, quit() from any thread makes it return.
QuitStops == (quit /\ pc # "start") ~> (pc = "stopped")
=============================================================================
