-------------------------- MODULE EventLoopProofs --------------------------
(***************************************************************************)
(* Theorems about EventLoop for every number of foreign threads and        *)
(* functors, both kinds of wakeup descriptor and every capacity.           *)
(***************************************************************************)
EXTENDS EventLoop, SequenceTheorems, TLAPS

\* NoLostWakeup speaks of poll() alone and is not inductive: the wakeup must be
\* there whenever handleRead has not just consumed it, that is everywhere but
\* between poll() and the swap of the queue.
PendingIsSignalled == pc # "dispatch" /\ pending # <<>> => WakeComing

\* quit_ is tested right before poll(), so it is set during poll() only.
QuitIsSignalled == pc = "poll" /\ quit => WakeComing

\* callingPendingFunctors_ and the local batch belong to doPendingFunctors.
BatchInRun == /\ calling = (pc = "run")
              /\ functors # <<>> => pc = "run"

\* The inductive invariant.
IInv == TypeOK /\ BatchInRun /\ PendingIsSignalled /\ QuitIsSignalled

----------------------------------------------------------------------------
(* The wakeup descriptor *)

\* A write leaves the descriptor readable, also when it is full and the write
\* is dropped; this needs room for one token (wakeup()).
LEMMA WriteWakeReadable ==
    ASSUME NEW w \in 0..WakeCapacity
    PROVE  /\ WriteWake(w) \in 0..WakeCapacity
           /\ WriteWake(w) > 0
BY WakeCapacityAssumption DEF WriteWake

\* A read leaves a legal count (handleRead()).
LEMMA ReadWakeType ==
    ASSUME NEW w \in 0..WakeCapacity
    PROVE  ReadWake(w) \in 0..WakeCapacity
BY WakeCapacityAssumption DEF ReadWake

----------------------------------------------------------------------------
(* The inductive invariant *)

LEMMA InitIInv == Init => IInv
<1> SUFFICES ASSUME Init PROVE IInv
  OBVIOUS
<1>1. TypeOK
  <2>1. <<>> \in Seq(Functors) /\ 0 \in 0..WakeCapacity
    BY EmptySeq, WakeCapacityAssumption
  <2>2. cpc \in [Callers -> {"idle", "wake"}]
    BY DEF Init
  <2> QED BY <2>1, <2>2 DEF Init, TypeOK
<1>2. BatchInRun /\ PendingIsSignalled /\ QuitIsSignalled
  BY DEF Init, BatchInRun, PendingIsSignalled, QuitIsSignalled
<1> QED BY <1>1, <1>2 DEF IInv

\* Fresh functors are functors, and appending one keeps a queue a queue.
LEMMA AppendFresh ==
    ASSUME NEW f \in Fresh, pending \in Seq(Functors)
    PROVE  /\ Append(pending, f) \in Seq(Functors)
           /\ Append(pending, f) # <<>>
BY DEF Fresh

LEMMA NextIInv == IInv /\ [Next]_vars => IInv'
<1> SUFFICES ASSUME IInv, [Next]_vars PROVE IInv'
  OBVIOUS
<1> USE DEF IInv, TypeOK, BatchInRun, PendingIsSignalled, QuitIsSignalled, WakeComing
<1>1. CASE EnterLoop
  BY <1>1 DEF EnterLoop
<1>2. CASE TestQuit
  BY <1>2 DEF TestQuit
<1>3. CASE PollWake
  BY <1>3 DEF PollWake, PollReturns
<1>4. CASE PollIo
  BY <1>4 DEF PollIo, PollReturns
<1>5. CASE PollTimeout
  BY <1>5 DEF PollTimeout, PollReturns
<1>6. CASE HandleRead
  BY <1>6, ReadWakeType DEF HandleRead
<1>7. CASE HandleIo
  BY <1>7 DEF HandleIo
<1>8. CASE DoPendingFunctors
  BY <1>8 DEF DoPendingFunctors
<1>9. CASE RunFunctor
  BY <1>9, HeadTailProperties, AppendProperties DEF RunFunctor
<1>10. CASE EndBatch
  BY <1>10 DEF EndBatch
<1>11. CASE OwnerQuit
  BY <1>11 DEF OwnerQuit, InCallback
<1>12. ASSUME NEW f \in Functors, OwnerQueueInLoop(f)
       PROVE  IInv'
  BY <1>12, AppendFresh, WriteWakeReadable DEF OwnerQueueInLoop, InCallback
<1>13. ASSUME NEW t \in Callers, NEW f \in Functors, QueueInLoop(t, f)
       PROVE  IInv'
  BY <1>13, AppendFresh DEF QueueInLoop
<1>14. ASSUME NEW t \in Callers, Quit(t)
       PROVE  IInv'
  BY <1>14 DEF Quit
<1>15. ASSUME NEW t \in Callers, Wakeup(t)
       PROVE  IInv'
  BY <1>15, WriteWakeReadable DEF Wakeup
<1>16. CASE UNCHANGED vars
  BY <1>16 DEF vars
<1> QED
  BY <1>1, <1>2, <1>3, <1>4, <1>5, <1>6, <1>7, <1>8, <1>9, <1>10, <1>11,
     <1>12, <1>13, <1>14, <1>15, <1>16
  DEF Next, OwnerStep, CallbackStep, CallerStep

THEOREM Invariance == Spec => []IInv
BY InitIInv, NextIInv, PTL DEF Spec

\* Type correctness: the wakeup count never exceeds the descriptor's capacity
\* and only functors that were handed in are ever queued (EventLoop.h's members).
THEOREM TypeCorrect == Spec => []TypeOK
BY Invariance, PTL DEF IInv

\* The loop never blocks in poll() on work it already has (queueInLoop, quit,
\* wakeup and handleRead together).
THEOREM NeverBlocksOnWork == Spec => []NoLostWakeup
<1>1. IInv => NoLostWakeup
  BY DEF IInv, PendingIsSignalled, QuitIsSignalled, NoLostWakeup
<1> QED BY <1>1, Invariance, PTL

----------------------------------------------------------------------------
(* EventLoop implements TaskQueue *)

\* A functor that was never handed in is not in the queue a caller sees.
LEMMA FreshNotSubmitted ==
    ASSUME TypeOK, NEW f \in Fresh
    PROVE  ~Queue!Submitted(f)
<1>1. \A i \in DOMAIN executed : executed[i] # f
  BY DEF Fresh, Elems
<1>2. ASSUME NEW i \in DOMAIN Waiting PROVE Waiting[i] # f
  <2>1. /\ i \in 1..(Len(functors) + Len(pending))
        /\ Waiting[i] = IF i <= Len(functors) THEN functors[i]
                                             ELSE pending[i - Len(functors)]
    BY <1>2, ConcatProperties, LenProperties DEF TypeOK, Waiting
  <2>2. Len(functors) \in Nat /\ Len(pending) \in Nat
    BY LenProperties DEF TypeOK
  <2>3. CASE i <= Len(functors)
    <3>1. i \in DOMAIN functors
      BY <2>1, <2>2, <2>3, LenProperties DEF TypeOK
    <3> QED BY <3>1, <2>1, <2>3 DEF Fresh, Elems
  <2>4. CASE ~(i <= Len(functors))
    <3>1. i - Len(functors) \in DOMAIN pending
      BY <2>1, <2>2, <2>4, LenProperties DEF TypeOK
    <3> QED BY <3>1, <2>1, <2>4 DEF Fresh, Elems
  <2> QED BY <2>3, <2>4
<1> QED BY <1>1, <1>2 DEF Queue!Submitted

\* Queueing a functor, by whichever thread, is a Submit of the abstract queue.
LEMMA QueueingIsSubmit ==
    ASSUME TypeOK, NEW f \in Fresh,
           pending' = Append(pending, f), UNCHANGED <<functors, executed>>
    PROVE  Queue!QueueNext
<1>1. f \in Functors
  BY DEF Fresh
<1>2. Waiting' = Append(Waiting, f)
  <2>1. <<f>> \in Seq(Functors)
    BY <1>1
  <2>2. functors \o (pending \o <<f>>) = (functors \o pending) \o <<f>>
    BY <2>1, ConcatAssociative DEF TypeOK
  <2>3. pending \o <<f>> = Append(pending, f)
    BY <1>1, AppendIsConcat DEF TypeOK
  <2>4. (functors \o pending) \o <<f>> = Append(functors \o pending, f)
    BY <1>1, AppendIsConcat, ConcatProperties DEF TypeOK
  <2> QED BY <2>2, <2>3, <2>4 DEF Waiting
<1> QED BY <1>1, <1>2, FreshNotSubmitted DEF Queue!QueueNext, Queue!Submit

\* The functor that returns is the oldest one a caller can still be waiting for.
LEMMA ReturningIsRun ==
    ASSUME TypeOK, RunFunctor
    PROVE  Queue!QueueNext
<1>1. functors # <<>> /\ functors \in Seq(Functors) /\ pending \in Seq(Functors)
  BY DEF TypeOK, RunFunctor
<1>2. /\ Waiting \in Seq(Functors)
      /\ Len(Waiting) = Len(functors) + Len(pending)
      /\ \A i \in 1..(Len(functors) + Len(pending)) :
           Waiting[i] = IF i <= Len(functors) THEN functors[i]
                                              ELSE pending[i - Len(functors)]
  BY <1>1, ConcatProperties DEF Waiting
<1>3. Len(functors) \in Nat \ {0} /\ Len(pending) \in Nat
  BY <1>1, EmptySeq, LenProperties
<1>4. Waiting # <<>>
  BY <1>2, <1>3, EmptySeq
<1>5. Head(Waiting) = Head(functors)
  BY <1>1, <1>2, <1>3, <1>4
<1>6. Tail(Waiting) = Tail(functors) \o pending
  <2> DEFINE T == Tail(functors) \o pending
  <2>1. /\ Tail(Waiting) \in Seq(Functors)
        /\ Len(Tail(Waiting)) = Len(Waiting) - 1
        /\ \A i \in 1..Len(Tail(Waiting)) : Tail(Waiting)[i] = Waiting[i + 1]
    BY <1>2, <1>4, HeadTailProperties
  <2>2. /\ Tail(functors) \in Seq(Functors)
        /\ Len(Tail(functors)) = Len(functors) - 1
        /\ \A i \in 1..Len(Tail(functors)) : Tail(functors)[i] = functors[i + 1]
    BY <1>1, HeadTailProperties
  <2>3. /\ T \in Seq(Functors)
        /\ Len(T) = Len(Tail(functors)) + Len(pending)
        /\ \A i \in 1..(Len(Tail(functors)) + Len(pending)) :
             T[i] = IF i <= Len(Tail(functors)) THEN Tail(functors)[i]
                    ELSE pending[i - Len(Tail(functors))]
    BY <1>1, <2>2, ConcatProperties
  <2> HIDE DEF T
  <2>4. Len(Tail(Waiting)) = Len(T)
    BY <1>2, <1>3, <2>1, <2>2, <2>3
  <2>5. ASSUME NEW i \in 1..Len(Tail(Waiting)) PROVE Tail(Waiting)[i] = T[i]
    <3>1. i \in 1..(Len(functors) + Len(pending) - 1)
      BY <1>2, <2>1
    <3>2. CASE i <= Len(functors) - 1
      BY <1>2, <1>3, <2>1, <2>2, <2>3, <3>1, <3>2
    <3>3. CASE ~(i <= Len(functors) - 1)
      <4>1. i - (Len(functors) - 1) = (i + 1) - Len(functors)
        BY <1>3, <3>1
      <4> QED BY <1>2, <1>3, <2>1, <2>2, <2>3, <3>1, <3>3, <4>1
    <3> QED BY <3>2, <3>3
  <2>6. Tail(Waiting) = T
    BY <2>1, <2>3, <2>4, <2>5, SeqEqual
  <2> QED BY <2>6 DEF T
<1>7. Waiting' = Tail(Waiting)
  BY <1>6 DEF RunFunctor, Waiting
<1> QED BY <1>4, <1>5, <1>7 DEF RunFunctor, Queue!QueueNext, Queue!Run

\* Swapping the queue out moves no functor of the abstract queue: the batch
\* before it is finished.
LEMMA SwapIsStutter ==
    ASSUME IInv, DoPendingFunctors
    PROVE  UNCHANGED <<Waiting, executed>>
<1>1. functors = <<>> /\ pending \in Seq(Functors)
  BY DEF IInv, TypeOK, BatchInRun, DoPendingFunctors
<1>2. <<>> \o pending = pending /\ pending \o <<>> = pending
  BY <1>1, ConcatEmptySeq
<1> QED BY <1>1, <1>2 DEF DoPendingFunctors, Waiting

LEMMA NextImplements == IInv /\ [Next]_vars => [Queue!QueueNext]_<<Waiting, executed>>
<1> SUFFICES ASSUME IInv, [Next]_vars
             PROVE  [Queue!QueueNext]_<<Waiting, executed>>
  OBVIOUS
<1>1. CASE UNCHANGED <<pending, functors, executed>>
  BY <1>1 DEF Waiting
<1>2. CASE DoPendingFunctors
  BY <1>2, SwapIsStutter
<1>3. CASE RunFunctor
  BY <1>3, ReturningIsRun DEF IInv
<1>4. ASSUME NEW f \in Functors, OwnerQueueInLoop(f)
      PROVE  Queue!QueueNext
  BY <1>4, QueueingIsSubmit DEF IInv, OwnerQueueInLoop
<1>5. ASSUME NEW t \in Callers, NEW f \in Functors, QueueInLoop(t, f)
      PROVE  Queue!QueueNext
  BY <1>5, QueueingIsSubmit DEF IInv, QueueInLoop
<1> QED
  BY <1>1, <1>2, <1>3, <1>4, <1>5
  DEF Next, OwnerStep, CallbackStep, CallerStep, vars, EnterLoop, TestQuit, PollWake,
      PollIo, PollTimeout, PollReturns, HandleRead, HandleIo, EndBatch, OwnerQuit,
      Quit, Wakeup

\* Functors run one at a time, in the order they were queued and once each: the
\* loop with its batches, flags and wakeups implements the plain task queue.
THEOREM ImplementsTaskQueue == Spec => FifoOnce
<1>1. Init => Queue!QueueInit
  <2>1. <<>> \o <<>> = <<>>
    BY ConcatEmptySeq, EmptySeq
  <2> QED BY <2>1 DEF Init, Waiting, Queue!QueueInit
<1> QED
  BY <1>1, NextImplements, Invariance, PTL
  DEF Spec, FifoOnce, Queue!QueueSpec, Queue!queueVars
=============================================================================
