-------------------------- MODULE LoopThreadProofs --------------------------
(***************************************************************************)
(* Theorems about LoopThread for any number of threads.                    *)
(***************************************************************************)
EXTENDS LoopThread, SequenceTheorems, TLAPS

Starting == owner.step \in {"create", "tid", "loop"}
Stopping == owner.step \in {"delete", "quit", "wakeup", "join", "done"}

\* start() is done with the thread: its loop was seen.
Seen(t) == Starting => t < owner.nr

\* quit() has been called on the thread's loop.
Told(t) == \/ owner.step = "done"
           \/ owner.step \in {"delete", "quit", "wakeup", "join"} /\ t < owner.nr
           \/ owner.step \in {"wakeup", "join"} /\ t = owner.nr

Runs == {"published", "test", "poll"}

\* The owner is at a thread while there is one.
AtThread == owner.step \notin {"run", "done"} => owner.nr \in Threads

\* What a thread's place says of tid_, loop_ and quit_, and of what the owner did.
PlaceRight == \A t \in Threads :
    /\ at[t] \notin {"none", "born"} => tid[t]
    /\ loop[t] = IF at[t] \in Runs \cup {"left"} THEN t ELSE 0
    /\ Seen(t) => at[t] \in Runs \cup {"left", "cleared", "ended"}
    /\ quit[t] \/ at[t] \in {"left", "cleared", "ended"} => Told(t)

\* loops_ are the loops that were seen.
LoopsSeen == /\ \A i \in 1..Len(loops) : loops[i] = i /\ i \in Threads /\ Seen(i)
             /\ Starting => Len(loops) = owner.nr - 1
             /\ Stopping => loops = <<>>

IInv == TypeOK /\ AtThread /\ PlaceRight /\ LoopsSeen /\ OutlivesThread

----------------------------------------------------------------------------

\* Nothing is handed out at the start.
LEMMA InitIInv == Init => IInv
<1> SUFFICES ASSUME Init PROVE IInv
  OBVIOUS
<1> USE NumThreadsAssumption
<1>1. TypeOK
  <2>1. owner \in [step : {"create", "run"}, nr : {1}]
    BY DEF Init
  <2>2. loops \in Seq(0..NumThreads) /\ loop \in [Threads -> 0..NumThreads]
    BY DEF Init
  <2>3. /\ tid \in [Threads -> BOOLEAN] /\ deleted \in [Threads -> BOOLEAN]
        /\ quit \in [Threads -> BOOLEAN] /\ wake \in [Threads -> BOOLEAN] /\ lost \in [Threads -> BOOLEAN]
        /\ at \in [Threads -> {"none"}] /\ asleep \in BOOLEAN
    BY DEF Init
  <2> QED BY <2>1, <2>2, <2>3 DEF TypeOK
<1>2. AtThread
  BY DEF Init, AtThread, Threads
<1>3. PlaceRight
  BY DEF Init, PlaceRight, Threads, Seen, Starting, Told, Runs
<1>4. LoopsSeen
  BY DEF Init, LoopsSeen, Starting, Stopping
<1>5. OutlivesThread
  BY DEF Init, OutlivesThread
<1> QED BY <1>1, <1>2, <1>3, <1>4, <1>5 DEF IInv

\* Whoever handed out a loop knows it lives: only quit() ends one, and then loops_ is gone.
LEMMA SeenLives == IInv => HandedOutLives
<1> SUFFICES ASSUME IInv, NEW i \in 1..Len(loops)
             PROVE  loops[i] = i /\ LoopLives(i) /\ tid[i]
  BY DEF HandedOutLives
<1>1. loops[i] = i /\ i \in Threads /\ Seen(i)
  BY DEF IInv, LoopsSeen
<1>2. ~Stopping
  BY DEF IInv, LoopsSeen
<1>3. ~Told(i)
  BY <1>2 DEF Told, Stopping
<1> QED BY <1>1, <1>3 DEF IInv, PlaceRight, LoopLives, Runs

\* The step of a thread that goes from one place to another.
LEMMA ThreadKeeps ==
    ASSUME IInv, NEW t \in Threads, ThreadStep(t) \/ PollReturns(t)
    PROVE  IInv'
<1> USE NumThreadsAssumption
<1>1. UNCHANGED <<owner, loops, deleted>>
  BY DEF ThreadStep, TakeTid, SetReady, NotifyTid, Publish, EnterLoop, TestQuit, PollReturns, Clear, End
<1>2. TypeOK'
  <2> USE DEF IInv, TypeOK, Go
  <2>1. CASE TakeTid(t) \/ SetReady(t) \/ End(t)
    BY <2>1 DEF TakeTid, SetReady, End
  <2>2. CASE NotifyTid(t)
    BY <2>2 DEF NotifyTid, Notified
  <2>3. CASE Publish(t)
    BY <2>3 DEF Publish, Notified, Threads
  <2>4. CASE EnterLoop(t)
    BY <2>4 DEF EnterLoop
  <2>5. CASE TestQuit(t)
    BY <2>5 DEF TestQuit
  <2>6. CASE PollReturns(t)
    BY <2>6 DEF PollReturns
  <2>7. CASE Clear(t)
    BY <2>7 DEF Clear
  <2> QED BY <2>1, <2>2, <2>3, <2>4, <2>5, <2>6, <2>7 DEF ThreadStep
<1>3. AtThread'
  BY <1>1 DEF IInv, AtThread
<1>4. PlaceRight'
  <2> DEFINE Right(d) == /\ at'[d] \notin {"none", "born"} => tid'[d]
                         /\ loop'[d] = IF at'[d] \in Runs \cup {"left"} THEN d ELSE 0
                         /\ Seen(d) => at'[d] \in Runs \cup {"left", "cleared", "ended"}
                         /\ quit'[d] \/ at'[d] \in {"left", "cleared", "ended"} => Told(d)
  <2>1. ASSUME NEW d \in Threads PROVE (Seen(d)' <=> Seen(d)) /\ (Told(d)' <=> Told(d))
    BY <1>1 DEF Seen, Starting, Told
  <2>2. ASSUME NEW d \in Threads \ {t} PROVE Right(d)
    <3>1. at'[d] = at[d] /\ tid'[d] = tid[d] /\ loop'[d] = loop[d] /\ quit'[d] = quit[d]
      BY DEF IInv, TypeOK, ThreadStep, TakeTid, SetReady, NotifyTid, Publish, EnterLoop, TestQuit,
             PollReturns, Clear, End, Go
    <3> QED BY <3>1 DEF IInv, PlaceRight
  <2>3. Right(t)
    <3> USE DEF IInv, TypeOK, PlaceRight, Go, Runs
    <3>1. CASE TakeTid(t)
      BY <3>1 DEF TakeTid
    <3>2. CASE SetReady(t)
      BY <3>2 DEF SetReady
    <3>3. CASE NotifyTid(t)
      BY <3>3 DEF NotifyTid
    <3>4. CASE Publish(t)
      BY <3>4 DEF Publish
    <3>5. CASE EnterLoop(t)
      BY <3>5 DEF EnterLoop
    <3>6. CASE TestQuit(t)
      BY <3>6 DEF TestQuit
    <3>7. CASE PollReturns(t)
      BY <3>7 DEF PollReturns
    <3>8. CASE Clear(t)
      BY <3>8 DEF Clear
    <3>9. CASE End(t)
      BY <3>9 DEF End
    <3> QED BY <3>1, <3>2, <3>3, <3>4, <3>5, <3>6, <3>7, <3>8, <3>9 DEF ThreadStep
  <2>4. \A d \in Threads : Right(d)
    BY <2>2, <2>3
  <2> QED BY <2>1, <2>4 DEF PlaceRight
<1>5. LoopsSeen'
  BY <1>1 DEF IInv, LoopsSeen, Seen, Starting, Stopping
<1>6. OutlivesThread'
  BY <1>1 DEF IInv, TypeOK, OutlivesThread, ThreadStep, TakeTid, SetReady, NotifyTid, Publish, EnterLoop,
         TestQuit, PollReturns, Clear, End, Go
<1> QED BY <1>2, <1>3, <1>4, <1>5, <1>6 DEF IInv

\* The steps of the owner that start the threads.
LEMMA StartKeeps ==
    ASSUME IInv, OwnerStarts \/ Spurious
    PROVE  IInv'
<1> USE NumThreadsAssumption
<1>1. CASE Create
  <2>1. TypeOK' /\ AtThread'
    BY <1>1 DEF IInv, TypeOK, AtThread, Threads, Create, Go, Owner
  <2>2. PlaceRight'
    <3>1. /\ owner.step = "create" /\ owner.nr \in Threads /\ at[owner.nr] = "none"
          /\ at' = [at EXCEPT ![owner.nr] = "born"]
          /\ owner' = [owner EXCEPT !.step = "tid"]
          /\ UNCHANGED <<tid, loop, quit>>
      BY <1>1 DEF Create, Go, Owner, IInv, AtThread
    <3>2. owner'.step = "tid" /\ owner'.nr = owner.nr
      BY <3>1 DEF IInv, TypeOK
    <3> SUFFICES ASSUME NEW t \in Threads
                 PROVE  /\ at'[t] \notin {"none", "born"} => tid[t]
                        /\ loop[t] = IF at'[t] \in Runs \cup {"left"} THEN t ELSE 0
                        /\ Seen(t)' => at'[t] \in Runs \cup {"left", "cleared", "ended"}
                        /\ quit[t] \/ at'[t] \in {"left", "cleared", "ended"} => Told(t)'
      BY <3>1 DEF PlaceRight
    <3>3. Seen(t)' <=> t < owner.nr
      BY <3>2 DEF Seen, Starting
    <3>4. Seen(t) <=> t < owner.nr
      BY <3>1 DEF Seen, Starting
    <3>5. ~Told(t)
      BY <3>1 DEF Told
    <3>6. CASE t = owner.nr
      <4>1. at'[t] = "born" /\ at[t] = "none"
        BY <3>1, <3>6 DEF IInv, TypeOK
      <4>2. loop[t] = 0 /\ ~quit[t]
        BY <3>5, <4>1 DEF IInv, PlaceRight, Runs
      <4>3. ~Seen(t)'
        BY <3>1, <3>3, <3>6 DEF Threads
      <4> QED BY <4>1, <4>2, <4>3 DEF Runs
    <3>7. CASE t # owner.nr
      <4>1. at'[t] = at[t]
        BY <3>1, <3>7 DEF IInv, TypeOK
      <4> QED BY <3>3, <3>4, <3>5, <4>1 DEF IInv, PlaceRight
    <3> QED BY <3>6, <3>7
  <2>3. LoopsSeen' /\ OutlivesThread'
    BY <1>1 DEF IInv, TypeOK, AtThread, LoopsSeen, OutlivesThread, Seen, Starting, Stopping, Create, Go, Owner
  <2> QED BY <2>1, <2>2, <2>3 DEF IInv
<1>2. CASE AwaitTid \/ Spurious
  <2>1. TypeOK' /\ AtThread'
    BY <1>2 DEF IInv, TypeOK, AtThread, Threads, AwaitTid, Spurious, Owner
  <2>2. PlaceRight'
    <3>1. UNCHANGED <<at, tid, loop, quit>> /\ owner'.nr = owner.nr
      BY <1>2 DEF AwaitTid, Spurious, Owner, IInv, TypeOK
    <3>2. owner'.step = owner.step \/ (owner.step = "tid" /\ owner'.step = "loop")
      BY <1>2 DEF AwaitTid, Spurious, Owner, IInv, TypeOK
    <3>3. ASSUME NEW t \in Threads PROVE (Seen(t)' <=> Seen(t)) /\ (Told(t)' <=> Told(t))
      BY <3>1, <3>2 DEF Seen, Starting, Told
    <3> QED BY <3>1, <3>3 DEF IInv, PlaceRight
  <2>3. LoopsSeen' /\ OutlivesThread'
    BY <1>2 DEF IInv, TypeOK, AtThread, LoopsSeen, OutlivesThread, Seen, Starting, Stopping, AwaitTid, Spurious, Owner
  <2> QED BY <2>1, <2>2, <2>3 DEF IInv
<1>3. CASE AwaitLoop /\ loop[owner.nr] = 0
  <2>1. UNCHANGED <<owner, at, tid, loop, quit, wake, loops, deleted, lost>> /\ asleep' \in BOOLEAN
    BY <1>3 DEF AwaitLoop
  <2> QED BY <2>1 DEF IInv, TypeOK, AtThread, PlaceRight, LoopsSeen, OutlivesThread, Seen, Starting, Stopping, Told
<1>4. CASE AwaitLoop /\ loop[owner.nr] # 0
  <2> DEFINE n == owner.nr
  <2>1. /\ owner.step = "loop"
        /\ loops' = Append(loops, loop[n])
        /\ OwnerNext("create", "run")
        /\ UNCHANGED <<asleep, at, tid, loop, quit, wake, deleted, lost>>
    BY <1>4 DEF AwaitLoop
  <2>2. n \in Threads /\ loop[n] = n /\ at[n] \in Runs \cup {"left"}
    BY <1>4, <2>1 DEF IInv, AtThread, PlaceRight
  <2>3. \/ owner' = [step |-> "create", nr |-> n + 1] /\ n < NumThreads
        \/ owner' = [step |-> "run", nr |-> n] /\ n = NumThreads
    BY <2>1, <2>2 DEF OwnerNext, Threads
  <2>4. /\ loops \in Seq(0..NumThreads) /\ Len(loops) = n - 1
        /\ \A i \in 1..Len(loops) : loops[i] = i
    BY <2>1 DEF IInv, TypeOK, LoopsSeen, Starting
  <2>5. /\ loops' \in Seq(0..NumThreads) /\ Len(loops') = n
        /\ \A i \in 1..(n - 1) : loops'[i] = loops[i]
        /\ loops'[n] = n
    <3>1. n \in 0..NumThreads /\ loops' = Append(loops, n) /\ (n - 1) + 1 = n
      BY <2>1, <2>2 DEF Threads
    <3> HIDE DEF n
    <3> QED BY <2>4, <3>1, AppendProperties
  <2>6. TypeOK' /\ AtThread'
    BY <2>1, <2>2, <2>3, <2>5 DEF IInv, TypeOK, AtThread, Threads
  <2>7. \A t \in Threads : Seen(t)' => Seen(t) \/ t = n
    BY <2>1, <2>2, <2>3 DEF Seen, Starting, Threads
  <2>8. PlaceRight'
    <3> SUFFICES ASSUME NEW t \in Threads
                 PROVE  /\ at[t] \notin {"none", "born"} => tid[t]
                        /\ loop[t] = IF at[t] \in Runs \cup {"left"} THEN t ELSE 0
                        /\ Seen(t)' => at[t] \in Runs \cup {"left", "cleared", "ended"}
                        /\ quit[t] \/ at[t] \in {"left", "cleared", "ended"} => Told(t)'
      BY <2>1 DEF PlaceRight
    <3>1. ~Told(t)
      BY <2>1 DEF Told
    <3> QED BY <2>2, <2>7, <3>1 DEF IInv, PlaceRight
  <2>9. LoopsSeen'
    <3>1. Starting' => Len(loops') = owner'.nr - 1
      BY <2>2, <2>3, <2>5 DEF Starting, Threads
    <3>2. ~Stopping'
      BY <2>3 DEF Stopping
    <3>3. ASSUME NEW i \in 1..n PROVE loops'[i] = i /\ i \in Threads /\ Seen(i)'
      <4>1. i \in Threads /\ i <= n
        BY <2>2 DEF Threads
      <4>2. Seen(i)'
        BY <2>2, <2>3, <4>1 DEF Seen, Starting, Threads
      <4>3. loops'[i] = i
        <5>1. CASE i = n
          BY <2>5, <5>1
        <5>2. CASE i # n
          <6>1. i \in 1..(n - 1)
            BY <2>2, <5>2 DEF Threads
          <6> QED BY <2>4, <2>5, <6>1
        <5> QED BY <5>1, <5>2
      <4> QED BY <4>1, <4>2, <4>3
    <3> QED BY <2>5, <3>1, <3>2, <3>3 DEF LoopsSeen
  <2>10. OutlivesThread'
    BY <2>1 DEF IInv, OutlivesThread
  <2> QED BY <2>6, <2>8, <2>9, <2>10 DEF IInv
<1> QED BY <1>1, <1>2, <1>3, <1>4 DEF OwnerStarts

\* The destructors: at each thread the owner comes to, the loop is there to be told.
LEMMA StopKeeps ==
    ASSUME IInv, Destroy \/ OwnerStops
    PROVE  IInv'
<1> USE NumThreadsAssumption
<1>1. CASE Destroy
  <2>1. TypeOK' /\ AtThread'
    BY <1>1 DEF IInv, TypeOK, AtThread, Threads, Destroy
  <2>2. PlaceRight'
    BY <1>1 DEF IInv, TypeOK, PlaceRight, Seen, Starting, Told, Threads, Destroy
  <2>3. LoopsSeen' /\ OutlivesThread'
    BY <1>1 DEF IInv, LoopsSeen, OutlivesThread, Seen, Starting, Stopping, Destroy
  <2> QED BY <2>1, <2>2, <2>3 DEF IInv
<1>2. CASE Delete
  <2>1. owner.step = "delete" /\ owner.nr \in Threads
    BY <1>2 DEF Delete, IInv, AtThread
  <2>2. Seen(owner.nr) /\ ~Told(owner.nr)
    BY <2>1 DEF Seen, Starting, Told, Threads
  <2>3. loop[owner.nr] = owner.nr
    BY <2>1, <2>2 DEF IInv, PlaceRight
  <2>4. Owner("quit") /\ UNCHANGED <<asleep, at, tid, loop, quit, wake, loops, deleted, lost>>
    BY <1>2, <2>1, <2>3 DEF Delete, Threads
  <2>5. TypeOK' /\ AtThread'
    BY <2>1, <2>4 DEF IInv, TypeOK, AtThread, Threads, Owner
  <2>6. PlaceRight'
    BY <2>1, <2>4 DEF IInv, TypeOK, PlaceRight, Seen, Starting, Told, Threads, Owner
  <2>7. LoopsSeen' /\ OutlivesThread'
    BY <2>1, <2>4 DEF IInv, TypeOK, LoopsSeen, OutlivesThread, Seen, Starting, Stopping, Owner
  <2> QED BY <2>5, <2>6, <2>7 DEF IInv
<1>3. CASE SetQuit \/ Wakeup
  <2>1. TypeOK' /\ AtThread'
    BY <1>3 DEF IInv, TypeOK, AtThread, Threads, SetQuit, Wakeup, Owner
  <2>2. PlaceRight'
    <3>1. /\ owner.nr \in Threads /\ UNCHANGED <<at, tid, loop>>
          /\ owner'.nr = owner.nr
          /\ \/ /\ owner.step = "quit" /\ owner'.step = "wakeup"
                /\ quit' = [quit EXCEPT ![owner.nr] = TRUE]
             \/ owner.step = "wakeup" /\ owner'.step = "join" /\ quit' = quit
      BY <1>3 DEF SetQuit, Wakeup, Owner, IInv, AtThread, TypeOK
    <3> SUFFICES ASSUME NEW t \in Threads
                 PROVE  /\ Seen(t)' => Seen(t)
                        /\ Told(t) => Told(t)'
                        /\ quit'[t] => quit[t] \/ Told(t)'
      BY <3>1 DEF IInv, PlaceRight
    <3>2. Seen(t)
      BY <3>1 DEF Seen, Starting
    <3>3. Told(t)' <=> t < owner.nr \/ t = owner.nr
      BY <3>1 DEF Told
    <3>4. Told(t) => Told(t)'
      BY <3>1, <3>3 DEF Told
    <3>5. quit'[t] => quit[t] \/ t = owner.nr
      BY <3>1 DEF IInv, TypeOK
    <3> QED BY <3>2, <3>3, <3>4, <3>5
  <2>3. LoopsSeen' /\ OutlivesThread'
    BY <1>3 DEF IInv, TypeOK, LoopsSeen, OutlivesThread, Seen, Starting, Stopping, SetQuit, Wakeup, Owner
  <2> QED BY <2>1, <2>2, <2>3 DEF IInv
<1>4. CASE Join
  <2>1. /\ owner.step = "join" /\ owner.nr \in Threads /\ at[owner.nr] = "ended"
        /\ deleted' = [deleted EXCEPT ![owner.nr] = TRUE]
        /\ OwnerNext("delete", "done")
        /\ UNCHANGED <<asleep, at, tid, loop, quit, wake, loops, lost>>
    BY <1>4 DEF Join, Deleted, IInv, AtThread
  <2>2. \/ owner' = [step |-> "delete", nr |-> owner.nr + 1] /\ owner.nr < NumThreads
        \/ owner' = [step |-> "done", nr |-> owner.nr] /\ owner.nr = NumThreads
    BY <2>1 DEF OwnerNext, Threads
  <2>3. TypeOK' /\ AtThread'
    BY <2>1, <2>2 DEF IInv, TypeOK, AtThread, Threads
  <2>4. PlaceRight'
    <3> SUFFICES ASSUME NEW t \in Threads
                 PROVE  Seen(t) /\ (Told(t) => Told(t)')
      BY <2>1 DEF IInv, PlaceRight
    <3>1. Seen(t)
      BY <2>1 DEF Seen, Starting
    <3>2. Told(t) => t < owner.nr \/ t = owner.nr
      BY <2>1 DEF Told
    <3>3. t < owner.nr \/ t = owner.nr => Told(t)'
      BY <2>1, <2>2 DEF Told, Threads
    <3> QED BY <3>1, <3>2, <3>3
  <2>5. LoopsSeen' /\ OutlivesThread'
    BY <2>1, <2>2 DEF IInv, TypeOK, LoopsSeen, OutlivesThread, Seen, Starting, Stopping
  <2> QED BY <2>3, <2>4, <2>5 DEF IInv
<1> QED BY <1>1, <1>2, <1>3, <1>4 DEF OwnerStops

\* Every step keeps the invariant.
LEMMA StepKeeps == IInv /\ [Next]_vars => IInv'
<1> SUFFICES ASSUME IInv, [Next]_vars PROVE IInv'
  OBVIOUS
<1>1. CASE UNCHANGED vars
  BY <1>1 DEF vars, IInv, TypeOK, AtThread, PlaceRight, LoopsSeen, OutlivesThread, Seen, Starting, Stopping, Told
<1> QED BY <1>1, ThreadKeeps, StartKeeps, StopKeeps DEF Next

\* The state is well typed for any number of threads.
THEOREM TypeCorrect == Spec => []TypeOK
<1>1. IInv => TypeOK
  BY DEF IInv
<1> QED BY InitIInv, StepKeeps, <1>1, PTL DEF Spec

\* For any number of threads, what start() handed out lives until the pool is destroyed.
THEOREM LoopsLive == Spec => []HandedOutLives
BY InitIInv, StepKeeps, SeenLives, PTL DEF Spec

\* For any number of threads, none is left behind with its EventLoopThread destroyed.
THEOREM ThreadsOutlived == Spec => []OutlivesThread
<1>1. IInv => OutlivesThread
  BY DEF IInv
<1> QED BY InitIInv, StepKeeps, <1>1, PTL DEF Spec
=============================================================================
