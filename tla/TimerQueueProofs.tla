-------------------------- MODULE TimerQueueProofs --------------------------
(***************************************************************************)
(* Theorems about TimerQueue for any timers, intervals and delays.         *)
(***************************************************************************)
EXTENDS TimerQueue, FiniteSetTheorems, WellFoundedInduction, TLAPS

\* The entries whose timers the present handleRead() still has to deal with.
Pending == IF at = "reset" THEN expired \ done ELSE expired

\* An entry has its timer's present time; a timer has one entry, and it is in one
\* place: timers_, handleRead's vector or a functor.
Entries ==
    /\ IsFiniteSet(timers) /\ IsFiniteSet(expired)
    /\ \A e \in timers : stage[e[2]] = "set" /\ exp[e[2]] = e[1]
    /\ \A e \in Pending : /\ stage[e[2]] = "set" /\ exp[e[2]] = e[1]
                          /\ e[1] <= shown /\ e \notin timers
    /\ \A i \in DOMAIN queued : stage[queued[i]] = "queued"
    /\ \A i, j \in DOMAIN queued : queued[i] = queued[j] => i = j
    /\ at \in {"poll", "active", "gone"} => expired = {}
    /\ at \in {"poll", "active", "read", "gone"} => done = {}
    /\ shown >= wall

\* The descriptor is armed no later than some entry is due, as the two clocks see
\* it, and exactly for the first while the wall clock was never set.
ArmedNow ==
    /\ armed # Never
    /\ \E e \in timers : e[1] - wall <= armed - mono
    /\ ~setAhead => armed - mono <= Later(First(timers)[1] - wall, 1)

\* So it is when the loop may wait, and before, once reset() has dealt with an
\* entry.  It deals with one: an expired descriptor means an expired entry.
ArmedRight ==
    ~setBack /\ ~crossed =>
        /\ at \in {"poll", "active"} \/ (at = "reset" /\ done # {}) =>
              timers = {} \/ ArmedNow
        /\ at = "active" => Readable
        /\ at \in {"read", "call", "reset"} => timers = {} \/ expired # {}

IInv == TypeOK /\ Entries /\ ArmedRight

----------------------------------------------------------------------------
(* The first of a finite set of entries *)

LEMMA FirstLeast ==
    ASSUME NEW S \in SUBSET (Int \X Timers), IsFiniteSet(S), S # {}
    PROVE  First(S) \in S /\ \A f \in S : First(S)[1] <= f[1]
<1> DEFINE Under(x) == {y \in S : Before(y, x)}
<1> DEFINE Z == {Under(x) : x \in S}
<1>1. Z \subseteq FiniteSubsetsOf(S) /\ Z # {}
  <2>1. ASSUME NEW x \in S PROVE Under(x) \in FiniteSubsetsOf(S)
    <3>1. Under(x) \subseteq S
      OBVIOUS
    <3> QED BY <3>1, FS_Subset DEF FiniteSubsetsOf
  <2> QED BY <2>1
<1>2. PICK m \in S : \A y \in S : <<Under(y), Under(m)>> \notin StrictSubsetOrdering(S)
  <2> HIDE DEF Under
  <2>1. \E z \in Z : \A w \in Z : ~(<<w, z>> \in StrictSubsetOrdering(S))
    <3> HIDE DEF Z
    <3> QED BY <1>1, WFMin, FS_StrictSubsetOrderingWellFounded
  <2> QED BY <2>1
<1>3. \A x \in S : x[1] \in Int /\ x[2] \in Int /\ x = <<x[1], x[2]>>
  <2> SUFFICES ASSUME NEW x \in S PROVE x[1] \in Int /\ x[2] \in Int /\ x = <<x[1], x[2]>>
    OBVIOUS
  <2>1. x \in Int \X Timers
    OBVIOUS
  <2>2. x = <<x[1], x[2]>> /\ x[1] \in Int /\ x[2] \in Timers
    BY <2>1
  <2>3. Timers \subseteq Int
    BY TimersAssumption
  <2>4. x[2] \in Int
    BY <2>2, <2>3
  <2> QED BY <2>2, <2>4
<1>4. ASSUME NEW y \in S, Before(y, m) PROVE FALSE
  <2>1. Under(y) \subseteq Under(m)
    BY <1>3, <1>4 DEF Before
  <2>2. y \in Under(m) /\ y \notin Under(y)
    BY <1>3, <1>4 DEF Before
  <2>3. Under(y) \in SUBSET S /\ Under(m) \in SUBSET S
    OBVIOUS
  <2>4. <<Under(y), Under(m)>> \in StrictSubsetOrdering(S)
    <3> HIDE DEF Under
    <3> QED BY <2>1, <2>2, <2>3 DEF StrictSubsetOrdering
  <2> QED BY <1>2, <2>4
<1>5. \A f \in S \ {m} : Before(m, f)
  <2> SUFFICES ASSUME NEW f \in S \ {m} PROVE Before(m, f)
    OBVIOUS
  <2>1. ~Before(f, m) /\ (f[1] # m[1] \/ f[2] # m[2])
    BY <1>3, <1>4
  <2> QED BY <1>3, <2>1 DEF Before
<1>6. First(S) \in S /\ \A f \in S \ {First(S)} : Before(First(S), f)
  BY <1>5 DEF First
<1>7. \A f \in S : First(S)[1] <= f[1]
  BY <1>3, <1>6 DEF Before
<1> QED BY <1>6, <1>7

----------------------------------------------------------------------------
(* The invariant holds initially, and the steps keep it *)

LEMMA InitIInv == Init => IInv
<1> SUFFICES ASSUME Init PROVE IInv
  OBVIOUS
<1>1. TypeOK
  <2>1. <<>> \in Seq(Timers)
    OBVIOUS
  <2>2. stage \in [Timers -> {"new", "queued", "set", "over"}] /\ exp \in [Timers -> Int]
    BY DEF Init
  <2>3. /\ mono \in Nat /\ wall \in Int /\ shown \in Int /\ jumps \in Nat
        /\ timers = {} /\ expired = {} /\ done = {} /\ queued = <<>>
        /\ armed = Never /\ at = "poll"
    BY DEF Init
  <2>4. setBack \in BOOLEAN /\ setAhead \in BOOLEAN /\ crossed \in BOOLEAN
    BY DEF Init
  <2> QED BY <2>1, <2>2, <2>3, <2>4 DEF TypeOK
<1>2. Entries
  BY FS_EmptySet DEF Init, Entries, Pending
<1>3. ArmedRight
  BY DEF Init, ArmedRight
<1> QED BY <1>1, <1>2, <1>3 DEF IInv

LEMMA TickIInv == IInv /\ Tick => IInv'
<1> SUFFICES ASSUME IInv, Tick PROVE IInv'
  OBVIOUS
<1> USE DEF IInv
<1>0. /\ mono' = mono + 1 /\ wall' = wall + 1 /\ shown' = Later(shown, wall + 1)
      /\ UNCHANGED <<setBack, setAhead, jumps, stage, exp, timers, armed, queued, local>>
      /\ mono \in Nat /\ wall \in Int /\ shown \in Int
  BY DEF Tick, TypeOK
<1>1. shown' \in Int /\ shown' >= wall' /\ shown' >= shown
  BY <1>0 DEF Later, TypeOK
<1>2. TypeOK'
  BY <1>0, <1>1 DEF TypeOK, local
<1>3. Entries'
  <2>1. \A e \in Pending : e[1] \in Int
    BY DEF Pending, TypeOK
  <2> QED BY <1>0, <1>1, <2>1 DEF Entries, Pending, local
<1>4. ArmedRight'
  <2>1. ASSUME ArmedNow PROVE ArmedNow'
    <3>1. armed \in Int /\ armed' = armed /\ \A e \in timers : e[1] \in Int
      BY <1>0, <2>1 DEF ArmedNow, TypeOK
    <3>2. \E e \in timers' : e[1] - wall' <= armed' - mono'
      BY <1>0, <2>1, <3>1 DEF ArmedNow
    <3>3. ~setAhead' => armed' - mono' <= Later(First(timers')[1] - wall', 1)
      <4>1. timers # {} /\ IsFiniteSet(timers) /\ timers \in SUBSET (Int \X Timers)
        BY <2>1 DEF ArmedNow, Entries, TypeOK
      <4>2. PICK f \in Int : f = First(timers)[1]
        BY <3>1, <4>1, FirstLeast
      <4>3. ~setAhead => armed - mono <= Later(f - wall, 1)
        BY <2>1, <4>2 DEF ArmedNow
      <4> QED BY <1>0, <3>1, <4>2, <4>3 DEF Later
    <3> QED BY <1>0, <2>1, <3>2, <3>3 DEF ArmedNow
  <2>2. Readable => Readable'
    BY <1>0 DEF Readable, TypeOK
  <2> QED BY <1>0, <2>1, <2>2 DEF ArmedRight, local
<1> QED BY <1>2, <1>3, <1>4

LEMMA SetClockIInv == IInv /\ SetClock => IInv'
<1> SUFFICES ASSUME IInv, SetClock PROVE IInv'
  OBVIOUS
<1> USE DEF IInv
<1>0. /\ wall' \in Int /\ shown' = Later(shown, wall') /\ jumps' \in Nat
      /\ setBack' \in BOOLEAN /\ setAhead' \in BOOLEAN
      /\ UNCHANGED <<mono, stage, exp, timers, armed, queued, local>>
      /\ ~setBack' => setAhead' /\ ~setBack /\ wall' = wall + 1
      /\ mono \in Nat /\ wall \in Int /\ shown \in Int
  <2>1. /\ mono \in Nat /\ wall \in Int /\ shown \in Int /\ jumps \in Nat
        /\ setBack \in BOOLEAN /\ setAhead \in BOOLEAN
    BY DEF TypeOK
  <2>2. /\ shown' = Later(shown, wall') /\ jumps' = jumps + 1
        /\ UNCHANGED <<mono, stage, exp, timers, armed, queued, local>>
    BY DEF SetClock
  <2>3. CASE wall' = wall - 1 /\ setBack' = TRUE /\ UNCHANGED setAhead
    BY <2>1, <2>2, <2>3
  <2>4. CASE wall' = wall + 1 /\ setAhead' = TRUE /\ UNCHANGED setBack
    BY <2>1, <2>2, <2>4
  <2> QED BY <2>3, <2>4 DEF SetClock
<1>1. shown' \in Int /\ shown' >= wall' /\ shown' >= shown
  BY <1>0 DEF Later
<1>2. TypeOK'
  BY <1>0, <1>1 DEF TypeOK, local
<1>3. Entries'
  <2>1. \A e \in Pending : e[1] \in Int
    BY DEF Pending, TypeOK
  <2> QED BY <1>0, <1>1, <2>1 DEF Entries, Pending, local
<1>4. ArmedRight'
  <2>1. ASSUME ArmedNow, ~setBack' PROVE ArmedNow'
    <3>1. armed \in Int /\ armed' = armed /\ \A e \in timers : e[1] \in Int
      BY <1>0, <2>1 DEF ArmedNow, TypeOK
    <3> QED BY <1>0, <2>1, <3>1 DEF ArmedNow
  <2> QED BY <1>0, <2>1 DEF ArmedRight, Readable, local
<1> QED BY <1>2, <1>3, <1>4

\* A timer added to timers_ leaves the descriptor armed as it should be.
LEMMA AddArms ==
    ASSUME IInv, NEW t \in Timers, NEW when \in Int, AddTimerInLoop(t, when),
           timers = {} \/ ArmedNow, UNCHANGED clocks
    PROVE  ArmedNow' /\ armed' \in Int
<1> USE DEF IInv
<1>0. /\ timers' = timers \cup {<<when, t>>} /\ mono \in Int /\ wall \in Int
      /\ UNCHANGED <<mono, wall, setAhead>> /\ Never \notin Int
      /\ IsFiniteSet(timers) /\ timers \in SUBSET (Int \X Timers)
  BY NeverAssumption DEF AddTimerInLoop, TypeOK, clocks, Entries
<1>1. /\ timers' \in SUBSET (Int \X Timers) /\ timers' # {} /\ IsFiniteSet(timers')
      /\ <<when, t>> \in timers'
  <2>1. PICK e : e = <<when, t>>
    OBVIOUS
  <2>2. e \in Int \X Timers /\ timers' = timers \cup {e}
    BY <1>0, <2>1
  <2>3. IsFiniteSet(timers')
    BY <1>0, <2>2, FS_AddElement
  <2> QED BY <1>0, <2>1, <2>2, <2>3
<1>2. PICK n \in timers' : n = First(timers') /\ n[1] \in Int /\ n[1] <= when
  <2>1. First(timers') \in timers' /\ \A f \in timers' : First(timers')[1] <= f[1]
    BY <1>1, FirstLeast
  <2>2. First(timers')[1] \in Int /\ <<when, t>>[1] = when
    BY <1>1, <2>1
  <2> QED BY <1>1, <2>1, <2>2
<1>3. CASE timers = {} \/ when < First(timers)[1]
  <2>1. armed' = mono + (IF when - wall < 1 THEN 1 ELSE when - wall)
    BY <1>3 DEF AddTimerInLoop, ResetTimerfd
  <2>2. armed' \in Int /\ when - wall <= armed' - mono
    BY <1>0, <2>1
  <2>3. n[1] >= when
    <3>1. CASE n = <<when, t>>
      BY <3>1
    <3>2. CASE n \in timers
      <4>1. timers # {}
        BY <3>2
      <4>2. First(timers) \in timers /\ First(timers)[1] <= n[1]
        BY <1>0, <3>2, <4>1, FirstLeast
      <4>3. First(timers)[1] \in Int
        BY <1>0, <4>2
      <4> QED BY <1>2, <1>3, <4>1, <4>2, <4>3
    <3> QED BY <3>1, <3>2, <1>0
  <2>4. armed' - mono <= Later(n[1] - wall, 1)
    BY <1>0, <1>2, <2>1, <2>2, <2>3 DEF Later
  <2>5. n[1] - wall <= armed' - mono
    <3>1. PICK k \in Int : k = n[1] /\ k <= when
      BY <1>2
    <3>2. PICK d \in Int : d = armed' - mono /\ when - wall <= d
      <4>1. mono \in Int /\ armed' \in Int /\ when - wall <= armed' - mono
        BY <1>0, <2>2
      <4>2. armed' - mono \in Int
        BY <4>1
      <4> QED BY <4>1, <4>2
    <3>3. k - wall <= when - wall
      BY <1>0, <3>1
    <3>4. k - wall <= d
      BY <1>0, <3>1, <3>2, <3>3
    <3> QED BY <3>1, <3>2, <3>4
  <2> QED BY <1>0, <1>2, <2>2, <2>4, <2>5 DEF ArmedNow
<1>4. CASE timers # {} /\ ~(when < First(timers)[1])
  <2>1. armed' = armed /\ ArmedNow
    BY <1>4 DEF AddTimerInLoop
  <2>2. First(timers) \in timers /\ \A f \in timers : First(timers)[1] <= f[1]
    BY <1>0, <1>4, FirstLeast
  <2>3. PICK f \in Int : f = First(timers)[1]
    BY <1>0, <2>2
  <2>4. f <= n[1]
    <3>1. CASE n = <<when, t>>
      BY <3>1, <1>4, <2>3
    <3>2. CASE n \in timers
      BY <3>2, <2>2, <2>3
    <3> QED BY <3>1, <3>2, <1>0
  <2>5. armed \in Int
    BY <2>1 DEF ArmedNow, TypeOK
  <2>6. ~setAhead => armed - mono <= Later(n[1] - wall, 1)
    <3>1. ~setAhead => armed - mono <= Later(f - wall, 1)
      BY <2>1, <2>3 DEF ArmedNow
    <3> QED BY <1>0, <1>2, <2>4, <2>5, <3>1 DEF Later
  <2>7. \E e \in timers' : e[1] - wall <= armed - mono
    BY <1>0, <2>1 DEF ArmedNow
  <2> QED BY <1>0, <1>2, <2>1, <2>5, <2>6, <2>7 DEF ArmedNow
<1> QED BY <1>3, <1>4

\* Only the times of timers are taken from outside.
LEMMA WhenInt ==
    ASSUME IInv, NEW t \in Timers, NEW when, NEW next, NewTimer(t, when, next)
    PROVE  when \in Int
<1>1. PICK d \in Delays : when = wall + (IF Interval[t] > 0 THEN Interval[t] ELSE d)
  BY DEF NewTimer
<1>2. wall \in Int /\ d \in Int /\ Interval[t] \in Int
  BY TimersAssumption, DelaysAssumption DEF IInv, TypeOK
<1> QED BY <1>1, <1>2

LEMMA AddTypes ==
    ASSUME IInv, NEW t \in Timers, NEW when \in Int, AddTimerInLoop(t, when)
    PROVE  /\ timers' \in SUBSET (Int \X Timers) /\ IsFiniteSet(timers')
           /\ armed' \in Int \cup {Never}
<1>1. PICK e : e = <<when, t>>
  OBVIOUS
<1>2. e \in Int \X Timers /\ timers' = timers \cup {e}
  BY <1>1 DEF AddTimerInLoop
<1>3. IsFiniteSet(timers')
  BY <1>2, FS_AddElement DEF IInv, Entries
<1>4. armed' \in Int \cup {Never}
  <2>1. mono \in Int /\ wall \in Int /\ armed \in Int \cup {Never}
    BY DEF IInv, TypeOK
  <2> QED BY <2>1 DEF AddTimerInLoop, ResetTimerfd
<1> QED BY <1>2, <1>3, <1>4 DEF IInv, TypeOK

LEMMA AddHereIInv ==
    ASSUME IInv, NEW t \in Timers, AddHere(t)
    PROVE  IInv'
<1> USE DEF IInv
<1>1. PICK when \in Whens :
         /\ at \in {"poll", "active"} \/ (at = "call" /\ done # expired)
         /\ NewTimer(t, when, "set") /\ AddTimerInLoop(t, when)
         /\ crossed' = (crossed \/ (at = "active" /\ armed' # armed))
         /\ UNCHANGED <<clocks, queued, at, expired, done>>
  BY DEF AddHere
<1>2. when \in Int
  BY <1>1, WhenInt
<1>3. /\ timers' \in SUBSET (Int \X Timers) /\ IsFiniteSet(timers')
      /\ armed' \in Int \cup {Never}
  BY <1>1, <1>2, AddTypes
<1>4. /\ stage[t] = "new" /\ timers' = timers \cup {<<when, t>>}
      /\ exp' = [exp EXCEPT ![t] = when] /\ stage' = [stage EXCEPT ![t] = "set"]
      /\ \A s \in Timers : /\ stage'[s] = IF s = t THEN "set" ELSE stage[s]
                           /\ exp'[s] = IF s = t THEN when ELSE exp[s]
  BY <1>1 DEF NewTimer, AddTimerInLoop, TypeOK
<1>5. TypeOK'
  BY <1>1, <1>2, <1>3, <1>4 DEF TypeOK, clocks
<1>6. Entries'
  <2>1. \A e \in timers' : stage'[e[2]] = "set" /\ exp'[e[2]] = e[1]
    <3> SUFFICES ASSUME NEW e \in timers' PROVE stage'[e[2]] = "set" /\ exp'[e[2]] = e[1]
      OBVIOUS
    <3>1. CASE e \in timers
      BY <3>1, <1>4 DEF Entries, TypeOK
    <3>2. CASE e = <<when, t>>
      BY <3>2, <1>4
    <3> QED BY <3>1, <3>2, <1>4
  <2>2. \A e \in Pending : e[2] \in Timers /\ e[2] # t /\ e # <<when, t>>
    <3> SUFFICES ASSUME NEW e \in Pending PROVE e[2] \in Timers /\ e[2] # t /\ e # <<when, t>>
      OBVIOUS
    <3>1. e[2] \in Timers /\ stage[e[2]] = "set"
      BY DEF Entries, Pending, TypeOK
    <3> QED BY <3>1, <1>4
  <2>3. Pending' = Pending
    BY <1>1 DEF Pending
  <2>4. \A e \in Pending' : /\ stage'[e[2]] = "set" /\ exp'[e[2]] = e[1]
                            /\ e[1] <= shown' /\ e \notin timers'
    BY <1>1, <1>4, <2>2, <2>3 DEF Entries, clocks
  <2>5. \A i \in DOMAIN queued' : stage'[queued'[i]] = "queued"
    <3>1. \A i \in DOMAIN queued : queued[i] \in Timers
      BY DEF TypeOK
    <3> QED BY <1>1, <1>4, <3>1 DEF Entries
  <2> QED BY <1>1, <1>3, <2>1, <2>4, <2>5 DEF Entries, clocks
<1>7. ArmedRight'
  <2>1. CASE at \in {"poll", "active"} /\ ~setBack /\ ~crossed'
    <3>1. timers = {} \/ ArmedNow
      BY <1>1, <2>1 DEF ArmedRight
    <3>2. ArmedNow'
      BY <1>1, <1>2, <3>1, AddArms
    <3>3. at = "active" => Readable'
      BY <1>1, <2>1 DEF ArmedRight, Readable, clocks
    <3> QED BY <1>1, <2>1, <3>2, <3>3 DEF ArmedRight
  <2>2. CASE at = "call" /\ done # expired
    BY <1>1, <2>2 DEF ArmedRight, TypeOK
  <2> QED BY <1>1, <2>1, <2>2 DEF ArmedRight, clocks
<1> QED BY <1>5, <1>6, <1>7

LEMMA AddElsewhereIInv ==
    ASSUME IInv, NEW t \in Timers, AddElsewhere(t)
    PROVE  IInv'
<1> USE DEF IInv
<1>1. PICK when \in Whens :
         /\ NewTimer(t, when, "queued") /\ queued' = Append(queued, t)
         /\ UNCHANGED <<clocks, timers, armed, local>>
  BY DEF AddElsewhere
<1>2. when \in Int
  BY <1>1, WhenInt
<1>4. /\ stage[t] = "new"
      /\ exp' = [exp EXCEPT ![t] = when] /\ stage' = [stage EXCEPT ![t] = "queued"]
      /\ \A s \in Timers : /\ stage'[s] = IF s = t THEN "queued" ELSE stage[s]
                           /\ exp'[s] = IF s = t THEN when ELSE exp[s]
  BY <1>1 DEF NewTimer, TypeOK
<1>5. TypeOK'
  BY <1>1, <1>2, <1>4 DEF TypeOK, clocks, local
<1>6. Entries'
  <2>1. \A e \in timers \cup Pending : e[2] \in Timers /\ e[2] # t
    BY <1>4 DEF Entries, Pending, TypeOK
  <2>2. Pending' = Pending
    BY <1>1 DEF Pending, local
  <2>3. /\ Len(queued') = Len(queued) + 1 /\ DOMAIN queued' = 1..Len(queued')
        /\ queued'[Len(queued')] = t /\ DOMAIN queued = 1..Len(queued) /\ Len(queued) \in Nat
        /\ \A i \in DOMAIN queued : queued'[i] = queued[i] /\ queued[i] \in Timers
    BY <1>1 DEF TypeOK
  <2>4. \A i \in DOMAIN queued : queued[i] # t
    BY <1>4 DEF Entries
  <2>5. \A i \in DOMAIN queued' : i = Len(queued') \/ i \in DOMAIN queued
    BY <2>3
  <2>6. \A i \in DOMAIN queued' : stage'[queued'[i]] = "queued"
    BY <1>4, <2>3, <2>5 DEF Entries
  <2>7. \A i, j \in DOMAIN queued' : queued'[i] = queued'[j] => i = j
    BY <2>3, <2>4, <2>5 DEF Entries
  <2> QED BY <1>1, <1>4, <2>1, <2>2, <2>6, <2>7 DEF Entries, local, clocks
<1>7. ArmedRight'
  BY <1>1 DEF ArmedRight, ArmedNow, Readable, clocks, local
<1> QED BY <1>5, <1>6, <1>7

LEMMA RunFunctorIInv == IInv /\ RunFunctor => IInv'
<1> SUFFICES ASSUME IInv, RunFunctor PROVE IInv'
  OBVIOUS
<1> USE DEF IInv
<1>1. PICK t, when : t = Head(queued) /\ when = exp[t]
  OBVIOUS
<1>2. /\ at = "poll" /\ queued # <<>> /\ stage' = [stage EXCEPT ![t] = "set"]
      /\ AddTimerInLoop(t, when) /\ queued' = Tail(queued)
      /\ UNCHANGED <<clocks, exp, local>>
  BY <1>1 DEF RunFunctor
<1>3. /\ t \in Timers /\ when \in Int /\ stage[t] = "queued" /\ queued' \in Seq(Timers)
      /\ DOMAIN queued = 1..Len(queued) /\ DOMAIN queued' = 1..Len(queued')
      /\ Len(queued') = Len(queued) - 1 /\ Len(queued) \in Nat /\ Len(queued) > 0
      /\ \A i \in DOMAIN queued' : queued'[i] = queued[i + 1] /\ i + 1 \in DOMAIN queued
      /\ t = queued[1] /\ 1 \in DOMAIN queued
  <2>1. queued \in Seq(Timers)
    BY DEF TypeOK
  <2>2. /\ t \in Timers /\ queued' \in Seq(Timers) /\ t = queued[1]
        /\ DOMAIN queued = 1..Len(queued) /\ DOMAIN queued' = 1..Len(queued')
        /\ Len(queued') = Len(queued) - 1 /\ Len(queued) \in Nat /\ Len(queued) > 0
        /\ \A i \in 1..Len(queued') : queued'[i] = queued[i + 1]
    BY <1>1, <1>2, <2>1
  <2>3. stage[t] = "queued" /\ when \in Int
    BY <1>1, <2>2 DEF Entries, TypeOK
  <2> QED BY <2>2, <2>3
<1>4. /\ timers' \in SUBSET (Int \X Timers) /\ IsFiniteSet(timers')
      /\ armed' \in Int \cup {Never} /\ timers' = timers \cup {<<when, t>>}
  BY <1>2, <1>3, AddTypes DEF AddTimerInLoop
<1>5. TypeOK'
  BY <1>2, <1>3, <1>4 DEF TypeOK, clocks, local
<1>6. Entries'
  <2>0. \A s \in Timers : stage'[s] = IF s = t THEN "set" ELSE stage[s]
    BY <1>2 DEF TypeOK
  <2>1. ASSUME NEW e \in timers' PROVE stage'[e[2]] = "set" /\ exp'[e[2]] = e[1]
    <3>1. CASE e \in timers
      BY <3>1, <1>2, <1>3, <2>0 DEF Entries, TypeOK
    <3>2. CASE e = <<when, t>>
      BY <3>2, <1>1, <1>2, <1>3, <2>0
    <3> QED BY <3>1, <3>2, <1>4
  <2>2. Pending' = {} /\ expired' = {} /\ done' = {}
    BY <1>2 DEF Pending, Entries, local
  <2>3. \A i \in DOMAIN queued' : queued'[i] # t
    <3> SUFFICES ASSUME NEW i \in DOMAIN queued', queued'[i] = t PROVE FALSE
      OBVIOUS
    <3>1. i + 1 \in DOMAIN queued /\ queued[i + 1] = queued[1] /\ 1 \in DOMAIN queued
      BY <1>3
    <3>2. i + 1 = 1
      BY <3>1 DEF Entries
    <3>3. i \in Int /\ i >= 1
      BY <1>3
    <3> QED BY <3>2, <3>3
  <2>4. \A i \in DOMAIN queued' : stage'[queued'[i]] = "queued"
    BY <1>3, <2>0, <2>3 DEF Entries, TypeOK
  <2>5. \A i, j \in DOMAIN queued' : queued'[i] = queued'[j] => i = j
    <3> SUFFICES ASSUME NEW i \in DOMAIN queued', NEW j \in DOMAIN queued', queued'[i] = queued'[j]
                 PROVE  i = j
      OBVIOUS
    <3>1. i + 1 = j + 1
      BY <1>3 DEF Entries
    <3>2. i \in Int /\ j \in Int
      BY <1>3
    <3> QED BY <3>1, <3>2
  <2> QED BY <1>2, <1>4, <2>1, <2>2, <2>4, <2>5, FS_EmptySet DEF Entries, clocks, local
<1>7. ArmedRight'
  <2>1. ASSUME ~setBack, ~crossed PROVE ArmedNow'
    <3>1. timers = {} \/ ArmedNow
      BY <1>2, <2>1 DEF ArmedRight
    <3> QED BY <1>2, <1>3, <3>1, AddArms
  <2> QED BY <1>2, <2>1 DEF ArmedRight, clocks, local
<1> QED BY <1>5, <1>6, <1>7

\* The poll and the places in handleRead() between which nothing else changes.
LEMMA PollIInv == IInv /\ Poll => IInv'
<1> SUFFICES ASSUME IInv, Poll PROVE IInv'
  OBVIOUS
<1> USE DEF IInv, Poll
<1>1. TypeOK'
  BY DEF TypeOK, clocks
<1>2. Entries'
  BY DEF Entries, Pending, clocks
<1>3. ArmedRight'
  BY DEF ArmedRight, ArmedNow, Readable, clocks
<1> QED BY <1>1, <1>2, <1>3

LEMMA HandleReadIInv == IInv /\ HandleRead => IInv'
<1> SUFFICES ASSUME IInv, HandleRead PROVE IInv'
  OBVIOUS
<1> USE DEF IInv
<1>0. /\ at = "active" /\ expired' = Expired(wall) /\ timers' = timers \ Expired(wall)
      /\ at' = "read" /\ done = {} /\ done' = {}
      /\ UNCHANGED <<clocks, stage, exp, armed, queued, crossed>>
  BY DEF HandleRead, Entries
<1>1. /\ Expired(wall) \subseteq timers /\ timers \in SUBSET (Int \X Timers)
      /\ \A e \in Expired(wall) : e[1] <= wall
  BY DEF Expired, TypeOK
<1>2. TypeOK'
  BY <1>0, <1>1 DEF TypeOK, clocks
<1>3. Entries'
  <2>1. IsFiniteSet(timers') /\ IsFiniteSet(expired')
    BY <1>0, <1>1, FS_Subset DEF Entries
  <2>2. Pending' = Expired(wall)
    BY <1>0 DEF Pending
  <2>3. ASSUME NEW e \in Expired(wall)
        PROVE  /\ stage[e[2]] = "set" /\ exp[e[2]] = e[1] /\ e[1] <= shown /\ e \notin timers'
    <3>1. e[1] \in Int /\ e[1] <= wall /\ wall <= shown /\ wall \in Int /\ shown \in Int
      BY <1>1 DEF TypeOK, Entries
    <3> QED BY <1>0, <1>1, <3>1 DEF Entries
  <2> QED BY <1>0, <1>1, <2>1, <2>2, <2>3 DEF Entries, clocks
<1>4. ArmedRight'
  <2>1. ASSUME ~setBack, ~crossed, timers # {} PROVE expired' # {}
    <3>1. Readable /\ ArmedNow
      BY <1>0, <2>1 DEF ArmedRight
    <3>2. PICK e \in timers : e[1] - wall <= armed - mono
      BY <3>1 DEF ArmedNow
    <3>3. armed \in Int /\ armed <= mono /\ mono \in Int /\ wall \in Int /\ e[1] \in Int
      BY <3>1, <1>1 DEF Readable, TypeOK
    <3>4. e[1] <= wall
      BY <3>2, <3>3
    <3> QED BY <1>0, <3>4 DEF Expired
  <2> QED BY <1>0, <2>1 DEF ArmedRight, clocks
<1> QED BY <1>2, <1>3, <1>4

LEMMA ReadIInv == IInv /\ Read => IInv'
<1> SUFFICES ASSUME IInv, Read PROVE IInv'
  OBVIOUS
<1> USE DEF IInv, Read
<1>1. TypeOK'
  BY DEF TypeOK, clocks, ReadTimerFd
<1>2. Entries'
  BY DEF Entries, Pending, clocks
<1>3. ArmedRight'
  BY DEF ArmedRight, clocks
<1> QED BY <1>1, <1>2, <1>3

LEMMA RunIInv == IInv /\ Run => IInv'
<1> SUFFICES ASSUME IInv, Run PROVE IInv'
  OBVIOUS
<1> USE DEF IInv, Run
<1>1. PICK e \in expired : done' = done \cup {e}
  BY DEF NextExpired
<1>2. TypeOK'
  BY <1>1 DEF TypeOK, clocks
<1>3. Entries'
  BY DEF Entries, Pending, clocks
<1>4. ArmedRight'
  BY DEF ArmedRight, clocks
<1> QED BY <1>2, <1>3, <1>4

LEMMA EndCallsIInv == IInv /\ EndCalls => IInv'
<1> SUFFICES ASSUME IInv, EndCalls PROVE IInv'
  OBVIOUS
<1> USE DEF IInv, EndCalls
<1>1. TypeOK'
  BY DEF TypeOK, clocks
<1>2. Entries'
  BY DEF Entries, Pending, clocks
<1>3. ArmedRight'
  BY DEF ArmedRight, clocks
<1> QED BY <1>1, <1>2, <1>3

LEMMA EndResetIInv == IInv /\ EndReset => IInv'
<1> SUFFICES ASSUME IInv, EndReset PROVE IInv'
  OBVIOUS
<1> USE DEF IInv, EndReset
<1>1. TypeOK'
  BY DEF TypeOK, clocks
<1>2. Entries'
  BY FS_EmptySet DEF Entries, Pending, clocks
<1>3. ArmedRight'
  BY DEF ArmedRight, ArmedNow, Readable, clocks
<1> QED BY <1>1, <1>2, <1>3

LEMMA DestroyIInv == IInv /\ Destroy => IInv'
<1> SUFFICES ASSUME IInv, Destroy PROVE IInv'
  OBVIOUS
<1> USE DEF IInv, Destroy
<1>1. TypeOK'
  BY DEF TypeOK, clocks
<1>2. Entries'
  <2>1. \A i \in DOMAIN queued : queued[i] \in Timers /\ stage'[queued[i]] = stage[queued[i]]
    BY DEF Entries, TypeOK
  <2>2. Pending' = {} /\ expired' = {} /\ done' = {} /\ timers' = {}
    BY DEF Entries, Pending
  <2> QED BY <2>1, <2>2, FS_EmptySet DEF Entries, clocks
<1>3. ArmedRight'
  BY DEF ArmedRight, clocks
<1> QED BY <1>1, <1>2, <1>3

LEMMA ResetIInv == IInv /\ Reset => IInv'
<1> SUFFICES ASSUME IInv, Reset PROVE IInv'
  OBVIOUS
<1> USE DEF IInv
<1>1. PICK e \in expired : NextExpired(e) /\ Renew(e[2])
  BY DEF Reset
<1>2. /\ at = "reset" /\ done # expired /\ e = First(expired \ done) /\ done' = done \cup {e}
      /\ UNCHANGED <<clocks, queued, at, expired, crossed>>
      /\ IF timers' # {} THEN ResetTimerfd(First(timers')[1]) ELSE UNCHANGED armed
  BY <1>1 DEF Reset, NextExpired
<1>3. e \in expired \ done /\ e \in Pending
  <2>1. /\ expired \ done \in SUBSET (Int \X Timers) /\ expired \ done # {}
        /\ IsFiniteSet(expired \ done)
    BY <1>2, FS_Subset DEF TypeOK, Entries
  <2> QED BY <1>2, <2>1, FirstLeast DEF Pending
<1>4. PICK t \in Timers : /\ t = e[2] /\ e = <<e[1], t>> /\ stage[t] = "set" /\ exp[t] = e[1]
                          /\ e \notin timers
  BY <1>3 DEF Entries, TypeOK
<1>5. wall \in Int /\ mono \in Int /\ Interval[t] \in Int /\ wall + Interval[t] \in Int
  BY TimersAssumption DEF TypeOK
<1>6. PICK n : n = <<wall + Interval[t], t>>
  OBVIOUS
<1>7. n \in Int \X Timers /\ n[1] = wall + Interval[t] /\ n[2] = t
  BY <1>5, <1>6
<1>8. \/ /\ Interval[t] > 0 /\ timers' = timers \cup {n} /\ UNCHANGED stage
         /\ exp' = [exp EXCEPT ![t] = wall + Interval[t]]
      \/ /\ timers' = timers /\ UNCHANGED exp
         /\ stage' = [stage EXCEPT ![t] = "over"]
  BY <1>1, <1>4, <1>6 DEF Renew
<1>9. /\ timers' \in SUBSET (Int \X Timers) /\ IsFiniteSet(timers')
      /\ timers \subseteq timers' /\ \A f \in timers' : f \in timers \/ f = n
  BY <1>7, <1>8, FS_AddElement DEF TypeOK, Entries
<1>10. timers' # {} =>
         /\ First(timers') \in timers' /\ First(timers')[1] \in Int
         /\ armed' = mono + (IF First(timers')[1] - wall < 1 THEN 1 ELSE First(timers')[1] - wall)
  BY <1>2, <1>9, FirstLeast DEF ResetTimerfd
<1>11. armed' \in Int \cup {Never}
  BY <1>2, <1>5, <1>10 DEF TypeOK
<1>12. TypeOK'
  BY <1>2, <1>3, <1>5, <1>8, <1>9, <1>11 DEF TypeOK, clocks
<1>13. Entries'
  <2>1. \A f \in timers : f[2] \in Timers /\ f[2] # t
    <3> SUFFICES ASSUME NEW f \in timers, f[2] = t PROVE FALSE
      BY DEF TypeOK
    <3>1. f = <<f[1], f[2]>> /\ f[1] = exp[t]
      BY DEF TypeOK, Entries
    <3>2. f = e
      BY <1>4, <3>1
    <3> QED BY <3>2, <1>4
  <2>2. \A f \in Pending' : f \in Pending /\ f # e /\ f[2] \in Timers
    BY <1>2 DEF Pending, TypeOK
  <2>3. \A f \in Pending' : f[2] # t
    <3> SUFFICES ASSUME NEW f \in Pending', f[2] = t PROVE FALSE
      OBVIOUS
    <3>0. f \in Pending /\ f # e /\ f \in Int \X Timers
      BY <2>2 DEF Pending, TypeOK
    <3>1. f = <<f[1], f[2]>> /\ f[1] = exp[t]
      BY <3>0 DEF Entries
    <3> QED BY <1>4, <3>0, <3>1
  <2>4. \A i \in DOMAIN queued : queued[i] \in Timers /\ queued[i] # t
    BY <1>4 DEF Entries, TypeOK
  <2>5. \A f \in timers' : stage'[f[2]] = "set" /\ exp'[f[2]] = f[1]
    <3>1. CASE Interval[t] > 0 /\ timers' = timers \cup {n} /\ UNCHANGED stage
               /\ exp' = [exp EXCEPT ![t] = wall + Interval[t]]
      BY <3>1, <1>4, <1>7, <2>1 DEF Entries, TypeOK
    <3>2. CASE timers' = timers /\ UNCHANGED exp /\ stage' = [stage EXCEPT ![t] = "over"]
      BY <3>2, <2>1 DEF Entries, TypeOK
    <3> QED BY <3>1, <3>2, <1>8
  <2>6. \A f \in Pending' : stage'[f[2]] = "set" /\ exp'[f[2]] = f[1]
    BY <1>8, <2>2, <2>3 DEF Entries, TypeOK
  <2>7. \A f \in Pending' : f[1] <= shown' /\ f \notin timers'
    BY <1>2, <1>7, <1>9, <2>2, <2>3 DEF Entries, clocks
  <2>8. \A i \in DOMAIN queued' : stage'[queued'[i]] = "queued"
    BY <1>2, <1>8, <2>4 DEF Entries, TypeOK
  <2> QED BY <1>2, <1>9, <2>5, <2>6, <2>7, <2>8 DEF Entries, clocks
<1>14. ArmedRight'
  <2>1. ASSUME timers' # {} PROVE ArmedNow'
    <3>1. PICK f \in timers' : /\ f = First(timers') /\ f[1] \in Int
                               /\ armed' = mono + (IF f[1] - wall < 1 THEN 1 ELSE f[1] - wall)
      BY <1>10, <2>1
    <3>2. /\ armed' \in Int /\ f[1] - wall <= armed' - mono
          /\ armed' - mono <= Later(f[1] - wall, 1)
      BY <1>5, <3>1 DEF Later
    <3> QED BY <1>2, <3>1, <3>2, NeverAssumption DEF ArmedNow, clocks
  <2> QED BY <1>2, <1>3, <2>1 DEF ArmedRight
<1> QED BY <1>12, <1>13, <1>14

\* Every step keeps the invariant.
LEMMA NextIInv == IInv /\ [Next]_vars => IInv'
<1> SUFFICES ASSUME IInv, [Next]_vars PROVE IInv'
  OBVIOUS
<1>1. CASE UNCHANGED vars
  BY <1>1 DEF vars, IInv, TypeOK, Entries, Pending, ArmedRight, ArmedNow, Readable
<1>2. CASE Next
  <2>1. CASE Tick
    BY <2>1, TickIInv
  <2>2. CASE SetClock
    BY <2>2, SetClockIInv
  <2>3. CASE \E t \in Timers : AddHere(t)
    BY <2>3, AddHereIInv
  <2>4. CASE \E t \in Timers : AddElsewhere(t)
    BY <2>4, AddElsewhereIInv
  <2>5. CASE RunFunctor
    BY <2>5, RunFunctorIInv
  <2>6. CASE Poll
    BY <2>6, PollIInv
  <2>7. CASE HandleRead
    BY <2>7, HandleReadIInv
  <2>8. CASE Read
    BY <2>8, ReadIInv
  <2>9. CASE Run
    BY <2>9, RunIInv
  <2>10. CASE EndCalls
    BY <2>10, EndCallsIInv
  <2>11. CASE Reset
    BY <2>11, ResetIInv
  <2>12. CASE EndReset
    BY <2>12, EndResetIInv
  <2>13. CASE Destroy
    BY <2>13, DestroyIInv
  <2> QED BY <1>2, <2>1, <2>2, <2>3, <2>4, <2>5, <2>6, <2>7, <2>8, <2>9, <2>10, <2>11,
             <2>12, <2>13 DEF Next, LoopStep
<1> QED BY <1>1, <1>2

\* The clocks, the timers and the descriptor keep their types.
THEOREM TypeCorrect == Spec => []TypeOK
<1>1. IInv => TypeOK
  BY DEF IInv
<1> QED BY <1>1, InitIInv, NextIInv, PTL DEF Spec

\* The loop never waits with a timer and an unarmed descriptor, unless the wall
\* clock was set back or the descriptor armed between the poll and handleRead().
THEOREM ArmedForTimers == Spec => []Armed
<1>1. IInv => Armed
  BY DEF IInv, ArmedRight, ArmedNow, Armed
<1> QED BY <1>1, InitIInv, NextIInv, PTL DEF Spec

----------------------------------------------------------------------------
(* The queue implements the service *)

Stages == [t \in Timers |-> Stage(t)]

\* Steps that change no stage as the service sees it.
LEMMA SameStages ==
    ASSUME UNCHANGED stage, \A t \in Timers : Called(t)' = Called(t)
    PROVE  Stages' = Stages
BY DEF Stages, Stage

\* Steps that change one.
LEMMA OneStage ==
    ASSUME NEW t \in Timers, NEW next, Stage(t)' = next,
           \A s \in Timers \ {t} : stage'[s] = stage[s] /\ Called(s)' = Called(s)
    PROVE  Stages' = [Stages EXCEPT ![t] = next]
<1>1. \A s \in Timers \ {t} : Stage(s)' = Stage(s)
  BY DEF Stage
<1> QED BY <1>1 DEF Stages

LEMMA ServiceStart == Init => Service!ServiceInit
<1> SUFFICES ASSUME Init PROVE Service!ServiceInit
  OBVIOUS
<1>1. \A t \in Timers : Stage(t) = "new"
  BY DEF Init, Stage, Called
<1>2. exp \in [Timers -> Int]
  BY DEF Init
<1> QED BY <1>1, <1>2 DEF Init, Service!ServiceInit

\* A timer has one entry among those handleRead() deals with.
LEMMA OneEntry ==
    ASSUME IInv, NEW e \in Pending, NEW f \in Pending, e[2] = f[2]
    PROVE  e = f
<1>1. e \in Int \X Timers /\ f \in Int \X Timers
  BY DEF IInv, TypeOK, Pending
<1>2. e[1] = exp[e[2]] /\ f[1] = exp[f[2]]
  BY DEF IInv, Entries
<1> QED BY <1>1, <1>2

LEMMA ClockStep ==
    ASSUME IInv, Tick \/ SetClock
    PROVE  Service!Clock
<1>1. /\ wall' \in Int /\ shown' = Later(shown, wall')
      /\ UNCHANGED <<stage, exp, at, expired, done>>
  BY DEF Tick, SetClock, local, IInv, TypeOK
<1>2. Stages' = Stages
  BY <1>1, SameStages DEF Called
<1>3. shown' = IF wall' > shown THEN wall' ELSE shown
  <2>1. wall' \in Int /\ shown \in Int
    BY <1>1 DEF IInv, TypeOK
  <2> QED BY <1>1, <2>1 DEF Later
<1> QED BY <1>1, <1>2, <1>3 DEF Service!Clock, Stages

LEMMA SetStep ==
    ASSUME IInv, NEW t \in Timers, AddHere(t) \/ AddElsewhere(t)
    PROVE  Service!Set(t)
<1>1. PICK when \in Whens, next \in {"set", "queued"} :
         NewTimer(t, when, next) /\ UNCHANGED <<clocks, at, expired, done>>
  BY DEF AddHere, AddElsewhere, local
<1>2. when \in Int
  BY <1>1, WhenInt
<1>3. /\ stage[t] = "new"
      /\ \A s \in Timers : stage'[s] = IF s = t THEN next ELSE stage[s]
      /\ exp' = [exp EXCEPT ![t] = when] /\ exp'[t] = when
  BY <1>1 DEF NewTimer, IInv, TypeOK
<1>4. ~Called(t)
  <2>1. \A e \in Pending : e[2] # t
    BY <1>3 DEF IInv, Entries
  <2> QED BY <2>1 DEF Called, Pending, IInv, TypeOK
<1>5. \A s \in Timers : Called(s)' = Called(s)
  BY <1>1 DEF Called
<1>6. Stage(t) = "new" /\ Stage(t)' = "set"
  BY <1>3, <1>4, <1>5 DEF Stage
<1>7. Stages' = [Stages EXCEPT ![t] = "set"]
  BY <1>3, <1>5, <1>6, OneStage
<1>8. Stages[t] = "new"
  BY <1>6 DEF Stages
<1>9. UNCHANGED <<wall, shown>>
  BY <1>1 DEF clocks
<1> QED BY <1>2, <1>3, <1>7, <1>8, <1>9 DEF Service!Set, Service!Becomes, Stages

LEMMA CallStep ==
    ASSUME IInv, Run
    PROVE  \E t \in Timers : Service!Call(t)
<1>1. PICK e \in expired : e = First(expired \ done) /\ done' = done \cup {e} /\ done # expired
  BY DEF Run, NextExpired
<1>2. /\ at = "call" /\ at' = "call"
      /\ UNCHANGED <<clocks, stage, exp, timers, armed, queued, at, expired, crossed>>
  BY DEF Run
<1>3. e \in expired \ done
  <2>1. /\ expired \ done \in SUBSET (Int \X Timers) /\ expired \ done # {}
        /\ IsFiniteSet(expired \ done)
    BY <1>1, FS_Subset DEF IInv, TypeOK, Entries
  <2> QED BY <1>1, <2>1, FirstLeast
<1>4. PICK t \in Timers : t = e[2]
  BY DEF IInv, TypeOK
<1>5. /\ stage[t] = "set" /\ exp[t] <= shown
      /\ \A f \in expired : f[2] = t => f = e
  <2>1. Pending = expired
    BY <1>2 DEF Pending
  <2> QED BY <1>4, <2>1, OneEntry DEF IInv, Entries
<1>6. ~Called(t) /\ Called(t)'
  BY <1>1, <1>2, <1>3, <1>4, <1>5 DEF Called, IInv, TypeOK
<1>7. \A s \in Timers \ {t} : Called(s)' = Called(s)
  BY <1>1, <1>2, <1>4 DEF Called
<1>8. Stage(t) = "set" /\ Stage(t)' = "called"
  BY <1>2, <1>5, <1>6 DEF Stage
<1>9. Stages' = [Stages EXCEPT ![t] = "called"] /\ Stages[t] = "set"
  BY <1>2, <1>7, <1>8, OneStage DEF Stages
<1> QED BY <1>2, <1>5, <1>9 DEF Service!Call, Service!Becomes, Stages, clocks

LEMMA RenewStep ==
    ASSUME IInv, Reset
    PROVE  \E t \in Timers : Service!Again(t) \/ Service!Finish(t)
<1>1. PICK e \in expired : NextExpired(e) /\ Renew(e[2])
  BY DEF Reset
<1>2. /\ at = "reset" /\ done # expired /\ e = First(expired \ done) /\ done' = done \cup {e}
      /\ UNCHANGED <<clocks, queued, at, expired, crossed>>
  BY <1>1 DEF Reset, NextExpired
<1>3. e \in expired \ done
  <2>1. /\ expired \ done \in SUBSET (Int \X Timers) /\ expired \ done # {}
        /\ IsFiniteSet(expired \ done)
    BY <1>2, FS_Subset DEF IInv, TypeOK, Entries
  <2> QED BY <1>2, <2>1, FirstLeast
<1>4. PICK t \in Timers : t = e[2]
  BY DEF IInv, TypeOK
<1>5. stage[t] = "set" /\ \A f \in expired \ done : f[2] = t => f = e
  <2>1. Pending = expired \ done
    BY <1>2 DEF Pending
  <2> QED BY <1>3, <1>4, <2>1, OneEntry DEF IInv, Entries
<1>6. Called(t) /\ ~Called(t)'
  BY <1>2, <1>3, <1>4, <1>5 DEF Called
<1>7. \A s \in Timers \ {t} : Called(s)' = Called(s)
  BY <1>2, <1>4 DEF Called
<1>8. Stage(t) = "called" /\ Stages[t] = "called"
  BY <1>5, <1>6 DEF Stage, Stages
<1>9. CASE Interval[t] > 0
  <2>1. exp' = [exp EXCEPT ![t] = wall + Interval[t]] /\ UNCHANGED stage
    BY <1>1, <1>4, <1>9 DEF Renew
  <2>2. Stage(t)' = "set"
    BY <1>5, <1>6, <2>1 DEF Stage
  <2>3. Stages' = [Stages EXCEPT ![t] = "set"]
    BY <1>7, <2>1, <2>2, OneStage
  <2> QED BY <1>2, <1>8, <1>9, <2>1, <2>3 DEF Service!Again, Service!Becomes, Stages, clocks
<1>10. CASE ~(Interval[t] > 0)
  <2>1. stage' = [stage EXCEPT ![t] = "over"] /\ UNCHANGED exp
    BY <1>1, <1>4, <1>10 DEF Renew
  <2>2. \A s \in Timers : stage'[s] = IF s = t THEN "over" ELSE stage[s]
    BY <2>1 DEF IInv, TypeOK
  <2>3. Stage(t)' = "over"
    BY <2>2 DEF Stage
  <2>4. Stages' = [Stages EXCEPT ![t] = "over"]
    BY <1>7, <2>2, <2>3, OneStage
  <2>5. Interval[t] = 0
    BY <1>10, TimersAssumption
  <2> QED BY <1>2, <1>8, <2>1, <2>4, <2>5 DEF Service!Finish, Service!Becomes, Stages, clocks
<1> QED BY <1>9, <1>10

LEMMA ShutdownStep ==
    ASSUME IInv, Destroy
    PROVE  Service!Shutdown
<1>1. /\ at = "poll" /\ at' = "gone" /\ UNCHANGED <<clocks, exp, queued, expired, done, crossed>>
      /\ stage' = [t \in Timers |-> IF \E e \in timers : e[2] = t THEN "over" ELSE stage[t]]
  BY DEF Destroy
<1>2. \A t \in Timers : ~Called(t) /\ ~Called(t)'
  BY <1>1 DEF Called
<1>3. \A t \in Timers : stage[t] # "called"
  BY DEF IInv, TypeOK
<1>4. \A t \in Timers : Stages[t] # "called"
  BY <1>2, <1>3 DEF Stages, Stage
<1>5. PICK some : some = {t \in Timers : \E e \in timers : e[2] = t}
  OBVIOUS
<1>6. some \in SUBSET {t \in Timers : Stages[t] = "set"}
  BY <1>2, <1>5 DEF Stages, Stage, IInv, Entries
<1>7. Stages' = [t \in Timers |-> IF t \in some THEN "over" ELSE Stages[t]]
  <2>1. \A t \in Timers : stage'[t] = IF t \in some THEN "over" ELSE stage[t]
    BY <1>1, <1>5
  <2>2. \A t \in Timers : Stage(t)' = IF t \in some THEN "over" ELSE Stage(t)
    BY <1>2, <2>1 DEF Stage
  <2> QED BY <2>2 DEF Stages
<1> QED BY <1>1, <1>4, <1>6, <1>7 DEF Service!Shutdown, Stages, clocks

\* Every other step of the loop is nothing to the service.
LEMMA StutterStep ==
    ASSUME IInv, RunFunctor \/ Poll \/ HandleRead \/ Read \/ EndCalls \/ EndReset
    PROVE  UNCHANGED Service!timerVars
<1>1. UNCHANGED clocks /\ UNCHANGED exp
  BY DEF RunFunctor, Poll, HandleRead, Read, EndCalls, EndReset
<1>2. Stages' = Stages
  <2>1. CASE RunFunctor
    <3>1. PICK t : t = Head(queued)
      OBVIOUS
    <3>2. /\ at = "poll" /\ at' = "poll" /\ stage' = [stage EXCEPT ![t] = "set"]
          /\ queued # <<>>
      BY <2>1, <3>1 DEF RunFunctor, local
    <3>3. t \in Timers /\ stage[t] = "queued"
      <4>1. queued \in Seq(Timers)
        BY DEF IInv, TypeOK
      <4>2. 1 \in DOMAIN queued /\ t = queued[1] /\ t \in Timers
        BY <3>1, <3>2, <4>1
      <4> QED BY <4>2 DEF IInv, Entries
    <3>4. \A s \in Timers : ~Called(s) /\ ~Called(s)'
      BY <3>2 DEF Called
    <3>5. \A s \in Timers : stage'[s] = IF s = t THEN "set" ELSE stage[s]
      BY <3>2 DEF IInv, TypeOK
    <3>6. \A s \in Timers : Stage(s)' = Stage(s)
      BY <3>3, <3>4, <3>5 DEF Stage
    <3> QED BY <3>6 DEF Stages
  <2>2. CASE Poll
    BY <2>2, SameStages DEF Poll, Called
  <2>3. CASE HandleRead
    BY <2>3, SameStages DEF HandleRead, Called
  <2>4. CASE Read
    BY <2>4, SameStages DEF Read, Called, IInv, Entries
  <2>5. CASE EndCalls
    BY <2>5, SameStages DEF EndCalls, Called
  <2>6. CASE EndReset
    BY <2>6, SameStages DEF EndReset, Called
  <2> QED BY <2>1, <2>2, <2>3, <2>4, <2>5, <2>6
<1> QED BY <1>1, <1>2 DEF Service!timerVars, Stages, clocks

LEMMA ServiceStep == IInv /\ [Next]_vars => [Service!ServiceNext]_(Service!timerVars)
<1> SUFFICES ASSUME IInv, [Next]_vars PROVE [Service!ServiceNext]_(Service!timerVars)
  OBVIOUS
<1>1. CASE UNCHANGED vars
  <2>1. Stages' = Stages
    BY <1>1, SameStages DEF vars, Called
  <2> QED BY <1>1, <2>1 DEF vars, Service!timerVars, Stages
<1>2. CASE Tick \/ SetClock
  BY <1>2, ClockStep DEF Service!ServiceNext
<1>3. CASE \E t \in Timers : AddHere(t) \/ AddElsewhere(t)
  BY <1>3, SetStep DEF Service!ServiceNext
<1>4. CASE Run
  BY <1>4, CallStep DEF Service!ServiceNext
<1>5. CASE Reset
  BY <1>5, RenewStep DEF Service!ServiceNext
<1>6. CASE Destroy
  BY <1>6, ShutdownStep DEF Service!ServiceNext
<1>7. CASE RunFunctor \/ Poll \/ HandleRead \/ Read \/ EndCalls \/ EndReset
  BY <1>7, StutterStep
<1> QED BY <1>1, <1>2, <1>3, <1>4, <1>5, <1>6, <1>7 DEF Next, LoopStep

\* The queue, its descriptor and its loop implement the timer service, whatever
\* happens to the wall clock.
THEOREM ImplementsTimerService == Spec => Promised
BY InitIInv, NextIInv, ServiceStart, ServiceStep, PTL
   DEF Spec, Promised, Service!ServiceSpec
=============================================================================
