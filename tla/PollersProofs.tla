--------------------------- MODULE PollersProofs ---------------------------
(***************************************************************************)
(* Theorems about Pollers for every set of descriptors.                    *)
(***************************************************************************)
EXTENDS Pollers, SequenceTheorems, TLAPS

\* The vector and the channels' indices are inverse to each other.
Shape(p) ==
    /\ p \in PollState
    /\ \A fd \in Fds : IF fd \in p.channels
                       THEN /\ p.index[fd] \in 1..Len(p.pollfds)
                            /\ Original(p.pollfds[p.index[fd]]) = fd
                       ELSE p.index[fd] = kNew
    /\ \A i \in 1..Len(p.pollfds) :
          /\ Original(p.pollfds[i]) \in p.channels
          /\ p.index[Original(p.pollfds[i])] = i

\* The entry of channel fd.
Entry(p, fd) == p.pollfds[p.index[fd]]

\* -fd-1 is not a descriptor and is undone by Original (removeChannel).
LEMMA OriginalIgnored ==
    ASSUME NEW fd \in Fds, NEW ev
    PROVE  /\ Ignored(fd) \in Int /\ Ignored(fd) < 0
           /\ Original([fd |-> Ignored(fd), events |-> ev]) = fd
           /\ Original([fd |-> fd, events |-> ev]) = fd
BY FdsAssumption DEF Ignored, Original

\* updateChannel keeps the shape, gives the channel an entry with its events and
\* leaves the entries of other channels alone.
LEMMA UpdateShape ==
    ASSUME NEW p, Shape(p), NEW fd \in Fds, NEW ev \in SUBSET Events
    PROVE  LET q == PollUpdate(p, fd, ev)
           IN  /\ Shape(q)
               /\ q.channels = p.channels \cup {fd}
               /\ Entry(q, fd).events = ev
               /\ Entry(q, fd).fd = IF ev = {} /\ fd \in p.channels
                                    THEN Ignored(fd) ELSE fd
               /\ \A g \in p.channels \ {fd} : Entry(q, g) = Entry(p, g)
<1> DEFINE q == PollUpdate(p, fd, ev)
<1>0. /\ p \in PollState
      /\ p.channels \in SUBSET Fds
      /\ p.pollfds \in Seq([fd : Int, events : SUBSET Events])
      /\ Len(p.pollfds) \in Nat
      /\ p.index \in [Fds -> Int]
      /\ fd \in Int
  BY FdsAssumption DEF Shape, PollState
<1>1. CASE p.index[fd] = kNew
  <2> DEFINE e == [fd |-> fd, events |-> ev]
  <2>1. fd \notin p.channels
    BY <1>1, <1>0 DEF Shape, kNew
  <2>2. /\ q.pollfds = Append(p.pollfds, e)
        /\ q.index = [p.index EXCEPT ![fd] = Len(p.pollfds) + 1]
        /\ q.channels = p.channels \cup {fd}
        /\ q = [index |-> q.index, channels |-> q.channels, pollfds |-> q.pollfds]
    BY <1>0, <1>1 DEF PollUpdate, PollState
  <2>3. /\ Len(q.pollfds) = Len(p.pollfds) + 1
        /\ q.pollfds[Len(p.pollfds) + 1] = e
        /\ \A i \in 1..Len(p.pollfds) : q.pollfds[i] = p.pollfds[i]
    BY <1>0, <2>2
  <2>4. Original(e) = fd /\ e \in [fd : Int, events : SUBSET Events]
    BY <1>0, OriginalIgnored
  <2>10. q \in PollState
    <3>1. q.pollfds \in Seq([fd : Int, events : SUBSET Events])
      BY <1>0, <2>2, <2>4, AppendProperties
    <3>2. q.index \in [Fds -> Int] /\ q.channels \in SUBSET Fds
      BY <1>0, <2>2
    <3> HIDE DEF q
    <3> QED BY <2>2, <3>1, <3>2 DEF PollState
  <2> HIDE DEF q, e
  <2>5. \A g \in Fds \ {fd} : q.index[g] = p.index[g]
    BY <1>0, <2>2
  <2>6. q.index[fd] = Len(p.pollfds) + 1
    BY <1>0, <2>2
  <2>7. ASSUME NEW g \in p.channels \ {fd} PROVE Entry(q, g) = Entry(p, g)
    <3>1. g \in Fds /\ p.index[g] \in 1..Len(p.pollfds)
      BY <1>0 DEF Shape
    <3> QED BY <2>3, <2>5, <3>1 DEF Entry
  <2>8. Shape(q)
    <3>1. ASSUME NEW g \in Fds
          PROVE  IF g \in q.channels
                 THEN /\ q.index[g] \in 1..Len(q.pollfds)
                      /\ Original(q.pollfds[q.index[g]]) = g
                 ELSE q.index[g] = kNew
      <4>1. CASE g = fd
        BY <1>0, <2>2, <2>3, <2>4, <2>6, <4>1
      <4>2. CASE g # fd
        BY <1>0, <2>2, <2>3, <2>5, <4>2 DEF Shape
      <4> QED BY <4>1, <4>2
    <3>2. ASSUME NEW j \in 1..Len(q.pollfds)
          PROVE  /\ Original(q.pollfds[j]) \in q.channels
                 /\ q.index[Original(q.pollfds[j])] = j
      <4>1. CASE j = Len(p.pollfds) + 1
        BY <2>2, <2>3, <2>4, <2>6, <4>1
      <4>2. CASE j \in 1..Len(p.pollfds)
        <5>1. Original(p.pollfds[j]) \in p.channels /\ p.index[Original(p.pollfds[j])] = j
          BY <4>2 DEF Shape
        <5> QED BY <1>0, <2>1, <2>2, <2>3, <2>5, <4>2, <5>1
      <4> QED BY <1>0, <2>3, <4>1, <4>2
    <3> QED BY <2>10, <3>1, <3>2 DEF Shape
  <2>9. Entry(q, fd) = e
    BY <2>3, <2>6 DEF Entry
  <2> QED BY <2>1, <2>2, <2>7, <2>8, <2>9 DEF e, q
<1>2. CASE p.index[fd] # kNew
  <2> DEFINE i == p.index[fd]
             e == [fd |-> IF ev = {} THEN Ignored(fd) ELSE fd, events |-> ev]
  <2>1. fd \in p.channels /\ i \in 1..Len(p.pollfds) /\ Original(p.pollfds[i]) = fd
    BY <1>2, <1>0 DEF Shape
  <2>2. e \in [fd : Int, events : SUBSET Events] /\ Original(e) = fd
    BY <1>0, OriginalIgnored
  <2>3. /\ q.pollfds = [p.pollfds EXCEPT ![i] = e]
        /\ q.index = p.index
        /\ q.channels = p.channels
    BY <1>0, <1>2 DEF PollUpdate, PollState
  <2> HIDE DEF e
  <2>4. /\ q.pollfds \in Seq([fd : Int, events : SUBSET Events])
        /\ Len(q.pollfds) = Len(p.pollfds)
        /\ \A j \in 1..Len(p.pollfds) : q.pollfds[j] = IF j = i THEN e ELSE p.pollfds[j]
    BY <1>0, <2>1, <2>2, <2>3, ExceptSeq
  <2>5. q \in PollState
    BY <1>0, <1>2, <2>3, <2>4 DEF PollUpdate, PollState
  <2> HIDE DEF q
  <2>6. Shape(q)
    <3>1. ASSUME NEW g \in p.channels
          PROVE  /\ q.index[g] \in 1..Len(q.pollfds)
                 /\ Original(q.pollfds[q.index[g]]) = g
      <4>1. g \in Fds /\ p.index[g] \in 1..Len(p.pollfds)
            /\ Original(p.pollfds[p.index[g]]) = g
        BY <1>0 DEF Shape
      <4>2. g # fd => p.index[g] # i
        BY <2>1, <4>1
      <4> QED BY <2>1, <2>2, <2>3, <2>4, <4>1, <4>2
    <3>2. ASSUME NEW j \in 1..Len(q.pollfds)
          PROVE  /\ Original(q.pollfds[j]) \in q.channels
                 /\ q.index[Original(q.pollfds[j])] = j
      <4>1. j \in 1..Len(p.pollfds) /\ Original(q.pollfds[j]) = Original(p.pollfds[j])
        BY <2>1, <2>2, <2>4
      <4> QED BY <2>3, <4>1 DEF Shape
    <3> QED BY <1>0, <2>3, <2>5, <3>1, <3>2 DEF Shape
  <2>7. ASSUME NEW g \in p.channels \ {fd} PROVE Entry(q, g) = Entry(p, g)
    <3>1. g \in Fds /\ p.index[g] \in 1..Len(p.pollfds)
          /\ Original(p.pollfds[p.index[g]]) = g
      BY <1>0 DEF Shape
    <3>2. p.index[g] # i
      BY <2>1, <3>1
    <3> QED BY <2>3, <2>4, <3>1, <3>2 DEF Entry
  <2>8. Entry(q, fd) = e
    BY <2>1, <2>3, <2>4 DEF Entry
  <2> QED BY <2>1, <2>3, <2>6, <2>7, <2>8 DEF e, q
<1> QED BY <1>1, <1>2

\* removeChannel keeps the shape and every other channel's entry, although it
\* moves one of them to another index.
LEMMA RemoveShape ==
    ASSUME NEW p, Shape(p), NEW fd \in p.channels
    PROVE  LET q == PollRemove(p, fd)
           IN  /\ Shape(q)
               /\ q.channels = p.channels \ {fd}
               /\ \A g \in q.channels : Entry(q, g) = Entry(p, g)
<1> DEFINE q     == PollRemove(p, fd)
           i     == p.index[fd]
           n     == Len(p.pollfds)
           moved == Original(p.pollfds[n])
           Rec   == [fd : Int, events : SUBSET Events]
<1>1. /\ p = [index |-> p.index, channels |-> p.channels, pollfds |-> p.pollfds]
      /\ p.channels \in SUBSET Fds
      /\ p.pollfds \in Seq(Rec)
      /\ n \in Nat
      /\ p.index \in [Fds -> Int]
      /\ fd \in Fds
  BY DEF Shape, PollState
<1>2. i \in 1..n /\ Original(p.pollfds[i]) = fd
  BY <1>1 DEF Shape
<1>3. n \in 1..n /\ moved \in p.channels /\ p.index[moved] = n /\ p.pollfds[n] \in Rec
  <2>1. n \in 1..n
    BY <1>1, <1>2
  <2>2. moved \in p.channels /\ p.index[moved] = n
    BY <2>1 DEF Shape
  <2> HIDE DEF Rec
  <2>3. p.pollfds[n] \in Rec
    BY <1>1, <2>1, ElementOfSeq
  <2> QED BY <2>1, <2>2, <2>3
<1>4. i # n => moved # fd
  BY <1>3
<1>5. /\ q.channels = p.channels \ {fd}
      /\ q.pollfds = SubSeq([p.pollfds EXCEPT ![i] = p.pollfds[n]], 1, n - 1)
      /\ q.index = IF i # n THEN [[p.index EXCEPT ![moved] = i] EXCEPT ![fd] = kNew]
                            ELSE [p.index EXCEPT ![fd] = kNew]
      /\ q = [index |-> q.index, channels |-> q.channels, pollfds |-> q.pollfds]
  <2>1. (i \in 1..(n - 1)) = (i # n)
    BY <1>1, <1>2
  <2> QED BY <1>2, <2>1 DEF PollRemove
<1>6. /\ q.pollfds \in Seq(Rec)
      /\ Len(q.pollfds) = n - 1
      /\ \A j \in 1..(n - 1) : q.pollfds[j] = IF j = i THEN p.pollfds[n] ELSE p.pollfds[j]
  <2> DEFINE t == [p.pollfds EXCEPT ![i] = p.pollfds[n]]
  <2>1. /\ t \in Seq(Rec)
        /\ Len(t) = n
        /\ \A j \in 1..n : t[j] = IF j = i THEN p.pollfds[n] ELSE p.pollfds[j]
    BY <1>1, <1>2, <1>3, ExceptSeq
  <2> HIDE DEF t, Rec
  <2>2. \A j \in 1..(n - 1) : t[j] \in Rec
    <3>1. \A j \in 1..(n - 1) : j \in 1..Len(t)
      BY <2>1, <1>1
    <3> QED BY <2>1, <3>1, ElementOfSeq
  <2>3. /\ SubSeq(t, 1, n - 1) \in Seq(Rec)
        /\ Len(SubSeq(t, 1, n - 1)) = n - 1
        /\ \A j \in 1..(n - 1) : SubSeq(t, 1, n - 1)[j] = t[j]
    <3> DEFINE m == n - 1
    <3>1. m \in Nat
      BY <1>1, <1>3
    <3>2. \A j \in 1..m : t[j] \in Rec
      BY <2>2
    <3> HIDE DEF m
    <3>3. /\ SubSeq(t, 1, m) \in Seq(Rec)
          /\ Len(SubSeq(t, 1, m)) = IF 1 <= m THEN m - 1 + 1 ELSE 0
          /\ \A j \in 1..(m - 1 + 1) : SubSeq(t, 1, m)[j] = t[1 + j - 1]
      BY <3>1, <3>2, SubSeqProperties, Z3
    <3>4. /\ m - 1 + 1 = m /\ (IF 1 <= m THEN m - 1 + 1 ELSE 0) = m
          /\ \A j \in 1..m : 1 + j - 1 = j
      BY <3>1
    <3>5. /\ SubSeq(t, 1, m) \in Seq(Rec)
          /\ Len(SubSeq(t, 1, m)) = m
          /\ \A j \in 1..m : SubSeq(t, 1, m)[j] = t[j]
      BY <3>3, <3>4
    <3> QED BY <3>5 DEF m
  <2>4. q.pollfds = SubSeq(t, 1, n - 1)
    BY <1>5 DEF t
  <2> HIDE DEF q
  <2> QED BY <1>1, <2>1, <2>3, <2>4
<1>7. /\ q.index \in [Fds -> Int]
      /\ q.index[fd] = kNew
      /\ \A g \in Fds \ {fd} :
           q.index[g] = IF i # n /\ g = moved THEN i ELSE p.index[g]
  BY <1>1, <1>2, <1>3, <1>4, <1>5 DEF kNew
<1>8. q \in PollState
  BY <1>1, <1>5, <1>6, <1>7 DEF PollState
<1> HIDE DEF q
\* Every channel that is left: its index and what is there.
<1>9. ASSUME NEW g \in q.channels
      PROVE  /\ g \in Fds \ {fd}
             /\ q.index[g] \in 1..(n - 1)
             /\ q.pollfds[q.index[g]] = p.pollfds[p.index[g]]
             /\ Original(q.pollfds[q.index[g]]) = g
  <2>1. /\ g \in Fds \ {fd} /\ g \in p.channels /\ p.index[g] \in 1..n
        /\ Original(p.pollfds[p.index[g]]) = g
    BY <1>1, <1>5 DEF Shape
  <2>2. p.index[g] # i
    BY <1>2, <2>1
  <2>3. CASE i # n /\ g = moved
    <3>1. q.index[g] = i /\ i \in 1..(n - 1) /\ p.index[g] = n
      BY <1>1, <1>2, <1>3, <1>7, <2>1, <2>3
    <3> QED BY <1>6, <2>1, <3>1
  <2>4. CASE ~(i # n /\ g = moved)
    <3>1. q.index[g] = p.index[g]
      BY <1>7, <2>1, <2>4
    <3>2. p.index[g] # n
      BY <2>1, <2>2, <2>4
    <3>3. p.index[g] \in 1..(n - 1)
      BY <1>1, <2>1, <3>2
    <3> QED BY <1>6, <2>1, <2>2, <3>1, <3>3
  <2> QED BY <2>3, <2>4
\* Every entry that is left: its channel.
<1>10. ASSUME NEW j \in 1..(n - 1)
       PROVE  /\ Original(q.pollfds[j]) \in q.channels
              /\ q.index[Original(q.pollfds[j])] = j
  <2>1. CASE j = i
    <3>1. q.pollfds[j] = p.pollfds[n] /\ i # n
      BY <1>1, <1>6, <2>1
    <3> QED BY <1>1, <1>3, <1>4, <1>5, <1>7, <2>1, <3>1
  <2>2. CASE j # i
    <3>1. q.pollfds[j] = p.pollfds[j] /\ j \in 1..n
      BY <1>1, <1>6, <2>2
    <3>2. /\ Original(p.pollfds[j]) \in p.channels
          /\ p.index[Original(p.pollfds[j])] = j
      BY <3>1 DEF Shape
    <3>3. Original(p.pollfds[j]) # fd /\ Original(p.pollfds[j]) \in Fds
      BY <1>1, <2>2, <3>2
    <3>4. j # n
      BY <1>1
    <3>5. i # n => Original(p.pollfds[j]) # moved
      BY <1>3, <3>2, <3>4
    <3> QED BY <1>5, <1>7, <3>1, <3>2, <3>3, <3>5
  <2> QED BY <2>1, <2>2
<1>11. \A g \in Fds : g \notin q.channels => q.index[g] = kNew
  <2> SUFFICES ASSUME NEW g \in Fds, g \notin q.channels PROVE q.index[g] = kNew
    OBVIOUS
  <2>1. CASE g = fd
    BY <1>7, <2>1
  <2>2. CASE g # fd
    <3>1. g \notin p.channels
      BY <1>5, <2>2
    <3>2. g # moved /\ p.index[g] = kNew
      BY <1>3, <3>1 DEF Shape
    <3> QED BY <1>7, <2>2, <3>2
  <2> QED BY <2>1, <2>2
<1>12. Shape(q)
  BY <1>6, <1>8, <1>9, <1>10, <1>11 DEF Shape
<1>13. \A g \in q.channels : Entry(q, g) = Entry(p, g)
  BY <1>9 DEF Entry
<1> QED BY <1>5, <1>12, <1>13 DEF q

----------------------------------------------------------------------------
(* The inductive invariant *)

\* The epoll set holds the channels that want events, with what they want.
EPollInv ==
    /\ epoll \in EPollState
    /\ ~epoll.fatal
    /\ \A fd \in Fds :
          /\ fd \in epoll.channels <=> epoll.index[fd] # "kNew"
          /\ fd \in epoll.set <=> epoll.index[fd] = "kAdded"
          /\ fd \in epoll.set <=> events[fd] # {}
          /\ fd \in epoll.set => epoll.mask[fd] = events[fd]

\* The vector holds the channels that are known, ignored if they want none.
PollInv ==
    /\ Shape(poll)
    /\ poll.channels = epoll.channels
    /\ \A fd \in poll.channels :
          /\ Entry(poll, fd).events = events[fd]
          /\ Entry(poll, fd).fd = IF events[fd] = {} THEN Ignored(fd) ELSE fd

PollersInv == /\ events \in [Fds -> SUBSET Events]
              /\ EPollInv
              /\ PollInv

LEMMA InitInv == Init => PollersInv
<1> SUFFICES ASSUME Init PROVE PollersInv
  OBVIOUS
<1>1. events \in [Fds -> SUBSET Events] /\ EPollInv
  BY DEF Init, EPollInv, EPollEmpty, EPollState
<1>2. PollInv
  <2>1. <<>> \in Seq([fd : Int, events : SUBSET Events]) /\ Len(<<>>) = 0
    BY EmptySeq
  <2>2. poll \in PollState
    BY <2>1 DEF Init, PollEmpty, PollState, kNew
  <2> QED BY <2>1, <2>2 DEF Init, PollInv, Shape, PollEmpty, EPollEmpty
<1> QED BY <1>1, <1>2 DEF PollersInv

\* What holds of an EPollPoller whose channels want `ev'.
EPollGood(p, ev) ==
    /\ p \in EPollState
    /\ ~p.fatal
    /\ \A fd \in Fds : /\ fd \in p.channels <=> p.index[fd] # "kNew"
                       /\ fd \in p.set <=> p.index[fd] = "kAdded"
                       /\ fd \in p.set => p.mask[fd] = ev[fd]

\* updateChannel never makes a call that fails, and leaves the channel in the
\* epoll set unless it was there and wants no event any more.
LEMMA EPollUpdateGood ==
    ASSUME NEW p, NEW ev \in [Fds -> SUBSET Events], EPollGood(p, ev),
           NEW fd \in Fds, NEW e \in SUBSET Events
    PROVE  LET q == EPollUpdate(p, fd, e)
           IN  /\ EPollGood(q, [ev EXCEPT ![fd] = e])
               /\ q.channels = p.channels \cup {fd}
               /\ fd \in q.set <=> e # {} \/ fd \notin p.set
               /\ \A g \in Fds \ {fd} : g \in q.set <=> g \in p.set
<1> DEFINE q == EPollUpdate(p, fd, e)
<1>1. p = [index |-> p.index, channels |-> p.channels, set |-> p.set,
           mask |-> p.mask, fatal |-> p.fatal]
      /\ p.index \in [Fds -> {"kNew", "kAdded", "kDeleted"}]
      /\ p.channels \in SUBSET Fds /\ p.set \in SUBSET Fds
      /\ p.mask \in [Fds -> SUBSET Events] /\ p.fatal = FALSE
  BY DEF EPollGood, EPollState
<1>2. CASE p.index[fd] # "kAdded"
  <2>1. fd \notin p.set
    BY <1>2 DEF EPollGood
  <2>2. q = [index |-> [p.index EXCEPT ![fd] = "kAdded"],
             channels |-> p.channels \cup {fd}, set |-> p.set \cup {fd},
             mask |-> [p.mask EXCEPT ![fd] = e], fatal |-> FALSE]
    BY <1>1, <1>2, <2>1 DEF EPollUpdate, CtlAdd
  <2> HIDE DEF q
  <2> QED BY <1>1, <2>1, <2>2 DEF q, EPollGood, EPollState
<1>3. CASE p.index[fd] = "kAdded" /\ e = {}
  <2>1. fd \in p.set /\ fd \in p.channels
    BY <1>3 DEF EPollGood
  <2>2. q = [index |-> [p.index EXCEPT ![fd] = "kDeleted"],
             channels |-> p.channels, set |-> p.set \ {fd},
             mask |-> [p.mask EXCEPT ![fd] = {}], fatal |-> FALSE]
    BY <1>1, <1>3 DEF EPollUpdate, CtlDel
  <2> HIDE DEF q
  <2>3. q \in EPollState
    BY <1>1, <2>2 DEF EPollState
  <2>4. EPollGood(q, [ev EXCEPT ![fd] = e])
    BY <1>1, <1>3, <2>1, <2>2, <2>3 DEF EPollGood
  <2> QED BY <1>3, <2>1, <2>2, <2>4 DEF q
<1>4. CASE p.index[fd] = "kAdded" /\ e # {}
  <2>1. fd \in p.set /\ fd \in p.channels
    BY <1>4 DEF EPollGood
  <2>2. q = [index |-> p.index, channels |-> p.channels, set |-> p.set,
             mask |-> [p.mask EXCEPT ![fd] = e], fatal |-> FALSE]
    BY <1>1, <1>4, <2>1 DEF EPollUpdate, CtlMod
  <2> HIDE DEF q
  <2> QED BY <1>1, <1>4, <2>1, <2>2 DEF q, EPollGood, EPollState
<1> QED BY <1>1, <1>2, <1>3, <1>4

\* removeChannel takes the channel out of the map and the epoll set.
LEMMA EPollRemoveGood ==
    ASSUME NEW p, NEW ev \in [Fds -> SUBSET Events], EPollGood(p, ev), NEW fd \in Fds
    PROVE  LET q == EPollRemove(p, fd)
           IN  /\ EPollGood(q, [ev EXCEPT ![fd] = {}])
               /\ q.channels = p.channels \ {fd}
               /\ q.set = p.set \ {fd}
<1> DEFINE q == EPollRemove(p, fd)
<1>1. p = [index |-> p.index, channels |-> p.channels, set |-> p.set,
           mask |-> p.mask, fatal |-> p.fatal]
      /\ p.index \in [Fds -> {"kNew", "kAdded", "kDeleted"}]
      /\ p.channels \in SUBSET Fds /\ p.set \in SUBSET Fds
      /\ p.mask \in [Fds -> SUBSET Events] /\ p.fatal = FALSE
  BY DEF EPollGood, EPollState
<1> DEFINE m == IF p.index[fd] = "kAdded" THEN [p.mask EXCEPT ![fd] = {}] ELSE p.mask
<1>2. q = [index |-> [p.index EXCEPT ![fd] = "kNew"], channels |-> p.channels \ {fd},
           set |-> p.set \ {fd}, mask |-> m, fatal |-> FALSE]
  <2>1. CASE p.index[fd] = "kAdded"
    BY <1>1, <2>1 DEF EPollRemove, CtlDel
  <2>2. CASE p.index[fd] # "kAdded"
    <3>1. fd \notin p.set
      BY <2>2 DEF EPollGood
    <3> QED BY <1>1, <2>2, <3>1 DEF EPollRemove
  <2> QED BY <2>1, <2>2
<1>3. m \in [Fds -> SUBSET Events] /\ \A g \in Fds \ {fd} : m[g] = p.mask[g]
  BY <1>1
<1> HIDE DEF m, q
<1>4. q \in EPollState
  BY <1>1, <1>2, <1>3 DEF EPollState
<1>5. EPollGood(q, [ev EXCEPT ![fd] = {}])
  BY <1>1, <1>2, <1>3, <1>4 DEF EPollGood
<1> QED BY <1>2, <1>5 DEF q

\* update() of a channel that wants events, or that wanted some.
LEMMA SetEventsInv ==
    ASSUME PollersInv, NEW fd \in Fds, NEW ev \in SUBSET Events,
           SetEvents(fd, ev), ev # {} \/ events[fd] # {}
    PROVE  PollersInv'
<1>1. events' = [events EXCEPT ![fd] = ev] /\ events' \in [Fds -> SUBSET Events]
  BY DEF PollersInv, SetEvents
<1>2. EPollInv' /\ epoll'.channels = epoll.channels \cup {fd}
  <2>1. EPollGood(epoll, events)
    BY DEF PollersInv, EPollInv, EPollGood
  <2>2. /\ EPollGood(epoll', events')
        /\ epoll'.channels = epoll.channels \cup {fd}
        /\ fd \in epoll'.set <=> ev # {} \/ fd \notin epoll.set
        /\ \A g \in Fds \ {fd} : g \in epoll'.set <=> g \in epoll.set
    <3> DEFINE q == EPollUpdate(epoll, fd, ev)
    <3>1. /\ EPollGood(q, [events EXCEPT ![fd] = ev])
          /\ q.channels = epoll.channels \cup {fd}
          /\ fd \in q.set <=> ev # {} \/ fd \notin epoll.set
          /\ \A g \in Fds \ {fd} : g \in q.set <=> g \in epoll.set
      BY <2>1, EPollUpdateGood DEF PollersInv
    <3>2. epoll' = q
      BY DEF SetEvents
    <3> HIDE DEF q
    <3> QED BY <1>1, <3>1, <3>2
  <2>3. ASSUME NEW g \in Fds PROVE g \in epoll'.set <=> events'[g] # {}
    BY <1>1, <2>2 DEF PollersInv, EPollInv
  <2> QED BY <2>2, <2>3 DEF EPollGood, EPollInv
<1>3. /\ Shape(poll')
      /\ poll'.channels = poll.channels \cup {fd}
      /\ Entry(poll', fd).events = ev
      /\ Entry(poll', fd).fd = IF ev = {} /\ fd \in poll.channels THEN Ignored(fd) ELSE fd
      /\ \A g \in poll.channels \ {fd} : Entry(poll', g) = Entry(poll, g)
  BY UpdateShape DEF PollersInv, PollInv, SetEvents
<1>4. ev = {} => fd \in poll.channels
  BY DEF PollersInv, PollInv, EPollInv
<1>5. poll.channels \in SUBSET Fds
  BY DEF PollersInv, PollInv, Shape, PollState
<1>6. PollInv'
  <2>1. ASSUME NEW g \in poll'.channels
        PROVE  /\ Entry(poll', g).events = events'[g]
               /\ Entry(poll', g).fd = IF events'[g] = {} THEN Ignored(g) ELSE g
    <3>1. CASE g = fd
      BY <1>1, <1>3, <1>4, <3>1 DEF PollersInv
    <3>2. CASE g # fd
      BY <1>1, <1>3, <1>5, <3>2 DEF PollersInv, PollInv
    <3> QED BY <3>1, <3>2
  <2>2. poll'.channels = epoll'.channels
    BY <1>2, <1>3 DEF PollersInv, PollInv
  <2> QED BY <1>3, <2>1, <2>2 DEF PollInv, Shape, Entry
<1> QED BY <1>1, <1>2, <1>6 DEF PollersInv

\* remove()
LEMMA RemoveInv ==
    ASSUME PollersInv, NEW fd \in Fds, Remove(fd)
    PROVE  PollersInv'
<1>1. events' = [events EXCEPT ![fd] = {}] /\ events' \in [Fds -> SUBSET Events]
  BY DEF PollersInv, Remove
<1>2. EPollInv' /\ epoll'.channels = epoll.channels \ {fd}
  <2>1. EPollGood(epoll, events)
    BY DEF PollersInv, EPollInv, EPollGood
  <2>2. /\ EPollGood(epoll', events')
        /\ epoll'.channels = epoll.channels \ {fd}
        /\ epoll'.set = epoll.set \ {fd}
    <3>1. /\ EPollGood(EPollRemove(epoll, fd), [events EXCEPT ![fd] = {}])
          /\ EPollRemove(epoll, fd).channels = epoll.channels \ {fd}
          /\ EPollRemove(epoll, fd).set = epoll.set \ {fd}
      BY <2>1, EPollRemoveGood DEF PollersInv
    <3> QED BY <1>1, <3>1 DEF Remove
  <2>3. ASSUME NEW g \in Fds PROVE g \in epoll'.set <=> events'[g] # {}
    BY <1>1, <2>2 DEF PollersInv, EPollInv
  <2> QED BY <2>2, <2>3 DEF EPollGood, EPollInv
<1>3. fd \in poll.channels
  BY DEF Remove, PollersInv, PollInv
<1>4. /\ Shape(poll')
      /\ poll'.channels = poll.channels \ {fd}
      /\ \A g \in poll'.channels : Entry(poll', g) = Entry(poll, g)
  BY <1>3, RemoveShape DEF PollersInv, PollInv, Remove
<1>5. poll.channels \in SUBSET Fds
  BY DEF PollersInv, PollInv, Shape, PollState
<1>6. PollInv'
  BY <1>1, <1>2, <1>4, <1>5 DEF PollersInv, PollInv, Shape, Entry
<1> QED BY <1>1, <1>2, <1>6 DEF PollersInv

\* disableAll() and remove(), also of a channel that has no events.
LEMMA DestroyInv ==
    ASSUME PollersInv, NEW fd \in Fds, Destroy(fd)
    PROVE  PollersInv'
<1> DEFINE p == PollUpdate(poll, fd, {})
<1>1. events' = [events EXCEPT ![fd] = {}] /\ events' \in [Fds -> SUBSET Events]
  BY DEF PollersInv, Destroy
<1>2. EPollInv' /\ epoll'.channels = epoll.channels \ {fd}
  <2> DEFINE q  == EPollUpdate(epoll, fd, {})
             ev == [events EXCEPT ![fd] = {}]
  <2>1. EPollGood(epoll, events) /\ {} \in SUBSET Events
    BY DEF PollersInv, EPollInv, EPollGood
  <2>2. /\ EPollGood(q, ev)
        /\ q.channels = epoll.channels \cup {fd}
        /\ \A g \in Fds \ {fd} : g \in q.set <=> g \in epoll.set
    BY <2>1, EPollUpdateGood DEF PollersInv
  <2>3. epoll' = EPollRemove(q, fd) /\ ev \in [Fds -> SUBSET Events]
        /\ [ev EXCEPT ![fd] = {}] = events'
    BY <1>1 DEF Destroy
  <2> HIDE DEF q, ev
  <2>4. /\ EPollGood(epoll', events')
        /\ epoll'.channels = q.channels \ {fd}
        /\ epoll'.set = q.set \ {fd}
    <3>1. /\ EPollGood(EPollRemove(q, fd), [ev EXCEPT ![fd] = {}])
          /\ EPollRemove(q, fd).channels = q.channels \ {fd}
          /\ EPollRemove(q, fd).set = q.set \ {fd}
      BY <2>2, <2>3, EPollRemoveGood
    <3> QED BY <2>3, <3>1
  <2>5. ASSUME NEW g \in Fds PROVE g \in epoll'.set <=> events'[g] # {}
    BY <1>1, <2>2, <2>4 DEF PollersInv, EPollInv
  <2> QED BY <2>2, <2>4, <2>5 DEF EPollGood, EPollInv
<1>3. /\ Shape(p)
      /\ p.channels = poll.channels \cup {fd}
      /\ \A g \in poll.channels \ {fd} : Entry(p, g) = Entry(poll, g)
  BY UpdateShape DEF PollersInv, PollInv
<1>4. poll' = PollRemove(p, fd)
  BY DEF Destroy
<1> HIDE DEF p
<1>5. /\ Shape(poll')
      /\ poll'.channels = poll.channels \ {fd}
      /\ \A g \in poll'.channels : Entry(poll', g) = Entry(poll, g)
  BY <1>3, <1>4, RemoveShape
<1>6. poll.channels \in SUBSET Fds
  BY DEF PollersInv, PollInv, Shape, PollState
<1>7. PollInv'
  BY <1>1, <1>2, <1>5, <1>6 DEF PollersInv, PollInv, Shape, Entry
<1> QED BY <1>1, <1>2, <1>7 DEF PollersInv

THEOREM Invariance == Spec => []PollersInv
<1>1. PollersInv /\ [Next]_vars => PollersInv'
  <2> SUFFICES ASSUME PollersInv, [Next]_vars PROVE PollersInv'
    OBVIOUS
  <2>1. ASSUME NEW fd \in Fds, NEW e \in Events, Enable(fd, e) PROVE PollersInv'
    <3>1. events[fd] \cup {e} \in SUBSET Events /\ events[fd] \cup {e} # {}
      BY DEF PollersInv
    <3> QED BY <2>1, <3>1, SetEventsInv DEF Enable
  <2>2. ASSUME NEW fd \in Fds, DisableWriting(fd) PROVE PollersInv'
    <3>1. events[fd] \ {"w"} \in SUBSET Events /\ events[fd] # {}
      BY <2>2 DEF PollersInv, DisableWriting
    <3> QED BY <2>2, <3>1, SetEventsInv DEF DisableWriting
  <2>3. ASSUME NEW fd \in Fds, DisableAll(fd) PROVE PollersInv'
    BY <2>3, SetEventsInv DEF DisableAll
  <2>4. CASE UNCHANGED vars
    BY <2>4 DEF vars, PollersInv, EPollInv, PollInv, Shape, Entry
  <2> QED BY <2>1, <2>2, <2>3, <2>4, RemoveInv, DestroyInv DEF Next
<1> QED BY <1>1, InitInv, PTL DEF Spec

\* epoll_ctl is never called in a way that aborts the server, however channels
\* come and go and descriptors are reused.
THEOREM NeverAborts == Spec => []NeverFatal
<1>1. PollersInv => NeverFatal
  BY DEF PollersInv, EPollInv, NeverFatal
<1> QED BY <1>1, Invariance, PTL

\* PollPoller's vector and the channels' indices agree after any removals.
THEOREM IndicesAgree == Spec => []IndexIsPosition
<1>1. ASSUME PollersInv PROVE IndexIsPosition
  <2>1. Shape(poll) /\ DOMAIN poll.pollfds = 1..Len(poll.pollfds)
    BY <1>1, LenProperties DEF PollersInv, PollInv, Shape, PollState
  <2> QED BY <2>1 DEF IndexIsPosition, Shape
<1> QED BY <1>1, Invariance, PTL

\* Both pollers report the same events to every channel, whatever happens on
\* the sockets.
THEOREM PollersAgree == Spec => []SameReports
<1>1. ASSUME PollersInv PROVE SameReports
  <2> SUFFICES ASSUME NEW fd \in Fds, NEW cond \in Conditions
               PROVE  LET expected == IF events[fd] = {} THEN {}
                                      ELSE KernelReports(cond, events[fd])
                      IN  /\ EPollReports(epoll, fd, cond) = expected
                          /\ PollReports(poll, fd, cond) = expected
    BY DEF SameReports
  <2> DEFINE expected == IF events[fd] = {} THEN {} ELSE KernelReports(cond, events[fd])
             there    == {j \in DOMAIN poll.pollfds :
                            poll.pollfds[j].fd = fd /\ fd \in poll.channels}
  <2>1. EPollReports(epoll, fd, cond) = expected
    BY <1>1 DEF PollersInv, EPollInv, EPollReports
  <2>2. there = IF events[fd] = {} THEN {} ELSE {poll.index[fd]}
    <3>1. Shape(poll) /\ DOMAIN poll.pollfds = 1..Len(poll.pollfds)
      BY <1>1, LenProperties DEF PollersInv, PollInv, Shape, PollState
    <3>2. ASSUME NEW j \in there PROVE j = poll.index[fd]
      <4>1. Original(poll.pollfds[j]) = fd
        BY FdsAssumption DEF Original
      <4> QED BY <3>1, <4>1 DEF Shape
    <3>3. CASE events[fd] = {}
      <4>1. fd \in poll.channels => poll.pollfds[poll.index[fd]].fd # fd
        BY <1>1, <3>3, FdsAssumption DEF PollersInv, PollInv, Entry, Ignored
      <4> QED BY <3>2, <3>3, <4>1
    <3>4. CASE events[fd] # {}
      <4>1. fd \in poll.channels
        BY <1>1, <3>4 DEF PollersInv, PollInv, EPollInv
      <4>2. poll.index[fd] \in there
        BY <1>1, <3>1, <3>4, <4>1 DEF PollersInv, PollInv, Entry, Shape
      <4> QED BY <3>2, <3>4, <4>2
    <3> QED BY <3>3, <3>4
  <2>3. events[fd] # {} => poll.pollfds[poll.index[fd]].events = events[fd]
    BY <1>1 DEF PollersInv, PollInv, EPollInv, Entry
  <2>4. PollReports(poll, fd, cond)
          = UNION {KernelReports(cond, poll.pollfds[i].events) : i \in there}
    BY DEF PollReports
  <2> HIDE DEF there
  <2>5. PollReports(poll, fd, cond) = expected
    <3>1. CASE events[fd] = {}
      BY <2>2, <2>4, <3>1
    <3>2. CASE events[fd] # {}
      BY <2>2, <2>3, <2>4, <3>2
    <3> QED BY <3>1, <3>2
  <2> QED BY <2>1, <2>5
<1> QED BY <1>1, Invariance, PTL
=============================================================================
