------------------------------ MODULE LfuCache ------------------------------
(***************************************************************************)
(* One slice of the reply cache, KLfuCache (include/LFU.h), as functions   *)
(* on its state.  put() and get() hold the slice's mutex from end to end,  *)
(* so each of them is one step of whoever calls it.                        *)
(*                                                                         *)
(* A node is its key.  The frequency lists are created on first use and    *)
(* never deleted; one that does not exist is as good as an empty one here. *)
(* Aging goes through an unordered_map: `order' is the order it finds the  *)
(* keys in, any sequence of them.                                          *)
(***************************************************************************)
EXTENDS Subsequence

CONSTANTS Keys,
          Values,
          None,           \* no value
          Capacity,       \* capacity_ of the slice
          MaxAverage,     \* maxAverageNum_
          MaxTotal        \* bound on curTotalNum_, and so on any frequency

ASSUME NoneAssumption == None \notin Keys \cup Values
ASSUME CapacityAssumption == Capacity \in Nat \ {0}
ASSUME TotalAssumption == MaxTotal \in Nat \ {0}

INT8_MAX == 127

\* The only cache there is has the default, ten.  Of one nothing would be taken off
\* by aging, and frequencies would reach INT8_MAX, which updateMinFreq() takes for
\* none.
ASSUME AverageAssumption == MaxAverage \in 2..(INT8_MAX - 1)

Slice == [freq    : [Keys -> 0..MaxTotal],              \* Node::freq, 0: no node
          value   : [Keys -> Values \cup {None}],    \* Node::value
          lists   : [1..MaxTotal -> Seq(Keys)],         \* freqToFreqList_
          minFreq : 0..INT8_MAX,                        \* minFreq_
          total   : 0..MaxTotal,                        \* curTotalNum_
          average : 0..MaxTotal]                        \* curAverageNum_

EmptySlice == [freq |-> [k \in Keys |-> 0], value |-> [k \in Keys |-> None],
               lists |-> [f \in 1..MaxTotal |-> <<>>],
               minFreq |-> INT8_MAX, total |-> 0, average |-> 0]

\* nodeMap_
Cached(s) == {k \in Keys : s.freq[k] > 0}

FreqList(s, f) == IF f \in 1..MaxTotal THEN s.lists[f] ELSE <<>>

\* The orders in which an iteration may visit the keys of K.
Orders(K) == {o \in [1..Cardinality(K) -> K] : \A i, j \in DOMAIN o : o[i] = o[j] => i = j}

AddToFreqList(s, k) == [s EXCEPT !.lists[s.freq[k]] = Append(@, k)]

Without(list, k) == Picked(list, {i \in DOMAIN list : list[i] # k})

RemoveFromFreqList(s, k) == [s EXCEPT !.lists[s.freq[k]] = Without(@, k)]

Average(s) == [s EXCEPT !.average = IF Cached(s) = {} THEN 0
                                    ELSE s.total \div Cardinality(Cached(s))]

\* updateMinFreq(): the search starts from INT8_MAX, and INT8_MAX found is 1.
UpdateMinFreq(s) ==
    LET used == {INT8_MAX} \cup {f \in 1..MaxTotal : s.lists[f] # <<>>}
        min  == CHOOSE f \in used : \A g \in used : f <= g
    IN  [s EXCEPT !.minFreq = IF min = INT8_MAX THEN 1 ELSE min]

\* Each node is taken out of its list and put at the end of a lower one.
Lowered(s, order) ==
    LET lower(f) == IF f - MaxAverage \div 2 < 1 THEN 1 ELSE f - MaxAverage \div 2
        freq == [k \in Keys |-> IF s.freq[k] > 0 THEN lower(s.freq[k]) ELSE 0]
    IN  [s EXCEPT !.freq = freq,
                  !.lists = [f \in 1..MaxTotal |->
                               Picked(order, {i \in DOMAIN order : freq[order[i]] = f})]]

\* MUTANT: the lists are moved, the minimum is not.
HandleOverMaxAverageNumKeepsMin(s, order) == Lowered(s, order)

\* handleOverMaxAverageNum(): curTotalNum_ stays as it is.
HandleOverMaxAverageNum(s, order) == UpdateMinFreq(Lowered(s, order))

AddFreqNum(s, order) ==
    LET t == Average([s EXCEPT !.total = @ + 1])
    IN  IF t.average > MaxAverage THEN HandleOverMaxAverageNum(t, order) ELSE t

\* MUTANT: the evicted node is taken off the total along with a new one.
DecreaseFreqNumMore(s, n) == Average([s EXCEPT !.total = @ - (n + 1)])

\* decreaseFreqNum()
DecreaseFreqNum(s, n) == Average([s EXCEPT !.total = @ - n])

\* MUTANT: the node stays in its old list, too.
GetInternalKeeps(s, k, order) ==
    LET t == AddToFreqList([s EXCEPT !.freq[k] = @ + 1], k)
    IN  AddFreqNum(t, order)

\* MUTANT: the minimum moves on although other nodes are left there.
GetInternalEager(s, k, order) ==
    LET t == AddToFreqList([RemoveFromFreqList(s, k) EXCEPT !.freq[k] = @ + 1], k)
    IN  AddFreqNum([t EXCEPT !.minFreq = IF s.freq[k] = @ THEN @ + 1 ELSE @], order)

\* getInternal(): the node moves to the next list, and the minimum with it if it
\* was the last one there.
GetInternal(s, k, order) ==
    LET t == AddToFreqList([RemoveFromFreqList(s, k) EXCEPT !.freq[k] = @ + 1], k)
        emptied == s.freq[k] = s.minFreq /\ FreqList(t, s.minFreq) = <<>>
    IN  AddFreqNum([t EXCEPT !.minFreq = IF emptied THEN @ + 1 ELSE @], order)

\* kickOut(): the first node of the list of minFreq_.  Of an empty list that is
\* the dummy tail, of frequency 1, which no map or list holds.  A list that
\* freqToFreqList_ lacks (a null pointer there) counts as empty: the invariant of
\* ServiceProofs shows that kickOut() meets neither.
KickOut(s) ==
    LET victims == FreqList(s, s.minFreq)
    IN  IF victims = <<>> THEN DecreaseFreqNum(s, 1)
        ELSE LET k == Head(victims)
                 t == [RemoveFromFreqList(s, k) EXCEPT !.freq[k] = 0, !.value[k] = None]
             IN  DecreaseFreqNum(t, s.freq[k])

\* MUTANT: the minimum is not reset for the new node.
PutInternalKeepsMin(s, k, v, order) ==
    LET t == IF Cardinality(Cached(s)) = Capacity THEN KickOut(s) ELSE s
        n == AddToFreqList([t EXCEPT !.freq[k] = 1, !.value[k] = v], k)
    IN  AddFreqNum(n, order)

\* putInternal()
PutInternal(s, k, v, order) ==
    LET t == IF Cardinality(Cached(s)) = Capacity THEN KickOut(s) ELSE s
        n == AddToFreqList([t EXCEPT !.freq[k] = 1, !.value[k] = v], k)
        a == AddFreqNum(n, order)
    IN  [a EXCEPT !.minFreq = IF @ < 1 THEN @ ELSE 1]

\* MUTANT: a value that is there is only counted.
PutFirst(s, k, v, order) ==
    IF k \in Cached(s) THEN GetInternal(s, k, order) ELSE PutInternal(s, k, v, order)

Put(s, k, v, order) ==
    IF k \in Cached(s)
    THEN GetInternal([s EXCEPT !.value[k] = v], k, order)
    ELSE PutInternal(s, k, v, order)

\* get() of a key that is there; of any other it changes nothing.
Get(s, k, order) == GetInternal(s, k, order)
=============================================================================
