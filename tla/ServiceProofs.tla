---------------------------- MODULE ServiceProofs ----------------------------
(***************************************************************************)
(* Theorems about the application layer, for every value of the constants: *)
(* the gateway's routes and its documents (Gateway), the accounts, their   *)
(* tokens and their rate limit (UserStore), and the cache that answers     *)
(* chats (ChatCache).                                                      *)
(***************************************************************************)
EXTENDS Gateway, UserStore, ChatCache, FiniteSetTheorems, SequenceTheorems, TLAPS

----------------------------------------------------------------------------
(* Subsequences and numbers *)

\* The places of a set have the ranks from one to its size, in order.
LEMMA RankOrders ==
    ASSUME NEW ix \in SUBSET Int, IsFiniteSet(ix)
    PROVE  /\ Cardinality(ix) \in Nat
           /\ \A i \in ix : Rank(ix, i) \in 1..Cardinality(ix)
           /\ \A i, k \in ix : i < k => Rank(ix, i) < Rank(ix, k)
           /\ \A n \in 1..Cardinality(ix) : \E i \in ix : Rank(ix, i) = n
<1> DEFINE Upto(i) == {j \in ix : j <= i}
<1>1. Cardinality(ix) \in Nat
  BY FS_CardinalityType
<1>2. ASSUME NEW i \in ix
      PROVE  /\ IsFiniteSet(Upto(i)) /\ Cardinality(Upto(i)) \in Nat
             /\ Rank(ix, i) \in 1..Cardinality(ix)
  <2>1. IsFiniteSet(Upto(i)) /\ Cardinality(Upto(i)) <= Cardinality(ix)
    <3>1. Upto(i) \in SUBSET ix
      OBVIOUS
    <3> QED BY <3>1, FS_Subset
  <2>2. Cardinality(Upto(i)) \in Nat
    BY <2>1, FS_CardinalityType
  <2>3. i \in Upto(i)
    OBVIOUS
  <2>4. Cardinality(Upto(i)) # 0
    BY <2>1, <2>3, FS_EmptySet
  <2> QED BY <1>1, <2>1, <2>2, <2>4 DEF Rank
<1>3. ASSUME NEW i \in ix, NEW k \in ix, i < k
      PROVE  Rank(ix, i) < Rank(ix, k)
  <2>1. Upto(i) \in SUBSET Upto(k)
    <3>1. \A j \in ix : j <= i => j <= k
      BY <1>3
    <3> QED BY <3>1
  <2>2. k \in Upto(k) /\ k \notin Upto(i)
    BY <1>3
  <2>3. Cardinality(Upto(i)) <= Cardinality(Upto(k)) /\ Cardinality(Upto(i)) # Cardinality(Upto(k))
    BY <1>2, <2>1, <2>2, FS_Subset
  <2> QED BY <1>2, <2>3 DEF Rank
<1>4. ASSUME NEW n \in 1..Cardinality(ix)
      PROVE  \E i \in ix : Rank(ix, i) = n
  <2> DEFINE rank == [i \in ix |-> Rank(ix, i)]
             T == 1..Cardinality(ix)
  <2>1. rank \in [ix -> T]
    BY <1>2
  <2>2. \A i, k \in ix : rank[i] = rank[k] => i = k
    <3> SUFFICES ASSUME NEW i \in ix, NEW k \in ix, rank[i] = rank[k]
                 PROVE  i = k
      OBVIOUS
    <3>3. Rank(ix, i) \in Nat /\ Rank(ix, k) \in Nat
      <4>1. Rank(ix, i) \in 1..Cardinality(ix) /\ Rank(ix, k) \in 1..Cardinality(ix)
        BY <1>2
      <4> HIDE DEF rank
      <4> QED BY <1>1, <4>1
    <3>4. rank[i] = Rank(ix, i) /\ rank[k] = Rank(ix, k)
      OBVIOUS
    <3>1. Rank(ix, i) \in Nat /\ Rank(ix, k) \in Nat /\ Rank(ix, i) = Rank(ix, k)
      BY <3>3, <3>4
    <3>2. ~(i < k) /\ ~(k < i)
      BY <1>3, <3>1
    <3> QED BY <3>2
  <2>3. rank \in Injection(ix, T)
    BY <2>1, <2>2 DEF Injection, IsInjective
  <2>4. IsFiniteSet(T) /\ Cardinality(T) = Cardinality(ix)
    BY <1>1, FS_Interval
  <2>5. rank \in Surjection(ix, T)
    BY <2>3, <2>4, FS_Injection
  <2> QED BY <2>5 DEF Surjection
<1> QED BY <1>1, <1>2, <1>3, <1>4

\* Each element at one of the places is in the subsequence at its rank, and
\* nothing else is.
LEMMA PickedByRank ==
    ASSUME NEW T, NEW s \in Seq(T), NEW ix \in SUBSET DOMAIN s
    PROVE  /\ Picked(s, ix) \in Seq(T)
           /\ Len(Picked(s, ix)) = Cardinality(ix) /\ Cardinality(ix) \in Nat
           /\ \A i \in ix : /\ Rank(ix, i) \in 1..Cardinality(ix)
                            /\ Picked(s, ix)[Rank(ix, i)] = s[i]
           /\ \A n \in 1..Cardinality(ix) : \E i \in ix : n = Rank(ix, i)
           /\ \A i, k \in ix : Rank(ix, i) = Rank(ix, k) => i = k
<1>1. DOMAIN s = 1..Len(s) /\ Len(s) \in Nat
  OBVIOUS
<1>2. IsFiniteSet(DOMAIN s)
  BY <1>1, FS_Interval
<1>3. IsFiniteSet(ix) /\ ix \in SUBSET Int
  BY <1>1, <1>2, FS_Subset
<1>4. /\ Cardinality(ix) \in Nat
      /\ \A i \in ix : Rank(ix, i) \in 1..Cardinality(ix)
      /\ \A i, k \in ix : i < k => Rank(ix, i) < Rank(ix, k)
      /\ \A n \in 1..Cardinality(ix) : \E i \in ix : Rank(ix, i) = n
  BY <1>3, RankOrders
<1>5. ASSUME NEW i \in ix, NEW k \in ix, Rank(ix, i) = Rank(ix, k)
      PROVE  i = k
  BY <1>3, <1>4, <1>5
<1>6. ASSUME NEW i \in ix
      PROVE  Picked(s, ix)[Rank(ix, i)] = s[i]
  <2>1. (CHOOSE k \in ix : Rank(ix, k) = Rank(ix, i)) = i
    BY <1>5
  <2> QED BY <1>4, <2>1 DEF Picked
<1>7. \A n \in 1..Cardinality(ix) : Picked(s, ix)[n] \in T
  BY <1>1, <1>4, <1>6
<1>8. Picked(s, ix) = [n \in 1..Cardinality(ix) |-> Picked(s, ix)[n]]
  BY DEF Picked
<1>9. Picked(s, ix) \in Seq(T) /\ Len(Picked(s, ix)) = Cardinality(ix)
  BY <1>4, <1>7, <1>8
<1> QED BY <1>4, <1>5, <1>6, <1>9

\* A set of places in a sequence is finite.
LEMMA PlacesFinite ==
    ASSUME NEW T, NEW s \in Seq(T), NEW P \in SUBSET DOMAIN s
    PROVE  IsFiniteSet(P) /\ Cardinality(P) \in Nat /\ Cardinality(P) <= Len(s)
<1>1. DOMAIN s = 1..Len(s) /\ Len(s) \in Nat
  OBVIOUS
<1>2. IsFiniteSet(1..Len(s)) /\ Cardinality(1..Len(s)) = Len(s)
  <2>1. \A n \in Nat : IsFiniteSet(1..n) /\ Cardinality(1..n) = n
    BY FS_Interval
  <2> QED BY <1>1, <2>1
<1> QED BY <1>1, <1>2, FS_Subset, FS_CardinalityType

\* Numbers have a least one.
LEMMA LeastOf ==
    ASSUME NEW S \in SUBSET Nat, S # {}
    PROVE  \E i \in S : \A j \in S : i <= j
<1>1. IsWellFoundedOn(OpToRel(<, Nat), Nat)
  BY NatLessThanWellFounded
<1>2. PICK i \in S : \A j \in S : ~(<<j, i>> \in OpToRel(<, Nat))
  BY <1>1, WFMin
<1>3. \A j \in S : ~(j < i)
  BY <1>2 DEF OpToRel
<1> QED BY <1>3

\* A set of places has a first one.
LEMMA FirstIsLeast ==
    ASSUME NEW S \in SUBSET Nat, S # {}
    PROVE  First(S) \in S /\ \A j \in S : First(S) <= j
BY LeastOf DEF First

\* A set with one, and with the successor of each of its numbers below n, has all
\* the numbers up to n.
LEMMA AllUpTo ==
    ASSUME NEW n \in Nat \ {0}, NEW P, 1 \in P, \A i \in 1..(n - 1) : i \in P => i + 1 \in P
    PROVE  1..n \subseteq P
<1> SUFFICES ASSUME (1..n) \ P # {}
             PROVE  FALSE
  OBVIOUS
<1>1. (1..n) \ P \in SUBSET Nat
  OBVIOUS
<1>2. PICK i \in (1..n) \ P : \A j \in (1..n) \ P : i <= j
  BY <1>1, LeastOf
<1>3. i # 1 /\ i - 1 \in 1..(n - 1) /\ i - 1 \notin (1..n) \ P
  BY <1>2
<1>4. i - 1 \in P
  BY <1>3
<1> QED BY <1>2, <1>3, <1>4

----------------------------------------------------------------------------
(* Sequences put one behind another *)

\* The function that FlattenSeq is defined by exists: it is built up to each number.
LEMMA FlattenedByFunction ==
    ASSUME NEW seqs, NEW n \in Nat \ {0}, n = Len(seqs)
    PROVE  \E g : /\ g = [i \in 1..n |-> IF i = 1 THEN seqs[i] ELSE g[i - 1] \o seqs[i]]
                  /\ FlattenSeq(seqs) = g[n]
<1> DEFINE Built(g, m) == g = [i \in 1..m |-> IF i = 1 THEN seqs[i] ELSE g[i - 1] \o seqs[i]]
           P == {m \in 1..n : \E g : Built(g, m)}
<1>1. 1 \in P
  <2> DEFINE g == [i \in 1..1 |-> seqs[1]]
  <2>1. Built(g, 1)
    <3>1. \A i \in 1..1 : i = 1
      OBVIOUS
    <3> QED BY <3>1
  <2> HIDE DEF g, Built
  <2> QED BY <2>1
<1>2. ASSUME NEW m \in 1..(n - 1), m \in P
      PROVE  m + 1 \in P
  <2>1. PICK g : Built(g, m)
    BY <1>2
  <2> DEFINE h == [i \in 1..(m + 1) |-> IF i = m + 1 THEN g[m] \o seqs[i] ELSE g[i]]
  <2>2. \A i \in 1..m : h[i] = g[i] /\ g[i] = IF i = 1 THEN seqs[i] ELSE g[i - 1] \o seqs[i]
    <3>1. \A i \in 1..m : g[i] = IF i = 1 THEN seqs[i] ELSE g[i - 1] \o seqs[i]
      BY <2>1, Zenon
    <3>2. \A i \in 1..m : h[i] = g[i]
      OBVIOUS
    <3> QED BY <3>1, <3>2, Zenon
  <2>3. \A i \in 1..(m + 1) : h[i] = IF i = 1 THEN seqs[i] ELSE h[i - 1] \o seqs[i]
    <3> SUFFICES ASSUME NEW i \in 1..(m + 1)
                 PROVE  h[i] = IF i = 1 THEN seqs[i] ELSE h[i - 1] \o seqs[i]
      OBVIOUS
    <3>1. CASE i = m + 1
      <4>1. i # 1 /\ i - 1 = m /\ m \in 1..m
        BY <3>1
      <4>2. h[m] = g[m] /\ h[i] = g[m] \o seqs[i]
        BY <2>2, <3>1, <4>1
      <4> QED BY <4>1, <4>2
    <3>2. CASE i # m + 1 /\ i # 1
      <4>1. i \in 1..m /\ i - 1 \in 1..m
        BY <3>2
      <4> QED BY <2>2, <3>2, <4>1
    <3>3. CASE i # m + 1 /\ i = 1
      <4>1. i \in 1..m
        BY <3>3
      <4> QED BY <2>2, <3>3, <4>1
    <3> QED BY <3>1, <3>2, <3>3
  <2>4. h = [i \in 1..(m + 1) |-> h[i]]
    OBVIOUS
  <2> HIDE DEF h
  <2>5. Built(h, m + 1)
    BY <2>3, <2>4
  <2> HIDE DEF Built
  <2> QED BY <2>5
<1>3. n \in P
  <2> HIDE DEF P
  <2> QED BY <1>1, <1>2, AllUpTo
<1>4. \E g : Built(g, n)
  BY <1>3
<1>5. FlattenSeq(seqs) = (CHOOSE g : Built(g, n))[n]
  BY DEF FlattenSeq
<1> QED BY <1>4, <1>5

\* What FlattenSeq makes of sequences: it begins with the first one, and what comes
\* behind that is from the others.
LEMMA Flattened ==
    ASSUME NEW T, NEW seqs \in Seq(Seq(T)), Len(seqs) # 0
    PROVE  LET t == FlattenSeq(seqs)
           IN  /\ t \in Seq(T) /\ Len(seqs[1]) \in Nat /\ Len(t) \in Nat /\ Len(seqs[1]) <= Len(t)
               /\ \A j \in 1..Len(seqs[1]) : t[j] = seqs[1][j]
               /\ \A j \in DOMAIN t : j > Len(seqs[1]) =>
                     \E k \in 2..Len(seqs) : \E i \in DOMAIN seqs[k] : t[j] = seqs[k][i]
<1> DEFINE n == Len(seqs)
           l == Len(seqs[1])
           Later(t, m) == \A j \in DOMAIN t : j > l =>
                             \E k \in 2..m : \E i \in DOMAIN seqs[k] : t[j] = seqs[k][i]
           Good(t, m) == /\ t \in Seq(T) /\ l <= Len(t)
                         /\ \A j \in 1..l : t[j] = seqs[1][j]
                         /\ Later(t, m)
<1>1. n \in Nat \ {0} /\ \A k \in 1..n : seqs[k] \in Seq(T) /\ Len(seqs[k]) \in Nat
  OBVIOUS
<1>2. l \in Nat /\ seqs[1] \in Seq(T)
  BY <1>1
<1>3. PICK g : /\ g = [i \in 1..n |-> IF i = 1 THEN seqs[i] ELSE g[i - 1] \o seqs[i]]
               /\ FlattenSeq(seqs) = g[n]
  BY <1>1, FlattenedByFunction, Zenon
<1>4. \A i \in 1..n : g[i] = IF i = 1 THEN seqs[i] ELSE g[i - 1] \o seqs[i]
  BY <1>3, Zenon
<1> DEFINE P == {m \in 1..n : Good(g[m], m)}
<1>5. 1 \in P
  <2>1. 1 \in 1..n /\ g[1] = seqs[1]
    BY <1>1, <1>4
  <2>2. Good(g[1], 1)
    BY <1>2, <2>1
  <2> HIDE DEF Good
  <2> QED BY <2>1, <2>2
<1>6. ASSUME NEW m \in 1..(n - 1), m \in P
      PROVE  m + 1 \in P
  <2> DEFINE s == seqs[m + 1]
             t == g[m]
             u == t \o s
  <2>1. m + 1 \in 1..n /\ m + 1 # 1 /\ (m + 1) - 1 = m
    BY <1>1
  <2>2. g[m + 1] = u
    <3>1. g[m + 1] = g[(m + 1) - 1] \o seqs[m + 1]
      BY <1>4, <2>1
    <3> QED BY <2>1, <3>1
  <2>3. s \in Seq(T) /\ Good(t, m)
    BY <1>1, <1>6, <2>1
  <2> HIDE DEF s, t
  <2>4. /\ u \in Seq(T) /\ Len(u) = Len(t) + Len(s) /\ Len(t) \in Nat /\ Len(s) \in Nat
        /\ \A j \in 1..Len(t) : u[j] = t[j]
        /\ \A j \in 1..Len(u) : j > Len(t) => j - Len(t) \in 1..Len(s) /\ u[j] = s[j - Len(t)]
    BY <2>3
  <2> HIDE DEF u
  <2>5. Later(u, m + 1)
    <3> SUFFICES ASSUME NEW j \in DOMAIN u, j > l
                 PROVE  \E k \in 2..(m + 1) : \E i \in DOMAIN seqs[k] : u[j] = seqs[k][i]
      OBVIOUS
    <3>0. j \in 1..Len(u) /\ DOMAIN u = 1..Len(u) /\ DOMAIN t = 1..Len(t) /\ DOMAIN s = 1..Len(s)
      BY <2>3, <2>4
    <3>1. CASE j <= Len(t)
      <4>1. j \in DOMAIN t /\ u[j] = t[j]
        BY <2>4, <3>0, <3>1
      <4>2. PICK k \in 2..m : \E i \in DOMAIN seqs[k] : t[j] = seqs[k][i]
        BY <2>3, <4>1
      <4>3. k \in 2..(m + 1)
        OBVIOUS
      <4> QED BY <4>1, <4>2, <4>3, Zenon
    <3>2. CASE j > Len(t)
      <4>1. j - Len(t) \in DOMAIN s /\ u[j] = s[j - Len(t)]
        BY <2>4, <3>0, <3>2
      <4>2. m + 1 \in 2..(m + 1)
        BY <1>1
      <4>3. \E i \in DOMAIN seqs[m + 1] : u[j] = seqs[m + 1][i]
        BY <4>1 DEF s
      <4> QED BY <4>2, <4>3, Zenon
    <3> QED BY <2>4, <3>0, <3>1, <3>2
  <2>6. Good(u, m + 1)
    <3>1. u \in Seq(T) /\ l <= Len(u)
      BY <1>2, <2>3, <2>4
    <3>2. \A j \in 1..l : u[j] = seqs[1][j]
      BY <1>2, <2>3, <2>4
    <3> HIDE DEF Later
    <3> QED BY <2>5, <3>1, <3>2
  <2> HIDE DEF Good
  <2> QED BY <2>1, <2>2, <2>6
<1>7. n \in P
  <2> HIDE DEF P
  <2>1. 1..n \subseteq P
    BY <1>1, <1>5, <1>6, AllUpTo
  <2> QED BY <1>1, <2>1, SMTT(30)
<1>8. Good(FlattenSeq(seqs), n)
  <2>1. Good(g[n], n)
    BY <1>7
  <2> HIDE DEF Good
  <2> QED BY <1>3, <2>1
<1> HIDE DEF Later
<1>9. /\ FlattenSeq(seqs) \in Seq(T) /\ l <= Len(FlattenSeq(seqs)) /\ Later(FlattenSeq(seqs), n)
      /\ \A j \in 1..l : FlattenSeq(seqs)[j] = seqs[1][j]
  BY <1>8
<1>10. Len(FlattenSeq(seqs)) \in Nat
  BY <1>9
<1> QED BY <1>2, <1>9, <1>10 DEF Later

----------------------------------------------------------------------------
(* Gateway: what its theorems need *)

\* A callback is a record of these fields.
IsTask(t) == t = [step |-> t.step, path |-> t.path, fields |-> t.fields,
                  slot |-> t.slot, status |-> t.status]

\* The document with the callback's id is at its slot, or nowhere.
SlotRight(t, ds) ==
    /\ t.slot \in 0..Len(ds)
    /\ t.slot = 0 => \A j \in 1..Len(ds) : ds[j].id # t.fields.id
    /\ t.slot > 0 => ds[t.slot].id = t.fields.id

\* While no two loops have met: a loop between its scan and its write knows where
\* the document belongs, since another's write would have set raced.
DocsInv ==
    /\ work = [c \in Conns |-> work[c]] /\ \A c \in Conns : IsTask(work[c])
    /\ ~raced => docs \in Seq(ToSet(docs))
    /\ raced \in BOOLEAN
    /\ LatestStored
    /\ ~raced => \A c \in Conns : work[c].step = "write" => SlotRight(work[c], docs)

\* The history of the answers is a row for each connection.
AnswersInv == /\ sent = [c \in Conns |-> sent[c]]
              /\ state \in [Conns -> {"kConnected", "kDisconnecting"}]
              /\ AnsweredOnce

----------------------------------------------------------------------------
(* Gateway: tasks and documents *)

\* A record of the five fields is one.
LEMMA FiveFields ==
    ASSUME NEW step, NEW path, NEW fields, NEW slot, NEW status, NEW t,
           t = [step |-> step, path |-> path, fields |-> fields, slot |-> slot, status |-> status]
    PROVE  IsTask(t) /\ t.step = step
BY DEF IsTask

\* What a callback begins with is not a write.
LEMMA BeginsWithoutWrite ==
    ASSUME NEW path, NEW f
    PROVE  IsTask(Begin(path, f)) /\ Begin(path, f).step # "write"
<1>1. Task(path, f) \in {"scan", "search", "ask"} \cup Statuses
  BY DEF Task, Statuses
<1> QED BY <1>1 DEF Begin, Reply, Idle, IsTask, Statuses

\* Nor is an answer.
LEMMA RepliesWithoutWrite ==
    ASSUME NEW status
    PROVE  IsTask(Reply(status)) /\ Reply(status).step # "write"
<1>1. PICK p : p = [Idle EXCEPT !.step = "reply"]
  OBVIOUS
<1>2. p = [step |-> "reply", path |-> "", fields |-> NoFields, slot |-> 0, status |-> "200"]
  BY <1>1 DEF Idle
<1>3. Reply(status) = [p EXCEPT !.status = status]
  BY <1>1 DEF Reply
<1>4. Reply(status) = [step |-> "reply", path |-> "", fields |-> NoFields,
                       slot |-> 0, status |-> status]
  BY <1>2, <1>3
<1>5. PICK r : r = Reply(status)
  OBVIOUS
<1>6. r = [step |-> "reply", path |-> "", fields |-> NoFields, slot |-> 0, status |-> status]
  BY <1>4, <1>5
<1>7. IsTask(r) /\ r.step = "reply"
  BY <1>6, FiveFields
<1> QED BY <1>5, <1>7

\* A row is a row of what is in it.
LEMMA RowOfItsOwn ==
    ASSUME NEW S, NEW s \in Seq(S)
    PROVE  /\ s \in Seq(ToSet(s)) /\ Len(s) \in Nat /\ DOMAIN s = 1..Len(s)
           /\ ToSet(s) = {s[i] : i \in 1..Len(s)}
<1>1. Len(s) \in Nat /\ DOMAIN s = 1..Len(s) /\ s \in [1..Len(s) -> S]
  BY LenProperties
<1>2. ToSet(s) = {s[i] : i \in 1..Len(s)}
  BY <1>1 DEF ToSet
<1>3. s \in [1..Len(s) -> ToSet(s)]
  BY <1>1, <1>2
<1>4. s \in Seq(ToSet(s))
  BY <1>1, <1>3, SeqDef
<1> QED BY <1>1, <1>2, <1>4

\* Written() replaces the document of that id, or adds the first one.
LEMMA WrittenIsLatest ==
    ASSUME NEW ds, ds \in Seq(ToSet(ds)), NEW t, SlotRight(t, ds),
           \A i, j \in 1..Len(ds) : ds[i].id = ds[j].id => i = j,
           NEW w, w = Written(ds, t.slot, t.fields)
    PROVE  /\ w \in Seq(ToSet(w))
           /\ ToSet(w) = {d \in ToSet(ds) : d.id # t.fields.id} \cup {t.fields}
           /\ \A i, j \in 1..Len(w) : w[i].id = w[j].id => i = j
<1> DEFINE S == ToSet(ds) \cup {t.fields}
           f == t.fields
           n == Len(ds)
<1>1. n \in Nat /\ ds \in Seq(S) /\ f \in S
      /\ ToSet(ds) = {ds[i] : i \in 1..n}
  <2>1. n \in Nat /\ ToSet(ds) = {ds[i] : i \in 1..n} /\ ds \in [1..n -> ToSet(ds)]
    BY RowOfItsOwn, LenProperties
  <2>2. ds \in [1..n -> S]
    BY <2>1
  <2> QED BY <2>1, <2>2, SeqDef
<1> HIDE DEF S
<1>2. CASE t.slot = 0
  <2>1. w = Append(ds, f)
    BY <1>2 DEF Written
  <2>2. /\ w \in Seq(S) /\ Len(w) = n + 1
        /\ \A i \in 1..n : w[i] = ds[i]
        /\ w[n + 1] = f
    BY <1>1, <2>1, AppendProperties
  <2>3. w \in Seq(ToSet(w)) /\ ToSet(w) = {w[i] : i \in 1..(n + 1)}
    <3> HIDE DEF f, n
    <3>0. w \in Seq(S)
      BY <2>2
    <3>1. w \in Seq(ToSet(w)) /\ ToSet(w) = {w[i] : i \in 1..Len(w)}
      BY <3>0, RowOfItsOwn, SMTT(30)
    <3> QED BY <2>2, <3>1
  <2>4. \A j \in 1..n : ds[j].id # f.id
    BY <1>2 DEF SlotRight
  <2>5. {w[i] : i \in 1..(n + 1)} = {ds[i] : i \in 1..n} \cup {f}
    <3>1. 1..(n + 1) = (1..n) \cup {n + 1}
      BY <1>1
    <3> QED BY <2>2, <3>1
  <2>6. {d \in ToSet(ds) : d.id # f.id} = {ds[i] : i \in 1..n}
    BY <1>1, <2>4
  <2>7. \A i, j \in 1..(n + 1) : w[i].id = w[j].id => i = j
    <3> TAKE i, j \in 1..(n + 1)
    <3>1. (i \in 1..n \/ i = n + 1) /\ (j \in 1..n \/ j = n + 1)
      BY <1>1
    <3> QED BY <2>2, <2>4, <3>1
  <2> QED BY <2>2, <2>3, <2>5, <2>6, <2>7
<1>3. CASE t.slot # 0
  <2> DEFINE k == t.slot
  <2>1. k \in 1..n /\ ds[k].id = f.id
    BY <1>1, <1>3 DEF SlotRight
  <2>2. w = [ds EXCEPT ![k] = f]
    BY <1>1, <1>3, <2>1 DEF Written
  <2> HIDE DEF k
  <2>3. /\ w \in Seq(S) /\ Len(w) = n
        /\ \A j \in 1..n : w[j] = IF j = k THEN f ELSE ds[j]
    BY <1>1, <2>1, <2>2, ExceptSeq, SMTT(30)
  <2>4. w \in Seq(ToSet(w)) /\ ToSet(w) = {w[i] : i \in 1..n}
    BY <2>3, RowOfItsOwn, SMTT(30)
  <2>5. \A j \in 1..n : ds[j].id = f.id => j = k
    BY <2>1
  <2>6. {w[i] : i \in 1..n} = {d \in ToSet(ds) : d.id # f.id} \cup {f}
    <3>1. ASSUME NEW i \in 1..n PROVE w[i] \in {d \in ToSet(ds) : d.id # f.id} \cup {f}
      BY <1>1, <2>3, <2>5
    <3>2. ASSUME NEW d \in ToSet(ds), d.id # f.id PROVE d \in {w[i] : i \in 1..n}
      <4>1. PICK i \in 1..n : d = ds[i]
        BY <1>1
      <4>2. i # k
        BY <2>1, <3>2, <4>1
      <4> QED BY <2>3, <4>1, <4>2
    <3>3. f \in {w[i] : i \in 1..n}
      BY <2>1, <2>3
    <3> QED BY <3>1, <3>2, <3>3
  <2>7. \A i, j \in 1..n : w[i].id = w[j].id => i = j
    BY <2>1, <2>3, <2>5
  <2> QED BY <2>3, <2>4, <2>6, <2>7
<1> QED BY <1>2, <1>3

----------------------------------------------------------------------------
(* Gateway: the documents *)

\* The store starts with the seeds.
LEMMA InitDocsInv == Init => DocsInv
<1> SUFFICES ASSUME Init PROVE DocsInv
  OBVIOUS
<1>1. docs \in Seq(ToSet(docs))
  BY SeedsAssumption, RowOfItsOwn DEF Init
<1>2. IsTask(Idle) /\ Idle.step # "write"
  BY DEF Idle, IsTask
<1>3. LatestStored
  BY SeedsAssumption DEF Init, LatestStored, OnePerId
<1> QED BY <1>1, <1>2, <1>3 DEF Init, DocsInv

\* A callback that starts, or goes on without touching the vector, keeps the
\* invariant; one that scanned may write next.
LEMMA WorkKeeps ==
    ASSUME DocsInv, NEW c \in Conns, NEW t, IsTask(t),
           t.step = "write" => SlotRight(t, docs),
           work' = [work EXCEPT ![c] = t], UNCHANGED <<docs, latest, raced>>
    PROVE  DocsInv'
<1>1. /\ work' = [d \in Conns |-> work'[d]]
      /\ \A d \in Conns : work'[d] = IF d = c THEN t ELSE work[d]
  BY DEF DocsInv
<1>2. \A d \in Conns : IsTask(work'[d])
  BY <1>1 DEF DocsInv
<1>3. ~raced => \A d \in Conns : work'[d].step = "write" => SlotRight(work'[d], docs)
  BY <1>1 DEF DocsInv
<1>4. LatestStored' = LatestStored
  BY DEF LatestStored, OnePerId
<1>5. SlotRight(work[c], docs)' = SlotRight(work'[c], docs')
  OBVIOUS
<1> QED BY <1>1, <1>2, <1>3, <1>4 DEF DocsInv

\* A write replaces the newest document of its id, unless loops have met.
LEMMA WriteKeeps ==
    ASSUME DocsInv, NEW c \in Conns, Write(c)
    PROVE  DocsInv'
<1> DEFINE t == work[c]
<1>1. /\ t.step = "write"
      /\ work' = [work EXCEPT ![c] = Reply("200")]
      /\ latest' = {d \in latest : d.id # t.fields.id} \cup {t.fields}
      /\ raced' = (raced \/ \E d \in Conns \ {c} : work[d].step \in {"write", "searching"})
      /\ docs' = Written(docs, t.slot, t.fields) \/ (raced /\ docs' = docs)
  BY DEF Write
<1>2. /\ work' = [d \in Conns |-> work'[d]]
      /\ \A d \in Conns : work'[d] = IF d = c THEN Reply("200") ELSE work[d]
  BY <1>1 DEF DocsInv
<1>3. \A d \in Conns : IsTask(work'[d])
  BY <1>2, RepliesWithoutWrite DEF DocsInv
<1>4. raced' \in BOOLEAN
  BY <1>1 DEF DocsInv
<1>5. CASE raced
  <2>1. raced'
    BY <1>1, <1>5
  <2> QED BY <1>2, <1>3, <1>4, <2>1 DEF DocsInv, LatestStored
<1>6. CASE ~raced
  <2>1. docs' = Written(docs, t.slot, t.fields)
    BY <1>1, <1>6
  <2>2. /\ docs \in Seq(ToSet(docs)) /\ SlotRight(t, docs)
        /\ ToSet(docs) = latest
        /\ \A i, j \in 1..Len(docs) : docs[i].id = docs[j].id => i = j
    BY <1>1, <1>6 DEF DocsInv, LatestStored, OnePerId
  <2>3. /\ docs' \in Seq(ToSet(docs'))
        /\ ToSet(docs') = {d \in ToSet(docs) : d.id # t.fields.id} \cup {t.fields}
        /\ \A i, j \in 1..Len(docs') : docs'[i].id = docs'[j].id => i = j
    BY <2>1, <2>2, WrittenIsLatest
  <2>4. LatestStored'
    BY <1>1, <2>2, <2>3 DEF LatestStored, OnePerId
  <2>5. ~raced' => \A d \in Conns : work'[d].step # "write"
    BY <1>1, <1>2, RepliesWithoutWrite
  <2> QED BY <1>2, <1>3, <1>4, <2>3, <2>4, <2>5 DEF DocsInv
<1> QED BY <1>5, <1>6 DEF DocsInv

\* Every step of the gateway keeps the invariant.
LEMMA StepKeeps ==
    ASSUME DocsInv, [Next]_vars
    PROVE  DocsInv'
<1>1. ASSUME NEW c \in Conns, NEW b, OnGarbled(c, b) PROVE DocsInv'
  <2>1. PICK status : work' = [work EXCEPT ![c] = Reply(status)]
    BY <1>1 DEF OnGarbled
  <2>2. UNCHANGED <<docs, latest, raced>>
    BY <1>1 DEF OnGarbled, Read
  <2> QED BY <2>1, <2>2, RepliesWithoutWrite, WorkKeeps
<1>2. ASSUME NEW c \in Conns, NEW b, OnMessage(c, b) PROVE DocsInv'
  <2>1. \/ \E status : work' = [work EXCEPT ![c] = Reply(status)]
        \/ \E path, f : work' = [work EXCEPT ![c] = Begin(path, f)]
    BY <1>2 DEF OnMessage
  <2>2. UNCHANGED <<docs, latest, raced>>
    BY <1>2 DEF OnMessage, Read
  <2>3. \E t : /\ IsTask(t) /\ t.step # "write"
               /\ work' = [work EXCEPT ![c] = t]
    BY <2>1, RepliesWithoutWrite, BeginsWithoutWrite
  <2> QED BY <2>2, <2>3, WorkKeeps
<1>3. ASSUME NEW c \in Conns, Scan(c) PROVE DocsInv'
  <2>1. PICK i \in 0..Len(docs) :
          /\ i = 0 => \A j \in 1..Len(docs) : docs[j].id # work[c].fields.id
          /\ i > 0 => docs[i].id = work[c].fields.id
          /\ work' = [work EXCEPT ![c].step = "write", ![c].slot = i]
    BY <1>3 DEF Scan
  <2>0. PICK t : t = [work[c] EXCEPT !.step = "write", !.slot = i]
    OBVIOUS
  <2>2. IsTask(t) /\ t.slot = i /\ t.fields = work[c].fields
    <3>1. IsTask(work[c])
      BY DEF DocsInv
    <3>2. PICK q : q = work[c]
      OBVIOUS
    <3>3. IsTask(q) /\ t = [q EXCEPT !.step = "write", !.slot = i]
      BY <2>0, <3>1, <3>2
    <3>4. PICK path, fields, slot, status, step :
            q = [step |-> step, path |-> path, fields |-> fields,
                 slot |-> slot, status |-> status]
      BY <3>3 DEF IsTask
    <3>5. PICK p : p = [q EXCEPT !.step = "write"]
      OBVIOUS
    <3>6. p = [step |-> "write", path |-> path, fields |-> fields,
               slot |-> slot, status |-> status]
      BY <3>4, <3>5
    <3>7. t = [p EXCEPT !.slot = i]
      BY <3>3, <3>5
    <3>8. t = [step |-> "write", path |-> path, fields |-> fields,
               slot |-> i, status |-> status]
      BY <3>6, <3>7
    <3>9. IsTask(t) /\ t.slot = i /\ t.fields = q.fields
      BY <3>4, <3>8, FiveFields
    <3> QED BY <3>2, <3>9
  <2>3. work' = [work EXCEPT ![c] = t]
    BY <2>1, <2>0 DEF DocsInv
  <2>4. SlotRight(t, docs)
    BY <2>1, <2>2 DEF SlotRight
  <2>5. UNCHANGED <<docs, latest, raced>>
    BY <1>3 DEF Scan
  <2> QED BY <2>2, <2>3, <2>4, <2>5, WorkKeeps
<1>4. ASSUME NEW c \in Conns, Write(c) PROVE DocsInv'
  BY <1>4, WriteKeeps
<1>5. ASSUME NEW c \in Conns, Search(c) PROVE DocsInv'
  <2> DEFINE t == IF work[c].step = "search" THEN [work[c] EXCEPT !.step = "searching"]
                  ELSE Reply("200")
  <2>1. work' = [work EXCEPT ![c] = t]
    BY <1>5 DEF Search
  <2>2. IsTask(t) /\ t.step # "write"
    BY RepliesWithoutWrite DEF DocsInv, IsTask
  <2>3. UNCHANGED <<docs, latest, raced>>
    BY <1>5 DEF Search
  <2> HIDE DEF t
  <2> QED BY <2>1, <2>2, <2>3, WorkKeeps
<1>6. ASSUME NEW c \in Conns, Ask(c) PROVE DocsInv'
  <2>1. PICK status : work' = [work EXCEPT ![c] = Reply(status)]
    BY <1>6 DEF Ask
  <2>2. UNCHANGED <<docs, latest, raced>>
    BY <1>6 DEF Ask
  <2> QED BY <2>1, <2>2, RepliesWithoutWrite, WorkKeeps
<1>7. ASSUME NEW c \in Conns, Respond(c) PROVE DocsInv'
  <2>1. IsTask(Idle) /\ Idle.step # "write"
    BY DEF Idle, IsTask
  <2>2. work' = [work EXCEPT ![c] = Idle] /\ UNCHANGED <<docs, latest, raced>>
    BY <1>7 DEF Respond
  <2> QED BY <2>1, <2>2, WorkKeeps
<1>8. ASSUME UNCHANGED vars PROVE DocsInv'
  <2>1. work' = work /\ docs' = docs /\ latest' = latest /\ raced' = raced
    BY <1>8 DEF vars
  <2> QED BY <2>1 DEF DocsInv, LatestStored, OnePerId
<1> QED BY <1>1, <1>2, <1>3, <1>4, <1>5, <1>6, <1>7, <1>8 DEF Next, Step

\* README.md:520 as far as the code bears it out: while no two loops met in the
\* vector, it holds the last document of each id, once (RagStore.cc, upsert()).
THEOREM LatestWins == Spec => []LatestStored
<1>1. DocsInv /\ [Next]_vars => DocsInv'
  BY StepKeeps
<1>2. DocsInv => LatestStored
  BY DEF DocsInv
<1> QED BY InitDocsInv, <1>1, <1>2, PTL DEF Spec

----------------------------------------------------------------------------
(* Gateway: the answers *)

\* No connection starts with an answer.
LEMMA InitAnswersInv == Init => AnswersInv
BY DEF Init, AnswersInv, AnsweredOnce

\* Only the end of a callback touches the answers, and the first one closes.
LEMMA AnswersKept ==
    ASSUME AnswersInv, [Next]_vars
    PROVE  AnswersInv'
<1>1. ASSUME UNCHANGED <<sent, state>> PROVE AnswersInv'
  BY <1>1 DEF AnswersInv, AnsweredOnce
<1>2. ASSUME NEW c \in Conns, Respond(c) PROVE AnswersInv'
  <2>1. /\ state' = [state EXCEPT ![c] = "kDisconnecting"]
        /\ sent' = IF state[c] = "kConnected"
                   THEN [sent EXCEPT ![c] = Append(sent[c], work[c].status)] ELSE sent
    BY <1>2 DEF Respond, Send
  <2>2. state' \in [Conns -> {"kConnected", "kDisconnecting"}]
    BY <2>1 DEF AnswersInv
  <2>3. CASE state[c] = "kConnected"
    <3>1. sent[c] = <<>>
      BY <2>3 DEF AnswersInv, AnsweredOnce
    <3>2. PICK x : x = <<work[c].status>>
      OBVIOUS
    <3>0. Len(x) = 1 /\ x # <<>>
      BY <3>2
    <3>3. Append(sent[c], work[c].status) = x
      BY <3>1, <3>2
    <3>4. sent' = [sent EXCEPT ![c] = x]
      BY <2>1, <2>3, <3>3
    <3>5. /\ sent' = [d \in Conns |-> sent'[d]]
          /\ \A d \in Conns : sent'[d] = IF d = c THEN x ELSE sent[d]
      BY <3>4 DEF AnswersInv
    <3>6. \A d \in Conns : state'[d] = IF d = c THEN "kDisconnecting" ELSE state[d]
      BY <2>1 DEF AnswersInv
    <3>7. ASSUME NEW d \in Conns
          PROVE  /\ Len(sent'[d]) <= 1
                 /\ sent'[d] = <<>> <=> state'[d] = "kConnected"
      <4>1. CASE d = c
        <5>1. sent'[d] = x /\ state'[d] = "kDisconnecting"
          BY <3>5, <3>6, <4>1
        <5>2. Len(sent'[d]) = 1
          BY <3>0, <5>1
        <5>3. sent'[d] # <<>> /\ state'[d] # "kConnected"
          BY <3>0, <5>1
        <5> QED BY <5>2, <5>3
      <4>2. CASE d # c
        BY <3>5, <3>6, <4>2 DEF AnswersInv, AnsweredOnce
      <4> QED BY <4>1, <4>2
    <3> QED BY <2>2, <3>5, <3>7 DEF AnswersInv, AnsweredOnce
  <2>4. CASE state[c] # "kConnected"
    <3>1. sent' = sent /\ state' = state
      BY <2>1, <2>4 DEF AnswersInv
    <3> QED BY <1>1, <3>1
  <2> QED BY <2>3, <2>4
<1>3. ASSUME NEW c \in Conns, NEW b, OnGarbled(c, b) \/ OnMessage(c, b)
      PROVE  UNCHANGED <<sent, state>>
  BY <1>3 DEF OnGarbled, OnMessage, Read
<1>4. ASSUME NEW c \in Conns, Scan(c) \/ Write(c) \/ Search(c) \/ Ask(c)
      PROVE  UNCHANGED <<sent, state>>
  BY <1>4 DEF Scan, Write, Search, Ask
<1>5. ASSUME UNCHANGED vars PROVE UNCHANGED <<sent, state>>
  BY <1>5 DEF vars
<1> QED BY <1>1, <1>2, <1>3, <1>4, <1>5 DEF Next, Step

\* However the input is cut, a connection sends one response and then closes
\* (main.cc: send() and shutdown() at the end of onMessage).
THEOREM OneAnswer == Spec => []AnsweredOnce
<1>1. AnswersInv /\ [Next]_vars => AnswersInv'
  BY AnswersKept
<1>2. AnswersInv => AnsweredOnce
  BY DEF AnswersInv
<1> QED BY InitAnswersInv, <1>1, <1>2, PTL DEF Spec

----------------------------------------------------------------------------
(* Gateway: requests in the input *)

\* The parts that an input consists of; the line and the head have no name.
Word == STRING \cup {""}
PartRecord == [kind : {"line", "head", "field"}, name : Word, value : Word, of : Request, nr : Nat]

\* p is a part of request r, the k-th of its client.
PartOf(p, r, k) == /\ p.of = r /\ p.nr = k
                   /\ p.kind = "field" =>
                         \E j \in 1..Len(r.body) : r.body[j] = <<p.name, p.value>>

\* The parts of a request: line, head, and the fields of its body.
LEMMA PartsOfRequest ==
    ASSUME NEW r \in Request, NEW k \in Nat
    PROVE  LET ps == Parts(r, k)
           IN  /\ ps \in Seq(PartRecord) /\ Len(ps) \in Nat /\ Len(ps) >= 2
               /\ Len(ps) = 2 + Len(r.body) /\ Len(r.body) \in Nat
               /\ ps[1].kind = "line"
               /\ \A i \in DOMAIN ps : PartOf(ps[i], r, k)
               /\ \A i \in 1..Len(r.body) : /\ ps[i + 2].kind = "field"
                                            /\ r.body[i] = <<ps[i + 2].name, ps[i + 2].value>>
<1> DEFINE front == <<[kind |-> "line", name |-> "", value |-> "", of |-> r, nr |-> k],
                      [kind |-> "head", name |-> "", value |-> "", of |-> r, nr |-> k]>>
           back == [i \in 1..Len(r.body) |-> [kind |-> "field", name |-> r.body[i][1],
                                              value |-> r.body[i][2], of |-> r, nr |-> k]]
           ps == Parts(r, k)
<1>1. /\ r.body \in Seq(STRING \X STRING) /\ Len(r.body) \in Nat
      /\ \A i \in 1..Len(r.body) : r.body[i] \in STRING \X STRING
  <2>1. r.body \in Seq(STRING \X STRING)
    BY DEF Request
  <2> QED BY <2>1
<1>2. /\ front \in Seq(PartRecord) /\ Len(front) = 2
      /\ front[1].kind = "line" /\ PartOf(front[1], r, k) /\ PartOf(front[2], r, k)
  <2> DEFINE line == [kind |-> "line", name |-> "", value |-> "", of |-> r, nr |-> k]
             head == [kind |-> "head", name |-> "", value |-> "", of |-> r, nr |-> k]
  <2>1. line \in PartRecord /\ head \in PartRecord
    BY DEF PartRecord, Word
  <2>2. line.kind = "line" /\ PartOf(line, r, k) /\ PartOf(head, r, k)
    BY DEF PartOf
  <2>3. front = <<line, head>>
    OBVIOUS
  <2> HIDE DEF line, head, front
  <2> QED BY <2>1, <2>2, <2>3
<1>3. /\ back \in Seq(PartRecord) /\ Len(back) = Len(r.body)
      /\ \A i \in 1..Len(r.body) : /\ PartOf(back[i], r, k) /\ back[i].kind = "field"
                                   /\ r.body[i] = <<back[i].name, back[i].value>>
  <2>1. ASSUME NEW i \in 1..Len(r.body)
        PROVE  /\ back[i] \in PartRecord /\ PartOf(back[i], r, k) /\ back[i].kind = "field"
               /\ r.body[i] = <<back[i].name, back[i].value>>
    <3>1. PICK x \in STRING, y \in STRING : r.body[i] = <<x, y>>
      <4>1. \A z \in STRING \X STRING : z[1] \in STRING /\ z[2] \in STRING /\ z = <<z[1], z[2]>>
        OBVIOUS
      <4>2. r.body[i] \in STRING \X STRING
        BY <1>1, Zenon
      <4> QED BY <4>1, <4>2, Zenon
    <3>2. back[i] = [kind |-> "field", name |-> x, value |-> y, of |-> r, nr |-> k]
      BY <3>1
    <3>3. back[i] \in PartRecord
      BY <3>2 DEF PartRecord, Word
    <3>4. /\ back[i].of = r /\ back[i].nr = k /\ back[i].kind = "field"
          /\ r.body[i] = <<back[i].name, back[i].value>>
      BY <3>1, <3>2
    <3> HIDE DEF back
    <3> QED BY <3>3, <3>4 DEF PartOf
  <2>2. back = [i \in 1..Len(r.body) |-> back[i]]
    OBVIOUS
  <2> HIDE DEF back
  <2>3. back \in [1..Len(r.body) -> PartRecord]
    BY <2>1, <2>2
  <2>4. back \in Seq(PartRecord) /\ Len(back) = Len(r.body)
    BY <1>1, <2>3
  <2> QED BY <2>1, <2>4, Zenon
<1>4. ps = front \o back
  BY DEF Parts
<1> HIDE DEF front, back, ps
<1>5. /\ ps \in Seq(PartRecord) /\ Len(ps) = 2 + Len(r.body)
      /\ DOMAIN ps = 1..(2 + Len(r.body))
      /\ ps[1] = front[1] /\ ps[2] = front[2]
      /\ \A i \in 3..(2 + Len(r.body)) : ps[i] = back[i - 2] /\ i - 2 \in 1..Len(r.body)
  <2>1. /\ ps \in Seq(PartRecord) /\ Len(ps) = 2 + Len(r.body)
        /\ \A i \in 1..(2 + Len(r.body)) : ps[i] = IF i <= 2 THEN front[i] ELSE back[i - 2]
    <3>1. front \in Seq(PartRecord) /\ Len(front) = 2 /\ back \in Seq(PartRecord)
          /\ Len(back) = Len(r.body)
      BY <1>2, <1>3
    <3> HIDE DEF PartRecord
    <3>2. /\ front \o back \in Seq(PartRecord) /\ Len(front \o back) = Len(front) + Len(back)
          /\ \A i \in 1..(Len(front) + Len(back)) :
                (front \o back)[i] = IF i <= Len(front) THEN front[i] ELSE back[i - Len(front)]
      BY <3>1, ConcatProperties, ZenonT(60)
    <3> QED BY <1>4, <3>1, <3>2
  <2>2. DOMAIN ps = 1..(2 + Len(r.body))
    BY <2>1
  <2> QED BY <1>1, <2>1, <2>2
<1>6. ASSUME NEW i \in DOMAIN ps
      PROVE  PartOf(ps[i], r, k)
  <2>1. CASE i \in 3..(2 + Len(r.body))
    BY <1>3, <1>5, <2>1
  <2>2. CASE i = 1 \/ i = 2
    BY <1>2, <1>5, <2>2
  <2> QED BY <1>1, <1>5, <2>1, <2>2
<1>7. ps[1].kind = "line" /\ Len(ps) \in Nat /\ Len(ps) >= 2
  BY <1>1, <1>2, <1>5
<1>8. ASSUME NEW i \in 1..Len(r.body)
      PROVE  ps[i + 2].kind = "field" /\ r.body[i] = <<ps[i + 2].name, ps[i + 2].value>>
  <2>1. i + 2 \in 3..(2 + Len(r.body)) /\ (i + 2) - 2 = i
    BY <1>1
  <2>2. ps[i + 2] = back[i]
    BY <1>5, <2>1
  <2> QED BY <1>3, <2>2
<1> QED BY <1>1, <1>5, <1>6, <1>7, <1>8 DEF ps

\* The input has nothing but parts of its requests, and begins with the first one's.
LEMMA InputParts ==
    ASSUME NEW s \in Seq(Request)
    PROVE  /\ Input(s) \in Seq(PartRecord) /\ Len(Input(s)) \in Nat
           /\ \A j \in DOMAIN Input(s) : \E k \in 1..Len(s) : PartOf(Input(s)[j], s[k], k)
           /\ Input(s) # <<>> =>
                 LET l == Len(Parts(s[1], 1))
                 IN  /\ s # <<>> /\ s[1] \in Request /\ l <= Len(Input(s))
                     /\ \A j \in 1..l : Input(s)[j] = Parts(s[1], 1)[j]
                     /\ \A j \in DOMAIN Input(s) : j > l => Input(s)[j].nr # 1
<1> DEFINE seqs == [k \in 1..Len(s) |-> Parts(s[k], k)]
           t == Input(s)
<1>1. Len(s) \in Nat /\ \A k \in 1..Len(s) : s[k] \in Request /\ k \in Nat
  OBVIOUS
<1>2. /\ seqs \in Seq(Seq(PartRecord)) /\ Len(seqs) = Len(s)
      /\ \A k \in 1..Len(s) : seqs[k] = Parts(s[k], k)
  <2>1. \A k \in 1..Len(s) : Parts(s[k], k) \in Seq(PartRecord)
    BY <1>1, PartsOfRequest
  <2> QED BY <1>1, <2>1
<1>3. t = FlattenSeq(seqs)
  BY DEF Input
<1> HIDE DEF seqs, t
<1>4. CASE Len(s) = 0
  <2>1. seqs = <<>>
    BY <1>2, <1>4
  <2>2. t = <<>>
    BY <1>3, <2>1 DEF FlattenSeq
  <2> QED BY <1>4, <2>2 DEF t
<1>5. CASE Len(s) # 0
  <2> DEFINE l == Len(seqs[1])
  <2>1. /\ t \in Seq(PartRecord) /\ l \in Nat /\ Len(t) \in Nat /\ l <= Len(t)
        /\ \A j \in 1..l : t[j] = seqs[1][j]
        /\ \A j \in DOMAIN t : j > l =>
              \E k \in 2..Len(seqs) : \E i \in DOMAIN seqs[k] : t[j] = seqs[k][i]
    BY <1>2, <1>3, <1>5, Flattened
  <2>2. 1 \in 1..Len(s) /\ seqs[1] = Parts(s[1], 1) /\ s # <<>> /\ s[1] \in Request
    BY <1>1, <1>2, <1>5
  <2>3. ASSUME NEW j \in DOMAIN t
        PROVE  \E k \in 1..Len(s) : PartOf(t[j], s[k], k)
    <3>1. CASE j <= l
      <4>1. j \in DOMAIN seqs[1] /\ t[j] = seqs[1][j]
        <5>1. j \in 1..l /\ seqs[1] \in Seq(PartRecord)
          BY <1>2, <2>1, <2>2, <3>1
        <5> QED BY <2>1, <5>1
      <4> QED BY <2>2, <4>1, PartsOfRequest
    <3>2. CASE j > l
      <4>1. PICK k \in 2..Len(seqs) : \E i \in DOMAIN seqs[k] : t[j] = seqs[k][i]
        BY <2>1, <3>2
      <4>2. k \in 1..Len(s) /\ seqs[k] = Parts(s[k], k) /\ k \in Nat /\ s[k] \in Request
        BY <1>1, <1>2, <4>1
      <4>3. \A i \in DOMAIN seqs[k] : PartOf(seqs[k][i], s[k], k)
        BY <4>2, PartsOfRequest
      <4> QED BY <4>1, <4>2, <4>3
    <3> QED BY <2>1, <3>1, <3>2
  <2>4. ASSUME NEW j \in DOMAIN t, j > l
        PROVE  t[j].nr # 1
    <3>1. PICK k \in 2..Len(seqs) : \E i \in DOMAIN seqs[k] : t[j] = seqs[k][i]
      BY <2>1, <2>4
    <3>2. k \in 1..Len(s) /\ seqs[k] = Parts(s[k], k) /\ k # 1 /\ k \in Nat /\ s[k] \in Request
      BY <1>1, <1>2, <3>1
    <3>3. t[j].nr = k
      <4>1. \A i \in DOMAIN seqs[k] : PartOf(seqs[k][i], s[k], k)
        BY <3>2, PartsOfRequest
      <4> QED BY <3>1, <4>1 DEF PartOf
    <3> QED BY <3>2, <3>3
  <2> QED BY <2>1, <2>2, <2>3, <2>4 DEF t
<1> QED BY <1>1, <1>4, <1>5

\* What a read delivers whole are parts of the input.
LEMMA ReadParts ==
    ASSUME NEW s \in Seq(Request), NEW a \in Nat, NEW b \in Nat, b <= 2 * Len(Input(s))
    PROVE  LET ps == WholeParts(s, a, b)
           IN  /\ ps \in Seq(PartRecord) /\ Len(ps) \in Nat
               /\ \A i \in 1..Len(ps) : \E j \in DOMAIN Input(s) : ps[i] = Input(s)[j]
               /\ a = 0 => /\ Len(ps) = b \div 2 /\ b \div 2 <= Len(Input(s))
                           /\ \A i \in 1..Len(ps) : ps[i] = Input(s)[i]
<1> DEFINE t == Input(s)
           m == (a + 1) \div 2 + 1
           n == b \div 2
           ps == WholeParts(s, a, b)
<1>1. t \in Seq(PartRecord) /\ Len(t) \in Nat
  BY InputParts
<1>2. m \in Nat /\ m >= 1 /\ n \in Nat /\ n <= Len(t) /\ (a = 0 => m = 1)
  BY <1>1
<1>3. ps = SubSeq(t, m, n)
  BY DEF WholeParts
<1> HIDE DEF t, m, n, ps
<1>4. \A i \in m..n : t[i] \in PartRecord /\ i \in DOMAIN t
  BY <1>1, <1>2
<1>5. /\ ps \in Seq(PartRecord) /\ Len(ps) = IF m <= n THEN n - m + 1 ELSE 0
      /\ \A i \in 1..(n - m + 1) : ps[i] = t[m + i - 1]
  <2> HIDE DEF PartRecord
  <2> QED BY <1>2, <1>3, <1>4, SubSeqProperties
<1>6. Len(ps) \in Nat
  BY <1>5
<1>7. ASSUME NEW i \in 1..Len(ps)
      PROVE  m + i - 1 \in DOMAIN t /\ ps[i] = t[m + i - 1]
  BY <1>2, <1>4, <1>5
<1>8. ASSUME a = 0
      PROVE  Len(ps) = n /\ n <= Len(t) /\ \A i \in 1..Len(ps) : ps[i] = t[i]
  BY <1>2, <1>5, <1>8
<1>9. \A i \in 1..Len(ps) : \E j \in DOMAIN t : ps[i] = t[j]
  BY <1>7
<1> QED BY <1>5, <1>6, <1>8, <1>9 DEF t, n, ps

\* A field that is found has its value from a field of the request that was read
\* first: from the one of that name, or else the name is a value there.
LEMMA FieldsFound ==
    ASSUME NEW T, NEW ps \in Seq(T), Len(ps) >= 2, NEW f, f = Fields(Body(ps)), NEW n \in DOMAIN f
    PROVE  \E i \in 1..Len(ps) :
              /\ ps[i].nr = ps[1].nr /\ ps[i].kind = "field" /\ f[n] = ps[i].value
              /\ \/ ps[i].name = n
                 \/ \E j \in 1..Len(ps) : ps[j].nr = ps[1].nr /\ ps[j].kind = "field" /\ ps[j].value = n
<1> DEFINE rest == SubSeq(ps, 3, Len(ps))
           ix == {i \in DOMAIN rest : rest[i].kind = "field" /\ rest[i].nr = ps[1].nr}
           body == Body(ps)
           words == UNION {{body[i].name, body[i].value} : i \in DOMAIN body}
           places(x) == {i \in DOMAIN body : x \in {body[i].name, body[i].value}}
           at(x) == First(places(x))
           from(x) == IF body[at(x)].name = x THEN at(x) ELSE at(x) + 1
<1>1. Len(ps) \in Nat /\ \A i \in 3..Len(ps) : ps[i] \in T
  OBVIOUS
<1>2. /\ rest \in Seq(T)
      /\ \A i \in DOMAIN rest : i + 2 \in 1..Len(ps) /\ rest[i] = ps[i + 2]
  <2>1. /\ rest \in Seq(T)
        /\ Len(rest) = IF 3 <= Len(ps) THEN Len(ps) - 3 + 1 ELSE 0
        /\ \A i \in 1..(Len(ps) - 3 + 1) : rest[i] = ps[3 + i - 1]
    BY <1>1, SubSeqProperties
  <2> HIDE DEF rest
  <2> QED BY <1>1, <2>1
<1>3. body = Picked(rest, ix) /\ ix \in SUBSET DOMAIN rest
  BY DEF Body
<1> HIDE DEF rest
<1>4. /\ body \in Seq(T) /\ DOMAIN body = 1..Cardinality(ix)
      /\ \A m \in 1..Cardinality(ix) : \E i \in ix : body[m] = rest[i]
  <2>1. /\ Picked(rest, ix) \in Seq(T)
        /\ Len(Picked(rest, ix)) = Cardinality(ix) /\ Cardinality(ix) \in Nat
        /\ \A i \in ix : /\ Rank(ix, i) \in 1..Cardinality(ix)
                         /\ Picked(rest, ix)[Rank(ix, i)] = rest[i]
        /\ \A m \in 1..Cardinality(ix) : \E i \in ix : m = Rank(ix, i)
    <3> HIDE DEF ix
    <3> QED BY <1>2, <1>3, PickedByRank
  <2> HIDE DEF ix, body
  <2> QED BY <1>3, <2>1
<1>5. f = [w \in {w \in words : from(w) \in DOMAIN body} |-> body[from(w)].value]
  BY DEF Fields
<1> HIDE DEF body
<1>6. n \in words /\ from(n) \in DOMAIN body /\ f[n] = body[from(n)].value
  <2> HIDE DEF words, from
  <2> QED BY <1>5
<1>7. ASSUME NEW m \in DOMAIN body
      PROVE  \E i \in 1..Len(ps) : /\ body[m] = ps[i]
                                   /\ ps[i].nr = ps[1].nr /\ ps[i].kind = "field"
  <2>1. PICK i \in ix : body[m] = rest[i]
    BY <1>4
  <2>2. i + 2 \in 1..Len(ps) /\ rest[i] = ps[i + 2]
    BY <1>2
  <2>3. rest[i].kind = "field" /\ rest[i].nr = ps[1].nr
    OBVIOUS
  <2> HIDE DEF ix
  <2> QED BY <2>1, <2>2, <2>3
<1>8. at(n) \in places(n)
  <2>1. places(n) \in SUBSET Nat /\ places(n) # {}
    <3> HIDE DEF from, at
    <3> QED BY <1>4, <1>6
  <2> HIDE DEF places
  <2> QED BY <2>1, FirstIsLeast
<1>9. at(n) \in DOMAIN body /\ n \in {body[at(n)].name, body[at(n)].value}
  <2> HIDE DEF at
  <2> QED BY <1>8
<1>10. PICK i \in 1..Len(ps) : /\ body[from(n)] = ps[i]
                               /\ ps[i].nr = ps[1].nr /\ ps[i].kind = "field"
  <2> HIDE DEF from
  <2> QED BY <1>6, <1>7
<1>11. PICK j \in 1..Len(ps) : /\ body[at(n)] = ps[j]
                               /\ ps[j].nr = ps[1].nr /\ ps[j].kind = "field"
  <2> HIDE DEF at
  <2> QED BY <1>7, <1>9
<1>12. ps[i].name = n \/ ps[j].value = n
  <2> HIDE DEF at
  <2>1. CASE body[at(n)].name = n
    BY <1>10, <2>1
  <2>2. CASE body[at(n)].name # n
    BY <1>9, <1>11, <2>2
  <2> QED BY <2>1, <2>2
<1> HIDE DEF from, at
<1> QED BY <1>6, <1>10, <1>11, <1>12

----------------------------------------------------------------------------
(* Gateway: what is carried out *)

\* One request of the client has all that e says.
AskedIn(e, s) == \E k \in 1..Len(s) :
    LET r == s[k]
    IN  /\ e.path = r.path
        /\ Required(e.path) \subseteq DOMAIN e.fields
        /\ \A n \in DOMAIN e.fields : \E i \in 1..Len(r.body) :
              r.body[i][2] = e.fields[n] /\ (Plain(r) => r.body[i][1] = n)

DoneInv == /\ script \in Scripts /\ taken \in [Conns -> Nat]
           /\ done = [c \in Conns |-> done[c]]
           /\ DoneAsAsked

\* What a client sends is a row of requests.
LEMMA RowOfRequests ==
    ASSUME script \in Scripts, NEW c \in Conns
    PROVE  script[c] \in Seq(Request)
BY ScriptsAssumption

\* What is carried out for a read has all its fields from the request it starts with.
LEMMA CarriedOut ==
    ASSUME NEW s \in Seq(Request), NEW a \in Nat, NEW b \in Nat, b <= 2 * Len(Input(s)),
           NEW ps, ps = WholeParts(s, a, b), Len(ps) >= 2,
           NEW r, r = ps[1].of, NEW f, f = Fields(Body(ps)),
           NEW large, Refusal(r, f, large) = {}
    PROVE  AskedIn([path |-> r.path, fields |-> Used(r.path, f)], s)
<1> DEFINE u == Used(r.path, f)
           e == [path |-> r.path, fields |-> u]
<1>1. /\ ps \in Seq(PartRecord) /\ Len(ps) \in Nat
      /\ \A i \in 1..Len(ps) : \E j \in DOMAIN Input(s) : ps[i] = Input(s)[j]
  BY ReadParts
<1>2. \A i \in 1..Len(ps) : \E k \in 1..Len(s) : PartOf(ps[i], s[k], k)
  <2>1. \A j \in DOMAIN Input(s) : \E k \in 1..Len(s) : PartOf(Input(s)[j], s[k], k)
    BY InputParts
  <2> QED BY <1>1, <2>1
<1>3. 1 \in 1..Len(ps)
  BY <1>1
<1>4. PICK k \in 1..Len(s) : PartOf(ps[1], s[k], k)
  BY <1>2, <1>3
<1>5. r = s[k] /\ ps[1].nr = k
  BY <1>4 DEF PartOf
<1>6. /\ DOMAIN u = DOMAIN f \cap (Required(r.path) \cup Optional(r.path))
      /\ \A n \in DOMAIN u : u[n] = f[n]
  BY DEF Used
<1>7. Required(r.path) \subseteq DOMAIN f
  BY Zenon DEF Refusal
<1>8. ASSUME NEW i \in 1..Len(ps), ps[i].nr = ps[1].nr, ps[i].kind = "field"
      PROVE  \E j \in 1..Len(r.body) : r.body[j] = <<ps[i].name, ps[i].value>>
  <2>1. PICK m \in 1..Len(s) : PartOf(ps[i], s[m], m)
    BY <1>2
  <2>2. m = k
    BY <1>5, <1>8, <2>1 DEF PartOf
  <2> QED BY <1>5, <1>8, <2>1, <2>2 DEF PartOf
<1>9. ASSUME NEW n \in DOMAIN u
      PROVE  \E i \in 1..Len(r.body) : r.body[i][2] = u[n] /\ (Plain(r) => r.body[i][1] = n)
  <2>1. n \in DOMAIN f /\ n \in Required(r.path) \cup Optional(r.path) /\ u[n] = f[n]
    <3> HIDE DEF u
    <3> QED BY <1>6, <1>9
  <2>2. PICK i \in 1..Len(ps) :
           /\ ps[i].nr = ps[1].nr /\ ps[i].kind = "field" /\ f[n] = ps[i].value
           /\ \/ ps[i].name = n
              \/ \E j \in 1..Len(ps) : ps[j].nr = ps[1].nr /\ ps[j].kind = "field" /\ ps[j].value = n
    <3>1. ps \in Seq(PartRecord) /\ n \in DOMAIN f
      BY <1>1, <2>1
    <3> HIDE DEF u
    <3> QED BY <3>1, FieldsFound, SMTT(60)
  <2>3. PICK j \in 1..Len(r.body) : r.body[j] = <<ps[i].name, ps[i].value>>
    BY <1>8, <2>2
  <2>4. r.body[j][1] = ps[i].name /\ r.body[j][2] = u[n]
    BY <2>1, <2>2, <2>3
  <2>5. Plain(r) => ps[i].name = n
    <3>1. ASSUME NEW m \in 1..Len(ps), ps[m].nr = ps[1].nr, ps[m].kind = "field", ps[m].value = n
          PROVE  ~Plain(r)
      <4>1. PICK x \in 1..Len(r.body) : r.body[x] = <<ps[m].name, ps[m].value>>
        BY <1>8, <3>1
      <4>2. r.body[x][2] = n
        BY <3>1, <4>1
      <4> QED BY <2>1, <4>2 DEF Plain
    <3> QED BY <2>2, <3>1
  <2> HIDE DEF u
  <2> QED BY <2>4, <2>5
<1> HIDE DEF u
<1>10. e.path = r.path /\ e.fields = u
  OBVIOUS
<1> HIDE DEF e
<1>11. AskedIn(e, s)
  <2>1. Required(e.path) \subseteq DOMAIN e.fields
    BY <1>6, <1>7, <1>10
  <2>2. \A n \in DOMAIN e.fields : \E i \in 1..Len(s[k].body) :
           s[k].body[i][2] = e.fields[n] /\ (Plain(s[k]) => s[k].body[i][1] = n)
    BY <1>5, <1>9, <1>10
  <2>3. e.path = s[k].path
    BY <1>5, <1>10
  <2> QED BY <2>1, <2>2, <2>3 DEF AskedIn
<1> QED BY <1>11 DEF e, u

\* At the start nothing is carried out.
LEMMA DoneInit == Init => DoneInv
<1> SUFFICES ASSUME Init PROVE DoneInv
  OBVIOUS
<1>1. script \in Scripts /\ taken = [c \in Conns |-> 0] /\ done = [c \in Conns |-> {}]
  BY DEF Init
<1>2. DoneAsAsked
  BY <1>1 DEF DoneAsAsked
<1> QED BY <1>1, <1>2 DEF DoneInv

\* What was carried out was asked for, as long as neither changes.
LEMMA DoneKept ==
    ASSUME DoneInv, script' = script, done' = done
    PROVE  DoneAsAsked'
<1>1. \A c \in Conns : \A e \in done[c] : AskedIn(e, script[c])
  BY DEF DoneInv, DoneAsAsked, AskedIn
<1>2. \A c \in Conns : \A e \in done'[c] : AskedIn(e, script'[c])
  BY <1>1
<1> QED BY <1>2, Zenon DEF DoneAsAsked, AskedIn

\* Only a read that is parsed carries anything out.
LEMMA DoneStep == DoneInv /\ [Next]_vars => DoneInv'
<1> SUFFICES ASSUME DoneInv, [Next]_vars
             PROVE  DoneInv'
  OBVIOUS
<1>1. ASSUME NEW c \in Conns, NEW b \in (taken[c] + 1)..(2 * Len(Input(script[c]))), Read(c, b)
      PROVE  /\ taken' \in [Conns -> Nat] /\ script' = script
             /\ b \in Nat /\ taken[c] \in Nat /\ b <= 2 * Len(Input(script[c]))
  <2>1. taken[c] \in Nat /\ taken' = [taken EXCEPT ![c] = b] /\ script' = script
    BY <1>1 DEF DoneInv, Read
  <2>2. script[c] \in Seq(Request)
    BY RowOfRequests DEF DoneInv
  <2>3. Len(Input(script[c])) \in Nat
    BY <2>2, InputParts
  <2>4. b \in Nat /\ b <= 2 * Len(Input(script[c]))
    BY <2>1, <2>3
  <2> QED BY <2>1, <2>4 DEF DoneInv
<1>2. ASSUME NEW c \in Conns, NEW b \in (taken[c] + 1)..(2 * Len(Input(script[c]))), OnGarbled(c, b)
      PROVE  DoneInv'
  <2>1. Read(c, b) /\ done' = done
    BY <1>2 DEF OnGarbled
  <2>2. script' = script /\ taken' \in [Conns -> Nat]
    BY <1>1, <2>1
  <2>3. DoneAsAsked'
    BY <2>1, <2>2, DoneKept
  <2> QED BY <2>1, <2>2, <2>3 DEF DoneInv
<1>3. ASSUME NEW c \in Conns, NEW b \in (taken[c] + 1)..(2 * Len(Input(script[c]))), OnMessage(c, b)
      PROVE  DoneInv'
  <2> DEFINE s == script[c]
  <2>0. Parses(s, taken[c], b) /\ Read(c, b)
    BY <1>3 DEF OnMessage
  <2>1. PICK ps, r, f : ps = WholeParts(s, taken[c], b) /\ r = ps[1].of /\ f = Fields(Body(ps))
    OBVIOUS
  <2>2. \E large \in Sizes(r, Len(Body(ps))) :
           \/ done' = done
           \/ /\ Refusal(r, f, large) = {}
              /\ done' = [done EXCEPT ![c] = @ \cup {[path |-> r.path, fields |-> Used(r.path, f)]}]
    BY <1>3, <2>1, Zenon DEF OnMessage
  <2>3. Len(ps) >= 2
    BY <2>0, <2>1 DEF Parses
  <2>4. CASE done' = done
    <3>1. script' = script /\ taken' \in [Conns -> Nat]
      BY <1>1, <2>0
    <3>2. DoneAsAsked'
      BY <2>4, <3>1, DoneKept
    <3> QED BY <2>4, <3>1, <3>2 DEF DoneInv
  <2>5. CASE done' # done
    <3> DEFINE e == [path |-> r.path, fields |-> Used(r.path, f)]
    <3>1. s \in Seq(Request)
      BY RowOfRequests DEF DoneInv
    <3>2. AskedIn(e, s)
      <4>1. PICK large : Refusal(r, f, large) = {}
        BY <2>2, <2>5
      <4> QED BY <1>1, <2>0, <2>1, <2>3, <3>1, <4>1, CarriedOut
    <3> HIDE DEF e
    <3>3. done' = [done EXCEPT ![c] = @ \cup {e}]
      BY <2>2, <2>5 DEF e
    <3>4. /\ done' = [d \in Conns |-> done'[d]]
          /\ \A d \in Conns : done'[d] = IF d = c THEN done[d] \cup {e} ELSE done[d]
      BY <3>3 DEF DoneInv
    <3>5. \A d \in Conns : \A x \in done[d] : AskedIn(x, script[d])
      BY DEF DoneInv, DoneAsAsked, AskedIn
    <3>6. \A d \in Conns : \A x \in done'[d] : AskedIn(x, script[d])
      BY <3>2, <3>4, <3>5
    <3>7. script' = script /\ taken' \in [Conns -> Nat]
      BY <1>1, <2>0
    <3>8. DoneAsAsked'
      <4>1. \A d \in Conns : \A x \in done'[d] : AskedIn(x, script'[d])
        BY <3>6, <3>7
      <4> QED BY <4>1, Zenon DEF DoneAsAsked, AskedIn
    <3> QED BY <3>4, <3>7, <3>8 DEF DoneInv
  <2> QED BY <2>4, <2>5
<1>4. ASSUME NEW c \in Conns, Step(c)
      PROVE  DoneInv'
  <2>1. UNCHANGED <<script, taken, done>>
    BY <1>4 DEF Step, Scan, Write, Search, Ask, Respond
  <2> QED BY <2>1, DoneKept DEF DoneInv
<1>5. CASE UNCHANGED vars
  BY <1>5, DoneKept DEF vars, DoneInv
<1> QED BY <1>2, <1>3, <1>4, <1>5 DEF Next

\* Whatever is carried out has all the route requires, with values of one request of
\* the client, however the input was cut into reads (main.cc, onMessage); each is the
\* value of the field of that name, unless a value of the request is such a name.
THEOREM OneRequestEach == Spec => []DoneAsAsked
<1>1. DoneInv => DoneAsAsked
  BY DEF DoneInv
<1> QED BY DoneInit, DoneStep, <1>1, PTL DEF Spec

----------------------------------------------------------------------------
(* Gateway: a request that arrives whole *)

\* The first m places leave the first m elements.
LEMMA PickedFront ==
    ASSUME NEW m \in Nat, NEW s
    PROVE  Picked(s, 1..m) = [n \in 1..m |-> s[n]]
<1>1. \A n \in Nat : Cardinality(1..n) = n
  BY FS_Interval
<1>2. ASSUME NEW i \in 1..m
      PROVE  Rank(1..m, i) = i
  <2>1. {j \in 1..m : j <= i} = 1..i /\ i \in Nat
    OBVIOUS
  <2> QED BY <1>1, <2>1 DEF Rank
<1>3. ASSUME NEW n \in 1..m
      PROVE  (CHOOSE i \in 1..m : Rank(1..m, i) = n) = n
  BY <1>2
<1>4. Cardinality(1..m) = m
  BY <1>1
<1>5. Picked(s, 1..m) = [n \in 1..m |-> s[CHOOSE i \in 1..m : Rank(1..m, i) = n]]
  BY <1>4 DEF Picked
<1>6. \A n \in 1..m : s[CHOOSE i \in 1..m : Rank(1..m, i) = n] = s[n]
  BY <1>3
<1> QED BY <1>5, <1>6

\* If all of the first request is in the first read, it is parsed, and its body is
\* what comes behind its line and head, with all its fields.
LEMMA FirstRead ==
    ASSUME NEW s \in Seq(Request), NEW b \in Nat, b > 0, b <= 2 * Len(Input(s)),
           b >= 2 * Len(Parts(s[1], 1))
    PROVE  /\ Parses(s, 0, b) /\ s[1] \in Request
           /\ WholeParts(s, 0, b)[1].of = s[1]
           /\ Body(WholeParts(s, 0, b)) = SubSeq(Parts(s[1], 1), 3, Len(Parts(s[1], 1)))
           /\ Len(Body(WholeParts(s, 0, b))) = Len(s[1].body)
<1> DEFINE t == Input(s)
           p == Parts(s[1], 1)
           l == Len(p)
           ps == WholeParts(s, 0, b)
           rest == SubSeq(ps, 3, Len(ps))
           ix == {i \in DOMAIN rest : rest[i].kind = "field" /\ rest[i].nr = ps[1].nr}
<1>1. t \in Seq(PartRecord) /\ Len(t) \in Nat /\ t # <<>>
  <2>1. t \in Seq(PartRecord) /\ Len(t) \in Nat
    BY InputParts
  <2>2. Len(t) # 0
    BY <2>1
  <2> QED BY <2>1, <2>2
<1>2. /\ s[1] \in Request /\ l <= Len(t)
      /\ \A j \in 1..l : t[j] = p[j]
      /\ \A j \in DOMAIN t : j > l => t[j].nr # 1
  BY <1>1, InputParts
<1>3. /\ p \in Seq(PartRecord) /\ l \in Nat /\ l >= 2 /\ p[1].kind = "line"
      /\ \A i \in DOMAIN p : p[i].of = s[1] /\ p[i].nr = 1
  BY <1>2, PartsOfRequest DEF PartOf
<1>3a. /\ l = 2 + Len(s[1].body) /\ Len(s[1].body) \in Nat
       /\ \A i \in 1..Len(s[1].body) : p[i + 2].kind = "field"
  <2>1. s[1] \in Request /\ 1 \in Nat
    BY <1>2
  <2> QED BY <2>1, PartsOfRequest, ZenonT(60)
<1>4. /\ ps \in Seq(PartRecord) /\ Len(ps) = b \div 2 /\ Len(ps) \in Nat
      /\ \A i \in 1..Len(ps) : ps[i] = t[i]
      /\ Len(ps) <= Len(t)
  <2>1. 0 \in Nat
    OBVIOUS
  <2> QED BY <2>1, ReadParts
<1> HIDE DEF t, p, ps
<1>5. Len(ps) >= l
  BY <1>3, <1>4 DEF p
<1>6. \A i \in 1..Len(ps) : /\ i <= l => ps[i] = p[i] /\ ps[i].of = s[1] /\ ps[i].nr = 1
                            /\ i > l => ps[i].nr # 1
  <2>1. DOMAIN t = 1..Len(t) /\ DOMAIN p = 1..l
    BY <1>1, <1>3
  <2>2. ASSUME NEW i \in 1..Len(ps)
        PROVE  ps[i] = t[i] /\ i \in DOMAIN t /\ i \in Nat
    BY <1>1, <1>4, <2>1
  <2>3. ASSUME NEW i \in 1..Len(ps), i <= l
        PROVE  ps[i] = p[i] /\ ps[i].of = s[1] /\ ps[i].nr = 1
    <3>1. i \in 1..l
      BY <2>3
    <3>2. ps[i] = p[i]
      BY <1>2, <2>2, <3>1
    <3>3. i \in DOMAIN p
      BY <2>1, <3>1
    <3> HIDE DEF l
    <3> QED BY <1>3, <3>2, <3>3
  <2>4. ASSUME NEW i \in 1..Len(ps), i > l
        PROVE  ps[i].nr # 1
    <3>1. t[i].nr # 1
      BY <1>2, <2>2, <2>4
    <3> QED BY <2>2, <3>1
  <2> QED BY <2>3, <2>4
<1>7. Parses(s, 0, b)
  <2>1. t[1].kind = "line"
    BY <1>2, <1>3
  <2>2. 0 % 2 = 0 /\ 0 \div 2 + 1 = 1
    OBVIOUS
  <2>3. AtStart(s, 0)
    BY <2>1, <2>2 DEF AtStart, t
  <2>4. Len(WholeParts(s, 0, b)) >= 2
    BY <1>3, <1>4, <1>5 DEF ps
  <2> QED BY <2>3, <2>4 DEF Parses
<1>8. ps[1].of = s[1] /\ ps[1].nr = 1
  BY <1>3, <1>5, <1>6
<1>9. /\ Len(rest) = Len(ps) - 2 /\ DOMAIN rest = 1..(Len(ps) - 2)
      /\ \A i \in 1..(Len(ps) - 2) : rest[i] = ps[i + 2]
  <2>1. \A i \in 3..Len(ps) : ps[i] \in PartRecord
    BY <1>4
  <2>2. /\ rest \in Seq(PartRecord)
        /\ Len(rest) = IF 3 <= Len(ps) THEN Len(ps) - 3 + 1 ELSE 0
        /\ \A i \in 1..(Len(ps) - 3 + 1) : rest[i] = ps[3 + i - 1]
    BY <1>4, <2>1, SubSeqProperties
  <2> HIDE DEF rest
  <2> QED BY <1>3, <1>4, <1>5, <2>2
<1>10. ix = 1..(l - 2)
  <2> HIDE DEF rest
  <2>1. \A i \in DOMAIN rest : rest[i].nr = 1 <=> i \in 1..(l - 2)
    BY <1>3, <1>4, <1>5, <1>6, <1>9
  <2>2. \A i \in 1..(l - 2) : rest[i].kind = "field"
    <3> SUFFICES ASSUME NEW i \in 1..(l - 2)
                 PROVE  rest[i].kind = "field"
      OBVIOUS
    <3>1. i + 2 \in 1..Len(ps) /\ i + 2 <= l /\ i \in 1..(Len(ps) - 2) /\ i \in 1..Len(s[1].body)
      <4>1. /\ l = 2 + Len(s[1].body) /\ Len(s[1].body) \in Nat
            /\ Len(ps) \in Nat /\ Len(ps) >= l
        BY <1>4, <1>5, <1>3a
      <4> HIDE DEF l
      <4> QED BY <4>1
    <3>2. rest[i] = p[i + 2]
      <4>1. rest[i] = ps[i + 2] /\ ps[i + 2] = p[i + 2]
        BY <1>6, <1>9, <3>1
      <4> QED BY <4>1
    <3> QED BY <1>3a, <3>1, <3>2
  <2>3. 1..(l - 2) \subseteq DOMAIN rest
    BY <1>3, <1>4, <1>5, <1>9
  <2> QED BY <1>8, <2>1, <2>2, <2>3
<1>11. Body(ps) = [n \in 1..(l - 2) |-> rest[n]]
  <2>1. Body(ps) = Picked(rest, ix)
    BY DEF Body
  <2>2. l - 2 \in Nat
    BY <1>3
  <2> HIDE DEF ix, rest
  <2>3. Picked(rest, 1..(l - 2)) = [n \in 1..(l - 2) |-> rest[n]]
    <3> HIDE DEF l
    <3> QED BY <2>2, PickedFront, Zenon
  <2> QED BY <1>10, <2>1, <2>3, Zenon
<1>12. SubSeq(p, 3, l) = [n \in 1..(l - 2) |-> p[n + 2]]
  <2> DEFINE q == SubSeq(p, 3, l)
  <2>1. \A i \in 3..l : p[i] \in PartRecord
    BY <1>3
  <2>2. /\ q \in Seq(PartRecord)
        /\ Len(q) = IF 3 <= l THEN l - 3 + 1 ELSE 0
        /\ \A i \in 1..(l - 3 + 1) : q[i] = p[3 + i - 1]
    BY <1>3, <2>1, SubSeqProperties
  <2> HIDE DEF q
  <2>3. Len(q) = l - 2 /\ q = [n \in 1..Len(q) |-> q[n]]
    <3>1. Len(q) = l - 2
      <4>1. l \in Nat /\ l >= 2 /\ Len(q) = IF 3 <= l THEN l - 3 + 1 ELSE 0
        BY <1>3, <2>2, Zenon
      <4> HIDE DEF l
      <4> QED BY <4>1
    <3>2. q \in [1..Len(q) -> PartRecord]
      BY <2>2, LenProperties
    <3> QED BY <3>1, <3>2
  <2>4. \A n \in 1..(l - 2) : q[n] = p[n + 2]
    BY <1>3, <2>2
  <2>5. q = [n \in 1..(l - 2) |-> p[n + 2]]
    BY <2>3, <2>4
  <2> QED BY <2>5 DEF q
<1>13. \A n \in 1..(l - 2) : rest[n] = p[n + 2]
  <2> HIDE DEF rest
  <2> QED BY <1>3, <1>4, <1>5, <1>6, <1>9
<1>14. Body(ps) = SubSeq(p, 3, l)
  <2> HIDE DEF rest
  <2> QED BY <1>11, <1>12, <1>13
<1>15. Len(Body(ps)) = Len(s[1].body)
  <2>1. l - 2 = Len(s[1].body) /\ l - 2 \in Nat
    BY <1>3a, SMTT(30)
  <2> HIDE DEF rest, l
  <2> QED BY <1>11, <2>1
<1> QED BY <1>2, <1>7, <1>8, <1>14, <1>15 DEF p, ps

\* What comes behind the line and the head of a request are the fields of its body.
LEMMA BodyOfRequest ==
    ASSUME NEW r \in Request
    PROVE  LET q == SubSeq(Parts(r, 1), 3, Len(Parts(r, 1)))
           IN  /\ DOMAIN q = 1..Len(r.body) /\ Len(r.body) \in Nat
               /\ \A i \in 1..Len(r.body) : q[i].name = r.body[i][1] /\ q[i].value = r.body[i][2]
<1> DEFINE p == Parts(r, 1)
           n == Len(r.body)
           q == SubSeq(p, 3, Len(p))
<1>1. /\ p \in Seq(PartRecord) /\ Len(p) = 2 + n /\ n \in Nat
      /\ \A i \in 1..n : r.body[i] = <<p[i + 2].name, p[i + 2].value>>
  BY PartsOfRequest
<1> HIDE DEF p, n, q
<1>2. \A i \in 3..Len(p) : p[i] \in PartRecord
  <2> HIDE DEF PartRecord
  <2> QED BY <1>1
<1>3. /\ q \in Seq(PartRecord)
      /\ Len(q) = IF 3 <= Len(p) THEN Len(p) - 3 + 1 ELSE 0
      /\ \A i \in 1..(Len(p) - 3 + 1) : q[i] = p[3 + i - 1]
  <2>1. q = SubSeq(p, 3, Len(p)) /\ 3 \in Nat /\ Len(p) \in Nat /\ 3 >= 1
    BY <1>1 DEF q
  <2> HIDE DEF PartRecord
  <2> QED BY <1>2, <2>1, SubSeqProperties
<1>4. Len(q) = n /\ DOMAIN q = 1..n
  <2>1. Len(q) = n
    <3>1. Len(p) = 2 + n /\ n \in Nat /\ Len(q) = IF 3 <= Len(p) THEN Len(p) - 3 + 1 ELSE 0
      BY <1>1, <1>3, Zenon
    <3> QED BY <3>1
  <2>2. DOMAIN q = 1..Len(q)
    BY <1>3, LenProperties
  <2> QED BY <2>1, <2>2
<1>5. ASSUME NEW i \in 1..n
      PROVE  q[i].name = r.body[i][1] /\ q[i].value = r.body[i][2]
  <2>1. i \in 1..(Len(p) - 3 + 1) /\ 3 + i - 1 = i + 2
    <3>1. Len(p) = 2 + n /\ n \in Nat
      BY <1>1
    <3> QED BY <3>1
  <2>2. q[i] = p[i + 2]
    <3>1. q[i] = p[3 + i - 1]
      BY <1>3, <2>1, Zenon
    <3> QED BY <2>1, <3>1, Zenon
  <2>3. r.body[i] = <<p[i + 2].name, p[i + 2].value>>
    BY <1>1
  <2> QED BY <2>2, <2>3
<1> QED BY <1>1, <1>4, <1>5 DEF n, p, q

\* If no value of a request is a name its route looks for, such a name is found where
\* it is the name of a field, with the value of the first one.
LEMMA PlainFields ==
    ASSUME NEW r \in Request, Plain(r), NEW f,
           f = Fields(SubSeq(Parts(r, 1), 3, Len(Parts(r, 1)))),
           NEW n \in Required(r.path) \cup Optional(r.path)
    PROVE  /\ n \in DOMAIN f <=> HasField(r, n)
           /\ HasField(r, n) => f[n] = Value(r, n)
<1>1. PICK body : body = SubSeq(Parts(r, 1), 3, Len(Parts(r, 1)))
  OBVIOUS
<1> DEFINE words == UNION {{body[i].name, body[i].value} : i \in DOMAIN body}
           places(x) == {i \in DOMAIN body : x \in {body[i].name, body[i].value}}
           at(x) == First(places(x))
           from(x) == IF body[at(x)].name = x THEN at(x) ELSE at(x) + 1
           named == {i \in 1..Len(r.body) : r.body[i][1] = n}
<1>2. f = [w \in {w \in words : from(w) \in DOMAIN body} |-> body[from(w)].value]
  BY <1>1 DEF Fields
<1>3. /\ DOMAIN body = 1..Len(r.body) /\ Len(r.body) \in Nat
      /\ \A i \in 1..Len(r.body) : body[i].name = r.body[i][1] /\ body[i].value = r.body[i][2]
  BY <1>1, BodyOfRequest
<1>4. \A i \in 1..Len(r.body) : body[i].value # n
  BY <1>3 DEF Plain
<1>5. places(n) = named
  BY <1>3, <1>4
<1>6. n \in words <=> HasField(r, n)
  BY <1>3, <1>4 DEF HasField
<1>7. ASSUME HasField(r, n)
      PROVE  n \in DOMAIN f /\ f[n] = Value(r, n)
  <2>1. named \in SUBSET Nat /\ named # {}
    BY <1>3, <1>7 DEF HasField
  <2>2. First(named) \in named
    <3> HIDE DEF named
    <3> QED BY <2>1, FirstIsLeast
  <2>3. at(n) = First(named)
    BY <1>5
  <2>4. at(n) \in 1..Len(r.body) /\ r.body[at(n)][1] = n
    <3> HIDE DEF at
    <3> QED BY <2>2, <2>3
  <2>5. Value(r, n) = r.body[at(n)][2]
    BY <2>3 DEF Value
  <2> HIDE DEF at
  <2>6. from(n) = at(n) /\ from(n) \in DOMAIN body /\ body[from(n)].value = r.body[at(n)][2]
    BY <1>3, <2>4
  <2> HIDE DEF from, words
  <2> QED BY <1>2, <1>6, <1>7, <2>5, <2>6
<1>8. n \in DOMAIN f => HasField(r, n)
  <2> HIDE DEF from, words
  <2> QED BY <1>2, <1>6
<1> QED BY <1>7, <1>8

\* What is on its way to a client that deserves one of ss.
OnTheWay(t, ss) == \/ t.step = "reply" /\ t.status \in ss
                   \/ t.step \in {"scan", "write", "search", "searching"} /\ "200" \in ss
                   \/ t.step = "ask" /\ Outcomes(t.path) \subseteq ss

\* A connection that has read nothing does nothing; one that has read its first
\* request whole has its answer, or it is on its way, if no value is taken for a name.
ServedAt(c) ==
    /\ whole[c] = "unread" => taken[c] = 0 /\ work[c].step = "idle" /\ sent[c] = <<>>
    /\ whole[c] = "whole" /\ Plain(script[c][1]) =>
          IF sent[c] = <<>> THEN OnTheWay(work[c], Deserved(script[c][1]))
          ELSE sent[c][1] \in Deserved(script[c][1])

ServedInv == /\ script \in Scripts /\ taken \in [Conns -> Nat]
             /\ whole = [c \in Conns |-> whole[c]]
             /\ \A c \in Conns : ServedAt(c)

\* The fields of a reply, and of what a callback begins with.
LEMMA ReplyFields ==
    ASSUME NEW status
    PROVE  Reply(status).step = "reply" /\ Reply(status).status = status
<1>1. PICK p : p = [Idle EXCEPT !.step = "reply"]
  OBVIOUS
<1>2. p = [step |-> "reply", path |-> "", fields |-> NoFields, slot |-> 0, status |-> "200"]
  BY <1>1 DEF Idle
<1>3. Reply(status) = [p EXCEPT !.status = status]
  BY <1>1 DEF Reply
<1>4. Reply(status) = [step |-> "reply", path |-> "", fields |-> NoFields, slot |-> 0,
                       status |-> status]
  BY <1>2, <1>3
<1>5. PICK r : r = Reply(status)
  OBVIOUS
<1>6. r = [step |-> "reply", path |-> "", fields |-> NoFields, slot |-> 0, status |-> status]
  BY <1>4, <1>5
<1>7. r.step = "reply" /\ r.status = status
  BY <1>6
<1> QED BY <1>5, <1>7
LEMMA BeginFields ==
    ASSUME NEW path, NEW f, NEW t, t = Task(path, f), t \notin Statuses
    PROVE  Begin(path, f).step = t /\ Begin(path, f).path = path
<1>1. PICK p : p = [Idle EXCEPT !.step = t]
  OBVIOUS
<1>2. p = [step |-> t, path |-> "", fields |-> NoFields, slot |-> 0, status |-> "200"]
  BY <1>1 DEF Idle
<1>3. PICK q : q = [p EXCEPT !.path = path]
  OBVIOUS
<1>4. q = [step |-> t, path |-> path, fields |-> NoFields, slot |-> 0, status |-> "200"]
  BY <1>2, <1>3
<1>5. Begin(path, f) = [q EXCEPT !.fields = Used(path, f)]
  BY <1>1, <1>3 DEF Begin
<1>6. Begin(path, f) = [step |-> t, path |-> path, fields |-> Used(path, f), slot |-> 0,
                        status |-> "200"]
  BY <1>4, <1>5
<1> QED BY <1>6

\* What a route makes of the fields it found is what it owes to the request: a refusal,
\* or the answer of a tool or of whom it asks.
LEMMA TaskDeserved ==
    ASSUME NEW r \in Request, Plain(r), NEW f,
           f = Fields(SubSeq(Parts(r, 1), 3, Len(Parts(r, 1))))
    PROVE  LET no == Refusal(r, f, r.large)
               k == Task(r.path, f)
           IN  IF no # {} THEN Deserved(r) = no
               ELSE IF k = "ask" THEN Deserved(r) = Outcomes(r.path)
               ELSE IF k \in {"scan", "search"} THEN "200" \in Deserved(r)
               ELSE k \in Statuses /\ k \in Deserved(r)
<1> DEFINE no == Refusal(r, f, r.large)
           k == Task(r.path, f)
           lacks == \E n \in Required(r.path) :
                       ~HasField(r, n) \/ (Value(r, n) = "" /\ r.path \notin Accounts)
           misses == \E n \in Required(r.path) :
                        n \notin DOMAIN f \/ (f[n] = "" /\ r.path \notin Accounts)
           asks == r.path \in {"/mcp/call", "/chat"} /\ HasField(r, "tool")
           tool == IF asks THEN Value(r, "tool") ELSE ""
           given == IF tool = "" THEN Outcomes(r.path)
                    ELSE IF tool \in Tools THEN {"200"} ELSE {"400"}
<1>1. \A n \in Required(r.path) \cup Optional(r.path) :
         /\ n \in DOMAIN f <=> HasField(r, n)
         /\ HasField(r, n) => f[n] = Value(r, n)
  BY PlainFields
<1>2. lacks <=> misses
  BY <1>1
<1>3. Deserved(r) = IF r.path \notin Posts \cup Gets \cup Pages THEN {"404"}
                    ELSE IF r.path \in Posts /\ r.method # "POST" THEN {"405"}
                    ELSE IF r.path \in Gets /\ r.method # "GET" THEN {"405"}
                    ELSE IF r.path \in Accounts /\ r.large THEN {"400"}
                    ELSE IF lacks THEN {"400"}
                    ELSE given
  BY DEF Deserved
<1>4. no = IF r.path \notin Posts \cup Gets \cup Pages THEN {"404"}
           ELSE IF (r.path \in Posts /\ r.method # "POST") \/ (r.path \in Gets /\ r.method # "GET")
           THEN {"405"}
           ELSE IF (r.large /\ r.path \in Accounts) \/ misses THEN {"400"} ELSE {}
  BY DEF Refusal
<1> HIDE DEF no, lacks, misses, given
<1>5. (no # {} => Deserved(r) = no) /\ (no = {} => Deserved(r) = given)
  BY <1>2, <1>3, <1>4
<1>6. asks <=> r.path \in {"/mcp/call", "/chat"} /\ "tool" \in DOMAIN f
  <2>1. r.path \in {"/mcp/call", "/chat"} => "tool" \in Required(r.path) \cup Optional(r.path)
    BY DEF Required, Optional
  <2> QED BY <1>1, <2>1
<1>7. asks => tool = f["tool"]
  <2>1. asks => "tool" \in Required(r.path) \cup Optional(r.path)
    BY DEF Required, Optional
  <2> QED BY <1>1, <2>1
<1>8. k = CASE r.path = "/rag/ingest" -> "scan"
            [] asks /\ tool # "" -> IF tool \notin Tools THEN "400"
                                    ELSE IF tool = "rag_search" THEN "search" ELSE "200"
            [] OTHER -> IF r.path \in {"/chat", "/auth/me"} \cup Accounts THEN "ask" ELSE "200"
  <2>1. /\ asks /\ tool # "" <=> r.path \in {"/mcp/call", "/chat"} /\ "tool" \in DOMAIN f /\ f["tool"] # ""
        /\ asks => tool = f["tool"]
    BY <1>6, <1>7
  <2> HIDE DEF asks, tool
  <2> QED BY <2>1 DEF Task
<1>9. asks => r.path # "/rag/ingest"
  OBVIOUS
<1>10. ~asks => tool = ""
  OBVIOUS
<1>11. "200" \in Outcomes(r.path)
  BY DEF Outcomes
<1> HIDE DEF asks, tool, k
<1>12. \/ k = "scan" /\ tool = ""
       \/ tool # "" /\ tool \notin Tools /\ k = "400"
       \/ tool # "" /\ tool \in Tools /\ k \in {"search", "200"}
       \/ tool = "" /\ k \in {"ask", "200"}
  <2>1. CASE r.path = "/rag/ingest"
    BY <1>8, <1>9, <1>10, <2>1
  <2>2. CASE r.path # "/rag/ingest" /\ asks /\ tool # ""
    BY <1>8, <2>2
  <2>3. CASE r.path # "/rag/ingest" /\ ~(asks /\ tool # "")
    BY <1>8, <1>10, <2>3
  <2> QED BY <2>1, <2>2, <2>3
<1>13. CASE no = {}
  <2>1. Deserved(r) = given
    BY <1>5, <1>13
  <2>2. k = "ask" => Deserved(r) = Outcomes(r.path)
    BY <1>12, <2>1 DEF given
  <2>3. k \in {"scan", "search"} => "200" \in Deserved(r)
    BY <1>11, <1>12, <2>1 DEF given
  <2>4. k \in {"200", "400"} => k \in Deserved(r)
    BY <1>11, <1>12, <2>1 DEF given
  <2>5. k \in {"scan", "search", "ask", "200", "400"} /\ {"200", "400"} \subseteq Statuses
    BY <1>12 DEF Statuses
  <2> QED BY <1>13, <2>2, <2>3, <2>4, <2>5 DEF no, k
<1> QED BY <1>5, <1>13 DEF no

\* What begins when a request was read whole leads to what it deserves.
LEMMA BeginsDeserved ==
    ASSUME NEW r \in Request, Plain(r), NEW f,
           f = Fields(SubSeq(Parts(r, 1), 3, Len(Parts(r, 1)))),
           NEW t, \/ \E status \in Refusal(r, f, r.large) : t = Reply(status)
                  \/ Refusal(r, f, r.large) = {} /\ t = Begin(r.path, f)
    PROVE  OnTheWay(t, Deserved(r))
<1> DEFINE no == Refusal(r, f, r.large)
           k == Task(r.path, f)
<1>1. IF no # {} THEN Deserved(r) = no
      ELSE IF k = "ask" THEN Deserved(r) = Outcomes(r.path)
      ELSE IF k \in {"scan", "search"} THEN "200" \in Deserved(r)
      ELSE k \in Statuses /\ k \in Deserved(r)
  BY TaskDeserved
<1>2. CASE \E status \in no : t = Reply(status)
  BY <1>1, <1>2, ReplyFields DEF OnTheWay
<1>3. CASE no = {} /\ t = Begin(r.path, f) /\ k \notin {"ask", "scan", "search"}
  <2>1. k \in Statuses /\ k \in Deserved(r)
    BY <1>1, <1>3
  <2>2. t = Reply(k)
    BY <1>3, <2>1 DEF Begin
  <2> QED BY <2>1, <2>2, ReplyFields DEF OnTheWay
<1>4. CASE no = {} /\ t = Begin(r.path, f) /\ k \in {"ask", "scan", "search"}
  <2>1. k \notin Statuses
    BY <1>4 DEF Statuses
  <2>2. t.step = k /\ t.path = r.path
    BY <1>4, <2>1, BeginFields
  <2> HIDE DEF no, k
  <2> QED BY <1>1, <1>4, <2>2 DEF OnTheWay
<1> QED BY <1>2, <1>3, <1>4

\* At the start nothing is read.
LEMMA ServedInit == Init => ServedInv
<1> SUFFICES ASSUME Init PROVE ServedInv
  OBVIOUS
<1>1. /\ script \in Scripts /\ taken = [c \in Conns |-> 0] /\ work = [c \in Conns |-> Idle]
      /\ sent = [c \in Conns |-> <<>>] /\ whole = [c \in Conns |-> "unread"]
  BY DEF Init
<1>2. \A c \in Conns : ServedAt(c)
  BY <1>1 DEF ServedAt, Idle
<1> QED BY <1>1, <1>2 DEF ServedInv

\* A step of one connection leaves the others' rows alone.
LEMMA ServedRow ==
    ASSUME ServedInv, NEW c \in Conns, script' = script, taken' \in [Conns -> Nat],
           whole' = [d \in Conns |-> whole'[d]], ServedAt(c)',
           \A d \in Conns : d # c => /\ taken'[d] = taken[d] /\ work'[d] = work[d]
                                     /\ sent'[d] = sent[d] /\ whole'[d] = whole[d]
    PROVE  ServedInv'
<1>1. ASSUME NEW d \in Conns, d # c
      PROVE  ServedAt(d)'
  <2>1. ServedAt(d)
    BY DEF ServedInv
  <2>2. taken'[d] = taken[d] /\ work'[d] = work[d] /\ sent'[d] = sent[d] /\ whole'[d] = whole[d]
    BY <1>1
  <2> QED BY <2>1, <2>2 DEF ServedAt
<1>2. \A d \in Conns : ServedAt(d)'
  BY <1>1
<1> QED BY <1>2 DEF ServedInv

\* A read: only the first one decides what the client is owed.
LEMMA ServedRead ==
    ASSUME DocsInv, ServedInv, NEW c \in Conns, NEW b, NEW t, Read(c, b), b \in Nat,
           work' = [work EXCEPT ![c] = t],
           whole[c] = "unread" /\ b >= 2 * Len(Parts(script[c][1], 1)) /\ Plain(script[c][1])
              => OnTheWay(t, Deserved(script[c][1]))
    PROVE  ServedInv'
<1> DEFINE long == b >= 2 * Len(Parts(script[c][1], 1))
           w == IF whole[c] # "unread" THEN whole[c] ELSE IF long THEN "whole" ELSE "cut"
<1>1. /\ work[c].step = "idle" /\ taken' = [taken EXCEPT ![c] = b]
      /\ whole' = [whole EXCEPT ![c] = w] /\ script' = script /\ sent' = sent
  BY DEF Read
<1>2. /\ work = [d \in Conns |-> work[d]] /\ whole = [d \in Conns |-> whole[d]]
      /\ taken \in [Conns -> Nat] /\ ServedAt(c)
  BY DEF DocsInv, ServedInv
<1>3. w # "unread"
  OBVIOUS
<1>4. w = "whole" => \/ whole[c] = "whole"
                     \/ whole[c] = "unread" /\ long
  OBVIOUS
<1> HIDE DEF w, long
<1>5. work'[c] = t /\ whole'[c] = w /\ sent'[c] = sent[c]
  BY <1>1, <1>2
<1>6. ServedAt(c)'
  <2>1. w # "unread"
    BY <1>3
  <2>2. CASE w = "whole" /\ whole[c] = "whole"
    <3>1. Plain(script[c][1]) => sent[c] # <<>> /\ sent[c][1] \in Deserved(script[c][1])
      BY <1>1, <1>2, <2>2 DEF ServedAt, OnTheWay
    <3> QED BY <1>1, <1>5, <2>1, <3>1 DEF ServedAt
  <2>3. CASE w = "whole" /\ whole[c] = "unread" /\ long
    <3>1. sent[c] = <<>>
      BY <1>2, <2>3 DEF ServedAt
    <3>2. Plain(script[c][1]) => OnTheWay(t, Deserved(script[c][1]))
      BY <2>3 DEF long
    <3> QED BY <1>1, <1>5, <2>1, <3>1, <3>2 DEF ServedAt
  <2>4. CASE w # "whole"
    BY <1>5, <2>1, <2>4 DEF ServedAt
  <2> QED BY <1>4, <2>2, <2>3, <2>4
<1>7. taken' \in [Conns -> Nat] /\ whole' = [d \in Conns |-> whole'[d]]
  BY <1>1, <1>2
<1>8. \A d \in Conns : d # c => /\ taken'[d] = taken[d] /\ work'[d] = work[d]
                                /\ sent'[d] = sent[d] /\ whole'[d] = whole[d]
  BY <1>1, <1>2
<1> QED BY <1>1, <1>6, <1>7, <1>8, ServedRow

\* A callback that goes on brings nothing the client does not deserve.
LEMMA ServedWork ==
    ASSUME DocsInv, ServedInv, NEW c \in Conns, NEW t, work' = [work EXCEPT ![c] = t],
           work[c].step # "idle", UNCHANGED <<script, taken, sent, whole>>,
           \A ss : OnTheWay(work[c], ss) => OnTheWay(t, ss)
    PROVE  ServedInv'
<1>1. work = [d \in Conns |-> work[d]] /\ ServedAt(c)
  BY DEF DocsInv, ServedInv
<1>2. work'[c] = t /\ \A d \in Conns : d # c => work'[d] = work[d]
  BY <1>1
<1>3. whole[c] # "unread"
  BY <1>1 DEF ServedAt
<1>4. ServedAt(c)'
  <2> DEFINE due == Deserved(script[c][1])
  <2>1. whole[c] = "whole" /\ Plain(script[c][1]) =>
           IF sent[c] = <<>> THEN OnTheWay(t, due) ELSE sent[c][1] \in due
    <3>1. whole[c] = "whole" /\ Plain(script[c][1]) =>
             IF sent[c] = <<>> THEN OnTheWay(work[c], due) ELSE sent[c][1] \in due
      BY <1>1 DEF ServedAt
    <3> HIDE DEF due
    <3> QED BY <3>1
  <2> QED BY <1>2, <1>3, <2>1 DEF ServedAt
<1>5. taken' \in [Conns -> Nat] /\ whole' = [d \in Conns |-> whole'[d]]
  BY DEF ServedInv
<1> QED BY <1>2, <1>4, <1>5, ServedRow

\* The answer a client gets is the one that was on its way.
LEMMA ServedRespond ==
    ASSUME DocsInv, AnswersInv, ServedInv, NEW c \in Conns, Respond(c)
    PROVE  ServedInv'
<1>1. /\ work[c].step = "reply" /\ work' = [work EXCEPT ![c] = Idle]
      /\ sent' = IF state[c] = "kConnected"
                 THEN [sent EXCEPT ![c] = Append(@, work[c].status)] ELSE sent
      /\ UNCHANGED <<script, taken, whole>>
  BY DEF Respond, Send
<1>2. /\ work = [d \in Conns |-> work[d]] /\ sent = [d \in Conns |-> sent[d]]
      /\ ServedAt(c) /\ (sent[c] = <<>> <=> state[c] = "kConnected")
  BY DEF DocsInv, ServedInv, AnswersInv, AnsweredOnce
<1>3. \A d \in Conns : d # c => work'[d] = work[d] /\ sent'[d] = sent[d]
  BY <1>1, <1>2
<1>4. whole[c] # "unread"
  BY <1>1, <1>2 DEF ServedAt
<1>5. whole[c] = "whole" /\ Plain(script[c][1]) =>
         sent'[c] # <<>> /\ sent'[c][1] \in Deserved(script[c][1])
  <2>1. CASE sent[c] = <<>>
    <3>1. PICK x : x = <<work[c].status>>
      OBVIOUS
    <3>2. x # <<>> /\ x[1] = work[c].status
      BY <3>1
    <3>3. Append(sent[c], work[c].status) = x
      BY <2>1, <3>1
    <3>4. sent'[c] = x
      BY <1>1, <1>2, <2>1, <3>3
    <3>5. whole[c] = "whole" /\ Plain(script[c][1]) => work[c].status \in Deserved(script[c][1])
      BY <1>1, <1>2, <2>1 DEF ServedAt, OnTheWay
    <3> QED BY <3>2, <3>4, <3>5
  <2>2. CASE sent[c] # <<>>
    BY <1>1, <1>2, <2>2 DEF ServedAt
  <2> QED BY <2>1, <2>2
<1>6. ServedAt(c)'
  BY <1>1, <1>4, <1>5 DEF ServedAt
<1>7. taken' \in [Conns -> Nat] /\ whole' = [d \in Conns |-> whole'[d]]
  BY <1>1 DEF ServedInv
<1> QED BY <1>1, <1>3, <1>6, <1>7, ServedRow

\* A message that is read first, and whole, begins what the client deserves.
LEMMA FirstIsServed ==
    ASSUME ServedInv, NEW c \in Conns, NEW b \in Nat, b > 0, b <= 2 * Len(Input(script[c])),
           DocsInv, OnMessage(c, b), whole[c] = "unread", b >= 2 * Len(Parts(script[c][1], 1)),
           Plain(script[c][1])
    PROVE  OnTheWay(work'[c], Deserved(script[c][1]))
<1> DEFINE s == script[c]
           q == SubSeq(Parts(s[1], 1), 3, Len(Parts(s[1], 1)))
<1>1. s \in Seq(Request) /\ taken[c] = 0
  BY RowOfRequests DEF ServedInv, ServedAt
<1>2. PICK ps : ps = WholeParts(s, 0, b)
  OBVIOUS
<1>3. ps[1].of = s[1] /\ s[1] \in Request /\ Body(ps) = q /\ Len(Body(ps)) = Len(s[1].body)
  BY <1>1, <1>2, FirstRead
<1>4. PICK r, f : r = s[1] /\ f = Fields(q)
  OBVIOUS
<1>5. \/ \E status \in Refusal(r, f, r.large) : work' = [work EXCEPT ![c] = Reply(status)]
      \/ Refusal(r, f, r.large) = {} /\ work' = [work EXCEPT ![c] = Begin(r.path, f)]
  <2>1. WholeParts(script[c], taken[c], b) = ps
    BY <1>1, <1>2
  <2>2. ps[1].of = r /\ Fields(Body(ps)) = f
    BY <1>3, <1>4
  <2> HIDE DEF q, s
  <2>3. \E large \in Sizes(r, Len(Body(ps))) :
           \/ \E status \in Refusal(r, f, large) : work' = [work EXCEPT ![c] = Reply(status)]
           \/ Refusal(r, f, large) = {} /\ work' = [work EXCEPT ![c] = Begin(r.path, f)]
    BY <2>1, <2>2, Zenon DEF OnMessage
  <2>4. Sizes(r, Len(Body(ps))) = {r.large}
    BY <1>3, <1>4 DEF Sizes
  <2> QED BY <2>3, <2>4
<1>6. \A u : work' = [work EXCEPT ![c] = u] => work'[c] = u
  <2>1. work = [d \in Conns |-> work[d]]
    BY DEF DocsInv
  <2> QED BY <2>1
<1>7. \/ \E status \in Refusal(r, f, r.large) : work'[c] = Reply(status)
      \/ Refusal(r, f, r.large) = {} /\ work'[c] = Begin(r.path, f)
  BY <1>5, <1>6
<1>8. r \in Request /\ Plain(r)
  BY <1>3, <1>4
<1> QED BY <1>4, <1>7, <1>8, BeginsDeserved

\* Every step leaves a client that sent its request whole with what it deserves.
LEMMA ServedStep == DocsInv /\ AnswersInv /\ ServedInv /\ [Next]_vars => ServedInv'
<1> SUFFICES ASSUME DocsInv, AnswersInv, ServedInv, [Next]_vars
             PROVE  ServedInv'
  OBVIOUS
<1>1. ASSUME NEW c \in Conns, NEW b \in (taken[c] + 1)..(2 * Len(Input(script[c])))
      PROVE  b \in Nat /\ b > 0 /\ b <= 2 * Len(Input(script[c]))
  <2>1. script[c] \in Seq(Request) /\ taken[c] \in Nat
    BY RowOfRequests DEF ServedInv
  <2>2. Len(Input(script[c])) \in Nat
    BY <2>1, InputParts
  <2> QED BY <2>1, <2>2
<1>2. ASSUME NEW c \in Conns, NEW b \in (taken[c] + 1)..(2 * Len(Input(script[c]))), OnGarbled(c, b)
      PROVE  ServedInv'
  <2>1. Read(c, b) /\ ~Parses(script[c], taken[c], b)
    BY <1>2 DEF OnGarbled
  <2>2. PICK t : work' = [work EXCEPT ![c] = t]
    BY <1>2 DEF OnGarbled
  <2>3. script[c] \in Seq(Request) /\ (whole[c] = "unread" => taken[c] = 0)
    BY RowOfRequests DEF ServedInv, ServedAt
  <2>4. ~(whole[c] = "unread" /\ b >= 2 * Len(Parts(script[c][1], 1)))
    BY <1>1, <2>1, <2>3, FirstRead
  <2> QED BY <1>1, <2>1, <2>2, <2>4, ServedRead
<1>3. ASSUME NEW c \in Conns, NEW b \in (taken[c] + 1)..(2 * Len(Input(script[c]))), OnMessage(c, b)
      PROVE  ServedInv'
  <2>1. Read(c, b)
    BY <1>3 DEF OnMessage
  <2>2. PICK t : work' = [work EXCEPT ![c] = t]
    BY <1>3 DEF OnMessage
  <2>3. work'[c] = t
    BY <2>2 DEF DocsInv
  <2>4. whole[c] = "unread" /\ b >= 2 * Len(Parts(script[c][1], 1)) /\ Plain(script[c][1])
           => OnTheWay(t, Deserved(script[c][1]))
    BY <1>1, <1>3, <2>3, FirstIsServed
  <2> QED BY <1>1, <2>1, <2>2, <2>4, ServedRead
<1>4. ASSUME NEW c \in Conns, Scan(c)
      PROVE  ServedInv'
  <2>1. /\ work[c].step = "scan" /\ UNCHANGED <<script, taken, sent, whole>>
        /\ \E i \in 0..Len(docs) : work' = [work EXCEPT ![c].step = "write", ![c].slot = i]
    BY <1>4 DEF Scan
  <2>2. PICK i : work' = [work EXCEPT ![c].step = "write", ![c].slot = i]
    BY <2>1
  <2>3. PICK t : t = [work[c] EXCEPT !.step = "write", !.slot = i]
    OBVIOUS
  <2>4. work' = [work EXCEPT ![c] = t]
    BY <2>2, <2>3 DEF DocsInv
  <2>5. t.step = "write"
    BY <2>3 DEF DocsInv, IsTask
  <2>6. \A ss : OnTheWay(work[c], ss) => OnTheWay(t, ss)
    BY <2>1, <2>5 DEF OnTheWay
  <2> QED BY <2>1, <2>4, <2>6, ServedWork
<1>5. ASSUME NEW c \in Conns, Write(c)
      PROVE  ServedInv'
  <2>1. /\ work[c].step = "write" /\ UNCHANGED <<script, taken, sent, whole>>
        /\ work' = [work EXCEPT ![c] = Reply("200")]
    BY <1>5 DEF Write
  <2>2. \A ss : OnTheWay(work[c], ss) => OnTheWay(Reply("200"), ss)
    BY <2>1, ReplyFields DEF OnTheWay
  <2> QED BY <2>1, <2>2, ServedWork
<1>6. ASSUME NEW c \in Conns, Search(c)
      PROVE  ServedInv'
  <2>1. PICK t : t = IF work[c].step = "search" THEN [work[c] EXCEPT !.step = "searching"]
                     ELSE Reply("200")
    OBVIOUS
  <2>2. /\ work[c].step \in {"search", "searching"} /\ UNCHANGED <<script, taken, sent, whole>>
        /\ work' = [work EXCEPT ![c] = t]
    BY <1>6, <2>1 DEF Search
  <2>3. t.step = "searching" \/ t = Reply("200")
    BY <2>1 DEF DocsInv, IsTask
  <2>4. \A ss : OnTheWay(work[c], ss) => OnTheWay(t, ss)
    BY <2>2, <2>3, ReplyFields DEF OnTheWay
  <2> QED BY <2>2, <2>4, ServedWork
<1>7. ASSUME NEW c \in Conns, Ask(c)
      PROVE  ServedInv'
  <2>1. work[c].step = "ask" /\ UNCHANGED <<script, taken, sent, whole>>
    BY <1>7 DEF Ask
  <2>2. PICK status \in Outcomes(work[c].path) : work' = [work EXCEPT ![c] = Reply(status)]
    BY <1>7 DEF Ask
  <2>3. \A ss : OnTheWay(work[c], ss) => OnTheWay(Reply(status), ss)
    BY <2>1, <2>2, ReplyFields DEF OnTheWay
  <2> QED BY <2>1, <2>2, <2>3, ServedWork
<1>8. ASSUME NEW c \in Conns, Respond(c)
      PROVE  ServedInv'
  BY <1>8, ServedRespond
<1>9. CASE UNCHANGED vars
  <2>1. UNCHANGED <<script, taken, work, sent, whole>>
    BY <1>9 DEF vars
  <2> QED BY <2>1 DEF ServedInv, ServedAt
<1> QED BY <1>2, <1>3, <1>4, <1>5, <1>6, <1>7, <1>8, <1>9 DEF Next, Step

\* A client whose first request arrives whole in one read gets an answer that its
\* route promises to that request (main.cc, the routes of onMessage), provided that
\* no value of the request is a name the route looks for (HttpCodec.cc:119 would
\* take it for one).
THEOREM WholeServed == Spec => []WholeIsServed
<1>1. ServedInv => WholeIsServed
  BY DEF ServedInv, ServedAt, WholeIsServed
<1>2. DocsInv /\ [Next]_vars => DocsInv'
  BY StepKeeps
<1>3. AnswersInv /\ [Next]_vars => AnswersInv'
  BY AnswersKept
<1> QED BY InitDocsInv, InitAnswersInv, ServedInit, ServedStep, <1>1, <1>2, <1>3, PTL DEF Spec

----------------------------------------------------------------------------
(* UserStore: the file *)

\* The file as the records of its lines.
FileOK(f) == f = [lines |-> f.lines, open |-> f.open] /\ f.lines \in Seq(Seq(Piece)) /\ f.open \in BOOLEAN

\* What an append makes of the lines: its piece goes to the last line, if that
\* was left open, or to one of its own.
LEMMA ExtendedLines ==
    ASSUME NEW f, FileOK(f), f.open => f.lines # <<>>, NEW p \in Piece
    PROVE  LET e == Extended(f, p)
           IN  /\ FileOK(e) /\ e.open /\ e.lines # <<>>
               /\ ~f.open => e.lines = Append(f.lines, <<p>>)
               /\ f.open => /\ Len(e.lines) = Len(f.lines)
                            /\ e.lines[Len(f.lines)] = Append(f.lines[Len(f.lines)], p)
               /\ Len(e.lines) >= Len(f.lines)
               /\ \A i \in 1..Len(f.lines) :
                     (f.open => i < Len(f.lines)) => e.lines[i] = f.lines[i]
<1>1. f.lines \in Seq(Seq(Piece)) /\ f.open \in BOOLEAN
  BY DEF FileOK
<1>2. CASE ~f.open
  <2>1. <<p>> \in Seq(Piece)
    OBVIOUS
  <2>2. Extended(f, p) = [lines |-> Append(f.lines, <<p>>), open |-> TRUE]
    BY <1>2 DEF Extended
  <2>3. PICK h : h = Append(f.lines, <<p>>)
    OBVIOUS
  <2>4. h \in Seq(Seq(Piece)) /\ Len(h) = Len(f.lines) + 1 /\ Len(f.lines) \in Nat
        /\ \A i \in 1..Len(f.lines) : h[i] = f.lines[i]
    BY <1>1, <2>1, <2>3
  <2>5. h # <<>>
    BY <2>4
  <2> QED BY <1>1, <1>2, <2>2, <2>3, <2>4, <2>5 DEF FileOK
<1>3. CASE f.open
  <2>1. Len(f.lines) \in DOMAIN f.lines
    BY <1>1, <1>3
  <2>2. f.lines[Len(f.lines)] \in Seq(Piece)
    BY <1>1, <2>1
  <2>3. PICK g : g = Append(f.lines[Len(f.lines)], p)
    OBVIOUS
  <2>4. g \in Seq(Piece)
    BY <2>2, <2>3
  <2>5. Extended(f, p) = [lines |-> [f.lines EXCEPT ![Len(f.lines)] = g], open |-> TRUE]
    BY <1>3, <2>3 DEF Extended
  <2>6. PICK h : h = [f.lines EXCEPT ![Len(f.lines)] = g]
    OBVIOUS
  <2>7. h \in Seq(Seq(Piece)) /\ Len(h) = Len(f.lines) /\ h[Len(f.lines)] = g
        /\ \A i \in 1..Len(f.lines) : i < Len(f.lines) => h[i] = f.lines[i]
    BY <1>1, <2>1, <2>4, <2>6
  <2>8. h # <<>>
    BY <2>1, <2>7
  <2> QED BY <1>1, <1>3, <2>3, <2>5, <2>6, <2>7, <2>8 DEF FileOK
<1> QED BY <1>1, <1>2, <1>3

LEMMA WholeIsPiece ==
    ASSUME NEW n \in Names, NEW pw \in Passwords
    PROVE  /\ WholePiece(n, pw) \in Piece
           /\ WholePiece(n, pw).name = n /\ WholePiece(n, pw).password = pw
           /\ WholePiece(n, pw).got = 4 /\ WholePiece(n, pw).cut = "name"
BY DEF WholePiece, Piece

\* An append that succeeds ends the line it has extended.
LEMMA AppendedLines ==
    ASSUME NEW f, FileOK(f), f.open => f.lines # <<>>, NEW n \in Names, NEW pw \in Passwords
    PROVE  /\ FileOK(Appended(f, n, pw)) /\ ~Appended(f, n, pw).open
           /\ Appended(f, n, pw).lines = Extended(f, WholePiece(n, pw)).lines
<1>1. PICK e : e = Extended(f, WholePiece(n, pw))
  OBVIOUS
<1>2. FileOK(e)
  BY <1>1, WholeIsPiece, ExtendedLines
<1> QED BY <1>1, <1>2 DEF FileOK, Appended

----------------------------------------------------------------------------
(* UserStore: reading the file *)

\* A field is read from a piece of the line, or not at all.
LEMMA ExtractsAPiece ==
    ASSUME NEW line \in Seq(Piece), NEW f \in Field, Extract(line, f) > 0
    PROVE  Extract(line, f) \in DOMAIN line
<1> DEFINE named == {i \in DOMAIN line : Named(line[i], f) \/ Mistaken(line[i], f)}
           i == First(named)
           from == IF Mistaken(line[i], f) THEN 2 ELSE f
           own == Colon(line[i], from)
           later == {j \in DOMAIN line : j > i /\ Colon(line[j], 1)}
           j == IF own THEN i ELSE First(later)
           g == IF own THEN from ELSE 1
<1>0. DOMAIN line \in SUBSET Nat
  OBVIOUS
<1>1. Extract(line, f) = IF named = {} \/ (~own /\ later = {}) THEN Fail
                         ELSE IF line[j].got >= g THEN IF g = f THEN j ELSE Garbled
                         ELSE IF line[j].cut = "string" /\ j < Len(line) THEN Garbled ELSE Fail
  BY DEF Extract
<1>2. named # {} => i \in DOMAIN line
  <2>1. named \in SUBSET DOMAIN line
    OBVIOUS
  <2> HIDE DEF named
  <2> QED BY <1>0, <2>1, FirstIsLeast
<1>3. later # {} => First(later) \in DOMAIN line
  <2>1. later \in SUBSET DOMAIN line
    OBVIOUS
  <2> HIDE DEF later
  <2> QED BY <1>0, <2>1, FirstIsLeast
<1>4. named # {} /\ (own \/ later # {}) => j \in DOMAIN line
  <2> HIDE DEF named, later, own, i
  <2> QED BY <1>2, <1>3
<1> HIDE DEF named, i, from, own, later, j, g
<1> QED BY <1>1, <1>4 DEF Fail, Garbled

\* A set of places up to a bound has a last one.
LEMMA LastIsGreatest ==
    ASSUME NEW L \in Nat, NEW S \in SUBSET (1..L), S # {}
    PROVE  \E i \in S : \A j \in S : j <= i
<1> DEFINE T == {L - i : i \in S}
<1>1. T \in SUBSET Nat /\ T # {}
  <2>1. \A i \in S : i \in 1..L
    OBVIOUS
  <2>2. \A i \in S : L - i \in Nat
    BY <2>1
  <2> QED BY <2>2
<1>2. First(T) \in T /\ \A j \in T : First(T) <= j
  <2> HIDE DEF T
  <2> QED BY <1>1, FirstIsLeast
<1>3. PICK i \in S : First(T) = L - i
  BY <1>2
<1>4. \A j \in S : L - i <= L - j
  BY <1>2, <1>3
<1> QED BY <1>4

\* A record that went to a line of its own is read as it was written, unless its
\* name is taken for that of a field.
LEMMA WholeExtracts ==
    ASSUME NEW n \in Names, NEW pw \in Passwords, NEW f \in Field
    PROVE  Extract(<<WholePiece(n, pw)>>, f) = IF f = 3 /\ n \in Reserved THEN Garbled ELSE 1
<1> DEFINE line == <<WholePiece(n, pw)>>
           named == {i \in DOMAIN line : Named(line[i], f) \/ Mistaken(line[i], f)}
           i == First(named)
           from == IF Mistaken(line[i], f) THEN 2 ELSE f
           own == Colon(line[i], from)
           later == {j \in DOMAIN line : j > i /\ Colon(line[j], 1)}
           j == IF own THEN i ELSE First(later)
           g == IF own THEN from ELSE 1
<1>1. Extract(line, f) = IF named = {} \/ (~own /\ later = {}) THEN Fail
                         ELSE IF line[j].got >= g THEN IF g = f THEN j ELSE Garbled
                         ELSE IF line[j].cut = "string" /\ j < Len(line) THEN Garbled ELSE Fail
  BY DEF Extract
<1>2. DOMAIN line = {1} /\ line[1] = WholePiece(n, pw)
  OBVIOUS
<1>3. f \in 1..4 /\ Named(WholePiece(n, pw), f)
  BY WholeIsPiece DEF Field, Named
<1>4. named = {1}
  <2> HIDE DEF line
  <2> QED BY <1>2, <1>3
<1>5. i = 1
  <2> HIDE DEF named
  <2>1. First(named) \in named
    BY <1>4, FirstIsLeast
  <2> QED BY <1>4, <2>1
<1>6. Mistaken(line[i], f) <=> f = 3 /\ n \in Reserved
  <2>1. Mistaken(WholePiece(n, pw), f) <=> f = 3 /\ n \in Reserved
    BY WholeIsPiece DEF Mistaken
  <2> HIDE DEF line, i
  <2> QED BY <1>2, <1>5, <2>1
<1>7. from \in 1..4 /\ (from = f <=> ~(f = 3 /\ n \in Reserved))
  <2> HIDE DEF line, i
  <2> QED BY <1>3, <1>6
<1>8. own
  <2>1. Colon(WholePiece(n, pw), from)
    <3> HIDE DEF from
    <3> QED BY <1>7, WholeIsPiece DEF Colon
  <2> HIDE DEF line, i, from
  <2> QED BY <1>2, <1>5, <2>1
<1>9. j = 1 /\ g = from
  <2> HIDE DEF own, i, later, from
  <2> QED BY <1>5, <1>8
<1>10. line[j].got >= g
  <2>1. WholePiece(n, pw).got >= from
    <3> HIDE DEF from
    <3> QED BY <1>7, WholeIsPiece
  <2> HIDE DEF line, j, g, from
  <2> QED BY <1>2, <1>9, <2>1
<1>11. Extract(line, f) = IF from = f THEN 1 ELSE Garbled
  <2> HIDE DEF line, named, i, from, own, later, j, g
  <2> QED BY <1>1, <1>4, <1>8, <1>9, <1>10
<1> HIDE DEF from
<1> QED BY <1>7, <1>11

\* So such a line parses, is the user's and nobody else's, and has his password.
LEMMA WholeReads ==
    ASSUME NEW n \in Names, NEW pw \in Passwords
    PROVE  LET line == <<WholePiece(n, pw)>>
           IN  /\ LineParses(line)
               /\ \A m : IsOf(line, m) <=> m = n
               /\ PasswordOf(line) = IF n \in Reserved THEN Locked ELSE pw
<1> DEFINE line == <<WholePiece(n, pw)>>
<1>1. \A f \in Field : Extract(line, f) = IF f = 3 /\ n \in Reserved THEN Garbled ELSE 1
  BY WholeExtracts
<1>2. line[1].name = n /\ line[1].password = pw
  BY WholeIsPiece
<1>3. 1 \in Field /\ 3 \in Field /\ 4 \in Field
  BY DEF Field
<1> HIDE DEF line
<1>4. Extract(line, 1) = 1 /\ Extract(line, 4) = 1
      /\ Extract(line, 3) = IF n \in Reserved THEN Garbled ELSE 1
  BY <1>1, <1>3
<1>5. LineParses(line)
  BY <1>1 DEF LineParses, Garbled, Fail
<1>6. \A m : IsOf(line, m) <=> m = n
  BY <1>2, <1>4 DEF IsOf
<1>7. PasswordOf(line) = IF n \in Reserved THEN Locked ELSE pw
  BY <1>2, <1>4 DEF PasswordOf, Garbled
<1> QED BY <1>5, <1>6, <1>7 DEF line

\* A password is found, or none that opens the account; a name that is found is
\* that of a piece.
LEMMA ReadsAUser ==
    ASSUME NEW line \in Seq(Piece)
    PROVE  /\ PasswordOf(line) \in Passwords \cup {Locked}
           /\ \A n : IsOf(line, n) => \E i \in DOMAIN line : line[i].name = n
<1>1. 1 \in Field /\ 3 \in Field
  BY DEF Field
<1>2. PasswordOf(line) \in Passwords \cup {Locked}
  <2>1. Extract(line, 3) > 0 => Extract(line, 3) \in DOMAIN line
    BY <1>1, ExtractsAPiece
  <2>2. \A i \in DOMAIN line : line[i].password \in Passwords
    <3>1. \A i \in DOMAIN line : line[i] \in Piece
      OBVIOUS
    <3>2. \A p \in Piece : p.password \in Passwords
      BY DEF Piece
    <3> QED BY <3>1, <3>2
  <2> QED BY <2>1, <2>2 DEF PasswordOf
<1>3. \A n : IsOf(line, n) => \E i \in DOMAIN line : line[i].name = n
  BY <1>1, ExtractsAPiece DEF IsOf
<1> QED BY <1>2, <1>3

\* The lines read, and among them those of a user.
ReadIn(lines) == {i \in DOMAIN lines : \A j \in 1..i : LineParses(lines[j])}
LinesOf(lines, n) == {i \in ReadIn(lines) : IsOf(lines[i], n)}

LEMMA LoadedUsers ==
    ASSUME NEW lines \in Seq(Seq(Piece))
    PROVE  /\ Loaded(lines) \in [Names -> Passwords \cup {NoUser, Locked}]
           /\ \A n \in Names :
                 /\ Loaded(lines)[n] = NoUser <=> LinesOf(lines, n) = {}
                 /\ \A i \in LinesOf(lines, n) : (\A j \in LinesOf(lines, n) : j <= i) =>
                       Loaded(lines)[n] = PasswordOf(lines[i])
<1> DEFINE last(n) == CHOOSE i \in LinesOf(lines, n) : \A j \in LinesOf(lines, n) : j <= i
<1>1. Loaded(lines) = [n \in Names |-> IF LinesOf(lines, n) = {} THEN NoUser
                                      ELSE PasswordOf(lines[last(n)])]
  BY DEF Loaded, LinesOf, ReadIn
<1>2. Len(lines) \in Nat /\ DOMAIN lines = 1..Len(lines)
  OBVIOUS
<1>3. ASSUME NEW n \in Names
      PROVE  /\ LinesOf(lines, n) \in SUBSET (1..Len(lines))
             /\ LinesOf(lines, n) # {} =>
                   /\ last(n) \in LinesOf(lines, n)
                   /\ \A j \in LinesOf(lines, n) : j <= last(n)
                   /\ PasswordOf(lines[last(n)]) \in Passwords \cup {Locked}
  <2>1. LinesOf(lines, n) \in SUBSET (1..Len(lines))
    BY <1>2 DEF LinesOf, ReadIn
  <2>2. LinesOf(lines, n) # {} => \E i \in LinesOf(lines, n) : \A j \in LinesOf(lines, n) : j <= i
    BY <1>2, <2>1, LastIsGreatest
  <2>3. LinesOf(lines, n) # {} => /\ last(n) \in LinesOf(lines, n)
                                  /\ \A j \in LinesOf(lines, n) : j <= last(n)
    BY <2>2
  <2>4. \A i \in 1..Len(lines) : lines[i] \in Seq(Piece)
    BY <1>2
  <2> HIDE DEF last
  <2> QED BY <2>1, <2>3, <2>4, ReadsAUser
<1> HIDE DEF last
<1>4. NoUser \notin Passwords \cup {Locked}
  BY CredentialAssumption
<1>5. Loaded(lines) \in [Names -> Passwords \cup {NoUser, Locked}]
  BY <1>1, <1>3
<1>6. \A n \in Names : Loaded(lines)[n] = NoUser <=> LinesOf(lines, n) = {}
  BY <1>1, <1>3, <1>4
<1>7. ASSUME NEW n \in Names, NEW i \in LinesOf(lines, n), \A j \in LinesOf(lines, n) : j <= i
      PROVE  Loaded(lines)[n] = PasswordOf(lines[i])
  <2>1. last(n) = i
    BY <1>3, <1>7
  <2> QED BY <1>1, <2>1
<1> QED BY <1>5, <1>6, <1>7

----------------------------------------------------------------------------
(* UserStore: types *)

\* A file is only left open by a piece in it; the wall clock is at most set back.
StoreTypeInv == StoreTypeOK /\ (file.open => file.lines # <<>>) /\ wall <= now

\* Forgetting old attempts leaves times, and no more than there were.
LEMMA KeptTimes ==
    ASSUME StoreTypeOK, NEW c \in Clients
    PROVE  Kept(c) \in Seq(0..MaxTime) /\ Len(Kept(c)) <= Len(attempts[c])
<1> DEFINE ix == {i \in DOMAIN attempts[c] : attempts[c][i] >= now - Minute}
<1>1. attempts[c] \in Seq(0..MaxTime)
  BY DEF StoreTypeOK
<1>2. Len(attempts[c]) \in Nat /\ DOMAIN attempts[c] = 1..Len(attempts[c])
  BY <1>1
<1>3. ix \in SUBSET DOMAIN attempts[c]
  OBVIOUS
<1>4. Cardinality(ix) <= Len(attempts[c])
  <2>1. IsFiniteSet(1..Len(attempts[c])) /\ Cardinality(1..Len(attempts[c])) = Len(attempts[c])
    BY <1>2, FS_Interval
  <2> HIDE DEF ix
  <2> QED BY <1>2, <1>3, <2>1, FS_Subset
<1>5. Kept(c) = Picked(attempts[c], ix)
  BY DEF Kept
<1> HIDE DEF ix
<1> QED BY <1>1, <1>3, <1>4, <1>5, PickedByRank

\* Counting an attempt that was let through keeps within the limit.
LEMMA CountAttemptTypes ==
    ASSUME StoreTypeOK, NEW c \in Clients, ~Limited(c), CountAttempt(c)
    PROVE  /\ attempts' \in [Clients -> Seq(0..MaxTime)]
           /\ \A d \in Clients : Len(attempts'[d]) <= Limit
           /\ granted' \in Seq([client : Clients, at : 0..MaxTime])
<1>1. Kept(c) \in Seq(0..MaxTime) /\ now \in 0..MaxTime
  BY KeptTimes DEF StoreTypeOK
<1>2. PICK s : s = Append(Kept(c), now)
  OBVIOUS
<1>3. Len(Kept(c)) \in Nat /\ Len(Kept(c)) < Limit
  BY <1>1, LimitAssumption DEF Limited
<1>4. s \in Seq(0..MaxTime) /\ Len(s) <= Limit
  BY <1>1, <1>2, <1>3, LimitAssumption
<1>5. attempts' = [attempts EXCEPT ![c] = s]
  BY <1>2 DEF CountAttempt
<1>6. [client |-> c, at |-> now] \in [client : Clients, at : 0..MaxTime]
  BY <1>1
<1>7. attempts' \in [Clients -> Seq(0..MaxTime)] /\ \A d \in Clients : Len(attempts'[d]) <= Limit
  BY <1>4, <1>5 DEF StoreTypeOK
<1>8. granted' = Append(granted, [client |-> c, at |-> now])
  BY DEF CountAttempt
<1>9. granted' \in Seq([client : Clients, at : 0..MaxTime])
  <2> DEFINE G == [client : Clients, at : 0..MaxTime]
  <2>1. granted \in Seq(G)
    BY DEF StoreTypeOK
  <2>2. PICK g : g = [client |-> c, at |-> now]
    OBVIOUS
  <2>3. g \in G
    BY <1>6, <2>2
  <2>4. granted' = Append(granted, g)
    BY <1>8, <2>2
  <2> HIDE DEF G
  <2>5. Append(granted, g) \in Seq(G)
    BY <2>1, <2>3
  <2> QED BY <2>4, <2>5 DEF G
<1> QED BY <1>7, <1>9

LEMMA FileTypes ==
    ASSUME StoreTypeInv
    PROVE  FileOK(file) /\ (file.open => file.lines # <<>>)
BY DEF StoreTypeInv, StoreTypeOK, FileOK

LEMMA OKIsType ==
    ASSUME NEW f, FileOK(f)
    PROVE  f \in [lines : Seq(Seq(Piece)), open : BOOLEAN]
<1>1. f.lines \in Seq(Seq(Piece)) /\ f.open \in BOOLEAN /\ f = [lines |-> f.lines, open |-> f.open]
  BY DEF FileOK
<1>2. \A l \in Seq(Seq(Piece)) : \A o \in BOOLEAN :
         [lines |-> l, open |-> o] \in [lines : Seq(Seq(Piece)), open : BOOLEAN]
  OBVIOUS
<1> QED BY <1>1, <1>2

\* What is left in memory when the process is gone.
LEMMA StopTypes ==
    ASSUME StoreTypeOK, Stop
    PROVE  /\ up' \in BOOLEAN /\ users' \in [Names -> Passwords \cup {NoUser, Locked}]
           /\ attempts' \in [Clients -> Seq(0..MaxTime)]
           /\ \A d \in Clients : Len(attempts'[d]) <= Limit
           /\ sessions' \in SUBSET DOMAIN issued' /\ accepted' \in 0..MaxTokens
           /\ granted' \in Seq([client : Clients, at : 0..MaxTime])
<1>1. 0 \in 0..MaxTokens
  BY StoreBounds
<1>2. \A d \in Clients : attempts'[d] = <<>>
  BY DEF Stop
<1>3. \A d \in Clients : Len(attempts'[d]) <= Limit
  BY <1>2, LimitAssumption
<1>4. attempts' \in [Clients -> Seq(0..MaxTime)]
  BY DEF Stop
<1>5. granted' = <<>> /\ sessions' = {} /\ accepted' = 0
  BY DEF Stop
<1>6. granted' \in Seq([client : Clients, at : 0..MaxTime])
  BY <1>5
<1>7. users' \in [Names -> Passwords \cup {NoUser, Locked}] /\ up' \in BOOLEAN
  BY DEF Stop
<1> QED BY <1>1, <1>3, <1>4, <1>5, <1>6, <1>7

LEMMA StoreTypesInit == StoreInit => StoreTypeInv
<1> SUFFICES ASSUME StoreInit PROVE StoreTypeInv
  OBVIOUS
<1>1. FileOK(file) /\ ~file.open
  BY DEF StoreInit, FileOK
<1>2. file \in [lines : Seq(Seq(Piece)), open : BOOLEAN]
  BY <1>1, OKIsType
<1>3. 0 \in 0..MaxTime /\ 0 \in 0..MaxTokens
  BY StoreBounds
<1>4. \A c \in Clients : Len(attempts[c]) <= Limit
  BY LimitAssumption DEF StoreInit
<1>5. issued = <<>> /\ granted = <<>> /\ sessions = {} /\ refused = {}
  BY DEF StoreInit
<1>6. /\ issued \in Seq([name : Names, expires : Nat])
      /\ granted \in Seq([client : Clients, at : 0..MaxTime])
      /\ sessions \in SUBSET DOMAIN issued /\ refused \in SUBSET Token
  BY <1>5
<1>7. /\ users \in [Names -> Passwords \cup {NoUser, Locked}]
      /\ confirmed \in [Names -> Passwords \cup {NoUser}]
      /\ attempts \in [Clients -> Seq(0..MaxTime)]
  BY DEF StoreInit
<1>8. up \in BOOLEAN /\ damaged \in BOOLEAN
  BY DEF StoreInit
<1>9. now \in 0..MaxTime /\ wall \in 0..MaxTime /\ accepted \in 0..MaxTokens /\ wall <= now
  BY <1>3 DEF StoreInit
<1> QED BY <1>1, <1>2, <1>4, <1>6, <1>7, <1>8, <1>9 DEF StoreTypeInv, StoreTypeOK

\* The wall clock and the types are kept by every step.
LEMMA StoreTypesStep == StoreTypeInv /\ [StoreNext]_storeVars => StoreTypeInv'
<1> SUFFICES ASSUME StoreTypeInv, [StoreNext]_storeVars
             PROVE  StoreTypeInv'
  OBVIOUS
<1> USE StoreBounds DEF disk, clocks, auth
<1>0. StoreTypeOK
  BY DEF StoreTypeInv
<1>1. ASSUME NEW c \in Clients, RefuseLimited(c)
      PROVE  StoreTypeInv'
  <2>1. Kept(c) \in Seq(0..MaxTime) /\ Len(Kept(c)) <= Len(attempts[c])
    BY <1>0, KeptTimes
  <2>2. attempts' = [attempts EXCEPT ![c] = Kept(c)]
    BY <1>1 DEF RefuseLimited
  <2>3. Len(Kept(c)) <= Limit
    BY <1>0, <2>1, LimitAssumption DEF StoreTypeOK
  <2>4. attempts' \in [Clients -> Seq(0..MaxTime)] /\ \A d \in Clients : Len(attempts'[d]) <= Limit
    BY <1>0, <2>1, <2>2, <2>3 DEF StoreTypeOK
  <2> QED BY <1>1, <2>4 DEF RefuseLimited, StoreTypeInv, StoreTypeOK
<1>2. ASSUME NEW c \in Clients, Refuse(c)
      PROVE  StoreTypeInv'
  <2>1. /\ attempts' \in [Clients -> Seq(0..MaxTime)]
        /\ \A d \in Clients : Len(attempts'[d]) <= Limit
        /\ granted' \in Seq([client : Clients, at : 0..MaxTime])
    BY <1>0, <1>2, CountAttemptTypes DEF Refuse
  <2> QED BY <1>2, <2>1 DEF Refuse, StoreTypeInv, StoreTypeOK
<1>3. ASSUME NEW c \in Clients, NEW n \in Names, NEW pw \in Passwords, Register(c, n, pw)
      PROVE  StoreTypeInv'
  <2>1. /\ attempts' \in [Clients -> Seq(0..MaxTime)]
        /\ \A d \in Clients : Len(attempts'[d]) <= Limit
        /\ granted' \in Seq([client : Clients, at : 0..MaxTime])
    BY <1>0, <1>3, CountAttemptTypes DEF Register, Admitted
  <2>2. FileOK(file') /\ ~file'.open
    BY <1>3, FileTypes, AppendedLines DEF Register
  <2>3. file' \in [lines : Seq(Seq(Piece)), open : BOOLEAN]
    BY <2>2, OKIsType
  <2>4. users' \in [Names -> Passwords \cup {NoUser, Locked}]
        /\ confirmed' \in [Names -> Passwords \cup {NoUser}]
    BY <1>0, <1>3 DEF Register, StoreTypeOK
  <2> QED BY <1>3, <2>1, <2>2, <2>3, <2>4 DEF Register, StoreTypeInv, StoreTypeOK
<1>4. ASSUME NEW c \in Clients, NEW n \in Names, NEW pw \in Passwords, RegisterFails(c, n, pw)
      PROVE  StoreTypeInv'
  <2>1. /\ attempts' \in [Clients -> Seq(0..MaxTime)]
        /\ \A d \in Clients : Len(attempts'[d]) <= Limit
        /\ granted' \in Seq([client : Clients, at : 0..MaxTime])
    BY <1>0, <1>4, CountAttemptTypes DEF RegisterFails, Admitted
  <2>2. FileOK(file') /\ (file'.open => file'.lines # <<>>) /\ damaged' \in BOOLEAN
    <3>1. CASE UNCHANGED disk
      BY <1>0, <3>1, FileTypes DEF StoreTypeOK
    <3>2. CASE (\E p \in TornPieces(n, pw) : file' = Extended(file, p)) /\ damaged' = TRUE
      <4>1. PICK p \in Piece : file' = Extended(file, p)
        BY <3>2 DEF TornPieces
      <4> QED BY <3>2, <4>1, FileTypes, ExtendedLines
    <3>3. CASE file' = Appended(file, n, pw) /\ damaged' = TRUE
      BY <3>3, FileTypes, AppendedLines
    <3> QED BY <1>4, <3>1, <3>2, <3>3 DEF RegisterFails
  <2>3. file' \in [lines : Seq(Seq(Piece)), open : BOOLEAN]
    BY <2>2, OKIsType
  <2> QED BY <1>4, <2>1, <2>2, <2>3 DEF RegisterFails, StoreTypeInv, StoreTypeOK
<1>5. ASSUME NEW c \in Clients, NEW n \in Names, NEW pw \in Passwords, CrashInRegister(c, n, pw)
      PROVE  StoreTypeInv'
  <2>1. FileOK(file') /\ ~file'.open
    BY <1>5, FileTypes, AppendedLines DEF CrashInRegister
  <2>2. file' \in [lines : Seq(Seq(Piece)), open : BOOLEAN]
    BY <2>1, OKIsType
  <2>3. Stop /\ UNCHANGED damaged
    BY <1>5 DEF CrashInRegister
  <2>4. UNCHANGED <<now, wall, issued, refused, confirmed>>
    BY <2>3 DEF Stop
  <2> QED BY <1>0, <2>1, <2>2, <2>3, <2>4, StopTypes DEF StoreTypeInv, StoreTypeOK
<1>6. ASSUME NEW n \in Names, NEW pw \in Passwords, Login(n, pw)
      PROVE  StoreTypeInv'
  <2>1. [name |-> n, expires |-> wall + Ttl] \in [name : Names, expires : Nat]
    BY <1>0, LimitAssumption DEF StoreTypeOK
  <2>2. Len(issued) \in Nat /\ DOMAIN issued = 1..Len(issued)
    BY <1>0 DEF StoreTypeOK
  <2>3. issued' \in Seq([name : Names, expires : Nat]) /\ DOMAIN issued' = 1..(Len(issued) + 1)
    BY <1>0, <1>6, <2>1 DEF Login, StoreTypeOK
  <2>4. sessions' \in SUBSET DOMAIN issued'
    BY <1>0, <1>6, <2>2, <2>3 DEF Login, StoreTypeOK
  <2> QED BY <1>6, <2>3, <2>4 DEF Login, StoreTypeInv, StoreTypeOK
<1>7. ASSUME NEW t \in Token, Authenticate(t)
      PROVE  StoreTypeInv'
  <2>1. sessions' \in SUBSET DOMAIN issued /\ refused' \in SUBSET Token
    BY <1>0, <1>7 DEF Authenticate, StoreTypeOK
  <2>2. accepted' \in 0..MaxTokens
    BY <1>7 DEF Authenticate, Token
  <2> QED BY <1>7, <2>1, <2>2 DEF Authenticate, StoreTypeInv, StoreTypeOK
<1>8. CASE Tick
  BY <1>8 DEF Tick, StoreTypeInv, StoreTypeOK
<1>9. CASE SetBack
  BY <1>9 DEF SetBack, StoreTypeInv, StoreTypeOK
<1>10. CASE Crash
  <2>1. Stop /\ UNCHANGED <<file, damaged>>
    BY <1>10 DEF Crash
  <2>2. UNCHANGED <<now, wall, issued, refused, confirmed>>
    BY <2>1 DEF Stop
  <2> QED BY <1>0, <2>1, <2>2, StopTypes DEF StoreTypeInv, StoreTypeOK
<1>11. CASE Restart
  <2>1. users' \in [Names -> Passwords \cup {NoUser, Locked}]
    BY <1>0, <1>11, FileTypes, LoadedUsers DEF Restart, FileOK
  <2> QED BY <1>11, <2>1 DEF Restart, StoreTypeInv, StoreTypeOK
<1>12. CASE UNCHANGED storeVars
  BY <1>12 DEF storeVars, StoreTypeInv, StoreTypeOK
<1> QED BY <1>1, <1>2, <1>3, <1>4, <1>5, <1>6, <1>7, <1>8, <1>9, <1>10, <1>11, <1>12
    DEF StoreNext

----------------------------------------------------------------------------
(* UserStore: sessions *)

\* A token that was refused is out of the map and was issued before: a new one is
\* never one of them.
TokenInv == /\ refused \in SUBSET DOMAIN issued
            /\ sessions \cap refused = {}
            /\ SessionsEnd

LEMMA TokensStep == StoreTypeInv /\ TokenInv /\ [StoreNext]_storeVars => TokenInv'
<1> SUFFICES ASSUME StoreTypeInv, TokenInv, [StoreNext]_storeVars
             PROVE  TokenInv'
  OBVIOUS
<1> USE DEF disk, clocks, auth, TokenInv, SessionsEnd
<1>1. ASSUME UNCHANGED <<sessions, issued, refused>>, accepted' = 0
      PROVE  TokenInv'
  BY <1>1
<1>2. ASSUME NEW n \in Names, NEW pw \in Passwords, Login(n, pw)
      PROVE  TokenInv'
  <2>1. Len(issued) \in Nat /\ DOMAIN issued = 1..Len(issued)
    BY DEF StoreTypeInv, StoreTypeOK
  <2>2. issued' = Append(issued, [name |-> n, expires |-> wall + Ttl])
    BY <1>2 DEF Login
  <2>3. DOMAIN issued' = 1..(Len(issued) + 1)
    <3>1. issued \in Seq([name : Names, expires : Nat])
      BY DEF StoreTypeInv, StoreTypeOK
    <3> QED BY <2>2, <3>1
  <2>4. sessions' = sessions \cup {Len(issued) + 1} /\ refused' = refused /\ accepted' = 0
    BY <1>2 DEF Login
  <2>5. Len(issued) + 1 \notin refused
    BY <2>1
  <2> QED BY <2>1, <2>3, <2>4, <2>5
<1>3. ASSUME NEW t \in Token, Authenticate(t)
      PROVE  TokenInv'
  <2>1. sessions \in SUBSET DOMAIN issued /\ t \in sessions /\ UNCHANGED <<wall, issued>>
    BY <1>3 DEF Authenticate, StoreTypeInv, StoreTypeOK
  <2>2. CASE wall >= issued[t].expires
    <3>1. sessions' = sessions \ {t} /\ refused' = refused \cup {t} /\ accepted' = 0
      BY <1>3, <2>2 DEF Authenticate
    <3> QED BY <2>1, <3>1
  <2>3. CASE ~(wall >= issued[t].expires)
    <3>1. accepted' = t /\ UNCHANGED <<sessions, refused>>
      BY <1>3, <2>3 DEF Authenticate
    <3>2. wall \in Int /\ issued[t].expires \in Int
      <4> DEFINE R == [name : Names, expires : Nat]
      <4>1. issued \in Seq(R)
        BY DEF StoreTypeInv, StoreTypeOK
      <4>2. \A r \in R : r.expires \in Nat
        OBVIOUS
      <4>3. issued[t] \in R
        <5> HIDE DEF R
        <5> QED BY <2>1, <4>1
      <4> HIDE DEF R
      <4> QED BY <4>2, <4>3, StoreBounds DEF StoreTypeInv, StoreTypeOK
    <3>3. wall < issued[t].expires
      BY <2>3, <3>2
    <3>4. t \notin refused
      BY <2>1
    <3> QED BY <2>1, <3>1, <3>3, <3>4
  <2> QED BY <2>2, <2>3
<1>4. ASSUME NEW c \in Clients,
             \/ RefuseLimited(c) \/ Refuse(c)
             \/ \E n \in Names, pw \in Passwords : Register(c, n, pw) \/ RegisterFails(c, n, pw)
      PROVE  TokenInv'
  BY <1>1, <1>4 DEF RefuseLimited, Refuse, Register, RegisterFails
<1>5. ASSUME Stop
      PROVE  TokenInv'
  BY <1>5 DEF Stop
<1>6. ASSUME Tick \/ SetBack \/ Restart
      PROVE  TokenInv'
  BY <1>1, <1>6 DEF Tick, SetBack, Restart
<1>7. CASE UNCHANGED storeVars
  BY <1>7 DEF storeVars
<1> QED BY <1>2, <1>3, <1>4, <1>5, <1>6, <1>7 DEF StoreNext, CrashInRegister, Crash

----------------------------------------------------------------------------
(* UserStore: the rate limit *)

\* The places of the times of s not before from, and the registrations of c let
\* through not before from, or within the minute that begins there.
NotBefore(s, from) == {j \in DOMAIN s : s[j] >= from}
GrantedSince(c, from) == {i \in DOMAIN granted : granted[i].client = c /\ granted[i].at >= from}
GrantedIn(c, from) == {i \in DOMAIN granted : /\ granted[i].client = c
                                              /\ granted[i].at \in from..(from + Minute)}

\* What was let through within the last minute is still counted: this, and not the
\* count alone, is kept while attempts are forgotten and made.
RateInv == /\ \A c \in Clients : \A from \in Int : from >= now - Minute =>
                 Cardinality(GrantedSince(c, from)) <= Cardinality(NotBefore(attempts[c], from))
           /\ \A i \in DOMAIN granted : granted[i].at <= now
           /\ RateLimited

\* Forgetting attempts more than a minute old forgets none of the last minute.
LEMMA KeptCounts ==
    ASSUME StoreTypeOK, NEW c \in Clients, NEW from \in Int, from >= now - Minute
    PROVE  Cardinality(NotBefore(attempts[c], from)) <= Cardinality(NotBefore(Kept(c), from))
<1> DEFINE s == attempts[c]
           ix == {i \in DOMAIN s : s[i] >= now - Minute}
           A == NotBefore(s, from)
           B == NotBefore(Kept(c), from)
           rank == [i \in A |-> Rank(ix, i)]
<1>1. s \in Seq(0..MaxTime) /\ now \in Int /\ Minute \in Int
  BY LimitAssumption, StoreBounds DEF StoreTypeOK
<1>2. ix \in SUBSET DOMAIN s /\ Kept(c) = Picked(s, ix)
  BY DEF Kept
<1>3. /\ Kept(c) \in Seq(0..MaxTime) /\ Len(Kept(c)) = Cardinality(ix) /\ Cardinality(ix) \in Nat
      /\ \A i \in ix : Rank(ix, i) \in 1..Cardinality(ix) /\ Kept(c)[Rank(ix, i)] = s[i]
      /\ \A i, k \in ix : Rank(ix, i) = Rank(ix, k) => i = k
  <2> HIDE DEF ix, s
  <2> QED BY <1>1, <1>2, PickedByRank
<1>4. A \subseteq ix
  <2>1. \A i \in DOMAIN s : s[i] \in Int
    BY <1>1, StoreBounds
  <2>2. \A i \in DOMAIN s : s[i] >= from => s[i] >= now - Minute
    <3> HIDE DEF s
    <3> QED BY <1>1, <2>1
  <2> QED BY <2>2 DEF NotBefore
<1>5. \A i \in A : Rank(ix, i) \in B
  <2>1. DOMAIN Kept(c) = 1..Cardinality(ix)
    BY <1>3
  <2>2. \A i \in A : s[i] >= from
    BY DEF NotBefore
  <2> HIDE DEF ix, s
  <2> QED BY <1>3, <1>4, <2>1, <2>2 DEF NotBefore
<1>6. rank \in Injection(A, B)
  <2>1. rank \in [A -> B]
    BY <1>5
  <2>2. \A i, k \in A : rank[i] = rank[k] => i = k
    <3> HIDE DEF ix, A
    <3> QED BY <1>3, <1>4
  <2> HIDE DEF rank
  <2> QED BY <2>1, <2>2 DEF Injection, IsInjective
<1>7. IsFiniteSet(B)
  <2>1. B \in SUBSET DOMAIN Kept(c)
    BY DEF NotBefore
  <2> HIDE DEF B
  <2> QED BY <1>3, <2>1, PlacesFinite
<1> HIDE DEF A, B, rank, s
<1>8. Cardinality(A) <= Cardinality(B)
  BY <1>6, <1>7, FS_Injection
<1> QED BY <1>8 DEF A, B, s

\* One more time at the end is one more that counts, if it is late enough.
LEMMA AppendedCounts ==
    ASSUME NEW s \in Seq(Int), NEW x \in Int, NEW from \in Int
    PROVE  /\ Cardinality(NotBefore(Append(s, x), from)) \in Nat
           /\ Cardinality(NotBefore(Append(s, x), from))
                 = Cardinality(NotBefore(s, from)) + IF x >= from THEN 1 ELSE 0
<1> DEFINE P == NotBefore(s, from)
<1>1. IsFiniteSet(P) /\ Cardinality(P) \in Nat
  <2>1. P \in SUBSET DOMAIN s
    BY DEF NotBefore
  <2> HIDE DEF P
  <2> QED BY <2>1, PlacesFinite
<1>2. Len(s) \in Nat /\ Len(s) + 1 \notin P
  BY DEF NotBefore
<1>3. NotBefore(Append(s, x), from) = IF x >= from THEN P \cup {Len(s) + 1} ELSE P
  <2>1. /\ DOMAIN Append(s, x) = 1..(Len(s) + 1) /\ DOMAIN s = 1..Len(s)
        /\ \A j \in 1..Len(s) : Append(s, x)[j] = s[j]
        /\ Append(s, x)[Len(s) + 1] = x
    OBVIOUS
  <2> QED BY <1>2, <2>1 DEF NotBefore
<1> HIDE DEF P
<1>4. Cardinality(P \cup {Len(s) + 1}) = Cardinality(P) + 1
  BY <1>1, <1>2, FS_AddElement
<1> QED BY <1>1, <1>3, <1>4 DEF P

\* One more registration let through is one more of its client's.
LEMMA GrantedCounts ==
    ASSUME StoreTypeOK, NEW c \in Clients, CountAttempt(c), NEW d \in Clients, NEW from \in Int
    PROVE  /\ Cardinality(GrantedSince(d, from)) \in Nat
           /\ Cardinality(GrantedSince(d, from)')
                 = Cardinality(GrantedSince(d, from)) + IF d = c /\ now >= from THEN 1 ELSE 0
           /\ ~(d = c /\ now \in from..(from + Minute)) => GrantedIn(d, from)' = GrantedIn(d, from)
           /\ DOMAIN granted' = 1..(Len(granted) + 1)
           /\ \A i \in DOMAIN granted : granted'[i] = granted[i]
           /\ granted'[Len(granted) + 1].at = now
<1> DEFINE R == [client : Clients, at : 0..MaxTime]
           P == GrantedSince(d, from)
<1>1. granted \in Seq(R)
  BY DEF StoreTypeOK
<1>2. PICK g : g = [client |-> c, at |-> now]
  OBVIOUS
<1>3. g.client = c /\ g.at = now /\ granted' = Append(granted, g)
  BY <1>2 DEF CountAttempt
<1> HIDE DEF R
<1>4. /\ DOMAIN granted' = 1..(Len(granted) + 1) /\ DOMAIN granted = 1..Len(granted)
      /\ \A i \in 1..Len(granted) : granted'[i] = granted[i]
      /\ granted'[Len(granted) + 1] = g
      /\ Len(granted) \in Nat
  BY <1>1, <1>3
<1>5. IsFiniteSet(P) /\ Cardinality(P) \in Nat
  <2>1. P \in SUBSET DOMAIN granted
    BY DEF GrantedSince
  <2> HIDE DEF P
  <2> QED BY <1>1, <2>1, PlacesFinite
<1>6. Len(granted) + 1 \notin P
  BY <1>4 DEF GrantedSince
<1>7. GrantedSince(d, from)' = IF d = c /\ now >= from THEN P \cup {Len(granted) + 1} ELSE P
  BY <1>3, <1>4 DEF GrantedSince
<1>8. ~(d = c /\ now \in from..(from + Minute)) => GrantedIn(d, from)' = GrantedIn(d, from)
  BY <1>3, <1>4 DEF GrantedIn
<1>9. Cardinality(P \cup {Len(granted) + 1}) = Cardinality(P) + 1
  <2> HIDE DEF P
  <2> QED BY <1>5, <1>6, FS_AddElement
<1> HIDE DEF P
<1>10. Cardinality(GrantedSince(d, from)') = Cardinality(P) + IF d = c /\ now >= from THEN 1 ELSE 0
  BY <1>5, <1>7, <1>9
<1> QED BY <1>3, <1>4, <1>5, <1>8, <1>10 DEF P

\* Counting an attempt that is let through.
LEMMA RateCounted ==
    ASSUME StoreTypeInv, StoreTypeOK', RateInv, NEW c \in Clients, ~Limited(c), CountAttempt(c),
           UNCHANGED now
    PROVE  RateInv'
<1>1. StoreTypeOK /\ now \in Int /\ Minute \in Nat
  BY LimitAssumption, StoreBounds, SMTT(30) DEF StoreTypeInv, StoreTypeOK
<1>2. ASSUME NEW d \in Clients, NEW from \in Int, from >= now - Minute
      PROVE  Cardinality(GrantedSince(d, from)') <= Cardinality(NotBefore(attempts'[d], from))
  <2>1. Cardinality(GrantedSince(d, from)) <= Cardinality(NotBefore(attempts[d], from))
    BY <1>2 DEF RateInv
  <2>2. /\ Cardinality(GrantedSince(d, from)) \in Nat
        /\ Cardinality(GrantedSince(d, from)')
              = Cardinality(GrantedSince(d, from)) + IF d = c /\ now >= from THEN 1 ELSE 0
    BY <1>1, GrantedCounts
  <2>3. CASE d # c
    <3>1. attempts'[d] = attempts[d]
      BY <1>1, <2>3 DEF CountAttempt, StoreTypeOK
    <3> QED BY <2>1, <2>2, <2>3, <3>1
  <2>4. CASE d = c
    <3>1. attempts'[c] = Append(Kept(c), now)
      BY <1>1 DEF CountAttempt, StoreTypeOK
    <3>2. Kept(c) \in Seq(Int)
      <4>1. Kept(c) \in Seq(0..MaxTime)
        BY <1>1, KeptTimes
      <4> QED BY <4>1, StoreBounds
    <3>3. /\ Cardinality(NotBefore(attempts'[c], from)) \in Nat
          /\ Cardinality(NotBefore(attempts'[c], from))
                = Cardinality(NotBefore(Kept(c), from)) + IF now >= from THEN 1 ELSE 0
      BY <1>1, <3>1, <3>2, AppendedCounts
    <3>4. Cardinality(NotBefore(attempts[c], from)) <= Cardinality(NotBefore(Kept(c), from))
      BY <1>1, <1>2, KeptCounts
    <3>5. Cardinality(NotBefore(attempts[c], from)) \in Nat
          /\ Cardinality(NotBefore(Kept(c), from)) \in Nat
      <4>1. attempts[c] \in Seq(0..MaxTime)
        BY <1>1 DEF StoreTypeOK
      <4> QED BY <3>2, <4>1, PlacesFinite DEF NotBefore
    <3> QED BY <2>1, <2>2, <2>4, <3>3, <3>4, <3>5
  <2> QED BY <2>3, <2>4
<1>3. \A i \in DOMAIN granted' : granted'[i].at <= now'
  <2>1. /\ DOMAIN granted' = 1..(Len(granted) + 1)
        /\ \A i \in DOMAIN granted : granted'[i] = granted[i]
        /\ granted'[Len(granted) + 1].at = now
    BY <1>1, GrantedCounts
  <2>2. Len(granted) \in Nat /\ DOMAIN granted = 1..Len(granted)
    BY <1>1 DEF StoreTypeOK
  <2>3. \A i \in DOMAIN granted : granted[i].at <= now
    BY DEF RateInv
  <2> QED BY <1>1, <2>1, <2>2, <2>3
<1>4. ASSUME NEW d \in Clients, NEW from \in 0..MaxTime
      PROVE  Cardinality(GrantedIn(d, from)') <= Limit
  <2>1. CASE ~(d = c /\ now \in from..(from + Minute))
    <3>1. GrantedIn(d, from)' = GrantedIn(d, from)
      BY <1>1, <2>1, GrantedCounts
    <3> QED BY <3>1 DEF RateInv, RateLimited, GrantedIn
  <2>2. CASE d = c /\ now \in from..(from + Minute)
    <3>1. from \in Int /\ from >= now - Minute
      BY <1>1, <2>2
    <3>2. Cardinality(GrantedSince(d, from)') <= Cardinality(NotBefore(attempts'[d], from))
      BY <1>2, <3>1
    <3>3. /\ Cardinality(NotBefore(attempts'[d], from)) \in Nat
          /\ Cardinality(NotBefore(attempts'[d], from)) <= Len(attempts'[d])
      <4>1. attempts'[d] \in Seq(0..MaxTime)
        BY DEF StoreTypeOK
      <4> QED BY <4>1, PlacesFinite DEF NotBefore
    <3>4. Len(attempts'[d]) \in Nat /\ Len(attempts'[d]) <= Limit
      BY DEF StoreTypeOK
    <3>5. /\ Cardinality(GrantedIn(d, from)') \in Nat /\ Cardinality(GrantedSince(d, from)') \in Nat
          /\ Cardinality(GrantedIn(d, from)') <= Cardinality(GrantedSince(d, from)')
      <4>1. granted' \in Seq([client : Clients, at : 0..MaxTime])
        BY DEF StoreTypeOK
      <4>2. \A i \in DOMAIN granted' : granted'[i].at \in from..(from + Minute) => granted'[i].at >= from
        OBVIOUS
      <4>3. GrantedIn(d, from)' \in SUBSET (GrantedSince(d, from)')
            /\ GrantedSince(d, from)' \in SUBSET DOMAIN granted'
            /\ GrantedIn(d, from)' \in SUBSET DOMAIN granted'
        BY <4>2 DEF GrantedIn, GrantedSince
      <4>4. IsFiniteSet(GrantedSince(d, from)')
        BY <4>1, <4>3, PlacesFinite
      <4> QED BY <4>1, <4>3, <4>4, PlacesFinite, FS_Subset
    <3> QED BY <3>2, <3>3, <3>4, <3>5, LimitAssumption
  <2> QED BY <2>1, <2>2
<1>5. RateLimited'
  BY <1>4 DEF RateLimited, GrantedIn
<1> QED BY <1>2, <1>3, <1>5 DEF RateInv

\* No step lets one through that is not counted, or forgets one too early.
LEMMA RateStep == StoreTypeInv /\ StoreTypeInv' /\ RateInv /\ [StoreNext]_storeVars => RateInv'
<1> SUFFICES ASSUME StoreTypeInv, StoreTypeInv', RateInv, [StoreNext]_storeVars
             PROVE  RateInv'
  OBVIOUS
<1> USE DEF disk, clocks, auth
<1>1. StoreTypeOK /\ StoreTypeOK' /\ now \in Int /\ Minute \in Nat /\ Limit \in Nat
  BY LimitAssumption, StoreBounds DEF StoreTypeInv, StoreTypeOK
<1>2. ASSUME UNCHANGED <<granted, attempts>>, now' \in Int, now' >= now
      PROVE  RateInv'
  <2>1. \A from \in Int : from >= now' - Minute => from >= now - Minute
    <3>1. \A a, b, m, f \in Int : b >= a /\ f >= b - m => f >= a - m
      OBVIOUS
    <3>2. Minute \in Int /\ now' >= now
      BY <1>1, <1>2
    <3> QED BY <1>1, <1>2, <3>1, <3>2
  <2>2. \A c \in Clients : \A from \in Int : from >= now' - Minute =>
           Cardinality(GrantedSince(c, from)') <= Cardinality(NotBefore(attempts'[c], from))
    BY <1>2, <2>1 DEF RateInv, GrantedSince
  <2>3. \A i \in DOMAIN granted : granted[i].at \in Int
    <3> DEFINE R == [client : Clients, at : 0..MaxTime]
    <3>1. granted \in Seq(R)
      BY <1>1 DEF StoreTypeOK
    <3>2. \A r \in R : r.at \in Int
      BY StoreBounds
    <3> HIDE DEF R
    <3> QED BY <3>1, <3>2
  <2>4. \A i \in DOMAIN granted : granted[i].at <= now'
    BY <1>1, <1>2, <2>3 DEF RateInv
  <2>5. RateLimited'
    BY <1>2 DEF RateInv, RateLimited
  <2> QED BY <1>2, <2>2, <2>4, <2>5 DEF RateInv
<1>3. ASSUME NEW c \in Clients, RefuseLimited(c)
      PROVE  RateInv'
  <2>1. UNCHANGED <<now, granted>> /\ attempts' = [attempts EXCEPT ![c] = Kept(c)]
    BY <1>3 DEF RefuseLimited
  <2>2. ASSUME NEW d \in Clients, NEW from \in Int, from >= now - Minute
        PROVE  Cardinality(GrantedSince(d, from)) <= Cardinality(NotBefore(attempts'[d], from))
    <3>1. Cardinality(GrantedSince(d, from)) <= Cardinality(NotBefore(attempts[d], from))
      BY <2>2 DEF RateInv
    <3>2. CASE d # c
      BY <1>1, <2>1, <3>1, <3>2 DEF StoreTypeOK
    <3>3. CASE d = c
      <4>1. attempts'[c] = Kept(c)
        BY <1>1, <2>1 DEF StoreTypeOK
      <4>2. Cardinality(NotBefore(attempts[c], from)) <= Cardinality(NotBefore(Kept(c), from))
        BY <1>1, <2>2, KeptCounts
      <4>3. attempts[c] \in Seq(0..MaxTime) /\ Kept(c) \in Seq(0..MaxTime)
            /\ granted \in Seq([client : Clients, at : 0..MaxTime])
        BY <1>1, KeptTimes DEF StoreTypeOK
      <4>4. Cardinality(NotBefore(attempts[c], from)) \in Nat
            /\ Cardinality(NotBefore(Kept(c), from)) \in Nat
        BY <4>3, PlacesFinite DEF NotBefore
      <4>5. Cardinality(GrantedSince(c, from)) \in Nat
        <5>1. GrantedSince(c, from) \in SUBSET DOMAIN granted
          BY DEF GrantedSince
        <5> QED BY <4>3, <5>1, PlacesFinite
      <4> QED BY <3>1, <3>3, <4>1, <4>2, <4>4, <4>5
    <3> QED BY <3>2, <3>3
  <2>3. \A d \in Clients : \A from \in Int : from >= now' - Minute =>
           Cardinality(GrantedSince(d, from)') <= Cardinality(NotBefore(attempts'[d], from))
    BY <2>1, <2>2 DEF GrantedSince
  <2>4. RateLimited' /\ \A i \in DOMAIN granted' : granted'[i].at <= now'
    BY <2>1 DEF RateInv, RateLimited
  <2> QED BY <2>3, <2>4 DEF RateInv
<1>4. ASSUME NEW c \in Clients,
             \/ Refuse(c)
             \/ \E n \in Names, pw \in Passwords : Register(c, n, pw) \/ RegisterFails(c, n, pw)
      PROVE  RateInv'
  <2>1. ~Limited(c) /\ CountAttempt(c) /\ UNCHANGED now
    BY <1>4 DEF Refuse, Register, RegisterFails, Admitted
  <2> QED BY <1>1, <2>1, RateCounted
<1>5. ASSUME Stop
      PROVE  RateInv'
  <2>1. granted' = <<>> /\ UNCHANGED now
    BY <1>5 DEF Stop
  <2>2. \A c, from : GrantedSince(c, from)' = {} /\ GrantedIn(c, from)' = {}
    BY <2>1 DEF GrantedSince, GrantedIn
  <2>3. Cardinality({}) = 0
    BY FS_EmptySet
  <2>4. \A c \in Clients : \A from \in Int : Cardinality(NotBefore(attempts'[c], from)) \in Nat
    <3>1. \A c \in Clients : attempts'[c] \in Seq(0..MaxTime)
      BY <1>1 DEF StoreTypeOK
    <3> QED BY <3>1, PlacesFinite DEF NotBefore
  <2>5. ASSUME NEW c \in Clients, NEW from \in Int
        PROVE  Cardinality(GrantedSince(c, from)') <= Cardinality(NotBefore(attempts'[c], from))
    <3>1. Cardinality(GrantedSince(c, from)') = 0
      BY <2>2, <2>3
    <3> QED BY <2>4, <3>1
  <2>6. RateLimited'
    <3>1. ASSUME NEW c \in Clients, NEW from \in 0..MaxTime
          PROVE  Cardinality(GrantedIn(c, from)') <= Limit
      <4>1. Cardinality(GrantedIn(c, from)') = 0
        BY <2>2, <2>3
      <4> QED BY <1>1, <4>1
    <3> QED BY <3>1 DEF RateLimited, GrantedIn
  <2>7. DOMAIN granted' = {}
    BY <2>1
  <2> QED BY <2>5, <2>6, <2>7 DEF RateInv
<1>6. CASE Tick
  BY <1>1, <1>2, <1>6 DEF Tick
<1>7. ASSUME \/ SetBack \/ Restart
             \/ \E n \in Names, pw \in Passwords : Login(n, pw)
             \/ \E t \in Token : Authenticate(t)
      PROVE  RateInv'
  <2>1. UNCHANGED <<granted, attempts, now>>
    BY <1>7 DEF SetBack, Restart, Login, Authenticate
  <2> QED BY <1>1, <1>2, <2>1
<1>8. CASE UNCHANGED storeVars
  BY <1>1, <1>2, <1>8 DEF storeVars
<1> QED BY <1>3, <1>4, <1>5, <1>6, <1>7, <1>8 DEF StoreNext, CrashInRegister, Crash

----------------------------------------------------------------------------
(* UserStore: accounts and the file *)

\* A line that one append has written, and ended.
IsWhole(line) == \E n \in Names, pw \in Passwords : line = <<WholePiece(n, pw)>>
AllWhole(lines) == \A i \in DOMAIN lines : IsWhole(lines[i])

\* Until an append is torn the file is made of such lines.
LinesWhole == ~damaged => ~file.open /\ AllWhole(file.lines)

\* Line k of f is n's with password pw: load() gets that far, no other line has a
\* piece of n's, and no append goes to this one.
KeptAt(f, n, pw, k) ==
    /\ k \in DOMAIN f.lines
    /\ \A j \in 1..k : IsWhole(f.lines[j])
    /\ f.lines[k] = <<WholePiece(n, pw)>>
    /\ \A i \in DOMAIN f.lines : i # k => \A j \in DOMAIN f.lines[i] : f.lines[i][j].name # n
    /\ f.open => k < Len(f.lines)

FileInv == /\ LinesWhole
           /\ MemoryIsFile
           /\ AccountsKept
           /\ \A n \in Names \ Reserved : confirmed[n] # NoUser =>
                 \E k \in Nat : KeptAt(file, n, confirmed[n], k)

\* load() finds what is kept.
LEMMA KeptIsLoaded ==
    ASSUME NEW f, FileOK(f), NEW n \in Names \ Reserved, NEW pw \in Passwords, NEW k \in Nat,
           KeptAt(f, n, pw, k)
    PROVE  Loaded(f.lines)[n] = pw
<1>1. f.lines \in Seq(Seq(Piece)) /\ k \in DOMAIN f.lines
  BY DEF FileOK, KeptAt
<1>2. \A j \in 1..k : LineParses(f.lines[j])
  <2>1. \A line : IsWhole(line) => LineParses(line)
    BY WholeReads DEF IsWhole
  <2> QED BY <2>1 DEF KeptAt
<1>3. IsOf(f.lines[k], n) /\ PasswordOf(f.lines[k]) = pw
  BY WholeReads DEF KeptAt
<1>4. k \in LinesOf(f.lines, n)
  BY <1>1, <1>2, <1>3 DEF LinesOf, ReadIn
<1>5. ASSUME NEW i \in LinesOf(f.lines, n)
      PROVE  i = k
  <2>1. i \in DOMAIN f.lines /\ IsOf(f.lines[i], n)
    BY DEF LinesOf, ReadIn
  <2>2. f.lines[i] \in Seq(Piece)
    BY <1>1, <2>1
  <2>3. \E j \in DOMAIN f.lines[i] : f.lines[i][j].name = n
    BY <2>1, <2>2, ReadsAUser
  <2> QED BY <2>1, <2>3 DEF KeptAt
<1>6. \A i \in LinesOf(f.lines, n) : i <= k
  BY <1>5
<1> QED BY <1>1, <1>3, <1>4, <1>6, LoadedUsers

\* Appends for others, torn or not, leave it.
LEMMA KeptExtends ==
    ASSUME NEW f, FileOK(f), f.open => f.lines # <<>>, NEW n \in Names, NEW pw, NEW k \in Nat,
           KeptAt(f, n, pw, k), NEW p \in Piece, p.name # n,
           NEW e, e.lines = Extended(f, p).lines
    PROVE  KeptAt(e, n, pw, k)
<1>1. f.lines \in Seq(Seq(Piece)) /\ k \in 1..Len(f.lines) /\ Len(f.lines) \in Nat
      /\ f.open \in BOOLEAN /\ DOMAIN f.lines = 1..Len(f.lines)
  BY DEF FileOK, KeptAt
<1>2. /\ FileOK(Extended(f, p))
      /\ ~f.open => e.lines = Append(f.lines, <<p>>)
      /\ f.open => /\ Len(e.lines) = Len(f.lines)
                   /\ e.lines[Len(f.lines)] = Append(f.lines[Len(f.lines)], p)
      /\ \A i \in 1..Len(f.lines) : (f.open => i < Len(f.lines)) => e.lines[i] = f.lines[i]
  BY ExtendedLines
<1>3. e.lines \in Seq(Seq(Piece))
  BY <1>2 DEF FileOK
<1>4. f.open => k < Len(f.lines)
  BY DEF KeptAt
<1>5. \A j \in 1..k : e.lines[j] = f.lines[j]
  BY <1>1, <1>2, <1>4
<1>6. ~f.open => /\ Len(e.lines) = Len(f.lines) + 1
                 /\ e.lines[Len(f.lines) + 1] = <<p>>
  BY <1>1, <1>2
<1>7. k \in DOMAIN e.lines /\ k < Len(e.lines)
  BY <1>1, <1>2, <1>3, <1>4, <1>6
<1>8. ASSUME NEW i \in DOMAIN e.lines, i # k, NEW j \in DOMAIN e.lines[i]
      PROVE  e.lines[i][j].name # n
  <2>1. i \in 1..Len(e.lines) /\ Len(e.lines) \in Nat
    BY <1>3
  <2>2. CASE i \in 1..Len(f.lines) /\ (f.open => i < Len(f.lines))
    <3>1. e.lines[i] = f.lines[i]
      BY <1>2, <2>2
    <3> QED BY <1>1, <1>8, <2>2, <3>1 DEF KeptAt
  <2>3. CASE f.open /\ i = Len(f.lines)
    <3>0. f.lines[i] \in Seq(Piece) /\ e.lines[i] = Append(f.lines[i], p)
          /\ \A m \in DOMAIN f.lines[i] : f.lines[i][m].name # n
      <4>1. i \in DOMAIN f.lines
        BY <1>1, <2>1, <2>3
      <4>2. f.lines[i] \in Seq(Piece)
        BY <1>1, <4>1
      <4>3. e.lines[i] = Append(f.lines[i], p)
        BY <1>2, <2>3
      <4> QED BY <1>8, <4>1, <4>2, <4>3 DEF KeptAt
    <3>1. PICK s \in Seq(Piece) : s = f.lines[i] /\ e.lines[i] = Append(s, p)
      BY <3>0
    <3>2. \A m \in DOMAIN s : s[m].name # n
      BY <3>0, <3>1
    <3>3. j \in DOMAIN s \/ Append(s, p)[j] = p
      BY <3>1
    <3>4. j \in DOMAIN s => Append(s, p)[j] = s[j]
      BY <3>1
    <3> QED BY <3>1, <3>2, <3>3, <3>4
  <2>4. CASE ~f.open /\ i = Len(f.lines) + 1
    <3>1. e.lines[i] = <<p>>
      BY <1>6, <2>4
    <3>2. e.lines[i][j] = p
      BY <3>1
    <3> QED BY <3>2
  <2> QED BY <1>1, <1>2, <1>6, <2>1, <2>2, <2>3, <2>4
<1>9. \A j \in 1..k : IsWhole(e.lines[j])
  BY <1>5 DEF KeptAt
<1>10. e.lines[k] = <<WholePiece(n, pw)>>
  <2>1. k \in 1..k
    BY <1>1
  <2> QED BY <1>5, <2>1 DEF KeptAt
<1> QED BY <1>7, <1>8, <1>9, <1>10 DEF KeptAt

\* Of lines that are whole all are read, and those of a user have his name.
LEMMA WholeLinesOf ==
    ASSUME NEW lines \in Seq(Seq(Piece)), AllWhole(lines), NEW n
    PROVE  /\ LinesOf(lines, n) = {i \in DOMAIN lines : IsOf(lines[i], n)}
           /\ \A i \in DOMAIN lines : ~IsOf(lines[i], n) =>
                 \A j \in DOMAIN lines[i] : lines[i][j].name # n
<1>1. \A i \in DOMAIN lines : \A j \in 1..i : j \in DOMAIN lines
  <2>1. DOMAIN lines = 1..Len(lines) /\ Len(lines) \in Nat
    OBVIOUS
  <2> QED BY <2>1
<1>2. \A i \in DOMAIN lines : LineParses(lines[i])
  BY WholeReads DEF IsWhole, AllWhole
<1>3. ASSUME NEW i \in DOMAIN lines, ~IsOf(lines[i], n)
      PROVE  \A j \in DOMAIN lines[i] : lines[i][j].name # n
  <2>1. PICK m \in Names, pw \in Passwords : lines[i] = <<WholePiece(m, pw)>>
    BY DEF IsWhole, AllWhole
  <2>2. m # n
    BY <1>3, <2>1, WholeReads
  <2>3. \A j \in DOMAIN lines[i] : lines[i][j] = WholePiece(m, pw)
    BY <2>1
  <2> QED BY <2>2, <2>3, WholeIsPiece
<1> QED BY <1>1, <1>2, <1>3 DEF LinesOf, ReadIn, AllWhole

OneMore(lines, n, pw, more) == more = Append(lines, <<WholePiece(n, pw)>>)

\* After one more of them load() finds its user, and everybody else as before.
LEMMA WholeLoaded ==
    ASSUME NEW lines \in Seq(Seq(Piece)), AllWhole(lines),
           NEW n \in Names, NEW pw \in Passwords, NEW more, OneMore(lines, n, pw, more)
    PROVE  /\ AllWhole(more)
           /\ Loaded(more)[n] = IF n \in Reserved THEN Locked ELSE pw
           /\ \A m \in Names : m # n => Loaded(more)[m] = Loaded(lines)[m]
<1>1. PICK w : w = <<WholePiece(n, pw)>>
  OBVIOUS
<1>2. /\ w \in Seq(Piece) /\ IsWhole(w)
      /\ PasswordOf(w) = IF n \in Reserved THEN Locked ELSE pw
      /\ \A m : IsOf(w, m) <=> m = n
  BY <1>1, WholeIsPiece, WholeReads DEF IsWhole
<1>3. /\ more \in Seq(Seq(Piece)) /\ Len(lines) \in Nat
      /\ DOMAIN lines = 1..Len(lines) /\ DOMAIN more = 1..(Len(lines) + 1)
      /\ \A i \in 1..Len(lines) : more[i] = lines[i]
      /\ more[Len(lines) + 1] = w
  BY <1>1, <1>2 DEF OneMore
<1>4. AllWhole(more)
  <2> SUFFICES ASSUME NEW i \in DOMAIN more
               PROVE  IsWhole(more[i])
    BY DEF AllWhole
  <2>1. CASE i \in 1..Len(lines)
    <3>1. IsWhole(lines[i]) /\ more[i] = lines[i]
      BY <1>3, <2>1 DEF AllWhole
    <3> QED BY <3>1
  <2>2. CASE i = Len(lines) + 1
    BY <1>2, <1>3, <2>2
  <2> QED BY <1>3, <2>1, <2>2
<1>5. \A m : LinesOf(more, m) = {i \in DOMAIN more : IsOf(more[i], m)}
             /\ LinesOf(lines, m) = {i \in DOMAIN lines : IsOf(lines[i], m)}
  BY <1>3, <1>4, WholeLinesOf
<1>6. Loaded(more)[n] = PasswordOf(w)
  <2>1. Len(lines) + 1 \in LinesOf(more, n)
    <3>1. Len(lines) + 1 \in DOMAIN more /\ IsOf(more[Len(lines) + 1], n)
      BY <1>2, <1>3
    <3> QED BY <1>5, <3>1
  <2>2. \A j \in LinesOf(more, n) : j <= Len(lines) + 1
    BY <1>3, <1>5
  <2> QED BY <1>3, <2>1, <2>2, LoadedUsers
<1>7. ASSUME NEW m \in Names, m # n
      PROVE  Loaded(more)[m] = Loaded(lines)[m]
  <2>0. ~IsOf(w, m)
    BY <1>2, <1>7
  <2>4. \A i : i \in DOMAIN more /\ IsOf(more[i], m) <=> i \in DOMAIN lines /\ IsOf(lines[i], m)
    <3>1. \A i \in DOMAIN more : i \in DOMAIN lines \/ i = Len(lines) + 1
      BY <1>3
    <3>2. \A i \in DOMAIN lines : i \in DOMAIN more /\ more[i] = lines[i]
      BY <1>3
    <3> QED BY <1>3, <2>0, <3>1, <3>2
  <2>1. LinesOf(more, m) = LinesOf(lines, m)
    BY <1>5, <2>4
  <2>2. CASE LinesOf(lines, m) = {}
    BY <1>3, <2>1, <2>2, LoadedUsers
  <2>3. CASE LinesOf(lines, m) # {}
    <3>1. LinesOf(lines, m) \in SUBSET (1..Len(lines))
      BY <1>3, <1>5
    <3>2. PICK i \in LinesOf(lines, m) : \A j \in LinesOf(lines, m) : j <= i
      BY <1>3, <2>3, <3>1, LastIsGreatest
    <3>3. more[i] = lines[i]
      BY <1>3, <3>1
    <3>4. Loaded(lines)[m] = PasswordOf(lines[i])
      BY <3>2, LoadedUsers
    <3>5. i \in LinesOf(more, m) /\ \A j \in LinesOf(more, m) : j <= i
      BY <2>1, <3>2
    <3>6. Loaded(more)[m] = PasswordOf(more[i])
      BY <1>3, <3>5, LoadedUsers
    <3> QED BY <3>3, <3>4, <3>6
  <2> QED BY <2>2, <2>3
<1> QED BY <1>2, <1>4, <1>6, <1>7

\* A name that memory does not have is in no line, until an append is torn.
LEMMA FreshName ==
    ASSUME StoreTypeInv, FileInv, up, ~damaged, NEW n \in Names, users[n] = NoUser
    PROVE  \A i \in DOMAIN file.lines : \A j \in DOMAIN file.lines[i] : file.lines[i][j].name # n
<1>1. file.lines \in Seq(Seq(Piece)) /\ AllWhole(file.lines)
  BY FileTypes DEF FileOK, FileInv, LinesWhole
<1>2. Loaded(file.lines)[n] = NoUser
  BY DEF FileInv, MemoryIsFile
<1>3. LinesOf(file.lines, n) = {}
  BY <1>1, <1>2, LoadedUsers
<1>4. \A i \in DOMAIN file.lines : ~IsOf(file.lines[i], n)
  BY <1>1, <1>3, WholeLinesOf
<1> QED BY <1>1, <1>4, WholeLinesOf

\* A whole record is appended: every line stays whole while the file is.
LEMMA AppendedWhole ==
    ASSUME StoreTypeInv, FileInv, NEW n \in Names, NEW pw \in Passwords,
           file' = Appended(file, n, pw), UNCHANGED damaged
    PROVE  /\ LinesWhole'
           /\ ~damaged => /\ Loaded(file'.lines)[n] = IF n \in Reserved THEN Locked ELSE pw
                          /\ \A m \in Names : m # n =>
                                Loaded(file'.lines)[m] = Loaded(file.lines)[m]
                          /\ file'.lines = Append(file.lines, <<WholePiece(n, pw)>>)
<1>1. /\ FileOK(file) /\ (file.open => file.lines # <<>>)
      /\ ~file'.open /\ file'.lines = Extended(file, WholePiece(n, pw)).lines
  BY FileTypes, AppendedLines
<1>2. CASE damaged
  BY <1>2 DEF LinesWhole
<1>3. CASE ~damaged
  <2>1. ~file.open /\ AllWhole(file.lines)
    BY <1>3 DEF FileInv, LinesWhole
  <2>2. file'.lines = Append(file.lines, <<WholePiece(n, pw)>>)
    BY <1>1, <2>1, WholeIsPiece, ExtendedLines
  <2>3. file.lines \in Seq(Seq(Piece))
    BY <1>1 DEF FileOK
  <2>4. /\ AllWhole(file'.lines)
        /\ Loaded(file'.lines)[n] = IF n \in Reserved THEN Locked ELSE pw
        /\ \A m \in Names : m # n => Loaded(file'.lines)[m] = Loaded(file.lines)[m]
    <3>1. OneMore(file.lines, n, pw, file'.lines)
      BY <2>2 DEF OneMore
    <3> QED BY <2>1, <2>3, <3>1, WholeLoaded
  <2>5. LinesWhole'
    BY <1>1, <2>4 DEF LinesWhole
  <2> QED BY <2>2, <2>4, <2>5
<1> QED BY <1>2, <1>3

\* What is kept for others is kept by an append of n's.
LEMMA OthersKept ==
    ASSUME StoreTypeInv, FileInv, NEW p \in Piece, file'.lines = Extended(file, p).lines,
           NEW m \in Names \ Reserved, confirmed[m] # NoUser, p.name # m
    PROVE  \E k \in Nat : KeptAt(file', m, confirmed[m], k)
<1>1. PICK k \in Nat : KeptAt(file, m, confirmed[m], k)
  BY DEF FileInv
<1>2. FileOK(file) /\ (file.open => file.lines # <<>>)
  BY FileTypes
<1>3. KeptAt(file', m, confirmed[m], k)
  BY <1>1, <1>2, KeptExtends
<1> QED BY <1>3

\* A registration that succeeds.
LEMMA RegisterKeeps ==
    ASSUME StoreTypeInv, FileInv, NEW c \in Clients, NEW n \in Names, NEW pw \in Passwords,
           Register(c, n, pw)
    PROVE  FileInv'
<1>1. /\ up /\ users[n] = NoUser /\ file' = Appended(file, n, pw)
      /\ users' = [users EXCEPT ![n] = pw]
      /\ confirmed' = [confirmed EXCEPT ![n] = IF damaged THEN @ ELSE pw]
      /\ UNCHANGED <<up, damaged>>
  BY DEF Register, Admitted
<1>2. /\ users \in [Names -> Passwords \cup {NoUser, Locked}]
      /\ confirmed \in [Names -> Passwords \cup {NoUser}]
      /\ FileOK(file) /\ (file.open => file.lines # <<>>)
  BY FileTypes DEF StoreTypeInv, StoreTypeOK
<1>3. /\ users'[n] = pw /\ confirmed'[n] = IF damaged THEN confirmed[n] ELSE pw
      /\ \A m \in Names : m # n => users'[m] = users[m] /\ confirmed'[m] = confirmed[m]
  BY <1>1, <1>2
<1>4. /\ ~file'.open /\ file'.lines = Extended(file, WholePiece(n, pw)).lines
      /\ WholePiece(n, pw) \in Piece /\ WholePiece(n, pw).name = n
  BY <1>1, <1>2, AppendedLines, WholeIsPiece
<1>5. /\ LinesWhole'
      /\ ~damaged => /\ Loaded(file'.lines)[n] = IF n \in Reserved THEN Locked ELSE pw
                     /\ \A m \in Names : m # n => Loaded(file'.lines)[m] = Loaded(file.lines)[m]
                     /\ file'.lines = Append(file.lines, <<WholePiece(n, pw)>>)
  BY <1>1, AppendedWhole
<1>6. MemoryIsFile'
  <2>1. NoUser # Locked /\ NoUser # pw
    BY CredentialAssumption
  <2>2. SUFFICES ASSUME ~damaged, NEW m \in Names
                 PROVE  /\ m \notin Reserved => users'[m] = Loaded(file'.lines)[m]
                        /\ users'[m] = NoUser <=> Loaded(file'.lines)[m] = NoUser
    BY <1>1 DEF MemoryIsFile
  <2>3. CASE m = n
    BY <1>3, <1>5, <2>1, <2>2, <2>3
  <2>4. CASE m # n
    <3>1. /\ m \notin Reserved => users[m] = Loaded(file.lines)[m]
          /\ users[m] = NoUser <=> Loaded(file.lines)[m] = NoUser
      BY <1>1, <2>2 DEF FileInv, MemoryIsFile
    <3> QED BY <1>3, <1>5, <2>2, <2>4, <3>1
  <2> QED BY <2>3, <2>4
<1>7. ASSUME NEW m \in Names \ Reserved, confirmed[m] # NoUser
      PROVE  users[m] = confirmed[m] /\ m # n
  BY <1>1, <1>7 DEF FileInv, AccountsKept
<1>8. AccountsKept'
  <2> SUFFICES ASSUME NEW m \in Names \ Reserved, confirmed'[m] # NoUser
               PROVE  users'[m] = confirmed'[m]
    BY DEF AccountsKept
  <2>1. CASE m = n
    BY <1>3, <1>7, <2>1
  <2>2. CASE m # n
    BY <1>3, <1>7, <2>2
  <2> QED BY <2>1, <2>2
<1>9. ASSUME NEW m \in Names \ Reserved, confirmed'[m] # NoUser
      PROVE  \E k \in Nat : KeptAt(file', m, confirmed'[m], k)
  <2>1. CASE confirmed[m] # NoUser
    <3>1. m # n
      BY <1>7, <2>1
    <3> QED BY <1>3, <1>4, <2>1, <3>1, OthersKept
  <2>2. CASE confirmed[m] = NoUser
    <3>1. m = n /\ ~damaged /\ confirmed'[m] = pw
      BY <1>3, <1>9, <2>2
    <3> DEFINE k == Len(file.lines) + 1
    <3>2. file.lines \in Seq(Seq(Piece)) /\ file'.lines = Append(file.lines, <<WholePiece(n, pw)>>)
      BY <1>2, <1>5, <3>1 DEF FileOK
    <3>3. /\ k \in Nat /\ DOMAIN file'.lines = 1..k /\ k \in DOMAIN file'.lines
          /\ file'.lines[k] = <<WholePiece(n, pw)>>
          /\ \A i \in 1..k : i # k => i \in DOMAIN file.lines /\ file'.lines[i] = file.lines[i]
      BY <3>2
    <3>4. \A i \in 1..k : IsWhole(file'.lines[i])
      BY <1>1, <1>5, <3>1, <3>3 DEF LinesWhole, AllWhole
    <3>5. \A i \in DOMAIN file.lines : \A j \in DOMAIN file.lines[i] : file.lines[i][j].name # n
      BY <1>1, <3>1, FreshName
    <3>6. \A i \in DOMAIN file'.lines : i # k =>
             \A j \in DOMAIN file'.lines[i] : file'.lines[i][j].name # n
      <4> HIDE DEF k
      <4> QED BY <3>3, <3>5
    <3> HIDE DEF k
    <3>7. KeptAt(file', n, pw, k)
      BY <1>4, <3>3, <3>4, <3>6 DEF KeptAt
    <3> QED BY <3>1, <3>3, <3>7
  <2> QED BY <2>1, <2>2
<1> QED BY <1>5, <1>6, <1>8, <1>9 DEF FileInv

\* A registration that fails leaves memory, and its line or part of it in the file.
LEMMA RegisterFailsKeeps ==
    ASSUME StoreTypeInv, FileInv, NEW c \in Clients, NEW n \in Names, NEW pw \in Passwords,
           RegisterFails(c, n, pw)
    PROVE  FileInv'
<1>1. up /\ users[n] = NoUser /\ UNCHANGED <<up, users, confirmed>>
  BY DEF RegisterFails, Admitted
<1>2. CASE UNCHANGED disk
  BY <1>1, <1>2 DEF disk, FileInv, LinesWhole, MemoryIsFile, AccountsKept
<1>3. CASE /\ \/ \E p \in TornPieces(n, pw) : file' = Extended(file, p)
              \/ file' = Appended(file, n, pw)
           /\ damaged' = TRUE
  <2>1. PICK p \in Piece : p.name = n /\ file'.lines = Extended(file, p).lines
    <3>1. CASE \E p \in TornPieces(n, pw) : file' = Extended(file, p)
      BY <3>1 DEF TornPieces
    <3>2. CASE file' = Appended(file, n, pw)
      BY <3>2, FileTypes, AppendedLines, WholeIsPiece
    <3> QED BY <1>3, <3>1, <3>2
  <2>2. LinesWhole' /\ MemoryIsFile' /\ AccountsKept'
    BY <1>1, <1>3 DEF LinesWhole, MemoryIsFile, FileInv, AccountsKept
  <2>3. ASSUME NEW m \in Names \ Reserved, confirmed'[m] # NoUser
        PROVE  \E k \in Nat : KeptAt(file', m, confirmed'[m], k)
    <3>1. confirmed[m] # NoUser /\ m # n
      BY <1>1, <2>3 DEF FileInv, AccountsKept
    <3> QED BY <1>1, <2>1, <3>1, OthersKept
  <2> QED BY <2>2, <2>3 DEF FileInv
<1> QED BY <1>2, <1>3 DEF RegisterFails

\* So does the end of the process, in a registration or elsewhere.
LEMMA CrashKeeps ==
    ASSUME StoreTypeInv, FileInv,
           \/ Crash
           \/ \E c \in Clients, n \in Names, pw \in Passwords : CrashInRegister(c, n, pw)
    PROVE  FileInv'
<1>1. ~up' /\ UNCHANGED <<confirmed, damaged>>
  BY DEF Crash, CrashInRegister, Stop, disk
<1>2. MemoryIsFile' /\ AccountsKept'
  BY <1>1 DEF MemoryIsFile, AccountsKept
<1>3. CASE UNCHANGED file
  BY <1>1, <1>2, <1>3 DEF FileInv, LinesWhole
<1>4. ASSUME NEW c \in Clients, NEW n \in Names, NEW pw \in Passwords, CrashInRegister(c, n, pw)
      PROVE  FileInv'
  <2>1. up /\ users[n] = NoUser /\ file' = Appended(file, n, pw)
    BY <1>4 DEF CrashInRegister, Admitted
  <2>2. LinesWhole'
    BY <1>1, <2>1, AppendedWhole
  <2>3. /\ file'.lines = Extended(file, WholePiece(n, pw)).lines
        /\ WholePiece(n, pw) \in Piece /\ WholePiece(n, pw).name = n
    BY <2>1, FileTypes, AppendedLines, WholeIsPiece
  <2>4. ASSUME NEW m \in Names \ Reserved, confirmed'[m] # NoUser
        PROVE  \E k \in Nat : KeptAt(file', m, confirmed'[m], k)
    <3>1. confirmed[m] # NoUser /\ m # n
      BY <1>1, <2>1, <2>4 DEF FileInv, AccountsKept
    <3> QED BY <1>1, <2>3, <3>1, OthersKept
  <2> QED BY <1>2, <2>2, <2>4 DEF FileInv
<1> QED BY <1>3, <1>4 DEF Crash, disk

\* And a restart finds in the file what the process had confirmed before it ended.
LEMMA RestartKeeps ==
    ASSUME StoreTypeInv, FileInv, Restart
    PROVE  FileInv'
<1>1. users' = Loaded(file.lines) /\ UNCHANGED <<file, damaged, confirmed>>
  BY DEF Restart, disk
<1>2. LinesWhole' /\ MemoryIsFile'
  BY <1>1 DEF FileInv, LinesWhole, MemoryIsFile
<1>3. ASSUME NEW n \in Names \ Reserved, confirmed[n] # NoUser
      PROVE  users'[n] = confirmed[n]
  <2>1. PICK k \in Nat : KeptAt(file, n, confirmed[n], k)
    BY <1>3 DEF FileInv
  <2>2. confirmed[n] \in Passwords
    BY <1>3 DEF StoreTypeInv, StoreTypeOK
  <2> QED BY <1>1, <2>1, <2>2, FileTypes, KeptIsLoaded
<1> QED BY <1>1, <1>2, <1>3 DEF FileInv, AccountsKept

LEMMA FileInit == StoreInit => FileInv
<1> SUFFICES ASSUME StoreInit PROVE FileInv
  OBVIOUS
<1>1. file.lines = <<>> /\ ~file.open /\ DOMAIN file.lines = {}
  BY DEF StoreInit
<1>2. \A n \in Names : Loaded(file.lines)[n] = NoUser /\ users[n] = NoUser /\ confirmed[n] = NoUser
  <2>1. <<>> \in Seq(Seq(Piece))
    OBVIOUS
  <2>2. \A n \in Names : LinesOf(<<>>, n) = {}
    BY DEF LinesOf, ReadIn
  <2> QED BY <1>1, <2>1, <2>2, LoadedUsers DEF StoreInit
<1> QED BY <1>1, <1>2 DEF FileInv, LinesWhole, AllWhole, MemoryIsFile, AccountsKept

LEMMA FileStep == StoreTypeInv /\ FileInv /\ [StoreNext]_storeVars => FileInv'
<1> SUFFICES ASSUME StoreTypeInv, FileInv, [StoreNext]_storeVars
             PROVE  FileInv'
  OBVIOUS
<1>1. ASSUME UNCHANGED <<up, file, users, confirmed, damaged>>
      PROVE  FileInv'
  BY <1>1 DEF FileInv, LinesWhole, MemoryIsFile, AccountsKept
<1>2. ASSUME NEW c \in Clients, RefuseLimited(c) \/ Refuse(c)
      PROVE  FileInv'
  BY <1>1, <1>2 DEF RefuseLimited, Refuse, disk
<1>3. ASSUME NEW n \in Names, NEW pw \in Passwords, Login(n, pw)
      PROVE  FileInv'
  BY <1>1, <1>3 DEF Login, disk
<1>4. ASSUME NEW t \in Token, Authenticate(t)
      PROVE  FileInv'
  BY <1>1, <1>4 DEF Authenticate, disk
<1>5. CASE Tick \/ SetBack
  BY <1>1, <1>5 DEF Tick, SetBack, disk
<1>6. CASE UNCHANGED storeVars
  BY <1>1, <1>6 DEF storeVars
<1> QED BY <1>2, <1>3, <1>4, <1>5, <1>6, RegisterKeeps, RegisterFailsKeeps, CrashKeeps, RestartKeeps
    DEF StoreNext

----------------------------------------------------------------------------
(* UserStore: theorems *)

\* The users, the sessions, the attempts and the file have their types whatever is
\* called and whenever the process ends (UserStore.cc).
THEOREM StoreTypes == StoreSpec => []StoreTypeOK
<1>1. StoreInit => StoreTypeInv
  BY StoreTypesInit
<1>2. StoreTypeInv /\ [StoreNext]_storeVars => StoreTypeInv'
  BY StoreTypesStep
<1>3. StoreTypeInv => StoreTypeOK
  BY DEF StoreTypeInv
<1> QED BY <1>1, <1>2, <1>3, PTL DEF StoreSpec

LEMMA StoreTypesAlways == StoreSpec => []StoreTypeInv
BY StoreTypesInit, StoreTypesStep, PTL DEF StoreSpec

\* An accepted token has not expired and was never refused, for any number of
\* tokens and however the wall clock is set back (authenticateBearerToken).
THEOREM TokensEnd == StoreSpec => []SessionsEnd
<1>1. StoreInit => TokenInv
  BY DEF StoreInit, TokenInv, SessionsEnd
<1>2. StoreTypeInv /\ TokenInv /\ [StoreNext]_storeVars => TokenInv'
  BY TokensStep
<1>3. TokenInv => SessionsEnd
  BY DEF TokenInv
<1> QED BY <1>1, <1>2, <1>3, StoreTypesAlways, PTL DEF StoreSpec

\* No window of a minute has more registrations of one client than the limit, for
\* any limit and window (isRegistrationLimitedLocked).
THEOREM RateIsLimited == StoreSpec => []RateLimited
<1>1. StoreInit => RateInv
  <2> SUFFICES ASSUME StoreInit PROVE RateInv
    OBVIOUS
  <2>1. granted = <<>> /\ \A c \in Clients : attempts[c] = <<>>
    BY DEF StoreInit
  <2>2. \A c, from : GrantedSince(c, from) = {} /\ GrantedIn(c, from) = {} /\ NotBefore(<<>>, from) = {}
    BY <2>1 DEF GrantedSince, GrantedIn, NotBefore
  <2>3. Cardinality({}) = 0
    BY FS_EmptySet
  <2>4. RateLimited
    <3>1. ASSUME NEW c \in Clients, NEW from \in 0..MaxTime
          PROVE  Cardinality(GrantedIn(c, from)) <= Limit
      <4>1. Cardinality(GrantedIn(c, from)) = 0
        BY <2>2, <2>3
      <4> QED BY <4>1, LimitAssumption
    <3> QED BY <3>1 DEF RateLimited, GrantedIn
  <2>5. ASSUME NEW c \in Clients, NEW from \in Int
        PROVE  Cardinality(GrantedSince(c, from)) <= Cardinality(NotBefore(attempts[c], from))
    <3>1. Cardinality(GrantedSince(c, from)) = 0 /\ Cardinality(NotBefore(attempts[c], from)) = 0
      BY <2>1, <2>2, <2>3
    <3> QED BY <3>1
  <2> QED BY <2>1, <2>4, <2>5 DEF RateInv
<1>2. StoreTypeInv /\ StoreTypeInv' /\ RateInv /\ [StoreNext]_storeVars => RateInv'
  BY RateStep
<1>3. RateInv => RateLimited
  BY DEF RateInv
<1> QED BY <1>1, <1>2, <1>3, StoreTypesAlways, PTL DEF StoreSpec

LEMMA FileAlways == StoreSpec => []FileInv
BY FileInit, FileStep, StoreTypesAlways, PTL DEF StoreSpec

\* A confirmed account opens with its password, through torn appends, crashes and
\* restarts, for any users and any number of appends (appendUserLocked, load).
THEOREM AccountsAreKept == StoreSpec => []AccountsKept
<1>1. FileInv => AccountsKept
  BY DEF FileInv
<1> QED BY <1>1, FileAlways, PTL

\* Memory and file tell of the same users as long as no append is torn
\* (registerUser: the file first, then the map).
THEOREM MemoryFollowsFile == StoreSpec => []MemoryIsFile
<1>1. FileInv => MemoryIsFile
  BY DEF FileInv
<1> QED BY <1>1, FileAlways, PTL

----------------------------------------------------------------------------
(* ChatCache: a slice *)

\* What a list has, and that it has it once.
Has(list, k) == \E i \in DOMAIN list : list[i] = k
Once(list) == \A i, j \in DOMAIN list : list[i] = list[j] => i = j

\* The lists have each used key once, in the list of its frequency.
Listed(lists, freq) == \A f \in 1..MaxTotal : /\ Once(lists[f])
                                              /\ \A k \in Keys : Has(lists[f], k) <=> freq[k] = f

\* An element for every access that a frequency counts.
Counting(freq) == {k \in Keys : freq[k] > 0}
Uses(freq) == {u \in Counting(freq) \X (1..MaxTotal) : u[2] <= freq[u[1]]}

\* The total counts all of them: aging takes off frequencies but not off the total.
Summed(s) == IsFiniteSet(Cached(s)) /\ Cardinality(Uses(s.freq)) <= s.total

\* The list of minFreq_ is the lowest that has a node.
MinIsLowest(s) == Cached(s) # {} =>
    /\ \E k \in Cached(s) : s.freq[k] = s.minFreq
    /\ \A k \in Cached(s) : s.minFreq <= s.freq[k]

\* Some node is not used more than average: the search for the minimum finds it
\* below INT8_MAX.
SomeLow(s) == Cached(s) # {} => \E k \in Cached(s) : s.freq[k] <= MaxAverage

SliceInv(s) == /\ s \in Slice /\ Listed(s.lists, s.freq) /\ Summed(s)
               /\ MinIsLowest(s) /\ SomeLow(s) /\ s.minFreq >= 1
               /\ Cardinality(Cached(s)) <= Capacity

----------------------------------------------------------------------------
(* ChatCache: lists *)

LEMMA PickedHas ==
    ASSUME NEW T, NEW s \in Seq(T), Once(s), NEW ix \in SUBSET DOMAIN s
    PROVE  /\ Picked(s, ix) \in Seq(T) /\ Once(Picked(s, ix))
           /\ \A k : Has(Picked(s, ix), k) <=> \E i \in ix : s[i] = k
<1> DEFINE p == Picked(s, ix)
<1>1. /\ p \in Seq(T) /\ Len(p) = Cardinality(ix) /\ Cardinality(ix) \in Nat
      /\ \A i \in ix : Rank(ix, i) \in 1..Cardinality(ix) /\ p[Rank(ix, i)] = s[i]
      /\ \A n \in 1..Cardinality(ix) : \E i \in ix : n = Rank(ix, i)
  BY PickedByRank
<1> HIDE DEF p
<1>2. DOMAIN p = 1..Cardinality(ix)
  BY <1>1
<1>3. \A n \in DOMAIN p : \E i \in ix : n = Rank(ix, i) /\ p[n] = s[i]
  BY <1>1, <1>2
<1>4. Once(p)
  <2> SUFFICES ASSUME NEW m \in DOMAIN p, NEW n \in DOMAIN p, p[m] = p[n]
               PROVE  m = n
    BY DEF Once
  <2>1. PICK i \in ix : m = Rank(ix, i) /\ p[m] = s[i]
    BY <1>3
  <2>2. PICK k \in ix : n = Rank(ix, k) /\ p[n] = s[k]
    BY <1>3
  <2>3. i = k
    BY <2>1, <2>2 DEF Once
  <2> QED BY <2>1, <2>2, <2>3
<1>5. \A k : Has(p, k) <=> \E i \in ix : s[i] = k
  BY <1>1, <1>2, <1>3 DEF Has
<1> QED BY <1>1, <1>4, <1>5 DEF p

LEMMA WithoutHas ==
    ASSUME NEW list \in Seq(Keys), Once(list), NEW k
    PROVE  /\ Without(list, k) \in Seq(Keys) /\ Once(Without(list, k))
           /\ \A j : Has(Without(list, k), j) <=> Has(list, j) /\ j # k
<1> DEFINE ix == {i \in DOMAIN list : list[i] # k}
<1>1. ix \in SUBSET DOMAIN list
  OBVIOUS
<1>2. \A j : (\E i \in ix : list[i] = j) <=> Has(list, j) /\ j # k
  BY DEF Has
<1>3. Without(list, k) = Picked(list, ix)
  BY DEF Without
<1> HIDE DEF ix
<1> QED BY <1>1, <1>2, <1>3, PickedHas

LEMMA AppendedHas ==
    ASSUME NEW list \in Seq(Keys), Once(list), NEW k \in Keys, ~Has(list, k)
    PROVE  /\ Append(list, k) \in Seq(Keys) /\ Once(Append(list, k))
           /\ \A j : Has(Append(list, k), j) <=> Has(list, j) \/ j = k
<1>1. /\ Len(list) \in Nat /\ DOMAIN list = 1..Len(list)
      /\ DOMAIN Append(list, k) = 1..(Len(list) + 1)
      /\ \A i \in 1..Len(list) : Append(list, k)[i] = list[i]
      /\ Append(list, k)[Len(list) + 1] = k
  OBVIOUS
<1>2. \A i \in 1..(Len(list) + 1) : i \in 1..Len(list) \/ i = Len(list) + 1
  BY <1>1
<1>3. \A i \in 1..Len(list) : i \in 1..(Len(list) + 1) /\ Len(list) + 1 \in 1..(Len(list) + 1)
  BY <1>1
<1>4. Once(Append(list, k))
  BY <1>1, <1>2 DEF Once, Has
<1>5. \A j : Has(Append(list, k), j) <=> Has(list, j) \/ j = k
  BY <1>1, <1>2, <1>3 DEF Has
<1> QED BY <1>4, <1>5

----------------------------------------------------------------------------
(* ChatCache: the uses a slice counts *)

\* The frequency lists of a slice by type.
LEMMA SliceFields ==
    ASSUME NEW s \in Slice
    PROVE  /\ s.freq \in [Keys -> 0..MaxTotal] /\ s.value \in [Keys -> Values \cup {None}]
           /\ s.lists \in [1..MaxTotal -> Seq(Keys)] /\ s.minFreq \in 0..INT8_MAX
           /\ s.total \in 0..MaxTotal /\ s.average \in 0..MaxTotal
           /\ Cached(s) \in SUBSET Keys
           /\ \A k \in Keys : k \in Cached(s) <=> s.freq[k] \in 1..MaxTotal
BY TotalAssumption DEF Slice, Cached

\* A key taken out of its list.
LEMMA Unlisted ==
    ASSUME NEW freq \in [Keys -> 0..MaxTotal], NEW lists \in [1..MaxTotal -> Seq(Keys)],
           Listed(lists, freq), NEW k \in Keys, freq[k] > 0
    PROVE  LET l == [lists EXCEPT ![freq[k]] = Without(@, k)]
               g == [freq EXCEPT ![k] = 0]
           IN  /\ l \in [1..MaxTotal -> Seq(Keys)] /\ g \in [Keys -> 0..MaxTotal]
               /\ Listed(l, g)
<1> DEFINE l == [lists EXCEPT ![freq[k]] = Without(@, k)]
           g == [freq EXCEPT ![k] = 0]
<1>1. freq[k] \in 1..MaxTotal /\ lists[freq[k]] \in Seq(Keys) /\ Once(lists[freq[k]])
  BY TotalAssumption DEF Listed
<1>2. /\ Without(lists[freq[k]], k) \in Seq(Keys) /\ Once(Without(lists[freq[k]], k))
      /\ \A j : Has(Without(lists[freq[k]], k), j) <=> Has(lists[freq[k]], j) /\ j # k
  BY <1>1, WithoutHas
<1>3. l \in [1..MaxTotal -> Seq(Keys)] /\ g \in [Keys -> 0..MaxTotal]
  BY <1>1, <1>2, TotalAssumption
<1>4. ASSUME NEW f \in 1..MaxTotal
      PROVE  Once(l[f]) /\ \A j \in Keys : Has(l[f], j) <=> g[j] = f
  <2>1. CASE f = freq[k]
    <3>1. l[f] = Without(lists[freq[k]], k)
      BY <1>1, <2>1
    <3>2. \A j \in Keys : Has(lists[f], j) <=> freq[j] = f
      BY DEF Listed
    <3> QED BY <1>2, <2>1, <3>1, <3>2
  <2>2. CASE f # freq[k]
    <3>1. l[f] = lists[f]
      BY <2>2
    <3>2. Once(lists[f]) /\ \A j \in Keys : Has(lists[f], j) <=> freq[j] = f
      BY DEF Listed
    <3> HIDE DEF l
    <3> QED BY <2>2, <3>1, <3>2
  <2> QED BY <2>1, <2>2
<1> HIDE DEF l, g
<1>5. Listed(l, g)
  BY <1>4 DEF Listed
<1> QED BY <1>3, <1>5 DEF l, g

\* A key that is in no list put at the end of one.
LEMMA NewlyListed ==
    ASSUME NEW freq \in [Keys -> 0..MaxTotal], NEW lists \in [1..MaxTotal -> Seq(Keys)],
           Listed(lists, freq), NEW k \in Keys, freq[k] = 0, NEW n \in 1..MaxTotal
    PROVE  LET l == [lists EXCEPT ![n] = Append(@, k)]
               g == [freq EXCEPT ![k] = n]
           IN  /\ l \in [1..MaxTotal -> Seq(Keys)] /\ g \in [Keys -> 0..MaxTotal]
               /\ Listed(l, g)
<1> DEFINE l == [lists EXCEPT ![n] = Append(@, k)]
           g == [freq EXCEPT ![k] = n]
<1>1. lists[n] \in Seq(Keys) /\ Once(lists[n]) /\ ~Has(lists[n], k)
  BY DEF Listed
<1>2. /\ Append(lists[n], k) \in Seq(Keys) /\ Once(Append(lists[n], k))
      /\ \A j : Has(Append(lists[n], k), j) <=> Has(lists[n], j) \/ j = k
  BY <1>1, AppendedHas
<1>3. l \in [1..MaxTotal -> Seq(Keys)] /\ g \in [Keys -> 0..MaxTotal]
  BY <1>1, <1>2, TotalAssumption
<1>4. ASSUME NEW f \in 1..MaxTotal
      PROVE  Once(l[f]) /\ \A j \in Keys : Has(l[f], j) <=> g[j] = f
  <2>0. \A j \in Keys : Has(lists[f], j) <=> freq[j] = f
    BY DEF Listed
  <2>1. CASE f = n
    <3>1. l[f] = Append(lists[n], k)
      BY <2>1
    <3> HIDE DEF l
    <3> QED BY <1>2, <2>0, <2>1, <3>1
  <2>2. CASE f # n
    <3>1. l[f] = lists[f]
      BY <2>2
    <3>2. Once(lists[f])
      BY DEF Listed
    <3> HIDE DEF l
    <3> QED BY <2>0, <2>2, <3>1, <3>2
  <2> QED BY <2>1, <2>2
<1> HIDE DEF l, g
<1>5. Listed(l, g)
  BY <1>4 DEF Listed
<1> QED BY <1>3, <1>5 DEF l, g

\* What the frequencies count is finite, and no frequency is more than all of it.
LEMMA UsesFinite ==
    ASSUME NEW freq \in [Keys -> 0..MaxTotal], IsFiniteSet(Counting(freq))
    PROVE  /\ IsFiniteSet(Uses(freq)) /\ Cardinality(Uses(freq)) \in Nat
           /\ Cardinality(Counting(freq)) \in Nat
           /\ \A k \in Keys : freq[k] <= Cardinality(Uses(freq))
<1>1. \A n \in Nat : IsFiniteSet(1..n) /\ Cardinality(1..n) = n
  BY FS_Interval
<1>2. IsFiniteSet(1..MaxTotal)
  BY <1>1, TotalAssumption
<1>3. IsFiniteSet(Counting(freq) \X (1..MaxTotal))
  BY <1>2, FS_Product
<1>4. IsFiniteSet(Uses(freq))
  <2>1. Uses(freq) \in SUBSET (Counting(freq) \X (1..MaxTotal))
    BY DEF Uses
  <2> QED BY <1>3, <2>1, FS_Subset
<1>5. ASSUME NEW k \in Keys
      PROVE  freq[k] <= Cardinality(Uses(freq))
  <2> DEFINE P == {k} \X (1..freq[k])
  <2>1. IsFiniteSet(1..freq[k]) /\ Cardinality(1..freq[k]) = freq[k] /\ freq[k] \in 0..MaxTotal
    BY <1>1, TotalAssumption
  <2>2. IsFiniteSet({k}) /\ Cardinality({k}) = 1
    BY FS_Singleton
  <2>3. Cardinality(P) = freq[k]
    <3>1. Cardinality(P) = Cardinality({k}) * Cardinality(1..freq[k])
      BY <2>1, <2>2, FS_Product
    <3> QED BY <2>1, <2>2, <3>1
  <2>4. P \in SUBSET Uses(freq)
    <3>1. ASSUME NEW i \in 1..freq[k]
          PROVE  <<k, i>> \in Uses(freq)
      BY <2>1, TotalAssumption DEF Uses, Counting
    <3> QED BY <3>1
  <2>5. Cardinality(P) <= Cardinality(Uses(freq))
    BY <1>4, <2>4, FS_Subset
  <2> QED BY <2>3, <2>5
<1> QED BY <1>4, <1>5, FS_CardinalityType

\* One access more of one key.
LEMMA UsesRaised ==
    ASSUME NEW freq \in [Keys -> 0..MaxTotal], IsFiniteSet(Counting(freq)),
           NEW k \in Keys, freq[k] < MaxTotal
    PROVE  LET g == [freq EXCEPT ![k] = freq[k] + 1]
           IN  /\ Counting(g) = Counting(freq) \cup {k} /\ IsFiniteSet(Counting(g))
               /\ Cardinality(Uses(g)) = Cardinality(Uses(freq)) + 1
<1> DEFINE g == [freq EXCEPT ![k] = freq[k] + 1]
<1>1. g \in [Keys -> 0..MaxTotal] /\ freq[k] + 1 \in 1..MaxTotal
  BY TotalAssumption
<1>2. Counting(g) = Counting(freq) \cup {k} /\ IsFiniteSet(Counting(g))
  <2>1. Counting(g) = Counting(freq) \cup {k}
    BY DEF Counting
  <2> HIDE DEF g
  <2> QED BY <2>1, FS_AddElement
<1>3. Uses(g) = Uses(freq) \cup {<<k, freq[k] + 1>>}
  <2>1. ASSUME NEW j \in Keys, NEW n \in 1..MaxTotal
        PROVE  <<j, n>> \in Uses(g) <=> <<j, n>> \in Uses(freq) \/ <<j, n>> = <<k, freq[k] + 1>>
    <3>1. <<j, n>> \in Uses(g) <=> n <= g[j]
      BY <1>1 DEF Uses, Counting
    <3>2. <<j, n>> \in Uses(freq) <=> n <= freq[j]
      BY DEF Uses, Counting
    <3> QED BY <3>1, <3>2
  <2>2. Uses(g) \in SUBSET (Keys \X (1..MaxTotal)) /\ Uses(freq) \in SUBSET (Keys \X (1..MaxTotal))
    BY DEF Uses, Counting
  <2>3. <<k, freq[k] + 1>> \in Keys \X (1..MaxTotal)
    BY <1>1
  <2> HIDE DEF g
  <2> QED BY <2>1, <2>2, <2>3
<1>4. <<k, freq[k] + 1>> \notin Uses(freq)
  BY DEF Uses
<1>5. IsFiniteSet(Uses(freq))
  BY UsesFinite
<1>6. Cardinality(Uses(g)) = Cardinality(Uses(freq)) + 1
  BY <1>3, <1>4, <1>5, FS_AddElement
<1> QED BY <1>2, <1>6

\* All the accesses of one key taken off.
LEMMA UsesDropped ==
    ASSUME NEW freq \in [Keys -> 0..MaxTotal], IsFiniteSet(Counting(freq)), NEW k \in Keys
    PROVE  LET g == [freq EXCEPT ![k] = 0]
           IN  /\ Counting(g) = Counting(freq) \ {k} /\ IsFiniteSet(Counting(g))
               /\ Cardinality(Uses(g)) = Cardinality(Uses(freq)) - freq[k]
<1> DEFINE g == [freq EXCEPT ![k] = 0]
           P == {k} \X (1..freq[k])
<1>1. g \in [Keys -> 0..MaxTotal]
  BY TotalAssumption
<1>2. Counting(g) = Counting(freq) \ {k} /\ IsFiniteSet(Counting(g))
  <2>1. Counting(g) = Counting(freq) \ {k}
    BY DEF Counting
  <2> QED BY <2>1, FS_Subset
<1>3. Uses(freq) = Uses(g) \cup P /\ Uses(g) \cap P = {}
  <2>1. ASSUME NEW j \in Keys, NEW n \in 1..MaxTotal
        PROVE  /\ <<j, n>> \in Uses(freq) <=> <<j, n>> \in Uses(g) \/ <<j, n>> \in P
               /\ ~(<<j, n>> \in Uses(g) /\ <<j, n>> \in P)
    <3>1. <<j, n>> \in Uses(g) <=> n <= g[j]
      BY <1>1 DEF Uses, Counting
    <3>2. <<j, n>> \in Uses(freq) <=> n <= freq[j]
      BY DEF Uses, Counting
    <3>3. <<j, n>> \in P <=> j = k /\ n <= freq[k]
      OBVIOUS
    <3> QED BY <3>1, <3>2, <3>3
  <2>2. Uses(g) \in SUBSET (Keys \X (1..MaxTotal)) /\ Uses(freq) \in SUBSET (Keys \X (1..MaxTotal))
    BY DEF Uses, Counting
  <2>3. P \in SUBSET (Keys \X (1..MaxTotal))
    BY TotalAssumption
  <2> HIDE DEF g, P
  <2> QED BY <2>1, <2>2, <2>3
<1>4. IsFiniteSet(P) /\ Cardinality(P) = freq[k]
  <2>1. IsFiniteSet(1..freq[k]) /\ Cardinality(1..freq[k]) = freq[k] /\ freq[k] \in Nat
    <3>1. \A n \in Nat : IsFiniteSet(1..n) /\ Cardinality(1..n) = n
      BY FS_Interval
    <3> QED BY <3>1
  <2>2. IsFiniteSet({k}) /\ Cardinality({k}) = 1
    BY FS_Singleton
  <2>3. IsFiniteSet(P) /\ Cardinality(P) = Cardinality({k}) * Cardinality(1..freq[k])
    BY <2>1, <2>2, FS_Product
  <2> QED BY <2>1, <2>2, <2>3
<1>5. IsFiniteSet(Uses(g)) /\ Cardinality(Uses(g)) \in Nat
  <2> HIDE DEF g
  <2> QED BY <1>1, <1>2, UsesFinite
<1>6. Cardinality(Uses(g) \cup P) = Cardinality(Uses(g)) + Cardinality(P) - Cardinality(Uses(g) \cap P)
  <2> HIDE DEF g, P
  <2> QED BY <1>4, <1>5, FS_Union
<1>7. Cardinality(Uses(g) \cap P) = 0
  <2> HIDE DEF g, P
  <2> QED BY <1>3, FS_EmptySet
<1>8. Cardinality(Uses(g)) = Cardinality(Uses(freq)) - freq[k]
  <2> HIDE DEF g, P
  <2> QED BY <1>3, <1>4, <1>5, <1>6, <1>7
<1> QED BY <1>2, <1>8

\* If every key is used often, the accesses are many.
LEMMA UsesMany ==
    ASSUME NEW freq \in [Keys -> 0..MaxTotal], IsFiniteSet(Counting(freq)),
           NEW n \in 1..MaxTotal, \A k \in Counting(freq) : n <= freq[k]
    PROVE  Cardinality(Counting(freq)) * n <= Cardinality(Uses(freq))
<1>1. Counting(freq) \X (1..n) \in SUBSET Uses(freq)
  BY TotalAssumption DEF Uses, Counting
<1>2. IsFiniteSet(1..n) /\ Cardinality(1..n) = n
  <2>1. \A m \in Nat : IsFiniteSet(1..m) /\ Cardinality(1..m) = m
    BY FS_Interval
  <2> QED BY <2>1, TotalAssumption
<1>3. Cardinality(Counting(freq) \X (1..n)) = Cardinality(Counting(freq)) * n
  BY <1>2, FS_Product
<1>4. IsFiniteSet(Uses(freq))
  BY UsesFinite
<1> QED BY <1>1, <1>3, <1>4, FS_Subset

----------------------------------------------------------------------------
(* ChatCache: the operations of a slice *)

\* A slice by its fields.
LEMMA SliceByFields ==
    ASSUME NEW s \in Slice
    PROVE  s = [freq |-> s.freq, value |-> s.value, lists |-> s.lists, minFreq |-> s.minFreq,
                total |-> s.total, average |-> s.average]
BY DEF Slice

\* A node taken to the list of the next frequency.
LEMMA Moved ==
    ASSUME NEW s \in Slice, Listed(s.lists, s.freq), NEW k \in Keys, s.freq[k] > 0,
           s.freq[k] < MaxTotal
    PROVE  LET t == AddToFreqList([RemoveFromFreqList(s, k) EXCEPT !.freq[k] = @ + 1], k)
           IN  /\ t \in Slice /\ Listed(t.lists, t.freq)
               /\ t.freq = [s.freq EXCEPT ![k] = s.freq[k] + 1]
               /\ t.value = s.value /\ t.minFreq = s.minFreq
               /\ t.total = s.total /\ t.average = s.average
<1> DEFINE f == s.freq[k]
           l == [s.lists EXCEPT ![f] = Without(@, k)]
           g == [s.freq EXCEPT ![k] = 0]
           l2 == [l EXCEPT ![f + 1] = Append(@, k)]
           g2 == [s.freq EXCEPT ![k] = f + 1]
           r == RemoveFromFreqList(s, k)
           r2 == [r EXCEPT !.freq[k] = @ + 1]
           t == AddToFreqList(r2, k)
<1>1. /\ s.freq \in [Keys -> 0..MaxTotal] /\ s.value \in [Keys -> Values \cup {None}]
      /\ s.lists \in [1..MaxTotal -> Seq(Keys)] /\ s.minFreq \in 0..INT8_MAX
      /\ s.total \in 0..MaxTotal /\ s.average \in 0..MaxTotal
  BY SliceFields
<1>2. f \in 1..MaxTotal /\ f + 1 \in 1..MaxTotal
  BY <1>1, TotalAssumption
<1>3. l \in [1..MaxTotal -> Seq(Keys)] /\ g \in [Keys -> 0..MaxTotal] /\ Listed(l, g)
  BY <1>1, Unlisted
<1>4. g[k] = 0 /\ [g EXCEPT ![k] = f + 1] = g2
  BY <1>1
<1>5. l2 \in [1..MaxTotal -> Seq(Keys)] /\ g2 \in [Keys -> 0..MaxTotal] /\ Listed(l2, g2)
  <2> HIDE DEF l, g, f, g2
  <2> QED BY <1>2, <1>3, <1>4, NewlyListed
<1>6. r = [freq |-> s.freq, value |-> s.value, lists |-> l, minFreq |-> s.minFreq,
           total |-> s.total, average |-> s.average]
  <2>1. r = [s EXCEPT !.lists = l]
    BY DEF RemoveFromFreqList
  <2> HIDE DEF l, r
  <2> QED BY <2>1, SliceByFields
<1>7. r2 = [freq |-> g2, value |-> s.value, lists |-> l, minFreq |-> s.minFreq,
           total |-> s.total, average |-> s.average]
  <2> HIDE DEF l, r
  <2> QED BY <1>6
<1>8. g2[k] = f + 1
  BY <1>1
<1>9. t = [freq |-> g2, value |-> s.value, lists |-> l2, minFreq |-> s.minFreq,
           total |-> s.total, average |-> s.average]
  <2> HIDE DEF g2, r2
  <2>1. r2.freq[k] = f + 1 /\ r2.lists = l
    BY <1>7, <1>8
  <2>2. t = [r2 EXCEPT !.lists = l2]
    BY <2>1 DEF AddToFreqList
  <2> HIDE DEF l2, t
  <2> QED BY <1>7, <2>2
<1> HIDE DEF l2, g2, t
<1>10. t \in Slice
  BY <1>1, <1>5, <1>9 DEF Slice
<1> QED BY <1>5, <1>9, <1>10 DEF g2, t

\* A new node put into the first list.
LEMMA Added ==
    ASSUME NEW s \in Slice, Listed(s.lists, s.freq), NEW k \in Keys, s.freq[k] = 0,
           NEW v \in Values
    PROVE  LET t == AddToFreqList([s EXCEPT !.freq[k] = 1, !.value[k] = v], k)
           IN  /\ t \in Slice /\ Listed(t.lists, t.freq)
               /\ t.freq = [s.freq EXCEPT ![k] = 1] /\ t.value = [s.value EXCEPT ![k] = v]
               /\ t.minFreq = s.minFreq /\ t.total = s.total /\ t.average = s.average
<1> DEFINE g == [s.freq EXCEPT ![k] = 1]
           w == [s.value EXCEPT ![k] = v]
           l == [s.lists EXCEPT ![1] = Append(@, k)]
           r == [s EXCEPT !.freq[k] = 1, !.value[k] = v]
           t == AddToFreqList(r, k)
<1>1. /\ s.freq \in [Keys -> 0..MaxTotal] /\ s.value \in [Keys -> Values \cup {None}]
      /\ s.lists \in [1..MaxTotal -> Seq(Keys)] /\ s.minFreq \in 0..INT8_MAX
      /\ s.total \in 0..MaxTotal /\ s.average \in 0..MaxTotal
  BY SliceFields
<1>2. l \in [1..MaxTotal -> Seq(Keys)] /\ g \in [Keys -> 0..MaxTotal] /\ Listed(l, g)
  <2>1. 1 \in 1..MaxTotal
    BY TotalAssumption
  <2> QED BY <1>1, <2>1, NewlyListed
<1>3. w \in [Keys -> Values \cup {None}] /\ g[k] = 1
  BY <1>1
<1>4. r = [freq |-> g, value |-> w, lists |-> s.lists, minFreq |-> s.minFreq,
           total |-> s.total, average |-> s.average]
  <2> DEFINE q == [s EXCEPT !.freq = g]
  <2>1. q = [freq |-> g, value |-> s.value, lists |-> s.lists, minFreq |-> s.minFreq,
             total |-> s.total, average |-> s.average]
    <3> HIDE DEF g
    <3> QED BY SliceByFields
  <2>2. r = [q EXCEPT !.value = w]
    <3>1. q.value = s.value
      <4> HIDE DEF q, g
      <4> QED BY <2>1
    <3>2. r = [q EXCEPT !.value[k] = v]
      OBVIOUS
    <3> HIDE DEF q, r
    <3> QED BY <3>1, <3>2
  <2> HIDE DEF g, w, r, q
  <2> QED BY <2>1, <2>2
<1>5. t = [freq |-> g, value |-> w, lists |-> l, minFreq |-> s.minFreq,
           total |-> s.total, average |-> s.average]
  <2> HIDE DEF g, r
  <2>1. r.freq[k] = 1 /\ r.lists = s.lists
    BY <1>3, <1>4
  <2>2. t = [r EXCEPT !.lists = l]
    BY <2>1 DEF AddToFreqList
  <2> HIDE DEF l, t, w
  <2> QED BY <1>4, <2>2
<1> HIDE DEF l, g, w, t
<1>6. t \in Slice
  BY <1>1, <1>2, <1>3, <1>5 DEF Slice
<1> QED BY <1>2, <1>5, <1>6 DEF g, w, t

\* The least average of a total.
LEMMA Quotient ==
    ASSUME NEW a \in Nat, NEW n \in Nat \ {0}
    PROVE  a \div n \in 0..a /\ n * (a \div n) <= a /\ a < n * (a \div n) + n
<1>1. a \div n \in Nat /\ n * (a \div n) <= a /\ a < n * (a \div n) + n
  OBVIOUS
<1> DEFINE q == a \div n
<1> HIDE DEF q
<1>2. \A x, y \in Nat : x # 0 => y <= x * y
  OBVIOUS
<1> QED BY <1>1, <1>2

LEMMA Averaged ==
    ASSUME NEW s \in Slice, IsFiniteSet(Cached(s))
    PROVE  /\ Average(s) \in Slice
           /\ Average(s).freq = s.freq /\ Average(s).value = s.value /\ Average(s).lists = s.lists
           /\ Average(s).minFreq = s.minFreq /\ Average(s).total = s.total
           /\ Cached(s) # {} => Average(s).average = s.total \div Cardinality(Cached(s))
<1> DEFINE a == IF Cached(s) = {} THEN 0 ELSE s.total \div Cardinality(Cached(s))
<1>1. a \in 0..MaxTotal
  <2>1. CASE Cached(s) = {}
    BY <2>1, TotalAssumption
  <2>2. CASE Cached(s) # {}
    <3>1. Cardinality(Cached(s)) \in Nat \ {0}
      BY <2>2, FS_CardinalityType, FS_EmptySet
    <3>2. s.total \in 0..MaxTotal
      BY SliceFields
    <3>3. s.total \div Cardinality(Cached(s)) \in 0..s.total
      BY <3>1, <3>2, Quotient, TotalAssumption
    <3> QED BY <2>2, <3>2, <3>3, TotalAssumption
  <2> QED BY <2>1, <2>2
<1>2. Average(s) = [s EXCEPT !.average = a]
  BY DEF Average
<1>3. Cached(s) # {} => a = s.total \div Cardinality(Cached(s))
  OBVIOUS
<1> HIDE DEF a
<1>4. Average(s) \in Slice
  BY <1>1, <1>2 DEF Slice
<1> QED BY <1>2, <1>3, <1>4 DEF Slice

\* The list that eviction goes by is found, and its first node is used the least.
LEMMA Kicked ==
    ASSUME NEW s, SliceInv(s), Cached(s) # {}
    PROVE  LET t == KickOut(s)
           IN  \E k \in Cached(s) :
                  /\ \A j \in Cached(s) : s.freq[k] <= s.freq[j]
                  /\ t \in Slice /\ Listed(t.lists, t.freq) /\ Summed(t)
                  /\ t.freq = [s.freq EXCEPT ![k] = 0] /\ t.value = [s.value EXCEPT ![k] = None]
                  /\ t.minFreq = s.minFreq /\ t.total = s.total - s.freq[k]
<1> DEFINE m == s.minFreq
           k == Head(s.lists[m])
           l == [s.lists EXCEPT ![m] = Without(@, k)]
           g == [s.freq EXCEPT ![k] = 0]
           w == [s.value EXCEPT ![k] = None]
           r == [RemoveFromFreqList(s, k) EXCEPT !.freq[k] = 0, !.value[k] = None]
           d == [r EXCEPT !.total = @ - s.freq[k]]
<1>1. /\ s \in Slice /\ Listed(s.lists, s.freq) /\ Summed(s)
      /\ s.freq \in [Keys -> 0..MaxTotal] /\ s.value \in [Keys -> Values \cup {None}]
      /\ s.lists \in [1..MaxTotal -> Seq(Keys)] /\ s.minFreq \in 0..INT8_MAX
      /\ s.total \in 0..MaxTotal /\ s.average \in 0..MaxTotal
  BY SliceFields DEF SliceInv
<1>2. PICK j \in Cached(s) : s.freq[j] = m
  BY DEF SliceInv, MinIsLowest
<1>3. j \in Keys /\ m \in 1..MaxTotal /\ Has(s.lists[m], j) /\ s.lists[m] \in Seq(Keys)
  <2>1. j \in Keys /\ s.freq[j] \in 1..MaxTotal
    BY <1>1, <1>2, SliceFields
  <2>2. m \in 1..MaxTotal
    BY <1>2, <2>1
  <2>3. Has(s.lists[m], j)
    BY <1>1, <1>2, <2>1, <2>2 DEF Listed
  <2> QED BY <1>1, <2>1, <2>2, <2>3
<1>4. /\ s.lists[m] # <<>> /\ k \in Keys /\ Has(s.lists[m], k)
  <2>1. s.lists[m] # <<>>
    BY <1>3 DEF Has
  <2>2. k = s.lists[m][1] /\ 1 \in DOMAIN s.lists[m]
    BY <1>3, <2>1
  <2> QED BY <1>3, <2>1, <2>2 DEF Has
<1>5. s.freq[k] = m /\ k \in Cached(s)
  BY <1>1, <1>3, <1>4 DEF Listed, Cached
<1>6. \A i \in Cached(s) : s.freq[k] <= s.freq[i]
  BY <1>5 DEF SliceInv, MinIsLowest
<1>7. KickOut(s) = Average(d)
  <2>1. FreqList(s, s.minFreq) = s.lists[m]
    BY <1>3 DEF FreqList
  <2> QED BY <1>4, <2>1 DEF KickOut, DecreaseFreqNum
<1>8. l \in [1..MaxTotal -> Seq(Keys)] /\ g \in [Keys -> 0..MaxTotal] /\ Listed(l, g)
  <2> HIDE DEF m, k
  <2>1. s.freq[k] > 0
    BY <1>3, <1>5
  <2> QED BY <1>1, <1>4, <1>5, <2>1, Unlisted
<1>9. w \in [Keys -> Values \cup {None}]
  BY <1>1
<1>10. /\ Counting(g) = Counting(s.freq) \ {k} /\ IsFiniteSet(Counting(g))
       /\ Cardinality(Uses(g)) = Cardinality(Uses(s.freq)) - m
       /\ Cardinality(Uses(g)) \in Nat /\ Cardinality(Uses(s.freq)) <= s.total
  <2>1. IsFiniteSet(Counting(s.freq)) /\ Cardinality(Uses(s.freq)) <= s.total
    BY <1>1 DEF Summed, Counting, Cached
  <2>2. /\ Counting(g) = Counting(s.freq) \ {k} /\ IsFiniteSet(Counting(g))
        /\ Cardinality(Uses(g)) = Cardinality(Uses(s.freq)) - s.freq[k]
    <3> HIDE DEF k
    <3> QED BY <1>1, <1>4, <2>1, UsesDropped
  <2>3. Cardinality(Uses(g)) \in Nat /\ Cardinality(Uses(s.freq)) \in Nat
    <3> HIDE DEF g
    <3> QED BY <1>1, <1>8, <2>1, <2>2, UsesFinite
  <2> QED BY <1>5, <2>1, <2>2, <2>3
<1>11. s.total - m \in 0..MaxTotal /\ Cardinality(Uses(g)) <= s.total - m
  <2> HIDE DEF g
  <2>1. Cardinality(Uses(s.freq)) \in Nat
    BY <1>1, UsesFinite DEF Summed, Counting, Cached
  <2> QED BY <1>1, <1>3, <1>10, <2>1, TotalAssumption, SMTT(30)
<1>12. r = [freq |-> g, value |-> w, lists |-> l, minFreq |-> s.minFreq,
            total |-> s.total, average |-> s.average]
  <2> DEFINE q == RemoveFromFreqList(s, k)
             q2 == [q EXCEPT !.freq[k] = 0]
  <2> HIDE DEF k, m
  <2>1. q = [freq |-> s.freq, value |-> s.value, lists |-> l, minFreq |-> s.minFreq,
             total |-> s.total, average |-> s.average]
    <3>1. q = [s EXCEPT !.lists = l]
      BY <1>5 DEF RemoveFromFreqList
    <3> HIDE DEF l, q
    <3> QED BY <1>1, <3>1, SliceByFields
  <2>2. q2 = [freq |-> g, value |-> s.value, lists |-> l, minFreq |-> s.minFreq,
              total |-> s.total, average |-> s.average]
    <3> HIDE DEF l, q
    <3> QED BY <2>1
  <2>3. r = [q2 EXCEPT !.value[k] = None]
    OBVIOUS
  <2>4. q2.value = s.value
    <3> HIDE DEF q2, g, l
    <3> QED BY <2>2
  <2>5. r = [q2 EXCEPT !.value = w]
    <3> HIDE DEF q2, r
    <3> QED BY <2>3, <2>4
  <2> HIDE DEF q2, g, l, r, w
  <2> QED BY <2>2, <2>5
<1>13. d = [freq |-> g, value |-> w, lists |-> l, minFreq |-> s.minFreq,
            total |-> s.total - m, average |-> s.average]
  <2> HIDE DEF k, r, g, w, l
  <2> QED BY <1>5, <1>12
<1> HIDE DEF d, g, w, l, r
<1>14. d \in Slice /\ d.freq = g
  BY <1>1, <1>8, <1>9, <1>11, <1>13 DEF Slice
<1>15. Cached(d) = Counting(g)
  BY <1>14 DEF Cached, Counting
<1>16. /\ Average(d) \in Slice
       /\ Average(d).freq = d.freq /\ Average(d).value = d.value /\ Average(d).lists = d.lists
       /\ Average(d).minFreq = d.minFreq /\ Average(d).total = d.total
  BY <1>10, <1>14, <1>15, Averaged
<1>17. Summed(Average(d))
  <2>1. Cached(Average(d)) = Counting(g) /\ Average(d).total = s.total - m
    BY <1>13, <1>14, <1>16 DEF Cached, Counting
  <2> QED BY <1>10, <1>11, <1>14, <1>16, <2>1 DEF Summed
<1>18. /\ Listed(Average(d).lists, Average(d).freq)
       /\ Average(d).freq = g /\ Average(d).value = w /\ Average(d).minFreq = s.minFreq
       /\ Average(d).total = s.total - m
  BY <1>8, <1>13, <1>16
<1> HIDE DEF k
<1> QED BY <1>5, <1>6, <1>7, <1>16, <1>17, <1>18 DEF g, w

\* Aging: the order has every node once, so each is put once into a list, that of
\* its lower frequency.
LEMMA LoweredKeeps ==
    ASSUME NEW s \in Slice, NEW K \in SUBSET Keys, IsFiniteSet(K), Cached(s) \in SUBSET K,
           NEW order \in Orders(K)
    PROVE  LET t == Lowered(s, order)
           IN  /\ t \in Slice /\ Listed(t.lists, t.freq)
               /\ t.value = s.value /\ t.minFreq = s.minFreq
               /\ t.total = s.total /\ t.average = s.average
               /\ \A k \in Keys :
                     /\ s.freq[k] = 0 => t.freq[k] = 0
                     /\ s.freq[k] > 0 /\ s.freq[k] - MaxAverage \div 2 < 1 => t.freq[k] = 1
                     /\ s.freq[k] > 0 /\ ~(s.freq[k] - MaxAverage \div 2 < 1) =>
                           t.freq[k] = s.freq[k] - MaxAverage \div 2
<1> DEFINE lower(f) == IF f - MaxAverage \div 2 < 1 THEN 1 ELSE f - MaxAverage \div 2
           g == [k \in Keys |-> IF s.freq[k] > 0 THEN lower(s.freq[k]) ELSE 0]
           ix(f) == {i \in DOMAIN order : g[order[i]] = f}
           l == [f \in 1..MaxTotal |-> Picked(order, ix(f))]
           t == Lowered(s, order)
<1>1. /\ s.freq \in [Keys -> 0..MaxTotal] /\ s.value \in [Keys -> Values \cup {None}]
      /\ s.lists \in [1..MaxTotal -> Seq(Keys)] /\ s.minFreq \in 0..INT8_MAX
      /\ s.total \in 0..MaxTotal /\ s.average \in 0..MaxTotal
  BY SliceFields
<1>2. MaxAverage \div 2 \in Nat
  BY AverageAssumption DEF INT8_MAX
<1>3. g \in [Keys -> 0..MaxTotal]
  BY <1>1, <1>2, TotalAssumption
<1>4. order \in Seq(Keys) /\ Once(order) /\ \A k \in Cached(s) : Has(order, k)
  <2>1. Cardinality(K) \in Nat
    BY FS_CardinalityType
  <2>2. order \in [1..Cardinality(K) -> K] /\ DOMAIN order = 1..Cardinality(K)
    BY DEF Orders
  <2>3. order \in Seq(Keys)
    BY <2>1, <2>2
  <2>4. Once(order)
    BY DEF Once, Orders
  <2>5. order \in Injection(1..Cardinality(K), K)
    BY <2>2, <2>4 DEF Injection, IsInjective, Once
  <2>6. IsFiniteSet(1..Cardinality(K)) /\ Cardinality(1..Cardinality(K)) = Cardinality(K)
    <3>1. \A n \in Nat : IsFiniteSet(1..n) /\ Cardinality(1..n) = n
      BY FS_Interval
    <3> QED BY <2>1, <3>1
  <2>7. order \in Surjection(1..Cardinality(K), K)
    BY <2>5, <2>6, FS_Injection
  <2>8. \A k \in K : Has(order, k)
    BY <2>2, <2>7 DEF Surjection, Has
  <2> QED BY <2>3, <2>4, <2>8
<1>5. ASSUME NEW f \in 1..MaxTotal
      PROVE  l[f] \in Seq(Keys) /\ Once(l[f]) /\ \A k \in Keys : Has(l[f], k) <=> g[k] = f
  <2>1. l[f] = Picked(order, ix(f)) /\ ix(f) \in SUBSET DOMAIN order
    OBVIOUS
  <2>2. ASSUME NEW k \in Keys
        PROVE  (\E i \in ix(f) : order[i] = k) <=> g[k] = f
    <3>1. CASE g[k] = f
      <4>1. s.freq[k] > 0
        BY <1>1, <3>1
      <4>2. k \in Cached(s)
        BY <4>1 DEF Cached
      <4> HIDE DEF g
      <4> QED BY <1>4, <3>1, <4>2 DEF Has
    <3>2. CASE g[k] # f
      <4> HIDE DEF g
      <4> QED BY <3>2
    <3> QED BY <3>1, <3>2
  <2> HIDE DEF ix, l, g
  <2>3. Picked(order, ix(f)) \in Seq(Keys) /\ Once(Picked(order, ix(f)))
    BY <1>4, <2>1, PickedHas
  <2>4. \A k : Has(Picked(order, ix(f)), k) <=> \E i \in ix(f) : order[i] = k
    BY <1>4, <2>1, PickedHas
  <2> QED BY <2>1, <2>2, <2>3, <2>4
<1>6. l \in [1..MaxTotal -> Seq(Keys)] /\ Listed(l, g)
  <2> HIDE DEF g
  <2>1. l = [f \in 1..MaxTotal |-> l[f]]
    OBVIOUS
  <2> HIDE DEF l
  <2> QED BY <1>5, <2>1 DEF Listed
<1>7. t = [freq |-> g, value |-> s.value, lists |-> l, minFreq |-> s.minFreq,
           total |-> s.total, average |-> s.average]
  <2>1. t = [s EXCEPT !.freq = g, !.lists = l]
    BY DEF Lowered
  <2> DEFINE q == [s EXCEPT !.freq = g]
  <2>2. q = [freq |-> g, value |-> s.value, lists |-> s.lists, minFreq |-> s.minFreq,
             total |-> s.total, average |-> s.average]
    <3> HIDE DEF g
    <3> QED BY SliceByFields
  <2>3. t = [q EXCEPT !.lists = l]
    <3> HIDE DEF g, l, t
    <3> QED BY <2>1
  <2> HIDE DEF g, l, t, q
  <2> QED BY <2>2, <2>3
<1>8. t \in Slice /\ t.freq = g
  <2> HIDE DEF g, l, t
  <2> QED BY <1>1, <1>3, <1>6, <1>7 DEF Slice
<1>9. Listed(t.lists, t.freq) /\ t.value = s.value /\ t.minFreq = s.minFreq
      /\ t.total = s.total /\ t.average = s.average
  <2> HIDE DEF g, l, t
  <2> QED BY <1>6, <1>7
<1>10. \A k \in Keys :
          /\ s.freq[k] = 0 => g[k] = 0
          /\ s.freq[k] > 0 /\ s.freq[k] - MaxAverage \div 2 < 1 => g[k] = 1
          /\ s.freq[k] > 0 /\ ~(s.freq[k] - MaxAverage \div 2 < 1) =>
                g[k] = s.freq[k] - MaxAverage \div 2
  BY <1>1
<1> HIDE DEF g, t
<1> QED BY <1>8, <1>9, <1>10 DEF t

\* The search finds the lowest list that has a node, if there is one below INT8_MAX.
LEMMA MinUpdated ==
    ASSUME NEW s \in Slice, Listed(s.lists, s.freq),
           NEW low \in Cached(s), s.freq[low] < INT8_MAX
    PROVE  LET t == UpdateMinFreq(s)
           IN  /\ t \in Slice /\ MinIsLowest(t) /\ t.minFreq >= 1
               /\ t.freq = s.freq /\ t.value = s.value /\ t.lists = s.lists
               /\ t.total = s.total /\ t.average = s.average
<1> DEFINE used == {INT8_MAX} \cup {f \in 1..MaxTotal : s.lists[f] # <<>>}
           min == CHOOSE f \in used : \A g \in used : f <= g
           m == IF min = INT8_MAX THEN 1 ELSE min
           t == UpdateMinFreq(s)
<1>1. s.lists \in [1..MaxTotal -> Seq(Keys)] /\ s.freq \in [Keys -> 0..MaxTotal]
  BY SliceFields
<1>2. \A f \in 1..MaxTotal : s.lists[f] # <<>> <=> \E k \in Cached(s) : s.freq[k] = f
  <2> SUFFICES ASSUME NEW f \in 1..MaxTotal
               PROVE  s.lists[f] # <<>> <=> \E k \in Cached(s) : s.freq[k] = f
    OBVIOUS
  <2>1. ASSUME s.lists[f] # <<>>
        PROVE  \E k \in Cached(s) : s.freq[k] = f
    <3>1. s.lists[f] \in Seq(Keys) /\ 1 \in DOMAIN s.lists[f] /\ s.lists[f][1] \in Keys
      <4>1. s.lists[f] \in Seq(Keys)
        BY <1>1
      <4> QED BY <2>1, <4>1
    <3>2. s.freq[s.lists[f][1]] = f
      BY <3>1 DEF Listed, Has
    <3> QED BY <3>1, <3>2 DEF Cached
  <2>2. ASSUME NEW k \in Cached(s), s.freq[k] = f
        PROVE  s.lists[f] # <<>>
    <3>1. Has(s.lists[f], k)
      BY <2>2 DEF Listed, Cached
    <3>2. s.lists[f] \in Seq(Keys)
      BY <1>1
    <3> QED BY <3>1, <3>2 DEF Has
  <2> QED BY <2>1, <2>2
<1>3. used \in SUBSET Nat /\ INT8_MAX \in used
  BY TotalAssumption DEF INT8_MAX
<1>4. min \in used /\ \A g \in used : min <= g
  <2> HIDE DEF used
  <2>1. \E f \in used : \A g \in used : f <= g
    BY <1>3, LeastOf
  <2> QED BY <2>1
<1>5. \A k \in Cached(s) : s.freq[k] \in used /\ k \in Keys /\ s.freq[k] \in 1..MaxTotal
  BY <1>2, SliceFields
<1>6. min # INT8_MAX
  <2> HIDE DEF min, used
  <2>1. min <= s.freq[low] /\ s.freq[low] \in Nat /\ s.freq[low] < INT8_MAX
    BY <1>4, <1>5
  <2> QED BY <2>1 DEF INT8_MAX
<1>7. m = min /\ min \in 1..MaxTotal /\ s.lists[min] # <<>> /\ min <= INT8_MAX
  BY <1>3, <1>4, <1>6
<1>8. t = [s EXCEPT !.minFreq = m]
  BY DEF UpdateMinFreq
<1>9. PICK k \in Cached(s) : s.freq[k] = min
  BY <1>2, <1>7
<1>10. \A j \in Cached(s) : min <= s.freq[j]
  BY <1>4, <1>5
<1> HIDE DEF m, min, used, t
<1>11. /\ t.freq = s.freq /\ t.value = s.value /\ t.lists = s.lists
       /\ t.total = s.total /\ t.average = s.average /\ t.minFreq = min
  BY <1>7, <1>8 DEF Slice
<1>12. min \in 0..INT8_MAX
  BY <1>7, TotalAssumption DEF INT8_MAX
<1>13. t \in Slice
  BY <1>7, <1>8, <1>12 DEF Slice
<1>14. MinIsLowest(t) /\ t.minFreq >= 1
  <2>1. Cached(t) = Cached(s)
    BY <1>11 DEF Cached
  <2> QED BY <1>7, <1>9, <1>10, <1>11, <2>1 DEF MinIsLowest
<1> QED BY <1>11, <1>13, <1>14 DEF t

\* Taking a frequency down leaves fewer accesses counted.
LEMMA UsesLowered ==
    ASSUME NEW freq \in [Keys -> 0..MaxTotal], NEW g \in [Keys -> 0..MaxTotal],
           IsFiniteSet(Counting(freq)),
           \A k \in Keys : g[k] <= freq[k]
    PROVE  Cardinality(Uses(g)) <= Cardinality(Uses(freq))
<1>1. Uses(g) \in SUBSET Uses(freq)
  <2>1. ASSUME NEW k \in Keys, NEW n \in 1..MaxTotal, <<k, n>> \in Uses(g)
        PROVE  <<k, n>> \in Uses(freq)
    <3>1. n <= g[k] /\ g[k] <= freq[k] /\ g[k] \in 0..MaxTotal /\ freq[k] \in 0..MaxTotal
      BY <2>1 DEF Uses
    <3> QED BY <3>1, TotalAssumption DEF Uses, Counting
  <2>2. Uses(g) \in SUBSET (Keys \X (1..MaxTotal))
    BY DEF Uses, Counting
  <2> QED BY <2>1, <2>2
<1> QED BY <1>1, UsesFinite, FS_Subset

\* An access counted, and the slice aged if the average is above its limit: some
\* node is seldom used afterwards, and the minimum is the lowest list's.
LEMMA Counted ==
    ASSUME NEW u \in Slice, Listed(u.lists, u.freq), IsFiniteSet(Cached(u)),
           Cardinality(Uses(u.freq)) <= u.total + 1, u.total < MaxTotal, u.minFreq >= 1,
           NEW low \in Cached(u), u.freq[low] <= MaxAverage + 1,
           NEW K \in SUBSET Keys, IsFiniteSet(K), Cached(u) \in SUBSET K,
           NEW order \in Orders(K)
    PROVE  LET r == AddFreqNum(u, order)
           IN  /\ r \in Slice /\ Listed(r.lists, r.freq) /\ Summed(r) /\ SomeLow(r)
               /\ r.minFreq >= 1 /\ Cached(r) = Cached(u) /\ r.value = u.value
               /\ MinIsLowest(u) => MinIsLowest(r)
               /\ \A k \in Keys : u.freq[k] = 1 => r.freq[k] = 1
<1> DEFINE c == [u EXCEPT !.total = @ + 1]
           t == Average(c)
           a == Lowered(t, order)
           r == AddFreqNum(u, order)
<1>1. u.total + 1 \in 0..MaxTotal /\ u.total \in 0..MaxTotal /\ u.freq \in [Keys -> 0..MaxTotal]
  BY SliceFields, TotalAssumption
<1>2. /\ c \in Slice /\ c.total = u.total + 1 /\ c.freq = u.freq /\ c.value = u.value
      /\ c.lists = u.lists /\ c.minFreq = u.minFreq
  BY <1>1 DEF Slice
<1>3. Cached(c) = Cached(u)
  BY <1>2 DEF Cached
<1>4. /\ t \in Slice /\ t.total = u.total + 1 /\ t.freq = u.freq /\ t.value = u.value
      /\ t.lists = u.lists /\ t.minFreq = u.minFreq
      /\ t.average = t.total \div Cardinality(Cached(u))
  <2> HIDE DEF c
  <2> QED BY <1>2, <1>3, Averaged
<1> HIDE DEF t
<1>5. /\ Cached(t) = Cached(u) /\ Cached(u) = Counting(u.freq)
      /\ Cardinality(Cached(u)) \in Nat \ {0}
      /\ Cardinality(Uses(u.freq)) \in Nat
  <2>1. Cached(t) = Cached(u) /\ Cached(u) = Counting(u.freq)
    BY <1>4 DEF Cached, Counting
  <2>2. Cardinality(Uses(u.freq)) \in Nat
    BY <1>1, <2>1, UsesFinite
  <2> QED BY <2>1, <2>2, FS_CardinalityType, FS_EmptySet
<1>6. MaxAverage \in 2..126 /\ u.freq[low] \in 1..MaxTotal /\ low \in Keys
  BY AverageAssumption, SliceFields DEF INT8_MAX
<1>7. CASE ~(t.average > MaxAverage)
  <2>1. r = t
    BY <1>7 DEF AddFreqNum, t
  <2>2. Summed(t)
    BY <1>4, <1>5 DEF Summed
  <2>3. SomeLow(t)
    <3>1. SUFFICES ASSUME \A k \in Cached(t) : ~(t.freq[k] <= MaxAverage)
                   PROVE  FALSE
      BY DEF SomeLow
    <3>2. \A k \in Counting(u.freq) : MaxAverage + 1 <= u.freq[k]
      BY <1>1, <1>4, <1>5, <1>6, <3>1 DEF Counting
    <3>3. MaxAverage + 1 \in 1..MaxTotal
      <4>1. MaxAverage + 1 <= u.freq[low]
        BY <1>5, <3>2
      <4> QED BY <1>6, <4>1, TotalAssumption
    <3>4. Cardinality(Counting(u.freq)) * (MaxAverage + 1) <= Cardinality(Uses(u.freq))
      BY <1>1, <1>5, <3>2, <3>3, UsesMany
    <3> DEFINE n == Cardinality(Cached(u))
               q == t.average
    <3>5. n \in Nat \ {0} /\ n * (MaxAverage + 1) <= t.total
      BY <1>1, <1>4, <1>5, <3>3, <3>4
    <3>6. t.total \in Nat /\ t.total < n * q + n /\ q \in Nat
      <4>1. t.total \in Nat
        BY <1>1, <1>4, TotalAssumption
      <4>2. q = t.total \div n
        BY <1>4
      <4> DEFINE total == t.total
      <4> HIDE DEF q, n, total
      <4>3. total \in Nat /\ n \in Nat \ {0} /\ q = total \div n
        BY <3>5, <4>1, <4>2 DEF total
      <4>4. q \in 0..total /\ total < n * q + n
        BY <4>3, Quotient
      <4> QED BY <4>1, <4>4 DEF total
    <3>7. q <= MaxAverage
      BY <1>6, <1>7, <3>6
    <3>8. n * q <= n * MaxAverage /\ n * (MaxAverage + 1) = n * MaxAverage + n
          /\ n * q \in Nat /\ n * MaxAverage \in Nat
      <4>1. \A x, y, z \in Nat : y <= z => x * y <= x * z
        OBVIOUS
      <4>2. \A x, y \in Nat : x * (y + 1) = x * y + x /\ x * y \in Nat
        OBVIOUS
      <4> HIDE DEF n, q
      <4> QED BY <1>6, <3>5, <3>6, <3>7, <4>1, <4>2
    <3> HIDE DEF n, q
    <3> QED BY <3>5, <3>6, <3>8
  <2>4. MinIsLowest(u) => MinIsLowest(t)
    BY <1>4, <1>5 DEF MinIsLowest
  <2> QED BY <1>4, <1>5, <2>1, <2>2, <2>3, <2>4
<1>8. CASE t.average > MaxAverage
  <2>1. r = UpdateMinFreq(a)
    BY <1>8 DEF AddFreqNum, HandleOverMaxAverageNum, t
  <2>2. /\ a \in Slice /\ Listed(a.lists, a.freq)
        /\ a.value = t.value /\ a.minFreq = t.minFreq /\ a.total = t.total
        /\ \A k \in Keys :
              /\ t.freq[k] = 0 => a.freq[k] = 0
              /\ t.freq[k] > 0 /\ t.freq[k] - MaxAverage \div 2 < 1 => a.freq[k] = 1
              /\ t.freq[k] > 0 /\ ~(t.freq[k] - MaxAverage \div 2 < 1) =>
                    a.freq[k] = t.freq[k] - MaxAverage \div 2
    BY <1>4, <1>5, LoweredKeeps
  <2> DEFINE h == MaxAverage \div 2
  <2>3. h \in 1..MaxAverage
    BY <1>6
  <2> HIDE DEF a
  <2>4. \A k \in Keys : /\ a.freq[k] <= u.freq[k] /\ (a.freq[k] > 0 <=> u.freq[k] > 0)
                        /\ u.freq[k] = 1 => a.freq[k] = 1
    <3> SUFFICES ASSUME NEW k \in Keys
                 PROVE  /\ a.freq[k] <= u.freq[k] /\ (a.freq[k] > 0 <=> u.freq[k] > 0)
                        /\ u.freq[k] = 1 => a.freq[k] = 1
      OBVIOUS
    <3>1. u.freq[k] \in 0..MaxTotal
      BY <1>1
    <3>2. /\ u.freq[k] = 0 => a.freq[k] = 0
          /\ u.freq[k] > 0 /\ u.freq[k] - h < 1 => a.freq[k] = 1
          /\ u.freq[k] > 0 /\ ~(u.freq[k] - h < 1) => a.freq[k] = u.freq[k] - h
      BY <1>4, <2>2
    <3> HIDE DEF h
    <3> QED BY <1>6, <2>3, <3>1, <3>2
  <2>5. Cached(a) = Cached(u)
    BY <2>4 DEF Cached
  <2>6. a.freq[low] <= MaxAverage /\ a.freq[low] < INT8_MAX
    <3>1. /\ u.freq[low] - h < 1 => a.freq[low] = 1
          /\ ~(u.freq[low] - h < 1) => a.freq[low] = u.freq[low] - h
      BY <1>4, <1>6, <2>2
    <3> HIDE DEF h
    <3> QED BY <1>6, <2>3, <3>1 DEF INT8_MAX
  <2>7. Cardinality(Uses(a.freq)) <= a.total
    <3>1. a.freq \in [Keys -> 0..MaxTotal]
      BY <2>2, SliceFields
    <3>2. Cardinality(Uses(a.freq)) <= Cardinality(Uses(u.freq))
      BY <1>1, <1>5, <2>4, <3>1, UsesLowered
    <3>3. Cardinality(Uses(a.freq)) \in Nat
      <4>1. Counting(a.freq) = Cached(u)
        BY <2>5 DEF Counting, Cached
      <4> QED BY <3>1, <4>1, UsesFinite
    <3> QED BY <1>1, <1>4, <1>5, <2>2, <3>2, <3>3
  <2>8. /\ r \in Slice /\ MinIsLowest(r) /\ r.minFreq >= 1
        /\ r.freq = a.freq /\ r.value = a.value /\ r.lists = a.lists /\ r.total = a.total
    BY <2>1, <2>2, <2>5, <2>6, MinUpdated
  <2> HIDE DEF r
  <2>9. Cached(r) = Cached(u)
    BY <2>5, <2>8 DEF Cached
  <2>10. Summed(r) /\ SomeLow(r)
    BY <2>6, <2>7, <2>8, <2>9 DEF Summed, SomeLow
  <2> QED BY <1>4, <2>2, <2>4, <2>8, <2>9, <2>10 DEF r
<1> QED BY <1>7, <1>8

\* get(): the slice stays as it should, and has the same keys and values.
LEMMA GetKeeps ==
    ASSUME NEW s, SliceInv(s), NEW k \in Cached(s), s.total < MaxTotal,
           NEW order \in Orders(Cached(s) \cup {k})
    PROVE  LET r == GetInternal(s, k, order)
           IN  SliceInv(r) /\ Cached(r) = Cached(s) /\ r.value = s.value
<1> DEFINE m == s.minFreq
           t == AddToFreqList([RemoveFromFreqList(s, k) EXCEPT !.freq[k] = @ + 1], k)
           emptied == s.freq[k] = m /\ FreqList(t, m) = <<>>
           n == IF emptied THEN m + 1 ELSE m
           u == [t EXCEPT !.minFreq = n]
           r == GetInternal(s, k, order)
<1>1. /\ s \in Slice /\ Listed(s.lists, s.freq) /\ Summed(s) /\ MinIsLowest(s) /\ SomeLow(s)
      /\ m >= 1 /\ Cardinality(Cached(s)) <= Capacity
      /\ s.freq \in [Keys -> 0..MaxTotal] /\ m \in 0..INT8_MAX /\ s.total \in 0..MaxTotal
      /\ k \in Keys /\ s.freq[k] \in 1..MaxTotal /\ Cached(s) \in SUBSET Keys
  BY SliceFields DEF SliceInv
<1>2. /\ Counting(s.freq) = Cached(s) /\ IsFiniteSet(Cached(s)) /\ Cardinality(Uses(s.freq)) <= s.total
      /\ Cardinality(Uses(s.freq)) \in Nat
  <2>1. Counting(s.freq) = Cached(s) /\ IsFiniteSet(Cached(s)) /\ Cardinality(Uses(s.freq)) <= s.total
    BY <1>1 DEF Counting, Cached, Summed
  <2> QED BY <1>1, <2>1, UsesFinite
<1>3. s.freq[k] < MaxTotal
  <2>1. s.freq[k] <= Cardinality(Uses(s.freq))
    BY <1>1, <1>2, UsesFinite
  <2> QED BY <1>1, <1>2, <2>1, TotalAssumption
<1>4. /\ t \in Slice /\ Listed(t.lists, t.freq)
      /\ t.freq = [s.freq EXCEPT ![k] = s.freq[k] + 1]
      /\ t.value = s.value /\ t.minFreq = m /\ t.total = s.total
  BY <1>1, <1>3, Moved
<1> HIDE DEF t
<1>5. Cached(t) = Cached(s) /\ Cardinality(Uses(t.freq)) = Cardinality(Uses(s.freq)) + 1
  <2>1. /\ Counting(t.freq) = Counting(s.freq) \cup {k}
        /\ Cardinality(Uses(t.freq)) = Cardinality(Uses(s.freq)) + 1
    BY <1>1, <1>2, <1>3, <1>4, UsesRaised
  <2>2. Counting(t.freq) = Cached(t)
    BY DEF Counting, Cached
  <2> QED BY <1>2, <2>1, <2>2
<1>6. PICK low \in Cached(s) : s.freq[low] <= MaxAverage
  BY <1>1 DEF SomeLow
<1>7. m <= s.freq[low] /\ low \in Keys /\ s.freq[low] \in 1..MaxTotal /\ MaxAverage \in 2..126
  BY <1>1, <1>6, SliceFields, AverageAssumption DEF MinIsLowest, INT8_MAX
<1>8. n \in 1..INT8_MAX
  <2> HIDE DEF emptied
  <2>1. m \in 1..126
    BY <1>1, <1>6, <1>7 DEF INT8_MAX
  <2>2. n = m \/ n = m + 1
    OBVIOUS
  <2> QED BY <2>1, <2>2 DEF INT8_MAX
<1>9. /\ u \in Slice /\ u.lists = t.lists /\ u.freq = t.freq /\ u.value = t.value
      /\ u.total = t.total /\ u.minFreq = n
  <2> HIDE DEF n
  <2>1. n \in 0..INT8_MAX
    BY <1>8 DEF INT8_MAX
  <2> QED BY <1>4, <2>1 DEF Slice
<1>10. Cached(u) = Cached(s)
  BY <1>5, <1>9 DEF Cached
<1>11. t.freq[low] <= MaxAverage + 1
  BY <1>1, <1>4, <1>6, <1>7
<1>12. \A j \in Cached(s) : /\ s.freq[j] \in 1..MaxTotal /\ m <= s.freq[j] /\ j \in Keys
                            /\ t.freq[j] \in 1..MaxTotal /\ s.freq[j] <= t.freq[j]
                            /\ j # k => t.freq[j] = s.freq[j]
  <2> SUFFICES ASSUME NEW j \in Cached(s)
               PROVE  /\ s.freq[j] \in 1..MaxTotal /\ m <= s.freq[j] /\ j \in Keys
                      /\ t.freq[j] \in 1..MaxTotal /\ s.freq[j] <= t.freq[j]
                      /\ j # k => t.freq[j] = s.freq[j]
    OBVIOUS
  <2>1. s.freq[j] \in 1..MaxTotal /\ m <= s.freq[j] /\ j \in Keys
    BY <1>1, SliceFields DEF MinIsLowest
  <2>2. CASE j = k
    <3>1. t.freq[j] = s.freq[j] + 1
      BY <1>1, <1>4, <2>2
    <3> QED BY <1>1, <1>3, <2>1, <2>2, <3>1, TotalAssumption
  <2>3. CASE j # k
    <3>1. t.freq[j] = s.freq[j]
      BY <1>1, <1>4, <2>1, <2>3
    <3> QED BY <2>1, <2>3, <3>1, TotalAssumption
  <2> QED BY <2>2, <2>3
<1>13. MinIsLowest(u)
  <2>1. CASE emptied
    <3>1. n = m + 1 /\ m \in 1..MaxTotal /\ t.lists[m] = <<>>
      BY <1>1, <2>1 DEF FreqList
    <3>2. \A j \in Cached(s) : t.freq[j] # m
      BY <1>4, <1>12, <3>1 DEF Listed, Has
    <3>3. t.freq[k] = m + 1
      BY <1>1, <1>4, <2>1
    <3>4. \A j \in Cached(s) : m + 1 <= t.freq[j]
      BY <1>1, <1>12, <3>2
    <3> HIDE DEF n
    <3> QED BY <1>9, <1>10, <3>1, <3>3, <3>4 DEF MinIsLowest
  <2>2. CASE ~emptied
    <3>1. n = m
      BY <2>2
    <3>2. \E j \in Cached(s) : t.freq[j] = m
      <4>1. CASE s.freq[k] # m
        <5>1. PICK j \in Cached(s) : s.freq[j] = m
          BY <1>1 DEF MinIsLowest
        <5> QED BY <1>12, <4>1, <5>1
      <4>2. CASE s.freq[k] = m
        <5>1. m \in 1..MaxTotal /\ t.lists[m] # <<>> /\ t.lists[m] \in Seq(Keys)
          <6>1. m \in 1..MaxTotal /\ FreqList(t, m) # <<>>
            BY <1>1, <2>2, <4>2
          <6>2. t.lists \in [1..MaxTotal -> Seq(Keys)]
            BY <1>4, SliceFields
          <6> QED BY <6>1, <6>2 DEF FreqList
        <5>2. t.lists[m][1] \in Keys /\ Has(t.lists[m], t.lists[m][1])
          <6> DEFINE list == t.lists[m]
          <6>1. list \in Seq(Keys) /\ list # <<>>
            BY <5>1
          <6> HIDE DEF list
          <6>2. list[1] \in Keys /\ 1 \in DOMAIN list
            BY <6>1
          <6> QED BY <6>2 DEF Has, list
        <5>3. t.freq[t.lists[m][1]] = m
          BY <1>4, <5>1, <5>2 DEF Listed
        <5>4. t.lists[m][1] \in Cached(t)
          BY <1>1, <5>2, <5>3 DEF Cached
        <5> QED BY <1>5, <5>3, <5>4
      <4> QED BY <4>1, <4>2
    <3>3. \A j \in Cached(s) : m <= t.freq[j]
      BY <1>1, <1>12, TotalAssumption DEF INT8_MAX
    <3> HIDE DEF n
    <3> QED BY <1>9, <1>10, <3>1, <3>2, <3>3 DEF MinIsLowest
  <2> QED BY <2>1, <2>2
<1>14. r = AddFreqNum(u, order)
  <2>1. n = IF emptied THEN t.minFreq + 1 ELSE t.minFreq
    BY <1>4
  <2>2. r = AddFreqNum([t EXCEPT !.minFreq = IF emptied THEN @ + 1 ELSE @], order)
    BY DEF GetInternal, t
  <2> HIDE DEF emptied, n, r
  <2> QED BY <2>1, <2>2
<1>15. Cached(s) \cup {k} = Cached(s)
  OBVIOUS
<1> HIDE DEF u, n, emptied
<1>16. u.minFreq >= 1 /\ u.total < MaxTotal /\ Cardinality(Uses(u.freq)) <= u.total + 1
  BY <1>1, <1>2, <1>4, <1>5, <1>8, <1>9, TotalAssumption
<1>17. Listed(u.lists, u.freq) /\ u.freq[low] <= MaxAverage + 1
  BY <1>4, <1>9, <1>11
<1> HIDE DEF r
<1>18. /\ r \in Slice /\ Listed(r.lists, r.freq) /\ Summed(r) /\ SomeLow(r)
       /\ r.minFreq >= 1 /\ Cached(r) = Cached(u) /\ r.value = u.value
       /\ MinIsLowest(u) => MinIsLowest(r)
  <2>1. low \in Cached(u) /\ IsFiniteSet(Cached(u)) /\ Cached(u) \in SUBSET Cached(s)
        /\ order \in Orders(Cached(s))
    BY <1>2, <1>6, <1>10, <1>15
  <2> QED BY <1>1, <1>2, <1>9, <1>14, <1>16, <1>17, <2>1, Counted
<1>19. SliceInv(r)
  BY <1>1, <1>10, <1>13, <1>18 DEF SliceInv
<1> QED BY <1>4, <1>9, <1>10, <1>18, <1>19 DEF r

\* What a put may do to a slice: the key has the value, the others have theirs or,
\* if they were used the least, are gone.
PutEffect(s, k, v, r) ==
    /\ SliceInv(r) /\ k \in Cached(r) /\ r.value[k] = v
    /\ \A j \in Keys \ {k} : j \in Cached(r) => j \in Cached(s) /\ r.value[j] = s.value[j]
    /\ \A j \in Cached(s) : j \notin Cached(r) => \A i \in Cached(s) : s.freq[j] <= s.freq[i]

\* put() of a key that is there.
LEMMA PutAgain ==
    ASSUME NEW s, SliceInv(s), NEW k \in Cached(s), NEW v \in Values, s.total < MaxTotal,
           NEW order \in Orders(Cached(s) \cup {k})
    PROVE  PutEffect(s, k, v, Put(s, k, v, order))
<1> DEFINE w == [s.value EXCEPT ![k] = v]
           t == [s EXCEPT !.value[k] = v]
           r == GetInternal(t, k, order)
<1>1. /\ s \in Slice /\ s.value \in [Keys -> Values \cup {None}] /\ k \in Keys
      /\ Cached(s) \in SUBSET Keys
  BY SliceFields DEF SliceInv
<1>2. w \in [Keys -> Values \cup {None}] /\ w[k] = v /\ \A j \in Keys \ {k} : w[j] = s.value[j]
  BY <1>1
<1>3. t = [s EXCEPT !.value = w]
  OBVIOUS
<1> HIDE DEF w, t
<1>4. /\ t \in Slice /\ t.freq = s.freq /\ t.value = w /\ t.lists = s.lists
      /\ t.minFreq = s.minFreq /\ t.total = s.total
  BY <1>1, <1>2, <1>3 DEF Slice
<1>5. Cached(t) = Cached(s)
  BY <1>4 DEF Cached
<1>6. SliceInv(t)
  BY <1>4, <1>5 DEF SliceInv, Summed, MinIsLowest, SomeLow
<1>7. k \in Cached(t) /\ t.total < MaxTotal /\ order \in Orders(Cached(t) \cup {k})
  BY <1>4, <1>5
<1>8. SliceInv(r) /\ Cached(r) = Cached(t) /\ r.value = t.value
  BY <1>6, <1>7, GetKeeps
<1>9. Put(s, k, v, order) = r
  BY DEF Put, t
<1> HIDE DEF r
<1> QED BY <1>2, <1>4, <1>5, <1>8, <1>9 DEF PutEffect

\* put() of a new key.
LEMMA PutNew ==
    ASSUME NEW s, SliceInv(s), NEW k \in Keys, k \notin Cached(s), NEW v \in Values,
           s.total < MaxTotal, NEW order \in Orders(Cached(s) \cup {k})
    PROVE  PutEffect(s, k, v, Put(s, k, v, order))
<1> DEFINE full == Cardinality(Cached(s)) = Capacity
           t == IF full THEN KickOut(s) ELSE s
           n == AddToFreqList([t EXCEPT !.freq[k] = 1, !.value[k] = v], k)
           a == AddFreqNum(n, order)
           r == [a EXCEPT !.minFreq = IF @ < 1 THEN @ ELSE 1]
           K == Cached(s) \cup {k}
<1>1. /\ s \in Slice /\ Listed(s.lists, s.freq) /\ Summed(s) /\ s.minFreq >= 1
      /\ Cardinality(Cached(s)) <= Capacity
      /\ s.freq \in [Keys -> 0..MaxTotal] /\ s.value \in [Keys -> Values \cup {None}]
      /\ s.total \in 0..MaxTotal /\ Cached(s) \in SUBSET Keys /\ IsFiniteSet(Cached(s))
      /\ Cardinality(Cached(s)) \in Nat /\ Capacity \in Nat \ {0}
  <2>1. s \in Slice /\ IsFiniteSet(Cached(s))
    BY DEF SliceInv, Summed
  <2> QED BY <2>1, SliceFields, FS_CardinalityType, CapacityAssumption DEF SliceInv
<1>2. /\ t \in Slice /\ Listed(t.lists, t.freq) /\ Summed(t) /\ t.minFreq >= 1
      /\ t.total < MaxTotal /\ t.freq[k] = 0
      /\ Cached(t) \in SUBSET Cached(s) /\ Cardinality(Cached(t)) < Capacity
      /\ \A j \in Cached(t) : t.value[j] = s.value[j]
      /\ \A j \in Cached(s) : j \notin Cached(t) => \A i \in Cached(s) : s.freq[j] <= s.freq[i]
  <2>1. CASE full
    <3>1. Cached(s) # {}
      BY <1>1, <2>1, FS_EmptySet
    <3>2. t = KickOut(s)
      BY <2>1
    <3> HIDE DEF t
    <3>3. PICK i \in Cached(s) :
             /\ \A j \in Cached(s) : s.freq[i] <= s.freq[j]
             /\ t \in Slice /\ Listed(t.lists, t.freq) /\ Summed(t)
             /\ t.freq = [s.freq EXCEPT ![i] = 0] /\ t.value = [s.value EXCEPT ![i] = None]
             /\ t.minFreq = s.minFreq /\ t.total = s.total - s.freq[i]
      BY <3>1, <3>2, Kicked
    <3>4. Cached(t) = Cached(s) \ {i} /\ k # i
      BY <1>1, <3>3 DEF Cached
    <3>5. Cardinality(Cached(t)) = Cardinality(Cached(s)) - 1
      BY <1>1, <3>4, FS_RemoveElement
    <3>6. t.freq[k] = 0
      <4>1. s.freq[k] = 0
        BY <1>1, TotalAssumption DEF Cached
      <4> QED BY <1>1, <3>3, <3>4, <4>1
    <3>7. \A j \in Cached(t) : t.value[j] = s.value[j]
      BY <1>1, <3>3, <3>4
    <3>8. t.total < MaxTotal
      <4>1. s.freq[i] \in 1..MaxTotal
        BY <1>1, SliceFields
      <4> QED BY <1>1, <3>3, <4>1, TotalAssumption
    <3> QED BY <1>1, <2>1, <3>3, <3>4, <3>5, <3>6, <3>7, <3>8
  <2>2. CASE ~full
    <3>1. t = s
      BY <2>2
    <3> HIDE DEF t
    <3>2. s.freq[k] = 0
      BY <1>1, TotalAssumption DEF Cached
    <3>3. Cardinality(Cached(s)) < Capacity
      BY <1>1, <2>2
    <3> QED BY <1>1, <3>1, <3>2, <3>3
  <2> QED BY <2>1, <2>2
<1> HIDE DEF t
<1>3. /\ n \in Slice /\ Listed(n.lists, n.freq)
      /\ n.freq = [t.freq EXCEPT ![k] = 1] /\ n.value = [t.value EXCEPT ![k] = v]
      /\ n.minFreq = t.minFreq /\ n.total = t.total
  <2>1. t \in Slice /\ Listed(t.lists, t.freq) /\ t.freq[k] = 0
    BY <1>2
  <2> QED BY <2>1, Added, ZenonT(60)
<1> HIDE DEF n
<1>4. /\ t.freq \in [Keys -> 0..MaxTotal] /\ t.value \in [Keys -> Values \cup {None}]
      /\ t.total \in 0..MaxTotal /\ Counting(t.freq) = Cached(t) /\ IsFiniteSet(Cached(t))
      /\ Cardinality(Uses(t.freq)) <= t.total
  BY <1>2, SliceFields DEF Counting, Cached, Summed
<1>5. /\ Cached(n) = Cached(t) \cup {k} /\ IsFiniteSet(Cached(n))
      /\ Cardinality(Uses(n.freq)) = Cardinality(Uses(t.freq)) + 1
      /\ Cardinality(Cached(n)) <= Capacity
  <2>1. [t.freq EXCEPT ![k] = t.freq[k] + 1] = n.freq
    BY <1>2, <1>3
  <2>2. 0 < MaxTotal
    BY TotalAssumption
  <2>3. /\ Counting(n.freq) = Counting(t.freq) \cup {k} /\ IsFiniteSet(Counting(n.freq))
        /\ Cardinality(Uses(n.freq)) = Cardinality(Uses(t.freq)) + 1
    BY <1>2, <1>4, <2>1, <2>2, UsesRaised
  <2>4. Cached(n) = Counting(n.freq)
    BY DEF Cached, Counting
  <2>5. k \notin Cached(t)
    BY <1>2 DEF Cached
  <2>6. Cardinality(Cached(n)) = Cardinality(Cached(t)) + 1 /\ Cardinality(Cached(t)) \in Nat
    BY <1>4, <2>3, <2>4, <2>5, FS_AddElement, FS_CardinalityType
  <2> QED BY <1>1, <1>2, <1>4, <2>3, <2>4, <2>6
<1>6. n.freq[k] = 1 /\ k \in Cached(n) /\ n.freq[k] <= MaxAverage + 1
  BY <1>3, <1>4, <1>5, AverageAssumption DEF INT8_MAX
<1>7. /\ a \in Slice /\ Listed(a.lists, a.freq) /\ Summed(a) /\ SomeLow(a)
      /\ a.minFreq >= 1 /\ Cached(a) = Cached(n) /\ a.value = n.value
      /\ \A j \in Keys : n.freq[j] = 1 => a.freq[j] = 1
  <2>1. K \in SUBSET Keys /\ IsFiniteSet(K) /\ Cached(n) \in SUBSET K
    BY <1>1, <1>2, <1>5, FS_AddElement
  <2>2. Cardinality(Uses(n.freq)) <= n.total + 1 /\ n.total < MaxTotal /\ n.minFreq >= 1
    <3>1. Cardinality(Uses(t.freq)) \in Nat
      BY <1>4, UsesFinite
    <3> QED BY <1>2, <1>3, <1>4, <1>5, <3>1, TotalAssumption
  <2> HIDE DEF a
  <2> QED BY <1>3, <1>5, <1>6, <2>1, <2>2, Counted, ZenonT(60) DEF a
<1> HIDE DEF a
<1>8. /\ r \in Slice /\ r.minFreq = 1 /\ r.freq = a.freq /\ r.value = a.value
      /\ r.lists = a.lists /\ r.total = a.total
  <2>1. a.minFreq \in 0..INT8_MAX /\ ~(a.minFreq < 1)
    <3>1. a.minFreq \in 0..127
      BY <1>7, SliceFields DEF INT8_MAX
    <3> QED BY <1>7, <3>1 DEF INT8_MAX
  <2>2. r = [a EXCEPT !.minFreq = 1]
    BY <2>1
  <2>3. 1 \in 0..INT8_MAX
    BY DEF INT8_MAX
  <2> HIDE DEF r
  <2> QED BY <1>7, <2>2, <2>3 DEF Slice
<1>9. Put(s, k, v, order) = r
  BY DEF Put, PutInternal, n, t, a
<1> HIDE DEF r
<1>10. Cached(r) = Cached(t) \cup {k}
  <2>1. Cached(r) = Cached(a)
    BY <1>8 DEF Cached
  <2> QED BY <1>5, <1>7, <2>1
<1>11. Summed(r) /\ SomeLow(r)
  <2>1. Cached(r) = Cached(a)
    BY <1>8 DEF Cached
  <2> QED BY <1>7, <1>8, <2>1 DEF Summed, SomeLow
<1>12. MinIsLowest(r)
  <2>1. r.freq[k] = 1 /\ k \in Cached(r)
    BY <1>6, <1>7, <1>8, <1>10
  <2>2. \A j \in Cached(r) : 1 <= r.freq[j]
    BY <1>8, SliceFields
  <2> QED BY <1>8, <2>1, <2>2 DEF MinIsLowest
<1>13. SliceInv(r)
  <2>1. Cardinality(Cached(r)) <= Capacity
    BY <1>5, <1>10
  <2> QED BY <1>7, <1>8, <1>11, <1>12, <2>1 DEF SliceInv
<1>14. r.value = [t.value EXCEPT ![k] = v]
  BY <1>3, <1>7, <1>8
<1> QED BY <1>2, <1>4, <1>9, <1>10, <1>13, <1>14 DEF PutEffect

LEMMA EmptyIsFine == SliceInv(EmptySlice)
<1> DEFINE e == EmptySlice
<1>1. /\ e.freq = [k \in Keys |-> 0] /\ e.lists = [f \in 1..MaxTotal |-> <<>>]
      /\ e.minFreq = INT8_MAX /\ e.total = 0
  BY DEF EmptySlice
<1>2. e \in Slice
  <2>1. INT8_MAX \in 0..INT8_MAX /\ 0 \in 0..MaxTotal
    BY TotalAssumption DEF INT8_MAX
  <2>2. [f \in 1..MaxTotal |-> <<>>] \in [1..MaxTotal -> Seq(Keys)]
    OBVIOUS
  <2> QED BY <2>1, <2>2 DEF EmptySlice, Slice
<1>3. Cached(e) = {} /\ Uses(e.freq) = {}
  BY <1>1 DEF Cached, Uses, Counting
<1>4. Listed(e.lists, e.freq)
  BY <1>1 DEF Listed, Once, Has
<1>5. IsFiniteSet(Cached(e)) /\ Cardinality(Cached(e)) = 0 /\ Cardinality(Uses(e.freq)) = 0
  BY <1>3, FS_EmptySet
<1> HIDE DEF e
<1>6. Summed(e) /\ MinIsLowest(e) /\ SomeLow(e)
  BY <1>1, <1>3, <1>5 DEF Summed, MinIsLowest, SomeLow
<1>7. SliceInv(e)
  BY <1>1, <1>2, <1>4, <1>5, <1>6, CapacityAssumption DEF SliceInv, INT8_MAX
<1> QED BY <1>7 DEF e

----------------------------------------------------------------------------
(* ChatCache: the cache and the threads that use it *)

\* Of a thread that is in the middle of a request the key is known, and once it
\* puts, the reply.
Asking == \A t \in Threads : /\ pc[t] # "idle" => key[t] \in Keys
                             /\ pc[t] = "put" => reply[t] \in Values

ChatInv == /\ ChatTypeOK /\ Asking
           /\ \A i \in Slices : SliceInv(cache[i])
           /\ CachedIsLast

LEMMA ChatInvInit == ChatInit => ChatInv
<1> SUFFICES ASSUME ChatInit
             PROVE  ChatInv
  OBVIOUS
<1>1. \A i \in Slices : cache[i] = EmptySlice /\ SliceInv(cache[i])
  BY EmptyIsFine DEF ChatInit
<1>2. ChatTypeOK /\ Asking
  <2>1. cache \in [Slices -> Slice]
    BY EmptyIsFine DEF ChatInit, SliceInv
  <2> QED BY <2>1 DEF ChatInit, ChatTypeOK, Asking
<1>3. CachedIsLast
  <2>1. \A k \in Keys : SliceFor(k) = EmptySlice
    BY <1>1, SliceAssumption DEF SliceFor
  <2>2. Cached(EmptySlice) = {}
    BY DEF Cached, EmptySlice
  <2> QED BY <2>1, <2>2 DEF CachedIsLast
<1> QED BY <1>1, <1>2, <1>3 DEF ChatInv

\* An access through the cache replaces one slice.
LEMMA ReplacedSlice ==
    ASSUME ChatInv, NEW k \in Keys, NEW r, SliceInv(r),
           cache' = [cache EXCEPT ![SliceOf[k]] = r]
    PROVE  /\ cache' \in [Slices -> Slice] /\ \A i \in Slices : SliceInv(cache'[i])
           /\ cache'[SliceOf[k]] = r
           /\ \A j \in Keys : SliceOf[j] # SliceOf[k] => cache'[SliceOf[j]] = cache[SliceOf[j]]
<1>1. SliceOf[k] \in Slices /\ cache \in [Slices -> Slice] /\ r \in Slice
  BY SliceAssumption DEF ChatInv, ChatTypeOK, SliceInv
<1>2. \A i \in Slices : cache'[i] = IF i = SliceOf[k] THEN r ELSE cache[i]
  BY <1>1
<1>3. \A j \in Keys : SliceOf[j] \in Slices
  BY SliceAssumption
<1>4. \A i \in Slices : SliceInv(cache[i])
  BY DEF ChatInv
<1> QED BY <1>1, <1>2, <1>3, <1>4

LEMMA HitKeeps ==
    ASSUME ChatInv, NEW t \in Threads, NEW k \in Keys, Hit(t, k)
    PROVE  /\ ChatInv'
           /\ \A j \in Keys : Cached(cache'[SliceOf[j]]) = Cached(cache[SliceOf[j]])
<1> DEFINE s == cache[SliceOf[k]]
<1>1. SliceInv(s) /\ k \in Cached(s) /\ s.total < MaxTotal /\ SliceOf[k] \in Slices
  BY SliceAssumption DEF ChatInv, Hit, Counts, SliceFor
<1>2. PICK order \in Orders(Cached(s) \cup {k}) :
         cache' = [cache EXCEPT ![SliceOf[k]] = Get(@, k, order)]
  BY DEF Hit, SliceFor
<1> DEFINE r == GetInternal(s, k, order)
<1>3. cache' = [cache EXCEPT ![SliceOf[k]] = r]
  BY <1>2 DEF Get
<1>4. SliceInv(r) /\ Cached(r) = Cached(s) /\ r.value = s.value
  <2> HIDE DEF s
  <2> QED BY <1>1, GetKeeps
<1> HIDE DEF r
<1>5. /\ cache' \in [Slices -> Slice] /\ \A i \in Slices : SliceInv(cache'[i])
      /\ cache'[SliceOf[k]] = r
      /\ \A j \in Keys : SliceOf[j] # SliceOf[k] => cache'[SliceOf[j]] = cache[SliceOf[j]]
  BY <1>3, <1>4, ReplacedSlice
<1>6. \A j \in Keys : /\ Cached(cache'[SliceOf[j]]) = Cached(cache[SliceOf[j]])
                      /\ cache'[SliceOf[j]].value = cache[SliceOf[j]].value
  BY <1>4, <1>5
<1>7. UNCHANGED <<network, pc, key, reply, lastPut>>
  BY DEF Hit
<1>8. ChatTypeOK' /\ Asking'
  BY <1>5, <1>7 DEF ChatInv, ChatTypeOK, Asking
<1>9. CachedIsLast'
  BY <1>6, <1>7 DEF ChatInv, CachedIsLast, SliceFor
<1> QED BY <1>5, <1>6, <1>8, <1>9 DEF ChatInv

LEMMA PutReplyKeeps ==
    ASSUME ChatInv, NEW t \in Threads, PutReply(t)
    PROVE  /\ ChatInv'
           /\ \A j \in Keys : LET s == cache[SliceOf[j]] IN
                 j \in Cached(s) /\ j \notin Cached(cache'[SliceOf[j]]) =>
                    \A i \in Cached(s) : s.freq[j] <= s.freq[i]
<1> DEFINE k == key[t]
           v == reply[t]
           s == cache[SliceOf[k]]
<1>1. k \in Keys /\ v \in Values
  BY DEF ChatInv, Asking, PutReply
<1>2. SliceInv(s) /\ s.total < MaxTotal /\ SliceOf[k] \in Slices
  BY <1>1, SliceAssumption DEF ChatInv, PutReply, Counts, SliceFor
<1>3. PICK order \in Orders(Cached(s) \cup {k}) :
         cache' = [cache EXCEPT ![SliceOf[k]] = Put(@, k, v, order)]
  BY DEF PutReply, SliceFor
<1> DEFINE r == Put(s, k, v, order)
<1>4. cache' = [cache EXCEPT ![SliceOf[k]] = r]
  BY <1>3
<1>5. PutEffect(s, k, v, r)
  <2> HIDE DEF s, k, v
  <2> QED BY <1>1, <1>2, PutAgain, PutNew
<1>6. SliceInv(r)
  BY <1>5 DEF PutEffect
<1> HIDE DEF r
<1>7. /\ cache' \in [Slices -> Slice] /\ \A i \in Slices : SliceInv(cache'[i])
      /\ cache'[SliceOf[k]] = r
      /\ \A j \in Keys : SliceOf[j] # SliceOf[k] => cache'[SliceOf[j]] = cache[SliceOf[j]]
  <2> HIDE DEF k
  <2> QED BY <1>1, <1>4, <1>6, ReplacedSlice
<1>8. /\ lastPut' = [lastPut EXCEPT ![k] = v] /\ pc' = [pc EXCEPT ![t] = "idle"]
      /\ key' = [key EXCEPT ![t] = None] /\ reply' = [reply EXCEPT ![t] = None]
      /\ network' = network
  BY DEF PutReply
<1>9. ChatTypeOK' /\ Asking'
  <2> HIDE DEF k, v
  <2>1. ChatTypeOK'
    BY <1>1, <1>7, <1>8 DEF ChatInv, ChatTypeOK
  <2>2. Asking'
    BY <1>8 DEF ChatInv, ChatTypeOK, Asking
  <2> QED BY <2>1, <2>2
<1>10. CachedIsLast'
  <2> SUFFICES ASSUME NEW j \in Keys, j \in Cached(cache'[SliceOf[j]])
               PROVE  cache'[SliceOf[j]].value[j] = lastPut'[j]
    BY DEF CachedIsLast, SliceFor
  <2>1. lastPut \in [Keys -> Values \cup {None}]
    BY DEF ChatInv, ChatTypeOK
  <2>2. j \in Cached(cache[SliceOf[j]]) => cache[SliceOf[j]].value[j] = lastPut[j]
    BY DEF ChatInv, CachedIsLast, SliceFor
  <2> HIDE DEF k, v
  <2>3. CASE j = k
    BY <1>1, <1>5, <1>7, <1>8, <2>1, <2>3 DEF PutEffect
  <2>4. CASE j # k /\ SliceOf[j] = SliceOf[k]
    BY <1>1, <1>5, <1>7, <1>8, <2>1, <2>2, <2>4 DEF PutEffect
  <2>5. CASE SliceOf[j] # SliceOf[k]
    BY <1>1, <1>7, <1>8, <2>1, <2>2, <2>5
  <2> QED BY <2>3, <2>4, <2>5
<1>11. ASSUME NEW j \in Keys, j \in Cached(cache[SliceOf[j]]), j \notin Cached(cache'[SliceOf[j]])
       PROVE  \A i \in Cached(cache[SliceOf[j]]) :
                 cache[SliceOf[j]].freq[j] <= cache[SliceOf[j]].freq[i]
  <2> HIDE DEF k, v
  <2>1. SliceOf[j] = SliceOf[k]
    BY <1>7, <1>11
  <2> QED BY <1>5, <1>7, <1>11, <2>1 DEF PutEffect
<1> QED BY <1>7, <1>9, <1>10, <1>11 DEF ChatInv

\* What a step evicts.
EvictsInStep == \A j \in Keys : LET s == cache[SliceOf[j]] IN
    j \in Cached(s) /\ j \notin Cached(cache'[SliceOf[j]]) =>
       \A i \in Cached(s) : s.freq[j] <= s.freq[i]

LEMMA ChatStep == ChatInv /\ [ChatNext]_chatVars => ChatInv' /\ EvictsInStep
<1> SUFFICES ASSUME ChatInv, [ChatNext]_chatVars
             PROVE  ChatInv' /\ EvictsInStep
  OBVIOUS
<1>1. ASSUME NEW t \in Threads, NEW k \in Keys, Hit(t, k)
      PROVE  ChatInv' /\ EvictsInStep
  BY <1>1, HitKeeps DEF EvictsInStep
<1>2. ASSUME cache' = cache, ChatTypeOK', Asking', lastPut' = lastPut
      PROVE  ChatInv' /\ EvictsInStep
  BY <1>2 DEF ChatInv, CachedIsLast, SliceFor, EvictsInStep
<1>3. ASSUME NEW t \in Threads, NEW k \in Keys, Miss(t, k)
      PROVE  ChatInv' /\ EvictsInStep
  <2>1. ChatTypeOK' /\ Asking'
    BY <1>3, StubAssumption DEF ChatInv, ChatTypeOK, Asking, Miss
  <2> QED BY <1>2, <1>3, <2>1 DEF Miss
<1>4. ASSUME NEW t \in Threads, NEW v \in Values, ProviderReplies(t, v)
      PROVE  ChatInv' /\ EvictsInStep
  <2>1. ChatTypeOK' /\ Asking'
    BY <1>4 DEF ChatInv, ChatTypeOK, Asking, ProviderReplies
  <2> QED BY <1>2, <1>4, <2>1 DEF ProviderReplies
<1>5. ASSUME NEW t \in Threads, ProviderFails(t)
      PROVE  ChatInv' /\ EvictsInStep
  <2>1. ChatTypeOK' /\ Asking'
    BY <1>5 DEF ChatInv, ChatTypeOK, Asking, ProviderFails
  <2> QED BY <1>2, <1>5, <2>1 DEF ProviderFails
<1>6. ASSUME NEW t \in Threads, PutReply(t)
      PROVE  ChatInv' /\ EvictsInStep
  BY <1>6, PutReplyKeeps DEF EvictsInStep
<1>7. CASE UNCHANGED chatVars
  <2>1. ChatTypeOK' /\ Asking'
    BY <1>7 DEF ChatInv, ChatTypeOK, Asking, chatVars
  <2> QED BY <1>2, <1>7, <2>1 DEF chatVars
<1> QED BY <1>1, <1>3, <1>4, <1>5, <1>6, <1>7 DEF ChatNext

LEMMA ChatInvAlways == ChatSpec => []ChatInv
<1>1. ChatInv /\ [ChatNext]_chatVars => ChatInv'
  BY ChatStep
<1> QED BY ChatInvInit, <1>1, PTL DEF ChatSpec

----------------------------------------------------------------------------
\* Every state of the cache and its users is of its type.
THEOREM ChatTypes == ChatSpec => []ChatTypeOK
<1>1. ChatInv => ChatTypeOK
  BY DEF ChatInv
<1> QED BY ChatInvAlways, <1>1, PTL

\* Whatever is asked, put, aged and evicted in whatever order, each cached key is
\* in the list of its frequency, once, and in no other.
THEOREM ListsStayAgreed == ChatSpec => []ListsAgree
<1>1. ChatInv => ListsAgree
  <2> SUFFICES ASSUME ChatInv, NEW i \in Slices, NEW k \in Keys, NEW f \in 1..MaxTotal
               PROVE  Cardinality({n \in DOMAIN cache[i].lists[f] : cache[i].lists[f][n] = k})
                         = IF cache[i].freq[k] = f THEN 1 ELSE 0
    BY DEF ListsAgree
  <2> DEFINE list == cache[i].lists[f]
             P == {n \in DOMAIN list : list[n] = k}
  <2>1. Once(list) /\ (Has(list, k) <=> cache[i].freq[k] = f)
    BY DEF ChatInv, SliceInv, Listed
  <2> HIDE DEF list
  <2>2. CASE cache[i].freq[k] = f
    <3>1. PICK n \in DOMAIN list : list[n] = k
      BY <2>1, <2>2 DEF Has
    <3>2. P = {n}
      BY <2>1, <3>1 DEF Once
    <3>3. Cardinality(P) = 1
      BY <3>2, FS_Singleton
    <3> QED BY <2>2, <3>3 DEF list
  <2>3. CASE cache[i].freq[k] # f
    <3>1. P = {}
      BY <2>1, <2>3 DEF Has
    <3>2. Cardinality(P) = 0
      BY <3>1, FS_EmptySet
    <3> QED BY <2>3, <3>2 DEF list
  <2> QED BY <2>2, <2>3
<1> QED BY ChatInvAlways, <1>1, PTL

\* A put into a full slice always finds a node to evict, so that a slice has never
\* more than its capacity.
THEOREM CapacityHolds == ChatSpec => []WithinCapacity
<1>1. ChatInv => WithinCapacity
  BY DEF ChatInv, SliceInv, WithinCapacity
<1> QED BY ChatInvAlways, <1>1, PTL

\* What a hit returns is what was put last, by whichever thread.
THEOREM HitsAreLast == ChatSpec => []CachedIsLast
<1>1. ChatInv => CachedIsLast
  BY DEF ChatInv
<1> QED BY ChatInvAlways, <1>1, PTL

\* A key that a put evicts was used the least of its slice.
THEOREM LeastUsedGoes == ChatSpec => EvictsLeastUsed
<1>1. ChatInv /\ [ChatNext]_chatVars =>
         [\A k \in Keys : LET s == SliceFor(k)
                          IN  k \in Cached(s) /\ k \notin Cached(SliceFor(k)') =>
                                 \A j \in Cached(s) : s.freq[k] <= s.freq[j]]_chatVars
  BY ChatStep DEF EvictsInStep, SliceFor
<1> QED BY ChatInvAlways, <1>1, PTL DEF ChatSpec, EvictsLeastUsed
=============================================================================
