-------------------------- MODULE MemoryPoolProofs --------------------------
(***************************************************************************)
(* Theorems about MemoryPool for any threads, pools, sizes and heap.       *)
(***************************************************************************)
EXTENDS MemoryPool, SequenceTheorems, TLAPS

\* The slots of a pool that elements are in, come from or may get.
Live(p) == BusySlots(p) \cup FreeSlots(p)

\* A thread is in a call as long as its place says so, and holds the mutex of the
\* pool from its second look at the list on; the list is its row, or cleared.
Working(t) == call[t].at \in {"pop", "push"}
LocksRight ==
    /\ \A t \in Threads : /\ call[t].at # "idle" => call[t].size \in Sizes /\ Small(call[t].size)
                          /\ Working(t) => lock[PoolOf(call[t].size)] = t
                          /\ call[t].at = "pop" => call[t].row # <<>>
    /\ \A p \in Pools : /\ lock[p] # NoThread => /\ Working(lock[p])
                                                 /\ PoolOf(call[lock[p]].size) = p
                        /\ free[p] = <<>> \/ free[p] = Row(p)

\* No slot is in two places: twice in a list, twice in use, or in use and in a list.
Distinct(r) == \A i, j \in DOMAIN r : r[i] = r[j] => i = j
OnePlace ==
    /\ \A p \in Pools : Distinct(Row(p)) /\ BusySlots(p) \cap FreeSlots(p) = {}
    /\ \A u, v \in used : u[1] = v[1] => u = v
    /\ \A t \in Threads, u \in used : call[t].at = "push" => u[1] # call[t].slot

\* Slots lie in blocks, behind the header and apart from each other and from the
\* rest of the current block.
GeometryAt(p) ==
    /\ \A a \in Live(p) : \E b \in blocks[p] :
          b + Word <= a /\ a + SlotSize[p] <= b + BlockSize
    /\ \A a, c \in Live(p) : a # c => Apart(a, SlotSize[p], c, SlotSize[p])
    /\ cur[p] < last[p] =>
          \E b \in blocks[p] :
             /\ b + Word <= cur[p] /\ cur[p] + SlotSize[p] <= b + BlockSize
             /\ last[p] = LastSlot(b, p)
             /\ \A a \in Live(p) : Apart(a, SlotSize[p], cur[p], b + BlockSize - cur[p])
Geometry == \A p \in Pools : GeometryAt(p)

\* What operator new returned belongs to one pool or is one large element.
OneOwner ==
    /\ \A p, q \in Pools : p # q => blocks[p] \cap blocks[q] = {}
    /\ \A u \in used : ~Small(u[2]) => u[1] \in Heap /\ \A p \in Pools : u[1] \notin blocks[p]

IInv == TypeOK /\ LocksRight /\ OnePlace /\ Geometry /\ OneOwner

----------------------------------------------------------------------------
(* Numbers *)

\* A slot is at least a word and no larger than the largest.
LEMMA SlotSizes ==
    ASSUME NEW p \in Pools
    PROVE  SlotSize[p] \in Nat /\ SlotSize[p] >= Word /\ SlotSize[p] <= MaxSlotSize
<1>1. p \in Int /\ p >= 0 /\ p + 1 <= NumPools /\ Word \in Nat /\ Word > 0 /\ NumPools \in Nat
  BY SizesAssumption DEF Pools
<1>2. (p + 1) * Word >= Word /\ (p + 1) * Word <= NumPools * Word /\ (p + 1) * Word \in Nat
  BY <1>1
<1> QED BY <1>2 DEF SlotSize, MaxSlotSize

\* A small element goes to a pool whose slots hold it.
LEMMA Fits ==
    ASSUME NEW size \in Sizes, Small(size)
    PROVE  PoolOf(size) \in Pools /\ size <= SlotSize[PoolOf(size)]
<1> DEFINE q == (size + Word - 1) \div Word
<1>1. Word \in Nat /\ Word > 0 /\ NumPools \in Nat /\ size \in Nat /\ size > 0
  BY SizesAssumption
<1>2. size <= NumPools * Word
  BY DEF Small, MaxSlotSize
<1>3. q \in Int /\ q * Word <= size + Word - 1 /\ size + Word - 1 < (q + 1) * Word
  BY <1>1
<1> HIDE DEF q
<1>4. q * Word + Word = (q + 1) * Word
  BY <1>1, <1>3
<1>5. size <= q * Word
  BY <1>1, <1>3, <1>4
<1>6. q >= 1
  <2> SUFFICES ASSUME q <= 0 PROVE FALSE
    BY <1>3
  <2>1. q * Word <= 0
    BY <1>1, <1>3
  <2> QED BY <2>1, <1>5, <1>1, <1>3
<1>7. q <= NumPools
  <2> SUFFICES ASSUME q >= NumPools + 1 PROVE FALSE
    BY <1>1, <1>3
  <2>1. q * Word >= NumPools * Word + Word
    BY <1>1, <1>3
  <2> QED BY <2>1, <1>1, <1>2, <1>3
<1>8. PoolOf(size) = q - 1
  BY DEF PoolOf, q
<1>9. q - 1 \in Pools
  BY <1>1, <1>3, <1>6, <1>7 DEF Pools
<1>10. SlotSize[q - 1] = q * Word
  BY <1>9, <1>3 DEF SlotSize
<1> QED BY <1>5, <1>8, <1>9, <1>10

\* A new block has room for its first slot, wherever the padding ends.
LEMMA FirstFits ==
    ASSUME NEW b \in Heap, NEW p \in Pools
    PROVE  /\ FirstSlot(b, p) \in Nat /\ b + Word <= FirstSlot(b, p)
           /\ FirstSlot(b, p) + SlotSize[p] <= b + BlockSize
<1> DEFINE x == (SlotSize[p] - (b + Word)) % Wrap
<1> DEFINE pad == x % SlotSize[p]
<1>1. Word \in Nat /\ Word > 0 /\ b \in Nat /\ BlockSize \in Nat /\ Wrap \in Nat /\ Wrap > 0
  BY SizesAssumption, HeapAssumption, BlockAssumption, WrapAssumption
<1>2. /\ SlotSize[p] \in Nat /\ SlotSize[p] > 0 /\ SlotSize[p] <= MaxSlotSize
      /\ MaxSlotSize \in Nat
  BY SlotSizes, SizesAssumption DEF MaxSlotSize
<1>3. x \in Nat
  BY <1>1, <1>2
<1> HIDE DEF x
<1>4. pad \in Nat /\ pad < SlotSize[p]
  BY <1>2, <1>3
<1>5. FirstSlot(b, p) = b + Word + pad
  BY DEF FirstSlot, PadPointer, x
<1> HIDE DEF pad
<1> QED BY <1>1, <1>2, <1>4, <1>5, BlockAssumption

----------------------------------------------------------------------------
(* Rows of free slots *)

Elems(r) == {r[i] : i \in DOMAIN r}

LEMMA TailRow ==
    ASSUME NEW r \in Seq(Nat \ {0}), r # <<>>, Distinct(r)
    PROVE  /\ Tail(r) \in Seq(Nat \ {0}) /\ Distinct(Tail(r))
           /\ Head(r) \in Elems(r) /\ Elems(Tail(r)) = Elems(r) \ {Head(r)}
<1>1. /\ Tail(r) \in Seq(Nat \ {0}) /\ Len(r) > 0 /\ Len(Tail(r)) = Len(r) - 1
      /\ \A i \in 1..Len(Tail(r)) : Tail(r)[i] = r[i + 1]
      /\ Head(r) = r[1] /\ Len(r) \in Nat
      /\ DOMAIN r = 1..Len(r) /\ DOMAIN Tail(r) = 1..Len(Tail(r))
  OBVIOUS
<1>2. Distinct(Tail(r))
  <2> SUFFICES ASSUME NEW i \in DOMAIN Tail(r), NEW j \in DOMAIN Tail(r), Tail(r)[i] = Tail(r)[j]
               PROVE  i = j
    BY DEF Distinct
  <2>0. i \in 1..Len(Tail(r)) /\ j \in 1..Len(Tail(r)) /\ Tail(r)[i] = Tail(r)[j]
    BY <1>1
  <2>1. r[i + 1] = r[j + 1] /\ i \in Int /\ j \in Int
    BY <1>1, <2>0
  <2>3. i + 1 \in DOMAIN r /\ j + 1 \in DOMAIN r
    <3>1. PICK n \in Nat : n = Len(r)
      BY <1>1
    <3>2. i \in 1..(n - 1) /\ j \in 1..(n - 1) /\ DOMAIN r = 1..n
      BY ONLY <1>1, <2>0, <3>1
    <3>3. i + 1 \in 1..n /\ j + 1 \in 1..n
      BY ONLY <3>1, <3>2
    <3> QED BY <3>2, <3>3
  <2>2. i + 1 = j + 1
    BY <2>1, <2>3 DEF Distinct
  <2> QED BY <2>1, <2>2
<1>3. Elems(Tail(r)) \subseteq Elems(r) \ {Head(r)}
  BY <1>1 DEF Distinct, Elems
<1>4. ASSUME NEW i \in 1..Len(r), i # 1 PROVE r[i] \in Elems(Tail(r))
  <2>1. i - 1 \in 1..Len(Tail(r)) /\ Tail(r)[i - 1] = r[i]
    BY <1>1, <1>4
  <2> QED BY <2>1, <1>1 DEF Elems
<1>5. Elems(r) \ {Head(r)} \subseteq Elems(Tail(r))
  BY <1>1, <1>4 DEF Elems
<1>6. Head(r) \in Elems(r)
  BY <1>1 DEF Elems
<1> QED BY <1>1, <1>2, <1>3, <1>5, <1>6

LEMMA LongerRow ==
    ASSUME NEW r \in Seq(Nat \ {0}), Distinct(r), NEW a \in Nat \ {0}, a \notin Elems(r)
    PROVE  /\ <<a>> \o r \in Seq(Nat \ {0}) /\ Distinct(<<a>> \o r)
           /\ Elems(<<a>> \o r) = {a} \cup Elems(r)
<1>1. PICK h : h = <<a>>
  OBVIOUS
<1>2. h \in Seq(Nat \ {0}) /\ Len(h) = 1 /\ h[1] = a
  BY <1>1
<1>3. PICK s : s = h \o r
  OBVIOUS
<1>4. /\ s \in Seq(Nat \ {0}) /\ Len(s) = Len(r) + 1 /\ Len(r) \in Nat
      /\ DOMAIN s = 1..Len(s) /\ DOMAIN r = 1..Len(r)
      /\ s[1] = a /\ \A i \in 1..Len(r) : s[i + 1] = r[i]
  <2>1. /\ s \in Seq(Nat \ {0}) /\ Len(s) = Len(h) + Len(r)
        /\ \A i \in 1..(Len(h) + Len(r)) : s[i] = IF i <= Len(h) THEN h[i] ELSE r[i - Len(h)]
    BY <1>2, <1>3, ConcatProperties
  <2>2. Len(r) \in Nat /\ DOMAIN s = 1..Len(s) /\ DOMAIN r = 1..Len(r)
    BY <2>1
  <2>3. ASSUME NEW i \in 1..Len(r) PROVE s[i + 1] = r[i]
    <3>1. PICK j : j = i + 1
      OBVIOUS
    <3>2. j \in 1..(Len(h) + Len(r)) /\ ~(j <= Len(h)) /\ j - Len(h) = i
      BY <2>2, <1>2, <3>1
    <3>3. s[j] = r[j - Len(h)]
      BY ONLY <2>1, <3>2
    <3> QED BY <3>1, <3>2, <3>3
  <2> QED BY <2>1, <2>2, <2>3, <1>2
<1>5. \A i \in DOMAIN s : i = 1 \/ (i - 1 \in DOMAIN r /\ s[i] = r[i - 1])
  BY <1>4
<1>6. Distinct(s)
  <2> SUFFICES ASSUME NEW i \in DOMAIN s, NEW j \in DOMAIN s, s[i] = s[j], i # j PROVE FALSE
    BY DEF Distinct
  <2>1. CASE i # 1 /\ j # 1
    BY <2>1, <1>4, <1>5 DEF Distinct
  <2>2. CASE i = 1 \/ j = 1
    BY <2>2, <1>4, <1>5 DEF Elems
  <2> QED BY <2>1, <2>2
<1>7. Elems(s) \subseteq {a} \cup Elems(r)
  <2> SUFFICES ASSUME NEW i \in DOMAIN s PROVE s[i] \in {a} \cup Elems(r)
    BY DEF Elems
  <2> QED BY <1>4, <1>5 DEF Elems
<1>8. ASSUME NEW i \in 1..Len(r) PROVE r[i] \in Elems(s)
  <2>1. i + 1 \in DOMAIN s /\ s[i + 1] = r[i]
    BY <1>4
  <2> QED BY <2>1 DEF Elems
<1>9. {a} \cup Elems(r) \subseteq Elems(s)
  BY <1>4, <1>8 DEF Elems
<1> QED BY <1>1, <1>3, <1>4, <1>6, <1>7, <1>9

\* No pool has more or fewer live slots after the step.
LiveKept == \A p \in Pools : Live(p)' = Live(p)

----------------------------------------------------------------------------
(* The geometry of slots under the two kinds of step *)

\* Steps that cut no slot off: slots only stop being live.
LEMMA GeometryKept ==
    ASSUME IInv, UNCHANGED <<blocks, cur, last>>, \A p \in Pools : Live(p)' \subseteq Live(p)
    PROVE  Geometry'
<1> SUFFICES ASSUME NEW p \in Pools PROVE GeometryAt(p)'
  BY DEF Geometry
<1>1. GeometryAt(p) /\ Live(p)' \subseteq Live(p)
  BY DEF IInv, Geometry
<1>2. \A a \in Live(p)' : \E b \in blocks'[p] :
          b + Word <= a /\ a + SlotSize[p] <= b + BlockSize
  BY <1>1 DEF GeometryAt
<1>3. \A a, c \in Live(p)' : a # c => Apart(a, SlotSize[p], c, SlotSize[p])
  BY <1>1 DEF GeometryAt
<1>4. cur'[p] < last'[p] =>
          \E b \in blocks'[p] :
             /\ b + Word <= cur'[p] /\ cur'[p] + SlotSize[p] <= b + BlockSize
             /\ last'[p] = LastSlot(b, p)
             /\ \A a \in Live(p)' : Apart(a, SlotSize[p], cur'[p], b + BlockSize - cur'[p])
  BY <1>1 DEF GeometryAt
<1> QED BY <1>2, <1>3, <1>4 DEF GeometryAt

\* Steps that cut a slot off block b of pool q, at address new, apart from what is
\* live, with the rest of the block behind it.
LEMMA GeometryGrown ==
    ASSUME IInv, NEW q \in Pools, NEW b \in blocks'[q], NEW new \in Nat,
           blocks[q] \subseteq blocks'[q], b \in Nat,
           b + Word <= new, new + SlotSize[q] <= b + BlockSize,
           \A a \in Live(q) : Apart(a, SlotSize[q], new, b + BlockSize - new),
           Live(q)' \subseteq Live(q) \cup {new}, Live(q) \subseteq Nat,
           cur'[q] = new + SlotSize[q], last'[q] = LastSlot(b, q),
           \A p \in Pools \ {q} : /\ Live(p)' \subseteq Live(p)
                                  /\ blocks'[p] = blocks[p] /\ cur'[p] = cur[p] /\ last'[p] = last[p]
    PROVE  Geometry'
<1> SUFFICES ASSUME NEW p \in Pools PROVE GeometryAt(p)'
  BY DEF Geometry
<1>0. GeometryAt(p) /\ SlotSize[p] \in Nat /\ SlotSize[p] > 0 /\ Word \in Nat /\ BlockSize \in Nat
  BY SlotSizes, SizesAssumption, BlockAssumption DEF IInv, Geometry
<1>1. CASE p # q
  <2>1. p \in Pools \ {q}
    BY <1>1
  <2>2. Live(p)' \subseteq Live(p) /\ blocks'[p] = blocks[p] /\ cur'[p] = cur[p] /\ last'[p] = last[p]
    BY <2>1
  <2>3. \A a \in Live(p)' : \E c \in blocks'[p] :
            c + Word <= a /\ a + SlotSize[p] <= c + BlockSize
    BY <1>0, <2>2 DEF GeometryAt
  <2>4. \A a, c \in Live(p)' : a # c => Apart(a, SlotSize[p], c, SlotSize[p])
    BY <1>0, <2>2 DEF GeometryAt
  <2>5. cur'[p] < last'[p] =>
          \E c \in blocks'[p] :
             /\ c + Word <= cur'[p] /\ cur'[p] + SlotSize[p] <= c + BlockSize
             /\ last'[p] = LastSlot(c, p)
             /\ \A a \in Live(p)' : Apart(a, SlotSize[p], cur'[p], c + BlockSize - cur'[p])
    BY <1>0, <2>2 DEF GeometryAt
  <2> QED BY <2>3, <2>4, <2>5 DEF GeometryAt
<1>2. CASE p = q
  <2>1. \A a \in Live(p)' : \E c \in blocks'[p] :
            c + Word <= a /\ a + SlotSize[p] <= c + BlockSize
    <3> SUFFICES ASSUME NEW a \in Live(p)' PROVE \E c \in blocks'[p] :
                     c + Word <= a /\ a + SlotSize[p] <= c + BlockSize
      OBVIOUS
    <3>1. CASE a = new
      BY <3>1, <1>2
    <3>2. CASE a \in Live(p)
      BY <3>2, <1>0, <1>2 DEF GeometryAt
    <3> QED BY <3>1, <3>2, <1>2
  <2>2. ASSUME NEW a \in Live(p) PROVE Apart(a, SlotSize[p], new, SlotSize[p])
    BY <2>2, <1>0, <1>2 DEF Apart
  <2>3. \A a, c \in Live(p)' : a # c => Apart(a, SlotSize[p], c, SlotSize[p])
    <3> SUFFICES ASSUME NEW a \in Live(p)', NEW c \in Live(p)', a # c
                 PROVE  Apart(a, SlotSize[p], c, SlotSize[p])
      OBVIOUS
    <3>1. CASE a \in Live(p) /\ c \in Live(p)
      BY <3>1, <1>0 DEF GeometryAt
    <3>2. CASE a \in Live(p) /\ c = new
      BY <3>2, <2>2
    <3>3. CASE c \in Live(p) /\ a = new
      BY <3>3, <2>2 DEF Apart
    <3> QED BY <3>1, <3>2, <3>3, <1>2
  <2>4. ASSUME cur'[p] < last'[p] PROVE cur'[p] + SlotSize[p] <= b + BlockSize
    BY <2>4, <1>0, <1>2 DEF LastSlot
  <2>5. ASSUME NEW a \in Live(p)' PROVE Apart(a, SlotSize[p], cur'[p], b + BlockSize - cur'[p])
    <3>1. CASE a = new
      BY <3>1, <1>0, <1>2 DEF Apart
    <3>2. CASE a \in Live(p)
      BY <3>2, <1>0, <1>2 DEF Apart
    <3> QED BY <3>1, <3>2, <1>2
  <2>6. b + Word <= cur'[p] /\ b \in blocks'[p]
    BY <1>0, <1>2
  <2> QED BY <2>1, <2>3, <2>4, <2>5, <2>6, <1>2 DEF GeometryAt
<1> QED BY <1>1, <1>2

\* Slots of different pools, and large elements, lie in different blocks.
LEMMA FarApart ==
    ASSUME NEW a \in Heap, NEW b \in Heap, a # b, NEW x \in Nat, NEW m \in Nat,
           NEW y \in Nat, NEW n \in Nat,
           a <= x, x + m <= a + BlockSize, b <= y, y + n <= b + BlockSize
    PROVE  Apart(x, m, y, n)
BY HeapAssumption, BlockAssumption DEF Apart

\* The invariant says what the property needs.
LEMMA IInvNoOverlap == IInv => NoOverlap
<1> SUFFICES ASSUME IInv PROVE NoOverlap
  OBVIOUS
<1> USE DEF IInv
<1>0. Word \in Nat /\ Word > 0 /\ BlockSize \in Nat /\ Heap \subseteq Nat
  BY SizesAssumption, BlockAssumption, HeapAssumption
<1>1. ASSUME NEW u \in used
      PROVE  u[1] \in Nat /\ u[2] \in Nat /\ u[2] \in Sizes /\ u[2] <= BlockSize
  BY SizesAssumption, HeapAssumption DEF TypeOK
<1>2. ASSUME NEW u \in used, Small(u[2])
      PROVE  LET p == PoolOf(u[2])
             IN  /\ p \in Pools /\ u[1] \in Live(p) /\ u[2] <= SlotSize[p]
                 /\ SlotSize[p] \in Nat
                 /\ \E b \in blocks[p] : /\ b \in Heap /\ b + Word <= u[1]
                                         /\ u[1] + u[2] <= b + BlockSize
  <2>1. PICK p : p = PoolOf(u[2])
    OBVIOUS
  <2>2. p \in Pools /\ u[2] <= SlotSize[p] /\ SlotSize[p] \in Nat
    BY <1>1, <1>2, <2>1, Fits, SlotSizes
  <2>3. u[1] \in Live(p)
    BY <1>2, <2>1 DEF Live, BusySlots
  <2>4. PICK b \in blocks[p] : b + Word <= u[1] /\ u[1] + SlotSize[p] <= b + BlockSize
    BY <2>2, <2>3 DEF Geometry, GeometryAt
  <2>5. b \in Heap
    BY <2>2 DEF TypeOK
  <2>6. u[1] + u[2] <= b + BlockSize
    BY <2>2, <2>4, <2>5, <1>0, <1>1
  <2> QED BY <2>1, <2>2, <2>3, <2>4, <2>5, <2>6
<1>3. ASSUME NEW u \in used, NEW v \in used, u # v PROVE Apart(u[1], u[2], v[1], v[2])
  <2>0. u[1] # v[1]
    BY <1>3 DEF OnePlace
  <2>1. CASE Small(u[2]) /\ Small(v[2])
    <3>1. PICK p, q : p = PoolOf(u[2]) /\ q = PoolOf(v[2])
      OBVIOUS
    <3>2. CASE p = q
      <4>1. Apart(u[1], SlotSize[p], v[1], SlotSize[p])
        BY <1>2, <2>0, <2>1, <3>1, <3>2 DEF Geometry, GeometryAt
      <4>2. u[2] <= SlotSize[p] /\ v[2] <= SlotSize[p] /\ SlotSize[p] \in Nat
        BY <1>2, <2>1, <3>1, <3>2
      <4>3. u[1] \in Nat /\ u[2] \in Nat /\ v[1] \in Nat /\ v[2] \in Nat
        BY <1>1
      <4> QED BY ONLY <4>1, <4>2, <4>3 DEF Apart
    <3>3. CASE p # q
      <4>1. PICK b \in blocks[p] : b \in Heap /\ b + Word <= u[1] /\ u[1] + u[2] <= b + BlockSize
        BY <1>2, <2>1, <3>1
      <4>2. PICK c \in blocks[q] : c \in Heap /\ c + Word <= v[1] /\ v[1] + v[2] <= c + BlockSize
        BY <1>2, <2>1, <3>1
      <4>3. b # c
        BY <3>1, <3>3, <4>1, <4>2, <1>2, <2>1 DEF OneOwner
      <4>4. u[1] \in Nat /\ u[2] \in Nat /\ v[1] \in Nat /\ v[2] \in Nat
        BY <1>1
      <4>5. b <= u[1] /\ c <= v[1]
        BY <4>1, <4>2, <4>4, <1>0
      <4> QED BY ONLY <4>1, <4>2, <4>3, <4>4, <4>5, FarApart
    <3> QED BY <3>2, <3>3
  <2>2. CASE Small(u[2]) /\ ~Small(v[2])
    <3>1. PICK p : p = PoolOf(u[2])
      OBVIOUS
    <3>2. PICK b \in blocks[p] : b \in Heap /\ b + Word <= u[1] /\ u[1] + u[2] <= b + BlockSize
      BY <1>2, <2>2, <3>1
    <3>3. v[1] \in Heap /\ v[1] # b
      BY <1>2, <2>2, <3>1, <3>2 DEF OneOwner
    <3>4. b <= u[1] /\ v[1] <= v[1] /\ v[1] + v[2] <= v[1] + BlockSize
      BY <3>2, <1>0, <1>1
    <3>5. u[1] \in Nat /\ u[2] \in Nat /\ v[1] \in Nat /\ v[2] \in Nat
      BY <1>1
    <3> QED BY ONLY <3>2, <3>3, <3>4, <3>5, FarApart
  <2>3. CASE ~Small(u[2]) /\ Small(v[2])
    <3>1. PICK p : p = PoolOf(v[2])
      OBVIOUS
    <3>2. PICK b \in blocks[p] : b \in Heap /\ b + Word <= v[1] /\ v[1] + v[2] <= b + BlockSize
      BY <1>2, <2>3, <3>1
    <3>3. u[1] \in Heap /\ u[1] # b
      BY <1>2, <2>3, <3>1, <3>2 DEF OneOwner
    <3>4. b <= v[1] /\ u[1] <= u[1] /\ u[1] + u[2] <= u[1] + BlockSize
      BY <3>2, <1>0, <1>1
    <3>5. u[1] \in Nat /\ u[2] \in Nat /\ v[1] \in Nat /\ v[2] \in Nat
      BY <1>1
    <3> QED BY ONLY <3>2, <3>3, <3>4, <3>5, FarApart
  <2>4. CASE ~Small(u[2]) /\ ~Small(v[2])
    <3>1. u[1] \in Heap /\ v[1] \in Heap
      BY <2>4 DEF OneOwner
    <3> QED BY <3>1, <2>0, <1>0, <1>1, FarApart
  <2> QED BY <2>1, <2>2, <2>3, <2>4
<1>4. ASSUME NEW u \in used, NEW p \in Pools, NEW b \in blocks[p] PROVE Apart(u[1], u[2], b, Word)
  <2>00. MaxSlotSize \in Nat
    BY SizesAssumption DEF MaxSlotSize
  <2>0. b \in Heap /\ b + Word <= b + BlockSize
    BY <1>0, <2>00, BlockAssumption DEF TypeOK
  <2>1. CASE Small(u[2])
    <3>1. PICK q : q = PoolOf(u[2])
      OBVIOUS
    <3>2. PICK c \in blocks[q] : c \in Heap /\ c + Word <= u[1] /\ u[1] + u[2] <= c + BlockSize
      BY <1>2, <2>1, <3>1
    <3>3. CASE c = b
      BY <3>2, <3>3, <1>0, <1>1 DEF Apart
    <3>4. CASE c # b
      BY <3>2, <3>4, <2>0, <1>0, <1>1, FarApart
    <3> QED BY <3>3, <3>4
  <2>2. CASE ~Small(u[2])
    <3>1. u[1] \in Heap /\ u[1] # b
      BY <2>2 DEF OneOwner
    <3> QED BY <3>1, <2>0, <1>0, <1>1, FarApart
  <2> QED BY <2>1, <2>2
<1> QED BY <1>3, <1>4 DEF NoOverlap

----------------------------------------------------------------------------
(* The invariant holds initially, and the steps keep it *)

LEMMA InitIInv == Init => IInv
<1> SUFFICES ASSUME Init PROVE IInv
  OBVIOUS
<1> USE DEF Init
<1>1. \A p \in Pools : Row(p) = <<>> /\ FreeSlots(p) = {} /\ BusySlots(p) = {}
  <2> SUFFICES ASSUME NEW p \in Pools PROVE Row(p) = <<>> /\ FreeSlots(p) = {} /\ BusySlots(p) = {}
    OBVIOUS
  <2>1. Row(p) = <<>>
    BY DEF Row
  <2>2. FreeSlots(p) = {}
    BY <2>1 DEF FreeSlots
  <2>3. BusySlots(p) = {}
    BY DEF BusySlots, Idle
  <2> QED BY <2>1, <2>2, <2>3
<1>2. TypeOK
  <2>1. /\ blocks \in [Pools -> SUBSET Heap] /\ cur \in [Pools -> Nat] /\ last \in [Pools -> Nat]
        /\ lock \in [Pools -> Threads \cup {NoThread}]
        /\ used \in SUBSET ((Nat \ {0}) \X Sizes) /\ crashed \in BOOLEAN /\ cleared \in BOOLEAN
    OBVIOUS
  <2>2. <<>> \in Seq(Nat \ {0})
    OBVIOUS
  <2>3. free \in [Pools -> Seq(Nat \ {0})]
    BY <2>2
  <2>4. Idle \in [at : {"idle", "lock", "pop", "block", "push"}, size : Sizes \cup {0},
                  slot : Nat, row : Seq(Nat \ {0})]
    BY <2>2 DEF Idle
  <2> QED BY <2>1, <2>3, <2>4 DEF TypeOK
<1>3. LocksRight
  BY DEF LocksRight, Idle, Working
<1>4. OnePlace
  BY <1>1 DEF OnePlace, Distinct, Idle
<1>5. Geometry
  BY <1>1 DEF Geometry, GeometryAt, Live
<1>6. OneOwner
  BY DEF OneOwner
<1> QED BY <1>2, <1>3, <1>4, <1>5, <1>6 DEF IInv

\* A thread at work on a list holds its mutex and no other.
LEMMA Holder ==
    ASSUME IInv, NEW t \in Threads, Working(t)
    PROVE  LET p == PoolOf(call[t].size)
           IN  /\ p \in Pools /\ lock[p] = t /\ Row(p) = call[t].row
               /\ Row(p) \in Seq(Nat \ {0}) /\ Distinct(Row(p))
               /\ \A q \in Pools : lock[q] = t => q = p
               /\ call[t].size \in Sizes /\ Small(call[t].size)
<1> DEFINE p == PoolOf(call[t].size)
<1>1. call[t].size \in Sizes /\ Small(call[t].size) /\ lock[p] = t
  BY DEF IInv, LocksRight, Working
<1>2. p \in Pools
  BY <1>1, Fits
<1>3. t # NoThread
  BY ThreadsAssumption
<1>4. Row(p) = call[t].row
  BY <1>1, <1>3 DEF Row
<1>5. call[t].row \in Seq(Nat \ {0})
  BY DEF IInv, TypeOK
<1>6. \A q \in Pools : lock[q] = t => q = p
  BY <1>3 DEF IInv, LocksRight
<1>7. Distinct(Row(p))
  BY <1>2 DEF IInv, OnePlace
<1> QED BY <1>1, <1>2, <1>4, <1>5, <1>6, <1>7

\* A thread that is not holds none.
LEMMA Idler ==
    ASSUME IInv, NEW t \in Threads, ~Working(t)
    PROVE  \A p \in Pools : lock[p] # t
BY ThreadsAssumption DEF IInv, LocksRight

\* Where it is in the call, and with which element, is the thread's own.
LEMMA CallQuiet ==
    ASSUME IInv, NEW t \in Threads, ~Working(t),
           NEW c \in [at : {"idle", "lock", "block"}, size : Sizes \cup {0},
                      slot : Nat, row : Seq(Nat \ {0})],
           c.at # "idle" => c.size \in Sizes /\ Small(c.size),
           call' = [call EXCEPT ![t] = c],
           UNCHANGED <<blocks, cur, last, free, lock, used, crashed, cleared>>
    PROVE  IInv' /\ LiveKept
<1>0. \A s \in Threads : call'[s] = IF s = t THEN c ELSE call[s]
  BY DEF IInv, TypeOK
<1>1. TypeOK'
  BY DEF IInv, TypeOK
<1>2. \A p \in Pools : Row(p)' = Row(p) /\ FreeSlots(p)' = FreeSlots(p)
                       /\ BusySlots(p)' = BusySlots(p)
  <2> SUFFICES ASSUME NEW p \in Pools
               PROVE  Row(p)' = Row(p) /\ FreeSlots(p)' = FreeSlots(p)
                      /\ BusySlots(p)' = BusySlots(p)
    OBVIOUS
  <2>1. lock[p] # t
    BY Idler
  <2>2. lock[p] = NoThread \/ lock[p] \in Threads
    BY DEF IInv, TypeOK
  <2>3. Row(p)' = Row(p)
    BY <1>0, <2>1, <2>2 DEF Row
  <2>4. FreeSlots(p)' = FreeSlots(p)
    BY <2>3 DEF FreeSlots
  <2>5. BusySlots(p)' = BusySlots(p)
    BY <1>0, <2>1 DEF BusySlots
  <2> QED BY <2>3, <2>4, <2>5
<1>3. LocksRight'
  <2>1. ASSUME NEW s \in Threads
        PROVE  /\ call'[s].at # "idle" => call'[s].size \in Sizes /\ Small(call'[s].size)
               /\ Working(s)' => lock'[PoolOf(call'[s].size)] = s
               /\ call'[s].at = "pop" => call'[s].row # <<>>
    BY <1>0 DEF IInv, LocksRight, Working
  <2>2. ASSUME NEW p \in Pools
        PROVE  /\ lock'[p] # NoThread => /\ Working(lock[p])'
                                         /\ PoolOf(call'[lock[p]].size) = p
               /\ free'[p] = <<>> \/ free'[p] = Row(p)'
    <3>1. lock[p] # t /\ (lock[p] = NoThread \/ lock[p] \in Threads)
      BY Idler DEF IInv, TypeOK
    <3> QED BY <1>0, <1>2, <3>1 DEF IInv, LocksRight, Working
  <2> QED BY <2>1, <2>2 DEF LocksRight
<1>4. OnePlace'
  BY <1>0, <1>2 DEF IInv, OnePlace
<1>5. Geometry'
  <2>1. \A p \in Pools : Live(p)' \subseteq Live(p)
    BY <1>2 DEF Live
  <2> QED BY <2>1, GeometryKept
<1>6. OneOwner'
  BY DEF IInv, OneOwner
<1>7. LiveKept
  BY <1>2 DEF LiveKept, Live
<1> QED BY <1>1, <1>3, <1>4, <1>5, <1>6, <1>7 DEF IInv

\* Under the mutex, the second look finds a slot.
LEMMA LockFreeIInv ==
    ASSUME IInv, NEW t \in Threads, LockFree(t)
    PROVE  IInv' /\ LiveKept
<1> DEFINE p == PoolOf(call[t].size)
<1> DEFINE R == [at : {"idle", "lock", "block", "pop", "push"}, size : Sizes \cup {0},
                 slot : Nat, row : Seq(Nat \ {0})]
<1>0. /\ call[t].at = "lock" /\ ~Working(t) /\ p \in Pools /\ lock[p] = NoThread
      /\ call[t].size \in Sizes /\ Small(call[t].size) /\ call[t] \in R
  BY Fits DEF IInv, LocksRight, LockFree, At, Working, TypeOK
<1>1. CASE free[p] = <<>>
  <2>1. PICK c : c = [call[t] EXCEPT !.at = "block"]
    OBVIOUS
  <2>2. /\ c \in [at : {"idle", "lock", "block"}, size : Sizes \cup {0},
                  slot : Nat, row : Seq(Nat \ {0})]
        /\ c.size = call[t].size
    BY <1>0, <2>1
  <2>3. call' = [call EXCEPT ![t] = c]
    BY <1>1, <2>1 DEF LockFree, Go, IInv, TypeOK
  <2> QED BY <1>0, <1>1, <2>2, <2>3, CallQuiet DEF LockFree
<1>2. CASE free[p] # <<>>
  <2>1. PICK c : c = [call[t] EXCEPT !.at = "pop", !.row = free[p]]
    OBVIOUS
  <2>2. free[p] \in Seq(Nat \ {0})
    BY <1>0 DEF IInv, TypeOK
  <2>3. /\ c \in [at : {"idle", "lock", "pop", "block", "push"}, size : Sizes \cup {0},
                  slot : Nat, row : Seq(Nat \ {0})]
        /\ c.size = call[t].size /\ c.at = "pop" /\ c.row = free[p]
    BY <1>0, <2>1, <2>2
  <2>4. call' = [call EXCEPT ![t] = c]
    BY <1>2, <2>1 DEF LockFree, IInv, TypeOK
  <2>5. /\ lock' = [lock EXCEPT ![p] = t]
        /\ UNCHANGED <<blocks, cur, last, free, used, crashed, cleared>>
    BY <1>2 DEF LockFree
  <2>6. /\ \A s \in Threads : call'[s] = IF s = t THEN c ELSE call[s]
        /\ \A q \in Pools : lock'[q] = IF q = p THEN t ELSE lock[q]
    BY <2>4, <2>5 DEF IInv, TypeOK
  <2>7. TypeOK'
    BY <2>3, <2>4, <2>5 DEF IInv, TypeOK
  <2>8. \A q \in Pools : /\ Row(q)' = Row(q) /\ FreeSlots(q)' = FreeSlots(q)
                         /\ BusySlots(q)' = BusySlots(q)
    <3> SUFFICES ASSUME NEW q \in Pools
                 PROVE  /\ Row(q)' = Row(q) /\ FreeSlots(q)' = FreeSlots(q)
                        /\ BusySlots(q)' = BusySlots(q)
      OBVIOUS
    <3>1. lock[q] # t /\ (lock[q] = NoThread \/ lock[q] \in Threads) /\ t # NoThread
      BY <1>0, Idler, ThreadsAssumption DEF IInv, TypeOK
    <3>2. Row(q)' = Row(q)
      BY <1>0, <2>3, <2>5, <2>6, <3>1 DEF Row
    <3>3. FreeSlots(q)' = FreeSlots(q)
      BY <3>2 DEF FreeSlots
    <3>4. \A s \in Threads : (call'[s].at = "push" /\ lock'[q] = s)
                                <=> (call[s].at = "push" /\ lock[q] = s)
      BY <1>0, <2>3, <2>6, <3>1, ThreadsAssumption
    <3>5. \A s \in Threads : call'[s].at = "push" => call'[s] = call[s]
      BY <2>3, <2>6
    <3>6. BusySlots(q)' = BusySlots(q)
      BY <2>5, <3>4, <3>5 DEF BusySlots
    <3> QED BY <3>2, <3>3, <3>6
  <2>9. LocksRight'
    <3>1. ASSUME NEW s \in Threads
          PROVE  /\ call'[s].at # "idle" => call'[s].size \in Sizes /\ Small(call'[s].size)
                 /\ Working(s)' => lock'[PoolOf(call'[s].size)] = s
                 /\ call'[s].at = "pop" => call'[s].row # <<>>
      <4>1. CASE s = t
        BY <4>1, <1>0, <1>2, <2>3, <2>6
      <4>2. CASE s # t
        BY <4>2, <1>0, <2>6, Holder, ThreadsAssumption DEF IInv, LocksRight, Working
      <4> QED BY <4>1, <4>2
    <3>2. ASSUME NEW q \in Pools
          PROVE  /\ lock'[q] # NoThread => /\ Working(lock[q])'
                                           /\ PoolOf(call'[lock'[q]].size) = q
                 /\ free'[q] = <<>> \/ free'[q] = Row(q)'
      <4>1. CASE q = p
        BY <4>1, <1>0, <2>3, <2>5, <2>6, <2>8 DEF Working, IInv, LocksRight
      <4>2. CASE q # p
        <5>1. lock[q] # t /\ (lock[q] = NoThread \/ lock[q] \in Threads)
          BY <1>0, Idler DEF IInv, TypeOK
        <5> QED BY <4>2, <5>1, <2>5, <2>6, <2>8 DEF Working, IInv, LocksRight
      <4> QED BY <4>1, <4>2
    <3> QED BY <3>1, <3>2 DEF LocksRight
  <2>10. OnePlace'
    BY <2>3, <2>5, <2>6, <2>8 DEF IInv, OnePlace
  <2>11. Geometry'
    <3>1. \A q \in Pools : Live(q)' \subseteq Live(q)
      BY <2>8 DEF Live
    <3> QED BY <2>5, <3>1, GeometryKept
  <2>12. OneOwner'
    BY <2>5 DEF IInv, OneOwner
  <2>13. LiveKept
    BY <2>8 DEF LiveKept, Live
  <2> QED BY <2>7, <2>9, <2>10, <2>11, <2>12, <2>13 DEF IInv
<1> QED BY <1>1, <1>2

\* A thread ends its work on a list with a row for its pool, and gives back the mutex.
LEMMA ReleaseRows ==
    ASSUME IInv, NEW t \in Threads, Working(t), NEW r \in Seq(Nat \ {0}),
           NEW p \in Pools, p = PoolOf(call[t].size),
           \A s \in Threads \ {t} : call'[s] = call[s], NEW q \in Pools,
           lock'[q] = IF q = p THEN NoThread ELSE lock[q],
           free'[q] = IF q = p THEN r ELSE free[q]
    PROVE  /\ Row(q)' = IF q = p THEN r ELSE Row(q)
           /\ FreeSlots(q)' = IF q = p THEN Elems(r) ELSE FreeSlots(q)
<1>0. /\ lock[p] = t /\ t # NoThread /\ NoThread \notin Threads
      /\ \A o \in Pools : lock[o] = t => o = p
  BY Holder, ThreadsAssumption
<1>1. lock[q] = NoThread \/ lock[q] \in Threads
  BY DEF IInv, TypeOK
<1>2. Row(q)' = IF q = p THEN r ELSE Row(q)
  <2>1. CASE q = p
    BY <2>1, <1>0, <1>1 DEF Row
  <2>2. CASE q # p
    BY <2>2, <1>0, <1>1 DEF Row
  <2> QED BY <2>1, <2>2
<1>3. FreeSlots(q)' = IF q = p THEN Elems(r) ELSE FreeSlots(q)
  <2>1. CASE q = p
    BY <2>1, <1>2 DEF FreeSlots, Elems
  <2>2. CASE q # p
    BY <2>2, <1>2 DEF FreeSlots
  <2> QED BY <2>1, <2>2
<1> QED BY <1>2, <1>3

LEMMA ReleaseLocks ==
    ASSUME IInv, NEW t \in Threads, Working(t), NEW r \in Seq(Nat \ {0}),
           NEW p \in Pools, p = PoolOf(call[t].size),
           free' = [free EXCEPT ![p] = r], lock' = [lock EXCEPT ![p] = NoThread],
           call' = [call EXCEPT ![t] = Idle]
    PROVE  /\ \A s \in Threads, q \in Pools :
                 call'[s].at = "push" /\ lock'[q] = s
                     <=> s # t /\ call[s].at = "push" /\ lock[q] = s
           /\ \A s \in Threads : call'[s] = IF s = t THEN Idle ELSE call[s]
           /\ LocksRight'
<1>0. /\ lock[p] = t /\ t # NoThread /\ NoThread \notin Threads
      /\ \A q \in Pools : lock[q] = t => q = p
  BY Holder, ThreadsAssumption
<1>1. /\ \A s \in Threads : call'[s] = IF s = t THEN Idle ELSE call[s]
      /\ \A q \in Pools : lock'[q] = IF q = p THEN NoThread ELSE lock[q]
      /\ \A q \in Pools : free'[q] = IF q = p THEN r ELSE free[q]
      /\ \A q \in Pools : lock[q] = NoThread \/ lock[q] \in Threads
  BY DEF IInv, TypeOK
<1>4. ASSUME NEW q \in Pools PROVE Row(q)' = IF q = p THEN r ELSE Row(q)
  <2>1. /\ lock'[q] = IF q = p THEN NoThread ELSE lock[q]
        /\ free'[q] = IF q = p THEN r ELSE free[q]
    BY <1>1
  <2>2. \A s \in Threads \ {t} : call'[s] = call[s]
    BY <1>1
  <2> QED BY <2>1, <2>2, ReleaseRows
<1>5. \A s \in Threads, q \in Pools :
          call'[s].at = "push" /\ lock'[q] = s
              <=> s # t /\ call[s].at = "push" /\ lock[q] = s
  BY <1>0, <1>1 DEF Idle
<1>6. LocksRight'
  <2>1. ASSUME NEW s \in Threads
        PROVE  /\ call'[s].at # "idle" => call'[s].size \in Sizes /\ Small(call'[s].size)
               /\ Working(s)' => lock'[PoolOf(call'[s].size)] = s
               /\ call'[s].at = "pop" => call'[s].row # <<>>
    <3>1. CASE s = t
      BY <3>1, <1>1 DEF Idle, Working
    <3>2. CASE s # t
      <4>1. Working(s) => PoolOf(call[s].size) \in Pools /\ PoolOf(call[s].size) # p
        BY <3>2, <1>0, Holder
      <4> QED BY <3>2, <4>1, <1>0, <1>1 DEF IInv, LocksRight, Working
    <3> QED BY <3>1, <3>2
  <2>2. ASSUME NEW q \in Pools
        PROVE  /\ lock'[q] # NoThread => /\ Working(lock[q])'
                                         /\ PoolOf(call'[lock'[q]].size) = q
               /\ free'[q] = <<>> \/ free'[q] = Row(q)'
    <3>1. CASE q = p
      BY <3>1, <1>0, <1>1, <1>4
    <3>2. CASE q # p
      <4>1. lock[q] # t
        BY <3>2, <1>0
      <4> QED BY <3>2, <4>1, <1>1, <1>4 DEF IInv, LocksRight, Working
    <3> QED BY <3>1, <3>2
  <2> QED BY <2>1, <2>2 DEF LocksRight
<1> QED BY <1>1, <1>5, <1>6

LEMMA PushIInv ==
    ASSUME IInv, NEW t \in Threads, Push(t)
    PROVE  IInv' /\ LiveKept
<1>p. PICK p, a : p = PoolOf(call[t].size) /\ a = call[t].slot
  OBVIOUS
<1>0. /\ call[t].at = "push" /\ Working(t)
      /\ UNCHANGED <<blocks, cur, last, used, crashed, cleared>>
  BY DEF Push, At, Working
<1>1. /\ p \in Pools /\ lock[p] = t /\ Row(p) = call[t].row
      /\ Row(p) \in Seq(Nat \ {0}) /\ Distinct(Row(p))
  BY <1>p, <1>0, Holder
<1>2. a \in BusySlots(p) /\ a \notin FreeSlots(p) /\ a \in Nat
  BY <1>p, <1>0, <1>1 DEF BusySlots, IInv, OnePlace, TypeOK
<1>3. a # 0
  <2>1. PICK b \in blocks[p] : b + Word <= a
    BY <1>1, <1>2 DEF IInv, Geometry, GeometryAt, Live
  <2>2. b \in Nat /\ Word \in Nat /\ Word > 0
    BY <1>1, HeapAssumption, SizesAssumption DEF IInv, TypeOK
  <2> QED BY <2>1, <2>2, <1>2
<1>4. PICK r : r = <<a>> \o Row(p)
  OBVIOUS
<1>5. r \in Seq(Nat \ {0}) /\ Distinct(r) /\ Elems(r) = {a} \cup FreeSlots(p)
  <2>1. a \notin Elems(Row(p)) /\ Elems(Row(p)) = FreeSlots(p) /\ a \in Nat \ {0}
    BY <1>2, <1>3 DEF FreeSlots, Elems
  <2> QED BY <1>1, <1>4, <2>1, LongerRow
<1>6. /\ free' = [free EXCEPT ![p] = r] /\ lock' = [lock EXCEPT ![p] = NoThread]
      /\ call' = [call EXCEPT ![t] = Idle]
  BY <1>p, <1>1, <1>4 DEF Push
<1>7. /\ Row(p)' = r /\ FreeSlots(p)' = Elems(r) /\ LocksRight'
      /\ \A q \in Pools \ {p} : Row(q)' = Row(q) /\ FreeSlots(q)' = FreeSlots(q)
      /\ \A s \in Threads, q \in Pools :
            call'[s].at = "push" /\ lock'[q] = s
                <=> s # t /\ call[s].at = "push" /\ lock[q] = s
      /\ \A s \in Threads : call'[s] = IF s = t THEN Idle ELSE call[s]
  <2>1. p \in Pools /\ Working(t) /\ r \in Seq(Nat \ {0}) /\ p = PoolOf(call[t].size)
    BY <1>p, <1>0, <1>1, <1>5
  <2>2. /\ LocksRight'
        /\ \A s \in Threads, q \in Pools :
              call'[s].at = "push" /\ lock'[q] = s
                  <=> s # t /\ call[s].at = "push" /\ lock[q] = s
        /\ \A s \in Threads : call'[s] = IF s = t THEN Idle ELSE call[s]
    BY <2>1, <1>6, ReleaseLocks
  <2>3. ASSUME NEW q \in Pools
        PROVE  /\ Row(q)' = IF q = p THEN r ELSE Row(q)
               /\ FreeSlots(q)' = IF q = p THEN Elems(r) ELSE FreeSlots(q)
    <3>1. /\ lock'[q] = IF q = p THEN NoThread ELSE lock[q]
          /\ free'[q] = IF q = p THEN r ELSE free[q]
      BY <2>1, <1>6 DEF IInv, TypeOK
    <3>2. \A s \in Threads \ {t} : call'[s] = call[s]
      BY <2>2
    <3> QED BY <2>1, <3>1, <3>2, ReleaseRows
  <2> QED BY <2>1, <2>2, <2>3
<1>8. TypeOK'
  <2>1. Idle \in [at : {"idle", "lock", "pop", "block", "push"}, size : Sizes \cup {0},
                  slot : Nat, row : Seq(Nat \ {0})]
    BY DEF Idle
  <2> QED BY <1>0, <1>1, <1>5, <1>6, <2>1 DEF IInv, TypeOK
<1>9. /\ BusySlots(p)' = BusySlots(p) \ {a}
      /\ \A q \in Pools \ {p} : BusySlots(q)' = BusySlots(q)
  <2>1. \A s \in Threads : s # t => call'[s] = call[s]
    BY <1>7
  <2>2. ASSUME NEW q \in Pools, q # p PROVE BusySlots(q)' = BusySlots(q)
    <3>1. lock[q] # t
      BY <1>p, <1>0, <2>2, Holder
    <3> QED BY <1>0, <1>7, <2>1, <3>1 DEF BusySlots
  <2>3. BusySlots(p)' \subseteq BusySlots(p) \ {a}
    <3>1. BusySlots(p)' \subseteq BusySlots(p)
      BY <1>0, <1>1, <1>7, <2>1 DEF BusySlots
    <3>2. \A u \in used : u[1] # a
      BY <1>p, <1>0 DEF IInv, OnePlace
    <3>3. \A s \in Threads : ~(call'[s].at = "push" /\ lock'[p] = s)
      BY <1>1, <1>7
    <3> QED BY <1>0, <3>1, <3>2, <3>3 DEF BusySlots
  <2>4. BusySlots(p) \ {a} \subseteq BusySlots(p)'
    BY <1>p, <1>0, <1>1, <1>7, <2>1 DEF BusySlots
  <2> QED BY <2>2, <2>3, <2>4
<1>10. OnePlace'
  <2>1. ASSUME NEW q \in Pools PROVE Distinct(Row(q)') /\ BusySlots(q)' \cap FreeSlots(q)' = {}
    <3>1. CASE q = p
      BY <3>1, <1>1, <1>5, <1>7, <1>9 DEF IInv, OnePlace
    <3>2. CASE q # p
      BY <3>2, <1>7, <1>9 DEF IInv, OnePlace
    <3> QED BY <3>1, <3>2
  <2>2. \A s \in Threads, u \in used' : call'[s].at = "push" => u[1] # call'[s].slot
    BY <1>0, <1>7 DEF Idle, IInv, OnePlace
  <2> QED BY <2>1, <2>2, <1>0 DEF IInv, OnePlace, Distinct
<1>11. LiveKept
  <2>1. Live(p)' = Live(p)
    BY <1>2, <1>5, <1>7, <1>9 DEF Live
  <2>2. \A q \in Pools \ {p} : Live(q)' = Live(q)
    BY <1>7, <1>9 DEF Live
  <2> QED BY <2>1, <2>2 DEF LiveKept
<1>13. Geometry'
  BY <1>0, <1>11, GeometryKept DEF LiveKept
<1>12. OneOwner'
  BY <1>0 DEF IInv, OneOwner
<1> QED BY <1>7, <1>8, <1>10, <1>11, <1>12, <1>13 DEF IInv

\* What lies in a block of one pool is no slot of another.
LEMMA OtherPool ==
    ASSUME IInv, NEW q \in Pools, NEW b \in Heap, b \notin blocks[q], NEW x \in Nat,
           b <= x, x < b + BlockSize, NEW a \in Live(q)
    PROVE  a # x
<1>1. PICK c \in blocks[q] : c + Word <= a /\ a + SlotSize[q] <= c + BlockSize
  BY DEF IInv, Geometry, GeometryAt
<1>2. c \in Heap /\ c # b /\ b \in Nat /\ c \in Nat
  BY HeapAssumption DEF IInv, TypeOK
<1>3. SlotSize[q] \in Nat /\ SlotSize[q] > 0 /\ Word \in Nat /\ Word > 0 /\ BlockSize \in Nat
  BY SlotSizes, SizesAssumption, BlockAssumption
<1>4. c + BlockSize <= b \/ b + BlockSize <= c
  BY <1>2, <1>3, HeapAssumption
<1> QED
  <2> SUFFICES ASSUME a = x PROVE FALSE
    OBVIOUS
  <2> QED BY <1>1, <1>2, <1>3, <1>4

\* Nor is it the address of any element but those of its pool.
LEMMA OtherElement ==
    ASSUME IInv, NEW p \in Pools, NEW b \in Heap, \A q \in Pools \ {p} : b \notin blocks[q],
           \A u \in used : ~Small(u[2]) => u[1] # b,
           NEW x \in Nat, b + Word <= x, x < b + BlockSize,
           NEW u \in used, ~(Small(u[2]) /\ PoolOf(u[2]) = p)
    PROVE  u[1] # x
<1>0. b \in Nat /\ Word \in Nat /\ Word > 0 /\ u[2] \in Sizes
  BY HeapAssumption, SizesAssumption DEF IInv, TypeOK
<1>1. CASE Small(u[2])
  <2>1. PICK q : q = PoolOf(u[2])
    OBVIOUS
  <2>2. q \in Pools /\ q # p /\ u[1] \in Live(q)
    BY <1>0, <1>1, <2>1, Fits DEF Live, BusySlots
  <2> QED BY <1>0, <2>2, OtherPool
<1>2. CASE ~Small(u[2])
  <2>1. u[1] \in Heap /\ u[1] # b /\ u[1] \in Nat
    BY <1>2, HeapAssumption DEF IInv, OneOwner
  <2>2. u[1] + BlockSize <= b \/ b + BlockSize <= u[1]
    BY <2>1, <1>0, HeapAssumption, BlockAssumption
  <2>3. BlockSize \in Nat
    BY BlockAssumption
  <2> SUFFICES ASSUME u[1] = x PROVE FALSE
    OBVIOUS
  <2> QED BY <2>1, <2>2, <2>3, <1>0
<1> QED BY <1>1, <1>2

\* Nor the slot another thread is putting back, unless to the same pool.
LEMMA OtherReturn ==
    ASSUME IInv, NEW p \in Pools, NEW b \in Heap, \A q \in Pools \ {p} : b \notin blocks[q],
           NEW x \in Nat, b + Word <= x, x < b + BlockSize,
           NEW s \in Threads, call[s].at = "push", lock[p] # s
    PROVE  call[s].slot # x
<1>1. PICK q : q = PoolOf(call[s].size)
  OBVIOUS
<1>2. q \in Pools /\ lock[q] = s /\ q # p
  BY <1>1, Holder DEF Working
<1>3. call[s].slot \in Live(q)
  BY <1>2 DEF Live, BusySlots
<1>4. b <= x
  BY HeapAssumption, SizesAssumption
<1> QED BY <1>2, <1>3, <1>4, OtherPool

LEMMA PopIInv ==
    ASSUME IInv, NEW t \in Threads, Pop(t)
    PROVE  IInv' /\ LiveKept
<1>p. PICK p, r, a, n : /\ p = PoolOf(call[t].size) /\ r = Tail(call[t].row)
                        /\ a = Head(call[t].row) /\ n = call[t].size
  OBVIOUS
<1>0. /\ call[t].at = "pop" /\ Working(t) /\ call[t].row # <<>>
      /\ UNCHANGED <<blocks, cur, last, crashed, cleared>>
  BY DEF Pop, At, Working, IInv, LocksRight
<1>1. /\ p \in Pools /\ lock[p] = t /\ Row(p) = call[t].row
      /\ Row(p) \in Seq(Nat \ {0}) /\ Distinct(Row(p)) /\ n \in Sizes /\ Small(n)
      /\ PoolOf(n) = p
  BY <1>p, <1>0, Holder
<1>2. /\ r \in Seq(Nat \ {0}) /\ Distinct(r) /\ a \in FreeSlots(p)
      /\ Elems(r) = FreeSlots(p) \ {a}
  <2>1. PICK w : w = Row(p)
    OBVIOUS
  <2>2. w \in Seq(Nat \ {0}) /\ w # <<>> /\ Distinct(w) /\ r = Tail(w) /\ a = Head(w)
    BY <1>p, <1>0, <1>1, <2>1
  <2>3. /\ Tail(w) \in Seq(Nat \ {0}) /\ Distinct(Tail(w)) /\ Head(w) \in Elems(w)
        /\ Elems(Tail(w)) = Elems(w) \ {Head(w)}
    BY <2>2, TailRow
  <2>4. Elems(w) = FreeSlots(p)
    BY <2>1 DEF Elems, FreeSlots
  <2> QED BY <2>2, <2>3, <2>4
<1>3. a \in Nat \ {0}
  BY <1>1, <1>2 DEF FreeSlots
<1>6. /\ free' = [free EXCEPT ![p] = r] /\ lock' = [lock EXCEPT ![p] = NoThread]
      /\ call' = [call EXCEPT ![t] = Idle] /\ used' = used \cup {<<a, n>>}
  BY <1>p DEF Pop, Return
<1>7. /\ Row(p)' = r /\ FreeSlots(p)' = Elems(r) /\ LocksRight'
      /\ \A q \in Pools \ {p} : Row(q)' = Row(q) /\ FreeSlots(q)' = FreeSlots(q)
      /\ \A s \in Threads, q \in Pools :
            call'[s].at = "push" /\ lock'[q] = s
                <=> s # t /\ call[s].at = "push" /\ lock[q] = s
      /\ \A s \in Threads : call'[s] = IF s = t THEN Idle ELSE call[s]
  <2>1. p \in Pools /\ Working(t) /\ r \in Seq(Nat \ {0}) /\ p = PoolOf(call[t].size)
    BY <1>p, <1>0, <1>1, <1>2
  <2>2. /\ LocksRight'
        /\ \A s \in Threads, q \in Pools :
              call'[s].at = "push" /\ lock'[q] = s
                  <=> s # t /\ call[s].at = "push" /\ lock[q] = s
        /\ \A s \in Threads : call'[s] = IF s = t THEN Idle ELSE call[s]
    BY <2>1, <1>6, ReleaseLocks
  <2>3. ASSUME NEW q \in Pools
        PROVE  /\ Row(q)' = IF q = p THEN r ELSE Row(q)
               /\ FreeSlots(q)' = IF q = p THEN Elems(r) ELSE FreeSlots(q)
    <3>1. /\ lock'[q] = IF q = p THEN NoThread ELSE lock[q]
          /\ free'[q] = IF q = p THEN r ELSE free[q]
      BY <2>1, <1>6 DEF IInv, TypeOK
    <3>2. \A s \in Threads \ {t} : call'[s] = call[s]
      BY <2>2
    <3> QED BY <2>1, <3>1, <3>2, ReleaseRows
  <2> QED BY <2>1, <2>2, <2>3
<1>8. TypeOK'
  <2>1. Idle \in [at : {"idle", "lock", "pop", "block", "push"}, size : Sizes \cup {0},
                  slot : Nat, row : Seq(Nat \ {0})]
    BY DEF Idle
  <2>2. used' \in SUBSET ((Nat \ {0}) \X Sizes)
    BY <1>1, <1>3, <1>6 DEF IInv, TypeOK
  <2> QED BY <1>0, <1>1, <1>2, <1>6, <2>1, <2>2 DEF IInv, TypeOK
<1>9. /\ BusySlots(p)' = BusySlots(p) \cup {a}
      /\ \A q \in Pools \ {p} : BusySlots(q)' = BusySlots(q)
  <2>1. \A s \in Threads : call'[s].at = "push" => call'[s] = call[s]
    BY <1>7 DEF Idle
  <2>2. \A s \in Threads, q \in Pools : call'[s].at = "push" /\ lock'[q] = s
                                            <=> call[s].at = "push" /\ lock[q] = s
    BY <1>0, <1>7
  <2>3. ASSUME NEW q \in Pools, q # p PROVE BusySlots(q)' = BusySlots(q)
    BY <1>1, <1>6, <2>1, <2>2, <2>3 DEF BusySlots
  <2>4. BusySlots(p)' = BusySlots(p) \cup {a}
    <3>1. PICK e : e = <<a, n>>
      OBVIOUS
    <3>2. e[1] = a /\ e[2] = n /\ used' = used \cup {e}
      BY <1>6, <3>1
    <3>3. BusySlots(p)' \subseteq BusySlots(p) \cup {a}
      BY <1>1, <2>1, <2>2, <3>2 DEF BusySlots
    <3>4. a \in BusySlots(p)'
      BY <1>1, <3>2 DEF BusySlots
    <3>5. BusySlots(p) \subseteq BusySlots(p)'
      <4> SUFFICES ASSUME NEW x \in BusySlots(p) PROVE x \in BusySlots(p)'
        OBVIOUS
      <4>1. CASE \E u \in used : Small(u[2]) /\ PoolOf(u[2]) = p /\ x = u[1]
        BY <3>2, <4>1 DEF BusySlots
      <4>2. CASE \E s \in Threads : call[s].at = "push" /\ lock[p] = s /\ x = call[s].slot
        <5>1. PICK s \in Threads : call[s].at = "push" /\ lock[p] = s /\ x = call[s].slot
          BY <4>2
        <5>2. call'[s].at = "push" /\ lock'[p] = s /\ call'[s].slot = x
          BY <5>1, <1>1, <2>1, <2>2
        <5> QED BY <5>2 DEF BusySlots
      <4> QED BY <4>1, <4>2 DEF BusySlots
    <3> QED BY <3>3, <3>4, <3>5
  <2> QED BY <2>3, <2>4
<1>10. PICK b \in blocks[p] : b + Word <= a /\ a + SlotSize[p] <= b + BlockSize
  BY <1>1, <1>2 DEF Live, IInv, Geometry, GeometryAt
<1>11. /\ b \in Heap /\ b + Word <= a /\ a < b + BlockSize /\ a \in Nat
       /\ \A q \in Pools \ {p} : b \notin blocks[q]
       /\ \A u \in used : ~Small(u[2]) => u[1] # b
  <2>1. b \in Heap /\ b \in Nat /\ BlockSize \in Nat /\ SlotSize[p] \in Nat /\ SlotSize[p] > 0
    BY <1>1, HeapAssumption, BlockAssumption, SlotSizes, SizesAssumption DEF IInv, TypeOK
  <2> QED BY <1>1, <1>3, <1>10, <2>1 DEF IInv, OneOwner
<1>12. \A u \in used : u[1] # a
  <2> SUFFICES ASSUME NEW u \in used PROVE u[1] # a
    OBVIOUS
  <2>1. CASE Small(u[2]) /\ PoolOf(u[2]) = p
    BY <2>1, <1>1, <1>2 DEF BusySlots, IInv, OnePlace
  <2>2. CASE ~(Small(u[2]) /\ PoolOf(u[2]) = p)
    BY <2>2, <1>1, <1>11, OtherElement
  <2> QED BY <2>1, <2>2
<1>13. OnePlace'
  <2>1. ASSUME NEW q \in Pools PROVE Distinct(Row(q)') /\ BusySlots(q)' \cap FreeSlots(q)' = {}
    <3>1. CASE q = p
      BY <3>1, <1>1, <1>2, <1>7, <1>9 DEF IInv, OnePlace
    <3>2. CASE q # p
      BY <3>2, <1>7, <1>9 DEF IInv, OnePlace
    <3> QED BY <3>1, <3>2
  <2>2. \A u, v \in used' : u[1] = v[1] => u = v
    BY <1>6, <1>12 DEF IInv, OnePlace
  <2>3. ASSUME NEW s \in Threads, NEW u \in used', call'[s].at = "push"
        PROVE  u[1] # call'[s].slot
    <3>1. s # t /\ call[s].at = "push" /\ call'[s] = call[s] /\ lock[p] # s
      BY <2>3, <1>1, <1>7 DEF Idle
    <3>2. CASE u \in used
      BY <3>1, <3>2 DEF IInv, OnePlace
    <3>3. CASE u = <<a, n>>
      BY <3>1, <3>3, <1>1, <1>11, OtherReturn
    <3> QED BY <3>2, <3>3, <1>6
  <2> QED BY <2>1, <2>2, <2>3 DEF OnePlace, Distinct
<1>14. LiveKept
  <2>1. Live(p)' = Live(p)
    BY <1>2, <1>7, <1>9 DEF Live
  <2>2. \A q \in Pools \ {p} : Live(q)' = Live(q)
    BY <1>7, <1>9 DEF Live
  <2> QED BY <2>1, <2>2 DEF LiveKept
<1>16. Geometry'
  BY <1>0, <1>14, GeometryKept DEF LiveKept
<1>15. OneOwner'
  BY <1>0, <1>1, <1>6 DEF IInv, OneOwner
<1> QED BY <1>7, <1>8, <1>13, <1>14, <1>15, <1>16 DEF IInv

\* The slot is still in use while it is on its way back.
LEMMA LockPushIInv ==
    ASSUME IInv, NEW t \in Threads, NEW a, NEW n, LockPush(t, a, n)
    PROVE  IInv' /\ LiveKept
<1>p. PICK p, c : /\ p = PoolOf(n)
                  /\ c = [at |-> "push", size |-> n, slot |-> a, row |-> free[p]]
  OBVIOUS
<1>0. /\ call[t].at = "idle" /\ ~Working(t) /\ Small(n) /\ <<a, n>> \in used
      /\ lock[p] = NoThread
      /\ lock' = [lock EXCEPT ![p] = t] /\ used' = used \ {<<a, n>>}
      /\ call' = [call EXCEPT ![t] = c]
      /\ UNCHANGED <<blocks, cur, last, free, crashed, cleared>>
  BY <1>p DEF LockPush, At, Working
<1>1. a \in Nat /\ n \in Sizes
  BY <1>0 DEF IInv, TypeOK
<1>2. p \in Pools /\ t # NoThread /\ free[p] \in Seq(Nat \ {0})
  BY <1>p, <1>0, <1>1, Fits, ThreadsAssumption DEF IInv, TypeOK
<1>3. /\ c \in [at : {"idle", "lock", "pop", "block", "push"}, size : Sizes \cup {0},
                slot : Nat, row : Seq(Nat \ {0})]
      /\ c.at = "push" /\ c.size = n /\ c.slot = a /\ c.row = free[p]
  BY <1>p, <1>1, <1>2
<1>4. /\ \A s \in Threads : call'[s] = IF s = t THEN c ELSE call[s]
      /\ \A q \in Pools : lock'[q] = IF q = p THEN t ELSE lock[q]
      /\ \A q \in Pools : lock[q] # t /\ (lock[q] = NoThread \/ lock[q] \in Threads)
  BY <1>0, Idler DEF IInv, TypeOK
<1>5. TypeOK'
  BY <1>0, <1>2, <1>3 DEF IInv, TypeOK
<1>6. \A q \in Pools : Row(q)' = Row(q) /\ FreeSlots(q)' = FreeSlots(q)
  <2> SUFFICES ASSUME NEW q \in Pools PROVE Row(q)' = Row(q) /\ FreeSlots(q)' = FreeSlots(q)
    OBVIOUS
  <2>1. Row(q)' = Row(q)
    BY <1>0, <1>2, <1>3, <1>4 DEF Row
  <2> QED BY <2>1 DEF FreeSlots
<1>7. \A q \in Pools : BusySlots(q)' \subseteq BusySlots(q)
  <2> SUFFICES ASSUME NEW q \in Pools, NEW x \in BusySlots(q)' PROVE x \in BusySlots(q)
    OBVIOUS
  <2>1. CASE \E u \in used' : Small(u[2]) /\ PoolOf(u[2]) = q /\ x = u[1]
    BY <1>0, <2>1 DEF BusySlots
  <2>2. CASE \E s \in Threads : call'[s].at = "push" /\ lock'[q] = s /\ x = call'[s].slot
    <3>1. PICK s \in Threads : call'[s].at = "push" /\ lock'[q] = s /\ x = call'[s].slot
      BY <2>2
    <3>2. CASE s = t
      <4>1. q = p /\ x = a
        BY <3>1, <3>2, <1>3, <1>4
      <4>2. PICK u \in used : u = <<a, n>>
        BY <1>0
      <4>3. u[1] = a /\ u[2] = n
        BY <4>2
      <4> QED BY <4>1, <4>3, <1>0, <1>p DEF BusySlots
    <3>3. CASE s # t
      <4>1. call[s].at = "push" /\ lock[q] = s /\ x = call[s].slot
        BY <3>1, <3>3, <1>4
      <4> QED BY <4>1 DEF BusySlots
    <3> QED BY <3>2, <3>3
  <2> QED BY <2>1, <2>2 DEF BusySlots
<1>12. \A q \in Pools : BusySlots(q) \subseteq BusySlots(q)'
  <2> SUFFICES ASSUME NEW q \in Pools, NEW x \in BusySlots(q) PROVE x \in BusySlots(q)'
    OBVIOUS
  <2>1. CASE \E u \in used : Small(u[2]) /\ PoolOf(u[2]) = q /\ x = u[1]
    <3>1. PICK u \in used : Small(u[2]) /\ PoolOf(u[2]) = q /\ x = u[1]
      BY <2>1
    <3>2. CASE u = <<a, n>>
      <4>1. q = p /\ x = a
        BY <1>p, <3>1, <3>2
      <4>2. t \in Threads /\ call'[t].at = "push" /\ lock'[q] = t /\ call'[t].slot = x
        BY <1>2, <1>3, <1>4, <4>1
      <4> QED BY <4>2 DEF BusySlots
    <3>3. CASE u # <<a, n>>
      <4>1. u \in used'
        BY <1>0, <3>3
      <4> QED BY <3>1, <4>1 DEF BusySlots
    <3> QED BY <3>2, <3>3
  <2>2. CASE \E s \in Threads : call[s].at = "push" /\ lock[q] = s /\ x = call[s].slot
    <3>1. PICK s \in Threads : call[s].at = "push" /\ lock[q] = s /\ x = call[s].slot
      BY <2>2
    <3>2. s # t /\ q # p
      BY <1>0, <1>4, <3>1, ThreadsAssumption
    <3>3. call'[s] = call[s] /\ lock'[q] = s
      BY <1>4, <3>1, <3>2
    <3> QED BY <3>1, <3>3 DEF BusySlots
  <2> QED BY <2>1, <2>2 DEF BusySlots
<1>13. LiveKept
  BY <1>6, <1>7, <1>12 DEF LiveKept, Live
<1>8. LocksRight'
  <2>1. ASSUME NEW s \in Threads
        PROVE  /\ call'[s].at # "idle" => call'[s].size \in Sizes /\ Small(call'[s].size)
               /\ Working(s)' => lock'[PoolOf(call'[s].size)] = s
               /\ call'[s].at = "pop" => call'[s].row # <<>>
    <3>1. CASE s = t
      BY <3>1, <1>p, <1>0, <1>1, <1>2, <1>3, <1>4
    <3>2. CASE s # t
      BY <3>2, <1>0, <1>4, Holder, ThreadsAssumption DEF IInv, LocksRight, Working
    <3> QED BY <3>1, <3>2
  <2>2. ASSUME NEW q \in Pools
        PROVE  /\ lock'[q] # NoThread => /\ Working(lock[q])'
                                         /\ PoolOf(call'[lock'[q]].size) = q
               /\ free'[q] = <<>> \/ free'[q] = Row(q)'
    <3>1. CASE q = p
      BY <3>1, <1>p, <1>0, <1>3, <1>4, <1>6 DEF Working, IInv, LocksRight
    <3>2. CASE q # p
      BY <3>2, <1>0, <1>4, <1>6 DEF Working, IInv, LocksRight
    <3> QED BY <3>1, <3>2
  <2> QED BY <2>1, <2>2 DEF LocksRight
<1>9. OnePlace'
  <2>1. \A q \in Pools : Distinct(Row(q)') /\ BusySlots(q)' \cap FreeSlots(q)' = {}
    BY <1>6, <1>7 DEF IInv, OnePlace
  <2>2. \A u, v \in used' : u[1] = v[1] => u = v
    BY <1>0 DEF IInv, OnePlace
  <2>3. ASSUME NEW s \in Threads, NEW u \in used', call'[s].at = "push"
        PROVE  u[1] # call'[s].slot
    <3>1. CASE s = t
      <4>1. PICK v \in used : v = <<a, n>>
        BY <1>0
      <4>2. v[1] = a /\ u \in used /\ u # v
        BY <4>1, <1>0
      <4> QED BY <3>1, <4>2, <1>3, <1>4 DEF IInv, OnePlace
    <3>2. CASE s # t
      BY <3>2, <2>3, <1>0, <1>4 DEF IInv, OnePlace
    <3> QED BY <3>1, <3>2
  <2> QED BY <2>1, <2>2, <2>3 DEF OnePlace, Distinct
<1>10. Geometry'
  <2>1. \A q \in Pools : Live(q)' \subseteq Live(q)
    BY <1>6, <1>7 DEF Live
  <2> QED BY <1>0, <2>1, GeometryKept
<1>11. OneOwner'
  BY <1>0 DEF IInv, OneOwner
<1> QED BY <1>5, <1>8, <1>9, <1>10, <1>11, <1>13 DEF IInv

\* Elements too large for the pools come and go without them.
LEMMA LargeIInv ==
    ASSUME IInv, used' \subseteq used \/ \E a \in InHeap, n \in Sizes :
                                             ~Small(n) /\ used' = used \cup {<<a, n>>},
           \A u \in used \ used' : ~Small(u[2]),
           UNCHANGED <<blocks, cur, last, free, lock, call, crashed, cleared>>
    PROVE  IInv' /\ LiveKept
<1>1. ASSUME NEW u \in used' \ used
      PROVE  /\ u \in Heap \X Sizes /\ ~Small(u[2]) /\ \A p \in Pools : u[1] \notin blocks[p]
             /\ \A v \in used : u[1] # v[1]
  <2>1. PICK a \in InHeap, n \in Sizes : ~Small(n) /\ used' = used \cup {<<a, n>>}
    OBVIOUS
  <2>2. u = <<a, n>> /\ a \in Heap /\ (\A p \in Pools : a \notin blocks[p]) /\ \A v \in used : v[1] # a
    BY <2>1 DEF InHeap
  <2> QED BY <2>1, <2>2
<1>2. \A u, v \in used' \ used : u = v
  <2> SUFFICES ASSUME NEW u \in used' \ used, NEW v \in used' \ used PROVE u = v
    OBVIOUS
  <2>1. PICK a \in InHeap, n \in Sizes : used' = used \cup {<<a, n>>}
    OBVIOUS
  <2> QED BY <2>1
<1>3. TypeOK'
  <2>1. used' \in SUBSET ((Nat \ {0}) \X Sizes)
    <3>1. Heap \X Sizes \subseteq (Nat \ {0}) \X Sizes
      BY HeapAssumption
    <3>2. used \subseteq (Nat \ {0}) \X Sizes
      BY DEF IInv, TypeOK
    <3>3. used' \ used \subseteq (Nat \ {0}) \X Sizes
      BY <1>1, <3>1
    <3> QED BY <3>2, <3>3
  <2> QED BY <2>1 DEF IInv, TypeOK
<1>4. \A p \in Pools : /\ Row(p)' = Row(p) /\ FreeSlots(p)' = FreeSlots(p)
                       /\ BusySlots(p)' = BusySlots(p)
  <2> SUFFICES ASSUME NEW p \in Pools
               PROVE  /\ Row(p)' = Row(p) /\ FreeSlots(p)' = FreeSlots(p)
                      /\ BusySlots(p)' = BusySlots(p)
    OBVIOUS
  <2>1. Row(p)' = Row(p)
    BY DEF Row
  <2>2. \A u : u \in used /\ Small(u[2]) <=> u \in used' /\ Small(u[2])
    BY <1>1
  <2>3. BusySlots(p)' = BusySlots(p)
    BY <2>2 DEF BusySlots
  <2> QED BY <2>1, <2>3 DEF FreeSlots
<1>5. LocksRight'
  BY <1>4 DEF IInv, LocksRight, Working
<1>6. OnePlace'
  <2>1. \A p \in Pools : Distinct(Row(p)') /\ BusySlots(p)' \cap FreeSlots(p)' = {}
    BY <1>4 DEF IInv, OnePlace
  <2>2. \A u, v \in used' : u[1] = v[1] => u = v
    BY <1>1, <1>2 DEF IInv, OnePlace
  <2>3. ASSUME NEW s \in Threads, NEW u \in used', call[s].at = "push"
        PROVE  u[1] # call[s].slot
    <3>1. CASE u \in used
      BY <3>1, <2>3 DEF IInv, OnePlace
    <3>2. CASE u \notin used
      <4>1. u[1] \in Heap /\ \A q \in Pools : u[1] \notin blocks[q]
        BY <3>2, <1>1
      <4>2. PICK q : q = PoolOf(call[s].size)
        OBVIOUS
      <4>3. q \in Pools /\ lock[q] = s
        BY <2>3, <4>2, Holder DEF Working
      <4>4. call[s].slot \in Live(q)
        BY <2>3, <4>3 DEF Live, BusySlots
      <4>5. u[1] \in Nat /\ u[1] < u[1] + BlockSize
        <5>1. MaxSlotSize \in Nat
          BY SizesAssumption DEF MaxSlotSize
        <5>2. BlockSize \in Nat /\ BlockSize > 0
          BY <5>1, BlockAssumption, SizesAssumption
        <5>3. u[1] \in Nat
          BY <4>1, HeapAssumption
        <5> QED BY <5>2, <5>3
      <4> QED BY <4>1, <4>3, <4>4, <4>5, OtherPool
    <3> QED BY <3>1, <3>2
  <2> QED BY <2>1, <2>2, <2>3 DEF OnePlace, Distinct
<1>7. Geometry'
  <2>1. \A p \in Pools : Live(p)' \subseteq Live(p)
    BY <1>4 DEF Live
  <2> QED BY <2>1, GeometryKept
<1>8. OneOwner'
  BY <1>1 DEF IInv, OneOwner
<1>9. LiveKept
  BY <1>4 DEF LiveKept, Live
<1> QED BY <1>3, <1>5, <1>6, <1>7, <1>8, <1>9 DEF IInv

\* A slot is cut off block b of the thread's pool, with the rest of the block behind
\* it, and the list is as it was or cleared.
LEMMA CutIInv ==
    ASSUME IInv, NEW t \in Threads, NEW p \in Pools, NEW b \in Heap, NEW x \in Nat,
           NEW n \in Sizes, Small(n), PoolOf(n) = p, ~Working(t),
           \A q \in Pools \ {p} : b \notin blocks[q],
           \A u \in used : ~Small(u[2]) => u[1] # b,
           b + Word <= x, x + SlotSize[p] <= b + BlockSize,
           \A a \in Live(p) : Apart(a, SlotSize[p], x, b + BlockSize - x),
           blocks' = [blocks EXCEPT ![p] = @ \cup {b}],
           cur' = [cur EXCEPT ![p] = x + SlotSize[p]],
           last' = [last EXCEPT ![p] = LastSlot(b, p)],
           free' = free \/ free' = [free EXCEPT ![p] = <<>>],
           used' = used \cup {<<x, n>>}, call' = [call EXCEPT ![t] = Idle],
           UNCHANGED <<lock, crashed>>, cleared' \in BOOLEAN
    PROVE  /\ IInv' /\ BusySlots(p)' = BusySlots(p) \cup {x}
           /\ \A q \in Pools \ {p} : BusySlots(q)' = BusySlots(q)
<1>0. /\ b \in Nat /\ Word \in Nat /\ Word > 0 /\ BlockSize \in Nat
      /\ SlotSize[p] \in Nat /\ SlotSize[p] >= Word /\ SlotSize[p] <= MaxSlotSize
      /\ MaxSlotSize \in Nat
  BY SlotSizes, SizesAssumption, HeapAssumption, BlockAssumption DEF MaxSlotSize
<1>1. x # 0 /\ x < b + BlockSize /\ b <= x /\ x + SlotSize[p] \in Nat
  BY <1>0
<1>2. LastSlot(b, p) \in Nat
  <2>1. BlockSize >= SlotSize[p]
    BY <1>0, BlockAssumption
  <2> QED BY <1>0, <2>1 DEF LastSlot
<1>3. /\ \A s \in Threads : call'[s] = IF s = t THEN Idle ELSE call[s]
      /\ \A q \in Pools : lock[q] # t /\ (lock[q] = NoThread \/ lock[q] \in Threads)
      /\ \A q \in Pools : free'[q] = free[q] \/ (q = p /\ free'[q] = <<>>)
  <2>1. \A s \in Threads : call'[s] = IF s = t THEN Idle ELSE call[s]
    BY DEF IInv, TypeOK
  <2>2. \A q \in Pools : lock[q] # t /\ (lock[q] = NoThread \/ lock[q] \in Threads)
    BY Idler DEF IInv, TypeOK
  <2>3. free \in [Pools -> Seq(Nat \ {0})]
    BY DEF IInv, TypeOK
  <2>4. \A q \in Pools : free'[q] = free[q] \/ (q = p /\ free'[q] = <<>>)
    BY <2>3
  <2> QED BY <2>1, <2>2, <2>4
<1>4. TypeOK'
  <2>1. Idle \in [at : {"idle", "lock", "pop", "block", "push"}, size : Sizes \cup {0},
                  slot : Nat, row : Seq(Nat \ {0})]
    BY DEF Idle
  <2>2. used' \in SUBSET ((Nat \ {0}) \X Sizes)
    BY <1>1 DEF IInv, TypeOK
  <2>3. call' \in [Threads -> [at   : {"idle", "lock", "pop", "block", "push"},
                                   size : Sizes \cup {0},
                                   slot : Nat,
                                   row  : Seq(Nat \ {0})]]
    BY <2>1 DEF IInv, TypeOK
  <2>4. blocks' \in [Pools -> SUBSET Heap]
    BY DEF IInv, TypeOK
  <2>5. cur' \in [Pools -> Nat] /\ last' \in [Pools -> Nat]
    BY <1>1, <1>2 DEF IInv, TypeOK
  <2>6. free' \in [Pools -> Seq(Nat \ {0})]
    <3>1. <<>> \in Seq(Nat \ {0})
      OBVIOUS
    <3> QED BY <3>1 DEF IInv, TypeOK
  <2> QED BY <2>2, <2>3, <2>4, <2>5, <2>6 DEF IInv, TypeOK
<1>5. \A q \in Pools : (Row(q)' = Row(q) \/ Row(q)' = <<>>) /\ FreeSlots(q)' \subseteq FreeSlots(q)
  <2> SUFFICES ASSUME NEW q \in Pools
               PROVE  (Row(q)' = Row(q) \/ Row(q)' = <<>>) /\ FreeSlots(q)' \subseteq FreeSlots(q)
    OBVIOUS
  <2>1. Row(q)' = Row(q) \/ Row(q)' = <<>>
    BY <1>3 DEF Row
  <2> QED BY <2>1 DEF FreeSlots
<1>6. /\ BusySlots(p)' = BusySlots(p) \cup {x}
      /\ \A q \in Pools \ {p} : BusySlots(q)' = BusySlots(q)
  <2>1. \A s \in Threads : call'[s].at = "push" => call'[s] = call[s]
    BY <1>3 DEF Idle
  <2>2. PICK e : e = <<x, n>>
    OBVIOUS
  <2>3. e[1] = x /\ e[2] = n /\ used' = used \cup {e}
    BY <2>2
  <2>4. /\ BusySlots(p)' \subseteq BusySlots(p) \cup {x}
        /\ \A q \in Pools \ {p} : BusySlots(q)' \subseteq BusySlots(q)
    BY <2>1, <2>3 DEF BusySlots
  <2>5. ASSUME NEW q \in Pools
        PROVE  BusySlots(q) \subseteq BusySlots(q)'
    <3>1. \A s \in Threads : call[s].at = "push" /\ lock[q] = s =>
                                call'[s] = call[s] /\ lock'[q] = s
      BY <1>3
    <3> QED BY <2>3, <3>1 DEF BusySlots
  <2>6. x \in BusySlots(p)'
    BY <2>3 DEF BusySlots
  <2> QED BY <2>4, <2>5, <2>6
<1>7. x \notin Live(p)
  <2> SUFFICES ASSUME x \in Live(p) PROVE FALSE
    OBVIOUS
  <2>1. Apart(x, SlotSize[p], x, b + BlockSize - x)
    OBVIOUS
  <2> QED BY <2>1, <1>0, <1>1 DEF Apart
<1>8. LocksRight'
  <2>1. ASSUME NEW s \in Threads
        PROVE  /\ call'[s].at # "idle" => call'[s].size \in Sizes /\ Small(call'[s].size)
               /\ Working(s)' => lock'[PoolOf(call'[s].size)] = s
               /\ call'[s].at = "pop" => call'[s].row # <<>>
    BY <1>3 DEF Idle, IInv, LocksRight, Working
  <2>2. ASSUME NEW q \in Pools
        PROVE  /\ lock'[q] # NoThread => /\ Working(lock[q])'
                                         /\ PoolOf(call'[lock'[q]].size) = q
               /\ free'[q] = <<>> \/ free'[q] = Row(q)'
    <3>1. free'[q] = <<>> \/ free'[q] = Row(q)'
      <4>1. CASE lock[q] = NoThread
        BY <4>1 DEF Row
      <4>2. CASE lock[q] # NoThread
        BY <4>2, <1>3 DEF Row, IInv, LocksRight
      <4> QED BY <4>1, <4>2
    <3> QED BY <3>1, <1>3 DEF Working, IInv, LocksRight
  <2> QED BY <2>1, <2>2 DEF LocksRight
<1>9. OnePlace'
  <2>1. ASSUME NEW q \in Pools PROVE Distinct(Row(q)') /\ BusySlots(q)' \cap FreeSlots(q)' = {}
    <3>1. Distinct(Row(q)')
      BY <1>5 DEF IInv, OnePlace, Distinct
    <3>2. CASE q = p
      <4>1. x \notin FreeSlots(p)
        BY <1>7 DEF Live
      <4> QED BY <3>1, <3>2, <4>1, <1>5, <1>6 DEF IInv, OnePlace
    <3>3. CASE q # p
      BY <3>1, <3>3, <1>5, <1>6 DEF IInv, OnePlace
    <3> QED BY <3>2, <3>3
  <2>2. \A u \in used : u[1] # x
    <3> SUFFICES ASSUME NEW u \in used PROVE u[1] # x
      OBVIOUS
    <3>1. CASE Small(u[2]) /\ PoolOf(u[2]) = p
      BY <3>1, <1>7 DEF BusySlots, Live
    <3>2. CASE ~(Small(u[2]) /\ PoolOf(u[2]) = p)
      BY <3>2, <1>1, OtherElement
    <3> QED BY <3>1, <3>2
  <2>3. \A u, v \in used' : u[1] = v[1] => u = v
    BY <2>2 DEF IInv, OnePlace
  <2>4. ASSUME NEW s \in Threads, NEW u \in used', call'[s].at = "push"
        PROVE  u[1] # call'[s].slot
    <3>1. s # t /\ call[s].at = "push" /\ call'[s] = call[s]
      BY <2>4, <1>3 DEF Idle
    <3>2. CASE u \in used
      BY <3>1, <3>2 DEF IInv, OnePlace
    <3>3. CASE u = <<x, n>>
      <4>1. CASE lock[p] = s
        <5>1. call[s].slot \in Live(p)
          BY <3>1, <4>1 DEF Live, BusySlots
        <5> QED BY <3>1, <3>3, <5>1, <1>7
      <4>2. CASE lock[p] # s
        BY <3>1, <3>3, <4>2, <1>1, OtherReturn
      <4> QED BY <4>1, <4>2
    <3> QED BY <3>2, <3>3
  <2> QED BY <2>1, <2>3, <2>4 DEF OnePlace, Distinct
<1>10. Geometry'
  <2>1. /\ b \in blocks'[p] /\ blocks[p] \subseteq blocks'[p]
        /\ cur'[p] = x + SlotSize[p] /\ last'[p] = LastSlot(b, p)
    BY DEF IInv, TypeOK
  <2>2. \A q \in Pools \ {p} : /\ Live(q)' \subseteq Live(q)
                               /\ blocks'[q] = blocks[q] /\ cur'[q] = cur[q] /\ last'[q] = last[q]
    BY <1>5, <1>6 DEF Live, IInv, TypeOK
  <2>3. Live(p)' \subseteq Live(p) \cup {x}
    BY <1>5, <1>6 DEF Live
  <2>4. Live(p) \subseteq Nat
    <3>1. FreeSlots(p) \subseteq Nat
      <4>1. Row(p) \in Seq(Nat \ {0})
        BY DEF Row, IInv, TypeOK
      <4> QED BY <4>1 DEF FreeSlots
    <3>2. BusySlots(p) \subseteq Nat
      BY DEF BusySlots, IInv, TypeOK
    <3> QED BY <3>1, <3>2 DEF Live
  <2> QED BY <1>0, <2>1, <2>2, <2>3, <2>4, GeometryGrown
<1>11. OneOwner'
  <2>1. \A q \in Pools : blocks'[q] = IF q = p THEN blocks[q] \cup {b} ELSE blocks[q]
    BY DEF IInv, TypeOK
  <2> QED BY <2>1 DEF IInv, OneOwner
<1> QED BY <1>4, <1>6, <1>8, <1>9, <1>10, <1>11 DEF IInv

LEMMA CutSlotIInv ==
    ASSUME IInv, NEW t \in Threads, CutSlot(t)
    PROVE  /\ IInv'
           /\ \E p \in Pools : /\ p = PoolOf(call[t].size)
                               /\ BusySlots(p)' = BusySlots(p) \cup {cur[p]}
                               /\ \A q \in Pools \ {p} : BusySlots(q)' = BusySlots(q)
<1>p. PICK p, n, x : p = PoolOf(call[t].size) /\ n = call[t].size /\ x = cur[p]
  OBVIOUS
<1>0. /\ ~Working(t) /\ n \in Sizes /\ Small(n) /\ PoolOf(n) = p
      /\ cur[p] < last[p]
  BY <1>p DEF CutSlot, At, Working, IInv, LocksRight
<1>1. p \in Pools /\ x \in Nat
  BY <1>p, <1>0, Fits DEF IInv, TypeOK
<1>2. PICK b \in blocks[p] :
         /\ b + Word <= x /\ x + SlotSize[p] <= b + BlockSize
         /\ last[p] = LastSlot(b, p)
         /\ \A a \in Live(p) : Apart(a, SlotSize[p], x, b + BlockSize - x)
  BY <1>p, <1>0, <1>1 DEF IInv, Geometry, GeometryAt
<1>3. /\ b \in Heap /\ \A q \in Pools \ {p} : b \notin blocks[q]
      /\ \A u \in used : ~Small(u[2]) => u[1] # b
  BY <1>1 DEF IInv, TypeOK, OneOwner
<1>4. /\ blocks' = [blocks EXCEPT ![p] = @ \cup {b}]
      /\ last' = [last EXCEPT ![p] = LastSlot(b, p)]
  BY <1>1, <1>2 DEF CutSlot, IInv, TypeOK
<1>5. /\ cur' = [cur EXCEPT ![p] = x + SlotSize[p]] /\ free' = free
      /\ used' = used \cup {<<x, n>>} /\ call' = [call EXCEPT ![t] = Idle]
      /\ UNCHANGED <<lock, crashed>> /\ cleared' \in BOOLEAN
  BY <1>p, <1>1 DEF CutSlot, Return, IInv, TypeOK
<1>6. /\ IInv' /\ BusySlots(p)' = BusySlots(p) \cup {x}
      /\ \A q \in Pools \ {p} : BusySlots(q)' = BusySlots(q)
  BY <1>0, <1>1, <1>2, <1>3, <1>4, <1>5, CutIInv, ZenonT(60)
<1> QED BY <1>p, <1>1, <1>6

LEMMA NewBlockIInv ==
    ASSUME IInv, NEW t \in Threads, NewBlock(t)
    PROVE  /\ IInv'
           /\ \E p \in Pools, b \in InHeap :
                 /\ p = PoolOf(call[t].size)
                 /\ blocks' = [blocks EXCEPT ![p] = @ \cup {b}]
                 /\ last' = [last EXCEPT ![p] = LastSlot(b, p)]
                 /\ cur' = [cur EXCEPT ![p] = FirstSlot(b, p) + SlotSize[p]]
                 /\ BusySlots(p)' = BusySlots(p) \cup {FirstSlot(b, p)}
                 /\ \A q \in Pools \ {p} : BusySlots(q)' = BusySlots(q)
<1>p. PICK p, n : p = PoolOf(call[t].size) /\ n = call[t].size
  OBVIOUS
<1>0. ~Working(t) /\ n \in Sizes /\ Small(n) /\ PoolOf(n) = p
  BY <1>p DEF NewBlock, At, Working, IInv, LocksRight
<1>1. p \in Pools
  BY <1>p, <1>0, Fits
<1>2. PICK b \in InHeap :
         /\ blocks' = [blocks EXCEPT ![p] = @ \cup {b}]
         /\ last' = [last EXCEPT ![p] = LastSlot(b, p)]
         /\ cur' = [cur EXCEPT ![p] = FirstSlot(b, p) + SlotSize[p]]
         /\ Return(t, FirstSlot(b, p))
  BY <1>p DEF NewBlock
<1>3. PICK x : x = FirstSlot(b, p)
  OBVIOUS
<1>4. /\ b \in Heap /\ \A q \in Pools : b \notin blocks[q]
      /\ \A u \in used : u[1] # b
  BY <1>2 DEF InHeap
<1>5. x \in Nat /\ b + Word <= x /\ x + SlotSize[p] <= b + BlockSize
  BY <1>1, <1>3, <1>4, FirstFits
<1>6. ASSUME NEW a \in Live(p) PROVE Apart(a, SlotSize[p], x, b + BlockSize - x)
  <2>1. PICK c \in blocks[p] : c + Word <= a /\ a + SlotSize[p] <= c + BlockSize
    BY <1>1 DEF IInv, Geometry, GeometryAt
  <2>2. /\ c \in Heap /\ c # b /\ c \in Nat /\ b \in Nat /\ Word \in Nat /\ BlockSize \in Nat
        /\ SlotSize[p] \in Nat
    BY <1>1, <1>4, SlotSizes, HeapAssumption, SizesAssumption, BlockAssumption DEF IInv, TypeOK
  <2>3. a \in Nat
    <3>1. Row(p) \in Seq(Nat \ {0})
      BY <1>1 DEF Row, IInv, TypeOK
    <3>2. FreeSlots(p) \subseteq Nat
      BY <3>1 DEF FreeSlots
    <3>3. BusySlots(p) \subseteq Nat
      BY DEF BusySlots, IInv, TypeOK
    <3> QED BY <3>2, <3>3 DEF Live
  <2>4. /\ c <= a /\ b <= x /\ b + BlockSize - x \in Nat
        /\ x + (b + BlockSize - x) <= b + BlockSize
    BY <1>5, <2>1, <2>2, <2>3
  <2> QED BY <1>4, <1>5, <2>1, <2>2, <2>3, <2>4, FarApart
<1>7. /\ free' = [free EXCEPT ![p] = <<>>]
      /\ UNCHANGED <<lock, crashed>> /\ cleared' \in BOOLEAN
  BY <1>p DEF NewBlock, IInv, TypeOK
<1>8. /\ cur' = [cur EXCEPT ![p] = x + SlotSize[p]]
      /\ used' = used \cup {<<x, n>>} /\ call' = [call EXCEPT ![t] = Idle]
  BY <1>p, <1>2, <1>3 DEF Return
<1>9. /\ IInv' /\ BusySlots(p)' = BusySlots(p) \cup {x}
      /\ \A q \in Pools \ {p} : BusySlots(q)' = BusySlots(q)
  <2>1. b \in Heap /\ \A q \in Pools \ {p} : b \notin blocks[q]
    BY <1>4
  <2>2. \A u \in used : ~Small(u[2]) => u[1] # b
    BY <1>4
  <2>3. /\ blocks' = [blocks EXCEPT ![p] = @ \cup {b}]
        /\ last' = [last EXCEPT ![p] = LastSlot(b, p)]
    BY <1>2
  <2> QED BY <1>0, <1>1, <1>5, <1>6, <1>7, <1>8, <2>1, <2>2, <2>3, CutIInv
<1> QED BY <1>p, <1>1, <1>2, <1>3, <1>9

\* The two marks are no part of the invariant.
LEMMA SameIInv ==
    ASSUME IInv, UNCHANGED <<blocks, cur, last, free, lock, call, used>>,
           crashed' \in BOOLEAN, cleared' \in BOOLEAN
    PROVE  IInv'
<1>1. \A p \in Pools : /\ Row(p)' = Row(p) /\ FreeSlots(p)' = FreeSlots(p)
                       /\ BusySlots(p)' = BusySlots(p)
  BY DEF Row, FreeSlots, BusySlots
<1>2. TypeOK'
  BY DEF IInv, TypeOK
<1>3. LocksRight'
  BY <1>1 DEF IInv, LocksRight, Working
<1>4. OnePlace'
  BY <1>1 DEF IInv, OnePlace
<1>5. Geometry'
  <2>1. \A p \in Pools : Live(p)' \subseteq Live(p)
    BY <1>1 DEF Live
  <2> QED BY <2>1, GeometryKept
<1>6. OneOwner'
  BY DEF IInv, OneOwner
<1> QED BY <1>2, <1>3, <1>4, <1>5, <1>6 DEF IInv

\* The steps that only a thread's own place knows of.
LEMMA QuietIInv ==
    ASSUME IInv, NEW t \in Threads, BadAlloc(t) \/ \E size \in Sizes : LookFree(t, size)
    PROVE  IInv' /\ LiveKept
<1>1. CASE BadAlloc(t)
  <2>1. PICK c : c = Idle
    OBVIOUS
  <2>2. /\ c \in [at : {"idle", "lock", "block"}, size : Sizes \cup {0},
                  slot : Nat, row : Seq(Nat \ {0})]
        /\ c.at = "idle"
    BY <2>1 DEF Idle
  <2>3. ~Working(t) /\ call' = [call EXCEPT ![t] = c]
    BY <1>1, <2>1 DEF BadAlloc, At, Working
  <2> QED BY <1>1, <2>2, <2>3, CallQuiet DEF BadAlloc
<1>2. CASE \E size \in Sizes : LookFree(t, size)
  <2>1. PICK size \in Sizes : LookFree(t, size)
    BY <1>2
  <2>2. PICK c : c = [Idle EXCEPT !.at = IF free[PoolOf(size)] # <<>> THEN "lock" ELSE "block",
                                  !.size = size]
    OBVIOUS
  <2>3. /\ c \in [at : {"idle", "lock", "block"}, size : Sizes \cup {0},
                  slot : Nat, row : Seq(Nat \ {0})]
        /\ c.size = size
    <3>1. PICK w \in {"lock", "block"} : c = [Idle EXCEPT !.at = w, !.size = size]
      BY <2>2
    <3>2. c = [at |-> w, size |-> size, slot |-> 0, row |-> <<>>]
      BY <3>1 DEF Idle
    <3> QED BY <3>2
  <2>4. ~Working(t) /\ call' = [call EXCEPT ![t] = c] /\ Small(size)
    BY <2>1, <2>2 DEF LookFree, At, Working
  <2> QED BY <2>1, <2>3, <2>4, CallQuiet DEF LookFree
<1> QED BY <1>1, <1>2

\* Every step of a thread keeps the invariant.
LEMMA NextIInv == IInv /\ [Next]_vars => IInv'
<1> SUFFICES ASSUME IInv, [Next]_vars PROVE IInv'
  OBVIOUS
<1>1. CASE UNCHANGED vars
  BY <1>1, SameIInv DEF vars, IInv, TypeOK
<1>2. CASE Next
  <2>1. PICK t \in Threads : ThreadStep(t)
    BY <1>2 DEF Next
  <2>2. CASE LockFree(t)
    BY <2>2, LockFreeIInv
  <2>3. CASE Pop(t)
    BY <2>3, PopIInv
  <2>4. CASE PopNull(t)
    BY <2>4, SameIInv DEF PopNull, IInv, TypeOK
  <2>5. CASE Push(t)
    BY <2>5, PushIInv
  <2>6. CASE CutSlot(t)
    BY <2>6, CutSlotIInv
  <2>7. CASE NewBlock(t)
    BY <2>7, NewBlockIInv
  <2>8. CASE BadAlloc(t) \/ \E size \in Sizes : LookFree(t, size)
    BY <2>8, QuietIInv
  <2>10. CASE \E size \in Sizes : UseLarge(t, size)
    BY <2>10, LargeIInv DEF UseLarge
  <2>11. CASE \E u \in used : LockPush(t, u[1], u[2])
    BY <2>11, LockPushIInv
  <2>12. CASE \E u \in used : FreeLarge(t, u[1], u[2])
    <3>1. PICK a, n : FreeLarge(t, a, n)
      BY <2>12
    <3>2. \A u \in used \ used' : ~Small(u[2])
      BY <3>1 DEF FreeLarge
    <3> QED BY <3>1, <3>2, LargeIInv DEF FreeLarge
  <2> QED BY <2>1, <2>2, <2>3, <2>4, <2>5, <2>6, <2>7, <2>8, <2>10, <2>11, <2>12
      DEF ThreadStep
<1> QED BY <1>1, <1>2

----------------------------------------------------------------------------
(* What has been cut off the blocks *)

\* The current slot lies on the grid of the current block, not more than one slot
\* behind the last one that fits.
OnGridAt(p) ==
    \/ blocks[p] = {} /\ cur[p] = 0 /\ last[p] = 0
    \/ \E b \in blocks[p] :
          /\ cur[p] \in (b + 1)..(b + BlockSize) /\ last[p] = LastSlot(b, p)
          /\ FirstSlot(b, p) <= cur[p] /\ (cur[p] - FirstSlot(b, p)) % SlotSize[p] = 0
          /\ cur[p] - SlotSize[p] < last[p]
OnGrid == \A p \in Pools : OnGridAt(p)

\* As long as no list is cleared while it has slots or a thread is at work on it,
\* every list is the row that is known, and all that was cut off is live.
RowsKnown == \A p \in Pools : lock[p] # NoThread => free[p] = call[lock[p]].row
AllLive == ~cleared => ~crashed /\ RowsKnown /\ \A p \in Pools : Cut(p) = Live(p)

SlotInv == OnGrid /\ AllLive

\* Multiples of a number are at least that number apart.
LEMMA Multiples ==
    ASSUME NEW s \in Nat \ {0}, NEW x \in Nat, x % s = 0
    PROVE  /\ (x + s) % s = 0 /\ 0 % s = 0
           /\ \A y \in Nat : y % s = 0 /\ x < y => x + s <= y
<1>1. \A y \in Nat : /\ y \div s \in Nat /\ y % s \in Nat /\ y % s < s
                     /\ y = s * (y \div s) + (y % s)
  OBVIOUS
<1>2. \A m, n \in Int : m < n => s * m + s <= s * n
  <2> SUFFICES ASSUME NEW m \in Int, NEW n \in Int, m < n
               PROVE  s * m + s <= s * n
    OBVIOUS
  <2>1. m + 1 <= n /\ s * (m + 1) = s * m + s
    OBVIOUS
  <2>2. \A a, c \in Int : a <= c => s * a <= s * c
    OBVIOUS
  <2> QED BY <2>1, <2>2
<1>3. ASSUME NEW y \in Nat, y % s = 0, x < y
      PROVE  x + s <= y
  <2> DEFINE m == x \div s
             n == y \div s
  <2>1. m \in Nat /\ n \in Nat /\ x = s * m /\ y = s * n
    BY <1>1, <1>3
  <2> HIDE DEF m, n
  <2>2. m < n
    <3> SUFFICES ASSUME n < m \/ n = m
                 PROVE  FALSE
      BY <2>1
    <3>1. n < m => s * n + s <= s * m
      BY <1>2, <2>1
    <3> QED BY <1>3, <2>1, <3>1
  <2> QED BY <1>2, <2>1, <2>2
<1>4. (x + s) % s = 0
  <2> DEFINE m == x \div s
             n == (x + s) \div s
             r == (x + s) % s
  <2>1. /\ m \in Nat /\ n \in Nat /\ r \in Nat /\ r < s /\ x = s * m
        /\ x + s = s * n + r
    <3>1. x + s \in Nat
      OBVIOUS
    <3> QED BY <1>1, <3>1
  <2> HIDE DEF m, n, r
  <2>2. s * (m + 1) = s * m + s
    BY <2>1
  <2>3. n = m + 1
    <3>1. n < m + 1 => s * n + s <= s * (m + 1)
      BY <1>2, <2>1
    <3>2. m + 1 < n => s * (m + 1) + s <= s * n
      BY <1>2, <2>1
    <3>3. s * n \in Nat /\ s * m \in Nat
      BY <2>1
    <3> QED BY <2>1, <2>2, <3>1, <3>2, <3>3
  <2>4. r = 0
    BY <2>1, <2>2, <2>3
  <2> QED BY <2>4 DEF r
<1> QED BY <1>1, <1>3, <1>4

\* No address is in two blocks.
LEMMA OneBlock ==
    ASSUME NEW b \in Heap, NEW c \in Heap, NEW x \in Nat,
           x \in (b + 1)..(b + BlockSize), x \in (c + 1)..(c + BlockSize)
    PROVE  b = c
<1>1. b \in Nat /\ c \in Nat /\ BlockSize \in Nat
  BY HeapAssumption, BlockAssumption
<1> QED BY <1>1, HeapAssumption

\* A slot cut off the current block.
LEMMA CutSlotCuts ==
    ASSUME TypeOK, NEW p \in Pools, OnGridAt(p), cur[p] < last[p], blocks'[p] = blocks[p],
           last'[p] = last[p], cur'[p] = cur[p] + SlotSize[p]
    PROVE  OnGridAt(p)' /\ Cut(p)' = Cut(p) \cup {cur[p]}
<1> DEFINE S == SlotSize[p]
           x == cur[p]
<1>1. PICK b \in blocks[p] :
         /\ x \in (b + 1)..(b + BlockSize) /\ last[p] = LastSlot(b, p)
         /\ FirstSlot(b, p) <= x /\ (x - FirstSlot(b, p)) % S = 0 /\ x - S < last[p]
  BY DEF OnGridAt
<1> DEFINE f == FirstSlot(b, p)
<1>2. /\ S \in Nat \ {0} /\ b \in Heap /\ b \in Nat /\ BlockSize \in Nat /\ f \in Nat /\ b < f
      /\ x \in Nat
  <2>1. b \in Heap
    BY <1>1 DEF TypeOK
  <2>2. Word \in Nat /\ Word > 0
    BY SizesAssumption
  <2>3. b \in Nat /\ BlockSize \in Nat /\ S \in Nat \ {0}
    BY <2>1, <2>2, SlotSizes, HeapAssumption, BlockAssumption
  <2>4. f \in Nat /\ b + Word <= f
    BY <2>1, FirstFits
  <2>5. x \in Nat
    BY DEF TypeOK
  <2> QED BY <2>1, <2>2, <2>3, <2>4, <2>5
<1>3. x + S \in (b + 1)..(b + BlockSize) /\ x < b + BlockSize
  BY <1>1, <1>2 DEF LastSlot
<1> HIDE DEF f, S
<1>4. x - f \in Nat /\ (x - f) % S = 0
  BY <1>1, <1>2 DEF f
<1>5. ((x + S) - f) % S = 0 /\ \A a \in Nat : f <= a /\ (a - f) % S = 0 /\ x < a => x + S <= a
  <2>1. ((x - f) + S) % S = 0 /\ \A y \in Nat : y % S = 0 /\ x - f < y => (x - f) + S <= y
    BY <1>2, <1>4, Multiples
  <2>2. (x - f) + S = (x + S) - f
    BY <1>2
  <2>3. ASSUME NEW a \in Nat, f <= a, (a - f) % S = 0, x < a
        PROVE  x + S <= a
    <3>1. a - f \in Nat /\ x - f < a - f
      BY <1>2, <2>3
    <3>2. (x - f) + S <= a - f
      BY <2>1, <2>3, <3>1
    <3> QED BY <1>2, <3>2
  <2> QED BY <2>1, <2>2, <2>3
<1>6. OnGridAt(p)'
  <2>1. /\ cur'[p] \in (b + 1)..(b + BlockSize) /\ last'[p] = LastSlot(b, p)
        /\ f <= cur'[p] /\ (cur'[p] - f) % S = 0
        /\ cur'[p] - S < last'[p] /\ b \in blocks'[p]
    BY <1>1, <1>2, <1>3, <1>5 DEF f, S
  <2> QED BY <2>1 DEF OnGridAt, f, S
<1>7. SlotsOf(b, p)' = SlotsOf(b, p) \cup {x}
  <2>1. SlotsOf(b, p) = {a \in b..(b + BlockSize) : a >= f /\ (a - f) % S = 0 /\ a < x}
    BY <1>1 DEF SlotsOf, f, S
  <2>2. SlotsOf(b, p)' = {a \in b..(b + BlockSize) : a >= f /\ (a - f) % S = 0 /\ a < x + S}
    BY <1>3 DEF SlotsOf, f, S
  <2>3. \A a \in b..(b + BlockSize) : f <= a /\ (a - f) % S = 0 => (a < x + S <=> a < x \/ a = x)
    <3> SUFFICES ASSUME NEW a \in b..(b + BlockSize), f <= a, (a - f) % S = 0
                 PROVE  a < x + S <=> a < x \/ a = x
      OBVIOUS
    <3>1. a \in Nat /\ x \in Nat /\ S \in Nat \ {0}
      BY <1>2
    <3>2. x < a => x + S <= a
      BY <1>5, <3>1
    <3> HIDE DEF x
    <3> QED BY <3>1, <3>2
  <2>4. x \in b..(b + BlockSize) /\ f <= x
    BY <1>1, <1>2 DEF f
  <2> HIDE DEF x
  <2> QED BY <1>2, <1>4, <2>1, <2>2, <2>3, <2>4
<1>8. ASSUME NEW c \in blocks[p], c # b
      PROVE  SlotsOf(c, p)' = SlotsOf(c, p)
  <2>1. c \in Heap
    BY DEF TypeOK
  <2>2. x \notin (c + 1)..(c + BlockSize) /\ x + S \notin (c + 1)..(c + BlockSize)
    BY <1>1, <1>2, <1>3, <1>8, <2>1, OneBlock
  <2>3. cur'[p] = x + S
    BY DEF S
  <2> QED BY <2>2, <2>3 DEF SlotsOf
<1>9. Cut(p)' = Cut(p) \cup {x}
  BY <1>1, <1>7, <1>8 DEF Cut
<1> QED BY <1>6, <1>9

\* The first slot of a new block cut off it: the old block had no more.
LEMMA NewBlockCuts ==
    ASSUME TypeOK, NEW p \in Pools, OnGridAt(p), cur[p] >= last[p], NEW b \in Heap,
           b \notin blocks[p], blocks'[p] = blocks[p] \cup {b}, last'[p] = LastSlot(b, p),
           cur'[p] = FirstSlot(b, p) + SlotSize[p]
    PROVE  OnGridAt(p)' /\ Cut(p)' = Cut(p) \cup {FirstSlot(b, p)}
<1> DEFINE S == SlotSize[p]
           f == FirstSlot(b, p)
<1>1. /\ S \in Nat \ {0} /\ b \in Nat /\ BlockSize \in Nat /\ f \in Nat /\ b < f
      /\ f + S <= b + BlockSize
  <2>1. Word \in Nat /\ Word > 0
    BY SizesAssumption
  <2>2. b \in Nat /\ BlockSize \in Nat /\ S \in Nat \ {0}
    BY <2>1, SlotSizes, HeapAssumption, BlockAssumption
  <2>3. f \in Nat /\ b + Word <= f /\ f + S <= b + BlockSize
    BY FirstFits
  <2> QED BY <2>1, <2>2, <2>3
<1>2. f + S \in (b + 1)..(b + BlockSize)
  BY <1>1
<1>3. 0 % S = 0 /\ (0 + S) % S = 0 /\ \A y \in Nat : y % S = 0 /\ 0 < y => 0 + S <= y
  <2>1. 0 % S = 0
    BY <1>1
  <2> HIDE DEF S
  <2> QED BY <1>1, <2>1, Multiples
<1> HIDE DEF f, S
<1>4. OnGridAt(p)'
  <2>1. (f + S) - f = S /\ (f + S) - S = f /\ S % S = 0
    BY <1>1, <1>3
  <2>2. /\ cur'[p] \in (b + 1)..(b + BlockSize) /\ last'[p] = LastSlot(b, p)
        /\ f <= cur'[p] /\ (cur'[p] - f) % S = 0
        /\ cur'[p] - S < last'[p] /\ b \in blocks'[p]
    <3>1. cur'[p] = f + S
      BY DEF f, S
    <3>2. last'[p] = b + BlockSize - S + 1
      BY DEF S, LastSlot
    <3> QED BY <1>1, <1>2, <2>1, <3>1, <3>2, SMTT(30)
  <2> QED BY <2>2 DEF OnGridAt, f, S
<1>5. SlotsOf(b, p)' = {f}
  <2>1. SlotsOf(b, p)' = {a \in b..(b + BlockSize) : a >= f /\ (a - f) % S = 0 /\ a < f + S}
    BY <1>2 DEF SlotsOf, f, S
  <2>2. \A a \in b..(b + BlockSize) : a >= f /\ (a - f) % S = 0 /\ a < f + S <=> a = f
    <3> SUFFICES ASSUME NEW a \in b..(b + BlockSize)
                 PROVE  a >= f /\ (a - f) % S = 0 /\ a < f + S <=> a = f
      OBVIOUS
    <3>1. CASE a = f
      BY <1>1, <1>3, <3>1
    <3>2. CASE a > f
      BY <1>1, <1>3, <3>2
    <3>3. CASE a < f
      BY <1>1, <3>3
    <3> QED BY <1>1, <3>1, <3>2, <3>3
  <2>3. f \in b..(b + BlockSize)
    BY <1>1
  <2> QED BY <2>1, <2>2, <2>3
<1>6. ASSUME NEW c \in blocks[p]
      PROVE  SlotsOf(c, p)' = SlotsOf(c, p)
  <2> DEFINE g == FirstSlot(c, p)
             x == cur[p]
  <2>1. c \in Heap /\ c \in Nat /\ c # b
    BY HeapAssumption DEF TypeOK
  <2>2. cur'[p] = f + S /\ f + S \notin (c + 1)..(c + BlockSize)
    BY <1>1, <1>2, <2>1, OneBlock DEF f, S
  <2>3. SlotsOf(c, p)' = {a \in c..(c + BlockSize) :
                             a >= g /\ (a - g) % S = 0 /\ a < LastSlot(c, p)}
    BY <2>2 DEF SlotsOf, S
  <2>4. CASE x \notin (c + 1)..(c + BlockSize)
    BY <2>3, <2>4 DEF SlotsOf, S
  <2>5. CASE x \in (c + 1)..(c + BlockSize)
    <3>1. PICK d \in blocks[p] :
             /\ x \in (d + 1)..(d + BlockSize) /\ last[p] = LastSlot(d, p)
             /\ FirstSlot(d, p) <= x /\ (x - FirstSlot(d, p)) % S = 0 /\ x - S < last[p]
      BY DEF OnGridAt, S
    <3>2. d \in Heap /\ x \in Nat /\ last[p] \in Nat
      BY DEF TypeOK
    <3>3. d = c
      BY <2>1, <2>5, <3>1, <3>2, OneBlock
    <3>4. g \in Nat /\ g <= x /\ (x - g) % S = 0
      BY <2>1, <3>1, <3>3, FirstFits
    <3>5. ASSUME NEW a \in c..(c + BlockSize), a >= g, (a - g) % S = 0
          PROVE  a < x <=> a < LastSlot(c, p)
      <4> HIDE DEF g
      <4>1. a - g \in Nat /\ x - g \in Nat
        BY <1>1, <2>1, <3>2, <3>4, <3>5
      <4>2. a - g < x - g => a - g + S <= x - g
        BY <1>1, <3>4, <3>5, <4>1, Multiples
      <4>3. a < x => a <= x - S
        BY <1>1, <2>1, <3>2, <3>4, <4>2
      <4>4. LastSlot(c, p) = last[p] /\ last[p] <= x /\ x - S < last[p]
        BY <3>1, <3>2, <3>3
      <4> QED BY <1>1, <2>1, <3>2, <4>3, <4>4
    <3>6. SlotsOf(c, p) = {a \in c..(c + BlockSize) : a >= g /\ (a - g) % S = 0 /\ a < x}
      BY <2>5 DEF SlotsOf, S
    <3> HIDE DEF g, x
    <3> QED BY <2>3, <3>5, <3>6
  <2> QED BY <2>4, <2>5
<1>7. Cut(p)' = Cut(p) \cup {f}
  BY <1>5, <1>6 DEF Cut
<1> QED BY <1>4, <1>7 DEF f

\* Whoever holds a mutex still knows the row after a step of thread t at pool p.
LEMMA RowsStay ==
    ASSUME IInv, RowsKnown, NEW t \in Threads, NEW p \in Pools,
           \A s \in Threads \ {t} : call'[s] = call[s],
           \A q \in Pools \ {p} : lock[q] # t /\ lock'[q] = lock[q] /\ free'[q] = free[q],
           lock'[p] # NoThread => free'[p] = call'[lock'[p]].row
    PROVE  RowsKnown'
<1> SUFFICES ASSUME NEW q \in Pools, lock'[q] # NoThread
             PROVE  free'[q] = call'[lock'[q]].row
  BY DEF RowsKnown
<1>1. CASE q = p
  BY <1>1
<1>2. CASE q # p
  <2>1. lock[q] \in Threads \ {t} /\ lock'[q] = lock[q] /\ free'[q] = free[q]
    BY <1>2 DEF IInv, TypeOK
  <2> QED BY <2>1 DEF RowsKnown
<1> QED BY <1>1, <1>2

\* Steps that cut nothing off and leave every slot as live as it was.
LEMMA SlotsStay ==
    ASSUME SlotInv, LiveKept, UNCHANGED <<blocks, cur, last, crashed, cleared>>,
           RowsKnown => RowsKnown'
    PROVE  SlotInv'
<1>1. OnGrid'
  BY DEF SlotInv, OnGrid, OnGridAt
<1>2. \A p \in Pools : Cut(p)' = Cut(p)
  BY DEF Cut, SlotsOf
<1>3. AllLive'
  BY <1>2 DEF SlotInv, AllLive, LiveKept
<1> QED BY <1>1, <1>3 DEF SlotInv

LEMMA SlotInvInit == Init => SlotInv
<1> SUFFICES ASSUME Init PROVE SlotInv
  OBVIOUS
<1>1. \A p \in Pools : Cut(p) = {} /\ Live(p) = {}
  BY DEF Init, Cut, Live, FreeSlots, BusySlots, Row, Idle
<1>2. OnGrid
  BY DEF Init, OnGrid, OnGridAt
<1> QED BY <1>1, <1>2 DEF SlotInv, AllLive, RowsKnown, Init

\* A thread's own place changes.
LEMMA QuietSlots ==
    ASSUME IInv, SlotInv, LiveKept, NEW t \in Threads, ~Working(t),
           \A s \in Threads \ {t} : call'[s] = call[s],
           UNCHANGED <<blocks, cur, last, free, lock, crashed, cleared>>
    PROVE  SlotInv'
<1>1. ASSUME RowsKnown PROVE RowsKnown'
  <2>1. \A q \in Pools : lock[q] # t /\ lock'[q] = lock[q] /\ free'[q] = free[q]
    BY Idler
  <2> SUFFICES ASSUME NEW q \in Pools, lock[q] # NoThread
               PROVE  free[q] = call'[lock[q]].row
    BY DEF RowsKnown
  <2>2. lock[q] \in Threads \ {t}
    BY <2>1 DEF IInv, TypeOK
  <2> QED BY <1>1, <2>2 DEF RowsKnown
<1> QED BY <1>1, SlotsStay

LEMMA LockFreeSlots ==
    ASSUME IInv, SlotInv, NEW t \in Threads, LockFree(t)
    PROVE  SlotInv'
<1>p. PICK p : p = PoolOf(call[t].size)
  OBVIOUS
<1>1. /\ ~Working(t) /\ p \in Pools /\ t # NoThread
      /\ UNCHANGED <<blocks, cur, last, free, used, crashed, cleared>>
  BY <1>p, Fits, ThreadsAssumption DEF IInv, LocksRight, LockFree, At, Working
<1>2. LiveKept
  BY LockFreeIInv
<1>3. CASE free[p] = <<>>
  <2>1. lock' = lock /\ \A s \in Threads \ {t} : call'[s] = call[s]
    BY <1>p, <1>3 DEF LockFree, Go, IInv, TypeOK
  <2> QED BY <1>1, <1>2, <2>1, QuietSlots
<1>4. CASE free[p] # <<>>
  <2>1. /\ call' = [call EXCEPT ![t].at = "pop", ![t].row = free[p]]
        /\ lock' = [lock EXCEPT ![p] = t]
    BY <1>p, <1>4 DEF LockFree
  <2>2. (\A s \in Threads \ {t} : call'[s] = call[s]) /\ call'[t].row = free[p]
    BY <2>1 DEF IInv, TypeOK
  <2>3. lock'[p] = t /\ \A q \in Pools \ {p} : lock'[q] = lock[q] /\ lock[q] # t
    BY <1>1, <2>1, Idler DEF IInv, TypeOK
  <2>4. RowsKnown => RowsKnown'
    BY <1>1, <2>2, <2>3, RowsStay
  <2> QED BY <1>1, <1>2, <2>4, SlotsStay
<1> QED BY <1>3, <1>4

\* A pop or a push ends with the mutex given back.
LEMMA ReleaseSlots ==
    ASSUME IInv, SlotInv, NEW t \in Threads, Pop(t) \/ Push(t)
    PROVE  SlotInv'
<1>p. PICK p : p = PoolOf(call[t].size)
  OBVIOUS
<1>1. Working(t) /\ UNCHANGED <<blocks, cur, last, crashed, cleared>>
  BY DEF Pop, Push, At, Working
<1>2. p \in Pools /\ \A q \in Pools : lock[q] = t => q = p
  BY <1>p, <1>1, Holder
<1>3. \E r : /\ free' = [free EXCEPT ![p] = r] /\ lock' = [lock EXCEPT ![p] = NoThread]
             /\ call' = [call EXCEPT ![t] = Idle]
  BY <1>p DEF Pop, Push, Return
<1>4. /\ \A s \in Threads \ {t} : call'[s] = call[s]
      /\ \A q \in Pools \ {p} : lock[q] # t /\ lock'[q] = lock[q] /\ free'[q] = free[q]
      /\ lock'[p] = NoThread
  BY <1>2, <1>3 DEF IInv, TypeOK
<1>5. LiveKept
  BY PopIInv, PushIInv
<1>6. RowsKnown => RowsKnown'
  BY <1>2, <1>4, RowsStay
<1> QED BY <1>1, <1>5, <1>6, SlotsStay

LEMMA LockPushSlots ==
    ASSUME IInv, SlotInv, NEW t \in Threads, NEW a, NEW n, LockPush(t, a, n)
    PROVE  SlotInv'
<1>p. PICK p, c : /\ p = PoolOf(n)
                  /\ c = [at |-> "push", size |-> n, slot |-> a, row |-> free[p]]
  OBVIOUS
<1>1. /\ ~Working(t) /\ Small(n) /\ <<a, n>> \in used
      /\ lock' = [lock EXCEPT ![p] = t] /\ call' = [call EXCEPT ![t] = c]
      /\ UNCHANGED <<blocks, cur, last, free, crashed, cleared>>
  BY <1>p DEF LockPush, At, Working
<1>2. n \in Sizes
  BY <1>1 DEF IInv, TypeOK
<1>3. p \in Pools
  BY <1>p, <1>1, <1>2, Fits
<1>4. /\ (\A s \in Threads \ {t} : call'[s] = call[s]) /\ call'[t].row = free[p]
      /\ lock'[p] = t /\ \A q \in Pools \ {p} : lock'[q] = lock[q] /\ lock[q] # t
  BY <1>p, <1>1, <1>3, Idler DEF IInv, TypeOK
<1>5. RowsKnown => RowsKnown'
  BY <1>1, <1>3, <1>4, RowsStay
<1>6. LiveKept
  BY LockPushIInv
<1> QED BY <1>1, <1>5, <1>6, SlotsStay

\* What is cut off goes into use at once.
LEMMA CutSlotSlots ==
    ASSUME IInv, SlotInv, NEW t \in Threads, CutSlot(t)
    PROVE  SlotInv'
<1>1. PICK p \in Pools : /\ p = PoolOf(call[t].size)
                         /\ BusySlots(p)' = BusySlots(p) \cup {cur[p]}
                         /\ \A q \in Pools \ {p} : BusySlots(q)' = BusySlots(q)
  BY CutSlotIInv
<1>2. /\ ~Working(t) /\ cur[p] < last[p] /\ cur' = [cur EXCEPT ![p] = @ + SlotSize[p]]
      /\ call' = [call EXCEPT ![t] = Idle] /\ UNCHANGED <<blocks, last, free, lock, crashed, cleared>>
  BY <1>1 DEF CutSlot, Return, At, Working
<1>3. /\ TypeOK /\ cur'[p] = cur[p] + SlotSize[p] /\ \A q \in Pools \ {p} : cur'[q] = cur[q]
      /\ \A s \in Threads \ {t} : call'[s] = call[s]
      /\ \A q \in Pools : lock[q] # t /\ (lock[q] = NoThread \/ lock[q] \in Threads)
  BY <1>2, Idler DEF IInv, TypeOK
<1>4. OnGridAt(p)' /\ Cut(p)' = Cut(p) \cup {cur[p]}
  BY <1>2, <1>3, CutSlotCuts DEF SlotInv, OnGrid
<1>5. \A q \in Pools \ {p} : (OnGridAt(q) => OnGridAt(q)') /\ Cut(q)' = Cut(q)
  BY <1>2, <1>3 DEF OnGridAt, Cut, SlotsOf
<1>6. \A q \in Pools : FreeSlots(q)' = FreeSlots(q)
  <2>1. \A q \in Pools : Row(q)' = Row(q)
    BY <1>2, <1>3 DEF Row
  <2> QED BY <2>1 DEF FreeSlots
<1>7. RowsKnown => RowsKnown'
  BY <1>2, <1>3 DEF RowsKnown
<1>8. OnGrid'
  BY <1>4, <1>5 DEF SlotInv, OnGrid
<1>9. ASSUME \A q \in Pools : Cut(q) = Live(q)
      PROVE  \A q \in Pools : Cut(q)' = Live(q)'
  BY <1>1, <1>4, <1>5, <1>6, <1>9 DEF Live
<1> QED BY <1>2, <1>7, <1>8, <1>9 DEF SlotInv, AllLive

LEMMA NewBlockSlots ==
    ASSUME IInv, SlotInv, NEW t \in Threads, NewBlock(t)
    PROVE  SlotInv'
<1>1. PICK p \in Pools, b \in InHeap :
         /\ p = PoolOf(call[t].size)
         /\ blocks' = [blocks EXCEPT ![p] = @ \cup {b}]
         /\ last' = [last EXCEPT ![p] = LastSlot(b, p)]
         /\ cur' = [cur EXCEPT ![p] = FirstSlot(b, p) + SlotSize[p]]
         /\ BusySlots(p)' = BusySlots(p) \cup {FirstSlot(b, p)}
         /\ \A q \in Pools \ {p} : BusySlots(q)' = BusySlots(q)
  BY NewBlockIInv
<1>2. /\ ~Working(t) /\ cur[p] >= last[p] /\ call' = [call EXCEPT ![t] = Idle]
      /\ free' = [free EXCEPT ![p] = <<>>]
      /\ cleared' = (cleared \/ free[p] # <<>> \/ lock[p] # NoThread)
      /\ UNCHANGED <<lock, crashed>>
  BY <1>1 DEF NewBlock, Return, At, Working
<1>3. b \in Heap /\ b \notin blocks[p]
  BY DEF InHeap
<1>4. /\ TypeOK /\ blocks'[p] = blocks[p] \cup {b} /\ last'[p] = LastSlot(b, p)
      /\ cur'[p] = FirstSlot(b, p) + SlotSize[p]
      /\ \A q \in Pools \ {p} : /\ blocks'[q] = blocks[q] /\ last'[q] = last[q]
                                /\ cur'[q] = cur[q] /\ free'[q] = free[q]
      /\ free'[p] = <<>>
      /\ \A s \in Threads \ {t} : call'[s] = call[s]
      /\ \A q \in Pools : lock[q] # t /\ (lock[q] = NoThread \/ lock[q] \in Threads)
  BY <1>1, <1>2, Idler DEF IInv, TypeOK
<1>5. OnGridAt(p)' /\ Cut(p)' = Cut(p) \cup {FirstSlot(b, p)}
  BY <1>2, <1>3, <1>4, NewBlockCuts DEF SlotInv, OnGrid
<1>6. \A q \in Pools \ {p} : (OnGridAt(q) => OnGridAt(q)') /\ Cut(q)' = Cut(q)
  BY <1>4 DEF OnGridAt, Cut, SlotsOf
<1>7. OnGrid'
  BY <1>5, <1>6 DEF SlotInv, OnGrid
<1>8. ASSUME ~cleared'
      PROVE  /\ ~cleared /\ RowsKnown => RowsKnown'
             /\ \A q \in Pools : FreeSlots(q)' = FreeSlots(q)
  <2>1. ~cleared /\ free[p] = <<>> /\ lock[p] = NoThread
    BY <1>2, <1>8
  <2>2. \A q \in Pools : Row(q)' = Row(q)
    BY <1>2, <1>4, <2>1 DEF Row
  <2>3. RowsKnown => RowsKnown'
    BY <1>2, <1>4, <2>1 DEF RowsKnown
  <2> QED BY <2>1, <2>2, <2>3 DEF FreeSlots
<1>9. ASSUME ~cleared', \A q \in Pools : Cut(q) = Live(q)
      PROVE  \A q \in Pools : Cut(q)' = Live(q)'
  BY <1>1, <1>5, <1>6, <1>8, <1>9 DEF Live
<1>10. ~cleared' => ~cleared
  BY <1>2
<1> QED BY <1>2, <1>7, <1>8, <1>9, <1>10 DEF SlotInv, AllLive

\* Every step of a thread keeps account of the slots.
LEMMA NextSlots == IInv /\ SlotInv /\ [Next]_vars => SlotInv'
<1> SUFFICES ASSUME IInv, SlotInv, [Next]_vars PROVE SlotInv'
  OBVIOUS
<1>1. CASE UNCHANGED vars
  <2>1. LiveKept
    BY <1>1 DEF vars, LiveKept, Live, BusySlots, FreeSlots, Row
  <2> QED BY <1>1, <2>1, SlotsStay DEF vars, RowsKnown
<1>2. CASE Next
  <2>1. PICK t \in Threads : ThreadStep(t)
    BY <1>2 DEF Next
  <2>2. CASE LockFree(t)
    BY <2>2, LockFreeSlots
  <2>3. CASE Pop(t) \/ Push(t)
    BY <2>3, ReleaseSlots
  <2>4. CASE PopNull(t)
    <3>1. cleared
      <4> SUFFICES ASSUME ~cleared PROVE FALSE
        OBVIOUS
      <4>1. PICK p : p = PoolOf(call[t].size)
        OBVIOUS
      <4>2. Working(t) /\ call[t].row # <<>> /\ free[p] = <<>> /\ t # NoThread
        BY <2>4, <4>1, ThreadsAssumption DEF PopNull, At, Working, IInv, LocksRight
      <4>3. p \in Pools /\ lock[p] = t
        BY <4>1, <4>2, Holder
      <4> QED BY <4>2, <4>3 DEF SlotInv, AllLive, RowsKnown
    <3>2. OnGrid'
      BY <2>4 DEF PopNull, SlotInv, OnGrid, OnGridAt
    <3> QED BY <2>4, <3>1, <3>2 DEF PopNull, SlotInv, AllLive
  <2>5. CASE CutSlot(t)
    BY <2>5, CutSlotSlots
  <2>6. CASE NewBlock(t)
    BY <2>6, NewBlockSlots
  <2>7. CASE BadAlloc(t) \/ \E size \in Sizes : LookFree(t, size)
    <3>1. ~Working(t) /\ UNCHANGED <<blocks, cur, last, free, lock, used, crashed, cleared>>
      BY <2>7 DEF BadAlloc, LookFree, At, Working
    <3>2. \A s \in Threads \ {t} : call'[s] = call[s]
      BY <2>7 DEF BadAlloc, LookFree, IInv, TypeOK
    <3>3. LiveKept
      BY <2>7, QuietIInv
    <3> QED BY <3>1, <3>2, <3>3, QuietSlots
  <2>8. CASE \E size \in Sizes : UseLarge(t, size)
    <3>1. LiveKept
      BY <2>8, LargeIInv DEF UseLarge
    <3> QED BY <2>8, <3>1, SlotsStay DEF UseLarge, RowsKnown
  <2>9. CASE \E u \in used : LockPush(t, u[1], u[2])
    BY <2>9, LockPushSlots
  <2>10. CASE \E u \in used : FreeLarge(t, u[1], u[2])
    <3>1. PICK a, n : FreeLarge(t, a, n)
      BY <2>10
    <3>2. \A u \in used \ used' : ~Small(u[2])
      BY <3>1 DEF FreeLarge
    <3>3. LiveKept
      BY <3>1, <3>2, LargeIInv DEF FreeLarge
    <3> QED BY <3>1, <3>3, SlotsStay DEF FreeLarge, RowsKnown
  <2> QED BY <2>1, <2>2, <2>3, <2>4, <2>5, <2>6, <2>7, <2>8, <2>9, <2>10 DEF ThreadStep
<1> QED BY <1>1, <1>2

\* The pools' fields keep their types, and a thread's call its place.
THEOREM TypeCorrect == Spec => []TypeOK
<1>1. IInv => TypeOK
  BY DEF IInv
<1> QED BY <1>1, InitIInv, NextIInv, PTL DEF Spec

\* Elements never overlap, nor the header of a block, although allocateNewBlock()
\* clears the free list under a mutex that does not exclude the list's users.
THEOREM NeverOverlap == Spec => []NoOverlap
BY InitIInv, NextIInv, IInvNoOverlap, PTL DEF Spec

\* As long as allocateNewBlock() clears no list that has slots or a thread at work
\* on it, every slot that was ever cut off a block is in an element, on its way back
\* or in the list, and no thread follows a null pointer.
THEOREM NothingIsLost == Spec => []NoSlotLost
<1>1. IInv /\ SlotInv /\ [Next]_vars => IInv' /\ SlotInv'
  BY NextIInv, NextSlots
<1>2. SlotInv => NoSlotLost
  <2>1. \A p \in Pools : Live(p) = FreeSlots(p) \cup BusySlots(p)
    BY DEF Live
  <2> QED BY <2>1 DEF SlotInv, AllLive, NoSlotLost
<1> QED BY InitIInv, SlotInvInit, <1>1, <1>2, PTL DEF Spec
=============================================================================
