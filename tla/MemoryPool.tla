----------------------------- MODULE MemoryPool -----------------------------
(***************************************************************************)
(* HashBucket with its MemoryPools: newElement and deleteElement on        *)
(* several threads.  A size goes to the pool of its size class; a pool     *)
(* reuses the slots in its free list and otherwise cuts slots off its      *)
(* current block.                                                          *)
(*                                                                         *)
(* The two mutexes of a pool do not exclude each other.  What one thread   *)
(* does under mutexForBlock_ is a single step: of all it touches there     *)
(* only freeList_, which allocateNewBlock() clears once, is touched        *)
(* without that mutex.  Under mutexForFreeList_ a thread reads freeList_   *)
(* and writes it later, and the clearing may come in between, so these are *)
(* two steps with the mutex held.                                          *)
(*                                                                         *)
(* Addresses are numbers, counted in bytes; 0 is the null pointer.  A free *)
(* list is the row of slots from freeList_ on along the next pointers:     *)
(* nobody but the mutex's holder changes the pointers of that row, also    *)
(* when freeList_ itself is cleared.                                       *)
(***************************************************************************)
EXTENDS Integers, Sequences, FiniteSets

CONSTANTS Threads,    \* the threads that allocate and free
          NoThread,   \* the owner of a mutex that nobody holds
          NumPools,   \* MEMORY_POOL_NUM
          Word,       \* SLOT_BASE_SIZE, the size of a Slot (one pointer)
          BlockSize,  \* BlockSize_
          Heap,       \* the addresses that operator new may return
          Wrap,       \* one more than the largest size_t
          Sizes       \* the sizeof(T) of the elements

Pools == 0..(NumPools - 1)

\* MemoryPool::init: the slot size of each pool.
SlotSize == [p \in Pools |-> (p + 1) * Word]

MaxSlotSize == NumPools * Word

ASSUME ThreadsAssumption == NoThread \notin Threads
ASSUME SizesAssumption == /\ NumPools \in Nat \ {0} /\ Word \in Nat \ {0}
                          /\ Sizes \subseteq Nat \ {0}
\* A block holds its header and, wherever the padding ends, a largest slot.
ASSUME BlockAssumption == BlockSize \in Nat /\ BlockSize >= Word + 2 * MaxSlotSize
\* Whatever operator new returns is not in use, and stays clear of null.  (An
\* element too large for the pools is one block long at most.)
ASSUME HeapAssumption == /\ Heap \subseteq Nat \ {0}
                         /\ \A a, b \in Heap : a < b => a + BlockSize <= b
                         /\ \A n \in Sizes : n <= BlockSize
ASSUME WrapAssumption == Wrap \in Nat /\ \A a \in Heap : a + BlockSize <= Wrap

VARIABLES blocks,    \* per pool: the blocks on the list from firstBlock_
          cur,       \* per pool: curSlot_
          last,      \* per pool: lastSlot_
          free,      \* per pool: the list from freeList_ on
          lock,      \* per pool: who holds mutexForFreeList_
          call,      \* per thread: its place in a call and the call's locals
          used,      \* the memory handed out, as <<address, sizeof(T)>>
          crashed,   \* a null pointer was followed
          cleared    \* history: allocateNewBlock() cleared a list in use

vars == <<blocks, cur, last, free, lock, call, used, crashed, cleared>>

----------------------------------------------------------------------------
(* Addresses and sizes *)

Small(size) == size <= MaxSlotSize

\* MUTANT: the pool of the largest slot that is not larger than the element.
PoolOfFloor(size) == IF size < Word THEN 0 ELSE (size \div Word) - 1

\* useMemory, freeMemory: the pool of the least slot that is large enough.
PoolOf(size) == ((size + Word - 1) \div Word) - 1

\* padPointer(), in size_t.
PadPointer(addr, align) == ((align - addr) % Wrap) % align

\* MUTANT: the last slot of a block may reach over its end.
LastSlotPast(block, p) == block + BlockSize

\* allocateNewBlock(): the first slot of a new block, behind the block's own
\* next pointer, and the address from which no slot fits any more.
FirstSlot(block, p) == block + Word + PadPointer(block + Word, SlotSize[p])
LastSlot(block, p) == block + BlockSize - SlotSize[p] + 1

\* What operator new may return now.
InHeap == {a \in Heap : /\ \A p \in Pools : a \notin blocks[p]
                        /\ \A u \in used : u[1] # a}

----------------------------------------------------------------------------
Idle == [at |-> "idle", size |-> 0, slot |-> 0, row |-> <<>>]

\* initMemoryPool() has run; no thread uses the pools before it.
Init == /\ blocks = [p \in Pools |-> {}]
        /\ cur = [p \in Pools |-> 0]
        /\ last = [p \in Pools |-> 0]
        /\ free = [p \in Pools |-> <<>>]
        /\ lock = [p \in Pools |-> NoThread]
        /\ call = [t \in Threads |-> Idle]
        /\ used = {}
        /\ crashed = FALSE
        /\ cleared = FALSE

At(t, place) == ~crashed /\ call[t].at = place

Go(t, place) == call' = [call EXCEPT ![t].at = place]

\* useMemory returns to newElement, which constructs the element there.  A
\* constructor that throws, whose slot the code does not take back, is left out.
Return(t, addr) == /\ used' = used \cup {<<addr, call[t].size>>}
                   /\ call' = [call EXCEPT ![t] = Idle]

----------------------------------------------------------------------------
(* allocate() *)

\* The first look at freeList_, without the mutex.
LookFree(t, size) ==
    /\ At(t, "idle") /\ Small(size)
    /\ call' = [call EXCEPT ![t] =
                   [Idle EXCEPT !.at = IF free[PoolOf(size)] # <<>> THEN "lock" ELSE "block",
                                !.size = size]]
    /\ UNCHANGED <<blocks, cur, last, free, lock, used, crashed, cleared>>

\* The second look, with the mutex: it is kept for the pop.
LockFree(t) ==
    LET p == PoolOf(call[t].size)
    IN  /\ At(t, "lock") /\ lock[p] = NoThread
        /\ IF free[p] = <<>>
           THEN Go(t, "block") /\ UNCHANGED lock
           ELSE /\ call' = [call EXCEPT ![t].at = "pop", ![t].row = free[p]]
                /\ lock' = [lock EXCEPT ![p] = t]
        /\ UNCHANGED <<blocks, cur, last, free, used, crashed, cleared>>

\* freeList_ = freeList_->next, with the freeList_ of the second look.
Pop(t) ==
    LET p == PoolOf(call[t].size)
    IN  /\ At(t, "pop")
        /\ free' = [free EXCEPT ![p] = Tail(call[t].row)]
        /\ lock' = [lock EXCEPT ![p] = NoThread]
        /\ Return(t, Head(call[t].row))
        /\ UNCHANGED <<blocks, cur, last, crashed, cleared>>

\* The same, by a build that reads freeList_ again: it was cleared meanwhile, and
\* freeList_->next follows a null pointer.
PopNull(t) ==
    /\ At(t, "pop") /\ free[PoolOf(call[t].size)] = <<>>
    /\ crashed' = TRUE
    /\ UNCHANGED <<blocks, cur, last, free, lock, call, used, cleared>>

\* Under mutexForBlock_, with room in the current block.
CutSlot(t) ==
    LET p == PoolOf(call[t].size)
    IN  /\ At(t, "block") /\ cur[p] < last[p]
        /\ cur' = [cur EXCEPT ![p] = @ + SlotSize[p]]
        /\ Return(t, cur[p])
        /\ UNCHANGED <<blocks, last, free, lock, crashed, cleared>>

\* Under mutexForBlock_, without: allocateNewBlock(), which ends by clearing
\* freeList_, whoever may be at work on it, and then the first slot.
NewBlock(t) ==
    LET p == PoolOf(call[t].size)
    IN  /\ At(t, "block") /\ cur[p] >= last[p]
        /\ \E block \in InHeap :
              /\ blocks' = [blocks EXCEPT ![p] = @ \cup {block}]
              /\ last' = [last EXCEPT ![p] = LastSlot(block, p)]
              /\ cur' = [cur EXCEPT ![p] = FirstSlot(block, p) + SlotSize[p]]
              /\ Return(t, FirstSlot(block, p))
        /\ free' = [free EXCEPT ![p] = <<>>]
        /\ cleared' = (cleared \/ free[p] # <<>> \/ lock[p] # NoThread)
        /\ UNCHANGED <<lock, crashed>>

\* operator new throws; nothing has been changed yet.
BadAlloc(t) ==
    LET p == PoolOf(call[t].size)
    IN  /\ At(t, "block") /\ cur[p] >= last[p] /\ InHeap = {}
        /\ call' = [call EXCEPT ![t] = Idle]
        /\ UNCHANGED <<blocks, cur, last, free, lock, used, crashed, cleared>>

----------------------------------------------------------------------------
(* deallocate() *)

\* The element is destroyed, the mutex taken, and the slot linked to the list as
\* freeList_ is now.
LockPush(t, addr, size) ==
    LET p == PoolOf(size)
    IN  /\ At(t, "idle") /\ Small(size) /\ <<addr, size>> \in used
        /\ lock[p] = NoThread
        /\ lock' = [lock EXCEPT ![p] = t]
        /\ used' = used \ {<<addr, size>>}
        /\ call' = [call EXCEPT ![t] =
                       [at |-> "push", size |-> size, slot |-> addr, row |-> free[p]]]
        /\ UNCHANGED <<blocks, cur, last, free, crashed, cleared>>

\* MUTANT: the slot is not linked to the list it is put in front of.
PushUnlinked(t) ==
    LET p == PoolOf(call[t].size)
    IN  /\ At(t, "push")
        /\ free' = [free EXCEPT ![p] = <<call[t].slot>>]
        /\ lock' = [lock EXCEPT ![p] = NoThread]
        /\ call' = [call EXCEPT ![t] = Idle]
        /\ UNCHANGED <<blocks, cur, last, used, crashed, cleared>>

\* freeList_ = ptr.
Push(t) ==
    LET p == PoolOf(call[t].size)
    IN  /\ At(t, "push")
        /\ free' = [free EXCEPT ![p] = <<call[t].slot>> \o call[t].row]
        /\ lock' = [lock EXCEPT ![p] = NoThread]
        /\ call' = [call EXCEPT ![t] = Idle]
        /\ UNCHANGED <<blocks, cur, last, used, crashed, cleared>>

----------------------------------------------------------------------------
(* Elements too large for the pools *)

UseLarge(t, size) ==
    /\ At(t, "idle") /\ ~Small(size)
    /\ \E a \in InHeap : used' = used \cup {<<a, size>>}
    /\ UNCHANGED <<blocks, cur, last, free, lock, call, crashed, cleared>>

FreeLarge(t, addr, size) ==
    /\ At(t, "idle") /\ ~Small(size) /\ <<addr, size>> \in used
    /\ used' = used \ {<<addr, size>>}
    /\ UNCHANGED <<blocks, cur, last, free, lock, call, crashed, cleared>>

----------------------------------------------------------------------------
ThreadStep(t) ==
    \/ LockFree(t) \/ Pop(t) \/ PopNull(t) \/ Push(t)
    \/ CutSlot(t) \/ NewBlock(t) \/ BadAlloc(t)
    \/ \E size \in Sizes : LookFree(t, size) \/ UseLarge(t, size)
    \/ \E u \in used : LockPush(t, u[1], u[2]) \/ FreeLarge(t, u[1], u[2])

Next == \E t \in Threads : ThreadStep(t)

Spec == Init /\ [][Next]_vars

----------------------------------------------------------------------------
\* The row of a pool's free slots: whoever holds the mutex knows it.
Row(p) == IF lock[p] = NoThread THEN free[p] ELSE call[lock[p]].row

FreeSlots(p) == {Row(p)[i] : i \in DOMAIN Row(p)}

\* The slots of a pool that elements are in, or that are on their way back.
BusySlots(p) == {u[1] : u \in {v \in used : Small(v[2]) /\ PoolOf(v[2]) = p}}
                  \cup {call[t].slot : t \in {s \in Threads : /\ call[s].at = "push"
                                                              /\ lock[p] = s}}

\* The slots that have been cut off the blocks of a pool.
SlotsOf(block, p) ==
    {a \in block..(block + BlockSize) :
        /\ a >= FirstSlot(block, p) /\ (a - FirstSlot(block, p)) % SlotSize[p] = 0
        /\ IF cur[p] \in (block + 1)..(block + BlockSize)
           THEN a < cur[p] ELSE a < LastSlot(block, p)}
Cut(p) == UNION {SlotsOf(block, p) : block \in blocks[p]}

TypeOK == /\ blocks \in [Pools -> SUBSET Heap]
          /\ cur \in [Pools -> Nat] /\ last \in [Pools -> Nat]
          /\ free \in [Pools -> Seq(Nat \ {0})]
          /\ lock \in [Pools -> Threads \cup {NoThread}]
          /\ call \in [Threads -> [at   : {"idle", "lock", "pop", "block", "push"},
                                   size : Sizes \cup {0},
                                   slot : Nat,
                                   row  : Seq(Nat \ {0})]]
          /\ used \in SUBSET ((Nat \ {0}) \X Sizes)
          /\ crashed \in BOOLEAN /\ cleared \in BOOLEAN

\* No two elements share a byte, and none is in the header of a block, from which
\* the pool finds its blocks: whatever the threads do, and although a list may be
\* cleared while another thread pops or pushes.
Apart(a, m, b, n) == a + m <= b \/ b + n <= a
NoOverlap == /\ \A u, v \in used : u # v => Apart(u[1], u[2], v[1], v[2])
             /\ \A u \in used, p \in Pools : \A b \in blocks[p] :
                   Apart(u[1], u[2], b, Word)

\* As long as no list was cleared while it had slots or a thread at work on it,
\* every slot that was ever cut off a block is in use or will be used again, and
\* no null pointer is followed.
NoSlotLost == ~cleared =>
                 /\ \A p \in Pools : Cut(p) = FreeSlots(p) \cup BusySlots(p)
                 /\ ~crashed
=============================================================================
