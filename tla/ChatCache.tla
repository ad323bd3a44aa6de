----------------------------- MODULE ChatCache -----------------------------
(***************************************************************************)
(* AiClient::chat (src/AiClient.cc) on the I/O threads, for requests that  *)
(* name no tool: ask the reply cache, on a miss ask the provider, which    *)
(* may fail, and put what it said.  Nothing is locked from the miss to the *)
(* put, so other threads miss, ask, put and evict in between.              *)
(*                                                                         *)
(* The cache is KHashLfuCache (include/LFU.h): slices with a mutex each,   *)
(* and a hash that gives each key its slice.  A key stands for provider,   *)
(* model and message; only the message differs between requests.           *)
(***************************************************************************)
EXTENDS LfuCache

CONSTANTS Threads,        \* the I/O threads
          SliceNum,       \* sliceNum_
          CacheCapacity,  \* capacity_ of the whole cache
          SliceOf,        \* Hash(key) % sliceNum_
          StubReply       \* what makeStubReply says

Slices == 0..(SliceNum - 1)

\* KHashLfuCache: each slice gets its share, rounded up.
ASSUME SliceAssumption == /\ SliceNum \in Nat \ {0}
                          /\ Capacity = (CacheCapacity + SliceNum - 1) \div SliceNum
                          /\ SliceOf \in [Keys -> Slices]
ASSUME StubAssumption == StubReply \in Values

VARIABLES network,    \* shouldUseNetworkProvider(), from the configuration
          cache,      \* responseCache_: the slices
          pc,         \* per thread: "idle", "call", "put"
          key,        \* per thread: the key of its request
          reply,      \* per thread: what the provider said
          lastPut     \* history, per key: the value that was put last

chatVars == <<network, cache, pc, key, reply, lastPut>>

ChatInit == /\ network \in BOOLEAN
            /\ cache = [i \in Slices |-> EmptySlice]
            /\ pc = [t \in Threads |-> "idle"]
            /\ key = [t \in Threads |-> None]
            /\ reply = [t \in Threads |-> None]
            /\ lastPut = [k \in Keys |-> None]

SliceFor(k) == cache[SliceOf[k]]

\* The bound on curTotalNum_: an operation that would pass it is not taken.
Counts(k) == SliceFor(k).total < MaxTotal

\* A hit: the request is answered from the cache.
Hit(t, k) == /\ pc[t] = "idle" /\ k \in Cached(SliceFor(k)) /\ Counts(k)
             /\ \E order \in Orders(Cached(SliceFor(k)) \cup {k}) :
                   cache' = [cache EXCEPT ![SliceOf[k]] = Get(@, k, order)]
             /\ UNCHANGED <<network, pc, key, reply, lastPut>>

\* A miss: the provider is called, or the stub reply made up.
Miss(t, k) == /\ pc[t] = "idle" /\ k \notin Cached(SliceFor(k))
              /\ key' = [key EXCEPT ![t] = k]
              /\ pc' = [pc EXCEPT ![t] = IF network THEN "call" ELSE "put"]
              /\ reply' = [reply EXCEPT ![t] = IF network THEN None ELSE StubReply]
              /\ UNCHANGED <<network, cache, lastPut>>

\* callOpenAiCompatible() returns with a reply, and chat() puts it.
ProviderReplies(t, v) == /\ pc[t] = "call"
                         /\ pc' = [pc EXCEPT ![t] = "put"]
                         /\ reply' = [reply EXCEPT ![t] = v]
                         /\ UNCHANGED <<network, cache, key, lastPut>>

\* It fails: no base URL, no connection, a timeout, a status that is not 2xx or a
\* body without content.  The error is the answer, and nothing is put.
ProviderFails(t) == /\ pc[t] = "call"
                    /\ pc' = [pc EXCEPT ![t] = "idle"]
                    /\ key' = [key EXCEPT ![t] = None]
                    /\ UNCHANGED <<network, cache, reply, lastPut>>

PutReply(t) == LET k == key[t] IN
    /\ pc[t] = "put" /\ Counts(k)
    /\ \E order \in Orders(Cached(SliceFor(k)) \cup {k}) :
          cache' = [cache EXCEPT ![SliceOf[k]] = Put(@, k, reply[t], order)]
    /\ lastPut' = [lastPut EXCEPT ![k] = reply[t]]
    /\ pc' = [pc EXCEPT ![t] = "idle"]
    /\ key' = [key EXCEPT ![t] = None]
    /\ reply' = [reply EXCEPT ![t] = None]
    /\ UNCHANGED network

ChatNext == \E t \in Threads : \/ \E k \in Keys : Hit(t, k) \/ Miss(t, k)
                               \/ \E v \in Values : ProviderReplies(t, v)
                               \/ ProviderFails(t)
                               \/ PutReply(t)

ChatSpec == ChatInit /\ [][ChatNext]_chatVars

----------------------------------------------------------------------------
ChatTypeOK == /\ network \in BOOLEAN
              /\ cache \in [Slices -> Slice]
              /\ pc \in [Threads -> {"idle", "call", "put"}]
              /\ key \in [Threads -> Keys \cup {None}]
              /\ reply \in [Threads -> Values \cup {None}]
              /\ lastPut \in [Keys -> Values \cup {None}]

\* The lists are the index eviction goes by: each key is once in the list of its
\* frequency and in no other, through moves, aging and eviction.
ListsAgree == \A i \in Slices, k \in Keys, f \in 1..MaxTotal :
    LET s == cache[i]
    IN  Cardinality({n \in DOMAIN s.lists[f] : s.lists[f][n] = k})
           = IF s.freq[k] = f THEN 1 ELSE 0

\* A slice never outgrows its capacity: eviction always finds a node, although
\* minFreq_ is only guessed at after moves (kickOut, putInternal).
WithinCapacity == \A i \in Slices : Cardinality(Cached(cache[i])) <= Capacity

\* What a hit returns is what was put last under this key, also if two threads
\* missed it together and both put (put, getInternal).
CachedIsLast == \A k \in Keys : k \in Cached(SliceFor(k)) =>
                                   SliceFor(k).value[k] = lastPut[k]

\* A key that makes room for another was used the least: no key that stays had a
\* lower frequency (kickOut, minFreq_).
EvictsLeastUsed == [][\A k \in Keys :
    LET s == SliceFor(k)
    IN  k \in Cached(s) /\ k \notin Cached(SliceFor(k)') =>
           \A j \in Cached(s) : s.freq[k] <= s.freq[j]]_chatVars
=============================================================================
