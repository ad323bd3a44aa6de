# A verification project for cpp-ai-service

TLA+ models of the server in this repository, TLC configurations that check
them on small instances, and theorems that the TLA+ proof system checks for
every instance.  Paths below are relative to the repository root.

## 1. The system

The program is one process: a muduo-style reactor (`src/EventLoop.cc`,
`src/TcpServer.cc`, ...) with an HTTP gateway on top of it (`src/main.cc`).
`main()` runs the base loop, which accepts; three I/O loops, one thread each,
serve the connections.  A request is parsed, routed and answered inside one
read callback of its I/O loop; the response is sent and the write side closed.

| component | state | operations | interacts through | what is hard |
|---|---|---|---|---|
| `EventLoop` | `quit_`, `pendingFunctors_`, `callingPendingFunctors_`, wakeup descriptor | `loop`, `quit`, `runInLoop`, `queueInLoop`, `wakeup` | functor queue (mutex) and descriptor, from any thread | append and wakeup are two steps; the owner polls, swaps and runs in between |
| `EPollPoller`, `PollPoller` | `channels_`, the channels' `index_`, the epoll set or `pollfds_` | `updateChannel`, `removeChannel`, `poll` | called by channels on the loop's thread | index life cycle, reused descriptors, entries that move |
| `Channel` | `events_`, `revents_`, `index_`, `tie_` | `enable*`, `disable*`, `remove`, `handleEvent` | raw pointer in the poller and in `activeChannels_` | life time of the owner |
| `TcpConnection` | `state_`, two buffers, its channel and socket | `send`, `shutdown`, event handlers, `connectEstablished`, `connectDestroyed` | functors to its loop; callbacks to the server and the application | half close, reset, partial writes, stale events |
| `TcpServer`, `Acceptor`, `EventLoopThreadPool` | `connections_`, `next_`, the listening channel | `newConnection`, `removeConnection`, accept, round robin | functors between base loop and I/O loops | a connection removed by one thread while another serves it; no descriptor left |
| `EventLoopThread`, `Thread` | `loop_`, `exiting_` | `startLoop`, `threadFunc`, destructor | mutex and condition variable | start-up hand-over, quit before loop, join |
| `TimerQueue`, `Timer` | `timers_`, timer descriptor | `addTimer`, `handleRead`, `reset` | functor to the loop; timer descriptor | arming, callbacks that add timers, two clocks; no `EventLoop` constructs it |
| `Buffer` | vector, two indices | `append`, `retrieve`, `makeSpace`, `readFd` | owned by a connection | boundaries of moving and growing |
| `KLfuCache`, `KHashLfuCache` | nodes, frequency lists, `minFreq_`, totals | `put`, `get`, eviction, aging | one mutex per slice | stale `minFreq_`, aging that never ends |
| `AiClient` | the reply cache | `chat` | called by all I/O threads; HTTP call to a provider | check, call, then act without a lock |
| `UserStore` | users, sessions, attempts; a file | `load`, `registerUser`, `login`, `authenticateBearerToken` | one mutex; append-only file | torn appends, restart, expiry, sliding window |
| `InMemoryRagStore`, `ToolRegistry` | documents; a constant map | `upsert`, `search`; `execute` | called by all I/O threads, no lock | unsynchronised vector |
| `HttpCodec`, `EchoServer` | none of their own | parse, route, answer | a read callback | a request split over two reads |
| `MemoryPool` | free list, current block | `allocate`, `deallocate` | two mutexes | a list guarded by one and cleared under the other; unused by `main()` |
| logging | `log/` is not in the repository | | | |
| `WebPages`, `Socket`, `InetAddress`, `Timestamp`, `CurrentThread` | constants and wrappers | | | |

What makes each correct: loops never sleep on work and run functors once, in
order; pollers never fail fatally and report to a channel what it asked for;
connections come up once, go down once, are freed, and lose no response they
could have written; caches answer with what was stored and stay within their
size; users and sessions are what was registered and logged in; timers fire when due and
once; memory that is handed out is nobody else's.
`PROJECT.json` lists the hazards line by line.

## 2. Modules and their correspondence to the code

The components share nothing but what the table above names, so each is a
specification of its own, and one that stands on another's guarantees says so.

| module | models | proved in |
|---|---|---|
| `TaskQueue` | abstract: a FIFO queue whose tasks run once | |
| `EventLoop` | `src/EventLoop.cc`: one owner thread, foreign `Callers` | `EventLoopProofs` |
| `EPollPoller`, `PollPoller` | the files of the same name, as operators on a poller's state | |
| `Pollers` | the callers of both (`src/Channel.cc`, the destructors): both pollers fed the same calls | `PollersProofs` |
| `TcpConnection` | `src/TcpConnection.cc`, `src/Channel.cc`, `onMessage`, as operators on a connection record | |
| `ConnLifecycle` | abstract: what the application is promised of a connection | |
| `Reactor` | `src/TcpServer.cc`, `src/Acceptor.cc`, `src/EventLoopThreadPool.cc`: loops, functors in flight, clients; composes `TcpConnection` | `ReactorProofs` |
| `Buffer` | `include/Buffer.h`, `src/Buffer.cc` with the calls a connection makes | `BufferProofs` |
| `Subsequence` | what erasing from a list or a queue leaves, without recursion: used by the next four and by `Gateway` | `ServiceProofs` |
| `LfuCache` | `include/LFU.h`, `KLfuCache`, as operators on a slice | `ServiceProofs` |
| `ChatCache` | `AiClient::chat` on several threads over `KHashLfuCache`; composes `LfuCache` | `ServiceProofs` |
| `UserFile` | the records of `data/users.jsonl`: what appends leave and `load()` reads | `ServiceProofs` |
| `UserStore` | `src/UserStore.cc`: calls, clocks, crashes; composes `UserFile` | `ServiceProofs` |
| `LoopThread` | `src/Thread.cc`, `src/EventLoopThread.cc`, `EventLoopThreadPool::start`, the destructors | `LoopThreadProofs` |
| `Gateway` | `src/main.cc`, `src/HttpCodec.cc`, `src/ToolRegistry.cc`, `src/RagStore.cc`: from a read to the answer | `ServiceProofs` |
| `TimerService` | abstract: what a timer is promised | |
| `TimerQueue` | `src/TimerQueue.cc`, `src/Timer.cc` on their loop, with both clocks | `TimerQueueProofs` |
| `MemoryPool` | `memory/memoryPool.cc`, `include/memoryPool.h` on several threads | `MemoryPoolProofs` |
| `MCEventLoop`, `MCReactor`, `MCChatCache`, `MCGateway`, `MCTimerQueue`, `MCMemoryPool` | constants and symmetry for TLC | |

**EventLoop.**  `pc` is the owner's place in `loop()`; `active`, `pending`,
`functors`, `calling`, `quit` are `activeChannels_`, `pendingFunctors_`, the local
vector of `doPendingFunctors`, `callingPendingFunctors_` and `quit_`; `wake` counts
the unread writes of the wakeup descriptor, an eventfd or a pipe (both sides of
the `#ifdef`).  A foreign `queueInLoop` or `quit` is two steps, since the owner may
run between the change and the `write`; `cpc` says who is between them.  The swap
under the mutex is one step, each functor's return another.  `executed` is history.
The other channels of the loop are one channel, whose handler may queue and quit.

**Pollers.**  A poller is a record of the channels' `index_`, of `channels_`, and of
the kernel's set or of `pollfds_`.  The actions are the calls channels make, with
the restrictions their callers keep: a channel is removed once it is disabled or
is being destroyed, and `disableAll` comes twice only with `remove` after it.  (The
restriction matters: `disableAll` on an already disabled channel puts it back into
the epoll set without events, while the poll poller goes on ignoring it.
`connectDestroyed` avoids it by testing `state_`, and `handleClose` because a channel
that it disabled gets no events.)

**TcpConnection and Reactor.**  A connection is a record: `state_`, the channel's
events and index, the units in `outputBuffer_`, and what the kernel knows (unread
data, room in the send buffer, FIN, reset, unreported error).  Handlers are
functions on it, composed as `handleEvent` calls them.  A `Reactor` step is one
callback on one loop's thread: threads share only functor queues, so callbacks of
different loops commute until they queue something, and a callback ends with what
it queues.  A functor is its name and its connection, whose `shared_ptr` it holds:
`Alive` is the reference count.  `active` holds raw pointers, as in the code.

**Buffer.**  `buf` is the vector and the two indices; every operation is a function on
it and every action a call that a connection makes: `readFd` with whatever `readv`
returned, the `append` of `sendInLoop`, `retrieve` after a write, and
`retrieveAllAsString`.  `received` and `taken` are the bytes that went in and came
out.  In the server one buffer only reads and takes and the other only queues and
writes; here one buffer has all four, which includes both.

**ChatCache.**  Each slice is a record with a frequency per node, the lists, the
minimum and the totals; `put` and `get` are one step (the slice's mutex).  A chat is
a hit, or a miss, a provider call and a put, with nothing held in between.
`Counts` is the bound on `curTotalNum_`.  Which keys an iteration over the
`unordered_map` finds first is a choice (`Orders`).  Requests that name a tool never
touch the cache and are left out.

**UserStore.**  Each call is one step (its mutex), apart from a crash between the
append and the answer.  A file is a list of lines, a line a list of pieces, each
the whole record of one append or the part of it that reached the disk.  `Extract`
is `extractJsonStringField` on such a line: the first quoted field name anywhere,
then the string after the next colon, which in a line with a torn piece may be
another piece's.  A password stands for its salt and hash; two users with one
password or hash collisions are not told apart.  A failed login, an unknown token
or an invalid name changes nothing and is no action.

**LoopThread.**  `owner` is the place of the thread that runs `start()` and the destructors,
`at` the place of each I/O thread.  A wait on a condition variable looks at its predicate
and falls asleep in one step (the mutex); a notification wakes whoever sleeps there, a
spurious wakeup anybody.  The loop is reduced to `quit_`, its wakeup descriptor and the
`while`.  Two steps touch memory that may be gone: `Thread::start`'s condition variable
is notified after the mutex is released, and `quit()` goes on to `wakeup()` after `quit_`
is set.  Both are steps of the model with the effect they have on its state, none.

**Gateway.**  A client's input is a row of parts: the request line, the headers, one part
for each field of the body.  Positions count half parts, so a read may end inside a part,
which is then in neither read: the parser does not find it.  A body is a JSON object of strings;
no string has a quote in it and no name a colon, but a value may be the name of another field,
and `Fields` does with it what `extractJsonStringField` does: the quoted name is looked for
anywhere, and the string after the next colon is its value.  `script` is what the client
sends, `taken` how far its input has been read; a read takes all that has arrived, and
`onMessage` takes it as one request.  A read that starts in the middle of something has no
request line of the client's: the answer is any the parser and the routes may give, and no
route that changes anything is taken for it (that would need a body which is itself a
request).  Clients that send a body send its `Content-Length`.  Whether a body is longer than
the 8192 bytes that the account routes take is a flag of the request (`large`); of one that was
read in part it is open (`Sizes`).  `work` is the callback in progress.  Connections are on loops
of their own, since those of one loop take turns, and the only state they share here is
`documents_`: `upsert` is a scan and a write, `search` two
accesses.  Once two loops have been in the vector at the same time (`raced`), its content
is undefined; the model lets a reference point to the old memory and claims nothing.

**TimerQueue.**  `timers` is the `std::set` of pairs, `armed` the monotonic time at which the
descriptor expires, `at` the place in `handleRead`, whose local vector is `expired`.  Time is
counted in units of 100 microseconds, the least time `resetTimerfd` arms for; it passes on
both clocks, and the wall clock, which is `Timestamp::now()`, may be set, before any step.
`HandleRead` takes the time and the entries that have expired, `Read` reads the descriptor
after it; `Run` and `Reset` deal with one entry each, so that time passes and callbacks add
timers between them.  `addTimer` of another thread is a functor.  `crossed`, `setBack` and
`setAhead` are history: the two things that can spoil the arming (see below).

**MemoryPool.**  Addresses are byte numbers, 0 is null.  `blocks`, `cur`, `last` and `free` are
a pool's block list, `curSlot_`, `lastSlot_` and the row of slots from `freeList_` on.  What a
thread does under `mutexForBlock_` is one step.  Under `mutexForFreeList_` (`lock`) a thread
reads `freeList_` in one step and writes it in another, since `allocateNewBlock()` may clear
it in between under the other mutex.  What two unsynchronised accesses to `freeList_` may do
is what the build can produce: the second read of `freeList_ = freeList_->next` gives the old
list (`Pop`) or, if it was cleared, null (`PopNull`, `crashed`).

## 3. What the runs check

| run | kind | properties | bounds, and why they are enough |
|---|---|---|---|
| `loop` | pass | `NoLostWakeup`, `FifoOnce`, `QueuedRuns`, `QuitStops` | two foreign threads and three functors: one runs while its thread and a foreign one queue the others; a descriptor of two writes is left with a token by a pipe read, and drops a third write |
| `loop_thread` | pass | `HandedOutLives`, `OutlivesThread`, `StartReturns`, `JoinReturns` | three threads, as `main()` sets: a first, a middle and a last one |
| `reactor` | pass | `NoDanglingChannel`, `RegisteredServed`, `Lifecycle` | two connections, base loop and one I/O loop: one is removed while the other is in the same `activeChannels_`; two response units and send buffers of none to two make the first write empty, partial and complete |
| `reactor_live` | pass | `ClosedIsFreed`, `ResponseCompletes`, `NoStarvation` | two I/O loops, so that round robin matters, and one descriptor for two clients |
| `pollers` | pass | `NeverFatal`, `IndexIsPosition`, `SameReports` | four descriptors with 0 among them: a removal moves the last of up to four entries, and descriptor 0 is where a sign would not tell |
| `buffer` | pass | `TypeOK`, `NothingLost`, `GrowsOnlyIfNeeded` | a vector of one prependable and three initial bytes, an `extrabuf` of two, six bytes in all: reads end short of the vector's end, at it and beyond it, and appends fit exactly, fit after a move, and make it grow |
| `chat_cache` | pass | `ChatTypeOK`, `ListsAgree`, `WithinCapacity`, `CachedIsLast`, `EvictsLeastUsed` | three keys contend for two nodes of a slice, a fourth hashes elsewhere; average limit 2 and nine accesses: aging, eviction after aging, and aging again |
| `user_store` | pass | `StoreTypeOK`, `AccountsKept`, `MemoryIsFile`, `RateLimited`, `SessionsEnd` | three appends: a whole record, a torn one, and one that goes on in its line; two attempts in a window of one tick of three instants, so that windows overlap; a session of one tick |
| `user_stored` | violation | `RecordsStored` | one user with the name of a field |
| `gateway` | pass | `AnsweredOnce`, `DoneAsAsked`, `WholeIsServed`, `LatestStored`, `Answered` | two connections; one client sends two requests, cut into reads anywhere, or one of every kind, the other one; ingests of the same and of different ids; one seeded document; values that are names, before and after the field of that name and without it, an empty value and a body that is too long |
| `timers` | pass | `Armed`, `Promised`, `Fires` | three timers, one of which repeats every unit, set for the past or two units ahead: one is added while another's callback runs and a third is due; the wall clock is set once, by a unit, either way; time ends after three units, but not before the timers that do not repeat have fired |
| `mem_pool` | pass | `NoOverlap`, `NoSlotLost` | two threads; pools of one, two and three words and an element that fits none exactly; blocks of one to three slots behind a header; two blocks, so that a second one is needed and `operator new` fails after it; a `size_t` of 64 values, no multiple of the largest slot |

What they show, in the order of the hazards of `PROJECT.json`:

* *No functor and no quit is slept on* (`NoLostWakeup`), on eventfd and on pipe, even
  if `handleRead` takes the wakeup of a functor it does not see yet; so every
  functor runs without help of the ten second timeout (`QueuedRuns`), and `quit()`
  stops a running loop (`QuitStops`).  A `quit()` **before** `loop()` is lost, since
  `loop()` resets the flag.
* *The threads come up and go down in order*: `start()` hands out loops that live and
  threads whose id is known, and comes back; an `EventLoopThread` is never destroyed under
  its thread.  Its destructor returns unless the pool is destroyed between
  `startLoop()` and the thread's `loop()`: then the lost `quit()` makes `join()` wait for
  ever, which `JoinReturns` excepts by `lost`.
* *No raw pointer dangles*: neither epoll nor an `activeChannels_` in use holds a
  freed connection, because `removeConnectionInLoop` queues `connectDestroyed` also
  on the loop's own thread.  The connection's life is the one of `ConnLifecycle`.
* *Nothing spins or leaks*: what is registered reads, so a hangup always ends in
  `handleClose`; closed connections are freed, which returns their descriptors to
  clients that `accept` had to refuse.
* *The buffer loses no byte* through moves, growth and `extrabuf`, at every boundary, and
  does not grow while a move would do.
* *The cache keeps its promises, except aging*: eviction finds a least used node
  whatever happened to `minFreq_`.  `handleOverMaxAverageNum` does not reduce
  `curTotalNum_`, so once the limit is passed every access ages all entries again, although
  their mean frequency is low by then (in the model as in the code).
* *Accounts survive crashes and torn appends*, if they were confirmed before the
  tear; what is appended afterwards to a torn line may be unreadable, which makes
  `load()` stop there (the server only logs it) and lets a name be registered
  twice after a restart.  An append that fails may have left any part of the line, or all
  of it: then the file holds an account that was refused, which `MemoryIsFile` excepts.  A user called `salt` (or `password_hash`) is locked out by a
  restart even without a failure (`user_stored`).
* *A request cut into two reads is not served, but harms nobody*: the first read is
  answered and the write side closed, whatever comes later is taken for a request of its
  own and its answer dropped (`AnsweredOnce`).  What is carried out always has what the route
  requires, and its values from one request (`DoneAsAsked`): a later request in the same read
  is cut off by `Content-Length`, a half field is not found.  But an optional field that had
  not arrived is simply missing, and a second request on the connection **is** carried out,
  unanswered.
* *A value that is the name of a field is taken for that field.*  `POST /rag/ingest` with
  `{"id":"content","title":"x","content":"c"}` stores the content `x`; with
  `{"id":"title","content":"x"}` it stores the title `x`, though `src/main.cc:259` says that the
  body must contain a title; `POST /mcp/call` with
  `{"query":"tool","message":"m","tool":"server_time"}` gets a 400.  So `DoneAsAsked` says that
  a value is the one of the field of its name, and `WholeIsServed` that a request that arrived
  whole gets the status its route promises (`Deserved`, stated without `Fields`), only of
  requests that are `Plain`: no value is a name the route looks for.
* *The RAG documents are right as long as two loops do not meet in them*
  (`LatestStored`); if they do, both may find the id missing and store it twice
  (`src/RagStore.cc:120` scans and adds without a lock).
* *A timer is called when it is due, once for each expiry, and never after its delete*
  (`Promised`, a refinement of `TimerService`), whatever happens to the wall clock.  *While the
  loop waits and there is a timer, the descriptor is armed* (`Armed`), and so *every timer
  fires* (`Fires`), with two exceptions, which the properties name.  Both end in a `handleRead`
  that finds nothing expired, and `reset()` arms the descriptor only for expired timers
  (`src/TimerQueue.cc:181`); the timers that are left then wait for the next `addTimer` of an
  earlier one.  One is a wall clock that is set back, which the monotonic descriptor does not
  follow (`setBack`).  The other needs no clock to be set: another handler of the same poll
  adds a timer that comes first, which arms the descriptor anew; `handleRead` takes the time,
  then the new expiry passes, and `ReadTimerFd` reads it away (`src/TimerQueue.cc:160`,
  `crossed`).
* *The pools hand out no byte twice*, although `allocateNewBlock()` clears `freeList_` under the
  wrong mutex (`NoOverlap`): a thread that pops or pushes meanwhile writes back a row that
  was its own.  What the clearing costs is the slots that were in the list, or a null pointer
  that is followed; without it no slot is lost (`NoSlotLost`).

## 4. Fairness

* `EventLoop`: the owner is weakly fair, and so is a foreign thread between its
  change and its `write` (`WF` of `Wakeup`): the threads are scheduled and nothing
  blocks there.  A `poll()` that only other descriptors or the timeout could end is
  **not** fair: wakeups have to do it.
* `Reactor`: each loop is weakly fair: callbacks return (the provider call has a
  timeout).  Clients are not fair; `ResponseCompletes` assumes of one client that
  it goes on reading, in the property itself.
* `LoopThread`: the owner and the threads are weakly fair; a `poll()` is sure to end only
  when the wakeup descriptor is readable.  When the pool is destroyed is open.
* `Gateway`: each callback in progress is weakly fair.  Clients are not: they may stop at
  any point of a request.
* `TimerQueue`: time passes (to the bound) and the loop is weakly fair: its thread is
  scheduled and callbacks return.  A poll ends only if the timer descriptor is readable.
  Nobody is sure to add a timer.
* `ChatCache`, `UserStore`, `Pollers`, `Buffer` and `MemoryPool` state safety only.

## 5. What is proved

`EventLoopProofs`, for any threads and functors and any capacity of the wakeup
descriptor but zero (`WakeCapacityAssumption`):

* `TypeCorrect`: `Spec => []TypeOK`.
* `NeverBlocksOnWork`: `Spec => []NoLostWakeup`.  The property speaks of `poll()`
  alone and is not inductive.  The invariant `IInv` adds `PendingIsSignalled` (outside
  the dispatch of events, where `handleRead` may just have consumed it, a queued
  functor has its wakeup), `QuitIsSignalled` (`quit_` is tested right before `poll()`)
  and `BatchInRun` (`callingPendingFunctors_` is set exactly while the batch runs,
  which is why a functor queued by a functor writes a wakeup and one queued by an
  event handler need not).
* `ImplementsTaskQueue`: `Spec => FifoOnce`, with the batch and the queue, one after
  the other, as the abstract queue: a swap is a stutter, a return its `Run`.

`PollersProofs`, for any set of descriptors (`FdsAssumption`: natural numbers):

* `NeverAborts` (`[]NeverFatal`), `IndicesAgree` (`[]IndexIsPosition`), `PollersAgree`
  (`[]SameReports`).  The inductive invariant says of epoll that `kAdded` means "in the
  set, with the channel's events", and of poll (`Shape`) that indices and entries are
  inverse to each other, entries of disabled channels negated.  `OriginalIgnored`
  (`-(-fd - 1) - 1 = fd`), `UpdateShape` and `RemoveShape` carry the argument.

`ReactorProofs`, for any clients, any loops of the pool (`LoopsAssumption`: no loop twice),
any number of descriptors and any length of a response (`MaxFdAssumption`,
`ResponseLenAssumption`; `ListenAssumption` keeps the listening channel apart from the
clients' names):

* `TypeCorrect` (`[]TypeOK`), `NoDangling` (`[]NoDanglingChannel`), `Served`
  (`[]RegisteredServed`) and `ImplementsLifecycle` (`Spec => Lifecycle`).  A connection is
  `Silent`, `Up` or `Down`, whatever its handlers do (`HandleEventLeaves`: a connection that is
  up stays up, or goes down if its peer closed or reset it).  The invariant ties the functors in
  flight to these states (`Fits`: `connectEstablished` finds a silent connection on its own
  loop, `removeConnection` one that is down and still listed, `connectDestroyed` one that is
  down and listed no more), and a loop has one functor for a connection at most
  (`TasksOnce`).  So a connection that is up has none in flight and is in `connections_`, and an
  active channel's connection is up (`ActiveRight`).  `OneConn` lifts what a step does to one
  connection to the server; `StepLives` maps it to the abstract life.

`BufferProofs`, for any bytes and any sizes (`BytesAssumption`, `SizesAssumption`,
`MaxBytesAssumption`):

* `TypeCorrect` (`[]TypeOK`), `BytesKept` (`[]NothingLost`) and `GrowthNeeded`
  (`GrowsOnlyIfNeeded`).  The two invariants are inductive together: the indices must be
  in order and inside the vector for a copy to land where it should.  `ResizedPart`,
  `OverwrittenPart` and `BehindPart` say what `resize` and `std::copy` do to a part of the
  vector; `MakeSpaceKeeps`, `AppendKeeps`, `ReadFdKeeps` and `RetrieveDrops` lift that to
  the operations.

`ServiceProofs` has the theorems about the application layer, with what they share about
subsequences (`RankOrders`, `PickedByRank`) and numbers (`LeastOf`, `AllUpTo`).

*Gateway*, for any connections, any requests cut anywhere and any documents with
distinct ids to start with (`ScriptsAssumption`, `SeedsAssumption`):

* `OneAnswer` (`[]AnsweredOnce`).
* `LatestWins` (`[]LatestStored`).  The invariant adds that, while no loops have met, a loop
  between its scan and its write still knows the right slot (`SlotRight`): any other write
  in between would have set `raced`.  `WrittenIsLatest` is the argument about one `upsert`.
* `OneRequestEach` (`[]DoneAsAsked`), of any flat bodies of strings, those included whose values
  are names.  The input of a client is all its requests one behind
  another (`FlattenSeq`).  `Flattened` gets from that, by going up from the first sequence
  (`AllUpTo`), what the proofs need: each part of the input belongs to one request of the client,
  and those of the first request come first (`InputParts`).  A read takes a piece of the input
  (`ReadParts`), its body is cut to the request it starts with, so a value that is found is one
  of that request: of the field of that name, or of one behind a value that is this name
  (`FieldsFound`, `CarriedOut`), and a plain request has no such value.
* `WholeServed` (`[]WholeIsServed`), of plain requests.  The property speaks of the answer
  alone; `ServedInv` follows
  it from the read on: while a client that sent its request whole has no answer, one it deserves
  is on its way through the steps of the callback (`OnTheWay`).  `FirstRead` shows that a first
  read that holds the first request whole has exactly its body, whatever comes behind it in the
  same read, `PlainFields` that of a plain body each field gets its own value, and `TaskDeserved`
  that what the route then does can only end in a status it promises.

*UserStore*, for any names, passwords, clients, limits, windows and bounds
(`NamesAssumption`, `CredentialAssumption`, `LimitAssumption`, `InvitedAssumption`,
`StoreBounds`):

* `StoreTypes` (`[]StoreTypeOK`).
* `TokensEnd` (`[]SessionsEnd`).  `TokenInv` adds that a refused token is out of the map and
  was issued before, so no new one is one of them, wherever the wall clock goes.
* `RateIsLimited` (`[]RateLimited`).  A count of at most `Limit` says nothing of windows that
  overlap.  `RateInv` says instead: from any instant of the last minute on, no more was let
  through than is still kept.  `KeptCounts` (forgetting attempts older than a minute forgets
  none of those) and `AppendedCounts` keep it.
* `AccountsAreKept` (`[]AccountsKept`) and `MemoryFollowsFile` (`[]MemoryIsFile`).  Neither is
  inductive: a restart replaces memory by what the file says.  `FileInv` says where a
  confirmed account is (`KeptAt`): on a line of its own that `load()` gets to, with no piece of
  this name anywhere else, and not on a line that is still open.  `RegisterKeeps` and
  `CrashKeeps` show that no append of others, torn or whole, disturbs that; `WholeReads` that
  `extractJsonStringField` reads an undamaged line as it was written, unless the name is the
  name of a field; `LoadedUsers` what `load()` makes of the lines it gets to.

*ChatCache*, for any keys, replies, threads, slices and capacity (`NoneAssumption`,
`CapacityAssumption`, `TotalAssumption`, `SliceAssumption`, `StubAssumption`), and an average
limit from 2 to 126 (`AverageAssumption`):

* `ChatTypes` (`[]ChatTypeOK`), `ListsStayAgreed` (`[]ListsAgree`), `CapacityHolds`
  (`[]WithinCapacity`), `HitsAreLast` (`[]CachedIsLast`) and `LeastUsedGoes`
  (`EvictsLeastUsed`).  The invariant `SliceInv` ties the lists to the nodes (`Listed`) and
  `minFreq_` to the lowest frequency (`MinIsLowest`).  After aging `updateMinFreq()` looks for the
  minimum and takes `INT8_MAX` for "none", so it has to be shown that some node is below it:
  `SomeLow` says that one is never used more than the limit.  While the average is not over
  the limit that is a matter of counting: the total is never less than the sum of the
  frequencies (`Summed`; `Uses` has an element for each use and `UsesMany` counts them),
  so not every node can be above.  When it is over, aging has just lowered the nodes.  So
  `kickOut` always finds a node, and a slice never outgrows its capacity.
* What the limit has to do with it: aging takes half of the limit off each frequency.  Half of 1
  is 0, nothing is lowered, and once the least frequency is 127, `minFreq_` becomes 1, an
  empty list, and `kickOut` would take its dummy tail.  The cache's only user takes the
  default of 10 (`AiClient.cc:289`), so the code never gets there, and a change of the default
  should know of it.

`LoopThreadProofs`, for any number of threads (`NumThreadsAssumption`):

* `TypeCorrect` (`[]TypeOK`), `LoopsLive` (`[]HandedOutLives`) and `ThreadsOutlived`
  (`[]OutlivesThread`).  The invariant follows the owner: threads it has seen (`Seen`) have
  published their loop, and a loop ends only if it has been told to (`Told`), when `loops_`
  is already gone (`LoopsSeen`).  So the unlocked look at `loop_` in `~EventLoopThread` always
  finds a loop, and the thread is joined, not detached.

`TimerQueueProofs`, for any timers, intervals and delays (`TimersAssumption`,
`DelaysAssumption`, `NeverAssumption`; the bounds are any numbers):

* `TypeCorrect` (`[]TypeOK`), `ArmedForTimers` (`[]Armed`) and `ImplementsTimerService`
  (`Spec => Promised`).  The invariant says where each Timer is (`Entries`): its entry is in
  `timers_` or in `expired`, never in both, under the time in `expiration_`, and what is in
  `expired` was due at a time the wall clock has shown; the Timer of a functor has no entry
  yet.  For the arming (`ArmedRight`) it says of each place in `handleRead` what will still arm
  the descriptor: while no clock was set back and nothing crossed, an expired descriptor means
  an expired entry, so `reset()` has at least one entry to arm it for.

`MemoryPoolProofs`, for any threads, pools, sizes and heap, and blocks with room for a header
and two largest slots (`ThreadsAssumption`, `SizesAssumption`, `BlockAssumption`,
`HeapAssumption`, `WrapAssumption`):

* `TypeCorrect` (`[]TypeOK`), `NeverOverlap` (`[]NoOverlap`) and `NothingIsLost`
  (`[]NoSlotLost`).  The invariant `IInv` gives each slot
  one place (`OnePlace`: an element, a free row or a call), says that slots lie on the grid of
  their block (`Geometry`) and that no two pools share a block (`OneOwner`).  A free row
  belongs to the mutex's holder while there is one (`LocksRight`), which is why clearing
  `freeList_` under it can lose slots but not double them.  For `NothingIsLost` `SlotInv` adds
  that, as long as no list in use was cleared, every list is the row its holder knows
  (`RowsKnown`), and what lies behind `curSlot_` on the grid of its block is what was ever cut
  off (`OnGrid`, `AllLive`): a cut takes exactly the next slot (`CutSlotCuts`,
  `NewBlockCuts`), and every other step moves a slot between places, none away.

Every theorem is checked to its leaves; the assumptions on constants are evaluated
by TLC on the runs.

## 6. What is only model-checked

Liveness (`QueuedRuns`, `QuitStops`, `StartReturns`, `JoinReturns`, `ClosedIsFreed`,
`ResponseCompletes`, `NoStarvation`, `Answered`, `Fires`) and everything about `ENABLED` are out of the proof system's reach.
Every invariant and every action property of the passing runs is a theorem of section 5.

## 7. What is not modelled

* `log/` is not in the repository; `Logger.cc` formats text.  `WebPages.cc` is constant
  HTML.  `Socket`, `InetAddress`, `Timestamp` wrap system calls; what they do to the
  server (`~Socket`, `accept`) is in `Reactor`.
* `sendFile`, and `send` from a foreign thread: nothing calls them.
* `TcpServer`'s destructor: nothing quits the base loop (only `~EventLoopThread` calls `quit()`),
  so `main()` does not get there.
* A server without I/O loops: no run has one; the theorems about `Reactor` hold of it, too.
* What memory holds after its object is gone: a signal to a dead stack frame, the content
  of a vector that two threads changed.
* A constructor that throws in `newElement` (its slot is not taken back).
* `~MemoryPool`: it runs when the process exits, when nothing may use the pools.  `main()`
  initialises them, and nothing allocates from them.
* The pipe of `createTimerfd` where there is no timerfd: nobody writes to it, so no timer
  ever fires there.  No `EventLoop` constructs its `timerQueue_`.
* The growth of the event array of `EPollPoller::poll`: what does not fit is reported
  by the next poll.
* The capacity of the cache as a whole: each slice's share is rounded up, so four
  slices may hold up to three replies more than configured.
* Functors that the owner queues before `loop()`: no code of the repository does.  They would
  wait for the timeout of the first `poll()`.
* Time that passes between `now()` and `timerfd_settime` in `resetTimerfd`: what `Armed` says of
  the descriptor holds up to it.
* A list that `freqToFreqList_` lacks is an empty one; `SliceInv` shows that `kickOut` meets neither.
* Quotes inside the strings of request bodies and colons in their names, and fields that are not
  strings.
* `DefaultPoller`: with `MUDUO_USE_POLL` set it returns a null pointer.
* Texts, scores and hashes: the JSON of responses, RAG ranking, FNV.

## 8. Plan

Done: the event loop and its threads, both pollers, the reactor, the buffer, the reply
cache, the user store, the gateway, the timers, the memory pools.
Left to model: `TcpServer`'s destructor in `Reactor`, with `LoopThread`'s: connections that are
destroyed by functors whose loops are told to quit.
