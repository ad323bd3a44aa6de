------------------------------ MODULE Reactor ------------------------------
(***************************************************************************)
(* The server: TcpServer with its Acceptor on the base loop, the loops of  *)
(* EventLoopThreadPool, and the connections that travel between them.      *)
(*                                                                         *)
(* The threads share nothing but the loops' functor queues: connections_   *)
(* belongs to the base loop's thread and a TcpConnection to the thread of  *)
(* its own loop, so each callback is one step, which ends with what it     *)
(* queues.  Each loop polls, handles the active channels in any order and  *)
(* then runs the batch of functors it swapped out (EventLoop.tla shows     *)
(* that a queue behaves like this and that no wakeup is lost).             *)
(*                                                                         *)
(* A TcpConnection lives as long as a shared_ptr to it: in connections_ or *)
(* bound in a functor.  A channel in activeChannels_ is a raw pointer.     *)
(***************************************************************************)
EXTENDS TcpConnection, Sequences, FiniteSets

CONSTANTS Conns,      \* the clients, one connection each
          IoLoops,    \* loops_ of the pool: a sequence without repetition
          MaxFd       \* how many accepted descriptors the process may hold

Base == "base"
Loops == {Base} \cup {IoLoops[i] : i \in DOMAIN IoLoops}

ASSUME LoopsAssumption == /\ IoLoops \in Seq(STRING)
                          /\ \A i, j \in DOMAIN IoLoops :
                                /\ IoLoops[i] # Base
                                /\ i # j => IoLoops[i] # IoLoops[j]
ASSUME MaxFdAssumption == MaxFd \in Nat \ {0}

VARIABLES conn,         \* per client: its socket and its TcpConnection
          client,       \* per client: "away", "backlog", "accepted"
          connections,  \* connections_
          loopOf,       \* per accepted client: its loop
          next,         \* EventLoopThreadPool::next_
          phase,        \* per loop: "poll", "dispatch", "run"
          active,       \* per loop: activeChannels_ with their revents
          pending,      \* per loop: pendingFunctors_
          batch,        \* per loop: doPendingFunctors' local vector
          ran           \* per loop: how many of the batch returned

vars == <<conn, client, connections, loopOf, next, phase, active, pending, batch, ran>>
server == <<connections, loopOf, next>>
loops == <<phase, active, pending, batch, ran>>

Listen == "listen"      \* the acceptChannel_ of the base loop
ASSUME ListenAssumption == Listen \notin Conns

----------------------------------------------------------------------------
(* Ownership *)

Accepted(c) == client[c] = "accepted"

Tasks(l) == {pending[l][i] : i \in DOMAIN pending[l]}
              \cup {batch[l][i] : i \in DOMAIN batch[l]}

\* Some shared_ptr to the TcpConnection is left.
Alive(c) == c \in connections \/ \E l \in Loops : \E t \in Tasks(l) : t[2] = c

Freed(c) == Accepted(c) /\ ~Alive(c)

\* ~Socket closes the descriptor, so these are the ones in use.
OpenFds == {c \in Conns : Accepted(c) /\ Alive(c)}

----------------------------------------------------------------------------
Init == /\ \E room \in [Conns -> 0..ResponseLen] :
              conn = [c \in Conns |-> NewSocket(room[c])]
        /\ client = [c \in Conns |-> "away"]
        /\ connections = {}
        /\ loopOf = [c \in Conns |-> Base]
        /\ next = 0
        /\ phase = [l \in Loops |-> "poll"]
        /\ active = [l \in Loops |-> {}]
        /\ pending = [l \in Loops |-> <<>>]
        /\ batch = [l \in Loops |-> <<>>]
        /\ ran = [l \in Loops |-> 0]

----------------------------------------------------------------------------
(* The clients and the network *)

PeerConnect(c) == /\ client[c] = "away"
                  /\ client' = [client EXCEPT ![c] = "backlog"]
                  /\ UNCHANGED <<conn, server, loops>>

\* The peer acts on an open socket that it did not reset.
Peer(c, change) == /\ client[c] # "away" /\ ~Freed(c) /\ ~conn[c].rst
                   /\ conn' = [conn EXCEPT ![c] = change]
                   /\ UNCHANGED <<client, server, loops>>

\* A request, or the rest of one, arrives.
PeerSend(c) == ~conn[c].rx /\ ~conn[c].peerFin /\ Peer(c, [conn[c] EXCEPT !.rx = TRUE])

\* The peer takes what was sent, so the send buffer has room again.
PeerRead(c) == /\ conn[c].room < ResponseLen
               /\ Peer(c, [conn[c] EXCEPT !.room = ResponseLen])

PeerClose(c) == ~conn[c].peerFin /\ Peer(c, [conn[c] EXCEPT !.peerFin = TRUE])

PeerReset(c) == Peer(c, [conn[c] EXCEPT !.rst = TRUE, !.err = TRUE])

----------------------------------------------------------------------------
(* EventLoop *)

ListenReady(l) == l = Base /\ \E c \in Conns : client[c] = "backlog"

\* The channels of loop l that epoll_wait reports; all are level triggered.
Ready(l) == {<<c, Revents(conn[c])>> :
                c \in {d \in Conns : /\ Accepted(d) /\ loopOf[d] = l
                                     /\ Revents(conn[d]) # {}}}
            \cup IF ListenReady(l) THEN {<<Listen, {"in"}>>} ELSE {}

\* poll() returns when a channel is ready or a functor was queued (a wakeup).
Poll(l) == /\ phase[l] = "poll"
           /\ Ready(l) # {} \/ pending[l] # <<>>
           /\ active' = [active EXCEPT ![l] = Ready(l)]
           /\ phase' = [phase EXCEPT ![l] = "dispatch"]
           /\ UNCHANGED <<conn, client, server, pending, batch, ran>>

DoPendingFunctors(l) == /\ phase[l] = "dispatch" /\ active[l] = {}
                        /\ batch' = [batch EXCEPT ![l] = pending[l]]
                        /\ pending' = [pending EXCEPT ![l] = <<>>]
                        /\ ran' = [ran EXCEPT ![l] = 0]
                        /\ phase' = [phase EXCEPT ![l] = "run"]
                        /\ UNCHANGED <<conn, client, server, active>>

\* The local vector goes, and with it the shared_ptrs bound in its functors.
EndBatch(l) == /\ phase[l] = "run" /\ ran[l] = Len(batch[l])
               /\ batch' = [batch EXCEPT ![l] = <<>>]
               /\ ran' = [ran EXCEPT ![l] = 0]
               /\ phase' = [phase EXCEPT ![l] = "poll"]
               /\ UNCHANGED <<conn, client, server, active, pending>>

\* queueInLoop()
Queue(l, task) == pending' = [pending EXCEPT ![l] = Append(@, task)]

----------------------------------------------------------------------------
(* Acceptor and TcpServer::newConnection *)

\* EventLoopThreadPool::getNextLoop, round robin over the pool if it has loops.
NextLoop == IF IoLoops = <<>> THEN Base ELSE IoLoops[next + 1]

\* newConnection: runInLoop(connectEstablished) is a call on the same thread
\* and a queued functor on another.
NewConnection(c, l) ==
    /\ client' = [client EXCEPT ![c] = "accepted"]
    /\ connections' = connections \cup {c}
    /\ loopOf' = [loopOf EXCEPT ![c] = l]
    /\ next' = IF IoLoops = <<>> THEN next ELSE (next + 1) % Len(IoLoops)
    /\ IF l = Base
       THEN conn' = [conn EXCEPT ![c] = ConnectEstablished(@)] /\ UNCHANGED pending
       ELSE Queue(l, <<"connectEstablished", c>>) /\ UNCHANGED conn

\* Acceptor::handleRead accepts one client; with no descriptor left accept
\* fails, which is only logged, and the client stays in the backlog.
HandleAccept ==
    /\ phase[Base] = "dispatch" /\ <<Listen, {"in"}>> \in active[Base]
    /\ active' = [active EXCEPT ![Base] = @ \ {<<Listen, {"in"}>>}]
    /\ IF Cardinality(OpenFds) < MaxFd
       THEN \E c \in Conns : client[c] = "backlog" /\ NewConnection(c, NextLoop)
       ELSE UNCHANGED <<conn, client, server, pending>>
    /\ UNCHANGED <<phase, batch, ran>>

----------------------------------------------------------------------------
(* The events of a connection, and its removal *)

\* MUTANT: the map keeps its shared_ptr.
RemoveConnectionInLoopKeeps(c) ==
    /\ Queue(loopOf[c], <<"connectDestroyed", c>>)
    /\ UNCHANGED connections

\* removeConnectionInLoop: out of connections_, and connectDestroyed is always
\* queued, never called, as the connection's channel may be in use.
RemoveConnectionInLoop(c) ==
    /\ connections' = connections \ {c}
    /\ Queue(loopOf[c], <<"connectDestroyed", c>>)

\* closeCallback_, TcpServer::removeConnection, on the thread of loop l.
RemoveConnection(l, c) ==
    IF l = Base THEN RemoveConnectionInLoop(c)
    ELSE Queue(Base, <<"removeConnection", c>>) /\ UNCHANGED connections

\* Channel::handleEvent: tie_ holds the connection for the call; if it is gone
\* nothing is done.
HandleConn(l, c) ==
    /\ phase[l] = "dispatch"
    /\ \E revents \in SUBSET {"in", "out", "hup", "err"} :
          /\ <<c, revents>> \in active[l]
          /\ active' = [active EXCEPT ![l] = @ \ {<<c, revents>>}]
          /\ LET k == HandleEvent(conn[c], revents)
             IN  IF ~Alive(c) THEN UNCHANGED <<conn, connections, pending>>
                 ELSE /\ conn' = [conn EXCEPT ![c] = k]
                      /\ IF k.downs > conn[c].downs
                         THEN RemoveConnection(l, c)
                         ELSE UNCHANGED <<connections, pending>>
    /\ UNCHANGED <<client, loopOf, next, phase, batch, ran>>

\* The next functor of the batch runs.
RunFunctor(l, kind, c) ==
    /\ phase[l] = "run" /\ ran[l] < Len(batch[l])
    /\ batch[l][ran[l] + 1] = <<kind, c>>
    /\ ran' = [ran EXCEPT ![l] = @ + 1]
    /\ UNCHANGED <<client, loopOf, next, phase, active, batch>>

RunConnectEstablished(l, c) ==
    /\ RunFunctor(l, "connectEstablished", c)
    /\ conn' = [conn EXCEPT ![c] = ConnectEstablished(@)]
    /\ UNCHANGED <<connections, pending>>

RunRemoveConnection(l, c) == /\ RunFunctor(l, "removeConnection", c)
                             /\ RemoveConnectionInLoop(c)
                             /\ UNCHANGED conn

RunConnectDestroyed(l, c) == /\ RunFunctor(l, "connectDestroyed", c)
                             /\ conn' = [conn EXCEPT ![c] = ConnectDestroyed(@)]
                             /\ UNCHANGED <<connections, pending>>

----------------------------------------------------------------------------
LoopStep(l) == \/ Poll(l) \/ DoPendingFunctors(l) \/ EndBatch(l)
               \/ \E c \in Conns : \/ HandleConn(l, c)
                                   \/ RunConnectEstablished(l, c)
                                   \/ RunRemoveConnection(l, c)
                                   \/ RunConnectDestroyed(l, c)

PeerStep(c) == \/ PeerConnect(c) \/ PeerSend(c) \/ PeerRead(c)
               \/ PeerClose(c) \/ PeerReset(c)

Next == HandleAccept \/ (\E l \in Loops : LoopStep(l)) \/ \E c \in Conns : PeerStep(c)

Spec == Init /\ [][Next]_vars

\* Threads are scheduled, callbacks return.
Fairness == /\ WF_vars(HandleAccept \/ LoopStep(Base))
            /\ \A l \in Loops \ {Base} : WF_vars(LoopStep(l))

FairSpec == Spec /\ Fairness

----------------------------------------------------------------------------
ActiveEntries == (Conns \X SUBSET {"in", "out", "hup", "err"}) \cup {<<Listen, {"in"}>>}

Functors == {"connectEstablished", "removeConnection", "connectDestroyed"} \X Conns

TypeOK == /\ conn \in [Conns -> Connection]
          /\ client \in [Conns -> {"away", "backlog", "accepted"}]
          /\ connections \in SUBSET Conns
          /\ loopOf \in [Conns -> Loops]
          /\ next \in 0..Len(IoLoops)
          /\ phase \in [Loops -> {"poll", "dispatch", "run"}]
          /\ active \in [Loops -> SUBSET ActiveEntries]
          /\ pending \in [Loops -> Seq(Functors)]
          /\ batch \in [Loops -> Seq(Functors)]
          /\ ran \in [Loops -> Nat]

\* The raw pointers in the epoll set and in activeChannels_ are good: a freed
\* connection is in neither (removeConnectionInLoop queues connectDestroyed).
NoDanglingChannel == \A c \in Conns : Freed(c) =>
                        /\ conn[c].idx # "kAdded"
                        /\ \A l \in Loops : \A e \in active[l] : e[1] # c

\* Whatever is in the epoll set is in connections_ and waits for input, so each
\* hangup or error that epoll reports has a handler, which ends in handleClose and
\* finds a connection to remove: no loop can spin on a descriptor nobody handles.
RegisteredServed == \A c \in Conns :
    conn[c].idx = "kAdded" => c \in connections /\ "r" \in conn[c].ev

\* The application hears of a connection once when it comes up and once when it
\* goes down, in this order, and it goes down only when its peer closed or reset it:
\* nothing else cuts a response short.  It is freed only then; the response is
\* written while it is up and completely before the write side is shut down.
LifePhase(c) ==
    LET heard == <<conn[c].ups, conn[c].downs>>
    IN  CASE ~Accepted(c) -> "idle"
          [] Accepted(c) /\ heard = <<0, 0>> -> "new"
          [] Accepted(c) /\ heard = <<1, 0>> -> "up"
          [] heard = <<1, 1>> -> IF Alive(c) THEN "down" ELSE "gone"
          [] OTHER -> "wrong"

Life == INSTANCE ConnLifecycle
           WITH phase <- [c \in Conns |-> LifePhase(c)],
                wire <- [c \in Conns |-> conn[c].sent],
                fin <- [c \in Conns |-> conn[c].fin],
                closed <- [c \in Conns |-> conn[c].peerFin],
                broken <- [c \in Conns |-> conn[c].rst]
Lifecycle == Life!LifeSpec

\* A connection that its peer closed or reset is freed in the end, whatever else
\* the loops have to do.
ClosedIsFreed == \A c \in Conns :
    (Accepted(c) /\ (conn[c].peerFin \/ conn[c].rst)) ~> Freed(c)

\* A response that could not be written at once is finished and followed by the
\* shutdown, if the peer goes on reading and neither closes nor resets.
KeepsReading(c) == WF_vars(PeerRead(c))
ResponseCompletes == \A c \in Conns :
    KeepsReading(c) =>
       (IsWriting(conn[c]) ~> (conn[c].fin \/ conn[c].peerFin \/ conn[c].rst))

\* A client that waits to be accepted is accepted, unless clients that do not
\* close hold all the descriptors again and again.
Held == {c \in OpenFds : ~conn[c].peerFin /\ ~conn[c].rst}
NoStarvation == \A c \in Conns :
    <>[](client[c] = "backlog") => []<>(Cardinality(Held) >= MaxFd)
=============================================================================
