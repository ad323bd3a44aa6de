--------------------------- MODULE TcpConnection ---------------------------
(***************************************************************************)
(* One connection of the server, as functions from a connection record to  *)
(* the record a handler leaves behind: TcpConnection.cc with its Channel,  *)
(* the channel's place in the EPollPoller and the kernel's socket.         *)
(*                                                                         *)
(* All of these run on the thread of the connection's loop, where nothing  *)
(* interleaves with them; Reactor.tla says when they run.  Payloads are    *)
(* counted in units: a request is there or not, the response to it has     *)
(* ResponseLen units.  EchoServer installs no write-complete and no        *)
(* high-water callback, and never sends files.                             *)
(***************************************************************************)
EXTENDS Naturals

CONSTANT ResponseLen     \* units of a response
ASSUME ResponseLenAssumption == ResponseLen \in Nat \ {0}

State == {"kConnecting", "kConnected", "kDisconnecting", "kDisconnected"}

\* What the EPollPoller remembers of a channel in Channel::index_.
Index == {"kNew", "kAdded", "kDeleted"}

Connection ==
    [st      : State,              \* state_
     ev      : SUBSET {"r", "w"},  \* Channel::events_
     idx     : Index,              \* Channel::index_
     out     : 0..ResponseLen,     \* units in outputBuffer_
     sent    : 0..ResponseLen,     \* history: units written to the socket
     fin     : BOOLEAN,            \* the socket's write side was shut down
     rx      : BOOLEAN,            \* kernel: data to be read
     room    : 0..ResponseLen,     \* kernel: units the send buffer still takes
     peerFin : BOOLEAN,            \* kernel: the peer closed its write side
     rst     : BOOLEAN,            \* kernel: the peer reset the connection
     err     : BOOLEAN,            \* kernel: the reset is still to be reported
     ups     : 0..2,               \* history: callbacks with connected()
     downs   : 0..2]               \* history: callbacks without

\* The socket of a client that connected and is not accepted yet.  How much its
\* send buffer takes is the kernel's business.
NewSocket(room) ==
    [st |-> "kConnecting", ev |-> {}, idx |-> "kNew", out |-> 0, sent |-> 0,
     fin |-> FALSE, rx |-> FALSE, room |-> room, peerFin |-> FALSE,
     rst |-> FALSE, err |-> FALSE, ups |-> 0, downs |-> 0]

----------------------------------------------------------------------------
(* Channel and EPollPoller *)

\* MUTANT: a channel without events is modified, not taken out.
UpdateKeepsDisabled(k) == [k EXCEPT !.idx = "kAdded"]

\* EPollPoller::updateChannel, after the channel set its events: a channel that
\* is not in the epoll set is added with whatever it has, also with no event.
Update(k) == IF k.idx = "kAdded"
             THEN [k EXCEPT !.idx = IF k.ev = {} THEN "kDeleted" ELSE "kAdded"]
             ELSE [k EXCEPT !.idx = "kAdded"]

EnableReading(k)  == Update([k EXCEPT !.ev = @ \cup {"r"}])
EnableWriting(k)  == Update([k EXCEPT !.ev = @ \cup {"w"}])
DisableWriting(k) == Update([k EXCEPT !.ev = @ \ {"w"}])
DisableAll(k)     == Update([k EXCEPT !.ev = {}])
Remove(k)         == [k EXCEPT !.idx = "kNew"]
IsWriting(k)      == "w" \in k.ev

\* What epoll_wait reports of a registered socket: readable and writable if
\* asked for, a hangup and an error in any case.
Revents(k) ==
    IF k.idx # "kAdded" THEN {}
    ELSE {e \in {"in", "out", "hup", "err"} :
            \/ e = "in"  /\ "r" \in k.ev /\ (k.rx \/ k.peerFin \/ k.rst)
            \/ e = "out" /\ "w" \in k.ev /\ (k.room > 0 \/ k.fin \/ k.rst)
            \/ e = "hup" /\ (k.rst \/ (k.fin /\ k.peerFin))
            \/ e = "err" /\ k.err}

----------------------------------------------------------------------------
(* Sending and shutting down *)

\* ::write of n units: the kernel takes what it has room for; a reset socket
\* fails, and the failure uses up a reset that was not reported yet.
Writable(k, n) == IF k.rst THEN 0 ELSE IF n < k.room THEN n ELSE k.room

Written(k, n) == [k EXCEPT !.sent = @ + n, !.room = @ - n,
                           !.err = IF k.rst THEN FALSE ELSE @]

\* sendInLoop(): write what fits if nothing is queued, queue the rest and ask
\* for writability.  EPIPE and ECONNRESET (faultError) drop the data; any other
\* failure of ::write leaves all of it to be queued, as a full socket does.
SendInLoop(k) ==
    LET direct == ~IsWriting(k) /\ k.out = 0
        n      == IF direct THEN Writable(k, ResponseLen) ELSE 0
        k1     == IF direct THEN Written(k, n) ELSE k
        left   == ResponseLen - n
        k2     == [k1 EXCEPT !.out = @ + left]
    IN  IF (direct /\ k.rst) \/ left = 0 THEN k1
        ELSE IF IsWriting(k2) THEN k2 ELSE EnableWriting(k2)

Send(k) == IF k.st = "kConnected" THEN SendInLoop(k) ELSE k

\* MUTANT: the write side is shut down although output is still queued.
ShutdownInLoopEager(k) == [k EXCEPT !.fin = TRUE]

ShutdownInLoop(k) == IF IsWriting(k) THEN k ELSE [k EXCEPT !.fin = TRUE]

Shutdown(k) == IF k.st = "kConnected"
               THEN ShutdownInLoop([k EXCEPT !.st = "kDisconnecting"])
               ELSE k

\* EchoServer::onMessage: one response, then no more (main.cc).
OnMessage(k) == Shutdown(Send(k))

----------------------------------------------------------------------------
(* Event handlers *)

\* MUTANT: the channel stays in the epoll set.
HandleCloseRegistered(k) == [k EXCEPT !.st = "kDisconnected", !.downs = @ + 1]

\* handleClose(), up to closeCallback_, which is the server's removeConnection.
HandleClose(k) ==
    LET k1 == DisableAll([k EXCEPT !.st = "kDisconnected"])
    IN  [k1 EXCEPT !.downs = @ + 1]

\* handleRead(): readv takes all there is.  A reset that was not reported yet
\* fails the read, once; then, as after a FIN, the read returns 0.
HandleRead(k) ==
    CASE k.rx                -> OnMessage([k EXCEPT !.rx = FALSE])
      [] ~k.rx /\ k.err      -> [k EXCEPT !.err = FALSE]
      [] ~k.rx /\ ~k.err     -> IF k.peerFin \/ k.rst THEN HandleClose(k) ELSE k

\* handleError() only logs, but getsockopt(SO_ERROR) takes the error away.
HandleError(k) == [k EXCEPT !.err = FALSE]

\* MUTANT: the shutdown that was put off is forgotten.
HandleWriteNoShutdown(k) ==
    IF ~IsWriting(k) THEN k
    ELSE LET n  == Writable(k, k.out)
             k1 == [Written(k, n) EXCEPT !.out = @ - n]
         IN  IF n > 0 /\ k1.out = 0 THEN DisableWriting(k1) ELSE k1

\* handleWrite(): when the last unit is written, stop asking for writability and
\* do the shutdown that was put off.
HandleWrite(k) ==
    IF ~IsWriting(k) THEN k
    ELSE LET n  == Writable(k, k.out)
             k1 == [Written(k, n) EXCEPT !.out = @ - n]
             k2 == DisableWriting(k1)
         IN  IF n = 0 \/ k1.out > 0 THEN k1
             ELSE IF k2.st = "kDisconnecting" THEN ShutdownInLoop(k2) ELSE k2

\* Channel::handleEventWithGuard with the revents_ of the last poll: close,
\* error, read, write, in this order, each on what the one before it left.
HandleEvent(k, revents) ==
    LET k1 == IF "hup" \in revents /\ "in" \notin revents THEN HandleClose(k) ELSE k
        k2 == IF "err" \in revents THEN HandleError(k1) ELSE k1
        k3 == IF "in" \in revents THEN HandleRead(k2) ELSE k2
    IN  IF "out" \in revents THEN HandleWrite(k3) ELSE k3

----------------------------------------------------------------------------
(* Life cycle, called through the loop's functors *)

ConnectEstablished(k) ==
    LET k1 == EnableReading([k EXCEPT !.st = "kConnected"])
    IN  [k1 EXCEPT !.ups = @ + 1]

\* MUTANT: remove() comes first, and disableAll() adds the channel again.
ConnectDestroyedReadds(k) == DisableAll(Remove([k EXCEPT !.st = "kDisconnected"]))

\* Of a connection that is still up when its server goes, the application hears
\* here that it is down; handleClose has told it of every other one.
ConnectDestroyed(k) ==
    LET k1 == DisableAll([k EXCEPT !.st = "kDisconnected"])
    IN  Remove(IF k.st = "kConnected" THEN [k1 EXCEPT !.downs = @ + 1] ELSE k)
=============================================================================
