------------------------------ MODULE Pollers ------------------------------
(***************************************************************************)
(* The calls the server's channels make to their loop's poller, and both   *)
(* pollers answering the same calls.  All calls to one poller come from    *)
(* its loop's thread.                                                      *)
(*                                                                         *)
(* The calls are those of EventLoop, Acceptor and TcpConnection: a channel *)
(* is disabled only if it has events (handleClose) or right before it is   *)
(* removed (the destructors), and removed right before it is destroyed.    *)
(* The kernel gives the descriptor of a destroyed channel to a new one.    *)
(***************************************************************************)
EXTENDS PollPoller

ASSUME FdsAssumption == Fds \subseteq Nat

VARIABLES events,       \* Channel::events_, {} if there is no channel
          epoll,        \* an EPollPoller
          poll          \* a PollPoller

vars == <<events, epoll, poll>>

Init == /\ events = [fd \in Fds |-> {}]
        /\ epoll = EPollEmpty
        /\ poll = PollEmpty

\* The channel sets its events and calls update().
SetEvents(fd, ev) == /\ events' = [events EXCEPT ![fd] = ev]
                     /\ epoll' = EPollUpdate(epoll, fd, ev)
                     /\ poll' = PollUpdate(poll, fd, ev)

Enable(fd, e) == SetEvents(fd, events[fd] \cup {e})

DisableWriting(fd) == "w" \in events[fd] /\ SetEvents(fd, events[fd] \ {"w"})

DisableAll(fd) == events[fd] # {} /\ SetEvents(fd, {})

\* connectDestroyed: remove(), and soon the channel is destroyed.
Remove(fd) == /\ fd \in epoll.channels
              /\ events' = [events EXCEPT ![fd] = {}]
              /\ epoll' = EPollRemove(epoll, fd)
              /\ poll' = PollRemove(poll, fd)

\* ~EventLoop, ~Acceptor: disableAll() and remove(), also of a channel that
\* was never enabled.
Destroy(fd) == /\ events' = [events EXCEPT ![fd] = {}]
               /\ epoll' = EPollRemove(EPollUpdate(epoll, fd, {}), fd)
               /\ poll' = PollRemove(PollUpdate(poll, fd, {}), fd)

Next == \E fd \in Fds : \/ \E e \in Events : Enable(fd, e)
                        \/ DisableWriting(fd) \/ DisableAll(fd)
                        \/ Remove(fd) \/ Destroy(fd)

Spec == Init /\ [][Next]_vars

----------------------------------------------------------------------------
TypeOK == /\ events \in [Fds -> SUBSET Events]
          /\ epoll \in EPollState
          /\ poll \in PollState

\* epoll_ctl is never asked to add what is there or to modify what is not,
\* whatever channels come and go on reused descriptors: that would abort the
\* server (EPollPoller::update).
NeverFatal == ~epoll.fatal

\* Each registered channel has one entry, at its index, also after removals
\* moved entries about: updateChannel and removeChannel would change the events
\* of another connection.
IndexIsPosition == \A fd \in Fds :
    IF fd \in poll.channels
    THEN /\ poll.index[fd] \in DOMAIN poll.pollfds
         /\ \A i \in DOMAIN poll.pollfds :
               Original(poll.pollfds[i]) = fd <=> i = poll.index[fd]
    ELSE /\ poll.index[fd] = kNew
         /\ \A i \in DOMAIN poll.pollfds : Original(poll.pollfds[i]) # fd

\* Both pollers tell a channel the same, whatever happens on its socket: what
\* it asked for, plus hangups and errors as long as it asks for anything.
SameReports == \A fd \in Fds, cond \in Conditions :
    LET expected == IF events[fd] = {} THEN {} ELSE KernelReports(cond, events[fd])
    IN  /\ EPollReports(epoll, fd, cond) = expected
        /\ PollReports(poll, fd, cond) = expected
=============================================================================
