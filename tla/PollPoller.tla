----------------------------- MODULE PollPoller -----------------------------
(***************************************************************************)
(* The poller of the other platforms (src/PollPoller.cc) as functions on   *)
(* its state: the vector pollfds_ handed to poll(2), where a channel's     *)
(* index_ is its position (from 1 here, kNew if it has none), and the map  *)
(* channels_.  Descriptors are the integers they are, because a disabled   *)
(* one is stored as -fd-1, which poll(2) ignores: it must be negative for  *)
(* descriptor 0, too, and it must be undone when an entry is moved.        *)
(***************************************************************************)
EXTENDS EPollPoller, Sequences

PollState ==
    [index    : [Fds -> Int],
     channels : SUBSET Fds,
     pollfds  : Seq([fd : Int, events : SUBSET Events])]

kNew == -1

PollEmpty == [index |-> [fd \in Fds |-> kNew], channels |-> {}, pollfds |-> <<>>]

\* MUTANT: the descriptor is negated.
IgnoredNegated(fd) == -fd

Ignored(fd) == -fd - 1

\* updateChannel(): a new channel goes to the end with the events it has, the
\* entry of another one is rewritten, ignored if the channel wants no event.
PollUpdate(p, fd, ev) ==
    IF p.index[fd] = kNew
    THEN [p EXCEPT !.pollfds = Append(@, [fd |-> fd, events |-> ev]),
                   !.index[fd] = Len(p.pollfds) + 1,
                   !.channels = @ \cup {fd}]
    ELSE [p EXCEPT !.pollfds[p.index[fd]] =
                      [fd |-> IF ev = {} THEN Ignored(fd) ELSE fd, events |-> ev]]

\* The descriptor an entry stands for, ignored or not.
Original(entry) == IF entry.fd < 0 THEN -entry.fd - 1 ELSE entry.fd

\* MUTANT: the channel of the moved entry keeps its index.
PollRemoveStale(p, fd) ==
    LET i    == p.index[fd]
        last == Len(p.pollfds)
        q    == [p EXCEPT !.channels = @ \ {fd}, !.index[fd] = kNew]
    IN  IF i \notin 1..last THEN q
        ELSE [q EXCEPT !.pollfds = SubSeq([@ EXCEPT ![i] = p.pollfds[last]], 1, last - 1)]

\* removeChannel(): the last entry takes the place of the removed one.
PollRemove(p, fd) ==
    LET i     == p.index[fd]
        last  == Len(p.pollfds)
        moved == Original(p.pollfds[last])
        index == IF i \in 1..(last - 1) THEN [p.index EXCEPT ![moved] = i] ELSE p.index
    IN  [index    |-> [index EXCEPT ![fd] = kNew],
         channels |-> p.channels \ {fd},
         pollfds  |-> IF i \in 1..last
                      THEN SubSeq([p.pollfds EXCEPT ![i] = p.pollfds[last]], 1, last - 1)
                      ELSE p.pollfds]

\* poll(), fillActiveChannels(): the revents_ channel fd gets, {} if none.  An
\* entry that stands for fd is reported if fd is in channels_.
PollReports(p, fd, cond) ==
    UNION {KernelReports(cond, p.pollfds[i].events) :
             i \in {j \in DOMAIN p.pollfds : p.pollfds[j].fd = fd /\ fd \in p.channels}}
=============================================================================
