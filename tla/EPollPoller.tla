---------------------------- MODULE EPollPoller ----------------------------
(***************************************************************************)
(* The poller of Linux (src/EPollPoller.cc) as functions on its state: the *)
(* channels' index_, the map channels_ and the kernel's epoll set.  A      *)
(* channel is named by its descriptor.                                     *)
(***************************************************************************)
EXTENDS Integers

CONSTANT Fds

Events == {"r", "w"}

\* What the kernel reports of a socket in condition `cond' that was registered
\* for the events `ev': readiness that was asked for, and hangups and errors.
Conditions == SUBSET {"in", "out", "hup", "err"}
KernelReports(cond, ev) ==
    {r \in cond : r \in {"hup", "err"} \/ (r = "in" /\ "r" \in ev)
                                       \/ (r = "out" /\ "w" \in ev)}

EPollState ==
    [index    : [Fds -> {"kNew", "kAdded", "kDeleted"}],
     channels : SUBSET Fds,                 \* the descriptors in channels_
     set      : SUBSET Fds,                 \* kernel: the epoll set
     mask     : [Fds -> SUBSET Events],     \* kernel: what each was added for
     fatal    : BOOLEAN]                    \* history: LOG_FATAL was reached

EPollEmpty == [index |-> [fd \in Fds |-> "kNew"], channels |-> {}, set |-> {},
               mask |-> [fd \in Fds |-> {}], fatal |-> FALSE]

\* update(): epoll_ctl refuses to add what is there and to modify what is not,
\* and then the process aborts; a deletion that fails is only logged.
CtlAdd(p, fd, ev) ==
    IF fd \in p.set THEN [p EXCEPT !.fatal = TRUE]
    ELSE [p EXCEPT !.set = @ \cup {fd}, !.mask[fd] = ev]
CtlMod(p, fd, ev) ==
    IF fd \notin p.set THEN [p EXCEPT !.fatal = TRUE] ELSE [p EXCEPT !.mask[fd] = ev]
CtlDel(p, fd) == [p EXCEPT !.set = @ \ {fd}, !.mask[fd] = {}]

\* MUTANT: a channel that was taken out is modified, not added again.
EPollUpdateNoReadd(p, fd, ev) ==
    IF p.index[fd] = "kNew"
    THEN CtlAdd([p EXCEPT !.index[fd] = "kAdded", !.channels = @ \cup {fd}], fd, ev)
    ELSE IF ev = {} THEN [CtlDel(p, fd) EXCEPT !.index[fd] = "kDeleted"]
    ELSE [CtlMod(p, fd, ev) EXCEPT !.index[fd] = "kAdded"]

\* updateChannel(): ev are the events the channel has set just now.
EPollUpdate(p, fd, ev) ==
    IF p.index[fd] # "kAdded"
    THEN CtlAdd([p EXCEPT !.index[fd] = "kAdded", !.channels = @ \cup {fd}], fd, ev)
    ELSE IF ev = {} THEN [CtlDel(p, fd) EXCEPT !.index[fd] = "kDeleted"]
    ELSE CtlMod(p, fd, ev)

\* removeChannel()
EPollRemove(p, fd) ==
    LET q == [p EXCEPT !.channels = @ \ {fd}, !.index[fd] = "kNew"]
    IN  IF p.index[fd] = "kAdded" THEN CtlDel(q, fd) ELSE q

\* poll(), fillActiveChannels(): the revents_ of channel fd, {} if it is not active.
EPollReports(p, fd, cond) == IF fd \in p.set THEN KernelReports(cond, p.mask[fd]) ELSE {}
=============================================================================
