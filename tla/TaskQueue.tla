----------------------------- MODULE TaskQueue -----------------------------
(***************************************************************************)
(* What EventLoop::queueInLoop promises to its callers, without threads,   *)
(* polling or wakeups: a submitted task waits in one queue, tasks run one  *)
(* at a time in the order in which they were submitted, and none runs      *)
(* twice.  EventLoop.tla implements this module.                           *)
(***************************************************************************)
EXTENDS Sequences

CONSTANT Tasks

VARIABLES queue,        \* submitted, not yet finished, oldest first
          ran           \* history: finished tasks, in the order they finished

queueVars == <<queue, ran>>

\* A task is submitted at most once, so that "runs once" can be said of it.
Submitted(t) == \/ \E i \in DOMAIN queue : queue[i] = t
                \/ \E i \in DOMAIN ran : ran[i] = t

QueueInit == queue = <<>> /\ ran = <<>>

Submit(t) == /\ ~Submitted(t)
             /\ queue' = Append(queue, t)
             /\ UNCHANGED ran

Run == /\ queue # <<>>
       /\ ran' = Append(ran, Head(queue))
       /\ queue' = Tail(queue)

QueueNext == Run \/ \E t \in Tasks : Submit(t)

QueueSpec == QueueInit /\ [][QueueNext]_queueVars
=============================================================================
