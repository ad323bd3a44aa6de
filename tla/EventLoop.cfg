\* Two foreign threads and three functors: one may run while its own thread
\* queues another and a foreign thread a third.  A descriptor that holds two
\* writes keeps a token in the pipe after a read, and drops a third write.
SPECIFICATION FairSpec
CONSTANTS
    Callers = {t1, t2}
    Functors = {f1, f2, f3}
    WakeCapacity = 2
INVARIANTS NoLostWakeup
PROPERTIES FifoOnce QueuedRuns QuitStops
\* the loop may stop, and then so may its callers
CHECK_DEADLOCK FALSE
