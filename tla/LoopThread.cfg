\* Three I/O threads, as main() asks for.
SPECIFICATION FairSpec
CONSTANT NumThreads = 3
INVARIANTS HandedOutLives OutlivesThread
PROPERTIES StartReturns JoinReturns
\* the pool is destroyed in the end
CHECK_DEADLOCK FALSE
