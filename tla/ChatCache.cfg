\* Three keys contend for the two nodes of a slice, a fourth has another slice.
\* Three accesses a node bring the average over its maximum, and MaxTotal leaves
\* room for many more, and for evictions between and after them.
SPECIFICATION ChatSpec
CONSTANTS
    k1 = k1
    k2 = k2
    k3 = k3
    k4 = k4
    Keys = {k1, k2, k3, k4}
    None = None
    Values = {v1, v2}
    Capacity = 2
    MaxAverage = 2
    MaxTotal = 9
    Threads = {t1, t2}
    SliceNum = 2
    CacheCapacity = 3
    SliceOf <- Hashes
    StubReply = v1
SYMMETRY Symmetry
INVARIANTS ChatTypeOK ListsAgree WithinCapacity CachedIsLast
PROPERTIES EvictsLeastUsed
\* chats stop at MaxTotal
CHECK_DEADLOCK FALSE
