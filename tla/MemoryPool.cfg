\* Words of two bytes, pools of slots of one, two and three words, blocks of seven
\* words (one to three slots behind the header), and a size_t of 64 values, which
\* is no multiple of the largest slot.
SPECIFICATION Spec
CONSTANTS
    Threads = {t1, t2}
    NoThread = NoThread
    NumPools = 3
    Word = 2
    BlockSize = 14
    Heap = {4, 18}
    Wrap = 64
    Sizes = {3, 5, 7}
SYMMETRY Symmetry
INVARIANTS NoOverlap NoSlotLost
CHECK_DEADLOCK FALSE
