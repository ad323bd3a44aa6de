\* A vector of one prependable and three initial bytes, two bytes of extrabuf and
\* six bytes in all: reads end short of the vector's end, at it, and beyond it,
\* and appends fit exactly, fit after a move, and make it grow.
SPECIFICATION Spec
CONSTANTS
    Bytes = {0, 1}
    Zero = 0
    CheapPrepend = 1
    InitialSize = 3
    ExtraSize = 2
    MaxBytes = 6
INVARIANTS TypeOK NothingLost
PROPERTIES GrowsOnlyIfNeeded
