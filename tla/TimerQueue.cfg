\* Three timers, one of which repeats each unit, set for the past or for two units
\* ahead; the wall clock is set once, and time ends after three units.
SPECIFICATION FairSpec
CONSTANTS
    Timers = {1, 2, 3}
    Interval <- OneRepeats
    Delays <- Ahead
    Never = Never
    MaxTime = 3
    MaxSet = 1
INVARIANTS Armed
PROPERTIES Promised Fires
CHECK_DEADLOCK FALSE
