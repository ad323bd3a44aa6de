\* One client that sends two requests, cut anywhere, and one with one request of
\* every kind; the vector starts with one document.
SPECIFICATION Spec
CONSTANTS
    c1 = c1
    c2 = c2
    Conns = {c1, c2}
    Scripts <- MCScripts
    Seeds <- MCSeeds
INVARIANTS AnsweredOnce DoneAsAsked WholeIsServed LatestStored
PROPERTIES Answered
CHECK_DEADLOCK FALSE
