\* Two I/O loops taken in turn, and one descriptor for two clients.
SPECIFICATION FairSpec
CONSTANTS
    Conns = {c1, c2}
    IoLoops <- TwoIoLoops
    MaxFd = 1
    ResponseLen = 1
PROPERTIES ClosedIsFreed ResponseCompletes NoStarvation
CHECK_DEADLOCK FALSE
