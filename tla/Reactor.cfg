\* Two connections on one I/O loop beside the base loop; a response of two units
\* and send buffers that take none, one or both of them.
SPECIFICATION Spec
CONSTANTS
    Conns = {c1, c2}
    IoLoops <- OneIoLoop
    MaxFd = 2
    ResponseLen = 2
SYMMETRY Symmetry
INVARIANTS NoDanglingChannel RegisteredServed
PROPERTIES Lifecycle
\* clients stop when they have closed
CHECK_DEADLOCK FALSE
