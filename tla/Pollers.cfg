\* Descriptor 0 and three more: three entries move when a fourth is removed.
SPECIFICATION Spec
CONSTANT Fds = {0, 1, 2, 3}
INVARIANTS NeverFatal IndexIsPosition SameReports
