SPECIFICATION Spec
CONSTANTS
    Curl = {c1, c2}
    Fut = {f1, f2}
    NULL = NULL
    close_handles = TRUE
    Uses = {"readd"}
SYMMETRY Symmetry
CHECK_DEADLOCK FALSE
INVARIANTS
    SnapshotComplete
