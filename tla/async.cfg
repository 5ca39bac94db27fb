SPECIFICATION LiveSpec
CONSTANTS
    Curl = {c1, c2}
    Fut = {f1, f2}
    NULL = NULL
    close_handles = FALSE
    Uses = {}
CHECK_DEADLOCK FALSE
INVARIANTS
    SnapshotComplete
    NoOrphans
    ClosedIsQuiet
PROPERTIES
    Resolves
