SPECIFICATION LiveSpec
CONSTANTS
    Easy = {e1, e2, e3}
    Share = {s1}
    Thread = {t1, t2}
    Kind = {k1}
    NULL = NULL
    Uses = {}
CHECK_DEADLOCK FALSE
INVARIANTS
    AttachedAgrees
    ClosedIsUnused
PROPERTIES
    RunningKeepsShare
    LockReturned
