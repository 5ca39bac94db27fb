SPECIFICATION Spec
CONSTANTS
    Easy = {e1, e2}
    Multi = {m1}
    Thread = {t1, t2}
    NULL = NULL
    Uses = {"mime"}
    MaxDepth = 4
SYMMETRY Alike
CHECK_DEADLOCK FALSE
INVARIANTS
    CleanPython
    StopsWhilePending
    FlagMatches
    SendsInWrite
PROPERTIES
    ExitKept
