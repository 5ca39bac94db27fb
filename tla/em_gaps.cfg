SPECIFICATION Spec
CONSTANTS
    Easy = {e1, e2}
    Multi = {m1, m2}
    Thread = {t1}
    NULL = NULL
    CloseHandles = {m1}
    Gaps = {"add", "close", "io"}
    MaxDepth = 4
SYMMETRY Symmetry
CHECK_DEADLOCK FALSE
INVARIANTS
    SlotOwned
