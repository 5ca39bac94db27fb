SPECIFICATION Spec
CONSTANTS
    Easy = {e1, e2}
    Multi = {m1, m2}
    Thread = {t1, t2}
    NULL = NULL
    CloseHandles = {m1}
    Gaps = {}
    MaxDepth = 3
SYMMETRY Symmetry
CHECK_DEADLOCK FALSE
INVARIANTS
    SlotOwned
    SlotAsserts
    CallbacksReady
    ClosedIsDetached
    KeptAlive
    AttachAgrees
    MultiEmptyAtCleanup
PROPERTIES
    Atomic
