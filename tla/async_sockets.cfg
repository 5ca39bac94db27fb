SPECIFICATION Spec
CONSTANTS
    Fd = {d1, d2}
    State = {o1, o2, o3}
    NULL = NULL
    Uses = {}
CHECK_DEADLOCK FALSE
INVARIANTS
    WatchersFollow
    ClosedUnwatched
PROPERTIES
    OwnEvents
