SPECIFICATION Spec
CONSTANTS
    Curl = {c1, c2}
    Fut = {f1, f2}
    NULL = NULL
    close_handles = TRUE
    Uses = {"readd", "callback", "raise"}
SYMMETRY Symmetry
CHECK_DEADLOCK FALSE
INVARIANTS
    HandlesTracked
    NoneStranded
    MessagesHeard
PROPERTIES
    OwnOutcome
