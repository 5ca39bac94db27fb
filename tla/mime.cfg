SPECIFICATION Spec
CONSTANTS
    Curl = {c1, c2, c3}
    Mime = {m1, m2}
    Part = {p1, p2, p3}
    Owner = {o1, o2}
    NULL = NULL
    Uses = {}
SYMMETRY Symmetry
CHECK_DEADLOCK FALSE
INVARIANTS
    CountIsExact
    FreeOnLast
    OpenIsLive
PROPERTIES
    RunningTreeKept
