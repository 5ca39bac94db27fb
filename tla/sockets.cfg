SPECIFICATION Spec
CONSTANTS
    Socket = {s1, s2, s3}
    Obj = {o1, o2}
    NULL = NULL
    Uses = {}
INVARIANTS
    ArgAlive
    DyingIsSilent
PROPERTIES
    ChangesAgreed
