SPECIFICATION Spec
CONSTANTS
    Easy = {e1, e2}
    Obj = {o1, o2}
    Field = {"list", "postfields", "httppost", "mimepost"}
    NULL = NULL
    Uses = {}
SYMMETRY Alike
INVARIANTS
    KeptByOwn
    CallbackFindsCallable
    BodyIsSent
