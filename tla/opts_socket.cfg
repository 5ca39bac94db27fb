SPECIFICATION Spec
CONSTANTS
    Easy = {e1}
    Obj = {o1}
    Field = {"postfields", "httppost", "mimepost"}
    NULL = NULL
    Uses = {"live_socket"}
INVARIANTS
    CallbackFindsCallable
