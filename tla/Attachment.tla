----------------------------- MODULE Attachment -----------------------------
(***************************************************************************)
(* What CurlMulti promises about the easy handles added to it, with every  *)
(* call one atomic step: an easy is on one multi at a time and only while  *)
(* both are open; it leaves the multi before it is closed, and before the  *)
(* multi is.  EasyMulti, where every call is several steps interleaved     *)
(* with those of other threads and callbacks, is shown to implement it.    *)
(***************************************************************************)
CONSTANTS Easy, Multi, NULL

VARIABLES
    open,       \* the open easy handles, [Easy -> BOOLEAN]
    on,         \* the multi each easy is on, or NULL
    mopen       \* the open multi handles, [Multi -> BOOLEAN]

avars == <<open, on, mopen>>

AInit ==
    /\ open = [e \in Easy |-> TRUE]
    /\ on = [e \in Easy |-> NULL]
    /\ mopen = [m \in Multi |-> TRUE]

Attach(e, m) ==
    /\ open[e] /\ mopen[m] /\ on[e] = NULL
    /\ on' = [on EXCEPT ![e] = m]
    /\ UNCHANGED <<open, mopen>>

Detach(e) ==
    /\ on[e] # NULL
    /\ on' = [on EXCEPT ![e] = NULL]
    /\ UNCHANGED <<open, mopen>>

CloseEasy(e) ==
    /\ open[e] /\ on[e] = NULL
    /\ open' = [open EXCEPT ![e] = FALSE]
    /\ UNCHANGED <<on, mopen>>

CloseMulti(m) ==
    /\ mopen[m] /\ \A e \in Easy : on[e] # m
    /\ mopen' = [mopen EXCEPT ![m] = FALSE]
    /\ UNCHANGED <<open, on>>

ANext ==
    \/ \E e \in Easy : Detach(e) \/ CloseEasy(e) \/ \E m \in Multi : Attach(e, m)
    \/ \E m \in Multi : CloseMulti(m)

ASpec == AInit /\ [][ANext]_avars

=============================================================================
