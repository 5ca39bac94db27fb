----------------------------- MODULE MultiSockets -----------------------------
(***************************************************************************)
(* The sockets of a multi: what libcurl knows of them, the object that     *)
(* assign() makes libcurl hand to the socket callback, and the dict that   *)
(* keeps this object alive (multi.c: multi_socket_callback, setopt of      *)
(* SOCKETFUNCTION, assign, unassign, close, the destructor and tp_clear).  *)
(*                                                                         *)
(* libcurl keeps a borrowed pointer, socketp, beside each socket it knows. *)
(* It reads the pointer, calls multi_socket_callback with it, and only     *)
(* there is the GIL taken and a reference made.                            *)
(***************************************************************************)
EXTENDS Naturals

CONSTANTS
    Socket,
    Obj,        \* what the program assigns
    NULL,
    Uses        \* what the program does that the code is not made for

(* "other_thread": a thread calls assign() while another drives the multi. *)
ASSUME SocketsAssumption ==
    /\ NULL \notin Socket \cup Obj
    /\ Uses \subseteq {"other_thread"}

VARIABLES
    status,     \* "open", "closing" (in close()), "closed", "cleared" (by the
                \* collector), "dying" (in the destructor) or "gone"
    window,     \* the libcurl call that runs without the GIL
    s_cb,       \* the callable is there
    fn,         \* libcurl has the socket function
    known,      \* the sockets libcurl knows
    socketp,    \* [Socket -> Obj or NULL]: libcurl's pointers
    dict,       \* [Socket -> Obj or NULL]: socket_object_dict
    call        \* the socket callback that runs

vars == <<status, window, s_cb, fn, known, socketp, dict, call>>

Window == {"none", "drive", "detach", "cleanup"}
Stage == {"none", "libcurl", "python"}

NoCall == [at |-> "none", socket |-> NULL, arg |-> NULL, remove |-> FALSE]
Empty == [s \in Socket |-> NULL]

Init ==
    /\ status = "open" /\ window = "none"
    /\ s_cb = FALSE /\ fn = FALSE
    /\ known = {} /\ socketp = Empty /\ dict = Empty
    /\ call = NoCall

(* No call of libcurl runs.                                                *)
NotRunning == window = "none"
HasHandle == status \in {"open", "closing"}

-----------------------------------------------------------------------------
(* setopt.                                                                 *)

(* setopt(SOCKETFUNCTION, f): libcurl gets the function and the multi,     *)
(* then the callable replaces the old one; the function tests for none.    *)
SetSocketFunction ==
    /\ status = "open" /\ NotRunning
    /\ fn' = TRUE /\ s_cb' = TRUE
    /\ UNCHANGED <<status, window, known, socketp, dict, call>>

UnsetSocketFunction ==
    /\ status = "open" /\ NotRunning
    /\ fn' = FALSE /\ s_cb' = FALSE
    /\ UNCHANGED <<status, window, known, socketp, dict, call>>

-----------------------------------------------------------------------------
(* libcurl, in a call that drives transfers or ends them.                  *)

(* socket_action, socket_all, perform; add_handle and remove_handle; and   *)
(* the methods of an easy of the multi.                                    *)
Drive ==
    /\ status = "open" /\ NotRunning
    /\ window' = "drive"
    /\ UNCHANGED <<status, s_cb, fn, known, socketp, dict, call>>

EndDrive ==
    /\ window = "drive" /\ call = NoCall
    /\ window' = "none"
    /\ UNCHANGED <<status, s_cb, fn, known, socketp, dict, call>>

Calling(s, arg, remove) ==
    [at |-> "libcurl", socket |-> s, arg |-> arg, remove |-> remove]

(* A socket is new, with no pointer.                                       *)
Learn(s) ==
    /\ window = "drive" /\ call = NoCall /\ s \notin known
    /\ known' = known \cup {s}
    /\ socketp' = [socketp EXCEPT ![s] = NULL]
    /\ call' = IF fn THEN Calling(s, NULL, FALSE) ELSE NoCall
    /\ UNCHANGED <<status, window, s_cb, fn, dict>>

(* libcurl wants other events on a socket.                                 *)
Change(s) ==
    /\ window = "drive" /\ call = NoCall /\ s \in known /\ fn
    /\ call' = Calling(s, socketp[s], FALSE)
    /\ UNCHANGED <<status, window, s_cb, fn, known, socketp, dict>>

(* A socket goes: libcurl says so, and forgets it when it has been told.   *)
Remove(s) ==
    /\ window # "none" /\ call = NoCall /\ s \in known
    /\ IF fn
       THEN /\ call' = Calling(s, socketp[s], TRUE)
            /\ UNCHANGED known
       ELSE /\ known' = known \ {s}
            /\ UNCHANGED call
    /\ UNCHANGED <<status, window, s_cb, fn, socketp, dict>>

Returned ==
    /\ call' = NoCall
    /\ known' = IF call.remove THEN known \ {call.socket} ELSE known

(* multi_socket_callback has the GIL: with no callable it returns, else    *)
(* the tuple of arguments holds the object and Python is called.           *)
Enter ==
    /\ call.at = "libcurl"
    /\ IF s_cb
       THEN /\ call' = [call EXCEPT !.at = "python"]
            /\ UNCHANGED known
       ELSE Returned
    /\ UNCHANGED <<status, window, s_cb, fn, socketp, dict>>

Return ==
    /\ call.at = "python"
    /\ Returned
    /\ UNCHANGED <<status, window, s_cb, fn, socketp, dict>>

-----------------------------------------------------------------------------
(* assign() and unassign().                                                *)

(* The program runs in a socket callback, or libcurl does not run; another *)
(* thread runs at any time.                                                *)
Runs == NotRunning \/ call.at = "python" \/ "other_thread" \in Uses

(* curl_multi_assign() knows the socket; in curl_multi_cleanup() the       *)
(* handle is a bad one.                                                    *)
Accepts(s) == s \in known /\ window # "cleanup"

(* bug: the value that libcurl refused stays in the dict *)
RestoreNot(d, s) == d
(* libcurl refused: the dict d gets the previous value back, if any, or    *)
(* loses the new one.                                                      *)
Restore(d, s) == [d EXCEPT ![s] = dict[s]]

(* util_multi_assign, NULL for None: the dict first, then libcurl.  The    *)
(* old object is released when both agree.                                 *)
Assign(s, o) ==
    LET updated == [dict EXCEPT ![s] = o] IN
    /\ HasHandle /\ Runs
    /\ IF Accepts(s)
       THEN /\ dict' = updated
            /\ socketp' = [socketp EXCEPT ![s] = o]
       ELSE /\ dict' = Restore(updated, s)
            /\ UNCHANGED socketp
    /\ UNCHANGED <<status, window, s_cb, fn, known, call>>

-----------------------------------------------------------------------------
(* The end.                                                                *)

(* bug: the objects go before libcurl has told of the last sockets *)
CloseClearsFirst ==
    /\ status = "open" /\ NotRunning
    /\ status' = "closing" /\ window' = "detach"
    /\ dict' = Empty
    /\ UNCHANGED <<s_cb, fn, known, socketp, call>>

(* close(): the easies are removed from libcurl.                           *)
Close ==
    /\ status = "open" /\ NotRunning
    /\ status' = "closing" /\ window' = "detach"
    /\ UNCHANGED <<s_cb, fn, known, socketp, dict, call>>

(* With close_handles the close() of an easy may raise, and then close()   *)
(* of the multi does: what is left stays as it is, the multi is open.      *)
CloseFails ==
    /\ status = "closing" /\ window = "detach" /\ call = NoCall
    /\ status' = "open" /\ window' = "none"
    /\ UNCHANGED <<s_cb, fn, known, socketp, dict, call>>

(* bug: the callable goes with the other references, after the easies *)
DeallocLate ==
    /\ status \in {"open", "closed", "cleared"} /\ NotRunning
    /\ status' = "dying" /\ window' = "detach"
    /\ UNCHANGED <<s_cb, fn, known, socketp, dict, call>>

(* The destructor clears s_cb, so that its last callbacks do not run       *)
(* Python, and removes the easies.  A closed multi has no handle.          *)
Dealloc ==
    /\ status \in {"open", "closed", "cleared"} /\ NotRunning
    /\ status' = "dying" /\ window' = "detach"
    /\ s_cb' = FALSE
    /\ UNCHANGED <<fn, known, socketp, dict, call>>

(* The easies are out.  The destructor drops its references now; then the  *)
(* multi and its connections are cleaned up.                               *)
EndDetach ==
    /\ window = "detach" /\ call = NoCall
    /\ window' = "cleanup"
    /\ dict' = IF status = "dying" THEN Empty ELSE dict
    /\ s_cb' = IF status = "dying" THEN FALSE ELSE s_cb
    /\ UNCHANGED <<status, fn, known, socketp, call>>

EndCleanup ==
    /\ window = "cleanup" /\ call = NoCall /\ known = {}
    /\ window' = "none"
    /\ status' = IF status = "dying" THEN "gone" ELSE "closed"
    /\ dict' = Empty
    /\ UNCHANGED <<s_cb, fn, known, socketp, call>>

(* do_multi_clear, of a multi in a cycle that nothing refers to.           *)
Clear ==
    /\ status \in {"open", "closed"} /\ NotRunning
    /\ status' = "cleared"
    /\ s_cb' = FALSE /\ dict' = Empty
    /\ UNCHANGED <<window, fn, known, socketp, call>>

Done == status = "gone" /\ UNCHANGED vars

Next ==
    \/ SetSocketFunction \/ UnsetSocketFunction
    \/ Drive \/ EndDrive
    \/ \E s \in Socket : Learn(s) \/ Change(s) \/ Remove(s)
    \/ Enter \/ Return
    \/ \E s \in Socket, o \in Obj \cup {NULL} : Assign(s, o)
    \/ Close \/ CloseFails \/ Dealloc \/ EndDetach \/ EndCleanup \/ Clear
    \/ Done

Spec == Init /\ [][Next]_vars

-----------------------------------------------------------------------------
TypeOK ==
    /\ status \in {"open", "closing", "closed", "cleared", "dying", "gone"}
    /\ window \in Window
    /\ s_cb \in BOOLEAN /\ fn \in BOOLEAN
    /\ known \in SUBSET Socket
    /\ socketp \in [Socket -> Obj \cup {NULL}]
    /\ dict \in [Socket -> Obj \cup {NULL}]
    /\ call \in [at : Stage, socket : Socket \cup {NULL},
                 arg : Obj \cup {NULL}, remove : BOOLEAN]

(* What multi_socket_callback is about to put in its tuple is alive: the   *)
(* dict holds the object until the callback has taken the GIL, in the      *)
(* last callbacks of close() and of the destructor too (multi.c:331).      *)
ArgAlive ==
    call.at = "libcurl" /\ call.arg # NULL /\ s_cb
    => dict[call.socket] = call.arg

(* While the multi has a handle, libcurl's pointer is the object of the    *)
(* dict: assign(), a refused assign() and close() leave no pointer to an   *)
(* object that was released (multi.c:866-893).                             *)
PointerKept ==
    HasHandle => \A s \in known : socketp[s] # NULL => dict[s] = socketp[s]

Agreed ==
    \A s \in Socket :
        dict'[s] # dict[s] /\ status' \in {"open", "closing"}
        => s \in known /\ socketp'[s] = dict'[s]

(* The objects of an open multi change only with libcurl's agreement: an   *)
(* assign() that fails changes nothing, whatever was assigned before       *)
(* (multi.c:879-893), and nothing is released while callbacks come.        *)
ChangesAgreed == [][Agreed]_vars

(* A multi in its destructor is never handed to Python: the callbacks that *)
(* its removal of easies and its cleanup make find no callable             *)
(* (multi.c:218).                                                          *)
DyingIsSilent == status \in {"dying", "gone"} => call.at # "python"

(* A closed multi holds no object, also when its last callbacks called     *)
(* assign() (multi.c:244).                                                 *)
ClosedHoldsNothing == status \in {"closed", "gone"} => dict = Empty
=============================================================================
