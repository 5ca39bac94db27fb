------------------------------ MODULE Callbacks ------------------------------
(***************************************************************************)
(* What becomes of an exception that a callback raises, and when ws_send() *)
(* may be called (easycb.c, easyws.c, the callbacks of multi.c and mime.c, *)
(* util.c).                                                                *)
(*                                                                         *)
(* A method that may run callbacks opens a window: it releases the thread  *)
(* state, libcurl works, and a callback takes the thread state for the     *)
(* time it runs Python code, which may call methods again.  A thread is a  *)
(* stack of windows and callbacks.  An exception that a callback cannot    *)
(* tell libcurl about stays pending in the thread, through the rest of the *)
(* window, until the method that opened it tests for it.  The callbacks of *)
(* easies and multis do not run any Python code then; the data callbacks   *)
(* of a mime, which take the GIL in a way of their own, do.                *)
(*                                                                         *)
(* Which window may be opened inside which, and what happens to the slots  *)
(* when the links between easies and multis change, is the subject of      *)
(* EasyMulti; here the links stay as they are.                             *)
(***************************************************************************)
EXTENDS Naturals, Sequences

CONSTANTS
    Easy, Multi, Thread,
    NULL,
    Uses,       \* what the program does that the methods do not expect
    MaxDepth    \* bound: windows and callbacks on one stack

(***************************************************************************)
(*   "link"  a callback in the window of add_handle(), remove_handle(),    *)
(*           close() or a deallocation leaves an exception                 *)
(*   "mime"  libcurl calls data callbacks of a mime                        *)
(***************************************************************************)
ASSUME NullAssumption == NULL \notin Easy \cup Multi \cup Thread
ASSUME ParamAssumption ==
    /\ Easy \cap Multi = {}
    /\ Uses \subseteq {"link", "mime"}
    /\ MaxDepth \in Nat

VARIABLES
    on,         \* [Easy -> Multi or NULL]: CurlObject.multi_stack
    state,      \* [Easy and Multi -> Thread or NULL]: the saved thread state
    ws_write_cb_running, \* the easies with that flag
    stack,      \* [Thread -> Seq(Frame)]
    pending,    \* [Thread -> Exception]: the thread's error indicator
    told,       \* [Thread -> Answer]: what libcurl was told last
    raised      \* [Thread -> Exception]: how the last method ended that the
                \* running Python code has called

vars == <<on, state, ws_write_cb_running, stack, pending, told, raised>>

(* "error" is a subclass of Exception, "exit" is KeyboardInterrupt or      *)
(* SystemExit, "SystemError" what the interpreter makes of a method that   *)
(* returns a value and an exception.                                       *)
Exception == {"none", "error", "exit", "SystemError"}

(* "ignored": libcurl does not look at what this callback returns, or has  *)
(* another way to go on.                                                   *)
Answer == {"go", "stop", "ignored"}

(* A window of a method, or a callback: of is the object, saved the thread *)
(* state to be put back, prev the flag to be put back; of a mime callback, *)
(* whether an exception was pending when it began.                         *)
Frame == [at : {"window", "callback"},
          what : {"perform", "drive", "link", "dealloc", "pause", "ws_send",
                  "write", "mime", "other"},
          of : Easy \cup Multi, saved : Thread \cup {NULL}, prev : BOOLEAN]
Window(what, x, saved) ==
    [at |-> "window", what |-> what, of |-> x, saved |-> saved, prev |-> FALSE]
Callback(what, x, prev) ==
    [at |-> "callback", what |-> what, of |-> x, saved |-> NULL, prev |-> prev]

Init ==
    /\ on \in [Easy -> Multi \cup {NULL}]
    /\ state = [x \in Easy \cup Multi |-> NULL]
    /\ ws_write_cb_running = {}
    /\ stack = [t \in Thread |-> <<>>]
    /\ pending = [t \in Thread |-> "none"]
    /\ told = [t \in Thread |-> "go"]
    /\ raised = [t \in Thread |-> "none"]

Top(t) == stack[t][Len(stack[t])]
InWindow(t) == stack[t] # <<>> /\ Top(t).at = "window"
InPython(t) == ~InWindow(t)

(* The slot that a window of x uses, and the thread state in it.           *)
Slot(x) == IF x \in Multi \/ on[x] = NULL THEN x ELSE on[x]
GetState(x) == state[Slot(x)]

Push(t, f) ==
    /\ Len(stack[t]) < MaxDepth
    /\ stack' = [stack EXCEPT ![t] = Append(@, f)]
Pop(t) == stack' = [stack EXCEPT ![t] = SubSeq(@, 1, Len(@) - 1)]

-----------------------------------------------------------------------------
(* Windows.                                                                *)

(* PYCURL_BEGIN_ALLOW_THREADS, or its _EASY form with saved_state.         *)
Open(t, what, x) ==
    /\ InPython(t)
    /\ Push(t, Window(what, x, GetState(x)))
    /\ state' = [state EXCEPT ![Slot(x)] = t]
    /\ raised' = [raised EXCEPT ![t] = "none"]
    /\ UNCHANGED <<on, ws_write_cb_running, pending, told>>

(* perform(), send(), recv(), ws_recv() and ws_recv_into(), for an easy    *)
(* that is on no multi.                                                    *)
Perform(t, e) == on[e] = NULL /\ GetState(e) = NULL /\ Open(t, "perform", e)

(* perform(), socket_action() and socket_all() of a multi.                 *)
Drive(t, m) == GetState(m) = NULL /\ Open(t, "drive", m)

(* add_handle(), remove_handle() and close() of a multi, close() of an     *)
(* easy: no data arrives, but timers are set and sockets change.           *)
Link(t, x) == GetState(x) = NULL /\ Open(t, "link", x)

(* The deallocation of an easy or a multi, wherever a reference is dropped;*)
(* and the windows of a multi's close() that are followed by easy.close(). *)
Dealloc(t, x) ==
    /\ GetState(x) = NULL /\ (x \in Easy => on[x] = NULL)
    /\ Open(t, "dealloc", x)

(* pause() and unpause(): from the thread that drives, if any does.        *)
Pause(t, e) == GetState(e) \in {NULL, t} /\ Open(t, "pause", e)

(* bug: any thread may send while a write callback runs *)
MaySendAnyThread(t, e) == GetState(e) = NULL \/ e \in ws_write_cb_running

(* check_ws_curl_state                                                     *)
MaySend(t, e) ==
    \/ GetState(e) = NULL
    \/ e \in ws_write_cb_running /\ GetState(e) = t

(* ws_send() and ws_close()                                                *)
WsSend(t, e) == MaySend(t, e) /\ Open(t, "ws_send", e)

(* bug: the exception is not asked for *)
CheckPendingSignalOnly(t) ==
    /\ pending' = pending /\ told' = told
    /\ raised' = [raised EXCEPT ![t] = "none"]

(* check_pending_python_exception_or_signal: the method raises what is     *)
(* pending, or a signal handler does.                                      *)
CheckPending(t) ==
    /\ pending' = [pending EXCEPT ![t] = "none"]
    /\ told' = [told EXCEPT ![t] = "go"]
    /\ IF pending[t] # "none"
       THEN raised' = [raised EXCEPT ![t] = pending[t]]
       ELSE \E signal \in {"none", "error", "exit"} : raised' = [raised EXCEPT ![t] = signal]

(* The methods that do not ask return a value; with an exception pending   *)
(* the interpreter raises SystemError in its place.                        *)
Unchecked(t) ==
    /\ pending' = [pending EXCEPT ![t] = "none"]
    /\ told' = [told EXCEPT ![t] = "go"]
    /\ raised' = [raised EXCEPT ![t] = IF pending[t] = "none" THEN "none" ELSE "SystemError"]

(* A deallocation returns nothing: the code around it goes on.             *)
Unasked(t) == UNCHANGED <<pending, told, raised>>

(* Python code runs with an exception pending: the first call that it      *)
(* makes and that returns a value raises SystemError in its place.         *)
Notice(t) ==
    /\ InPython(t) /\ pending[t] # "none"
    /\ pending' = [pending EXCEPT ![t] = "none"]
    /\ raised' = [raised EXCEPT ![t] = "SystemError"]
    /\ UNCHANGED <<on, state, ws_write_cb_running, stack, told>>

Saved(f) == f.saved

Close(t) ==
    /\ InWindow(t)
    /\ Pop(t)
    /\ state' = [state EXCEPT ![Slot(Top(t).of)] = Saved(Top(t))]
    /\ CASE Top(t).what = "link" -> Unchecked(t)
         [] Top(t).what = "dealloc" -> Unasked(t)
         [] OTHER -> CheckPending(t)
    /\ UNCHANGED <<on, ws_write_cb_running>>

-----------------------------------------------------------------------------
(* Callbacks.  What the Python code ends with: a value that is "fine" or   *)
(* "wrong" (its type, or its range), or an exception.  What follows: the   *)
(* answer to libcurl, and the exception that is left pending.              *)
Result == {"fine", "wrong", "error", "exit"}
Ends(answer, Left) == {[answer |-> answer, left |-> x] : x \in Left}

(* print_callback_error_if_regular_exception                               *)
Printed(r) == IF r = "exit" THEN {"exit"} ELSE {"none"}

(* callback_return_value_to_int: a value that is no integer is reported on *)
(* stderr, where the report itself may fail; one that is too large leaves  *)
(* an OverflowError; an exception is left as it is.                        *)
ToInt(r) == IF r = "wrong" THEN {"none", "error", "exit"} ELSE {r}

Fine == Ends("go", {"none"}) \cup Ends("stop", {"none"})
Prints(r) == IF r = "fine" THEN Fine ELSE Ends("stop", Printed(r))
Passes(r) == IF r = "fine" THEN Fine ELSE Ends("stop", ToInt(r))

(* bug: the exception is told to libcurl as success *)
util_write_callbackGoes(r) == Ends("go", Printed(r))
util_write_callback(r) == Prints(r)
\* a fileno() that gives no integer leaves its error
opensocket_callback(r) == Prints(r) \cup (IF r = "wrong" THEN Ends("stop", {"error"}) ELSE {})
sockopt_cb(r) == Passes(r)
closesocket_callback(r) == Ends("ignored", IF r = "fine" THEN {"none"} ELSE ToInt(r))
ssh_key_cb(r) == Passes(r)
\* CANTSEEK, after which libcurl tries another way
seek_callback(r) == IF r = "fine" THEN Fine ELSE Ends("ignored", Printed(r))
read_callback(r) == Prints(r)
progress_callback(r) == Prints(r)
xferinfo_callback(r) == Prints(r)
debug_callback(r) == Ends("ignored", Printed(r))
ioctl_callback(r) == Prints(r)
prereq_callback(r) == Passes(r)
fnmatch_callback(r) == Passes(r)
resolver_start_callback(r) == IF r = "wrong" THEN Passes(r) ELSE Prints(r)
trailer_callback(r) == Prints(r)
hstswrite_callback(r) == IF r = "wrong" THEN Prints(r) \cup Passes(r) ELSE Prints(r)
hstsread_callback(r) == Prints(r)
\* no Python code: the CA certificates are loaded, or an error is printed
ssl_ctx_callback(r) == Fine
multi_socket_callback(r) == Prints(r)
multi_timer_callback(r) == Prints(r)
multi_notify_callback(r) == Ends("ignored", Printed(r))

EasyCallbacks(r) ==
    opensocket_callback(r) \cup sockopt_cb(r) \cup closesocket_callback(r)
        \cup ssh_key_cb(r) \cup seek_callback(r) \cup read_callback(r)
        \cup progress_callback(r) \cup xferinfo_callback(r) \cup debug_callback(r)
        \cup ioctl_callback(r) \cup prereq_callback(r) \cup fnmatch_callback(r)
        \cup resolver_start_callback(r) \cup trailer_callback(r)
        \cup hstswrite_callback(r) \cup hstsread_callback(r) \cup ssl_ctx_callback(r)
MultiCallbacks(r) ==
    multi_socket_callback(r) \cup multi_timer_callback(r) \cup multi_notify_callback(r)

(* A callback of a mime that runs with an exception pending ends as one    *)
(* that raised SystemError, or as its code does after catching that.       *)
curlmimepart_read_callback(r) == Prints(r)
curlmimepart_seek_callback(r) == Prints(r)
\* PyErr_WriteUnraisable drops whatever it is
curlmimepart_free_callback(r) == Ends("ignored", {"none"})
MimeCallbacks(r) ==
    curlmimepart_read_callback(r) \cup curlmimepart_seek_callback(r)
        \cup curlmimepart_free_callback(r)

Outcomes(f, r) ==
    CASE f.what = "write" -> util_write_callback(r)
      [] f.what = "mime" -> MimeCallbacks(r)
      [] OTHER -> IF f.of \in Easy THEN EasyCallbacks(r) ELSE MultiCallbacks(r)

(* The objects whose callbacks libcurl may call in a window.               *)
Reachable(f) ==
    IF f.of \in Multi THEN {f.of} \cup {e \in Easy : on[e] = f.of}
    ELSE {f.of} \cup ({on[f.of]} \ {NULL})

(* bug: the callback runs whatever is pending *)
MayEnterAnyway(t) == InWindow(t)

(* PYCURL_BEGIN_CALLBACK_COMMON: no Python code with an exception pending. *)
MayEnter(t) == InWindow(t) /\ pending[t] = "none"

Enter(t, x) ==
    /\ MayEnter(t) /\ x \in Reachable(Top(t))
    /\ \/ /\ x \in Easy /\ Top(t).what \notin {"link", "dealloc"}
          /\ Push(t, Callback("write", x, x \in ws_write_cb_running))
          /\ ws_write_cb_running' = ws_write_cb_running \cup {x}
       \/ /\ Push(t, Callback("other", x, FALSE))
          /\ UNCHANGED ws_write_cb_running
    /\ UNCHANGED <<on, state, pending, told, raised>>

(* The data callbacks of a mime take the thread state with                 *)
(* PyGILState_Ensure and do not look for an exception.                     *)
EnterMime(t, e) ==
    /\ "mime" \in Uses /\ InWindow(t) /\ e \in Reachable(Top(t))
    /\ Push(t, Callback("mime", e, pending[t] # "none"))
    /\ UNCHANGED <<on, state, ws_write_cb_running, pending, told, raised>>

(* A callback that may not enter answers with its default, an error.       *)
Skip(t) ==
    /\ InWindow(t) /\ pending[t] # "none"
    /\ \E answer \in {"stop", "ignored"} : told' = [told EXCEPT ![t] = answer]
    /\ UNCHANGED <<on, state, ws_write_cb_running, stack, pending, raised>>

(* bug: the flag is cleared, not put back *)
FlagAfterCleared(f) == IF f.what = "write" THEN ws_write_cb_running \ {f.of} ELSE ws_write_cb_running
FlagAfter(f) ==
    IF f.what = "write" /\ ~f.prev THEN ws_write_cb_running \ {f.of}
    ELSE ws_write_cb_running

(* The window a callback of t is in.                                       *)
Around(t) == stack[t][Len(stack[t]) - 1]

Return(t, r) ==
    /\ stack[t] # <<>> /\ Top(t).at = "callback"
    /\ Pop(t)
    /\ ws_write_cb_running' = FlagAfter(Top(t))
    /\ \E out \in Outcomes(Top(t), r) :
          /\ \/ out.left = "none" \/ "link" \in Uses
             \/ Around(t).what \notin {"link", "dealloc"}
          /\ told' = [told EXCEPT ![t] = out.answer]
          /\ pending' = [pending EXCEPT ![t] = out.left]
    /\ raised' = [raised EXCEPT ![t] = "none"]
    /\ UNCHANGED <<on, state>>

Next ==
    \/ \E t \in Thread, e \in Easy :
         Perform(t, e) \/ Pause(t, e) \/ WsSend(t, e) \/ EnterMime(t, e)
    \/ \E t \in Thread, m \in Multi : Drive(t, m)
    \/ \E t \in Thread, x \in Easy \cup Multi : Link(t, x) \/ Dealloc(t, x) \/ Enter(t, x)
    \/ \E t \in Thread, r \in Result : Return(t, r)
    \/ \E t \in Thread : Skip(t) \/ Close(t) \/ Notice(t)

Spec == Init /\ [][Next]_vars

-----------------------------------------------------------------------------
TypeOK ==
    /\ on \in [Easy -> Multi \cup {NULL}]
    /\ state \in [Easy \cup Multi -> Thread \cup {NULL}]
    /\ ws_write_cb_running \subseteq Easy
    /\ stack \in [Thread -> Seq(Frame)]
    /\ pending \in [Thread -> Exception]
    /\ told \in [Thread -> Answer]
    /\ raised \in [Thread -> Exception]

(* Python code never starts, or goes on after a method, with an exception  *)
(* pending, since its next call would turn it into SystemError             *)
(* (pycurl.h:353): only the data callbacks of a mime run that way.         *)
CleanPython ==
    \A t \in Thread : InPython(t) /\ pending[t] # "none" =>
        stack[t] # <<>> /\ Top(t).what = "mime"

(* libcurl is never told to go on by the callback that leaves an exception,*)
(* nor by one after it, as long as the exception is pending.               *)
StopsWhilePending == \A t \in Thread : pending[t] # "none" => told[t] # "go"

(* KeyboardInterrupt and SystemExit of a callback are raised by the method *)
(* whose window it ran in (callbacks.rst:49): not dropped, not replaced.   *)
ExitDelivered ==
    [][\A t \in Thread : pending[t] = "exit" /\ pending'[t] # "exit" => raised'[t] = "exit"]_vars

(* They are lost nowhere but in a data callback of a mime, if one runs     *)
(* before the method can raise them, and the calls that it makes.          *)
ExitKept ==
    [][\A t \in Thread : pending[t] = "exit" /\ pending'[t] # "exit" =>
         \/ raised'[t] = "exit"
         \/ \E i \in 1..Len(stack[t]) : stack[t][i].what = "mime" /\ stack[t][i].prev]_vars

(* The flag of an easy is set exactly while one of its write callbacks is  *)
(* on a stack, nested ones and failed ones included.                       *)
FlagMatches ==
    \A e \in Easy :
        e \in ws_write_cb_running <=>
            \E t \in Thread : \E i \in 1..Len(stack[t]) :
                stack[t][i].at = "callback" /\ stack[t][i].what = "write" /\ stack[t][i].of = e

(* A frame is sent while the easy is driven only from inside a write       *)
(* callback of that easy, on the thread that drives it.                    *)
SendsInWrite ==
    \A t \in Thread : \A i \in 1..Len(stack[t]) :
        LET f == stack[t][i]
        IN  f.what = "ws_send" /\ f.saved # NULL =>
                /\ f.saved = t
                /\ \E j \in 1..(i - 1) : stack[t][j] = Callback("write", f.of, stack[t][j].prev)

=============================================================================
