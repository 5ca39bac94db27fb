------------------------------ MODULE EasyMulti ------------------------------
(***************************************************************************)
(* Curl easy handles, CurlMulti handles and the Python threads that use    *)
(* them (easy.c, easyperform.c, multi.c, threadsupport.c).                 *)
(*                                                                         *)
(* Every libcurl call that may run Python callbacks releases the GIL       *)
(* between PYCURL_BEGIN_ALLOW_THREADS and PYCURL_END_ALLOW_THREADS.  BEGIN *)
(* stores the thread state in a slot (CurlObject.state or                  *)
(* CurlMultiObject.state), a callback enters Python through that slot, and *)
(* END takes the thread state back out of it.  The same slot is the "is    *)
(* running" flag that the methods test before they proceed.  A slot names  *)
(* no owner and is not a lock: everything depends on the checks made       *)
(* before each BEGIN.                                                      *)
(*                                                                         *)
(* A thread is a stack of frames, one per open window.  The code between   *)
(* two windows runs under the GIL, so it is one atomic step.  A frame is   *)
(* at "lib" while its thread is inside libcurl, at "py" while libcurl has  *)
(* called back into Python, from where any further call can be made.       *)
(***************************************************************************)
EXTENDS Naturals, Sequences, SequencesExt

CONSTANTS
    Easy,           \* Curl objects
    Multi,          \* CurlMulti objects
    Thread,         \* Python threads; also stands for their PyThreadState
    NULL,           \* the C null pointer
    CloseHandles,   \* the multis constructed with close_handles=True
    Gaps,           \* call patterns no check refuses that the program uses
    MaxDepth        \* bound on nested calls made from callbacks

(***************************************************************************)
(* What the checks do not refuse and doc/thread-safety.rst puts under      *)
(* "Misuse PycURL cannot detect", or nobody documented:                    *)
(*   "add"   an easy handle is used while add_handle() of it is under way  *)
(*   "close" a multi is used while its close() is closing its easies       *)
(*   "io"    a multi is used while one of its easies is in its own         *)
(*           perform/send/recv                                             *)
(*   "drop"  the last reference to a multi goes while close() or pause()   *)
(*           of one of its easies is inside libcurl                        *)
(***************************************************************************)
GapKinds == {"add", "close", "io", "drop"}

ASSUME NullAssumption == NULL \notin Easy \cup Multi \cup Thread
ASSUME ParamAssumption ==
    CloseHandles \subseteq Multi /\ Gaps \subseteq GapKinds /\ MaxDepth \in Nat

VARIABLES
    handle,         \* [Easy -> BOOLEAN]: CurlObject.handle # NULL
    state,          \* [Easy -> Thread or NULL]: CurlObject.state
    multi_stack,    \* [Easy -> Multi or NULL]: CurlObject.multi_stack
    multi_handle,   \* [Multi -> BOOLEAN]: CurlMultiObject.multi_handle # NULL
    mstate,         \* [Multi -> Thread or NULL]: CurlMultiObject.state
    refs,           \* [Multi -> SUBSET Easy]: easy_object_refs
    alive,          \* [Multi -> BOOLEAN]: the program holds a reference
    in_multi,       \* [Easy -> Multi or NULL]: libcurl's own attachment
    stack           \* [Thread -> Seq(Frame)]: the open windows

slots == <<state, mstate>>
life == <<handle, multi_handle, alive>>
links == <<multi_stack, refs, in_multi>>
vars == <<handle, state, multi_stack, multi_handle, mstate, refs, alive,
          in_multi, stack>>

EasyOps == {"io", "cleanup", "pause", "detach"}
MultiOps == {"drive", "add", "undo", "remove", "mloop", "mdetach", "mcleanup"}

\* The fields of a frame that its operation uses are never NULL.
Frame == {f \in
         [op : EasyOps \cup MultiOps,
          e : Easy \cup {NULL}, m : Multi \cup {NULL}, at : {"lib", "py"},
          ok : BOOLEAN,              \* the libcurl result, or close_handles
          saved : Thread \cup {NULL}, \* saved_state of pause
          todo : SUBSET Easy] :       \* what is left of close()'s snapshot
    /\ f.op \in EasyOps \cup {"add", "undo", "remove", "mdetach"} => f.e # NULL
    /\ f.op \in MultiOps \cup {"detach"} => f.m # NULL}

Window(op, e, m, ok, todo) ==
    [op |-> op, e |-> e, m |-> m, at |-> "lib", ok |-> ok, saved |-> NULL,
     todo |-> todo]

Init ==
    /\ handle = [e \in Easy |-> TRUE]
    /\ state = [e \in Easy |-> NULL]
    /\ multi_stack = [e \in Easy |-> NULL]
    /\ multi_handle = [m \in Multi |-> TRUE]
    /\ mstate = [m \in Multi |-> NULL]
    /\ refs = [m \in Multi |-> {}]
    /\ alive = [m \in Multi |-> TRUE]
    /\ in_multi = [e \in Easy |-> NULL]
    /\ stack = [t \in Thread |-> <<>>]

-----------------------------------------------------------------------------
(* Slots and checks *)

Push(t, f) == stack' = [stack EXCEPT ![t] = Append(@, f)]
Pop(t) == stack' = [stack EXCEPT ![t] = Front(@)]
Replace(t, f) == stack' = [stack EXCEPT ![t] = Append(Front(@), f)]

InFrame(t, op) == stack[t] # <<>> /\ Last(stack[t]).op = op

\* Only close() of a multi ("mloop") computes between two windows of its own;
\* its thread holds the GIL then and nobody else runs Python or leaves libcurl.
HasGIL(t) == \A u \in Thread \ {t} : ~InFrame(u, "mloop")

\* libcurl returns from the innermost window of t, and END takes the GIL
Returning(t, op) ==
    InFrame(t, op) /\ Last(stack[t]).at = "lib" /\ HasGIL(t)

\* pycurl_get_thread_state: the value callbacks of e would run under
ThreadState(e) ==
    IF state[e] # NULL THEN state[e]
    ELSE IF multi_stack[e] # NULL THEN mstate[multi_stack[e]] ELSE NULL

\* PYCURL_BEGIN_ALLOW_THREADS on an easy, on a multi, and the _EASY form
\* that prefers the slot of the multi the easy is on; END is the same with
\* NULL, and reads multi_stack again
SetEasy(e, v) == state' = [state EXCEPT ![e] = v] /\ UNCHANGED mstate
SetMulti(m, v) == mstate' = [mstate EXCEPT ![m] = v] /\ UNCHANGED state
SetSlot(e, v) == IF multi_stack[e] = NULL THEN SetEasy(e, v)
                                          ELSE SetMulti(multi_stack[e], v)

\* Python code of thread t is about to make a call
CanCall(t) ==
    /\ HasGIL(t) /\ Len(stack[t]) < MaxDepth
    /\ stack[t] # <<>> => Last(stack[t]).at = "py"

\* The patterns of GapKinds, kept out unless Gaps has them
Allow(gap, pattern) == gap \in Gaps \/ ~pattern

Adding(e) == \E t \in Thread : \E i \in DOMAIN stack[t] :
    stack[t][i].op \in {"add", "undo"} /\ stack[t][i].e = e
Closes(t, m) == \E i \in DOMAIN stack[t] :
    stack[t][i].op \in {"mloop", "mdetach", "mcleanup"} /\ stack[t][i].m = m
ClosedByOther(t, m) == \E u \in Thread \ {t} : Closes(u, m)
Held(m) == \E t \in Thread : \E i \in DOMAIN stack[t] :
    stack[t][i].op \in MultiOps /\ stack[t][i].m = m
Borrowed(m) == \E t \in Thread : \E i \in DOMAIN stack[t] :
    stack[t][i].op \in {"pause", "detach"} /\ multi_stack[stack[t][i].e] = m
DirectIO(m) == \E e \in Easy : multi_stack[e] = m /\ state[e] # NULL

\* thread t may start a call on e, or on m, under the discipline
MayUseEasy(t, e) ==
    /\ Allow("add", Adding(e))
    /\ multi_stack[e] # NULL =>
         Allow("close", ClosedByOther(t, multi_stack[e]))
MayUseMulti(t, m) == /\ Allow("close", ClosedByOther(t, m))
                     /\ Allow("io", DirectIO(m))
\* the same for a call that uses whichever slot e has
MayUseSlot(t, e) == /\ MayUseEasy(t, e)
                    /\ multi_stack[e] # NULL => MayUseMulti(t, multi_stack[e])

-----------------------------------------------------------------------------
(* Callbacks *)

\* the slots of the objects libcurl may call back for inside a window
CallbackSlots(f) ==
    CASE f.op \in {"io", "cleanup"} -> {ThreadState(f.e)}
      [] f.op = "drive" -> {mstate[f.m]} \cup
            {ThreadState(e) : e \in {x \in Easy : in_multi[x] = f.m}}
      [] f.op \in {"add", "undo", "mcleanup"} -> {mstate[f.m]}
      [] f.op \in {"remove", "detach", "mdetach"} ->
            {mstate[f.m], ThreadState(f.e)}
      [] f.op = "pause" -> {ThreadState(f.e)} \cup
            (IF multi_stack[f.e] = NULL THEN {} ELSE {mstate[multi_stack[f.e]]})
      [] OTHER -> {}

\* PYCURL_BEGIN_CALLBACK: a NULL slot means the callback is skipped
EnterCallback(t) ==
    /\ HasGIL(t) /\ stack[t] # <<>> /\ Last(stack[t]).at = "lib"
    /\ \E v \in CallbackSlots(Last(stack[t])) : v # NULL
    /\ Replace(t, [Last(stack[t]) EXCEPT !.at = "py"])
    /\ UNCHANGED <<slots, life, links>>

\* PYCURL_END_CALLBACK
LeaveCallback(t) ==
    /\ HasGIL(t) /\ stack[t] # <<>> /\ Last(stack[t]).at = "py"
    /\ Replace(t, [Last(stack[t]) EXCEPT !.at = "lib"])
    /\ UNCHANGED <<slots, life, links>>

-----------------------------------------------------------------------------
(* Calls on one easy handle *)

\* perform(), send(), recv(), recv_into(), ws_recv(), ws_recv_into()
IO(t, e) ==
    /\ CanCall(t) /\ MayUseEasy(t, e)
    /\ handle[e] /\ ThreadState(e) = NULL
    /\ SetEasy(e, t)
    /\ Push(t, Window("io", e, NULL, TRUE, {}))
    /\ UNCHANGED <<life, links>>

IOEnd(t) ==
    /\ Returning(t, "io")
    /\ SetEasy(Last(stack[t]).e, NULL)
    /\ Pop(t)
    /\ UNCHANGED <<life, links>>

\* pause() and unpause(): allowed inside the thread's own callbacks.  The
\* window of ws_send() and ws_close() is the same, under a narrower check (the
\* thread must be in the write callback).
Pause(t, e) ==
    /\ CanCall(t) /\ MayUseSlot(t, e)
    /\ handle[e] /\ ThreadState(e) \in {NULL, t}
    /\ SetSlot(e, t)
    /\ Push(t, [Window("pause", e, NULL, TRUE, {}) EXCEPT !.saved =
            IF multi_stack[e] # NULL THEN mstate[multi_stack[e]] ELSE state[e]])
    /\ UNCHANGED <<life, links>>

\* bug: pause() leaves the slot as END left it
PauseEndForgets(t) ==
    /\ Returning(t, "pause")
    /\ SetSlot(Last(stack[t]).e, NULL)
    /\ Pop(t)
    /\ UNCHANGED <<life, links>>

\* END_EASY and the restoration of saved_state
PauseEnd(t) ==
    /\ Returning(t, "pause")
    /\ LET f == Last(stack[t]) IN SetSlot(f.e, f.saved)
    /\ Pop(t)
    /\ UNCHANGED <<life, links>>

\* util_curl_close on an easy that is on no open multi: drop multi_stack
\* before the curl_easy_cleanup window, which also ends libcurl's attachment
ToCleanup(e) ==
    /\ multi_stack' = [multi_stack EXCEPT ![e] = NULL]
    /\ in_multi' = [in_multi EXCEPT ![e] = NULL]

Close(t, e) ==
    /\ CanCall(t) /\ MayUseEasy(t, e)
    /\ ThreadState(e) = NULL /\ handle[e]
    /\ multi_stack[e] # NULL => ~multi_handle[multi_stack[e]]
    /\ SetEasy(e, t)
    /\ ToCleanup(e)
    /\ Push(t, Window("cleanup", e, NULL, TRUE, {}))
    /\ UNCHANGED <<life, refs>>

\* util_easy_detach_from_multi: curl_multi_remove_handle under the multi's slot
CloseAttached(t, e) ==
    /\ CanCall(t) /\ MayUseSlot(t, e)
    /\ ThreadState(e) = NULL /\ handle[e]
    /\ multi_stack[e] # NULL /\ multi_handle[multi_stack[e]]
    /\ SetMulti(multi_stack[e], t)
    /\ in_multi' = [in_multi EXCEPT ![e] = NULL]
    /\ Push(t, Window("detach", e, multi_stack[e], TRUE, {}))
    /\ UNCHANGED <<life, multi_stack, refs>>

\* bug: the multi is not forgotten after the detachment
DetachEndKeepsMulti(t) ==
    /\ Returning(t, "detach")
    /\ LET f == Last(stack[t]) IN
         /\ state' = [state EXCEPT ![f.e] = t]
         /\ mstate' = [mstate EXCEPT ![f.m] = NULL]
         /\ refs' = [refs EXCEPT ![f.m] = @ \ {f.e}]
         /\ Replace(t, Window("cleanup", f.e, NULL, TRUE, {}))
    /\ UNCHANGED <<life, multi_stack, in_multi>>

\* END_EASY, the discard from the multi, then curl_easy_cleanup's window
DetachEnd(t) ==
    /\ Returning(t, "detach")
    /\ LET f == Last(stack[t]) IN
         /\ state' = [state EXCEPT ![f.e] = t]
         /\ mstate' = IF multi_stack[f.e] = NULL THEN mstate
                      ELSE [mstate EXCEPT ![multi_stack[f.e]] = NULL]
         /\ refs' = [refs EXCEPT ![f.m] = @ \ {f.e}]
         /\ ToCleanup(f.e)
         /\ Replace(t, Window("cleanup", f.e, NULL, TRUE, {}))
    /\ UNCHANGED life

CleanupEnd(t) ==
    /\ Returning(t, "cleanup")
    /\ LET f == Last(stack[t]) IN
         /\ SetEasy(f.e, NULL)
         /\ handle' = [handle EXCEPT ![f.e] = FALSE]
    /\ Pop(t)
    /\ UNCHANGED <<multi_handle, alive, links>>

-----------------------------------------------------------------------------
(* Calls on a multi handle *)

\* perform(), socket_action(), socket_all()
Drive(t, m) ==
    /\ CanCall(t) /\ MayUseMulti(t, m)
    /\ alive[m] /\ multi_handle[m] /\ mstate[m] = NULL
    /\ SetMulti(m, t)
    /\ Push(t, Window("drive", NULL, m, TRUE, {}))
    /\ UNCHANGED <<life, links>>

DriveEnd(t) ==
    /\ Returning(t, "drive")
    /\ SetMulti(Last(stack[t]).m, NULL)
    /\ Pop(t)
    /\ UNCHANGED <<life, links>>

\* check_multi_add_remove
MayAddRemove(t, m, e) ==
    /\ CanCall(t) /\ MayUseMulti(t, m)
    /\ alive[m] /\ multi_handle[m] /\ mstate[m] = NULL
    /\ state[e] = NULL
    /\ multi_stack[e] \in {NULL, m}

\* add_handle: the reference first, then curl_multi_add_handle, which
\* refuses an easy that is on a multi and may fail by itself; multi_stack is
\* only set after the window
AddHandle(t, m, e) ==
    /\ MayAddRemove(t, m, e)
    /\ MayUseEasy(t, e) /\ Allow("close", Closes(t, m))
    /\ handle[e] /\ multi_stack[e] # m
    /\ refs' = [refs EXCEPT ![m] = @ \cup {e}]
    /\ SetMulti(m, t)
    /\ \E ok \in BOOLEAN :
         /\ ok => in_multi[e] = NULL
         /\ in_multi' = IF ok THEN [in_multi EXCEPT ![e] = m] ELSE in_multi
         /\ Push(t, Window("add", e, m, ok, {}))
    /\ UNCHANGED <<life, multi_stack>>

AddEnd(t) ==
    /\ Returning(t, "add") /\ Last(stack[t]).ok
    /\ LET f == Last(stack[t]) IN
         /\ SetMulti(f.m, NULL)
         /\ multi_stack' = [multi_stack EXCEPT ![f.e] = f.m]
    /\ Pop(t)
    /\ UNCHANGED <<life, refs, in_multi>>

AddRefused(t) ==
    /\ Returning(t, "add") /\ ~Last(stack[t]).ok
    /\ LET f == Last(stack[t]) IN
         /\ SetMulti(f.m, NULL)
         /\ refs' = [refs EXCEPT ![f.m] = @ \ {f.e}]
    /\ Pop(t)
    /\ UNCHANGED <<life, multi_stack, in_multi>>

\* easy_set_multi_ref fails: a second window takes the handle out again
AddUndo(t) ==
    /\ Returning(t, "add") /\ Last(stack[t]).ok
    /\ LET f == Last(stack[t]) IN
         /\ SetMulti(f.m, t)
         /\ in_multi' = [in_multi EXCEPT ![f.e] = NULL]
         /\ Replace(t, Window("undo", f.e, f.m, FALSE, {}))
    /\ UNCHANGED <<life, multi_stack, refs>>

AddUndoEnd(t) ==
    /\ Returning(t, "undo")
    /\ LET f == Last(stack[t]) IN
         /\ SetMulti(f.m, NULL)
         /\ refs' = [refs EXCEPT ![f.m] = @ \ {f.e}]
    /\ Pop(t)
    /\ UNCHANGED <<life, multi_stack, in_multi>>

\* remove_handle of a closed easy only forgets the reference
RemoveClosed(t, m, e) ==
    /\ MayAddRemove(t, m, e)
    /\ ~handle[e] /\ e \in refs[m]
    /\ refs' = [refs EXCEPT ![m] = @ \ {e}]
    /\ UNCHANGED <<slots, life, multi_stack, in_multi, stack>>

RemoveHandle(t, m, e) ==
    /\ MayAddRemove(t, m, e)
    /\ handle[e] /\ multi_stack[e] = m
    /\ SetMulti(m, t)
    /\ \E ok \in BOOLEAN :
         /\ in_multi' = IF ok THEN [in_multi EXCEPT ![e] = NULL] ELSE in_multi
         /\ Push(t, Window("remove", e, m, ok, {}))
    /\ UNCHANGED <<life, multi_stack, refs>>

\* bug: the result of curl_multi_remove_handle is ignored
RemoveEndAlways(t) ==
    /\ Returning(t, "remove")
    /\ LET f == Last(stack[t]) IN
         /\ SetMulti(f.m, NULL)
         /\ refs' = [refs EXCEPT ![f.m] = @ \ {f.e}]
         /\ multi_stack' = [multi_stack EXCEPT ![f.e] = NULL]
    /\ Pop(t)
    /\ UNCHANGED <<life, in_multi>>

\* on failure the easy stays on the multi
RemoveEnd(t) ==
    /\ Returning(t, "remove")
    /\ LET f == Last(stack[t]) IN
         /\ SetMulti(f.m, NULL)
         /\ refs' = IF f.ok THEN [refs EXCEPT ![f.m] = @ \ {f.e}] ELSE refs
         /\ multi_stack' = IF f.ok /\ multi_stack[f.e] = f.m
                           THEN [multi_stack EXCEPT ![f.e] = NULL]
                           ELSE multi_stack
    /\ Pop(t)
    /\ UNCHANGED <<life, in_multi>>

-----------------------------------------------------------------------------
(* close() of a multi, and its deallocation.  The "mloop" frame is          *)
(* util_multi_detach_easies: todo is the rest of the snapshot, e the easy   *)
(* to close next, ok whether the easies are closed.                         *)

CloseMulti(t, m) ==
    /\ CanCall(t) /\ MayUseMulti(t, m)
    /\ alive[m] /\ multi_handle[m] /\ mstate[m] = NULL
    /\ Push(t, Window("mloop", NULL, m, m \in CloseHandles, refs[m]))
    /\ UNCHANGED <<slots, life, links>>

\* do_multi_dealloc: the last reference goes.  No check is made; methods on
\* the stack hold a reference to their multi, pause and close of an easy
\* only borrow it.
DropMulti(t, m) ==
    /\ CanCall(t) /\ Allow("io", DirectIO(m)) /\ Allow("drop", Borrowed(m))
    /\ alive[m] /\ ~Held(m)
    /\ alive' = [alive EXCEPT ![m] = FALSE]
    /\ Push(t, Window("mloop", NULL, m, FALSE, refs[m]))
    /\ UNCHANGED <<slots, handle, multi_handle, links>>

Looping(t) == InFrame(t, "mloop")

\* an easy that left the multi since the snapshot
LoopSkip(t) ==
    /\ Looping(t) /\ Last(stack[t]).e = NULL
    /\ LET f == Last(stack[t]) IN \E e \in f.todo :
         /\ multi_stack[e] # f.m
         /\ Replace(t, [f EXCEPT !.todo = @ \ {e}])
    /\ UNCHANGED <<slots, life, links>>

LoopDetach(t) ==
    /\ Looping(t) /\ Last(stack[t]).e = NULL
    /\ LET f == Last(stack[t]) IN \E e \in f.todo :
         /\ multi_stack[e] = f.m /\ multi_handle[f.m] /\ handle[e]
         /\ SetMulti(f.m, t)
         /\ in_multi' = [in_multi EXCEPT ![e] = NULL]
         /\ Replace(t, Window("mdetach", e, f.m, f.ok, f.todo \ {e}))
    /\ UNCHANGED <<life, multi_stack, refs>>

\* easy_clear_multi_ref alone when one of the two handles is gone
LoopUnlink(t) ==
    /\ Looping(t) /\ Last(stack[t]).e = NULL
    /\ LET f == Last(stack[t]) IN \E e \in f.todo :
         /\ multi_stack[e] = f.m /\ ~(multi_handle[f.m] /\ handle[e])
         /\ multi_stack' = [multi_stack EXCEPT ![e] = NULL]
         /\ Replace(t, [f EXCEPT !.todo = @ \ {e},
                                 !.e = IF f.ok THEN e ELSE NULL])
    /\ UNCHANGED <<slots, life, refs, in_multi>>

\* bug: easy_clear_multi_ref is left out
LoopDetachEndKeeps(t) ==
    /\ Returning(t, "mdetach")
    /\ LET f == Last(stack[t]) IN
         /\ SetMulti(f.m, NULL)
         /\ Replace(t, [f EXCEPT !.op = "mloop",
                                 !.e = IF f.ok THEN f.e ELSE NULL])
    /\ UNCHANGED <<life, links>>

LoopDetachEnd(t) ==
    /\ Returning(t, "mdetach")
    /\ LET f == Last(stack[t]) IN
         /\ SetMulti(f.m, NULL)
         /\ multi_stack' = IF multi_stack[f.e] = f.m
                           THEN [multi_stack EXCEPT ![f.e] = NULL]
                           ELSE multi_stack
         /\ Replace(t, [f EXCEPT !.op = "mloop",
                                 !.e = IF f.ok THEN f.e ELSE NULL])
    /\ UNCHANGED <<life, refs, in_multi>>

\* close_handles: the nested easy.close() has left the multi already ...
LoopClose(t) ==
    /\ Looping(t) /\ Last(stack[t]).e # NULL
    /\ LET f == Last(stack[t]) IN
         /\ ThreadState(f.e) = NULL /\ handle[f.e]
         /\ SetEasy(f.e, t)
         /\ ToCleanup(f.e)
         /\ stack' = [stack EXCEPT ![t] =
               Append(Append(Front(@), [f EXCEPT !.e = NULL]),
                      Window("cleanup", f.e, NULL, TRUE, {}))]
    /\ UNCHANGED <<life, refs>>

\* ... finds it closed by somebody else ...
LoopCloseNoop(t) ==
    /\ Looping(t) /\ Last(stack[t]).e # NULL
    /\ LET f == Last(stack[t]) IN
         /\ ThreadState(f.e) = NULL /\ ~handle[f.e]
         /\ Replace(t, [f EXCEPT !.e = NULL])
    /\ UNCHANGED <<slots, life, links>>

\* ... or it is refused, or close() of a subclass raises, before it closes
\* the easy or after: the exception ends the multi's close() half way
LoopAbort(t) ==
    /\ Looping(t) /\ Last(stack[t]).ok
    /\ Pop(t)
    /\ UNCHANGED <<slots, life, links>>

\* easy_object_refs is dropped, then util_multi_close
LoopEnd(t) ==
    /\ Looping(t) /\ Last(stack[t]).e = NULL /\ Last(stack[t]).todo = {}
    /\ LET f == Last(stack[t]) IN
         /\ multi_handle[f.m]
         /\ refs' = [refs EXCEPT ![f.m] = {}]
         /\ SetMulti(f.m, t)
         /\ in_multi' = [e \in Easy |-> IF in_multi[e] = f.m THEN NULL
                                                           ELSE in_multi[e]]
         /\ Replace(t, Window("mcleanup", NULL, f.m, TRUE, {}))
    /\ UNCHANGED <<life, multi_stack>>

LoopEndClosed(t) ==
    /\ Looping(t) /\ Last(stack[t]).e = NULL /\ Last(stack[t]).todo = {}
    /\ LET f == Last(stack[t]) IN
         /\ ~multi_handle[f.m]
         /\ refs' = [refs EXCEPT ![f.m] = {}]
         /\ SetMulti(f.m, NULL)
    /\ Pop(t)
    /\ UNCHANGED <<life, multi_stack, in_multi>>

MultiCleanupEnd(t) ==
    /\ Returning(t, "mcleanup")
    /\ LET f == Last(stack[t]) IN
         /\ SetMulti(f.m, NULL)
         /\ multi_handle' = [multi_handle EXCEPT ![f.m] = FALSE]
    /\ Pop(t)
    /\ UNCHANGED <<handle, alive, links>>

-----------------------------------------------------------------------------
EasyCall(t) == \E e \in Easy :
    IO(t, e) \/ Pause(t, e) \/ Close(t, e) \/ CloseAttached(t, e)

MultiCall(t) == \E m \in Multi :
    \/ Drive(t, m) \/ CloseMulti(t, m) \/ DropMulti(t, m)
    \/ \E e \in Easy : AddHandle(t, m, e) \/ RemoveHandle(t, m, e) \/ RemoveClosed(t, m, e)

Return(t) ==
    \/ IOEnd(t) \/ PauseEnd(t) \/ DetachEnd(t) \/ CleanupEnd(t)
    \/ DriveEnd(t) \/ AddEnd(t) \/ AddRefused(t) \/ AddUndo(t) \/ AddUndoEnd(t)
    \/ RemoveEnd(t) \/ LoopDetachEnd(t) \/ MultiCleanupEnd(t)

Loop(t) ==
    \/ LoopSkip(t) \/ LoopDetach(t) \/ LoopUnlink(t) \/ LoopClose(t)
    \/ LoopCloseNoop(t) \/ LoopAbort(t) \/ LoopEnd(t) \/ LoopEndClosed(t)

Step(t) == EasyCall(t) \/ MultiCall(t) \/ Return(t) \/ Loop(t)
             \/ EnterCallback(t) \/ LeaveCallback(t)

Next == \E t \in Thread : Step(t)

Spec == Init /\ [][Next]_vars

-----------------------------------------------------------------------------
(* Properties *)

\* Types of the variables; every open window has the operands it needs.
TypeOK ==
    /\ handle \in [Easy -> BOOLEAN]
    /\ state \in [Easy -> Thread \cup {NULL}]
    /\ multi_stack \in [Easy -> Multi \cup {NULL}]
    /\ multi_handle \in [Multi -> BOOLEAN]
    /\ mstate \in [Multi -> Thread \cup {NULL}]
    /\ refs \in [Multi -> SUBSET Easy]
    /\ alive \in [Multi -> BOOLEAN]
    /\ in_multi \in [Easy -> Multi \cup {NULL}]
    /\ stack \in [Thread -> Seq(Frame)]

\* the thread state that the END macro of a window will restore
SlotOf(f) ==
    CASE f.op \in {"io", "cleanup"} -> state[f.e]
      [] f.op \in {"pause", "detach"} ->
            IF multi_stack[f.e] = NULL THEN state[f.e]
                                       ELSE mstate[multi_stack[f.e]]
      [] OTHER -> mstate[f.m]

\* Every window, however deep in the stack, would be ended with the thread
\* state of the thread that opened it: the asserts of the END macros
\* (pycurl.h), and the fatal errors of pycurl_python_leave.
SlotOwned ==
    \A t \in Thread : \A i \in DOMAIN stack[t] :
        stack[t][i].op # "mloop" => SlotOf(stack[t][i]) = t

\* The asserts of pycurl_get_thread_state_slot: an easy is inside its own
\* call or inside its multi's, never both, and only while the handles are open.
SlotAsserts ==
    \A e \in Easy :
        /\ state[e] # NULL =>
             /\ handle[e]
             /\ multi_stack[e] # NULL => mstate[multi_stack[e]] = NULL
        /\ multi_stack[e] # NULL /\ mstate[multi_stack[e]] # NULL =>
             handle[e] /\ multi_handle[multi_stack[e]]

\* Whatever object libcurl calls back for, the callback finds a slot and it
\* is the one of the thread that is inside libcurl: no callback is dropped,
\* none runs under another thread's state.
CallbacksReady ==
    \A t \in Thread :
        stack[t] # <<>> /\ Last(stack[t]).at = "lib" =>
            \A v \in CallbackSlots(Last(stack[t])) : v = t

\* The "paranoia assertions" of util_curl_close: a closed easy has no thread
\* state and is on no multi.
ClosedIsDetached ==
    \A e \in Easy : ~handle[e] => state[e] = NULL /\ multi_stack[e] = NULL

\* doc/docstrings/multi_add_handle.rst: the easy is not collected while a
\* CurlMulti uses it.  What libcurl has attached is open and referenced, and
\* multi_stack, a borrowed pointer, never outlives its multi.
KeptAlive ==
    \A e \in Easy :
        /\ in_multi[e] # NULL => handle[e] /\ e \in refs[in_multi[e]]
        /\ multi_stack[e] # NULL =>
              alive[multi_stack[e]] \/ \E t \in Thread : Closes(t, multi_stack[e])

\* pycurl and libcurl agree on which multi an easy is on, whenever no call
\* that changes it is under way.
Moving(e) == \E t \in Thread : \E i \in DOMAIN stack[t] :
    /\ stack[t][i].op \in {"add", "undo", "remove", "detach", "mdetach"}
    /\ stack[t][i].e = e
AttachAgrees == \A e \in Easy : ~Moving(e) => multi_stack[e] = in_multi[e]

\* doc/docstrings/multi_close.rst: close() "removes all easy handles from the
\* multi handle before closing the multi handle".
MultiEmptyAtCleanup ==
    \A t \in Thread : \A i \in DOMAIN stack[t] :
        stack[t][i].op = "mcleanup" =>
            \A e \in Easy : multi_stack[e] # stack[t][i].m

\* Whatever the interleaving, the handles behave as if every call were atomic
\* (module Attachment): a step changes one fact at most, an easy moves between
\* multis only through "on none", and nothing closes with something attached.
A == INSTANCE Attachment WITH open <- handle, on <- multi_stack,
                              mopen <- multi_handle
Atomic == A!ASpec

=============================================================================
