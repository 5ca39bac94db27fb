------------------------------ MODULE AsyncMulti ------------------------------
(***************************************************************************)
(* AsyncCurlMulti (pycurl/async_multi.py): libcurl transfers as asyncio    *)
(* futures.                                                                *)
(*                                                                         *)
(* Everything runs on one event loop and no method awaits, so a method, a  *)
(* libcurl callback it provokes, and a handle the loop runs are one step.  *)
(* What interleaves are the handles in the loop's ready queue: done        *)
(* callbacks, the timeout, the drain, socket events, and between them the  *)
(* program's own code, which may use any method.  State read when a handle *)
(* is scheduled may have changed when it runs.                             *)
(*                                                                         *)
(* libcurl is external: it ends any transfers during socket_action(), and  *)
(* promises that every transfer that goes on has a watched socket or that  *)
(* the multi's timer is set (Covered).                                     *)
(*                                                                         *)
(* A callback of an easy may leave an exception pending in socket_action().*)
(* The callbacks of the multi that libcurl makes after it are skipped, so  *)
(* the object does not hear of a timer, a message or a socket (lost), and  *)
(* socket_action() raises the exception (the use "raise").                 *)
(***************************************************************************)
EXTENDS Naturals, Sequences, SequencesExt, FiniteSets

CONSTANTS
    Curl,       \* easy handles
    Fut,        \* futures; as many as there are calls of add_handle()
    NULL,       \* None
    close_handles,  \* the constructor's argument
    Uses        \* uses of the object beyond the plain ones

(***************************************************************************)
(*   "readd"     add_handle() of a handle whose previous future is done    *)
(*               but has not had its callbacks run yet                     *)
(*   "callback"  remove_handle() from a callback of an easy, that is while *)
(*               socket_action() is running                                *)
(*   "raise"     a callback of an easy leaves an exception pending while   *)
(*               socket_action() is running                                *)
(***************************************************************************)
ASSUME UsesAssumption == Uses \subseteq {"readd", "callback", "raise"}
ASSUME NoneAssumption == NULL \notin Curl \cup Fut
ASSUME CurlAssumption == IsFiniteSet(Curl)
ASSUME CloseHandlesAssumption == close_handles \in BOOLEAN

VARIABLES
    notify_supported,   \* _NOTIFY_SUPPORTED, fixed by the build
    futures,            \* [Curl -> Fut or NULL]: self._futures
    timer,              \* self._timer is not None
    notify,             \* self._notify_handle is not None
    closed,             \* self._closing; the multi is closed by the same step
    fcurl,              \* [Fut -> Curl or NULL]: the handle of a future
    fstate,             \* [Fut -> state of the future]
    ready,              \* the loop's ready queue
    later,              \* live call_later() handles of _fire_timeout
    attached,           \* [Curl -> Fut or NULL]: the call that attached it
    open,               \* [Curl -> BOOLEAN]: not closed by the program
    msgs,               \* [Curl -> "none" or its result]: libcurl's messages
    watched,            \* the handles whose socket has a watcher
    armed,              \* libcurl has asked for a timeout
    lost                \* history: a callback or a drain was left out since an
                        \* exception was pending

object == <<futures, timer, notify, closed>>
loop == <<fcurl, fstate, ready, later>>
libcurl == <<attached, open, msgs, watched, armed>>
vars == <<notify_supported, object, loop, libcurl, lost>>

Finals == {"result", "error", "cancelled"}

\* the handles of the loop; "done" is _on_future_done with its curl bound
Handle == [kind : {"timeout", "drain", "io", "done"},
           c : Curl \cup {NULL}, f : Fut \cup {NULL}]
Timeout == [kind |-> "timeout", c |-> NULL, f |-> NULL]
DrainHandle == [kind |-> "drain", c |-> NULL, f |-> NULL]
SocketHandle(c) == [kind |-> "io", c |-> c, f |-> NULL]
DoneHandle(f) == [kind |-> "done", c |-> fcurl[f], f |-> f]

Queued(h) == \E i \in DOMAIN ready : ready[i] = h

Init ==
    /\ notify_supported \in BOOLEAN
    /\ futures = [c \in Curl |-> NULL]
    /\ timer = FALSE /\ notify = FALSE /\ closed = FALSE
    /\ fcurl = [f \in Fut |-> NULL]
    /\ fstate = [f \in Fut |-> "unused"]
    /\ ready = <<>> /\ later = 0
    /\ attached = [c \in Curl |-> NULL]
    /\ open = [c \in Curl |-> TRUE]
    /\ msgs = [c \in Curl |-> "none"]
    /\ watched = {} /\ armed = FALSE /\ lost = FALSE

-----------------------------------------------------------------------------
(* libcurl and the timer *)

\* transfers under way
Running == {c \in Curl : attached[c] # NULL /\ msgs[c] = "none"}
Covered == lost \/ \A c \in Running : c \in watched \/ armed

\* bug: the old timer is not cancelled
CancelTimerNot(q, own) == q

\* _cancel_timer on the queue q, self._timer being set if own; the handle is
\* in the queue or still waiting
CancelTimer(q, own) == IF own THEN RemoveFirst(q, Timeout) ELSE q

StillLater(own) == IF own THEN 0 ELSE later

\* bug: a timeout of zero is taken for none
LibTimerZero(q, new, own, still) ==
    \/ /\ armed' = still /\ timer' = own
       /\ ready' = q \o new /\ UNCHANGED later
    \/ /\ armed' \in BOOLEAN /\ timer' = FALSE
       /\ ready' = CancelTimer(q, own) \o new
       /\ later' = StillLater(own)
    \/ /\ armed' = TRUE /\ timer' = TRUE
       /\ ready' = CancelTimer(q, own) \o new
       /\ later' = StillLater(own) + 1

\* The handles new join the queue q, and libcurl's calls of _on_timer in the
\* meantime amount to none (its timer is armed if still), to one with a
\* negative timeout, to one with zero, or to one with a positive timeout.
LibTimer(q, new, own, still) ==
    \/ /\ armed' = still /\ timer' = own
       /\ ready' = q \o new /\ UNCHANGED later
    \/ /\ still /\ armed' = FALSE /\ timer' = FALSE
       /\ ready' = CancelTimer(q, own) \o new
       /\ later' = StillLater(own)
    \/ /\ armed' = TRUE /\ timer' = TRUE
       /\ \E i \in 1 .. Len(new) + 1 :
            ready' = CancelTimer(q, own) \o InsertAt(new, i, Timeout)
       /\ later' = StillLater(own)
    \/ /\ armed' = TRUE /\ timer' = TRUE
       /\ ready' = CancelTimer(q, own) \o new
       /\ later' = StillLater(own) + 1

\* CurlMulti.remove_handle of the handles R: their messages and watchers go
Detach(R) ==
    /\ attached' = [c \in Curl |-> IF c \in R THEN NULL ELSE attached[c]]
    /\ msgs' = [c \in Curl |-> IF c \in R THEN "none" ELSE msgs[c]]
    /\ watched' = watched \ R

\* bug: a done future is settled again
NotDoneBlindly(R) == {futures[c] : c \in R} \ {NULL}

\* the futures of the handles R that are not done
NotDone(R) == {f \in Fut : fstate[f] = "pending" /\ \E c \in R : futures[c] = f}

-----------------------------------------------------------------------------
(* The program's calls *)

\* libcurl starts the transfer through the timer
AddHandle(c, f) ==
    /\ ~closed /\ futures[c] = NULL /\ fstate[f] = "unused"
    /\ open[c] /\ attached[c] = NULL
    /\ "readd" \in Uses \/ \A g \in Fut : fcurl[g] = c => ~Queued(DoneHandle(g))
    /\ futures' = [futures EXCEPT ![c] = f]
    /\ fcurl' = [fcurl EXCEPT ![f] = c]
    /\ fstate' = [fstate EXCEPT ![f] = "pending"]
    /\ attached' = [attached EXCEPT ![c] = f]
    /\ LibTimer(ready, <<>>, timer, armed) /\ (armed' \/ lost)
    /\ UNCHANGED <<notify_supported, lost, notify, closed, open, msgs, watched>>

\* bug: no rollback
AddRefusedKept(c, f) ==
    /\ ~closed /\ futures[c] = NULL /\ fstate[f] = "unused"
    /\ fstate' = [fstate EXCEPT ![f] = "dropped"]
    /\ futures' = [futures EXCEPT ![c] = f]
    /\ UNCHANGED <<notify_supported, lost, timer, notify, closed, fcurl, ready, later>>
    /\ UNCHANGED libcurl

\* CurlMulti.add_handle raises: the entry is taken back, nobody gets the future
AddRefused(c, f) ==
    /\ ~closed /\ futures[c] = NULL /\ fstate[f] = "unused"
    /\ fstate' = [fstate EXCEPT ![f] = "dropped"]
    /\ UNCHANGED <<notify_supported, lost, object, fcurl, ready, later, libcurl>>

\* bug: the future is not cancelled
RemoveHandleQuiet(c) ==
    /\ ~closed /\ futures[c] # NULL
    /\ futures' = [futures EXCEPT ![c] = NULL]
    /\ Detach({c})
    /\ LibTimer(ready, <<>>, timer, armed)
    /\ UNCHANGED <<notify_supported, lost, notify, closed, fcurl, fstate, open>>
    /\ Covered'

\* CurlMulti.remove_handle also accepts a handle that has been closed
RemoveHandle(c) ==
    /\ ~closed /\ futures[c] # NULL
    /\ futures' = [futures EXCEPT ![c] = NULL]
    /\ Detach({c})
    /\ LET mine == NotDone({c}) IN
         /\ fstate' = [f \in Fut |-> IF f \in mine THEN "cancelled" ELSE fstate[f]]
         /\ LibTimer(ready, SetToSeq({DoneHandle(f) : f \in mine}), timer, armed)
    /\ UNCHANGED <<notify_supported, lost, notify, closed, fcurl, open>>
    /\ Covered'

\* Future.cancel(), for instance by a task that is cancelled in perform()
CancelFuture(f) ==
    /\ fstate[f] = "pending"
    /\ fstate' = [fstate EXCEPT ![f] = "cancelled"]
    /\ ready' = Append(ready, DoneHandle(f))
    /\ UNCHANGED <<notify_supported, lost, object, fcurl, later, libcurl>>

\* Curl.close(): the easy leaves libcurl, its future stays
CloseEasy(c) ==
    /\ open[c]
    /\ open' = [open EXCEPT ![c] = FALSE]
    /\ Detach({c})
    /\ IF attached[c] = NULL THEN UNCHANGED <<armed, timer, ready, later>>
                             ELSE LibTimer(ready, <<>>, timer, armed)
    /\ UNCHANGED <<notify_supported, lost, futures, notify, closed, fcurl, fstate>>
    /\ Covered'

\* the handles the multi has but the object does not know
Unknown == {c \in Curl : attached[c] # NULL /\ futures[c] = NULL}

\* bug: the futures are left alone
AcloseForgets ==
    /\ ~closed /\ closed' = TRUE
    /\ notify' = FALSE /\ timer' = FALSE
    /\ later' = StillLater(timer) /\ armed' = FALSE
    /\ futures' = [c \in Curl |-> NULL]
    /\ Detach(Curl)
    /\ ready' = RemoveFirst(CancelTimer(ready, timer), DrainHandle)
    /\ UNCHANGED <<notify_supported, lost, fcurl, fstate, open>>

\* the handles the object knows are removed, so that close() of the multi,
\* which closes easies when close_handles is set, meets only the unknown
Aclose ==
    /\ ~closed /\ closed' = TRUE
    /\ notify' = FALSE /\ timer' = FALSE
    /\ later' = StillLater(timer) /\ armed' = FALSE
    /\ futures' = [c \in Curl |-> NULL]
    /\ Detach(Curl)
    /\ open' = [c \in Curl |-> open[c] /\ ~(close_handles /\ c \in Unknown)]
    /\ LET mine == NotDone(Curl)
           kept == IF notify THEN RemoveFirst(ready, DrainHandle) ELSE ready
       IN /\ fstate' = [f \in Fut |-> IF f \in mine THEN "cancelled" ELSE fstate[f]]
          /\ \E new \in SetToSeqs({DoneHandle(f) : f \in mine}) :
               ready' = CancelTimer(kept, timer) \o new
    /\ UNCHANGED <<notify_supported, lost, fcurl>>

-----------------------------------------------------------------------------
(* Resolving futures *)

\* _resolve of every handle of out, a function from handles to their results;
\* a handle that is not in _futures is left as it is
Resolve(out, q, own, still) ==
    LET known == {c \in DOMAIN out : futures[c] # NULL}
        mine == NotDone(known)
    IN /\ futures' = [c \in Curl |-> IF c \in known THEN NULL ELSE futures[c]]
       /\ fstate' = [f \in Fut |-> IF f \notin mine THEN fstate[f]
                     ELSE IF out[fcurl[f]] = "ok" THEN "result" ELSE "error"]
       /\ attached' = [c \in Curl |-> IF c \in known THEN NULL ELSE attached[c]]
       /\ msgs' = [c \in Curl |-> IF c \in DOMAIN out THEN "none" ELSE msgs[c]]
       /\ \E new \in SetToSeqs({DoneHandle(f) : f \in mine}) :
            LibTimer(q, new, own, still)

\* _on_notify: libcurl calls it when its message queue is no longer empty
Told(F) == F # {} /\ (\A c \in Curl : msgs[c] = "none") /\ ~notify

\* libcurl's messages once the transfers of out have ended
Ended(out) == [c \in Curl |-> IF c \in DOMAIN out THEN out[c] ELSE msgs[c]]

\* _drain: the messages m are read and resolved
Drain(m, q, own, still) ==
    Resolve([c \in {d \in Curl : m[d] # "none"} |-> m[c]], q, own, still)

\* handles whose watcher is left since its removal was skipped
Stale == watched \ Running

\* _drive: socket_action() ends the transfers F.  Without notifications
\* _drive drains at once.
Drive(F, q, own, still) ==
    /\ ~closed /\ F \subseteq Running
    /\ \E out \in [F -> {"ok", "err"}] :
         \/ /\ notify_supported
            /\ msgs' = Ended(out)
            /\ notify' = (notify \/ Told(F))
            /\ LibTimer(q, IF Told(F) THEN <<DrainHandle>> ELSE <<>>, own, still)
            /\ UNCHANGED <<futures, fstate, attached>>
         \/ /\ ~notify_supported
            /\ Drain(Ended(out), q, own, still) /\ UNCHANGED notify
    /\ \E W \in SUBSET (Running \ F) : watched' = W \cup Stale
    /\ UNCHANGED <<notify_supported, lost, closed, fcurl, open>>
    /\ Covered'

\* socket_action() raises the exception that a callback of an easy left, and
\* _drive catches only pycurl.error: nothing is failed and nothing drained.
\* What libcurl has set its timer to (s), its message and its wish to watch a
\* socket may not have been told.
DriveRaises(F, q, own) ==
    /\ "raise" \in Uses /\ ~closed /\ Running # {} /\ F \subseteq Running
    /\ lost' = TRUE
    /\ \E out \in [F -> {"ok", "err"}] : msgs' = Ended(out)
    /\ \E told \in BOOLEAN, s \in BOOLEAN :
         /\ told => notify_supported /\ Told(F)
         /\ notify' = (notify \/ told)
         /\ LibTimer(q, IF told THEN <<DrainHandle>> ELSE <<>>, own, s)
    /\ \E W \in SUBSET ((Running \ F) \cup watched) : watched' = W \cup Stale
    /\ UNCHANGED <<notify_supported, futures, closed, fcurl, fstate, attached, open>>

\* socket_action() raises pycurl.error, which is libcurl's or was left by a
\* callback, libcurl's timer then being s: _fail_all_pending
DriveFails(q, own, still) ==
    /\ ~closed
    /\ LET all == {c \in Curl : futures[c] # NULL} IN
         \E s \in BOOLEAN :
           /\ Resolve([c \in all |-> "err"], q, own, s)
           /\ lost' = (lost \/ s # still) /\ (s # still => "raise" \in Uses)
           /\ watched' = watched \ all
    /\ UNCHANGED <<notify_supported, notify, closed, fcurl, open>>
    /\ Covered'

\* A callback of a running transfer calls remove_handle(c): the future is
\* popped, then CurlMulti.remove_handle raises
CallbackRemove(c, q, own, still) ==
    /\ "callback" \in Uses /\ ~closed /\ Running # {} /\ futures[c] # NULL
    /\ futures' = [futures EXCEPT ![c] = NULL]
    /\ LibTimer(q, <<>>, own, still)
    /\ UNCHANGED <<notify_supported, lost, notify, closed, fcurl, fstate>>
    /\ UNCHANGED <<attached, open, msgs, watched>>
    /\ Covered'

SocketAction(F, q, own, still) ==
    \/ Drive(F, q, own, still)
    \/ DriveRaises(F, q, own)
    \/ F = {} /\ DriveFails(q, own, still)
    \/ F = {} /\ \E c \in Curl : CallbackRemove(c, q, own, still)

-----------------------------------------------------------------------------
(* What the event loop runs *)

HeadIs(kind) == ready # <<>> /\ Head(ready).kind = kind

\* bug: self._timer is kept
FireTimeoutKeeps(F) ==
    HeadIs("timeout") /\ SocketAction(F, Tail(ready), timer, FALSE)

\* libcurl's timer is used up by the call
FireTimeout(F) ==
    HeadIs("timeout") /\ SocketAction(F, Tail(ready), FALSE, FALSE)

\* _on_readable, _on_writable
SocketReady(F) ==
    /\ HeadIs("io") /\ Head(ready).c \in watched
    /\ SocketAction(F, Tail(ready), timer, armed)

\* the socket's state is not registered any more
SocketStale ==
    /\ HeadIs("io") /\ Head(ready).c \notin watched
    /\ ready' = Tail(ready)
    /\ UNCHANGED <<notify_supported, lost, object, fcurl, fstate, later, libcurl>>

\* bug: self._notify_handle is kept
DrainFromNotifyKeeps ==
    /\ HeadIs("drain") /\ ~closed
    /\ Drain(msgs, Tail(ready), timer, armed)
    /\ UNCHANGED <<notify_supported, lost, notify, closed, fcurl, open, watched>>
    /\ Covered'

DrainFromNotify ==
    /\ HeadIs("drain") /\ ~closed
    /\ notify' = FALSE
    /\ Drain(msgs, Tail(ready), timer, armed)
    /\ UNCHANGED <<notify_supported, lost, closed, fcurl, open, watched>>
    /\ Covered'

\* bug: the handle is forgotten but not removed
OnFutureDoneLeaks ==
    /\ HeadIs("done") /\ ~closed /\ futures[Head(ready).c] # NULL
    /\ futures' = [futures EXCEPT ![Head(ready).c] = NULL]
    /\ ready' = Tail(ready)
    /\ UNCHANGED <<notify_supported, lost, timer, notify, closed, fcurl, fstate, later>>
    /\ UNCHANGED libcurl

\* _on_future_done: it looks up the handle, never the future
OnFutureDone ==
    /\ HeadIs("done") /\ ~closed
    /\ LET c == Head(ready).c IN
         /\ futures[c] # NULL
         /\ futures' = [futures EXCEPT ![c] = NULL]
         /\ Detach({c})
         /\ LibTimer(Tail(ready), <<>>, timer, armed)
    /\ UNCHANGED <<notify_supported, lost, notify, closed, fcurl, fstate, open>>
    /\ Covered'

OnFutureDoneNoop ==
    /\ HeadIs("done") /\ (closed \/ futures[Head(ready).c] = NULL)
    /\ ready' = Tail(ready)
    /\ UNCHANGED <<notify_supported, lost, object, fcurl, fstate, later, libcurl>>

\* one handle; F are the transfers that libcurl ends in it
RunReady(F) ==
    \/ FireTimeout(F) \/ SocketReady(F)
    \/ F = {} /\ (SocketStale \/ DrainFromNotify \/ OnFutureDone \/ OnFutureDoneNoop)

\* a call_later() handle becomes ready
TimerDue ==
    /\ later > 0
    /\ later' = later - 1 /\ ready' = Append(ready, Timeout)
    /\ UNCHANGED <<notify_supported, lost, object, fcurl, fstate, libcurl>>

\* the selector reports a watched socket
SocketEvent(c) ==
    /\ c \in watched /\ ~Queued(SocketHandle(c))
    /\ ready' = Append(ready, SocketHandle(c))
    /\ UNCHANGED <<notify_supported, lost, object, fcurl, fstate, later, libcurl>>

-----------------------------------------------------------------------------
Program ==
    \/ \E c \in Curl, f \in Fut : AddHandle(c, f) \/ AddRefused(c, f)
    \/ \E c \in Curl : RemoveHandle(c) \/ CloseEasy(c)
    \/ \E f \in Fut : CancelFuture(f)
    \/ Aclose

Next == Program \/ (\E F \in SUBSET Curl : RunReady(F))
          \/ TimerDue \/ (\E c \in Curl : SocketEvent(c))

Spec == Init /\ [][Next]_vars

\* The loop runs what is ready, keeps its timers and reports sockets; libcurl
\* ends a transfer that it is driven through again and again, as the peer
\* answers or a timeout of libcurl strikes.  Nothing is assumed of the program.
Fairness ==
    /\ WF_vars(\E F \in SUBSET Curl : RunReady(F))
    /\ WF_vars(TimerDue)
    /\ \A c \in Curl : WF_vars(SocketEvent(c))
    /\ \A c \in Curl : SF_vars(\E F \in SUBSET Curl :
                                 c \in F /\ c \in Running /\ RunReady(F))

LiveSpec == Spec /\ Fairness

-----------------------------------------------------------------------------
(* Properties *)

\* Types; there is at most one call_later() handle.
TypeOK ==
    /\ notify_supported \in BOOLEAN
    /\ futures \in [Curl -> Fut \cup {NULL}]
    /\ timer \in BOOLEAN /\ notify \in BOOLEAN /\ closed \in BOOLEAN
    /\ fcurl \in [Fut -> Curl \cup {NULL}]
    /\ fstate \in [Fut -> {"unused", "dropped", "pending"} \cup Finals]
    /\ ready \in Seq(Handle) /\ later \in {0, 1}
    /\ attached \in [Curl -> Fut \cup {NULL}]
    /\ open \in [Curl -> BOOLEAN]
    /\ msgs \in [Curl -> {"none", "ok", "err"}]
    /\ watched \subseteq Curl /\ armed \in BOOLEAN /\ lost \in BOOLEAN

\* futures(): a snapshot "contains every pending future", and an entry whose
\* future is done has its callback, which removes it, in the queue.
SnapshotComplete ==
    /\ \A f \in Fut : fstate[f] = "pending" => futures[fcurl[f]] = f
    /\ \A c \in Curl : futures[c] # NULL =>
         fstate[futures[c]] = "pending" \/ Queued(DoneHandle(futures[c]))

\* A handle is on the multi exactly as long as its future is in the table,
\* unless the program closes it: nothing transfers unnoticed.
NoOrphans == \A c \in Curl : attached[c] = IF open[c] THEN futures[c] ELSE NULL

\* self._timer and self._notify_handle stand for the handles in the loop: one
\* when set, none when not, so that nothing fires twice or after aclose().
HandlesTracked ==
    /\ later + Cardinality({i \in DOMAIN ready : ready[i] = Timeout})
         = IF timer THEN 1 ELSE 0
    /\ Cardinality({i \in DOMAIN ready : ready[i] = DrainHandle})
         = IF notify THEN 1 ELSE 0

\* No transfer is stranded: as long as libcurl could tell the object what it
\* wants, every transfer under way has a watcher, or there is a timeout in the
\* loop that will drive it.
NoneStranded ==
    lost \/ \A c \in Running : c \in watched \/ Queued(Timeout) \/ later > 0

\* As long as libcurl could tell the object, a message of libcurl has a drain
\* on its way.
MessagesHeard ==
    lost \/ ((\E c \in Curl : msgs[c] # "none") => Queued(DrainHandle))

\* A future gets a result only from the transfer that was started for it,
\* though handles are used again; and a done future stays as it is, or asyncio
\* would raise InvalidStateError.
OwnOutcome ==
    [][\A f \in Fut :
         /\ fstate[f] \in Finals => fstate'[f] = fstate[f]
         /\ fstate[f] # "result" /\ fstate'[f] = "result" =>
              /\ attached[fcurl[f]] = f
              /\ notify_supported => msgs[fcurl[f]] = "ok"]_vars

\* aclose(): "removes all in-flight handles ... and closes the underlying
\* multi handle. Pending futures are cancelled."
ClosedIsQuiet ==
    closed => /\ \A f \in Fut : fstate[f] # "pending"
              /\ \A c \in Curl : futures[c] = NULL /\ attached[c] = NULL
              /\ ~timer /\ ~notify /\ watched = {}

\* The future of add_handle() "resolves to curl on success or raises
\* pycurl.error on failure", unless the program closes its handle.
Resolves ==
    \A f \in Fut : fstate[f] = "pending" ~>
        fstate[f] # "pending" \/ (fcurl[f] # NULL /\ ~open[fcurl[f]])

=============================================================================
