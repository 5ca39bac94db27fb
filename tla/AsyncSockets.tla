----------------------------- MODULE AsyncSockets -----------------------------
(***************************************************************************)
(* The descriptors of AsyncCurlMulti (pycurl/async_multi.py): what libcurl *)
(* wants to hear of a socket, what the selector of the event loop watches, *)
(* and the _SocketState that ties the two together, for descriptor numbers *)
(* that are used again by the next socket.                                 *)
(*                                                                         *)
(* libcurl reports a change of interest through _on_socket, inside a call  *)
(* (window) that AsyncCurlMulti makes.  The loop runs its handles between  *)
(* such calls only.  A handle of the loop belongs to one add_reader() or   *)
(* add_writer(); asyncio cancels it when the watcher is replaced or        *)
(* removed.  Transfers and futures are the subject of AsyncMulti.          *)
(***************************************************************************)
EXTENDS Naturals

CONSTANTS
    Fd,         \* descriptor numbers
    State,      \* _SocketState objects
    NULL,
    Uses        \* what the code is not made for

(* "stale": a number is used again while watchers of its last socket are   *)
(* left because the callback that would have removed them was skipped.     *)
(* "half": the loop takes the reader of a new socket, refuses its writer.  *)
ASSUME SocketsAssumption ==
    /\ NULL \notin Fd \cup State
    /\ \A W \in SUBSET {"in", "out"} : NULL # W
    /\ Uses \subseteq {"stale", "half"}

VARIABLES
    wants,      \* [Fd -> SUBSET Dir or NULL]: libcurl's entry of a socket
    socketp,    \* [Fd -> State or NULL]: what libcurl hands to _on_socket
    registered, \* [State -> SUBSET Dir]: read_registered, write_registered
    watchers,   \* [Fd -> [Dir -> State or NULL]]: the readers and writers of the loop
    ready,      \* the watchers whose handle the loop is about to run
    _assigned_fds,
    _closing,
    window,     \* where AsyncCurlMulti is: in a call of libcurl, or closed
    event,      \* the event the current socket_action() was called with
    lost        \* a call of _on_socket was skipped, or failed

object == <<registered, _assigned_fds, _closing>>
loop == <<watchers, ready>>
libcurl == <<wants, socketp>>
vars == <<object, loop, libcurl, window, event, lost>>

Dir == {"in", "out"}
Unwatched == [d \in Dir |-> NULL]
Window == {"none", "drive", "detach", "cleanup", "closed"}

Init ==
    /\ wants = [fd \in Fd |-> NULL] /\ socketp = [fd \in Fd |-> NULL]
    /\ registered = [s \in State |-> {}]
    /\ watchers = [fd \in Fd |-> Unwatched] /\ ready = {}
    /\ _assigned_fds = {} /\ _closing = FALSE
    /\ window = "none" /\ event = NULL /\ lost = FALSE

Known(fd) == wants[fd] # NULL

(* A new _SocketState is an object that nothing refers to.                 *)
Unreferenced ==
    {s \in State : \A fd \in Fd : socketp[fd] # s /\ \A d \in Dir : watchers[fd][d] # s}

-----------------------------------------------------------------------------
(* add_reader(), add_writer(), remove_reader(), remove_writer().           *)
SetWatchers(fd, w) ==
    /\ watchers' = [watchers EXCEPT ![fd] = w]
    /\ ready' = {r \in ready : r[1] = fd => w[r[2]] = watchers[fd][r[2]]}

(* bug: what is not wanted any more is still watched *)
WatchMore(fd, s, had, W) ==
    /\ SetWatchers(fd, [d \in Dir |->
           IF d \in W \ had THEN s ELSE watchers[fd][d]])
    /\ registered' = [registered EXCEPT ![s] = W]

(* The watchers of fd go from had to W, each with the state s.             *)
Watch(fd, s, had, W) ==
    /\ SetWatchers(fd, [d \in Dir |->
           IF d \in W \ had THEN s
           ELSE IF d \in had \ W THEN NULL ELSE watchers[fd][d]])
    /\ registered' = [registered EXCEPT ![s] = W]

(* bug: the writer is forgotten *)
UnregisterReaders(fd, s) == Watch(fd, s, registered[s] \cap {"in"}, registered[s] \ {"in"})

(* _unregister_watchers                                                    *)
Unregister(fd, s) == Watch(fd, s, registered[s], {})

(* _on_socket with POLL_REMOVE: libcurl forgets the socket afterwards.     *)
OnRemove(fd) ==
    /\ IF socketp[fd] # NULL THEN Unregister(fd, socketp[fd])
       ELSE UNCHANGED <<loop, registered>>
    /\ _assigned_fds' = _assigned_fds \ {fd}
    /\ socketp' = [socketp EXCEPT ![fd] = NULL]

(* With POLL_NONE: the state stays assigned.                               *)
OnNone(fd) ==
    /\ IF socketp[fd] # NULL THEN Unregister(fd, socketp[fd])
       ELSE UNCHANGED <<loop, registered>>
    /\ UNCHANGED <<_assigned_fds, socketp>>

(* With POLL_IN, POLL_OUT or POLL_INOUT: the first observation of a socket *)
(* makes its state and assigns it.                                         *)
OnInterest(fd, W) ==
    IF _closing THEN UNCHANGED <<loop, registered, _assigned_fds, socketp>>
    ELSE IF socketp[fd] # NULL
    THEN /\ Watch(fd, socketp[fd], registered[socketp[fd]], W)
         /\ UNCHANGED <<_assigned_fds, socketp>>
    ELSE \E s \in Unreferenced :
         /\ Watch(fd, s, {}, W)
         /\ _assigned_fds' = _assigned_fds \cup {fd}
         /\ socketp' = [socketp EXCEPT ![fd] = s]

-----------------------------------------------------------------------------
(* libcurl, inside a call.                                                 *)

Inside == window \in {"drive", "detach", "cleanup"}
Reusable(fd) == Known(fd) \/ watchers[fd] = Unwatched \/ "stale" \in Uses

(* It wants other events on a socket, or any on a new one.                 *)
Poll(fd, W) ==
    /\ Inside /\ Reusable(fd)
    /\ W # wants[fd] /\ (W = {} => Known(fd))
    /\ wants' = [wants EXCEPT ![fd] = W]
    /\ IF W = {} THEN OnNone(fd) ELSE OnInterest(fd, W)
    /\ UNCHANGED <<_closing, window, event, lost>>

Remove(fd) ==
    /\ Inside /\ Known(fd)
    /\ wants' = [wants EXCEPT ![fd] = NULL]
    /\ OnRemove(fd)
    /\ UNCHANGED <<_closing, window, event, lost>>

(* With an exception pending that an earlier callback left, Python is not  *)
(* entered (Callbacks!Skip).                                               *)
PollSkipped(fd, W) ==
    /\ Inside /\ Reusable(fd)
    /\ W # wants[fd] /\ (W = {} => Known(fd))
    /\ wants' = [wants EXCEPT ![fd] = W]
    /\ lost' = TRUE
    /\ UNCHANGED <<object, loop, socketp, window, event>>

RemoveSkipped(fd) ==
    /\ Inside /\ Known(fd)
    /\ wants' = [wants EXCEPT ![fd] = NULL]
    /\ socketp' = [socketp EXCEPT ![fd] = NULL]
    /\ lost' = TRUE
    /\ UNCHANGED <<object, loop, window, event>>

(* The loop refuses a watcher of a new socket, for instance because a      *)
(* transport uses the descriptor: no state is assigned.                    *)
WatchFails(fd, W) ==
    /\ window = "drive" /\ Reusable(fd) /\ ~Known(fd) /\ W # {}
    /\ wants' = [wants EXCEPT ![fd] = W]
    /\ _assigned_fds' = _assigned_fds \cup {fd}
    /\ lost' = TRUE
    /\ \/ UNCHANGED loop
       \/ /\ "half" \in Uses /\ W = Dir
          /\ \E s \in Unreferenced : SetWatchers(fd, [watchers[fd] EXCEPT !["in"] = s])
    /\ UNCHANGED <<registered, _closing, socketp, window, event>>

-----------------------------------------------------------------------------
(* add_handle(), remove_handle() and the timer: libcurl is called without  *)
(* an event.                                                               *)
Call ==
    /\ window = "none"
    /\ window' = "drive"
    /\ UNCHANGED <<object, loop, libcurl, event, lost>>

EndCall ==
    /\ window = "drive"
    /\ window' = "none" /\ event' = NULL
    /\ UNCHANGED <<object, loop, libcurl, lost>>

(* The selector reports an event on a descriptor that is watched for it.   *)
Select(fd, d) ==
    /\ window \in {"none", "closed"} /\ watchers[fd][d] # NULL
    /\ ready' = ready \cup {<<fd, d>>}
    /\ UNCHANGED <<object, watchers, libcurl, window, event, lost>>

(* _on_readable and _on_writable                                           *)
OnReady(fd, d) ==
    LET s == watchers[fd][d]
        drives == d \in registered[s] /\ ~_closing
    IN  /\ window = "none" /\ <<fd, d>> \in ready
        /\ ready' = ready \ {<<fd, d>>}
        /\ window' = IF drives THEN "drive" ELSE window
        /\ event' = IF drives THEN <<fd, d, s>> ELSE event
        /\ UNCHANGED <<object, watchers, libcurl, lost>>

-----------------------------------------------------------------------------
(* aclose(), which does not await: the handles are removed; what is left   *)
(* of the descriptors is swept up; the multi is closed.                    *)
Aclose ==
    /\ window = "none"
    /\ window' = "detach" /\ _closing' = TRUE
    /\ UNCHANGED <<registered, _assigned_fds, loop, libcurl, event, lost>>

(* bug: only the readers are swept up *)
SweepReaders ==
    /\ window = "detach"
    /\ watchers' = [fd \in Fd |->
           IF fd \in _assigned_fds THEN [watchers[fd] EXCEPT !["in"] = NULL] ELSE watchers[fd]]
    /\ ready' = {r \in ready : watchers'[r[1]][r[2]] # NULL}
    /\ socketp' = [fd \in Fd |-> IF fd \in _assigned_fds THEN NULL ELSE socketp[fd]]
    /\ _assigned_fds' = {}
    /\ window' = "cleanup"
    /\ UNCHANGED <<registered, _closing, wants, event, lost>>

Sweep ==
    /\ window = "detach"
    /\ watchers' = [fd \in Fd |-> IF fd \in _assigned_fds THEN Unwatched ELSE watchers[fd]]
    /\ ready' = {r \in ready : r[1] \notin _assigned_fds}
    /\ socketp' = [fd \in Fd |-> IF fd \in _assigned_fds THEN NULL ELSE socketp[fd]]
    /\ _assigned_fds' = {}
    /\ window' = "cleanup"
    /\ UNCHANGED <<registered, _closing, wants, event, lost>>

(* curl_multi_cleanup has closed every socket.                             *)
AcloseEnd ==
    /\ window = "cleanup" /\ \A fd \in Fd : ~Known(fd)
    /\ window' = "closed"
    /\ UNCHANGED <<object, loop, libcurl, event, lost>>

Next ==
    \/ \E fd \in Fd, W \in SUBSET Dir :
          Poll(fd, W) \/ PollSkipped(fd, W) \/ WatchFails(fd, W)
    \/ \E fd \in Fd : Remove(fd) \/ RemoveSkipped(fd)
    \/ \E fd \in Fd, d \in Dir : Select(fd, d) \/ OnReady(fd, d)
    \/ Call \/ EndCall \/ Aclose \/ Sweep \/ AcloseEnd

Spec == Init /\ [][Next]_vars

-----------------------------------------------------------------------------
TypeOK ==
    /\ wants \in [Fd -> (SUBSET Dir) \cup {NULL}]
    /\ socketp \in [Fd -> State \cup {NULL}]
    /\ registered \in [State -> SUBSET Dir]
    /\ watchers \in [Fd -> [Dir -> State \cup {NULL}]]
    /\ ready \subseteq Fd \X Dir
    /\ _assigned_fds \subseteq Fd /\ _closing \in BOOLEAN
    /\ window \in Window /\ lost \in BOOLEAN
    /\ event \in (Fd \X Dir \X State) \cup {NULL}

(* Whenever the loop runs, it watches a descriptor for what libcurl wants  *)
(* of the socket that has this number now, with the state libcurl will     *)
(* hand out: a watcher too few hangs the transfer, one too many spins.     *)
WatchersFollow ==
    window = "none" /\ ~lost => \A fd \in Fd, d \in Dir :
        watchers[fd][d] = IF Known(fd) /\ d \in wants[fd] THEN socketp[fd] ELSE NULL

Own ==
    ~lost /\ event = NULL /\ event' # NULL =>
        LET fd == event'[1] IN
        /\ Known(fd) /\ event'[2] \in wants[fd]
        /\ event'[3] = socketp[fd]

(* socket_action() is only called for a socket that libcurl has, with an   *)
(* event libcurl wants: an event of the last socket with the same number   *)
(* does not reach the next one (async_multi.py:417, 422).                  *)
OwnEvents == [][Own]_vars

(* aclose() "unregisters socket watchers" (its docstring), also those that *)
(* libcurl could not report because callbacks were skipped or failed, and  *)
(* no handle of them is left in the loop.                                  *)
ClosedUnwatched ==
    window = "closed" => /\ \A fd \in Fd : watchers[fd] = Unwatched
                         /\ ready = {} /\ _assigned_fds = {}
=============================================================================
