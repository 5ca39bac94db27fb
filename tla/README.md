# A formal model of PycURL

PycURL wraps libcurl's easy, multi, share, mime and URL handles as Python
objects. Its hard part is not the wrapping. Every libcurl call that may run
Python callbacks releases the GIL first, stores the thread state in a *slot* of
the object, and takes it back out of the slot afterwards; while the call is
inside libcurl, callbacks and other threads may call any method of the same
objects. The modules here model that protocol, TLC checks it on small
instances, and TLAPS proves what is marked so for every instance.

## Inventory

| Component | State it keeps | Operations | What makes it hard | What makes it correct |
|---|---|---|---|---|
| Curl easy handle (`easy.c`, `easyperform.c`) | `handle`, `state` (slot and "is running" flag), `multi_stack` (borrowed), `multi_weakref`, `share`, callbacks, mime | perform, send/recv, pause, reset, close, duphandle, setopt, dealloc and GC clear | callbacks re-enter it, another thread may use it, it may be inside its own call or its multi's | one window per slot owner; closed implies detached; nobody inside while it is cleaned up |
| CurlMulti (`multi.c`) | `multi_handle`, `state`, `easy_object_refs`, `socket_object_dict`, callbacks | perform, socket_action, add/remove_handle, close(close_handles), assign, setopt, notify, info_read, dealloc | snapshot iterated while callbacks mutate the set; failures of libcurl half way; dropped inside a callback | an easy is on one multi and both sides agree; it is referenced while attached; nothing attached at cleanup |
| Thread states (`threadsupport.c`, `pycurl.h`) | none of its own: the slots above | slot of an easy, of a multi; enter, leave; BEGIN/END in three forms | END re-reads the slot's place after callbacks | every window ends with its own thread's state |
| Easy callbacks (`easycb.c`) | `ws_write_cb_running` | 21 callbacks | run on a borrowed thread state, maybe with an exception of an earlier one pending | no callback is dropped or runs under another thread's state; an exception stops the transfer and reaches the caller |
| WebSocket (`easyws.c`) | uses the easy's | ws_send, ws_recv, ws_close, ws_meta | allowed only inside the write callback of the same thread | the guard is restored when callbacks nest |
| Easy options (`easyopt.c`) | references to option values | setopt, unsetopt, setopt_string | a reference must live until libcurl lets go of it | what libcurl points to, the same Curl object keeps |
| CurlShare (`share.c`, locks in `threadsupport.c`) | `share_handle`, `easy_weakrefs`, `api_lock`, libcurl's locks, `detach_on_close` | setopt, share/unshare, close, attach and detach by easies, dealloc | close against attach; last reference dropped under the lock | closed implies no easy uses it; no thread waits for itself |
| CurlMime (`mime.c`) | parts, subparts, data callback owners with libcurl reference counts | build a tree, attach to an easy, duphandle, free callbacks | one owner shared by duplicated handles | the user's free function runs exactly once, after the last use |
| CurlUrl (`url.c`) | `CURLU *`, lock | get/set part, dup, close | threads | each call is atomic |
| AsyncCurlMulti (`pycurl/async_multi.py`) | `_futures`, `_timer`, `_notify_handle`, `_assigned_fds`, `_closing` | add/remove_handle, aclose, the socket/timer/notify callbacks, the loop's callbacks | callbacks scheduled for a later tick find another state | a registered transfer is attached and its future pending; every transfer's future resolves |
| getinfo, module init, string/OS compatibility, high-level `curl` package, build | none, or written once | | | |

They interact by direct calls under the GIL, by libcurl's callbacks (back into
Python), and by borrowed or counted references: multi → easy
(`easy_object_refs`, owned), easy → multi (`multi_stack`, borrowed, plus a weak
reference), easy → share (owned), share → easy (weak), easy → mime (owned).

## Modules

| Module | Models | Source |
|---|---|---|
| `EasyMulti` | Curl, CurlMulti and the threads that use them | `easy.c`, `easyperform.c`, `multi.c`, `threadsupport.c`, `pycurl.h` |
| `Attachment` | what the two promise together, every call one step | the same, abstractly |
| `MCEasyMulti` | the instances of `EasyMulti` that TLC checks | |
| `EasyMultiProofs` | its type correctness, seven invariants and the refinement of `Attachment`, proved | |
| `AsyncMulti` | AsyncCurlMulti on an asyncio event loop | `pycurl/async_multi.py` |
| `MCAsyncMulti` | the instances of `AsyncMulti` that TLC checks | |
| `AsyncMultiProofs` | its types, its six invariants and `OwnOutcome`, proved | |
| `AsyncSockets` | its descriptors: watchers, `_SocketState`, numbers used again | `pycurl/async_multi.py` |
| `AsyncSocketsProofs` | its three properties, proved | |
| `EasyOpts` | what libcurl's handle points to and what the Curl object keeps, over setopt, unsetopt, duphandle, reset, close and the collector | `easyopt.c`, `easy.c` |
| `EasyOptsProofs` | its three properties and `ClosedHoldsNothing`, proved | |
| `CurlShare` | CurlShare and the easies attached to it, on several threads | `share.c`, `easyopt.c`, `easy.c` |
| `CurlShareProofs` | its types and its three safety properties, proved | |
| `MimeOwners` | mime trees and the owners of data callbacks | `mime.c`, `easyopt.c`, `easy.c` |
| `MimeOwnersProofs` | its types, three invariants and `RunningTreeKept`, proved | |
| `Callbacks` | exceptions of callbacks, and the guard of ws_send() | `easycb.c`, `easyws.c`, `multi.c`, `mime.c`, `util.c`, `pycurl.h` |
| `CallbacksProofs` | its types, four invariants, `ExitKept` and `ExitDelivered`, proved | |
| `MultiSockets` | sockets of a multi, assign() and the socket callback | `multi.c` |
| `MultiSocketsProofs` | its invariants and `ChangesAgreed`, proved | |
| `MCEasyOpts`, `MCCurlShare`, `MCMimeOwners`, `MCCallbacks` | symmetries for TLC; `MultiSockets` and `AsyncSockets` need none | |

Each module has the part of the state its hazards are about. The state of an
easy is so divided over four of them: the slots and the multi (`EasyMulti`), the
options (`EasyOpts`), the share (`CurlShare`), the mime (`MimeOwners`). They
meet in the checks at the head of every method (`check_curl_state`), which each
of them has, and in `close()` and `duphandle()`, of which each models its own
part and the order around it.

### EasyMulti

`handle`, `state`, `multi_stack` are the fields of `CurlObject` (a handle is
open or not; a slot holds a thread or NULL), `multi_handle`, `mstate`, `refs`
those of `CurlMultiObject` (`refs` is `easy_object_refs`), `alive` says whether
the program still holds a reference to a multi. `in_multi` is libcurl's own
idea of the attachment and the only external state. `stack[t]` has one frame
per window that thread `t` has open, a window being the code between
`PYCURL_BEGIN_ALLOW_THREADS` and the matching `END`. The code between two
windows runs under the GIL, so it is one action: `AddHandle` is
`do_multi_add_handle` up to and including BEGIN, `AddEnd`, `AddRefused` and
`AddUndo` are its three continuations after END. The innermost frame is at
"lib" or at "py"; at "py" (in a callback) the thread may make any call, and a
call made there is a frame on top. `EnterCallback` is possible when
`CallbackSlots`, the slots of the objects libcurl may call back for, has one
that is set: a NULL slot makes `pycurl_python_enter` return 0 and the callback
is skipped.

`close()` of a multi is a loop with windows of its own: the "mloop" frame holds
what is left of the snapshot, `LoopDetach`/`LoopDetachEnd` one removal,
`LoopClose` the nested `easy.close()` of `close_handles`, whose cleanup window
lies on top, `LoopEnd` the cleanup of the multi. `LoopAbort` ends the loop half
way: the easy's close() is refused (another thread has begun to use the easy as
soon as it was detached), or close() of a subclass raises, before it has closed
the easy or after. The multi is then open, with the easies that were left.
`DropMulti` is the deallocation, which runs the same loop without closing.

**Discipline.** The checks of the code do not refuse every misuse, and
`doc/thread-safety.rst` says so ("Misuse PycURL cannot detect remains undefined
behavior"). `Gaps` names four patterns of use that no check refuses; a run
with a pattern outside `Gaps` leaves it out of the calls (`Allow`), a run with
it shows what it does. With `Gaps = {}` the calls left out are exactly:
using an easy whose `add_handle` is under way; using, from another thread, a
multi (or an easy on it) whose `close()` is under way, or adding to it from a
callback of that close; using a multi while an easy on it is inside its own
perform/send/recv; dropping the last reference to a multi while `pause()` or
`close()` of one of its easies is inside libcurl.

### AsyncMulti

`futures` is `_futures`; `timer` and `notify` say whether `_timer` and
`_notify_handle` are set; `closed` is `_closing` (nothing awaits inside
`aclose()`, so `_multi.closed` follows in the same step). `fstate` and `fcurl`
are the asyncio futures, one for each call of `add_handle`. The event loop is
`ready`, its queue of handles, and `later`, the live `call_later` handles.
libcurl is external: `attached` and `msgs` (what `info_read` would report),
`watched` (sockets it asked to watch) and `armed` (it asked for a timeout).

A method runs to its end without awaiting, so a method together with the
libcurl callbacks it provokes is one action: `AddHandle` contains the
`_on_timer` call that `curl_multi_add_handle` makes, `RemoveHandle` the one of
`curl_multi_remove_handle`, the loss of the watchers (`POLL_REMOVE`) and the
cancellation. `LibTimer` is what those calls of `_on_timer` add up to. What
interleaves are the handles of the loop (`FireTimeout`, `SocketReady`,
`DrainFromNotify`, `OnFutureDone`), run in the order of the queue, and the
calls of the program between them; each handle finds a state that may have
changed since it was scheduled. `notify_supported` is both builds: with
libcurl's notifications a drain is scheduled, without them `_drive` drains at
once.

`SocketReady` and `SocketStale` are `_on_readable`/`_on_writable` with the
descriptor's state registered or not. A handle has one socket; readers, writers
and descriptor numbers are the subject of `AsyncSockets`. `CloseEasy` is
`Curl.close()` by the program of an easy it has registered, which leaves the
future in the table; `NoOrphans` and `Resolves` make that one exception.

`Uses` names three things that break a promise. "readd" is adding a handle
again before the done callback of its previous future has run. "callback" is
removing a handle from a libcurl callback: `remove_handle()` takes the future
out of the table before `CurlMulti.remove_handle` raises, so that nothing
settles it any more (`async_multi.py:192`). "raise" is a callback of an easy
that leaves an exception pending in `socket_action()`: from then on the window
skips the notify, timer and socket callbacks (`multi.c:465-469`,
`pycurl.h:353-358`), so that libcurl's timer, messages and wishes to watch are
not told, and `socket_action()` raises the exception. If it is a `pycurl.error`
`_drive` fails every future (`DriveFails`); any other goes through `_drive`,
which then fails nothing and drains nothing (`DriveRaises`). The history
variable `lost` says that this has happened; a message that is left is read by
the next drain that some other transfer causes (`Drain`).

With "raise" `Resolves` fails: a message that is left unread is a future that
stays pending until some other transfer causes a drain, or until `aclose()`.
The run `async` has none of the three, `async_uses` has all of them and checks
what holds all the same, `async_readd` shows what "readd" does. That
`SnapshotComplete`, `NoOrphans` and `ClosedIsQuiet` survive "raise" is proved.
`aclose()` removes every handle before it closes the multi, so its argument
close_handles has nothing left to close.

### AsyncSockets

What `AsyncMulti` leaves out of its one socket per handle. `wants` and
`socketp` are libcurl's entry of a descriptor number, `registered` the two
flags of a `_SocketState`, `watchers` the readers and writers of the event
loop, `ready` those whose handle the loop has queued and not run.
`_assigned_fds` and `_closing` have their names. `OnRemove`, `OnNone` and
`OnInterest` are the three branches of `_on_socket`; `Poll` and `Remove` are
libcurl calling it in a window (`Call`, `OnReady`, `Aclose`).
`PollSkipped`, `RemoveSkipped` and `WatchFails` are the callbacks that were not
run, or that raised because the loop refused the descriptor: from then on
(`lost`) the loop and libcurl may differ, and only what `aclose()` promises is
asked for. A handle the loop has queued is cancelled when its watcher is
replaced or removed, as asyncio does; a number is free for the next socket as
soon as libcurl has reported its removal. The use "stale" makes it free also
when that report was skipped, the use "half" lets the loop take the reader of a
new socket and refuse its writer; each leaves a watcher after `aclose()`.

### EasyOpts

libcurl copies most option values. For the others `lib[e]` is its pointer and
`ref[e]` the reference of the Curl object (`httppost`, `mimepost_obj`,
`postfields_obj`, `curl_url` and the ten lists, of which "list" is one); for
callbacks `fn[e]` are the C functions libcurl has, `data[e]` the Curl object
each of them is called with, `cb[e]` the callables. One callback stands for
those whose C function tests for a missing callable ("header"), one for those
that do not ("closesocket"), and "ssl_ctx" for the function of
`set_ca_certs()`. Sizes are not modelled: POSTFIELDSIZE is an integer that
libcurl copies, set by POSTFIELDS, COPYPOSTFIELDS and by the program itself.

A setopt() that drops the old value before it stores the new one has two steps:
the second is `Finish`, and between the two runs whatever finalizer the old
value had (`todo`). Without the use "finalizer" nothing else happens between.
`conn` are the easies with a live connection that will call closesocket.
`Clear` is the collector's `tp_clear` of an easy in a cycle, after which only
`Dealloc` follows.

`Uses` names five ways of use that break a promise and that no check of the
code refuses; the module's head lists them. Each was found by a run with it:
the finalizer that calls the easy again breaks `KeptByOwn`,
`CallbackFindsCallable` and `BodyIsSent`; unsetting HTTPPOST while a mime is set
unsets both in libcurl and keeps the mime (`BodyIsSent`);
unsetopt(WRITEHEADER) takes the data pointer of the header callback
(`CallbackFindsCallable`); "live_socket" is the finding of the run
`opts_socket`. "fail" is a setopt() of which a later step fails after the first
has been made: libcurl refuses the form after it has given up the mime
(`SetHttppostRefused`), or there is no memory for the object that is to keep a
form or a list, and the code makes libcurl forget it before it is freed, while
the old value stays referenced (`SetHttppostUnkept`, `SetObject`). After that
the Curl object may hold a body that libcurl does not send, so `BodyIsSent` is
not asked for; that `KeptByOwn` holds with "fail" is proved.

### CurlShare

`share[e]` and `lib[e]` are the pointers of the Curl object and of libcurl's
handle, `weakrefs[s]` is `easy_weakrefs`, `api_lock[s]` the lock of the same
name, `share_handle` and `freed` what `close()` and libcurl have done. `op[t]`
is the method thread t is in, with the step it is at. The steps are those
between two uses of `api_lock`: a free-threaded build may interleave any of
them, a build with the GIL fewer. `SetShare`, `Register` and `Undo` are the
three parts of setopt(SHARE); `Unshare`/`Unregister`; `CloseEasy`, `Leave`,
`ReleaseShare`, `Cleanup` those of an easy that closes; `CloseShare` and
`CloseShareEnd` begin and end `close()`, and for each easy of the set it tests
whether the easy is idle (`ScanTest`) and detaches it (`ScanDetach`), two
steps, for perform() takes no `api_lock`, or counts it. `SetKinds`, `SetKind`,
`SetKindsEnd` are share() and unshare(), which may fail at any kind, for any
reason. libcurl does not free a share that an easy still points to (`Decref`,
`CloseShareEnd`), and refuses to change one.

The rules in `MayUse` and `MayClose` are those of the documentation: one thread
at a time on an easy, and nobody attaches to or uses an easy of a share while
another thread closes the share (`share_close.rst`); transfers that already run
go on. The use "close" gives the second rule up: an easy may then start to run
between the test and the detach (`RunningKeepsShare` fails), or be attached
while the share is closed (`ClosedIsUnused` fails). The use "drop", another
thread letting the last reference to an easy go while the loop of `close()`
looks at it, makes the loop deallocate the easy with `api_lock` held, and the
dealloc waits for the lock: `LockReturned` fails.

### MimeOwners

Two worlds: libcurl's trees (`lives`, `home`, `content`, and for an easy
`posts`, a pointer to a tree, or `copy`, the arguments in its own deep copy) and
pycurl's wrappers (`status`, `curl`, `owns`, `subs`, `owners`, `partOf`,
`held`). `refs` is `shared_refcount`, `freed` is `free_called`. Everything that
libcurl would send except a data callback or subparts is the content NULL;
`Add` is the three builder methods, which are `addpart()` followed by plain
content. `Count` does what a call changes in the counts: one more for each
owner gained, one less for each free call, the free callback when zero is
reached.

`Uses` names four sequences the code accepts and does not handle: closing a
wrapper whose tree lives on as subparts (its owners are no longer listed, so a
duplicate is not counted: the free callback runs while the duplicate may still
read), duplicating a duplicate whose original has changed, replacing the
content of a part with subparts (the wrappers below stay open on a freed tree),
and a data() that fails after libcurl has dropped the old content. Without them
counts and trees agree. A data_cb() that libcurl refuses undoes what it has
listed and counted, so nothing changes and it has no action.

### Callbacks

A thread is a stack of windows and callbacks; a callback ends with a good
value, a wrong one, an Exception or an exit (KeyboardInterrupt, SystemExit).
Each of the 21 callbacks of an easy, the three of a multi and the three of a
mime is one operator from what it ended with to the answers it gives libcurl
and the exception it leaves pending: most report an Exception themselves and
keep an exit (`Prints`); the family that goes through
`callback_return_value_to_int` keeps both (`Passes`). The answer "ignored" is
one that libcurl does not look at, or can work around. `Skip` is a callback
that finds an exception pending and does not enter Python. The method whose
window it was raises what is pending (`CheckPending`) or, for the methods that
only link handles, returns without looking (`Unchecked`): the interpreter then
raises SystemError in place of the value and the exception. A deallocation, and
the windows of a multi's close() that are followed by easy.close(), leave the
exception to the code that goes on (`Unasked`, `Notice`).

The read, seek and free callbacks of a mime take the GIL with PyGILState_Ensure
and do not look whether an exception is pending (`EnterMime`); one that does
run with an exception pending ends as if it had raised SystemError, and an exit
it met is gone. A KeyboardInterrupt of the free callback itself is printed and
dropped by PyErr_WriteUnraisable (`mime.c:191`). With the use "mime" these
callbacks occur. Then `ExitDelivered`, what the documentation says of
KeyboardInterrupt and SystemExit, is false, and `ExitKept` says how far it is
true: an exit is lost only while a mime callback that began with an exception
pending is on the stack. The use "link" lets a callback in the window of a
linking method or a deallocation leave an exception; it breaks `CleanPython`,
`ExitKept` and `ExitDelivered`, and `StopsWhilePending` and the properties of
the flag hold with it all the same.

`ws_write_cb_running` is set and put back around the write callback, and
`MaySend` is `check_ws_curl_state`. Links between easies and multis do not
change here; that is `EasyMulti`'s subject.

### MultiSockets

`socketp` is libcurl's borrowed pointer beside each socket it knows, `dict` is
`socket_object_dict`, `call` the socket callback under way: at "libcurl" the
argument has been read and the GIL is not yet held, at "python" the callback
runs. `Assign` is assign() (and unassign(), with NULL) with its roll-back.
`Close` and `Dealloc` go through two windows, the removal of the easies and
curl_multi_cleanup, each with callbacks. `CloseFails` is the close() that ends
in its first window because an easy could not be closed: the multi is open
again, with its dict. The use "other_thread" lets any thread call assign()
while the multi is driven, which breaks `ArgAlive`: the check of assign() does
not refuse it, the documentation of threads does.

## Runs

| Run | Instance | Shows |
|---|---|---|
| `em_threads` | 2 threads, 2 easies, 2 multis (one with close_handles), depth 3, no gap | the safety properties and the refinement of `Attachment`, a close() of a multi that ends half way included |
| `em_gaps` | 1 thread, depth 4, gaps add, close, io | slots survive these three; the branch of `close()` that only they reach |
| `async` | 2 handles, 2 futures, no special use, both builds, fair | table, libcurl and futures agree; a closed object is quiet; every future resolves |
| `async_uses` | 2 handles, 2 futures, all uses, close_handles set | handles of the loop and outcomes are right whatever the program does, timer and messages until a callback is lost |
| `mime` | 3 easies, 2 mimes, 3 parts, 2 owners, no use | counts are exact, the free callback runs on the last free, wrappers are live |
| `share` | 2 threads, 3 easies, 1 share, 1 kind, no use, fair | the three pointers agree; no freed share is used; no running easy loses its share; the lock is given back |
| `callbacks` | 2 threads, 2 easies, 1 multi, depth 4, use "mime" | exceptions stop the transfer; an exit is lost only in a mime callback; ws_send() only where allowed |
| `opts` | 2 easies, 2 objects, four options with pointers, no use | libcurl points only to what the same easy keeps |
| `sockets` | 3 sockets, 2 objects, no use | arguments of the socket callback are alive; a refused assign() changes nothing |
| `async_sockets` | 2 descriptor numbers, 3 state objects, no use | the loop watches what libcurl wants; no event reaches another socket; `aclose()` leaves no watcher |
| `async_readd` | 2 handles, 2 futures, use "readd" | a future that is pending for ever (finding) |
| `opts_socket` | 1 easy, use "live_socket" | a close-socket function without its callable (finding) |

Bounds. In `EasyMulti` and `Callbacks`, `MaxDepth` bounds the nesting of calls
made from callbacks; it is their only bound. Two threads and two easies are
enough for every conflict a slot can have (a slot is written by one BEGIN and
overwritten by another), two multis for an easy that is wanted by both, and
depth 3 for a call made in a callback of a call made in a callback; `em_gaps`
and `callbacks` go to depth 4, which is two windows with a callback in each.
Deadlock is not checked there, nor in the runs of `AsyncMulti`, `AsyncSockets`,
`MimeOwners` and `CurlShare`: a program may close everything, use up its
objects and stop. In the runs of `EasyOpts` and in `sockets` it is checked.

In `AsyncMulti` the number of futures bounds the calls of `add_handle`; nothing
else is bounded, the queue being finite because each handle is tracked. Two
handles are needed for a drain that settles one while the other goes on; two
futures for two transfers at once, or for a handle that is used again. A
symmetry of handles and of futures is declared for the safety runs only.

In `AsyncSockets` two numbers give one that is used again beside one that is
not; a state object is free again when neither libcurl nor the loop refers to
it, so that three are one more than two live sockets need.

In `MimeOwners` the sets are the bound: an owner is used for one data_cb(), a
mime and a part for one object. Three easies allow an original and two
duplicates, two mimes a tree and a subtree, three parts a subtree beside two
data callbacks, or a tree two levels deep. In `EasyOpts` an easy is used again
after dealloc, so nothing is used up; two objects give an old and a new value,
two easies an original and a duplicate. Options of one kind do not interact, so
one of each kind is enough ("curlu" behaves as "list" does and is left to the
proofs). In `CurlShare` three easies give an idle, a running and an arriving
one, and two threads one that closes and one that does not; a kind is one
bit. In `MultiSockets` two objects give an old and a new one, and three
sockets a known, an unknown and a forgotten one at once.

Fairness. `EasyMulti`, `MimeOwners`, `Callbacks`, `EasyOpts`, `MultiSockets`
and `AsyncSockets` state none and have only safety properties. `LiveSpec` of
`AsyncMulti` assumes that asyncio runs the head of its queue, fires its timers
and reports watched sockets (weak fairness: the loop does each of these on
every iteration), and that libcurl ends a transfer it is driven through again
and again (strong fairness: peers answer or libcurl's own timeouts strike; a
transfer without either never ends in reality, and then neither does its
future). That libcurl waits for something as long as a transfer goes on is not
fairness but its contract, `Covered`. `LiveSpec` of `CurlShare` assumes that a
thread inside a method is scheduled again (weak fairness of `Step`), which
every thread library gives; a step that waits for `api_lock` is not enabled and
not forced. Nothing is assumed of the program, which may stop calling or close
an easy at any time.

**Known limits of the code.** The runs leave out what `Gaps` and `Uses` name.
Each such pattern was put into a run on its own while the module was written,
and what it breaks is recorded with its hazard in PROJECT.json: in
`EasyMulti`, closing an easy from a callback of its own `add_handle`
(`multi.c:1082`, a closed easy keeps its multi), pausing inside an easy's own
perform() while it is on a multi (`easyperform.c:304`), adding to a multi from
a callback of its `close()` (`multi.c:168`), and dropping the last reference to
a multi inside `pause()` or `close()` of its easy (`pycurl.h:330`).

The code does not look at the result of `curl_multi_remove_handle` where it
closes an easy, a multi or undoes an add (`easy.c:680`, `multi.c:190`,
`multi.c:1085`), and the model lets these calls succeed. libcurl refuses them
only inside a callback of that very multi and for a handle that is not on it;
the checks of the code keep the first away, and `AttachAgrees` the second.
`curl_multi_remove_handle` called by `remove_handle()` may be refused in the
model as in the code.

In `AsyncMulti` and `Callbacks` three uses that break a promise of the
documentation are in the models and not in the runs that check the promise. An
exception other than `pycurl.error` that a callback of an easy leaves goes
through `_drive`, and the future of a transfer that has ended stays pending
(`async_multi.py:436`, "raise" against `Resolves`). An exit that meets a data
callback of a mime (`mime.c:286`, "mime") or that was left in the window of
add_handle() and its like (`multi.c:1076`, "link") becomes a SystemError, where
`callbacks.rst:49` says that it is re-raised to the caller (`ExitDelivered`).

**Findings.** Two runs end in a violation, each a disagreement of the code with
its own documentation, with the lines in PROJECT.json. `async_readd`: the done
callback of a removed transfer does not compare futures and takes out the
transfer added again, although "every pending future" is to be in `futures()`.
`opts_socket`: unsetting CLOSESOCKETFUNCTION, or reset(), while a connection is
alive leaves libcurl with a function whose callable is NULL.

## Proofs

`EasyMultiProofs!TypeCorrect`: `Spec => []TypeOK`, for any sets, any depth and
any `Gaps`. The invariant is inductive by itself; the proof has one lemma for
each group of actions (calls on an easy, on a multi, returns, the loop of
`close()`, callbacks) and one step for each action, over lemmas about what
`Push`, `Pop` and `Replace` do to a stack. It assumes `NullAssumption` (NULL is
no easy, multi or thread) and `ParamAssumption`.

`EasyMultiProofs!SlotsSafe`: `Spec => []SlotOwned` if `Gaps = {}`, for any sets
and any depth: as long as the program keeps to the rules listed under
*Discipline*, whatever threads and callbacks do, the slot of every open window
holds the thread state of the thread that opened it.

`SlotOwned` alone is not inductive: to know that the slot under a frame is
still right when the frame above it returns, one has to know what may lie
above. The inductive invariant `SlotInv` has three parts. `Sound` is about one
frame: its slot is its thread's, and an easy that is being detached or added
still has the `multi_stack` that END will read again. `Nested` is about two
frames of one thread: the upper one uses the same slot only if it is a
`pause()`, and then the value it saved is this very thread. `Separate` is about
frames of two threads: while one is closing a multi the other has no window on
it, and no two calls add the same easy. The proof first shows how the invariant
of all stacks follows from what a step keeps of the old frames and establishes
for the new one (`Rebuild`, `PushInv`, `PopInv`, `ReplaceInv`), then goes
through the actions, one lemma for each group. It uses the same assumptions on
the constants as `TypeCorrect`. With the gap "drop" allowed the theorem is
false: END then reads the slot of a freed multi.

The rest of `EasyMulti`'s properties follow in the same module, all if
`Gaps = {}`: `AssertsHold` (`SlotAsserts`), `CallbacksFindThread`
(`CallbacksReady`), `ClosedDetached` (`ClosedIsDetached`), `NothingFreed`
(`KeptAlive`), `SidesAgree` (`AttachAgrees`), `EmptyAtCleanup`
(`MultiEmptyAtCleanup`), and `CallsAtomic`: `EasyMulti` implements `Attachment`
(`Atomic`), that is, with its windows, callbacks and the loop of `close()` every
call is one step on who is attached to whom, or none. What they need besides
`SlotInv` is `LinkInv`. It says for every open window what the code after END
will rely on (`FramesLinked`), for two windows which of them may be about the
same easy or the same multi (`FramesApart`), and for an easy that no window is
moving where it is and who keeps it alive (`Placed`). The step of a thread is
described once, by the frames that stay and those that join (`StackStep`), and
one lemma rebuilds the invariant from it. One lemma came as a surprise:
`NeverUnlinks`. The branch of `close()` that only forgets the multi of an easy
whose handle is gone, instead of detaching it, cannot be reached under the
discipline; only the run `em_gaps` gets there.

`MultiSocketsProofs`: `ArgsLive`, `PointersKept`, `DyingSilent` and `DictAgreed`
(`ArgAlive`, `PointerKept`, `DyingIsSilent`, `ChangesAgreed`), for any sockets
and objects. Only `ArgsLive` needs that no other thread calls assign()
(`OneThread`): such a call never parts the dict from libcurl's pointers, but it
can come between libcurl's reading of a pointer and the callback. `ArgAlive` is
inductive only together with what the phases of closing mean: which window goes
with which status, that a callback belongs to a window, that its argument is
libcurl's pointer while libcurl knows the socket, that a dying multi has no
callable.

`EasyOptsProofs`, for any easies and objects and any choice of the options:
`OptionsKept` (`KeptByOwn`), `CallablesFound` (`CallbackFindsCallable`) and
`ClosedHolds` if the only use is "fail" (`Clean`), `BodySent` (`BodyIsSent`) if
`Uses = {}`. The properties say nothing while a method is half way, so the
inductive invariant says for every easy what the second half will find: which
reference is missing and which pointer is already there for "postfields" and
"httppost", that a callback's callable is missing and its data its own, that
after the first half of reset() libcurl points to nothing. Otherwise pointer
and reference are equal (`Agree`), or, once a setopt() has failed half way, the
pointer is NULL. At most one easy is half way, and only that one can take a
step; what the invariant says of an easy that is closed or not yet made is that
libcurl and the Curl object have nothing.

`AsyncSocketsProofs`: `WatchersRight` and `EventsOwn` (`WatchersFollow`,
`OwnEvents`) for any descriptors, states and `Uses`; `ClosedSwept`
(`ClosedUnwatched`) if `Uses = {}` (`Plain`). Both uses begin with a callback
that is lost, so until then the invariant holds anyway (`Early`). It says what
a state object means: while libcurl hands it out it says exactly which watchers
the number has, no two numbers share one, and a number that is watched without
one is in `_assigned_fds`, where the sweep of `aclose()` finds it. That
libcurl's wishes agree with it is claimed only while no callback was lost. One
lemma (`WatchFits`) says what a change of the watchers does, for a known socket
and for a new one.

`CurlShareProofs`: `TypeCorrect` for any easies, shares, threads and `Uses`;
`Attached`, `ClosedUnused` and `RunningKept` (`AttachedAgrees`,
`ClosedIsUnused`, `RunningKeepsShare`) if `Uses = {}` (`Ruled`). The invariant
`Inv` says of every step of a method what the Curl object and libcurl point to
there (`Stage`), that no two threads are at one easy (`Alone`), that `close()`
of a share is the only method at it and still has before it, or has counted,
every easy that uses the share (`Scanned`), and that exactly the shares that
are not open are freed (`Open`). `RunningKept` needs besides that the easy
between test and detach stays idle and with the share (`Tested`), which is
where the rule of the documentation is used; no check of the code says it. The
steps of an easy's methods go through two lemmas, one for a method that starts
(`StartInv`) and one for a method that goes on or ends (`MethodInv`); a dropped
reference frees only a share that nothing points to (`DecrefOpen`).

`CallbacksProofs`, for any easies, multis, threads and depth: `TypeCorrect`,
`PendingStops` (`StopsWhilePending`), `FlagIsRight` (`FlagMatches`) and
`SentFromWrite` (`SendsInWrite`) for any `Uses`; `PythonIsClean` (`CleanPython`)
and `ExitsKept` (`ExitKept`) without "link"; `ExitReachesCaller`
(`ExitDelivered`) if `Uses = {}`. The invariant `CbInv` orders the windows of a
slot: all are of one thread, and only the innermost of them on that thread's
stack has found the slot set, so the saved thread states and the saved values
of `ws_write_cb_running` come back in the opposite order. `Confined` adds where
a thread with an exception pending can be: in a window of a method that will
ask for it, or inside a callback of a mime. That is what "link" breaks.

`AsyncMultiProofs`: `TypeCorrect`, `StrandsNone` (`NoneStranded`),
`HandlesAccounted` (`HandlesTracked`), `MessagesAreHeard` (`MessagesHeard`) and
`OutcomesAreOwn` (`OwnOutcome`) for any easies and futures and any `Uses`;
`NothingOrphaned` (`NoOrphans`) without "callback"; `FuturesShown`
(`SnapshotComplete`) and `QuietWhenClosed` (`ClosedIsQuiet`) without "callback"
and "readd". None of them excludes "raise": `NoneStranded` and `MessagesHeard`
speak of the time before a callback is lost, and the others hold after it too.
The invariant `Inv` accounts for every handle in the ready queue: at most one
timeout and one drain, according to `timer` and `notify`, and done callbacks of
futures that are done with the handle they had (`Accounted`, `Dones`). `Plain`
adds that a handle in the table is not found by the callback of another future
(`Apart`), which is what "readd" breaks, and that every done future in the
table has its callback queued (`Snapshot`). The order of the queue beyond its
head does not matter, so lemmas say of each operation on a queue what is in the
result and what is in it once. They need `CurlAssumption` (finitely many
easies): a drain puts the callbacks of all resolved futures in the queue.

`MimeOwnersProofs`: `TypeCorrect` for any `Uses`; `OpenAreLive` (`OpenIsLive`)
without "replace"; `CountsExact` (`CountIsExact`), `FreedOnLast` (`FreeOnLast`)
and `TreeKept` (`RunningTreeKept`) if `Uses = {}`. The invariant `TreeInv` says
that an open mime in a part of libcurl is below the open wrapper of that part's
mime (`Below`), that what has a parent owns nothing (`Wrappers`) and that an
easy sends a mime of its own (`Posts`); `CountInv` adds that a wrapper lists
exactly the owners in the parts of its mime and only mimes that are its
children (`Listed`), that no owner is in two parts (`Single`) and the two
properties. Both were checked by TLC on the run's instance before they were
proved. What is reached along `subs` or along libcurl's children is the least
set closed under it (`Closure`), so a proof about a whole tree names a set that
is closed (`ClosureLeast`) and no induction is needed. `OwnersAgree`: what
libcurl would copy with a tree is what the wrappers list. `CountStep`: if every
tree that a step makes is counted once and every tree that it frees is freed
once, the counts stay exact. `KindsAssumption` keeps easies apart from parts
and mimes from owners, and says that there are finitely many easies and parts,
or no count could be exact. `TreeKept` rests on `TreeHasOneCurl`: the guard of
each call looks at the easy of one wrapper, and all open wrappers of a tree
have the same.

Only model-checked: `Resolves` and `LockReturned`, which are liveness under
fairness and out of the proof system's reach. Every other property of a passing
run is stated by a theorem.

## Plan

1. Proofs: weaker assumptions where a theorem still assumes that there are no
   special uses at all and only some of them break the property (`CurlShare`,
   `MimeOwners`).
2. The queues of `info_read` and the sets of notify_enable.
3. A connection cache that outlives its easy, in a multi and in a share.

## Not modelled

`getinfo`, the URL handle (one lock around each call), module initialisation
and constants, conversion of strings, the build, and the high-level `curl`
package: they keep no state that two actors share, or only format data. Of the
modelled components are left out: options whose value libcurl copies; the
attribute dictionary, pickling and context managers; `fdset`, `select`,
`timeout` and `info_read` of a multi, which read libcurl's state;
`notify_enable`, whose bits libcurl keeps; libcurl's own data locks of a share;
free callbacks that call back into the tree they are freed from; connections
that outlive their easy in the cache of a multi or a share. Failures of memory
allocation are modelled where the code has a recovery path (`AddUndo`, `Undo`,
`Forget`, `SetObject`, `SetHttppostUnkept`), not elsewhere. An exception that a
close-socket callback leaves in the window of `CurlMulti.remove_handle` or of
`close()` is in `Callbacks`, but not in `AsyncMulti`, where it would lose a
future as the use "callback" does. libcurl, CPython and asyncio are modelled as
far as PycURL depends on them and marked external.
