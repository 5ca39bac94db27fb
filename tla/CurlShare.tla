----------------------------- MODULE CurlShare -----------------------------
(***************************************************************************)
(* CurlShare objects and the easies attached to them (share.c, the SHARE   *)
(* option in easyopt.c, close() in easy.c) on a free-threaded build, where *)
(* every step between two uses of api_lock may be interleaved with the     *)
(* steps of other threads.  With a GIL the same steps run without          *)
(* interruption, except that the cleanup of an easy releases the GIL, so   *)
(* its behaviours are among these.                                         *)
(*                                                                         *)
(* A share knows its easies through a set of weak references, an easy owns *)
(* a reference to its share, and libcurl keeps a pointer of its own.  The  *)
(* three must agree whenever nobody is changing them, or close() frees a   *)
(* share that libcurl still uses.                                          *)
(***************************************************************************)
EXTENDS Naturals

CONSTANTS
    Easy, Share, Thread,
    Kind,       \* the CURL_LOCK_DATA_* kinds
    NULL,
    Uses        \* what the program does against the rules

(***************************************************************************)
(* The rules: an easy is used by one thread at a time                      *)
(* (doc/thread-safety.rst), and nobody uses an easy of a share, or         *)
(* attaches one, while another thread is in close() of that share          *)
(* (doc/docstrings/share_close.rst), except that perform() may go on.      *)
(*   "close"  the second rule is not kept                                  *)
(*   "drop"   another thread lets the last reference to an easy go while   *)
(*            close() of its share looks at that easy                      *)
(***************************************************************************)
ASSUME NullAssumption == NULL \notin Easy \cup Share \cup Thread
ASSUME ParamAssumption == Uses \subseteq {"close", "drop"}

VARIABLES
    handle,     \* the easies whose CurlObject.handle is not NULL
    running,    \* the easies inside perform()
    share,      \* [Easy -> Share or NULL]: CurlObject.share
    lib,        \* [Easy -> Share or NULL]: libcurl's own pointer
    detach_on_close, \* the shares constructed with detach_on_close=True
    named,      \* the shares the program holds a reference to
    share_handle, \* the shares whose share_handle is not NULL
    freed,      \* the shares that curl_share_cleanup has freed
    weakrefs,   \* [Share -> SUBSET Easy]: easy_weakrefs
    kinds,      \* [Share -> SUBSET Kind]: what libcurl shares
    api_lock,   \* [Share -> Thread or NULL]
    op          \* [Thread -> Op]: the method a thread is in

easies == <<handle, running, share, lib>>
shares == <<detach_on_close, named, share_handle, freed, weakrefs, kinds, api_lock>>
vars == <<easies, shares, op>>

(* at: the next step; e, s: its objects; todo: what the loop of close() or *)
(* share() has left; tested: the easy that the loop of close() has found   *)
(* idle and is about to detach; live: those it cannot detach.              *)
Op == [at : {"idle", "register", "undo", "unregister", "leave", "release",
             "cleanup", "scan", "share", "unshare"},
       e : Easy \cup {NULL}, s : Share \cup {NULL},
       todo : SUBSET (Easy \cup Kind), tested : SUBSET Easy, live : SUBSET Easy]
On(at, e, s) ==
    [at |-> at, e |-> e, s |-> s, todo |-> {}, tested |-> {}, live |-> {}]
Idle == On("idle", NULL, NULL)
Locked(at, s, todo) == [On(at, NULL, s) EXCEPT !.todo = todo]

Init ==
    /\ handle = Easy /\ running = {}
    /\ share = [e \in Easy |-> NULL]
    /\ lib = [e \in Easy |-> NULL]
    /\ detach_on_close \in SUBSET Share
    /\ named = Share /\ share_handle = Share /\ freed = {}
    /\ weakrefs = [s \in Share |-> {}]
    /\ kinds = [s \in Share |-> {}]
    /\ api_lock = [s \in Share |-> NULL]
    /\ op = [t \in Thread |-> Idle]

Closing(t) == op[t].at = "scan"
Others(t) == Thread \ {t}

(* The rules of the program.                                               *)
MayUse(t, e, s) ==
    /\ op[t] = Idle
    /\ \A u \in Others(t) : op[u].e # e
    /\ "close" \in Uses \/ \A u \in Others(t) : ~(Closing(u) /\ op[u].s = s)
MayClose(t, s) ==
    \/ "close" \in Uses
    \/ \A u \in Others(t) : op[u].s # s \/ op[u].at \in {"scan", "share", "unshare"}

Go(t, at, e, s) == op' = [op EXCEPT ![t] = On(at, e, s)]

(* Py_DECREF of s by t, once share' and lib' are set: the last reference    *)
(* closes the share.  libcurl does not free a share that an easy points to. *)
Decref(t, s) ==
    LET gone == /\ s \in share_handle /\ s \notin named
                /\ \A e \in Easy : share'[e] # s
                /\ \A u \in Others(t) : op[u].s # s
        used == \E e \in Easy : lib'[e] = s
    IN  /\ share_handle' = IF gone THEN share_handle \ {s} ELSE share_handle
        /\ freed' = IF gone /\ ~used THEN freed \cup {s} ELSE freed

-----------------------------------------------------------------------------
(* perform(): the window in which an easy is running.                      *)
Perform(t, e) ==
    /\ MayUse(t, e, share[e])
    /\ e \in handle \ running
    /\ running' = running \cup {e}
    /\ UNCHANGED <<handle, share, lib, shares, op>>

PerformEnd(e) ==
    /\ e \in running
    /\ running' = running \ {e}
    /\ UNCHANGED <<handle, share, lib, shares, op>>

(* setopt(SHARE, s): libcurl first, a closed share being no share; then    *)
(* the reference, then the set, which refuses a closed share.              *)
SetShare(t, e, s) ==
    /\ MayUse(t, e, s)
    /\ e \in handle \ running /\ share[e] = NULL /\ s \in named
    /\ lib' = [lib EXCEPT ![e] = IF s \in share_handle THEN s ELSE NULL]
    /\ share' = [share EXCEPT ![e] = s]
    /\ Go(t, "register", e, s)
    /\ UNCHANGED <<handle, running, shares>>

Register(t) ==
    LET e == op[t].e
        s == op[t].s
    IN  /\ op[t].at = "register" /\ api_lock[s] = NULL
        /\ IF s \in share_handle
           THEN /\ weakrefs' = [weakrefs EXCEPT ![s] = @ \cup {e}]
                /\ op' = [op EXCEPT ![t] = Idle]
           ELSE Go(t, "undo", e, s) /\ UNCHANGED weakrefs
        /\ UNCHANGED <<easies, detach_on_close, named, share_handle, freed, kinds, api_lock>>

Undo(t) ==
    LET e == op[t].e
        s == op[t].s
    IN  /\ op[t].at = "undo"
        /\ lib' = [lib EXCEPT ![e] = NULL]
        /\ share' = [share EXCEPT ![e] = NULL]
        /\ op' = [op EXCEPT ![t] = Idle]
        /\ UNCHANGED <<handle, running, shares>>

(* setopt(SHARE, None) and unsetopt(SHARE): libcurl, the set, the          *)
(* reference.                                                              *)
Unshare(t, e) ==
    /\ share[e] # NULL /\ MayUse(t, e, share[e])
    /\ e \in handle \ running
    /\ lib' = [lib EXCEPT ![e] = NULL]
    /\ Go(t, "unregister", e, share[e])
    /\ UNCHANGED <<handle, running, share, shares>>

(* share_unregister_easy: without memory for a weak reference to look the  *)
(* easy up with, the old one stays in the set.                             *)
Forget(e, s) == weakrefs' \in {weakrefs, [weakrefs EXCEPT ![s] = @ \ {e}]}

Unregister(t) ==
    LET e == op[t].e
        s == op[t].s
    IN  /\ op[t].at = "unregister" /\ api_lock[s] = NULL
        /\ Forget(e, s)
        /\ share' = [share EXCEPT ![e] = NULL]
        /\ op' = [op EXCEPT ![t] = Idle]
        /\ UNCHANGED <<handle, running, lib, detach_on_close, named, kinds, api_lock>>
        /\ Decref(t, s)

(* close() of an easy, or its dealloc if this drops the last reference:     *)
(* the set, the reference, libcurl, then the cleanup, which runs callbacks. *)
CloseEasy(t, e) ==
    /\ MayUse(t, e, share[e])
    /\ e \in handle \ running
    /\ Go(t, IF share[e] = NULL THEN "cleanup" ELSE "leave", e, share[e])
    /\ UNCHANGED <<handle, running, share, lib, shares>>

Leave(t) ==
    LET e == op[t].e
        s == op[t].s
    IN  /\ op[t].at = "leave" /\ api_lock[s] = NULL
        /\ Forget(e, s)
        /\ share' = [share EXCEPT ![e] = NULL]
        /\ Go(t, "release", e, s)
        /\ UNCHANGED <<handle, running, lib, detach_on_close, named, share_handle, freed, kinds, api_lock>>

(* libcurl is told unless the share is closed; the reference goes.         *)
ReleaseShare(t) ==
    LET e == op[t].e
        s == op[t].s
    IN  /\ op[t].at = "release"
        /\ lib' = IF s \in share_handle THEN [lib EXCEPT ![e] = NULL] ELSE lib
        /\ Go(t, "cleanup", e, NULL)
        /\ UNCHANGED <<handle, running, share, detach_on_close, named, weakrefs, kinds, api_lock>>
        /\ Decref(t, s)

(* curl_easy_cleanup leaves whatever share libcurl still knows.            *)
Cleanup(t) ==
    LET e == op[t].e
    IN  /\ op[t].at = "cleanup"
        /\ lib' = [lib EXCEPT ![e] = NULL]
        /\ handle' = handle \ {e}
        /\ op' = [op EXCEPT ![t] = Idle]
        /\ UNCHANGED <<running, share, shares>>

-----------------------------------------------------------------------------
(* The program's last name for a share goes; a method of the share has one. *)
DropShare(t, s) ==
    /\ op[t] = Idle /\ s \in named
    /\ \A u \in Thread : op[u].s # s \/ op[u].at \notin {"scan", "share", "unshare"}
    /\ named' = named \ {s}
    /\ share' = share /\ lib' = lib
    /\ UNCHANGED <<handle, running, detach_on_close, weakrefs, kinds, api_lock, op>>
    /\ LET gone == /\ s \in share_handle /\ \A e \in Easy : share[e] # s
                   /\ \A u \in Thread : op[u].s # s
       IN  /\ share_handle' = IF gone THEN share_handle \ {s} ELSE share_handle
           /\ freed' = IF gone THEN freed \cup {s} ELSE freed

(* close() of a share: with api_lock held, every easy of the set is        *)
(* detached if it is idle and the share may detach it, else counted.       *)
CloseShare(t, s) ==
    /\ op[t] = Idle /\ s \in named /\ MayClose(t, s)
    /\ api_lock[s] = NULL
    /\ api_lock' = [api_lock EXCEPT ![s] = t]
    /\ op' = [op EXCEPT ![t] = Locked("scan", s, weakrefs[s])]
    /\ UNCHANGED <<easies, detach_on_close, named, share_handle, freed, weakrefs, kinds>>

(* The loop looks at the next easy.                                        *)
Looks(t, e) == Closing(t) /\ op[t].tested = {} /\ e \in op[t].todo

ScanGone(t, e) ==
    /\ Looks(t, e)
    /\ share[e] # op[t].s
    /\ op' = [op EXCEPT ![t].todo = @ \ {e}]
    /\ UNCHANGED <<easies, shares>>

(* bug: an easy inside perform() is detached too *)
ScanTestAny(t, e) ==
    /\ Looks(t, e)
    /\ share[e] = op[t].s /\ op[t].s \in detach_on_close
    /\ op' = [op EXCEPT ![t].tested = {e}]
    /\ UNCHANGED <<easies, shares>>

(* The easy is of this share, and idle.  perform() takes no api_lock.      *)
ScanTest(t, e) ==
    /\ Looks(t, e)
    /\ share[e] = op[t].s /\ op[t].s \in detach_on_close
    /\ e \notin running
    /\ op' = [op EXCEPT ![t].tested = {e}]
    /\ UNCHANGED <<easies, shares>>

(* bug: only the reference is dropped *)
ScanDetachHalf(t, e) ==
    /\ Closing(t) /\ e \in op[t].tested
    /\ share' = [share EXCEPT ![e] = NULL]
    /\ op' = [op EXCEPT ![t].todo = @ \ {e}, ![t].tested = {}]
    /\ UNCHANGED <<handle, running, lib, shares>>

ScanDetach(t, e) ==
    /\ Closing(t) /\ e \in op[t].tested
    /\ lib' = [lib EXCEPT ![e] = NULL]
    /\ share' = [share EXCEPT ![e] = NULL]
    /\ op' = [op EXCEPT ![t].todo = @ \ {e}, ![t].tested = {}]
    /\ UNCHANGED <<handle, running, shares>>

(* If the reference that the loop took is the last one by now, dropping it *)
(* closes the easy here, with api_lock held.                               *)
LastRef == {FALSE} \cup IF "drop" \in Uses THEN {TRUE} ELSE {}

ScanLive(t, e) ==
    LET s == op[t].s
    IN  /\ Looks(t, e)
        /\ share[e] = s
        /\ s \notin detach_on_close \/ e \in running
        /\ \E last \in LastRef :
              IF last /\ e \notin running THEN Go(t, "leave", e, s)
              ELSE op' = [op EXCEPT ![t].todo = @ \ {e}, ![t].live = @ \cup {e}]
        /\ UNCHANGED <<easies, shares>>

(* bug: the easies that are left do not keep the share open *)
CloseShareEndEager(t) ==
    LET s == op[t].s
    IN  /\ Closing(t) /\ op[t].todo = {}
        /\ weakrefs' = [weakrefs EXCEPT ![s] = op[t].live]
        /\ share_handle' = share_handle \ {s}
        /\ freed' = IF \E e \in Easy : lib[e] = s THEN freed ELSE freed \cup {s}
        /\ api_lock' = [api_lock EXCEPT ![s] = NULL]
        /\ op' = [op EXCEPT ![t] = Idle]
        /\ UNCHANGED <<easies, detach_on_close, named, kinds>>

(* The dead and the detached leave the set; the share is closed unless     *)
(* some easy is left.                                                      *)
CloseShareEnd(t) ==
    LET s == op[t].s
        closes == op[t].live = {} /\ s \in share_handle
        busy == \E e \in Easy : lib[e] = s
    IN  /\ Closing(t) /\ op[t].todo = {}
        /\ weakrefs' = [weakrefs EXCEPT ![s] = op[t].live]
        /\ share_handle' = IF closes THEN share_handle \ {s} ELSE share_handle
        /\ freed' = IF closes /\ ~busy THEN freed \cup {s} ELSE freed
        /\ api_lock' = [api_lock EXCEPT ![s] = NULL]
        /\ op' = [op EXCEPT ![t] = Idle]
        /\ UNCHANGED <<easies, detach_on_close, named, kinds>>

(* share(), unshare() and setopt(): the kinds one by one.  libcurl refuses *)
(* a kind while an easy uses the share; for that or another reason (not a  *)
(* number, not a kind) the loop may end early, and what was done stays.    *)
SetKinds(t, s, at, K) ==
    /\ op[t] = Idle /\ s \in named
    /\ api_lock[s] = NULL /\ s \in share_handle
    /\ api_lock' = [api_lock EXCEPT ![s] = t]
    /\ op' = [op EXCEPT ![t] = Locked(at, s, K)]
    /\ UNCHANGED <<easies, detach_on_close, named, share_handle, freed, weakrefs, kinds>>

SetKind(t, k) ==
    LET s == op[t].s
    IN  /\ op[t].at \in {"share", "unshare"} /\ k \in op[t].todo
        /\ \A e \in Easy : lib[e] # s
        /\ kinds' = [kinds EXCEPT ![s] = IF op[t].at = "share" THEN @ \cup {k} ELSE @ \ {k}]
        /\ op' = [op EXCEPT ![t].todo = @ \ {k}]
        /\ UNCHANGED <<easies, detach_on_close, named, share_handle, freed, weakrefs, api_lock>>

(* bug: a refused kind returns with the lock held *)
SetKindsEndHeld(t) ==
    LET s == op[t].s
    IN  /\ op[t].at \in {"share", "unshare"}
        /\ api_lock' = IF op[t].todo = {} THEN [api_lock EXCEPT ![s] = NULL] ELSE api_lock
        /\ op' = [op EXCEPT ![t] = Idle]
        /\ UNCHANGED <<easies, detach_on_close, named, share_handle, freed, weakrefs, kinds>>

SetKindsEnd(t) ==
    LET s == op[t].s
    IN  /\ op[t].at \in {"share", "unshare"}
        /\ api_lock' = [api_lock EXCEPT ![s] = NULL]
        /\ op' = [op EXCEPT ![t] = Idle]
        /\ UNCHANGED <<easies, detach_on_close, named, share_handle, freed, weakrefs, kinds>>

-----------------------------------------------------------------------------
(* A thread goes on with the method it is in.                              *)
Step(t) ==
    \/ Register(t) \/ Undo(t) \/ Unregister(t)
    \/ Leave(t) \/ ReleaseShare(t) \/ Cleanup(t)
    \/ \E e \in Easy : ScanGone(t, e) \/ ScanTest(t, e) \/ ScanDetach(t, e) \/ ScanLive(t, e)
    \/ CloseShareEnd(t)
    \/ \E k \in Kind : SetKind(t, k)
    \/ SetKindsEnd(t)

Call(t) ==
    \/ \E e \in Easy : Perform(t, e) \/ Unshare(t, e) \/ CloseEasy(t, e)
    \/ \E e \in Easy, s \in Share : SetShare(t, e, s)
    \/ \E s \in Share : CloseShare(t, s) \/ DropShare(t, s)
    \/ \E s \in Share, at \in {"share", "unshare"}, K \in SUBSET Kind \ {{}} : SetKinds(t, s, at, K)

Next ==
    \/ \E t \in Thread : Call(t) \/ Step(t)
    \/ \E e \in Easy : PerformEnd(e)

Spec == Init /\ [][Next]_vars

(* A thread inside a method is scheduled again.                            *)
LiveSpec == Spec /\ \A t \in Thread : WF_vars(Step(t))

-----------------------------------------------------------------------------
TypeOK ==
    /\ handle \subseteq Easy /\ running \subseteq Easy
    /\ share \in [Easy -> Share \cup {NULL}]
    /\ lib \in [Easy -> Share \cup {NULL}]
    /\ detach_on_close \subseteq Share
    /\ named \subseteq Share /\ share_handle \subseteq Share /\ freed \subseteq Share
    /\ weakrefs \in [Share -> SUBSET Easy]
    /\ kinds \in [Share -> SUBSET Kind]
    /\ api_lock \in [Share -> Thread \cup {NULL}]
    /\ op \in [Thread -> Op]

(* Between its methods an easy, libcurl and the share's set agree, so that *)
(* close() of the share finds every easy that uses it.                     *)
AttachedAgrees ==
    \A e \in Easy : (\A t \in Thread : op[t].e # e) =>
        /\ lib[e] = share[e]
        /\ share[e] # NULL => e \in weakrefs[share[e]]

(* libcurl never points to a share that has been freed, and a share that   *)
(* close() has closed has no easy left, and libcurl freed it.              *)
ClosedIsUnused ==
    /\ \A e \in Easy : lib[e] \notin freed
    /\ \A s \in Share \ share_handle :
        /\ s \in freed
        /\ \A e \in Easy : share[e] = s => \E t \in Thread : op[t].e = e

Kept == \A e \in running \cap running' : lib'[e] = lib[e] /\ share'[e] = share[e]

(* close() of the share does not take it from an easy inside perform(),    *)
(* whatever else it detaches and whether or not it is refused.             *)
RunningKeepsShare == [][Kept]_vars

(* Every path through a method gives api_lock back.                        *)
LockReturned == \A s \in Share : api_lock[s] # NULL ~> api_lock[s] = NULL
=============================================================================
