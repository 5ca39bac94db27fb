-------------------------- MODULE AsyncSocketsProofs --------------------------
(***************************************************************************)
(* Proofs about AsyncSockets: for any descriptors and states the loop of   *)
(* AsyncCurlMulti watches what libcurl wants of the sockets it has, until  *)
(* a callback is lost, and nothing after aclose(), whatever callbacks are  *)
(* skipped or refused.                                                     *)
(***************************************************************************)
EXTENDS AsyncSockets, TLAPS

-----------------------------------------------------------------------------
(* The state libcurl hands out for a socket says what is watched of it,    *)
(* and no other socket has the same one.                                   *)
StateFits ==
    \A fd \in Fd : socketp[fd] # NULL =>
        /\ fd \in _assigned_fds /\ Known(fd)
        /\ \A d \in Dir : watchers[fd][d] =
              IF d \in registered[socketp[fd]] THEN socketp[fd] ELSE NULL

Separate ==
    \A f1, f2 \in Fd : socketp[f1] # NULL /\ socketp[f1] = socketp[f2] => f1 = f2

(* What is left watched without a state is swept up by aclose().           *)
Swept ==
    \A fd \in Fd :
        /\ watchers[fd] # Unwatched => fd \in _assigned_fds
        /\ Known(fd) /\ socketp[fd] = NULL => watchers[fd] = Unwatched

Queued == \A r \in ready : watchers[r[1]][r[2]] # NULL

Follows ==
    ~lost /\ ~_closing => \A fd \in Fd :
        /\ Known(fd) => socketp[fd] # NULL /\ registered[socketp[fd]] = wants[fd]
        /\ ~Known(fd) => watchers[fd] = Unwatched

Phase ==
    /\ _closing <=> window \in {"detach", "cleanup", "closed"}
    /\ window \in {"cleanup", "closed"} => _assigned_fds = {} /\ ready = {}

Inv ==
    /\ TypeOK
    /\ StateFits /\ Separate /\ Swept /\ Queued /\ Follows /\ Phase

(* The uses that a run leaves out: a number used again although its last   *)
(* removal was skipped, and a reader taken with its writer refused.        *)
Plain == Uses = {}

(* Both begin with a callback that is lost, which is never made good: with *)
(* them the invariant holds as long as there was none.                     *)
Early == ~lost /\ ~_closing => Inv

LEMMA InitInv == ASSUME Init PROVE Inv
  BY SocketsAssumption DEF Init, Inv, TypeOK, Unwatched, Window, Dir, StateFits, Separate,
         Swept, Queued, Follows, Phase, Known

-----------------------------------------------------------------------------
(* _on_socket and _unregister_watchers, for a socket with its state or for *)
(* a new socket with a new one: the descriptor is watched for W, with this *)
(* state, and the other descriptors are as they were.                      *)
LEMMA WatchFits ==
  ASSUME Inv, NEW fd \in Fd, NEW s \in State, NEW had, NEW W \in SUBSET Dir,
         Watch(fd, s, had, W),
         \/ socketp[fd] = s /\ had = registered[s]
         \/ socketp[fd] = NULL /\ had = {} /\ watchers[fd] = Unwatched
            /\ s \in Unreferenced
  PROVE  /\ watchers' \in [Fd -> [Dir -> State \cup {NULL}]]
         /\ registered' \in [State -> SUBSET Dir]
         /\ ready' \subseteq Fd \X Dir
         /\ \A d \in Dir : watchers'[fd][d] = IF d \in W THEN s ELSE NULL
         /\ registered'[s] = W
         /\ \A f \in Fd \ {fd} :
               /\ watchers'[f] = watchers[f]
               /\ socketp[f] # NULL => /\ socketp[f] # s
                                       /\ registered'[socketp[f]] = registered[socketp[f]]
         /\ \A r \in ready' : watchers'[r[1]][r[2]] # NULL
<1> DEFINE w == [d \in Dir |-> IF d \in W \ had THEN s
                               ELSE IF d \in had \ W THEN NULL ELSE watchers[fd][d]]
<1>1. /\ watchers' = [watchers EXCEPT ![fd] = w]
      /\ ready' = {r \in ready : r[1] = fd => w[r[2]] = watchers[fd][r[2]]}
      /\ registered' = [registered EXCEPT ![s] = W]
  BY DEF Watch, SetWatchers
<1>2. \A d \in Dir : w[d] = IF d \in W THEN s ELSE NULL
  <2>1. CASE socketp[fd] = s /\ had = registered[s]
    BY <2>1, SocketsAssumption DEF Inv, StateFits
  <2>2. CASE had = {} /\ watchers[fd] = Unwatched
    BY <2>2 DEF Unwatched
  <2> QED
    BY <2>1, <2>2
<1>3. w \in [Dir -> State \cup {NULL}]
  BY <1>2
<1>4. /\ watchers \in [Fd -> [Dir -> State \cup {NULL}]]
      /\ registered \in [State -> SUBSET Dir]
      /\ ready \subseteq Fd \X Dir
      /\ socketp \in [Fd -> State \cup {NULL}]
  BY DEF Inv, TypeOK
<1> HIDE DEF w
<1>5. \A f \in Fd \ {fd} : socketp[f] # NULL => socketp[f] # s
  BY SocketsAssumption DEF Inv, Separate, Unreferenced
<1>6. \A r \in ready' : watchers'[r[1]][r[2]] # NULL
  <2> TAKE r \in ready'
  <2>1. r \in ready /\ r[1] \in Fd /\ r[2] \in Dir /\ watchers[r[1]][r[2]] # NULL
    BY <1>1, <1>4 DEF Inv, Queued
  <2>2. CASE r[1] = fd
    BY <2>1, <2>2, <1>1, <1>4
  <2>3. CASE r[1] # fd
    BY <2>1, <2>3, <1>1, <1>4
  <2> QED
    BY <2>2, <2>3
<1>7. watchers'[fd] = w /\ \A f \in Fd \ {fd} : watchers'[f] = watchers[f]
  BY <1>1, <1>4
<1>8. /\ watchers' \in [Fd -> [Dir -> State \cup {NULL}]]
      /\ registered' \in [State -> SUBSET Dir]
      /\ ready' \subseteq Fd \X Dir
  BY <1>1, <1>3, <1>4
<1>9. /\ registered'[s] = W
      /\ \A f \in Fd \ {fd} : socketp[f] # NULL =>
            registered'[socketp[f]] = registered[socketp[f]]
  BY <1>1, <1>4, <1>5
<1> QED
  BY <1>2, <1>5, <1>6, <1>7, <1>8, <1>9

(* The socket fd has then the state s and is watched for what is wanted.   *)
LEMMA HeldInv ==
  ASSUME Inv, NEW fd \in Fd, NEW s \in State, NEW had, NEW W \in SUBSET Dir,
         Watch(fd, s, had, W),
         \/ socketp[fd] = s /\ had = registered[s]
         \/ socketp[fd] = NULL /\ had = {} /\ watchers[fd] = Unwatched
            /\ s \in Unreferenced,
         window \in {"drive", "detach"},
         wants' = [wants EXCEPT ![fd] = W],
         socketp' = [socketp EXCEPT ![fd] = s],
         _assigned_fds' = _assigned_fds \cup {fd},
         UNCHANGED <<_closing, window, event, lost>>
  PROVE  Inv'
<1>1. /\ watchers' \in [Fd -> [Dir -> State \cup {NULL}]]
      /\ registered' \in [State -> SUBSET Dir]
      /\ ready' \subseteq Fd \X Dir
      /\ \A d \in Dir : watchers'[fd][d] = IF d \in W THEN s ELSE NULL
      /\ registered'[s] = W
      /\ \A f \in Fd \ {fd} :
            /\ watchers'[f] = watchers[f]
            /\ socketp[f] # NULL => /\ socketp[f] # s
                                    /\ registered'[socketp[f]] = registered[socketp[f]]
      /\ \A r \in ready' : watchers'[r[1]][r[2]] # NULL
  BY WatchFits
<1>2. /\ wants \in [Fd -> (SUBSET Dir) \cup {NULL}]
      /\ socketp \in [Fd -> State \cup {NULL}]
      /\ _assigned_fds \subseteq Fd
  BY DEF Inv, TypeOK
<1>3. s # NULL /\ W # NULL
  BY SocketsAssumption DEF Dir
<1>4. /\ socketp'[fd] = s /\ wants'[fd] = W
      /\ \A f \in Fd \ {fd} : socketp'[f] = socketp[f] /\ wants'[f] = wants[f]
  BY <1>2
<1>5. TypeOK'
  BY <1>1, <1>2 DEF Inv, TypeOK
<1>6. StateFits'
  BY <1>1, <1>3, <1>4 DEF Inv, StateFits, Known
<1>7. Separate'
  BY <1>1, <1>4 DEF Inv, Separate
<1>8. Swept'
  BY <1>1, <1>3, <1>4 DEF Inv, Swept, Known
<1>9. Queued'
  BY <1>1 DEF Queued
<1>10. Follows'
  BY <1>1, <1>3, <1>4 DEF Inv, Follows, Known
<1>11. Phase'
  BY DEF Inv, Phase
<1> QED
  BY <1>5, <1>6, <1>7, <1>8, <1>9, <1>10, <1>11 DEF Inv

(* A callback that does nothing, because aclose() is under way or because  *)
(* it was not run: only libcurl's wishes change.                           *)
LEMMA WishInv ==
  ASSUME Inv, NEW fd \in Fd, NEW W \in SUBSET Dir, Inside,
         Known(fd) \/ watchers[fd] = Unwatched,
         wants' = [wants EXCEPT ![fd] = W],
         UNCHANGED <<loop, registered, _closing, socketp, window, event>>,
         \/ _assigned_fds' = _assigned_fds
         \/ _assigned_fds' = _assigned_fds \cup {fd} /\ window = "drive",
         lost' \in BOOLEAN,
         lost' \/ _closing
  PROVE  Inv'
<1>1. /\ wants \in [Fd -> (SUBSET Dir) \cup {NULL}]
      /\ W # NULL
  BY SocketsAssumption DEF Inv, TypeOK, Dir
<1>2. wants'[fd] = W /\ \A f \in Fd \ {fd} : wants'[f] = wants[f]
  BY <1>1
<1>3. TypeOK'
  BY <1>1 DEF Inv, TypeOK, loop
<1>4. StateFits'
  BY <1>1, <1>2 DEF Inv, StateFits, Known, loop
<1>5. Separate'
  BY DEF Inv, Separate
<1>6. Swept'
  BY <1>1, <1>2 DEF Inv, Swept, Known, loop
<1>7. Queued' /\ Follows' /\ Phase'
  BY DEF Inv, Queued, Follows, Phase, loop
<1> QED
  BY <1>3, <1>4, <1>5, <1>6, <1>7 DEF Inv

LEMMA PollInv ==
  ASSUME Inv, NEW fd \in Fd, NEW W \in SUBSET Dir, Poll(fd, W),
         Known(fd) \/ watchers[fd] = Unwatched
  PROVE  Inv'
<1>1. /\ wants' = [wants EXCEPT ![fd] = W]
      /\ UNCHANGED <<_closing, window, event, lost>>
      /\ Inside /\ (W = {} => Known(fd))
      /\ Known(fd) \/ watchers[fd] = Unwatched
  BY DEF Poll
<1>2. /\ socketp \in [Fd -> State \cup {NULL}]
      /\ _assigned_fds \subseteq Fd /\ lost \in BOOLEAN
      /\ watchers \in [Fd -> [Dir -> State \cup {NULL}]]
      /\ NULL \notin State
  BY SocketsAssumption DEF Inv, TypeOK
<1>3. CASE W = {} /\ socketp[fd] # NULL
  <2>1. Watch(fd, socketp[fd], registered[socketp[fd]], W)
    BY <1>3 DEF Poll, OnNone, Unregister
  <2>2. /\ socketp' = [socketp EXCEPT ![fd] = socketp[fd]]
        /\ fd \in _assigned_fds /\ _assigned_fds' = _assigned_fds \cup {fd}
    BY <1>2, <1>3 DEF Poll, OnNone, Inv, StateFits
  <2>3. window \in {"drive", "detach"}
    BY <1>1, <2>2 DEF Inv, Phase, Inside
  <2> QED
    BY <1>1, <1>2, <1>3, <2>1, <2>2, <2>3, HeldInv
<1>4. CASE W = {} /\ socketp[fd] = NULL
  <2>1. /\ UNCHANGED <<loop, registered, socketp, _assigned_fds>>
        /\ lost \/ _closing
    BY <1>1, <1>4 DEF Poll, OnNone, Inv, Follows
  <2> QED
    BY <1>1, <1>2, <2>1, WishInv
<1>5. CASE W # {} /\ _closing
  BY <1>1, <1>2, <1>5, WishInv DEF Poll, OnInterest
<1>6. CASE W # {} /\ ~_closing /\ socketp[fd] # NULL
  <2>1. Watch(fd, socketp[fd], registered[socketp[fd]], W)
    BY <1>6 DEF Poll, OnInterest
  <2>2. /\ socketp' = [socketp EXCEPT ![fd] = socketp[fd]]
        /\ _assigned_fds' = _assigned_fds \cup {fd}
    BY <1>2, <1>6 DEF Poll, OnInterest, Inv, StateFits
  <2>3. window \in {"drive", "detach"}
    BY <1>1, <1>6 DEF Inv, Phase, Inside
  <2> QED
    BY <1>1, <1>2, <1>6, <2>1, <2>2, <2>3, HeldInv
<1>7. CASE W # {} /\ ~_closing /\ socketp[fd] = NULL
  <2>1. PICK s \in Unreferenced :
           /\ Watch(fd, s, {}, W)
           /\ _assigned_fds' = _assigned_fds \cup {fd}
           /\ socketp' = [socketp EXCEPT ![fd] = s]
    BY <1>7 DEF Poll, OnInterest
  <2>2. watchers[fd] = Unwatched
    BY <1>1, <1>7 DEF Inv, Swept
  <2>3. window \in {"drive", "detach"}
    BY <1>1, <1>7 DEF Inv, Phase, Inside
  <2>4. s \in State
    BY DEF Unreferenced
  <2> QED
    BY <1>1, <1>7, <2>1, <2>2, <2>3, <2>4, HeldInv
<1> QED
  BY <1>3, <1>4, <1>5, <1>6, <1>7

(* POLL_REMOVE, told or not: a socket without a state has no watchers, and *)
(* one that libcurl forgets without telling stays in _assigned_fds.        *)
LEMMA RemoveInv == ASSUME Inv, NEW fd \in Fd, Remove(fd) PROVE Inv'
<1>1. /\ wants' = [wants EXCEPT ![fd] = NULL]
      /\ socketp' = [socketp EXCEPT ![fd] = NULL]
      /\ _assigned_fds' = _assigned_fds \ {fd}
      /\ UNCHANGED <<_closing, window, event, lost>>
      /\ Known(fd)
  BY DEF Remove, OnRemove
<1>2. /\ wants \in [Fd -> (SUBSET Dir) \cup {NULL}]
      /\ socketp \in [Fd -> State \cup {NULL}]
      /\ watchers \in [Fd -> [Dir -> State \cup {NULL}]]
      /\ registered \in [State -> SUBSET Dir] /\ ready \subseteq Fd \X Dir
      /\ _assigned_fds \subseteq Fd
      /\ NULL \notin State
  BY SocketsAssumption DEF Inv, TypeOK
<1>3. /\ watchers' \in [Fd -> [Dir -> State \cup {NULL}]]
      /\ registered' \in [State -> SUBSET Dir]
      /\ ready' \subseteq Fd \X Dir
      /\ watchers'[fd] = Unwatched
      /\ \A f \in Fd \ {fd} :
            /\ watchers'[f] = watchers[f]
            /\ socketp[f] # NULL => registered'[socketp[f]] = registered[socketp[f]]
      /\ \A r \in ready' : watchers'[r[1]][r[2]] # NULL
  <2>1. CASE socketp[fd] # NULL
    <3>1. Watch(fd, socketp[fd], registered[socketp[fd]], {}) /\ socketp[fd] \in State
      BY <2>1, <1>2 DEF Remove, OnRemove, Unregister
    <3>2. /\ watchers' \in [Fd -> [Dir -> State \cup {NULL}]]
          /\ registered' \in [State -> SUBSET Dir]
          /\ ready' \subseteq Fd \X Dir
          /\ \A d \in Dir : watchers'[fd][d] = NULL
          /\ \A f \in Fd \ {fd} :
                /\ watchers'[f] = watchers[f]
                /\ socketp[f] # NULL => registered'[socketp[f]] = registered[socketp[f]]
          /\ \A r \in ready' : watchers'[r[1]][r[2]] # NULL
      BY <3>1, WatchFits
    <3> QED
      BY <3>2 DEF Unwatched
  <2>2. CASE socketp[fd] = NULL
    BY <2>2, <1>1, <1>2 DEF Remove, OnRemove, loop, Inv, Swept, Queued
  <2> QED
    BY <2>1, <2>2
<1>4. /\ socketp'[fd] = NULL /\ wants'[fd] = NULL
      /\ \A f \in Fd \ {fd} : socketp'[f] = socketp[f] /\ wants'[f] = wants[f]
  BY <1>1, <1>2
<1>5. TypeOK'
  BY <1>1, <1>2, <1>3 DEF Inv, TypeOK
<1>6. StateFits' /\ Separate'
  BY <1>1, <1>3, <1>4 DEF Inv, StateFits, Separate, Known
<1>7. Swept' /\ Queued'
  BY <1>1, <1>3, <1>4 DEF Inv, Swept, Queued, Known, Unwatched
<1>8. Follows'
  BY <1>1, <1>3, <1>4 DEF Inv, Follows, Known, Unwatched
<1>9. Phase'
  <2>1. window \in {"cleanup", "closed"} => ready' = {}
    <3>1. SUFFICES ASSUME window \in {"cleanup", "closed"}, NEW r \in ready' PROVE FALSE
      OBVIOUS
    <3>2. _assigned_fds = {} /\ \A f \in Fd : watchers[f] = Unwatched
      BY <3>1 DEF Inv, Phase, Swept
    <3>3. \A f \in Fd : watchers'[f] = Unwatched
      BY <3>2, <1>3
    <3>4. r[1] \in Fd /\ r[2] \in Dir /\ watchers'[r[1]][r[2]] # NULL
      BY <3>1, <1>3
    <3> QED
      BY <3>3, <3>4 DEF Unwatched
  <2> QED
    BY <1>1, <2>1 DEF Inv, Phase
<1> QED
  BY <1>5, <1>6, <1>7, <1>8, <1>9 DEF Inv

LEMMA SkippedInv ==
  ASSUME Inv, Plain, NEW fd \in Fd, NEW W \in SUBSET Dir,
         PollSkipped(fd, W) \/ RemoveSkipped(fd) \/ WatchFails(fd, W)
  PROVE  Inv'
<1>1. CASE PollSkipped(fd, W)
  <2>1. Known(fd) \/ watchers[fd] = Unwatched
    BY <1>1 DEF PollSkipped, Reusable, Plain
  <2> QED
    BY <1>1, <2>1, WishInv DEF PollSkipped, object
<1>2. CASE WatchFails(fd, W)
  <2>1. /\ Known(fd) \/ watchers[fd] = Unwatched
        /\ UNCHANGED loop
    BY <1>2 DEF WatchFails, Reusable, Plain
  <2> QED
    BY <1>2, <2>1, WishInv DEF WatchFails, Inside
<1>3. CASE RemoveSkipped(fd)
  <2>1. /\ wants' = [wants EXCEPT ![fd] = NULL]
        /\ socketp' = [socketp EXCEPT ![fd] = NULL]
        /\ lost' = TRUE
        /\ UNCHANGED <<registered, _assigned_fds, _closing, watchers, ready, window, event>>
    BY <1>3 DEF RemoveSkipped, object, loop
  <2>2. /\ wants \in [Fd -> (SUBSET Dir) \cup {NULL}]
        /\ socketp \in [Fd -> State \cup {NULL}]
    BY DEF Inv, TypeOK
  <2>3. /\ socketp'[fd] = NULL /\ wants'[fd] = NULL
        /\ \A f \in Fd \ {fd} : socketp'[f] = socketp[f] /\ wants'[f] = wants[f]
    BY <2>1, <2>2
  <2>4. TypeOK'
    BY <2>1, <2>2 DEF Inv, TypeOK
  <2>5. StateFits' /\ Separate'
    BY <2>1, <2>3 DEF Inv, StateFits, Separate, Known
  <2>6. Swept' /\ Queued' /\ Follows' /\ Phase'
    BY <2>1, <2>3 DEF Inv, Swept, Queued, Follows, Phase, Known, Unwatched
  <2> QED
    BY <2>4, <2>5, <2>6 DEF Inv
<1> QED
  BY <1>1, <1>2, <1>3

-----------------------------------------------------------------------------
(* The calls AsyncCurlMulti makes, and the handles of the loop.            *)
LEMMA CallInv ==
  ASSUME Inv, Call \/ EndCall \/ Aclose \/ AcloseEnd
  PROVE  Inv'
<1> USE DEF Inv, TypeOK, Window, StateFits, Separate, Swept, Queued, Follows,
            Phase, Known, Unwatched, object, loop, libcurl
<1>1. CASE Call
  BY <1>1 DEF Call
<1>2. CASE EndCall
  BY <1>2 DEF EndCall
<1>3. CASE Aclose
  BY <1>3 DEF Aclose
<1>4. CASE AcloseEnd
  BY <1>4 DEF AcloseEnd
<1> QED
  BY <1>1, <1>2, <1>3, <1>4

LEMMA LoopInv ==
  ASSUME Inv, NEW fd \in Fd, NEW d \in Dir, Select(fd, d) \/ OnReady(fd, d)
  PROVE  Inv'
<1> USE DEF Inv, StateFits, Separate, Swept, Follows, Known, Unwatched
<1>1. CASE Select(fd, d)
  <2>1. window # "closed"
    BY <1>1 DEF Select, Phase
  <2> QED
    BY <1>1, <2>1 DEF Select, TypeOK, Queued, Phase, object, libcurl
<1>2. CASE OnReady(fd, d)
  <2>1. watchers[fd][d] \in State
    BY <1>2 DEF OnReady, TypeOK, Queued
  <2> QED
    BY <1>2, <2>1 DEF OnReady, TypeOK, Window, Queued, Phase, object, libcurl
<1> QED
  BY <1>1, <1>2

LEMMA SweepInv == ASSUME Inv, Sweep PROVE Inv'
<1>1. /\ \A fd \in Fd : watchers[fd] # Unwatched => fd \in _assigned_fds
      /\ \A fd \in Fd : socketp[fd] # NULL => fd \in _assigned_fds
      /\ ready \subseteq Fd \X Dir
      /\ \A r \in ready : watchers[r[1]][r[2]] # NULL
  BY DEF Inv, Swept, StateFits, TypeOK, Queued
<1>2. /\ watchers' = [fd \in Fd |-> Unwatched]
      /\ socketp' = [fd \in Fd |-> NULL]
  BY <1>1 DEF Sweep
<1>3. ready' = {}
  <2>1. \A r \in ready : r[1] \in _assigned_fds
    BY <1>1 DEF Unwatched
  <2> QED
    BY <2>1 DEF Sweep
<1> QED
  BY <1>2, <1>3 DEF Sweep, Inv, TypeOK, Window, StateFits, Separate, Swept, Queued,
                    Follows, Phase, Unwatched

LEMMA StutterInv == ASSUME Inv, UNCHANGED vars PROVE Inv'
  BY DEF vars, object, loop, libcurl, Inv, TypeOK, StateFits, Separate, Swept,
         Queued, Follows, Phase, Known

LEMMA NextInv == ASSUME Inv, Plain, [Next]_vars PROVE Inv'
<1>1. CASE UNCHANGED vars
  BY <1>1, StutterInv
<1>2. ASSUME NEW fd \in Fd, NEW W \in SUBSET Dir, Poll(fd, W) PROVE Inv'
  BY <1>2, PollInv DEF Poll, Reusable, Plain
<1>3. CASE Next
  BY <1>2, <1>3, RemoveInv, SkippedInv, CallInv, LoopInv, SweepInv DEF Next
<1> QED
  BY <1>1, <1>3

(* A number that libcurl does not know is not watched while no callback is *)
(* lost, so it makes no difference that it could be used again.            *)
LEMMA EarlyStep == ASSUME Early, [Next]_vars PROVE Early'
<1> SUFFICES ASSUME ~lost', ~_closing' PROVE Inv'
  BY DEF Early
<1>1. lost \/ _closing => lost' \/ _closing'
  BY DEF Next, vars, object, Poll, Remove, PollSkipped, RemoveSkipped, WatchFails,
         Call, EndCall, Select, OnReady, Aclose, Sweep, AcloseEnd
<1>2. Inv /\ ~lost /\ ~_closing
  BY <1>1 DEF Early
<1>3. ASSUME NEW fd \in Fd, NEW W \in SUBSET Dir, Poll(fd, W) PROVE Inv'
  BY <1>2, <1>3, PollInv DEF Inv, Follows
<1>4. ASSUME NEW fd \in Fd, NEW W \in SUBSET Dir,
             PollSkipped(fd, W) \/ RemoveSkipped(fd) \/ WatchFails(fd, W)
      PROVE  FALSE
  BY <1>4 DEF PollSkipped, RemoveSkipped, WatchFails
<1>5. ASSUME NEW fd \in Fd, RemoveSkipped(fd) PROVE FALSE
  BY <1>5 DEF RemoveSkipped
<1>6. CASE UNCHANGED vars
  BY <1>2, <1>6, StutterInv
<1> QED
  BY <1>2, <1>3, <1>4, <1>5, <1>6, RemoveInv, CallInv, LoopInv, SweepInv DEF Next

LEMMA EarlyHolds == Spec => []Early
<1>1. Init => Early
  BY InitInv DEF Early
<1>2. Early /\ [Next]_vars => Early'
  BY EarlyStep
<1> QED
  BY <1>1, <1>2, PTL DEF Spec

(* For any descriptors and states, if the program keeps clear of the two   *)
(* uses: the invariant holds in every state.                               *)
THEOREM Invariant == ASSUME Plain PROVE Spec => []Inv
<1>1. Init => Inv
  BY InitInv
<1>2. Inv /\ [Next]_vars => Inv'
  BY NextInv
<1> QED
  BY <1>1, <1>2, PTL DEF Spec

(* A loop that runs has not been closed.                                   *)
Windows ==
    /\ _closing \in BOOLEAN
    /\ _closing <=> window \in {"detach", "cleanup", "closed"}

LEMMA WindowsHold == Spec => []Windows
<1>1. Init => Windows
  BY DEF Init, Windows
<1>2. ASSUME Windows, [Next]_vars PROVE Windows'
  <2>1. ASSUME UNCHANGED <<_closing, window>> PROVE Windows'
    BY <1>2, <2>1 DEF Windows
  <2>2. ASSUME NEW fd \in Fd, NEW d \in Dir, OnReady(fd, d) PROVE Windows'
    BY <1>2, <2>2 DEF OnReady, object, Windows
  <2>3. CASE Call \/ EndCall \/ Aclose \/ Sweep \/ AcloseEnd
    <3>1. CASE Call \/ EndCall
      BY <1>2, <3>1 DEF Call, EndCall, object, Windows
    <3>2. CASE Aclose
      BY <3>2 DEF Aclose, Windows
    <3>3. CASE Sweep
      BY <1>2, <3>3 DEF Sweep, Windows
    <3>4. CASE AcloseEnd
      BY <1>2, <3>4 DEF AcloseEnd, object, Windows
    <3> QED
      BY <2>3, <3>1, <3>2, <3>3, <3>4
  <2>4. ASSUME NEW fd \in Fd, NEW W \in SUBSET Dir,
               Poll(fd, W) \/ PollSkipped(fd, W) \/ WatchFails(fd, W)
        PROVE  UNCHANGED <<_closing, window>>
    BY <2>4 DEF Poll, PollSkipped, WatchFails, object
  <2>5. ASSUME NEW fd \in Fd, Remove(fd) \/ RemoveSkipped(fd)
        PROVE  UNCHANGED <<_closing, window>>
    BY <2>5 DEF Remove, RemoveSkipped, object
  <2>6. ASSUME NEW fd \in Fd, NEW d \in Dir, Select(fd, d)
        PROVE  UNCHANGED <<_closing, window>>
    BY <2>6 DEF Select, object
  <2>7. CASE UNCHANGED vars
    BY <2>1, <2>7 DEF vars, object
  <2> QED
    BY <1>2, <2>1, <2>2, <2>3, <2>4, <2>5, <2>6, <2>7 DEF Next
<1> QED
  BY <1>1, <1>2, PTL DEF Spec

(* Whenever the loop runs, and no callback was lost, it watches what       *)
(* libcurl wants, with the state libcurl has for the socket, whatever the  *)
(* uses.                                                                   *)
THEOREM WatchersRight == Spec => []WatchersFollow
<1>1. Early /\ Windows => WatchersFollow
  BY DEF Early, Windows, Inv, StateFits, Follows, Unwatched, WatchersFollow, Known, TypeOK
<1> QED
  BY <1>1, EarlyHolds, WindowsHold, PTL

(* After aclose() nothing is watched and no handle is queued, whatever was *)
(* skipped or refused before.                                              *)
THEOREM ClosedSwept == ASSUME Plain PROVE Spec => []ClosedUnwatched
<1>1. Inv => ClosedUnwatched
  BY DEF Inv, Swept, Phase, ClosedUnwatched
<1> QED
  BY <1>1, Invariant, PTL

(* socket_action() is called with an event of the socket that has the      *)
(* number now, whatever the uses.                                          *)
THEOREM EventsOwn == Spec => OwnEvents
<1>1. Early /\ [Next]_vars => Own
  <2> SUFFICES ASSUME Early, [Next]_vars, ~lost, event = NULL, event' # NULL PROVE Own
    BY DEF Own
  <2>1. PICK fd \in Fd, d \in Dir : OnReady(fd, d)
    BY DEF Next, vars, Poll, Remove, PollSkipped, RemoveSkipped, WatchFails, Call,
           EndCall, Select, Aclose, Sweep, AcloseEnd
  <2>2. /\ event' = <<fd, d, watchers[fd][d]>>
        /\ d \in registered[watchers[fd][d]] /\ Inv /\ ~_closing
        /\ watchers[fd][d] # NULL
    BY <2>1 DEF OnReady, Early, Inv, Queued
  <2>3. Known(fd) /\ socketp[fd] # NULL /\ registered[socketp[fd]] = wants[fd]
    BY <2>2 DEF Inv, Follows, Unwatched
  <2>4. watchers[fd][d] = socketp[fd]
    BY <2>2, <2>3 DEF Inv, StateFits
  <2> QED
    BY <2>2, <2>3, <2>4 DEF Own
<1> QED
  BY <1>1, EarlyHolds, PTL DEF Spec, OwnEvents
=============================================================================
