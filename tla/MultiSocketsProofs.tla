-------------------------- MODULE MultiSocketsProofs --------------------------
(***************************************************************************)
(* Proofs about MultiSockets: whatever the sockets, the objects and the    *)
(* order of calls, libcurl's pointers are the objects of the dict as long  *)
(* as a callback could see them, so that the object multi_socket_callback  *)
(* is called with is alive when it makes its reference.                    *)
(***************************************************************************)
EXTENDS MultiSockets, TLAPS

-----------------------------------------------------------------------------
(* The rules of thread-safety.rst: a multi is driven by one thread.        *)
OneThread == Uses = {}

(* The callback that libcurl is about to make concerns a socket it knows,  *)
(* with the pointer it has for it if no other thread assigns; and a multi  *)
(* that is cleared, in its destructor or gone has no callable and runs no  *)
(* Python.                                                                 *)
CallFits ==
    call.at # "none" => call.socket \in known

ArgFits ==
    OneThread /\ call.at = "libcurl" => call.arg = socketp[call.socket]

Silent ==
    status \in {"cleared", "dying", "gone"} => ~s_cb /\ call.at # "python"

WindowFits ==
    /\ window = "none" => call = NoCall
    /\ window = "cleanup" => status \in {"closing", "dying"}
    /\ window = "detach" => status \in {"closing", "dying"}
    /\ window = "drive" => status = "open"
    /\ status \in {"closing", "dying"} => window \in {"detach", "cleanup"}
    /\ status \in {"closed", "gone"} => known = {}

Inv ==
    /\ TypeOK
    /\ CallFits /\ ArgFits /\ Silent /\ WindowFits
    /\ PointerKept
    /\ DyingIsSilent

LEMMA InitInv == ASSUME Init PROVE Inv
  BY DEF Init, Inv, TypeOK, Window, Stage, NoCall, Empty, CallFits, ArgFits,
         Silent, WindowFits, PointerKept, DyingIsSilent, HasHandle

(* setopt, and the windows that drive transfers.                           *)
LEMMA OptionInv ==
  ASSUME Inv, SetSocketFunction \/ UnsetSocketFunction \/ Drive \/ EndDrive
  PROVE  Inv'
<1> USE DEF Inv, TypeOK, Window, Stage, NoCall, CallFits, ArgFits, Silent,
            WindowFits, PointerKept, DyingIsSilent, HasHandle, NotRunning
<1>1. CASE SetSocketFunction
  BY <1>1 DEF SetSocketFunction
<1>2. CASE UnsetSocketFunction
  BY <1>2 DEF UnsetSocketFunction
<1>3. CASE Drive
  BY <1>3 DEF Drive
<1>4. CASE EndDrive
  BY <1>4 DEF EndDrive
<1> QED
  BY <1>1, <1>2, <1>3, <1>4

(* A callback that has returned; a socket goes with its last one.          *)
LEMMA ReturnedInv ==
  ASSUME Inv, call.at # "none", Returned,
         UNCHANGED <<status, window, s_cb, fn, socketp, dict>>
  PROVE  Inv'
<1> USE DEF Inv, TypeOK, Window, Stage, NoCall, CallFits, ArgFits, Silent,
            WindowFits, PointerKept, DyingIsSilent, HasHandle
<1>1. call' = NoCall /\ known' \subseteq known
  BY DEF Returned
<1>2. known' \in SUBSET Socket /\ call'.at = "none"
  BY <1>1
<1>3. TypeOK'
  BY <1>1, <1>2
<1>4. WindowFits'
  BY <1>1
<1> QED
  BY <1>1, <1>2, <1>3, <1>4

(* libcurl's callbacks: a socket that libcurl calls back for is known, and *)
(* goes only when its last callback has returned.                          *)
LEMMA CallInv ==
  ASSUME Inv, NEW s \in Socket,
         Learn(s) \/ Change(s) \/ Remove(s) \/ Enter \/ Return
  PROVE  Inv'
<1> USE SocketsAssumption
    DEF Inv, TypeOK, Window, Stage, NoCall, Calling, CallFits, ArgFits, Silent,
        WindowFits, PointerKept, DyingIsSilent, HasHandle
<1>1. CASE Learn(s)
  BY <1>1 DEF Learn
<1>2. CASE Change(s)
  BY <1>2 DEF Change
<1>3. CASE Remove(s)
  <2>1. /\ window # "none" /\ call = NoCall /\ s \in known
        /\ UNCHANGED <<status, window, s_cb, fn, socketp, dict>>
    BY <1>3 DEF Remove
  <2>2. CASE fn
    <3>1. call' = Calling(s, socketp[s], TRUE) /\ known' = known
      BY <1>3, <2>2 DEF Remove
    <3>2. status \notin {"cleared", "closed", "gone"} /\ call'.at = "libcurl"
      BY <2>1, <3>1
    <3>3. TypeOK' /\ CallFits' /\ ArgFits'
      BY <2>1, <3>1
    <3>4. Silent' /\ DyingIsSilent'
      BY <2>1, <3>1, <3>2
    <3>5. WindowFits'
      BY <2>1, <3>1, <3>2
    <3>6. PointerKept'
      BY <2>1, <3>1
    <3> QED
      BY <3>3, <3>4, <3>5, <3>6
  <2>3. CASE ~fn
    <3>1. known' = known \ {s} /\ UNCHANGED call
      BY <1>3, <2>3 DEF Remove
    <3>2. TypeOK' /\ CallFits' /\ ArgFits' /\ Silent'
      BY <2>1, <3>1
    <3>3. WindowFits' /\ PointerKept' /\ DyingIsSilent'
      BY <2>1, <3>1
    <3> QED
      BY <3>2, <3>3
  <2> QED
    BY <2>2, <2>3
<1>4. CASE Enter
  <2>1. CASE s_cb
    <3>1. /\ call' = [call EXCEPT !.at = "python"]
          /\ UNCHANGED <<status, window, s_cb, fn, known, socketp, dict>>
      BY <1>4, <2>1 DEF Enter
    <3>2. /\ call'.at = "python" /\ call'.socket = call.socket
          /\ call'.arg = call.arg /\ call'.remove = call.remove
      BY <3>1
    <3>3. TypeOK'
      BY <3>1, <3>2
    <3> QED
      BY <1>4, <2>1, <3>1, <3>2, <3>3 DEF Enter
  <2>2. CASE ~s_cb
    BY <1>4, <2>2, ReturnedInv DEF Enter
  <2> QED
    BY <2>1, <2>2
<1>5. CASE Return
  BY <1>5, ReturnedInv DEF Return
<1> QED
  BY <1>1, <1>2, <1>3, <1>4, <1>5

(* A refused assign() restores the dict.                                   *)
LEMMA RestoreIsOld ==
  ASSUME TypeOK, NEW s \in Socket, NEW o \in Obj \cup {NULL}
  PROVE  Restore([dict EXCEPT ![s] = o], s) = dict
  BY DEF TypeOK, Restore

(* The dict and libcurl's pointer change together; with one thread nobody  *)
(* assigns while libcurl is between reading a pointer and                  *)
(* multi_socket_callback.                                                  *)
LEMMA AssignInv ==
  ASSUME Inv, NEW s \in Socket, NEW o \in Obj \cup {NULL}, Assign(s, o)
  PROVE  Inv'
<1> USE DEF Inv, TypeOK, Window, Stage, NoCall, CallFits, ArgFits, Silent,
            WindowFits, PointerKept, DyingIsSilent, HasHandle
<1>1. OneThread => call.at # "libcurl"
  BY DEF Assign, Runs, NotRunning, OneThread
<1>2. CASE Accepts(s)
  BY <1>1, <1>2 DEF Assign, Accepts
<1>3. CASE ~Accepts(s)
  <2>1. dict' = Restore([dict EXCEPT ![s] = o], s)
    BY <1>3 DEF Assign
  <2>2. dict' = dict
    BY <2>1, RestoreIsOld
  <2>3. UNCHANGED <<status, window, s_cb, fn, known, socketp, call>>
    BY <1>3 DEF Assign
  <2> QED
    BY <2>2, <2>3
<1> QED
  BY <1>2, <1>3

(* close(), the destructor and the collector.                              *)
LEMMA EndInv ==
  ASSUME Inv, Close \/ CloseFails \/ Dealloc \/ EndDetach \/ EndCleanup \/ Clear
  PROVE  Inv'
<1> USE DEF Inv, TypeOK, Window, Stage, NoCall, Empty, CallFits, ArgFits, Silent,
            WindowFits, PointerKept, DyingIsSilent, HasHandle, NotRunning
<1>1. CASE Close
  BY <1>1 DEF Close
<1>2. CASE Dealloc
  <2>1. call = NoCall /\ ~s_cb'
    BY <1>2 DEF Dealloc
  <2>2. Silent' /\ DyingIsSilent'
    BY <1>2, <2>1 DEF Dealloc
  <2> QED
    BY <1>2, <2>1, <2>2 DEF Dealloc
<1>3. CASE EndDetach
  BY <1>3 DEF EndDetach
<1>4. CASE EndCleanup
  BY <1>4 DEF EndCleanup
<1>5. CASE Clear
  <2>1. call = NoCall /\ ~s_cb'
    BY <1>5 DEF Clear
  <2>2. Silent' /\ DyingIsSilent'
    BY <1>5, <2>1 DEF Clear
  <2> QED
    BY <1>5, <2>1, <2>2 DEF Clear
<1>6. CASE CloseFails
  BY <1>6 DEF CloseFails
<1> QED
  BY <1>1, <1>2, <1>3, <1>4, <1>5, <1>6

LEMMA NextInv ==
  ASSUME Inv, [Next]_vars
  PROVE  Inv'
<1>1. CASE SetSocketFunction \/ UnsetSocketFunction \/ Drive \/ EndDrive
  BY <1>1, OptionInv
<1>2. ASSUME NEW s \in Socket, Learn(s) \/ Change(s) \/ Remove(s)
      PROVE  Inv'
  BY <1>2, CallInv
<1>3. CASE Enter \/ Return
  <2>1. call.socket \in Socket
    BY <1>3 DEF Inv, TypeOK, CallFits, Enter, Return
  <2> QED
    BY <1>3, <2>1, CallInv
<1>4. ASSUME NEW s \in Socket, NEW o \in Obj \cup {NULL}, Assign(s, o)
      PROVE  Inv'
  BY <1>4, AssignInv
<1>5. CASE Close \/ CloseFails \/ Dealloc \/ EndDetach \/ EndCleanup \/ Clear
  BY <1>5, EndInv
<1>6. CASE Done \/ UNCHANGED vars
  BY <1>6 DEF Done, Inv, vars, TypeOK, CallFits, ArgFits, Silent, WindowFits,
              PointerKept, DyingIsSilent, HasHandle
<1> QED
  BY <1>1, <1>2, <1>3, <1>4, <1>5, <1>6 DEF Next

(* Whoever calls assign(): the invariant holds in every state.             *)
THEOREM Invariant == Spec => []Inv
<1>1. Init => Inv
  BY InitInv
<1>2. Inv /\ [Next]_vars => Inv'
  BY NextInv
<1> QED
  BY <1>1, <1>2, PTL DEF Spec

(* The object of a socket callback is alive when the callback makes its    *)
(* reference, if one thread at a time uses the multi (multi.c:331).        *)
THEOREM ArgsLive == ASSUME OneThread PROVE Spec => []ArgAlive
<1>1. Inv => ArgAlive
  <2> SUFFICES ASSUME Inv, call.at = "libcurl", call.arg # NULL, s_cb
               PROVE  dict[call.socket] = call.arg
    BY DEF ArgAlive
  <2>1. call.socket \in known /\ call.arg = socketp[call.socket]
    BY DEF Inv, CallFits, ArgFits
  <2>2. HasHandle
    BY <2>1 DEF Inv, TypeOK, Silent, WindowFits, HasHandle
  <2> QED
    BY <2>1, <2>2 DEF Inv, PointerKept
<1> QED
  BY <1>1, Invariant, PTL

(* libcurl's pointers and the dict agree as long as there is a handle, also *)
(* if another thread assigns while libcurl runs.                           *)
THEOREM PointersKept == Spec => []PointerKept
<1>1. Inv => PointerKept
  BY DEF Inv
<1> QED
  BY <1>1, Invariant, PTL

(* The destructor hands its multi to no Python callback, whoever assigns.  *)
THEOREM DyingSilent == Spec => []DyingIsSilent
<1>1. Inv => DyingIsSilent
  BY DEF Inv
<1> QED
  BY <1>1, Invariant, PTL

LEMMA AgreedStep == ASSUME Inv, [Next]_vars PROVE [Agreed]_vars
<1>1. TypeOK /\ WindowFits
  BY DEF Inv
<1>2. ASSUME NEW s \in Socket, NEW o \in Obj \cup {NULL}, Assign(s, o)
      PROVE  Agreed
  <2>1. CASE Accepts(s)
    BY <1>1, <1>2, <2>1 DEF Assign, Accepts, Agreed, TypeOK
  <2>2. CASE ~Accepts(s)
    <3>1. dict' = Restore([dict EXCEPT ![s] = o], s)
      BY <1>2, <2>2 DEF Assign
    <3>2. dict' = dict
      BY <3>1, <1>1, RestoreIsOld
    <3> QED
      BY <3>2 DEF Agreed
  <2> QED
    BY <2>1, <2>2
<1>3. CASE EndDetach
  BY <1>1, <1>3 DEF EndDetach, WindowFits, Agreed
<1>4. CASE EndCleanup
  BY <1>4 DEF EndCleanup, Agreed
<1>5. CASE Clear
  BY <1>5 DEF Clear, Agreed
<1>6. CASE UNCHANGED dict
  BY <1>6 DEF Agreed
<1> QED
  BY <1>2, <1>3, <1>4, <1>5, <1>6
  DEF Next, vars, SetSocketFunction, UnsetSocketFunction, Drive, EndDrive,
      Learn, Change, Remove, Enter, Return, Close, CloseFails, Dealloc, Done

(* The dict of an open multi changes only as libcurl agreed: what a        *)
(* refused assign() did to it is undone whole (multi.c:879-893), also by   *)
(* another thread while libcurl runs.                                      *)
THEOREM DictAgreed == Spec => ChangesAgreed
<1>1. Inv /\ [Next]_vars => [Agreed]_vars
  BY AgreedStep
<1> QED
  BY <1>1, Invariant, PTL DEF Spec, ChangesAgreed
=============================================================================
