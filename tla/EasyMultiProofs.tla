--------------------------- MODULE EasyMultiProofs ---------------------------
(***************************************************************************)
(* Proofs about EasyMulti for any number of easies, multis and threads and *)
(* any nesting depth, in three parts.                                      *)
(*                                                                         *)
(* Types: for any subset of the gaps.                                      *)
(*                                                                         *)
(* Slots: every window of a program that keeps to the documented rules     *)
(* (Gaps = {}) ends with the thread state of the thread that opened it.    *)
(* SlotOwned is not inductive.  What carries it is the nesting (a frame    *)
(* above another one of the same slot is a pause that will put the same    *)
(* thread state back), the exclusion of other threads from a multi that    *)
(* is closing, and that multi_stack, which says where the slot of a pause  *)
(* or of a detachment is, cannot change while such a window is open.       *)
(*                                                                         *)
(* Links: what pycurl and libcurl know of an easy stays consistent: which  *)
(* multi it is on, who keeps whom alive, which handles are open.  For the  *)
(* same programs the asserts of the slots hold, every callback finds the   *)
(* right thread state, nothing closed is attached, nothing attached is     *)
(* freed, and every call is atomic as far as module Attachment can tell.   *)
(* None of these is inductive.  LinkInv adds to SlotInv what each open     *)
(* window remembers of its easy and its multi between its BEGIN and its    *)
(* END, while other windows come and go.                                   *)
(***************************************************************************)
EXTENDS EasyMulti, TLAPS

-----------------------------------------------------------------------------
(* The three ways a thread's stack changes *)

\* Opening a window adds one frame and keeps those below.
LEMMA PushFrame ==
    ASSUME NEW S, NEW s \in Seq(S), NEW f \in S
    PROVE  /\ Append(s, f) \in Seq(S)
           /\ Append(s, f) # <<>>
           /\ Len(Append(s, f)) = Len(s) + 1
           /\ DOMAIN Append(s, f) = DOMAIN s \cup {Len(s) + 1}
           /\ \A i \in DOMAIN s : Append(s, f)[i] = s[i]
           /\ Append(s, f)[Len(s) + 1] = f
           /\ Last(Append(s, f)) = f
BY DEF Last

\* Closing a window removes the innermost frame and keeps the others.
LEMMA PopFrame ==
    ASSUME NEW S, NEW s \in Seq(S), s # <<>>
    PROVE  /\ Front(s) \in Seq(S)
           /\ Len(Front(s)) = Len(s) - 1
           /\ Len(s) \in DOMAIN s /\ Len(s) \in Nat \ {0}
           /\ Last(s) = s[Len(s)] /\ Last(s) \in S
           /\ DOMAIN Front(s) = DOMAIN s \ {Len(s)}
           /\ \A i \in DOMAIN Front(s) : Front(s)[i] = s[i]
<1>1. Len(s) \in Nat \ {0} /\ DOMAIN s = 1..Len(s)
  OBVIOUS
<1>2. /\ Front(s) \in Seq(S) /\ Len(Front(s)) = Len(s) - 1
      /\ \A i \in 1..(Len(s) - 1) : Front(s)[i] = s[i]
  BY <1>1 DEF Front
<1>3. DOMAIN Front(s) = 1..(Len(s) - 1)
  BY <1>2
<1> QED
  BY <1>1, <1>2, <1>3 DEF Last

\* Replacing the innermost frame keeps the depth and the others.
LEMMA ReplaceFrame ==
    ASSUME NEW S, NEW s \in Seq(S), s # <<>>, NEW f \in S
    PROVE  /\ Append(Front(s), f) \in Seq(S)
           /\ Append(Front(s), f) # <<>>
           /\ Len(Append(Front(s), f)) = Len(s)
           /\ DOMAIN Append(Front(s), f) = DOMAIN s
           /\ \A i \in DOMAIN s \ {Len(s)} : Append(Front(s), f)[i] = s[i]
           /\ Append(Front(s), f)[Len(s)] = f
           /\ Last(Append(Front(s), f)) = f
<1>1. /\ Front(s) \in Seq(S) /\ Len(Front(s)) = Len(s) - 1
      /\ Len(s) \in Nat \ {0}
      /\ DOMAIN Front(s) = DOMAIN s \ {Len(s)}
      /\ \A i \in DOMAIN Front(s) : Front(s)[i] = s[i]
      /\ Len(s) \in DOMAIN s
  BY PopFrame
<1>2. Len(Front(s)) + 1 = Len(s)
  BY <1>1
<1> QED
  BY <1>1, <1>2, PushFrame

-----------------------------------------------------------------------------
(* Type correctness *)

\* The stacks stay sequences of frames, whichever way a thread's one changes.
LEMMA StackTypes ==
    ASSUME stack \in [Thread -> Seq(Frame)], NEW t \in Thread, NEW f \in Frame
    PROVE  /\ Push(t, f) => stack' \in [Thread -> Seq(Frame)]
           /\ stack[t] # <<>> /\ Pop(t) => stack' \in [Thread -> Seq(Frame)]
           /\ stack[t] # <<>> /\ Replace(t, f) =>
                stack' \in [Thread -> Seq(Frame)]
<1>1. Append(stack[t], f) \in Seq(Frame)
  BY PushFrame
<1>2. ASSUME stack[t] # <<>>
      PROVE  Front(stack[t]) \in Seq(Frame)
             /\ Append(Front(stack[t]), f) \in Seq(Frame)
  BY <1>2, PopFrame, ReplaceFrame
<1> QED
  BY <1>1, <1>2 DEF Push, Pop, Replace

\* Storing a thread state, or NULL, in a slot keeps both kinds of slots typed.
LEMMA SlotTypes ==
    ASSUME TypeOK, NEW v \in Thread \cup {NULL}
    PROVE  /\ \A e \in Easy : SetEasy(e, v) \/ SetSlot(e, v) =>
                /\ state' \in [Easy -> Thread \cup {NULL}]
                /\ mstate' \in [Multi -> Thread \cup {NULL}]
           /\ \A m \in Multi : SetMulti(m, v) =>
                /\ state' \in [Easy -> Thread \cup {NULL}]
                /\ mstate' \in [Multi -> Thread \cup {NULL}]
BY DEF TypeOK, SetEasy, SetMulti, SetSlot

\* The fields of the innermost frame of a thread that has one.
LEMMA TopFrame ==
    ASSUME TypeOK, NEW t \in Thread, stack[t] # <<>>
    PROVE  /\ Last(stack[t]) \in Frame
           /\ Last(stack[t]).op \in EasyOps \cup MultiOps
           /\ Last(stack[t]).e \in Easy \cup {NULL}
           /\ Last(stack[t]).m \in Multi \cup {NULL}
           /\ Last(stack[t]).ok \in BOOLEAN
           /\ Last(stack[t]).saved \in Thread \cup {NULL}
           /\ Last(stack[t]).todo \in SUBSET Easy
           /\ Last(stack[t]).op \in EasyOps \cup
                {"add", "undo", "remove", "mdetach"} => Last(stack[t]).e \in Easy
           /\ Last(stack[t]).op \in MultiOps \cup {"detach"} =>
                Last(stack[t]).m \in Multi
<1>1. Last(stack[t]) \in Frame
  BY PopFrame DEF TypeOK
<1> QED
  BY <1>1 DEF Frame

\* The frame a call opens.
LEMMA WindowType ==
    ASSUME NEW op \in EasyOps \cup MultiOps, NEW e \in Easy \cup {NULL},
           NEW m \in Multi \cup {NULL}, NEW ok \in BOOLEAN,
           NEW todo \in SUBSET Easy,
           op \in EasyOps \cup {"add", "undo", "remove", "mdetach"} => e # NULL,
           op \in MultiOps \cup {"detach"} => m # NULL
    PROVE  Window(op, e, m, ok, todo) \in Frame
BY DEF Window, Frame

\* Every step of a call on an easy keeps the types.
LEMMA EasyTypes ==
    ASSUME TypeOK, NEW t \in Thread, EasyCall(t)
    PROVE  TypeOK'
<1> PICK e \in Easy :
      IO(t, e) \/ Pause(t, e) \/ Close(t, e) \/ CloseAttached(t, e)
  BY DEF EasyCall
<1> USE DEF TypeOK, life, links
<1>1. CASE IO(t, e)
  <2>1. Window("io", e, NULL, TRUE, {}) \in Frame
    BY WindowType, NullAssumption DEF EasyOps, MultiOps
  <2> QED
    BY <1>1, <2>1, StackTypes, SlotTypes DEF IO
<1>2. CASE Pause(t, e)
  <2>1. Window("pause", e, NULL, TRUE, {}) \in Frame
    BY WindowType, NullAssumption DEF EasyOps, MultiOps
  <2>2. (IF multi_stack[e] # NULL THEN mstate[multi_stack[e]] ELSE state[e])
          \in Thread \cup {NULL}
    OBVIOUS
  <2>3. [Window("pause", e, NULL, TRUE, {}) EXCEPT !.saved =
            IF multi_stack[e] # NULL THEN mstate[multi_stack[e]] ELSE state[e]]
          \in Frame
    BY <2>1, <2>2 DEF Frame
  <2> QED
    BY <1>2, <2>3, StackTypes, SlotTypes DEF Pause
<1>3. CASE Close(t, e)
  <2>1. Window("cleanup", e, NULL, TRUE, {}) \in Frame
    BY WindowType, NullAssumption DEF EasyOps, MultiOps
  <2> QED
    BY <1>3, <2>1, StackTypes, SlotTypes DEF Close, ToCleanup
<1>4. CASE CloseAttached(t, e)
  <2>1. Window("detach", e, multi_stack[e], TRUE, {}) \in Frame
    BY <1>4, WindowType, NullAssumption DEF EasyOps, MultiOps, CloseAttached
  <2> QED
    BY <1>4, <2>1, StackTypes, SlotTypes DEF CloseAttached
<1> QED
  BY <1>1, <1>2, <1>3, <1>4

\* Every step of a call on a multi keeps the types.
LEMMA MultiTypes ==
    ASSUME TypeOK, NEW t \in Thread, MultiCall(t)
    PROVE  TypeOK'
<1> USE DEF TypeOK, life, links, slots
<1> PICK m \in Multi :
      \/ Drive(t, m) \/ CloseMulti(t, m) \/ DropMulti(t, m)
      \/ \E e \in Easy :
           AddHandle(t, m, e) \/ RemoveHandle(t, m, e) \/ RemoveClosed(t, m, e)
  BY DEF MultiCall
<1>1. CASE Drive(t, m)
  <2>1. Window("drive", NULL, m, TRUE, {}) \in Frame
    BY WindowType, NullAssumption DEF EasyOps, MultiOps
  <2> QED
    BY <1>1, <2>1, StackTypes, SlotTypes DEF Drive
<1>2. CASE CloseMulti(t, m)
  <2> DEFINE c == m \in CloseHandles
  <2> c \in BOOLEAN
    OBVIOUS
  <2> HIDE DEF c
  <2>0. Window("mloop", NULL, m, c, refs[m]) \in Frame
    BY WindowType, NullAssumption DEF EasyOps, MultiOps
  <2>1. Window("mloop", NULL, m, m \in CloseHandles, refs[m]) \in Frame
    BY <2>0 DEF c
  <2> QED
    BY <1>2, <2>1, StackTypes DEF CloseMulti
<1>3. CASE DropMulti(t, m)
  <2>1. Window("mloop", NULL, m, FALSE, refs[m]) \in Frame
    BY WindowType, NullAssumption DEF EasyOps, MultiOps
  <2> QED
    BY <1>3, <2>1, StackTypes DEF DropMulti
<1>4. ASSUME NEW e \in Easy, AddHandle(t, m, e) PROVE TypeOK'
  <2> PICK ok \in BOOLEAN :
        /\ in_multi' = IF ok THEN [in_multi EXCEPT ![e] = m] ELSE in_multi
        /\ Push(t, Window("add", e, m, ok, {}))
    BY <1>4 DEF AddHandle
  <2>1. Window("add", e, m, ok, {}) \in Frame
    BY WindowType, NullAssumption DEF EasyOps, MultiOps
  <2> QED
    BY <1>4, <2>1, StackTypes, SlotTypes DEF AddHandle
<1>5. ASSUME NEW e \in Easy, RemoveHandle(t, m, e) PROVE TypeOK'
  <2> PICK ok \in BOOLEAN :
        /\ in_multi' = IF ok THEN [in_multi EXCEPT ![e] = NULL] ELSE in_multi
        /\ Push(t, Window("remove", e, m, ok, {}))
    BY <1>5 DEF RemoveHandle
  <2>1. Window("remove", e, m, ok, {}) \in Frame
    BY WindowType, NullAssumption DEF EasyOps, MultiOps
  <2> QED
    BY <1>5, <2>1, StackTypes, SlotTypes DEF RemoveHandle
<1>6. ASSUME NEW e \in Easy, RemoveClosed(t, m, e) PROVE TypeOK'
  BY <1>6 DEF RemoveClosed
<1> QED
  BY <1>1, <1>2, <1>3, <1>4, <1>5, <1>6

\* Every return of libcurl keeps the types.
LEMMA ReturnTypes ==
    ASSUME TypeOK, NEW t \in Thread, Return(t)
    PROVE  TypeOK'
<1> DEFINE f == Last(stack[t])
<1> USE DEF TypeOK, life, links
<1>a. stack[t] # <<>>
  BY DEF Return, Returning, InFrame, IOEnd, PauseEnd, DetachEnd, CleanupEnd,
         DriveEnd, AddEnd, AddRefused, AddUndo, AddUndoEnd, RemoveEnd,
         LoopDetachEnd, MultiCleanupEnd
<1>b. /\ f \in Frame
      /\ f.e \in Easy \cup {NULL} /\ f.m \in Multi \cup {NULL}
      /\ f.ok \in BOOLEAN /\ f.saved \in Thread \cup {NULL}
      /\ f.op \in EasyOps \cup {"add", "undo", "remove", "mdetach"} =>
           f.e \in Easy
      /\ f.op \in MultiOps \cup {"detach"} => f.m \in Multi
  BY <1>a, TopFrame
<1>c. Pop(t) => stack' \in [Thread -> Seq(Frame)]
  BY <1>a, <1>b, StackTypes
<1> USE DEF Returning, InFrame, EasyOps, MultiOps
<1> HIDE DEF f
<1>1. CASE IOEnd(t)
  BY <1>1, <1>b, <1>c, SlotTypes DEF IOEnd, f
<1>2. CASE PauseEnd(t)
  BY <1>2, <1>b, <1>c, SlotTypes DEF PauseEnd, f
<1>3. CASE DetachEnd(t)
  <2>1. f.op = "detach" /\ f.e \in Easy /\ f.m \in Multi
    BY <1>3, <1>b DEF DetachEnd, f
  <2>2. Window("cleanup", f.e, NULL, TRUE, {}) \in Frame
    BY <2>1, WindowType, NullAssumption
  <2>3. stack' \in [Thread -> Seq(Frame)]
    BY <1>3, <2>2, <1>a, StackTypes DEF DetachEnd, f
  <2> QED
    BY <1>3, <2>1, <2>3 DEF DetachEnd, ToCleanup, f
<1>4. CASE CleanupEnd(t)
  BY <1>4, <1>b, <1>c, SlotTypes DEF CleanupEnd, f
<1>5. CASE DriveEnd(t)
  BY <1>5, <1>b, <1>c, SlotTypes DEF DriveEnd, f
<1>6. CASE AddEnd(t)
  BY <1>6, <1>b, <1>c, SlotTypes DEF AddEnd, f
<1>7. CASE AddRefused(t)
  BY <1>7, <1>b, <1>c, SlotTypes DEF AddRefused, f
<1>8. CASE AddUndo(t)
  <2>1. f.op = "add" /\ f.e \in Easy /\ f.m \in Multi
    BY <1>8, <1>b DEF AddUndo, f
  <2>2. Window("undo", f.e, f.m, FALSE, {}) \in Frame
    BY <2>1, WindowType, NullAssumption
  <2>3. stack' \in [Thread -> Seq(Frame)]
    BY <1>8, <2>2, <1>a, StackTypes DEF AddUndo, f
  <2> QED
    BY <1>8, <2>1, <2>3, SlotTypes DEF AddUndo, f
<1>9. CASE AddUndoEnd(t)
  BY <1>9, <1>b, <1>c, SlotTypes DEF AddUndoEnd, f
<1>10. CASE RemoveEnd(t)
  BY <1>10, <1>b, <1>c, SlotTypes DEF RemoveEnd, f
<1>11. CASE LoopDetachEnd(t)
  <2>1. f.op = "mdetach" /\ f.e \in Easy /\ f.m \in Multi
    BY <1>11, <1>b DEF LoopDetachEnd, f
  <2>2. [f EXCEPT !.op = "mloop", !.e = IF f.ok THEN f.e ELSE NULL] \in Frame
    BY <2>1, <1>b DEF Frame
  <2>3. stack' \in [Thread -> Seq(Frame)]
    BY <1>11, <2>2, <1>a, StackTypes DEF LoopDetachEnd, f
  <2> QED
    BY <1>11, <2>1, <2>3, SlotTypes DEF LoopDetachEnd, f
<1>12. CASE MultiCleanupEnd(t)
  BY <1>12, <1>b, <1>c, SlotTypes DEF MultiCleanupEnd, f
<1> QED
  BY <1>1, <1>2, <1>3, <1>4, <1>5, <1>6, <1>7, <1>8, <1>9, <1>10, <1>11, <1>12
     DEF Return

\* Every step of a multi's close() between two windows keeps the types.
LEMMA LoopTypes ==
    ASSUME TypeOK, NEW t \in Thread, Loop(t)
    PROVE  TypeOK'
<1> DEFINE f == Last(stack[t])
<1> USE DEF TypeOK, life, links, slots
<1>a. stack[t] # <<>> /\ f.op = "mloop"
  BY DEF Loop, Looping, InFrame, LoopSkip, LoopDetach, LoopUnlink, LoopClose,
         LoopCloseNoop, LoopAbort, LoopEnd, LoopEndClosed
<1>b. /\ f \in Frame
      /\ f.e \in Easy \cup {NULL} /\ f.m \in Multi
      /\ f.ok \in BOOLEAN /\ f.todo \in SUBSET Easy
  BY <1>a, TopFrame DEF MultiOps
<1>c. Pop(t) => stack' \in [Thread -> Seq(Frame)]
  BY <1>a, <1>b, StackTypes
<1>d. ASSUME NEW todo \in SUBSET Easy, NEW x \in Easy \cup {NULL}
      PROVE  /\ [f EXCEPT !.todo = todo] \in Frame
             /\ [f EXCEPT !.e = x] \in Frame
             /\ [f EXCEPT !.todo = todo, !.e = x] \in Frame
  BY <1>a, <1>b DEF Frame, EasyOps, MultiOps
<1> HIDE DEF f
<1>1. CASE LoopSkip(t)
  <2> PICK e \in f.todo : Replace(t, [f EXCEPT !.todo = @ \ {e}])
    BY <1>1 DEF LoopSkip, f
  <2>1. [f EXCEPT !.todo = @ \ {e}] \in Frame
    BY <1>b, <1>d
  <2>2. stack' \in [Thread -> Seq(Frame)]
    BY <2>1, <1>a, StackTypes
  <2> QED
    BY <1>1, <2>2 DEF LoopSkip
<1>2. CASE LoopDetach(t)
  <2> PICK e \in f.todo :
        /\ SetMulti(f.m, t)
        /\ in_multi' = [in_multi EXCEPT ![e] = NULL]
        /\ Replace(t, Window("mdetach", e, f.m, f.ok, f.todo \ {e}))
    BY <1>2 DEF LoopDetach, f
  <2>1. Window("mdetach", e, f.m, f.ok, f.todo \ {e}) \in Frame
    BY <1>b, WindowType, NullAssumption DEF EasyOps, MultiOps
  <2>2. stack' \in [Thread -> Seq(Frame)]
    BY <2>1, <1>a, StackTypes
  <2> QED
    BY <1>2, <1>b, <2>2, SlotTypes DEF LoopDetach
<1>3. CASE LoopUnlink(t)
  <2> PICK e \in f.todo :
        /\ multi_stack' = [multi_stack EXCEPT ![e] = NULL]
        /\ Replace(t, [f EXCEPT !.todo = @ \ {e},
                                !.e = IF f.ok THEN e ELSE NULL])
    BY <1>3 DEF LoopUnlink, f
  <2>1. (IF f.ok THEN e ELSE NULL) \in Easy \cup {NULL}
    BY <1>b
  <2>2. [f EXCEPT !.todo = @ \ {e}, !.e = IF f.ok THEN e ELSE NULL] \in Frame
    BY <1>b, <1>d, <2>1
  <2>3. stack' \in [Thread -> Seq(Frame)]
    BY <2>2, <1>a, StackTypes
  <2> QED
    BY <1>3, <2>3 DEF LoopUnlink
<1>4. CASE LoopClose(t)
  <2>1. f.e \in Easy
    BY <1>4, <1>b DEF LoopClose, f
  <2>2. Window("cleanup", f.e, NULL, TRUE, {}) \in Frame
    BY <2>1, WindowType, NullAssumption DEF EasyOps, MultiOps
  <2>3. [f EXCEPT !.e = NULL] \in Frame
    BY <1>b, <1>d
  <2>4. Append(Front(stack[t]), [f EXCEPT !.e = NULL]) \in Seq(Frame)
    BY <2>3, <1>a, ReplaceFrame
  <2>5. stack' \in [Thread -> Seq(Frame)]
    BY <1>4, <2>2, <2>4, PushFrame DEF LoopClose, f
  <2> QED
    BY <1>4, <2>1, <2>5, SlotTypes DEF LoopClose, ToCleanup, f
<1>5. CASE LoopCloseNoop(t)
  <2>1. [f EXCEPT !.e = NULL] \in Frame
    BY <1>b, <1>d
  <2>2. stack' \in [Thread -> Seq(Frame)]
    BY <1>5, <2>1, <1>a, StackTypes DEF LoopCloseNoop, f
  <2> QED
    BY <1>5, <2>2 DEF LoopCloseNoop
<1>6. CASE LoopAbort(t)
  BY <1>6, <1>c DEF LoopAbort
<1>7. CASE LoopEnd(t)
  <2>1. Window("mcleanup", NULL, f.m, TRUE, {}) \in Frame
    BY <1>b, WindowType, NullAssumption DEF EasyOps, MultiOps
  <2>2. stack' \in [Thread -> Seq(Frame)]
    BY <1>7, <2>1, <1>a, StackTypes DEF LoopEnd, f
  <2> QED
    BY <1>7, <1>b, <2>2, SlotTypes DEF LoopEnd, f
<1>8. CASE LoopEndClosed(t)
  BY <1>8, <1>b, <1>c, SlotTypes DEF LoopEndClosed, f
<1> QED
  BY <1>1, <1>2, <1>3, <1>4, <1>5, <1>6, <1>7, <1>8 DEF Loop

\* Entering and leaving a callback keeps the types.
LEMMA CallbackTypes ==
    ASSUME TypeOK, NEW t \in Thread, EnterCallback(t) \/ LeaveCallback(t)
    PROVE  TypeOK'
<1> DEFINE f == Last(stack[t])
<1>1. stack[t] # <<>>
  BY DEF EnterCallback, LeaveCallback
<1>2. f \in Frame
  BY <1>1, TopFrame
<1>3. [f EXCEPT !.at = "py"] \in Frame /\ [f EXCEPT !.at = "lib"] \in Frame
  BY <1>2 DEF Frame
<1>4. stack' \in [Thread -> Seq(Frame)]
  BY <1>1, <1>3, StackTypes DEF EnterCallback, LeaveCallback, TypeOK
<1> QED
  BY <1>4 DEF EnterCallback, LeaveCallback, TypeOK, slots, life, links

\* The invariant TypeOK of the runs, for every instance.
THEOREM TypeCorrect == Spec => []TypeOK
<1>1. Init => TypeOK
  BY DEF Init, TypeOK
<1>2. TypeOK /\ [Next]_vars => TypeOK'
  <2> SUFFICES ASSUME TypeOK, [Next]_vars PROVE TypeOK'
    OBVIOUS
  <2>1. CASE UNCHANGED vars
    BY <2>1 DEF vars, TypeOK
  <2>2. ASSUME NEW t \in Thread, Step(t) PROVE TypeOK'
    BY <2>2, EasyTypes, MultiTypes, ReturnTypes, LoopTypes, CallbackTypes
       DEF Step
  <2> QED
    BY <2>1, <2>2 DEF Next
<1> QED
  BY <1>1, <1>2, PTL DEF Spec

-----------------------------------------------------------------------------
(* Slots *)

\* A window's slot is the easy's own, or the one of the multi SlotMulti(f).
InEasy(f) ==
    \/ f.op \in {"io", "cleanup"}
    \/ f.op \in {"pause", "detach"} /\ multi_stack[f.e] = NULL
SlotMulti(f) == IF f.op \in {"pause", "detach"} THEN multi_stack[f.e] ELSE f.m
SameSlot(f, g) ==
    IF InEasy(f) THEN InEasy(g) /\ f.e = g.e
                 ELSE ~InEasy(g) /\ SlotMulti(f) = SlotMulti(g)

Closing(f) == f.op \in {"mloop", "mdetach", "mcleanup"}
Adds(f, e) == f.op \in {"add", "undo"} /\ f.e = e

\* what holds of every frame f of thread t
Sound(t, f) ==
    /\ f.op # "mloop" => SlotOf(f) = t
    /\ f.op \in {"detach", "mdetach"} => multi_stack[f.e] = f.m
    /\ f.op = "detach" => state[f.e] = NULL
    /\ f.op \in {"add", "undo"} => multi_stack[f.e] = NULL /\ state[f.e] = NULL
    /\ f.op = "mloop" => f.at = "lib"

\* two different calls never add the same easy, nor add the easy that the
\* loop of a multi's close() is about to close
AddsApart(f, g) ==
    f.op \in {"add", "undo"} => ~Adds(g, f.e) /\ ~(g.op = "mloop" /\ g.e = f.e)

\* what holds of a frame f anywhere below the frame g of the same thread t
Nested(t, f, g) ==
    /\ f.op # "mloop" /\ SameSlot(f, g) => g.op = "pause" /\ g.saved = t
    /\ f.op = "mloop" => f.e = NULL
    /\ AddsApart(f, g)

\* what holds of the frames f and g of two different threads
Separate(f, g) ==
    /\ Closing(f) => InEasy(g) \/ SlotMulti(g) # f.m
    /\ AddsApart(f, g)

\* f is frame number i of thread t
IsFrame(t, i, f) == i \in DOMAIN stack[t] /\ f = stack[t][i]

SlotInv ==
    /\ \A t \in Thread, f \in Frame, i \in Nat : IsFrame(t, i, f) => Sound(t, f)
    /\ \A t \in Thread, f, g \in Frame, i, j \in Nat :
         IsFrame(t, i, f) /\ IsFrame(t, j, g) /\ i < j => Nested(t, f, g)
    /\ \A t, u \in Thread, f, g \in Frame, i, j \in Nat :
         IsFrame(t, i, f) /\ IsFrame(u, j, g) /\ t # u => Separate(f, g)

-----------------------------------------------------------------------------
(* The invariant after a step, frame by frame.  The first n frames of t    *)
(* stay, and all those of the other threads; t has at most one new frame.  *)

Stays(t, n, u, i, f) == IsFrame(u, i, f) /\ (u = t => i <= n)

\* the step keeps what the invariant says of the frames that stay ...
KeptSound(t, n) ==
    \A u \in Thread, f \in Frame, i \in Nat : Stays(t, n, u, i, f) => Sound(u, f)'
KeptPairs(t, n) ==
    /\ \A u \in Thread, f, g \in Frame, i, j \in Nat :
         Stays(t, n, u, i, f) /\ Stays(t, n, u, j, g) /\ i < j => Nested(u, f, g)'
    /\ \A u, w \in Thread, f, g \in Frame, i, j \in Nat :
         Stays(t, n, u, i, f) /\ Stays(t, n, w, j, g) /\ u # w => Separate(f, g)'

\* ... and brings it about for the new frame g
NewSound(t, n, g) ==
    /\ Sound(t, g)'
    /\ \A u \in Thread, f \in Frame, i \in Nat : Stays(t, n, u, i, f) =>
         IF u = t THEN Nested(t, f, g)' ELSE Separate(f, g)' /\ Separate(g, f)'

\* The invariant after a step, from what stays and from the new frame.
LEMMA Rebuild ==
    ASSUME NEW t \in Thread, NEW n \in Nat, NEW new \in Frame,
           \A u \in Thread, i \in Nat, f \in Frame :
             IsFrame(u, i, f)' => \/ Stays(t, n, u, i, f)
                                  \/ u = t /\ i = n + 1 /\ f = new
                                       /\ NewSound(t, n, new),
           KeptSound(t, n), KeptPairs(t, n)
    PROVE  SlotInv'
<1>1. ASSUME NEW u \in Thread, NEW f \in Frame, NEW i \in Nat, IsFrame(u, i, f)'
      PROVE  Sound(u, f)'
  BY <1>1 DEF KeptSound, NewSound
<1>2. ASSUME NEW u \in Thread, NEW f \in Frame, NEW g \in Frame,
             NEW i \in Nat, NEW j \in Nat,
             IsFrame(u, i, f)', IsFrame(u, j, g)', i < j
      PROVE  Nested(u, f, g)'
  <2>1. Stays(t, n, u, i, f)
    BY <1>2 DEF Stays
  <2>2. CASE Stays(t, n, u, j, g)
    BY <1>2, <2>1, <2>2 DEF KeptPairs
  <2>3. CASE ~Stays(t, n, u, j, g)
    BY <1>2, <2>1, <2>3 DEF NewSound
  <2> QED
    BY <2>2, <2>3
<1>3. ASSUME NEW u \in Thread, NEW w \in Thread, NEW f \in Frame, NEW g \in Frame,
             NEW i \in Nat, NEW j \in Nat,
             IsFrame(u, i, f)', IsFrame(w, j, g)', u # w
      PROVE  Separate(f, g)'
  <2>1. CASE Stays(t, n, u, i, f) /\ Stays(t, n, w, j, g)
    BY <1>3, <2>1 DEF KeptPairs
  <2>2. CASE ~Stays(t, n, u, i, f)
    BY <1>3, <2>2 DEF NewSound
  <2>3. CASE ~Stays(t, n, w, j, g)
    BY <1>3, <2>3 DEF NewSound
  <2> QED
    BY <2>1, <2>2, <2>3
<1> QED
  BY <1>1, <1>2, <1>3 DEF SlotInv

\* A step that opens a window.
LEMMA PushInv ==
    ASSUME TypeOK, NEW t \in Thread, NEW f \in Frame, Push(t, f),
           KeptSound(t, Len(stack[t])), KeptPairs(t, Len(stack[t])),
           NewSound(t, Len(stack[t]), f)
    PROVE  SlotInv'
<1>1. stack[t] \in Seq(Frame) /\ Len(stack[t]) \in Nat
  BY DEF TypeOK
<1>2. /\ DOMAIN stack'[t] = DOMAIN stack[t] \cup {Len(stack[t]) + 1}
      /\ \A i \in DOMAIN stack[t] : stack'[t][i] = stack[t][i]
      /\ stack'[t][Len(stack[t]) + 1] = f
      /\ \A u \in Thread \ {t} : stack'[u] = stack[u]
  BY <1>1, PushFrame DEF Push, TypeOK
<1>3. DOMAIN stack[t] = 1..Len(stack[t])
  BY <1>1
<1>4. \A u \in Thread, i \in Nat, g \in Frame :
        IsFrame(u, i, g)' => \/ Stays(t, Len(stack[t]), u, i, g)
                             \/ u = t /\ i = Len(stack[t]) + 1 /\ g = f
  BY <1>1, <1>2, <1>3 DEF IsFrame, Stays
<1> QED
  BY <1>1, <1>4, Rebuild

\* A step that ends a window.
LEMMA PopInv ==
    ASSUME TypeOK, NEW t \in Thread, stack[t] # <<>>, Pop(t),
           KeptSound(t, Len(stack[t]) - 1), KeptPairs(t, Len(stack[t]) - 1)
    PROVE  SlotInv'
<1> DEFINE n == Len(stack[t]) - 1
<1>1. stack[t] \in Seq(Frame) /\ Len(stack[t]) \in Nat /\ n \in Nat
      /\ DOMAIN stack[t] = 1..(n + 1)
  BY PopFrame DEF TypeOK
<1>2. /\ DOMAIN stack'[t] = DOMAIN stack[t] \ {n + 1}
      /\ \A i \in DOMAIN stack'[t] : stack'[t][i] = stack[t][i]
      /\ \A u \in Thread \ {t} : stack'[u] = stack[u]
  <2>1. stack'[t] = Front(stack[t]) /\ \A u \in Thread \ {t} : stack'[u] = stack[u]
    BY DEF Pop, TypeOK
  <2>2. /\ DOMAIN Front(stack[t]) = DOMAIN stack[t] \ {Len(stack[t])}
        /\ \A i \in DOMAIN Front(stack[t]) : Front(stack[t])[i] = stack[t][i]
    BY <1>1, PopFrame
  <2> QED
    BY <1>1, <2>1, <2>2
<1>3. \A u \in Thread, i \in Nat, g \in Frame :
        IsFrame(u, i, g)' => Stays(t, n, u, i, g)
  BY <1>1, <1>2 DEF IsFrame, Stays
<1>4. PICK f \in Frame : TRUE
  BY <1>1
<1> QED
  BY <1>1, <1>3, <1>4, Rebuild

\* A step that ends a window and opens another, or changes the innermost one.
LEMMA ReplaceInv ==
    ASSUME TypeOK, NEW t \in Thread, stack[t] # <<>>, NEW f \in Frame,
           Replace(t, f),
           KeptSound(t, Len(stack[t]) - 1), KeptPairs(t, Len(stack[t]) - 1),
           NewSound(t, Len(stack[t]) - 1, f)
    PROVE  SlotInv'
<1> DEFINE n == Len(stack[t]) - 1
<1>1. stack[t] \in Seq(Frame) /\ Len(stack[t]) \in Nat /\ n \in Nat
      /\ DOMAIN stack[t] = 1..(n + 1) /\ n + 1 = Len(stack[t])
  BY PopFrame DEF TypeOK
<1>2. /\ DOMAIN stack'[t] = DOMAIN stack[t]
      /\ \A i \in DOMAIN stack[t] \ {n + 1} : stack'[t][i] = stack[t][i]
      /\ stack'[t][n + 1] = f
      /\ \A u \in Thread \ {t} : stack'[u] = stack[u]
  <2> DEFINE s == Append(Front(stack[t]), f)
  <2>1. stack'[t] = s /\ \A u \in Thread \ {t} : stack'[u] = stack[u]
    BY DEF Replace, TypeOK
  <2>2. /\ DOMAIN s = DOMAIN stack[t]
        /\ \A i \in DOMAIN stack[t] \ {Len(stack[t])} : s[i] = stack[t][i]
        /\ s[Len(stack[t])] = f
    BY <1>1, ReplaceFrame
  <2> QED
    BY <1>1, <2>1, <2>2
<1>3. \A u \in Thread, i \in Nat, g \in Frame :
        IsFrame(u, i, g)' => \/ Stays(t, n, u, i, g)
                             \/ u = t /\ i = n + 1 /\ g = f
  BY <1>1, <1>2 DEF IsFrame, Stays
<1> QED
  BY <1>1, <1>3, Rebuild

-----------------------------------------------------------------------------
(* What the invariant says of slots *)

\* The value of the slot a frame uses.
LEMMA SlotValue ==
    ASSUME NEW f \in Frame, f.op # "mloop"
    PROVE  SlotOf(f) = IF InEasy(f) THEN state[f.e] ELSE mstate[SlotMulti(f)]
BY DEF SlotOf, InEasy, SlotMulti, Frame, EasyOps, MultiOps

\* A slot that is NULL is nobody's.
LEMMA FreeSlot ==
    ASSUME SlotInv, NEW u \in Thread, NEW i \in Nat, NEW f \in Frame,
           IsFrame(u, i, f), f.op # "mloop"
    PROVE  /\ InEasy(f) => state[f.e] = u
           /\ ~InEasy(f) => mstate[SlotMulti(f)] = u
           /\ u # NULL
BY SlotValue, NullAssumption DEF SlotInv, Sound

\* Callbacks of an easy that is in no window of its own or of its multi's
\* are not running: no window is open whose end would look at multi_stack.
LEMMA FreeEasy ==
    ASSUME SlotInv, NEW e \in Easy, ThreadState(e) = NULL
    PROVE  /\ state[e] = NULL
           /\ multi_stack[e] # NULL => mstate[multi_stack[e]] = NULL
           /\ \A u \in Thread, i \in Nat, f \in Frame :
                IsFrame(u, i, f) /\ f.e = e =>
                    f.op \notin {"io", "cleanup", "pause", "detach", "mdetach"}
<1>1. /\ state[e] = NULL
      /\ multi_stack[e] # NULL => mstate[multi_stack[e]] = NULL
  BY DEF ThreadState
<1>2. ASSUME NEW u \in Thread, NEW i \in Nat, NEW f \in Frame,
             IsFrame(u, i, f), f.e = e,
             f.op \in {"io", "cleanup", "pause", "detach", "mdetach"}
      PROVE  FALSE
  <2>1. Sound(u, f)
    BY <1>2 DEF SlotInv
  <2> QED
    BY <1>1, <1>2, <2>1, FreeSlot DEF InEasy, SlotMulti, Sound, Frame, MultiOps
<1> QED
  BY <1>1, <1>2

\* The innermost window of a thread, unless it is a pause, has its slot for
\* itself.
LEMMA TopAlone ==
    ASSUME TypeOK, SlotInv, NEW t \in Thread, stack[t] # <<>>,
           NEW g, g = Last(stack[t]), g.op # "pause",
           NEW u \in Thread, NEW i \in Nat, NEW f \in Frame,
           Stays(t, Len(stack[t]) - 1, u, i, f), f.op # "mloop"
    PROVE  ~SameSlot(f, g)
<1>1. IsFrame(t, Len(stack[t]), g) /\ g \in Frame /\ Len(stack[t]) \in Nat
  BY PopFrame DEF IsFrame, TypeOK
<1>2. IsFrame(u, i, f)
  BY DEF Stays
<1>3. CASE u = t
  <2>1. i < Len(stack[t])
    BY <1>1, <1>3 DEF Stays
  <2> QED
    BY <1>1, <1>2, <1>3, <2>1 DEF SlotInv, Nested
<1>4. CASE u # t /\ g.op # "mloop"
  BY <1>1, <1>2, <1>4, FreeSlot DEF SameSlot
<1>5. CASE u # t /\ g.op = "mloop"
  BY <1>1, <1>2, <1>5 DEF SlotInv, Separate, Closing, SameSlot, InEasy, SlotMulti
<1> QED
  BY <1>3, <1>4, <1>5

-----------------------------------------------------------------------------
(* What a step may change without disturbing the frames that stay *)

\* the step moves no multi_stack that a window depends on, and v goes into a
\* slot that no other window uses, or only windows of the thread v
AnchorsStay(t, n) == \A u \in Thread, i \in Nat, f \in Frame :
    Stays(t, n, u, i, f) /\ f.op \in {"pause", "detach", "mdetach", "add", "undo"}
        => multi_stack'[f.e] = multi_stack[f.e]
EasySlotFree(t, n, e, v) == \A u \in Thread, i \in Nat, f \in Frame :
    Stays(t, n, u, i, f) =>
        /\ f.op # "mloop" /\ InEasy(f) => f.e # e \/ v = u
        /\ f.op \in {"detach", "add", "undo"} => f.e # e \/ v = NULL
MultiSlotFree(t, n, m, v) == \A u \in Thread, i \in Nat, f \in Frame :
    Stays(t, n, u, i, f) /\ f.op # "mloop" /\ ~InEasy(f)
        => SlotMulti(f) # m \/ v = u

\* Pairs of frames: multi_stack, except where no window depends on it.
LEMMA PairsKept ==
    ASSUME SlotInv, NEW t \in Thread, NEW n \in Nat,
           AnchorsStay(t, n)
    PROVE  KeptPairs(t, n)
<1>1. \A u \in Thread, i \in Nat, f \in Frame :
        Stays(t, n, u, i, f) => /\ InEasy(f)' = InEasy(f)
                                /\ SlotMulti(f)' = SlotMulti(f)
  BY DEF AnchorsStay, InEasy, SlotMulti
<1>2. ASSUME NEW u \in Thread, NEW f \in Frame, NEW g \in Frame,
             NEW i \in Nat, NEW j \in Nat,
             Stays(t, n, u, i, f), Stays(t, n, u, j, g), i < j
      PROVE  Nested(u, f, g)'
  <2>1. Nested(u, f, g)
    BY <1>2 DEF SlotInv, Stays
  <2> QED
    BY <1>1, <1>2, <2>1 DEF Nested, SameSlot, AddsApart, Adds
<1>3. ASSUME NEW u \in Thread, NEW w \in Thread, NEW f \in Frame, NEW g \in Frame,
             NEW i \in Nat, NEW j \in Nat,
             Stays(t, n, u, i, f), Stays(t, n, w, j, g), u # w
      PROVE  Separate(f, g)'
  <2>1. Separate(f, g)
    BY <1>3 DEF SlotInv, Stays
  <2> QED
    BY <1>1, <1>3, <2>1 DEF Separate, AddsApart, Adds, Closing
<1> QED
  BY <1>2, <1>3 DEF KeptPairs

\* Single frames: a slot other than their own.
LEMMA SoundKept ==
    ASSUME SlotInv, NEW t \in Thread, NEW n \in Nat,
           AnchorsStay(t, n),
           \A u \in Thread, i \in Nat, f \in Frame : Stays(t, n, u, i, f) =>
             /\ f.op \in {"detach", "add", "undo"} => state'[f.e] = state[f.e]
             /\ f.op # "mloop" /\ InEasy(f) => state'[f.e] = u
             /\ f.op # "mloop" /\ ~InEasy(f) => mstate'[SlotMulti(f)] = u
    PROVE  KeptSound(t, n)
<1> SUFFICES ASSUME NEW u \in Thread, NEW i \in Nat, NEW f \in Frame,
                    Stays(t, n, u, i, f)
             PROVE  Sound(u, f)'
  BY DEF KeptSound
<1>1. Sound(u, f)
  BY DEF SlotInv, Stays
<1>2. /\ f.op \in {"pause", "detach", "mdetach", "add", "undo"}
           => multi_stack'[f.e] = multi_stack[f.e]
      /\ InEasy(f)' = InEasy(f) /\ SlotMulti(f)' = SlotMulti(f)
  BY DEF AnchorsStay, InEasy, SlotMulti
<1>3. f.op # "mloop" => SlotOf(f)' = u
  BY <1>2 DEF SlotOf, InEasy, SlotMulti, Frame, EasyOps, MultiOps
<1> QED
  BY <1>1, <1>2, <1>3 DEF Sound

\* Writing v into the slot of an easy no other window uses.
LEMMA EasySlotKept ==
    ASSUME TypeOK, SlotInv, NEW t \in Thread, NEW n \in Nat,
           NEW e \in Easy, NEW v, state' = [state EXCEPT ![e] = v],
           UNCHANGED mstate,
           AnchorsStay(t, n), EasySlotFree(t, n, e, v)
    PROVE  KeptSound(t, n) /\ KeptPairs(t, n)
<1>1. ASSUME NEW u \in Thread, NEW i \in Nat, NEW f \in Frame, Stays(t, n, u, i, f)
      PROVE  /\ f.op \in {"detach", "add", "undo"} => state'[f.e] = state[f.e]
             /\ f.op # "mloop" /\ InEasy(f) => state'[f.e] = u
             /\ f.op # "mloop" /\ ~InEasy(f) => mstate'[SlotMulti(f)] = u
  <2>1. IsFrame(u, i, f) /\ Sound(u, f)
    BY <1>1 DEF Stays, SlotInv
  <2>2. f.op \in {"detach", "add", "undo"} => state[f.e] = NULL
    BY <2>1 DEF Sound
  <2> QED
    BY <1>1, <2>1, <2>2, FreeSlot DEF TypeOK, EasySlotFree
<1> QED
  BY <1>1, SoundKept, PairsKept

\* Writing v into the slot of a multi no other window uses.
LEMMA MultiSlotKept ==
    ASSUME TypeOK, SlotInv, NEW t \in Thread, NEW n \in Nat,
           NEW m \in Multi, NEW v, mstate' = [mstate EXCEPT ![m] = v],
           UNCHANGED state,
           AnchorsStay(t, n), MultiSlotFree(t, n, m, v)
    PROVE  KeptSound(t, n) /\ KeptPairs(t, n)
<1>1. ASSUME NEW u \in Thread, NEW i \in Nat, NEW f \in Frame, Stays(t, n, u, i, f)
      PROVE  /\ f.op \in {"detach", "add", "undo"} => state'[f.e] = state[f.e]
             /\ f.op # "mloop" /\ InEasy(f) => state'[f.e] = u
             /\ f.op # "mloop" /\ ~InEasy(f) => mstate'[SlotMulti(f)] = u
  <2>1. IsFrame(u, i, f)
    BY <1>1 DEF Stays
  <2> QED
    BY <1>1, <2>1, FreeSlot DEF TypeOK, MultiSlotFree
<1> QED
  BY <1>1, SoundKept, PairsKept

-----------------------------------------------------------------------------
(* Calls that open a window *)

\* While a thread runs Python, no multi's close() is between two windows.
LEMMA NoneLooping ==
    ASSUME TypeOK, SlotInv, NEW t \in Thread, CanCall(t),
           NEW u \in Thread, NEW i \in Nat, NEW f \in Frame, IsFrame(u, i, f),
           f.op = "mloop"
    PROVE  f.e = NULL
<1> DEFINE n == Len(stack[u])
<1>1. /\ n \in Nat /\ i \in 1..n /\ stack[u] # <<>>
      /\ Last(stack[u]) = stack[u][n] /\ Last(stack[u]) \in Frame
      /\ IsFrame(u, n, Last(stack[u]))
  <2>1. stack[u] \in Seq(Frame) /\ n \in Nat /\ DOMAIN stack[u] = 1..n
    BY DEF TypeOK
  <2>2. stack[u] # <<>> /\ i \in 1..n
    BY <2>1 DEF IsFrame
  <2> QED
    BY <2>1, <2>2, PopFrame DEF IsFrame
<1>2. CASE i = n
  <2>1. f = Last(stack[u])
    BY <1>1, <1>2 DEF IsFrame
  <2>2. f.at = "lib"
    BY DEF SlotInv, Sound
  <2> QED
    BY <1>1, <2>1, <2>2 DEF CanCall, HasGIL, InFrame
<1>3. CASE i < n
  BY <1>1, <1>3 DEF SlotInv, Nested
<1> QED
  BY <1>1, <1>2, <1>3

\* What a call has to show of the window it opens.
LEMMA NewWindow ==
    ASSUME TypeOK, SlotInv, NEW t \in Thread, CanCall(t), NEW g \in Frame,
           Push(t, g), Sound(t, g)', g.op = "mloop" => g.e = NULL,
           KeptSound(t, Len(stack[t])), KeptPairs(t, Len(stack[t])),
           \A u \in Thread, i \in Nat, f \in Frame : IsFrame(u, i, f) =>
             /\ f.op # "mloop" /\ SameSlot(f, g)'
                  => u = t /\ g.op = "pause" /\ g.saved = t
             /\ u # t /\ Closing(f) => InEasy(g)' \/ (SlotMulti(g)' # f.m)
             /\ u # t /\ f.op = "mloop" /\ g.op = "mloop" => f.m # g.m
             /\ g.op \in {"add", "undo"} => ~Adds(f, g.e)
    PROVE  SlotInv'
<1> DEFINE n == Len(stack[t])
<1>1. ASSUME NEW u \in Thread, NEW i \in Nat, NEW f \in Frame, IsFrame(u, i, f)
      PROVE  /\ f.op = "mloop" => f.e = NULL
             /\ f.op \in {"add", "undo"} => f.e # NULL
             /\ g.op \in {"add", "undo"} => g.e # NULL
  BY <1>1, NoneLooping DEF Frame
<1>2. ASSUME NEW u \in Thread, NEW i \in Nat, NEW f \in Frame, IsFrame(u, i, f)
      PROVE  AddsApart(f, g) /\ AddsApart(g, f)
  BY <1>1, <1>2 DEF AddsApart, Adds
<1>3. ASSUME NEW i \in Nat, NEW f \in Frame, Stays(t, n, t, i, f)
      PROVE  Nested(t, f, g)'
  BY <1>1, <1>2, <1>3 DEF Nested, Stays, AddsApart, Adds
<1>4. ASSUME NEW u \in Thread, u # t, NEW i \in Nat, NEW f \in Frame,
             Stays(t, n, u, i, f)
      PROVE  Separate(f, g)' /\ Separate(g, f)'
  <2>1. IsFrame(u, i, f)
    BY <1>4 DEF Stays
  <2>2. (Closing(f) => InEasy(g) \/ SlotMulti(g) # f.m)'
    BY <1>4, <2>1 DEF Closing
  <2>3. (Closing(g) => InEasy(f) \/ SlotMulti(f) # g.m)'
    <3>1. CASE f.op = "mloop"
      BY <1>4, <2>1, <3>1 DEF Closing, SlotMulti, InEasy
    <3>2. CASE f.op # "mloop"
      BY <1>4, <2>1, <3>2 DEF Closing, SameSlot, SlotMulti, InEasy
    <3> QED
      BY <3>1, <3>2
  <2> QED
    BY <1>2, <2>1, <2>2, <2>3 DEF Separate, AddsApart, Adds
<1>5. NewSound(t, n, g)
  BY <1>3, <1>4 DEF NewSound
<1> QED
  BY <1>5, PushInv

\* Calls on one easy.
LEMMA EasyInv ==
    ASSUME TypeOK, SlotInv, Gaps = {}, NEW t \in Thread, EasyCall(t)
    PROVE  SlotInv'
<1> PICK e \in Easy :
      IO(t, e) \/ Pause(t, e) \/ Close(t, e) \/ CloseAttached(t, e)
  BY DEF EasyCall
<1> DEFINE n == Len(stack[t])
<1>a. CanCall(t) /\ MayUseEasy(t, e)
  BY DEF IO, Pause, Close, CloseAttached, MayUseSlot
<1>b. ~Adding(e) /\ (multi_stack[e] # NULL => ~ClosedByOther(t, multi_stack[e]))
  BY <1>a DEF MayUseEasy, Allow
<1>c. ASSUME NEW u \in Thread, NEW i \in Nat, NEW f \in Frame, IsFrame(u, i, f)
      PROVE  /\ ~Adds(f, e)
             /\ u # t /\ multi_stack[e] # NULL /\ Closing(f)
                  => f.m # multi_stack[e]
  BY <1>b, <1>c DEF Adding, ClosedByOther, Closes, IsFrame, Adds, Closing
<1>d. n \in Nat
  BY DEF TypeOK
<1>1. CASE IO(t, e)
  <2> DEFINE g == Window("io", e, NULL, TRUE, {})
  <2>1. /\ g \in Frame /\ g.op = "io" /\ g.e = e
    BY WindowType, NullAssumption DEF EasyOps, MultiOps, Window
  <2>2. /\ ThreadState(e) = NULL /\ Push(t, g)
        /\ state' = [state EXCEPT ![e] = t]
        /\ UNCHANGED <<mstate, multi_stack>>
    BY <1>1 DEF IO, SetEasy, links
  <2> HIDE DEF g
  <2>3. ASSUME NEW u \in Thread, NEW i \in Nat, NEW f \in Frame, IsFrame(u, i, f)
        PROVE  /\ f.op # "mloop" /\ InEasy(f) => f.e # e
               /\ f.op \in {"detach", "add", "undo"} => f.e # e
    BY <2>2, <2>3, <1>c, FreeEasy DEF InEasy, Adds
  <2>4. KeptSound(t, n) /\ KeptPairs(t, n)
    <3>1. AnchorsStay(t, n) /\ EasySlotFree(t, n, e, t)
      BY <2>2, <2>3 DEF AnchorsStay, EasySlotFree, Stays
    <3> QED
      BY <2>2, <3>1, <1>d, EasySlotKept
  <2>5. Sound(t, g)' /\ InEasy(g)'
    BY <2>1, <2>2 DEF Sound, SlotOf, InEasy, TypeOK
  <2> QED
    BY <2>1, <2>2, <2>3, <2>4, <2>5, <1>a, NewWindow DEF SameSlot, InEasy
<1>2. CASE Pause(t, e)
  <2> PICK s : s = IF multi_stack[e] # NULL THEN mstate[multi_stack[e]] ELSE state[e]
    OBVIOUS
  <2> DEFINE g == [Window("pause", e, NULL, TRUE, {}) EXCEPT !.saved = s]
  <2>1. /\ ThreadState(e) \in {NULL, t} /\ Push(t, g) /\ SetSlot(e, t)
        /\ UNCHANGED multi_stack
        /\ multi_stack[e] # NULL => ~DirectIO(multi_stack[e])
    BY <1>2 DEF Pause, links, MayUseSlot, MayUseMulti, Allow
  <2>2. s \in {NULL, t}
    BY <2>1 DEF ThreadState, DirectIO
  <2>3. g \in Frame /\ g.op = "pause" /\ g.e = e /\ g.saved = s
    <3>1. Window("pause", e, NULL, TRUE, {}) \in Frame
      BY WindowType, NullAssumption DEF EasyOps, MultiOps
    <3> QED
      BY <2>2, <3>1 DEF Frame, Window, MultiOps
  <2> HIDE DEF g
  <2>4. CASE multi_stack[e] = NULL
    <3>1. s = state[e] /\ state' = [state EXCEPT ![e] = t] /\ UNCHANGED mstate
      BY <2>1, <2>4 DEF SetSlot, SetEasy
    <3>2. ASSUME NEW u \in Thread, NEW i \in Nat, NEW f \in Frame, IsFrame(u, i, f)
          PROVE  /\ f.op # "mloop" /\ InEasy(f) => f.e # e \/ (t = u /\ s = t)
                 /\ f.op \in {"detach", "add", "undo"} => f.e # e
      <4>1. Sound(u, f)
        BY <3>2 DEF SlotInv
      <4> QED
        BY <2>2, <2>4, <3>1, <3>2, <4>1, <1>c, FreeSlot
           DEF Adds, Sound, Frame, MultiOps
    <3>3. KeptSound(t, n) /\ KeptPairs(t, n)
      <4>1. AnchorsStay(t, n) /\ EasySlotFree(t, n, e, t)
        BY <2>1, <3>1, <3>2 DEF AnchorsStay, EasySlotFree, Stays
      <4> QED
        BY <3>1, <4>1, <1>d, EasySlotKept
    <3>4. Sound(t, g)' /\ InEasy(g)'
      BY <2>1, <2>3, <2>4, <3>1 DEF Sound, SlotOf, InEasy, TypeOK
    <3> QED
      BY <2>1, <2>3, <3>2, <3>3, <3>4, <1>a, NewWindow DEF SameSlot, InEasy
  <2>5. CASE multi_stack[e] # NULL
    <3> PICK m \in Multi : m = multi_stack[e]
      BY <2>5 DEF TypeOK
    <3>1. /\ s = mstate[m] /\ mstate' = [mstate EXCEPT ![m] = t]
          /\ UNCHANGED state
      BY <2>1, <2>5 DEF SetSlot, SetMulti, TypeOK
    <3>2. ASSUME NEW u \in Thread, NEW i \in Nat, NEW f \in Frame, IsFrame(u, i, f)
          PROVE  f.op # "mloop" /\ ~InEasy(f) => SlotMulti(f) # m \/ (t = u /\ s = t)
      BY <2>2, <3>1, <3>2, FreeSlot
    <3>3. KeptSound(t, n) /\ KeptPairs(t, n)
      <4>1. AnchorsStay(t, n) /\ MultiSlotFree(t, n, m, t)
        BY <2>1, <3>1, <3>2 DEF AnchorsStay, MultiSlotFree, Stays
      <4> QED
        BY <3>1, <4>1, <1>d, MultiSlotKept
    <3>4. Sound(t, g)' /\ ~InEasy(g)' /\ SlotMulti(g)' = m
      BY <2>1, <2>3, <2>5, <3>1 DEF Sound, SlotOf, InEasy, SlotMulti, TypeOK
    <3> QED
      BY <2>1, <2>3, <2>5, <3>2, <3>3, <3>4, <1>a, <1>c, NewWindow
         DEF SameSlot, InEasy, SlotMulti
  <2> QED
    BY <2>4, <2>5
<1>3. CASE Close(t, e)
  <2> DEFINE g == Window("cleanup", e, NULL, TRUE, {})
  <2>1. /\ g \in Frame /\ g.op = "cleanup" /\ g.e = e
    BY WindowType, NullAssumption DEF EasyOps, MultiOps, Window
  <2>2. /\ ThreadState(e) = NULL /\ Push(t, g)
        /\ state' = [state EXCEPT ![e] = t] /\ UNCHANGED mstate
        /\ multi_stack' = [multi_stack EXCEPT ![e] = NULL]
    BY <1>3 DEF Close, SetEasy, ToCleanup
  <2> HIDE DEF g
  <2>3. ASSUME NEW u \in Thread, NEW i \in Nat, NEW f \in Frame, IsFrame(u, i, f)
        PROVE  /\ f.op # "mloop" /\ InEasy(f) => f.e # e
               /\ f.op \in {"pause", "detach", "mdetach", "add", "undo"} =>
                    multi_stack'[f.e] = multi_stack[f.e]
               /\ f.op \in {"pause", "detach", "add", "undo"} => f.e # e
    <3>1. f.op \in {"pause", "detach", "mdetach", "add", "undo"} => f.e # e
      BY <2>2, <2>3, <1>c, FreeEasy DEF Adds
    <3> QED
      BY <2>2, <2>3, <3>1, FreeEasy DEF InEasy, TypeOK
  <2>4. KeptSound(t, n) /\ KeptPairs(t, n)
    <3>1. AnchorsStay(t, n) /\ EasySlotFree(t, n, e, t)
      BY <2>2, <2>3 DEF AnchorsStay, EasySlotFree, Stays
    <3> QED
      BY <2>2, <3>1, <1>d, EasySlotKept
  <2>5. Sound(t, g)' /\ InEasy(g)'
    BY <2>1, <2>2 DEF Sound, SlotOf, InEasy, TypeOK
  <2>6. ASSUME NEW u \in Thread, NEW i \in Nat, NEW f \in Frame, IsFrame(u, i, f),
               f.op # "mloop"
        PROVE  ~SameSlot(f, g)'
    BY <2>1, <2>3, <2>5, <2>6 DEF SameSlot, InEasy
  <2> QED
    BY <2>1, <2>2, <2>4, <2>5, <2>6, <1>a, NewWindow
<1>4. CASE CloseAttached(t, e)
  <2> PICK m \in Multi : m = multi_stack[e] /\ m # NULL
    BY <1>4 DEF CloseAttached, TypeOK
  <2> DEFINE g == Window("detach", e, m, TRUE, {})
  <2>2. g \in Frame /\ g.op = "detach" /\ g.e = e /\ g.m = m
    BY WindowType, NullAssumption DEF EasyOps, MultiOps, Window
  <2>3. /\ ThreadState(e) = NULL /\ Push(t, g) /\ UNCHANGED <<multi_stack, state>>
        /\ mstate' = [mstate EXCEPT ![m] = t]
    BY <1>4 DEF CloseAttached, SetMulti
  <2> HIDE DEF g
  <2>4. state[e] = NULL /\ mstate[m] = NULL
    BY <2>3, FreeEasy
  <2>5. ASSUME NEW u \in Thread, NEW i \in Nat, NEW f \in Frame, IsFrame(u, i, f)
        PROVE  f.op # "mloop" /\ ~InEasy(f) => SlotMulti(f) # m
    BY <2>4, <2>5, FreeSlot
  <2>6. KeptSound(t, n) /\ KeptPairs(t, n)
    <3>1. AnchorsStay(t, n) /\ MultiSlotFree(t, n, m, t)
      BY <2>3, <2>5 DEF AnchorsStay, MultiSlotFree, Stays
    <3> QED
      BY <2>3, <3>1, <1>d, MultiSlotKept
  <2>7. Sound(t, g)' /\ ~InEasy(g)' /\ SlotMulti(g)' = m
    BY <2>2, <2>3, <2>4 DEF Sound, SlotOf, InEasy, SlotMulti, TypeOK
  <2> QED
    BY <2>2, <2>3, <2>5, <2>6, <2>7, <1>a, <1>c, NewWindow
       DEF SameSlot, InEasy, SlotMulti
<1> QED
  BY <1>1, <1>2, <1>3, <1>4

\* A step that touches neither slots nor multi_stack disturbs no frame.
LEMMA IdleKept ==
    ASSUME SlotInv, NEW t \in Thread, NEW n \in Nat,
           UNCHANGED <<state, mstate, multi_stack>>
    PROVE  KeptSound(t, n) /\ KeptPairs(t, n)
<1>1. AnchorsStay(t, n)
  BY DEF AnchorsStay
<1>2. ASSUME NEW u \in Thread, NEW i \in Nat, NEW f \in Frame, Stays(t, n, u, i, f)
      PROVE  /\ f.op \in {"detach", "add", "undo"} => state'[f.e] = state[f.e]
             /\ f.op # "mloop" /\ InEasy(f) => state'[f.e] = u
             /\ f.op # "mloop" /\ ~InEasy(f) => mstate'[SlotMulti(f)] = u
  <2>1. IsFrame(u, i, f)
    BY <1>2 DEF Stays
  <2> QED
    BY <1>2, <2>1, FreeSlot
<1> QED
  BY <1>1, <1>2, SoundKept, PairsKept

\* If the stacks stay too, the invariant does.
LEMMA IdleInv ==
    ASSUME SlotInv, UNCHANGED <<state, mstate, multi_stack, stack>>
    PROVE  SlotInv'
BY DEF SlotInv, IsFrame, Sound, Nested, Separate, SlotOf, SameSlot, InEasy,
       SlotMulti, AddsApart, Adds, Closing

\* Opening a window on a multi that is idle and that nobody else closes.
LEMMA EnterMulti ==
    ASSUME TypeOK, SlotInv, NEW t \in Thread, CanCall(t), NEW m \in Multi,
           mstate[m] = NULL, ~ClosedByOther(t, m), SetMulti(m, t),
           UNCHANGED multi_stack,
           NEW g \in Frame, g.op \in {"drive", "add", "remove"}, g.m = m, Push(t, g),
           g.op = "add" => /\ multi_stack[g.e] = NULL /\ state[g.e] = NULL
                           /\ ~Adding(g.e)
    PROVE  SlotInv'
<1> DEFINE n == Len(stack[t])
<1>1. n \in Nat
  BY DEF TypeOK
<1>2. mstate' = [mstate EXCEPT ![m] = t] /\ UNCHANGED state
  BY DEF SetMulti
<1>3. ASSUME NEW u \in Thread, NEW i \in Nat, NEW f \in Frame, IsFrame(u, i, f)
      PROVE  /\ f.op # "mloop" /\ ~InEasy(f) => SlotMulti(f) # m
             /\ u # t /\ Closing(f) => f.m # m
             /\ g.op = "add" => ~Adds(f, g.e)
  BY <1>3, FreeSlot DEF ClosedByOther, Closes, IsFrame, Closing, Adding, Adds
<1>4. KeptSound(t, n) /\ KeptPairs(t, n)
  <2>1. AnchorsStay(t, n) /\ MultiSlotFree(t, n, m, t)
    BY <1>3 DEF AnchorsStay, MultiSlotFree, Stays
  <2> QED
    BY <1>1, <1>2, <2>1, MultiSlotKept
<1>5. Sound(t, g)' /\ ~InEasy(g)' /\ SlotMulti(g)' = m
  BY <1>2 DEF Sound, SlotOf, InEasy, SlotMulti, TypeOK
<1>6. ASSUME NEW u \in Thread, NEW i \in Nat, NEW f \in Frame, IsFrame(u, i, f)
      PROVE  /\ f.op # "mloop" => ~SameSlot(f, g)'
             /\ u # t /\ Closing(f) => SlotMulti(g)' # f.m
             /\ g.op \in {"add", "undo"} => ~Adds(f, g.e)
  BY <1>3, <1>5, <1>6 DEF SameSlot, InEasy, SlotMulti
<1> QED
  BY <1>4, <1>5, <1>6, NewWindow

\* Starting the close of a multi, or its deallocation: no window is open on
\* its slot, and no other thread is closing it.
LEMMA EnterLoop ==
    ASSUME TypeOK, SlotInv, NEW t \in Thread, CanCall(t), NEW m \in Multi,
           UNCHANGED <<state, mstate, multi_stack>>,
           NEW g \in Frame, g.op = "mloop", g.m = m, g.e = NULL, g.at = "lib",
           Push(t, g),
           \A u \in Thread, i \in Nat, f \in Frame : IsFrame(u, i, f) =>
             /\ f.op # "mloop" /\ ~InEasy(f) => SlotMulti(f) # m
             /\ u # t /\ Closing(f) => f.m # m
    PROVE  SlotInv'
<1> DEFINE n == Len(stack[t])
<1>0. n \in Nat
  BY DEF TypeOK
<1>1. KeptSound(t, n) /\ KeptPairs(t, n)
  BY <1>0, IdleKept
<1>2. Sound(t, g)' /\ ~InEasy(g)' /\ SlotMulti(g)' = m
  BY DEF Sound, InEasy, SlotMulti
<1>3. ASSUME NEW u \in Thread, NEW i \in Nat, NEW f \in Frame, IsFrame(u, i, f)
      PROVE  /\ f.op # "mloop" => ~SameSlot(f, g)'
             /\ u # t /\ Closing(f) => SlotMulti(g)' # f.m
             /\ u # t /\ f.op = "mloop" => f.m # g.m
  BY <1>2, <1>3 DEF SameSlot, InEasy, SlotMulti, Closing
<1> QED
  BY <1>1, <1>2, <1>3, NewWindow

\* Calls on a multi.
LEMMA MultiInv ==
    ASSUME TypeOK, SlotInv, Gaps = {}, NEW t \in Thread, MultiCall(t)
    PROVE  SlotInv'
<1> PICK m \in Multi :
      \/ Drive(t, m) \/ CloseMulti(t, m) \/ DropMulti(t, m)
      \/ \E e \in Easy :
           AddHandle(t, m, e) \/ RemoveHandle(t, m, e) \/ RemoveClosed(t, m, e)
  BY DEF MultiCall
<1>1. CASE Drive(t, m)
  <2> DEFINE g == Window("drive", NULL, m, TRUE, {})
  <2>1. g \in Frame /\ g.op = "drive" /\ g.m = m
    BY WindowType, NullAssumption DEF EasyOps, MultiOps, Window
  <2> HIDE DEF g
  <2>2. /\ CanCall(t) /\ mstate[m] = NULL /\ ~ClosedByOther(t, m)
        /\ SetMulti(m, t) /\ UNCHANGED multi_stack /\ Push(t, g)
    BY <1>1 DEF Drive, MayUseMulti, Allow, links, g
  <2> QED
    BY <2>1, <2>2, EnterMulti
<1>2. CASE CloseMulti(t, m)
  <2> PICK s \in SUBSET Easy : s = refs[m]
    BY DEF TypeOK
  <2> DEFINE ok == m \in CloseHandles
             g == Window("mloop", NULL, m, ok, s)
  <2>0. ok \in BOOLEAN
    OBVIOUS
  <2> HIDE DEF ok
  <2>1. g \in Frame /\ g.op = "mloop" /\ g.m = m /\ g.e = NULL /\ g.at = "lib"
    BY <2>0, WindowType, NullAssumption DEF EasyOps, MultiOps, Window
  <2> HIDE DEF g
  <2>2. /\ CanCall(t) /\ mstate[m] = NULL /\ ~ClosedByOther(t, m)
        /\ UNCHANGED <<state, mstate, multi_stack>> /\ Push(t, g)
    BY <1>2 DEF CloseMulti, MayUseMulti, Allow, slots, links, g, ok
  <2>3. ASSUME NEW u \in Thread, NEW i \in Nat, NEW f \in Frame, IsFrame(u, i, f)
        PROVE  /\ f.op # "mloop" /\ ~InEasy(f) => SlotMulti(f) # m
               /\ u # t /\ Closing(f) => f.m # m
    BY <2>2, <2>3, FreeSlot DEF ClosedByOther, Closes, IsFrame, Closing
  <2> QED
    BY <2>1, <2>2, <2>3, EnterLoop
<1>3. CASE DropMulti(t, m)
  <2> PICK s \in SUBSET Easy : s = refs[m]
    BY DEF TypeOK
  <2> DEFINE g == Window("mloop", NULL, m, FALSE, s)
  <2>1. g \in Frame /\ g.op = "mloop" /\ g.m = m /\ g.e = NULL /\ g.at = "lib"
    BY WindowType, NullAssumption DEF EasyOps, MultiOps, Window
  <2> HIDE DEF g
  <2>2. /\ CanCall(t) /\ ~Held(m) /\ ~Borrowed(m)
        /\ UNCHANGED <<state, mstate, multi_stack>> /\ Push(t, g)
    BY <1>3 DEF DropMulti, Allow, slots, links, g
  <2>3. ASSUME NEW u \in Thread, NEW i \in Nat, NEW f \in Frame, IsFrame(u, i, f)
        PROVE  /\ f.op # "mloop" /\ ~InEasy(f) => SlotMulti(f) # m
               /\ u # t /\ Closing(f) => f.m # m
    <3>1. /\ f.op \in MultiOps => f.m # m
          /\ f.op \in {"pause", "detach"} => multi_stack[f.e] # m
      BY <2>2, <2>3 DEF Held, Borrowed, IsFrame
    <3> QED
      BY <3>1 DEF InEasy, SlotMulti, Closing, MultiOps, EasyOps, Frame
  <2> QED
    BY <2>1, <2>2, <2>3, EnterLoop
<1>4. ASSUME NEW e \in Easy, AddHandle(t, m, e)
      PROVE  SlotInv'
  <2> PICK ok \in BOOLEAN : Push(t, Window("add", e, m, ok, {}))
    BY <1>4 DEF AddHandle
  <2> DEFINE g == Window("add", e, m, ok, {})
  <2>1. g \in Frame /\ g.op = "add" /\ g.m = m /\ g.e = e
    BY WindowType, NullAssumption DEF EasyOps, MultiOps, Window
  <2> HIDE DEF g
  <2>2. /\ CanCall(t) /\ mstate[m] = NULL /\ ~ClosedByOther(t, m)
        /\ SetMulti(m, t) /\ UNCHANGED multi_stack /\ Push(t, g)
        /\ multi_stack[e] = NULL /\ state[e] = NULL /\ ~Adding(e)
    BY <1>4 DEF AddHandle, MayAddRemove, MayUseMulti, MayUseEasy, Allow, g
  <2> QED
    BY <2>1, <2>2, EnterMulti
<1>5. ASSUME NEW e \in Easy, RemoveHandle(t, m, e)
      PROVE  SlotInv'
  <2> PICK ok \in BOOLEAN : Push(t, Window("remove", e, m, ok, {}))
    BY <1>5 DEF RemoveHandle
  <2> DEFINE g == Window("remove", e, m, ok, {})
  <2>1. g \in Frame /\ g.op = "remove" /\ g.m = m
    BY WindowType, NullAssumption DEF EasyOps, MultiOps, Window
  <2> HIDE DEF g
  <2>2. /\ CanCall(t) /\ mstate[m] = NULL /\ ~ClosedByOther(t, m)
        /\ SetMulti(m, t) /\ UNCHANGED multi_stack /\ Push(t, g)
    BY <1>5 DEF RemoveHandle, MayAddRemove, MayUseMulti, Allow, g
  <2> QED
    BY <2>1, <2>2, EnterMulti
<1>6. ASSUME NEW e \in Easy, RemoveClosed(t, m, e)
      PROVE  SlotInv'
  BY <1>6, IdleInv DEF RemoveClosed, slots
<1> QED
  BY <1>1, <1>2, <1>3, <1>4, <1>5, <1>6

-----------------------------------------------------------------------------
(* Steps that end a window *)

\* g is the innermost window of t
IsTop(t, g) == stack[t] # <<>> /\ g = Last(stack[t])

\* what the invariant says of g against the frames that outlive it
Against(t, g) == \A u \in Thread, i \in Nat, f \in Frame :
    Stays(t, Len(stack[t]) - 1, u, i, f) =>
        /\ IsFrame(u, i, f) /\ Sound(u, f)
        /\ u = t => Nested(t, f, g)
        /\ u # t => Separate(f, g) /\ Separate(g, f)
        /\ g.op # "pause" /\ f.op # "mloop" => ~SameSlot(f, g)

\* The innermost window g of t, against the frames that outlive it.
LEMMA Innermost ==
    ASSUME TypeOK, SlotInv, NEW t \in Thread, NEW g, IsTop(t, g)
    PROVE  /\ g \in Frame /\ Sound(t, g) /\ Len(stack[t]) - 1 \in Nat
           /\ g.op # "mloop" /\ InEasy(g) => state[g.e] = t
           /\ g.op # "mloop" /\ ~InEasy(g) => mstate[SlotMulti(g)] = t
           /\ t # NULL
           /\ Against(t, g)
<1> DEFINE n == Len(stack[t])
<1>0. stack[t] \in Seq(Frame) /\ stack[t] # <<>> /\ g = Last(stack[t])
  BY DEF TypeOK, IsTop
<1>1. /\ n \in Nat /\ n - 1 \in Nat /\ g \in Frame /\ IsFrame(t, n, g)
  <2>1. /\ n \in DOMAIN stack[t] /\ n \in Nat \ {0}
        /\ Last(stack[t]) = stack[t][n] /\ Last(stack[t]) \in Frame
    BY <1>0, PopFrame
  <2> QED
    BY <1>0, <2>1 DEF IsFrame
<1>2. /\ Sound(t, g) /\ t # NULL
      /\ g.op # "mloop" /\ InEasy(g) => state[g.e] = t
      /\ g.op # "mloop" /\ ~InEasy(g) => mstate[SlotMulti(g)] = t
  BY <1>1, FreeSlot, NullAssumption DEF SlotInv
<1>3. ASSUME NEW u \in Thread, NEW i \in Nat, NEW f \in Frame,
             Stays(t, n - 1, u, i, f)
      PROVE  /\ IsFrame(u, i, f) /\ Sound(u, f)
             /\ u = t => Nested(t, f, g)
             /\ u # t => Separate(f, g) /\ Separate(g, f)
             /\ g.op # "pause" /\ f.op # "mloop" => ~SameSlot(f, g)
  <2>1. IsFrame(u, i, f) /\ Sound(u, f) /\ (u = t => i < n)
    BY <1>1, <1>3 DEF Stays, SlotInv
  <2>2. g.op # "pause" /\ f.op # "mloop" => ~SameSlot(f, g)
    BY <1>3, TopAlone DEF IsTop
  <2> QED
    BY <1>1, <2>1, <2>2 DEF SlotInv
<1>4. Against(t, g)
  BY <1>3 DEF Against
<1> QED
  BY <1>1, <1>2, <1>4

\* Ending a window on the slot of a multi, with any value in the slot.
LEMMA LeaveMultiKept ==
    ASSUME TypeOK, SlotInv, NEW t \in Thread, NEW g, IsTop(t, g),
           g.op # "pause", ~InEasy(g),
           NEW m \in Multi, SlotMulti(g) = m, NEW v, SetMulti(m, v),
           AnchorsStay(t, Len(stack[t]) - 1)
    PROVE  KeptSound(t, Len(stack[t]) - 1) /\ KeptPairs(t, Len(stack[t]) - 1)
<1> DEFINE n == Len(stack[t]) - 1
<1>1. n \in Nat /\ Against(t, g)
  BY Innermost
<1>2. MultiSlotFree(t, n, m, v)
  BY <1>1 DEF MultiSlotFree, SameSlot, Against
<1>3. mstate' = [mstate EXCEPT ![m] = v] /\ UNCHANGED state
  BY DEF SetMulti
<1> QED
  BY <1>1, <1>2, <1>3, MultiSlotKept

\* Ending the window of an easy's own call.
LEMMA LeaveEasyKept ==
    ASSUME TypeOK, SlotInv, NEW t \in Thread, NEW g, IsTop(t, g),
           g.op \in {"io", "cleanup"}, NEW v, SetEasy(g.e, v), UNCHANGED multi_stack
    PROVE  KeptSound(t, Len(stack[t]) - 1) /\ KeptPairs(t, Len(stack[t]) - 1)
<1> DEFINE n == Len(stack[t]) - 1
<1>0. InEasy(g) /\ g.op # "mloop"
  BY DEF InEasy
<1>1. /\ n \in Nat /\ g \in Frame /\ Against(t, g)
      /\ state[g.e] = t /\ t # NULL
  BY <1>0, Innermost
<1>2. ASSUME NEW u \in Thread, NEW i \in Nat, NEW f \in Frame, Stays(t, n, u, i, f)
      PROVE  /\ f.op # "mloop" /\ InEasy(f) => f.e # g.e
             /\ f.op \in {"detach", "add", "undo"} => f.e # g.e
  <2>1. Sound(u, f) /\ (f.op # "mloop" => ~SameSlot(f, g))
    BY <1>1, <1>2 DEF Against
  <2> QED
    BY <1>0, <1>1, <2>1 DEF SameSlot, Sound
<1>3. AnchorsStay(t, n) /\ EasySlotFree(t, n, g.e, v)
  BY <1>2 DEF AnchorsStay, EasySlotFree
<1>4. state' = [state EXCEPT ![g.e] = v] /\ UNCHANGED mstate
  BY DEF SetEasy
<1>5. g.e \in Easy
  BY <1>1 DEF Frame, EasyOps
<1> QED
  BY <1>1, <1>3, <1>4, <1>5, EasySlotKept

\* No window that outlives the innermost one looks at multi_stack of an easy
\* that is on the multi whose slot the innermost window uses.
LEMMA AnchorFree ==
    ASSUME TypeOK, SlotInv, NEW t \in Thread, NEW g, IsTop(t, g), g.op # "pause", ~InEasy(g),
           NEW e \in Easy, multi_stack[e] # NULL, SlotMulti(g) = multi_stack[e],
           NEW u \in Thread, NEW i \in Nat, NEW f \in Frame,
           Stays(t, Len(stack[t]) - 1, u, i, f),
           f.op \in {"pause", "detach", "mdetach", "add", "undo"}
    PROVE  f.e # e
<1>1. Against(t, g)
  BY Innermost
<1>2. Sound(u, f) /\ ~SameSlot(f, g)
  BY <1>1 DEF Against
<1> QED
  BY <1>2 DEF Sound, SameSlot, InEasy, SlotMulti

\* The loop of a multi's close goes on: the new frame is again one that
\* closes the same multi.
LEMMA LoopOn ==
    ASSUME TypeOK, SlotInv, NEW t \in Thread, NEW g, IsTop(t, g), Closing(g),
           NEW h \in Frame, Closing(h), h.m = g.m, Replace(t, h), Sound(t, h)',
           AnchorsStay(t, Len(stack[t]) - 1),
           KeptSound(t, Len(stack[t]) - 1), KeptPairs(t, Len(stack[t]) - 1),
           h.op = "mloop" => \A u \in Thread, i \in Nat, f \in Frame :
             Stays(t, Len(stack[t]) - 1, u, i, f) => ~Adds(f, h.e)
    PROVE  SlotInv'
<1> DEFINE n == Len(stack[t]) - 1
<1>1. /\ g.op # "pause" /\ ~InEasy(g) /\ SlotMulti(g) = g.m
      /\ ~InEasy(h)' /\ SlotMulti(h)' = g.m
  BY DEF Closing, InEasy, SlotMulti
<1>a. Against(t, g)
  BY Innermost
<1>2. ASSUME NEW u \in Thread, NEW i \in Nat, NEW f \in Frame, Stays(t, n, u, i, f)
      PROVE  IF u = t THEN Nested(t, f, h)' ELSE Separate(f, h)' /\ Separate(h, f)'
  <2>1. InEasy(f)' = InEasy(f) /\ SlotMulti(f)' = SlotMulti(f)
    BY <1>2 DEF AnchorsStay, InEasy, SlotMulti
  <2>2. AddsApart(f, h) /\ AddsApart(h, f)
    BY <1>2 DEF AddsApart, Adds, Closing
  <2>3. /\ f.op # "mloop" => ~SameSlot(f, g)
        /\ u = t => Nested(t, f, g)
        /\ u # t => Separate(f, g) /\ Separate(g, f)
    BY <1>1, <1>2, <1>a DEF Against
  <2>4. CASE u = t
    BY <1>1, <2>1, <2>2, <2>3, <2>4 DEF Nested, SameSlot, AddsApart, Adds
  <2>5. CASE u # t
    BY <1>1, <2>1, <2>2, <2>3, <2>5 DEF Separate, AddsApart, Adds, Closing
  <2> QED
    BY <2>4, <2>5
<1>3. NewSound(t, n, h)
  BY <1>2 DEF NewSound
<1> QED
  BY <1>3, ReplaceInv DEF IsTop

\* pause() and unpause() put the slot back as they found it, which is what
\* the windows of the same slot further out need.
LEMMA PauseEndInv ==
    ASSUME TypeOK, SlotInv, NEW t \in Thread, PauseEnd(t)
    PROVE  SlotInv'
<1> DEFINE n == Len(stack[t]) - 1
<1> PICK g : g = Last(stack[t])
  OBVIOUS
<1>1. /\ IsTop(t, g) /\ g.op = "pause" /\ Pop(t) /\ UNCHANGED multi_stack
      /\ SetSlot(g.e, g.saved)
  BY DEF PauseEnd, Returning, InFrame, IsTop, links
<1>2. /\ n \in Nat /\ g \in Frame /\ Against(t, g) /\ t # NULL
      /\ InEasy(g) => state[g.e] = t
      /\ ~InEasy(g) => mstate[SlotMulti(g)] = t
  BY <1>1, Innermost
<1>3. g.e \in Easy
  BY <1>1, <1>2 DEF Frame, EasyOps
<1>4. AnchorsStay(t, n)
  BY <1>1 DEF AnchorsStay
<1>5. CASE multi_stack[g.e] = NULL
  <2>1. /\ InEasy(g) /\ state[g.e] = t
        /\ state' = [state EXCEPT ![g.e] = g.saved] /\ UNCHANGED mstate
    BY <1>1, <1>2, <1>5 DEF InEasy, SetSlot, SetEasy
  <2>2. ASSUME NEW u \in Thread, NEW i \in Nat, NEW f \in Frame, Stays(t, n, u, i, f)
        PROVE  /\ f.op # "mloop" /\ InEasy(f) => f.e # g.e \/ g.saved = u
               /\ f.op \in {"detach", "add", "undo"} => f.e # g.e \/ g.saved = NULL
    <3>1. /\ IsFrame(u, i, f) /\ Sound(u, f) /\ (u = t => Nested(t, f, g))
      BY <1>2, <2>2 DEF Against
    <3> QED
      BY <1>2, <2>1, <3>1, FreeSlot DEF Nested, SameSlot, Sound
  <2>3. EasySlotFree(t, n, g.e, g.saved)
    BY <2>2 DEF EasySlotFree
  <2>4. KeptSound(t, n) /\ KeptPairs(t, n)
    BY <1>2, <1>3, <1>4, <2>1, <2>3, EasySlotKept
  <2> QED
    BY <1>1, <2>4, PopInv DEF IsTop
<1>6. CASE multi_stack[g.e] # NULL
  <2> PICK m \in Multi : m = multi_stack[g.e]
    BY <1>3, <1>6 DEF TypeOK
  <2>1. /\ ~InEasy(g) /\ SlotMulti(g) = m /\ mstate[m] = t
        /\ mstate' = [mstate EXCEPT ![m] = g.saved] /\ UNCHANGED state
    BY <1>1, <1>2, <1>6 DEF InEasy, SlotMulti, SetSlot, SetMulti
  <2>2. ASSUME NEW u \in Thread, NEW i \in Nat, NEW f \in Frame, Stays(t, n, u, i, f)
        PROVE  f.op # "mloop" /\ ~InEasy(f) => SlotMulti(f) # m \/ g.saved = u
    <3>1. IsFrame(u, i, f) /\ (u = t => Nested(t, f, g))
      BY <1>2, <2>2 DEF Against
    <3> QED
      BY <2>1, <3>1, FreeSlot DEF Nested, SameSlot
  <2>3. MultiSlotFree(t, n, m, g.saved)
    BY <2>2 DEF MultiSlotFree
  <2>4. KeptSound(t, n) /\ KeptPairs(t, n)
    BY <1>2, <1>4, <2>1, <2>3, MultiSlotKept
  <2> QED
    BY <1>1, <2>4, PopInv DEF IsTop
<1> QED
  BY <1>5, <1>6

\* The detachment of an easy that is closed becomes its cleanup: the slot
\* moves from the multi to the easy while multi_stack goes away.
LEMMA DetachEndInv ==
    ASSUME TypeOK, SlotInv, NEW t \in Thread, DetachEnd(t)
    PROVE  SlotInv'
<1> DEFINE n == Len(stack[t]) - 1
<1> PICK g : g = Last(stack[t])
  OBVIOUS
<1>1. IsTop(t, g) /\ g.op = "detach"
  BY DEF DetachEnd, Returning, InFrame, IsTop
<1>2. n \in Nat /\ g \in Frame /\ Sound(t, g) /\ Against(t, g)
  BY <1>1, Innermost
<1>3. g.e \in Easy /\ g.m \in Multi /\ multi_stack[g.e] = g.m /\ g.m # NULL
      /\ state[g.e] = NULL
  BY <1>1, <1>2, NullAssumption DEF Frame, EasyOps, Sound
<1>4. ~InEasy(g) /\ SlotMulti(g) = g.m
  BY <1>1, <1>3 DEF InEasy, SlotMulti
<1> DEFINE h == Window("cleanup", g.e, NULL, TRUE, {})
<1>5. h \in Frame /\ h.op = "cleanup" /\ h.e = g.e
  BY <1>3, WindowType, NullAssumption DEF EasyOps, MultiOps, Window
<1>6. /\ state' = [state EXCEPT ![g.e] = t]
      /\ mstate' = [mstate EXCEPT ![g.m] = NULL]
      /\ multi_stack' = [multi_stack EXCEPT ![g.e] = NULL]
      /\ Replace(t, h)
  BY <1>3 DEF DetachEnd, ToCleanup
<1> HIDE DEF h
<1>7. ASSUME NEW u \in Thread, NEW i \in Nat, NEW f \in Frame, Stays(t, n, u, i, f)
      PROVE  /\ f.op \in {"pause", "detach", "mdetach", "add", "undo"} => f.e # g.e
             /\ f.op # "mloop" /\ InEasy(f) => f.e # g.e
             /\ f.op # "mloop" /\ ~InEasy(f) => SlotMulti(f) # g.m
  <2>1. IsFrame(u, i, f) /\ (f.op # "mloop" => ~SameSlot(f, g))
    BY <1>1, <1>2, <1>7 DEF Against
  <2>2. f.op \in {"pause", "detach", "mdetach", "add", "undo"} => f.e # g.e
    BY <1>1, <1>3, <1>4, <1>7, AnchorFree
  <2> QED
    BY <1>3, <1>4, <2>1, <2>2, FreeSlot DEF SameSlot
<1>8. AnchorsStay(t, n)
  BY <1>6, <1>7 DEF AnchorsStay, TypeOK
<1>9. KeptSound(t, n) /\ KeptPairs(t, n)
  <2>1. ASSUME NEW u \in Thread, NEW i \in Nat, NEW f \in Frame, Stays(t, n, u, i, f)
        PROVE  /\ f.op \in {"detach", "add", "undo"} => state'[f.e] = state[f.e]
               /\ f.op # "mloop" /\ InEasy(f) => state'[f.e] = u
               /\ f.op # "mloop" /\ ~InEasy(f) => mstate'[SlotMulti(f)] = u
    <3>1. IsFrame(u, i, f)
      BY <2>1 DEF Stays
    <3> QED
      BY <1>6, <1>7, <2>1, <3>1, FreeSlot DEF TypeOK
  <2> QED
    BY <1>2, <1>8, <2>1, SoundKept, PairsKept
<1>10. InEasy(h)' /\ Sound(t, h)'
  BY <1>3, <1>5, <1>6 DEF InEasy, Sound, SlotOf, TypeOK
<1>11. ASSUME NEW u \in Thread, NEW i \in Nat, NEW f \in Frame, Stays(t, n, u, i, f)
       PROVE  IF u = t THEN Nested(t, f, h)' ELSE Separate(f, h)' /\ Separate(h, f)'
  <2>1. f.op # "mloop" => ~SameSlot(f, h)'
    <3>1. InEasy(f)' = InEasy(f)
      BY <1>8, <1>11 DEF AnchorsStay, InEasy
    <3> QED
      BY <1>5, <1>7, <1>10, <1>11, <3>1 DEF SameSlot
  <2>2. u = t /\ f.op = "mloop" => f.e = NULL
    BY <1>2, <1>11 DEF Against, Nested
  <2> QED
    BY <1>5, <1>10, <2>1, <2>2 DEF Nested, Separate, AddsApart, Adds, Closing
<1> QED
  <2>1. NewSound(t, n, h)
    BY <1>10, <1>11 DEF NewSound
  <2> QED
    BY <1>1, <1>5, <1>6, <1>9, <2>1, ReplaceInv DEF IsTop

\* The ends of the windows that only clear the slot of their multi; refs,
\* handles and libcurl's own attachment have no part in the invariant.
LEMMA MultiEndInv ==
    ASSUME TypeOK, SlotInv, NEW t \in Thread, NEW g, IsTop(t, g),
           g.op \in MultiOps \ {"mloop"}, SetMulti(g.m, NULL), Pop(t),
           AnchorsStay(t, Len(stack[t]) - 1)
    PROVE  SlotInv'
<1>1. g \in Frame
  BY Innermost
<1>2. g.m \in Multi /\ ~InEasy(g) /\ SlotMulti(g) = g.m /\ g.op # "pause"
  BY <1>1 DEF Frame, MultiOps, InEasy, SlotMulti
<1>3. KeptSound(t, Len(stack[t]) - 1) /\ KeptPairs(t, Len(stack[t]) - 1)
  BY <1>2, LeaveMultiKept
<1> QED
  BY <1>3, PopInv DEF IsTop

\* add_handle() puts the easy on the multi: no other window looks at
\* multi_stack of an easy that is being added.
LEMMA AddEndInv ==
    ASSUME TypeOK, SlotInv, NEW t \in Thread, AddEnd(t)
    PROVE  SlotInv'
<1> DEFINE n == Len(stack[t]) - 1
<1> PICK g : g = Last(stack[t])
  OBVIOUS
<1>1. /\ IsTop(t, g) /\ g.op = "add" /\ SetMulti(g.m, NULL) /\ Pop(t)
      /\ multi_stack' = [multi_stack EXCEPT ![g.e] = g.m]
  BY DEF AddEnd, Returning, InFrame, IsTop
<1>2. g \in Frame /\ Sound(t, g) /\ Against(t, g)
  BY <1>1, Innermost
<1>3. multi_stack[g.e] = NULL /\ state[g.e] = NULL
  BY <1>1, <1>2 DEF Sound
<1>4. ASSUME NEW u \in Thread, NEW i \in Nat, NEW f \in Frame,
             Stays(t, n, u, i, f),
             f.op \in {"pause", "detach", "mdetach", "add", "undo"}, f.e = g.e
      PROVE  FALSE
  <2>1. /\ IsFrame(u, i, f) /\ Sound(u, f) /\ AddsApart(f, g)
    BY <1>2, <1>4 DEF Against, Nested, Separate
  <2>2. CASE f.op \in {"add", "undo"}
    BY <1>1, <1>4, <2>1, <2>2 DEF AddsApart, Adds
  <2>3. CASE f.op \in {"detach", "mdetach"}
    BY <1>3, <1>4, <2>1, <2>3, NullAssumption DEF Sound, Frame, MultiOps
  <2>4. CASE f.op = "pause"
    BY <1>3, <1>4, <2>1, <2>4, FreeSlot DEF InEasy
  <2> QED
    BY <1>4, <2>2, <2>3, <2>4
<1>5. AnchorsStay(t, n)
  <2>1. ASSUME NEW u \in Thread, NEW i \in Nat, NEW f \in Frame,
               Stays(t, n, u, i, f),
               f.op \in {"pause", "detach", "mdetach", "add", "undo"}
        PROVE  multi_stack'[f.e] = multi_stack[f.e]
    BY <1>1, <1>4, <2>1 DEF TypeOK, Frame, EasyOps
  <2> QED
    BY <2>1 DEF AnchorsStay
<1> QED
  BY <1>1, <1>5, MultiEndInv DEF MultiOps

\* Forgetting the multi of an easy, by the window that has the slot of that
\* multi, moves no anchor.
LEMMA ForgetAnchors ==
    ASSUME TypeOK, SlotInv, NEW t \in Thread, NEW g, IsTop(t, g),
           g.op # "pause", ~InEasy(g), NEW e \in Easy, multi_stack[e] # NULL,
           SlotMulti(g) = multi_stack[e],
           multi_stack' = [multi_stack EXCEPT ![e] = NULL]
    PROVE  /\ AnchorsStay(t, Len(stack[t]) - 1)
           /\ \A u \in Thread, i \in Nat, f \in Frame :
                Stays(t, Len(stack[t]) - 1, u, i, f) => ~Adds(f, e)
<1> DEFINE n == Len(stack[t]) - 1
<1>1. ASSUME NEW u \in Thread, NEW i \in Nat, NEW f \in Frame,
             Stays(t, n, u, i, f),
             f.op \in {"pause", "detach", "mdetach", "add", "undo"}
      PROVE  f.e # e /\ multi_stack'[f.e] = multi_stack[f.e]
  <2>1. f.e # e
    BY <1>1, AnchorFree
  <2> QED
    BY <2>1, <1>1 DEF TypeOK, Frame, EasyOps
<1>2. AnchorsStay(t, n)
  BY <1>1 DEF AnchorsStay
<1> QED
  BY <1>1, <1>2 DEF Adds

\* remove_handle() leaves the multi, or stays on it when libcurl refused.
LEMMA RemoveEndInv ==
    ASSUME TypeOK, SlotInv, NEW t \in Thread, RemoveEnd(t)
    PROVE  SlotInv'
<1> DEFINE n == Len(stack[t]) - 1
<1> PICK g : g = Last(stack[t])
  OBVIOUS
<1>1. /\ IsTop(t, g) /\ g.op = "remove" /\ SetMulti(g.m, NULL) /\ Pop(t)
      /\ \/ UNCHANGED multi_stack
         \/ /\ multi_stack[g.e] = g.m
            /\ multi_stack' = [multi_stack EXCEPT ![g.e] = NULL]
  BY DEF RemoveEnd, Returning, InFrame, IsTop
<1>2. /\ g.e \in Easy /\ g.m # NULL /\ ~InEasy(g) /\ SlotMulti(g) = g.m
  <2>1. g \in Frame
    BY <1>1, Innermost
  <2> QED
    BY <1>1, <2>1 DEF Frame, MultiOps, InEasy, SlotMulti
<1>3. CASE UNCHANGED multi_stack
  <2>1. AnchorsStay(t, n)
    BY <1>3 DEF AnchorsStay
  <2> QED
    BY <1>1, <2>1, MultiEndInv DEF MultiOps
<1>4. CASE multi_stack[g.e] = g.m /\ multi_stack' = [multi_stack EXCEPT ![g.e] = NULL]
  <2>1. AnchorsStay(t, n)
    BY <1>1, <1>2, <1>4, ForgetAnchors
  <2> QED
    BY <1>1, <2>1, MultiEndInv DEF MultiOps
<1> QED
  BY <1>1, <1>3, <1>4

\* A window that changes only its progress, or from adding to undoing, stands
\* to the others as it did.
LEMMA SwapTop ==
    ASSUME TypeOK, SlotInv, NEW t \in Thread, NEW g, IsTop(t, g), g.op # "mloop",
           NEW h \in Frame, h.op = g.op \/ (g.op = "add" /\ h.op = "undo"),
           h.e = g.e, h.m = g.m, h.op = "pause" => h.saved = g.saved,
           Replace(t, h), UNCHANGED multi_stack, SlotOf(h)' = t,
           h.op = "detach" \/ h.op \in {"add", "undo"} => state'[h.e] = NULL,
           KeptSound(t, Len(stack[t]) - 1), KeptPairs(t, Len(stack[t]) - 1)
    PROVE  SlotInv'
<1> DEFINE n == Len(stack[t]) - 1
<1>1. g \in Frame /\ Sound(t, g) /\ Against(t, g)
  BY Innermost
<1>2. Sound(t, h)'
  BY <1>1 DEF Sound
<1>3. InEasy(h)' = InEasy(g) /\ SlotMulti(h)' = SlotMulti(g)
  BY DEF InEasy, SlotMulti
<1>4. ASSUME NEW u \in Thread, NEW i \in Nat, NEW f \in Frame, Stays(t, n, u, i, f)
      PROVE  IF u = t THEN Nested(t, f, h)' ELSE Separate(f, h)' /\ Separate(h, f)'
  <2>1. InEasy(f)' = InEasy(f) /\ SlotMulti(f)' = SlotMulti(f)
    BY DEF InEasy, SlotMulti
  <2>2. /\ u = t => Nested(t, f, g)
        /\ u # t => Separate(f, g) /\ Separate(g, f)
    BY <1>1, <1>4 DEF Against
  <2>3. SameSlot(f, h)' = SameSlot(f, g)
    BY <1>3, <2>1 DEF SameSlot
  <2>4. /\ AddsApart(f, g) => AddsApart(f, h)'
        /\ AddsApart(g, f) => AddsApart(h, f)'
    BY DEF AddsApart, Adds
  <2>5. CASE u = t
    BY <2>2, <2>3, <2>4, <2>5 DEF Nested
  <2>6. CASE u # t
    BY <1>3, <2>1, <2>2, <2>4, <2>6 DEF Separate, Closing
  <2> QED
    BY <2>5, <2>6
<1>5. NewSound(t, n, h)
  BY <1>2, <1>4 DEF NewSound
<1> QED
  BY <1>5, ReplaceInv DEF IsTop

\* add_handle() takes the handle out again: the same multi, the same slot.
LEMMA AddUndoInv ==
    ASSUME TypeOK, SlotInv, NEW t \in Thread, AddUndo(t)
    PROVE  SlotInv'
<1> DEFINE n == Len(stack[t]) - 1
<1> PICK g : g = Last(stack[t])
  OBVIOUS
<1>1. /\ IsTop(t, g) /\ g.op = "add" /\ UNCHANGED multi_stack
  BY DEF AddUndo, Returning, InFrame, IsTop
<1>2. g \in Frame /\ Sound(t, g)
  BY <1>1, Innermost
<1>3. /\ g.e \in Easy /\ g.m \in Multi /\ ~InEasy(g) /\ SlotMulti(g) = g.m
      /\ state[g.e] = NULL
  BY <1>1, <1>2 DEF Frame, MultiOps, InEasy, SlotMulti, Sound
<1> DEFINE h == Window("undo", g.e, g.m, FALSE, {})
<1>4. h \in Frame /\ h.op = "undo" /\ h.e = g.e /\ h.m = g.m
  BY <1>3, WindowType, NullAssumption DEF EasyOps, MultiOps, Window
<1>5. SetMulti(g.m, t) /\ Replace(t, h)
  BY DEF AddUndo
<1> HIDE DEF h
<1>6. AnchorsStay(t, n)
  BY <1>1 DEF AnchorsStay
<1>7. KeptSound(t, n) /\ KeptPairs(t, n)
  BY <1>1, <1>3, <1>5, <1>6, LeaveMultiKept
<1>8. SlotOf(h)' = t /\ state'[h.e] = NULL
  BY <1>3, <1>4, <1>5 DEF SetMulti, SlotOf, TypeOK
<1> QED
  BY <1>1, <1>4, <1>5, <1>7, <1>8, SwapTop

\* libcurl calls back into Python, or Python returns to libcurl.
LEMMA CallbackInv ==
    ASSUME TypeOK, SlotInv, NEW t \in Thread, EnterCallback(t) \/ LeaveCallback(t)
    PROVE  SlotInv'
<1> DEFINE n == Len(stack[t]) - 1
<1> PICK g : g = Last(stack[t])
  OBVIOUS
<1>1. /\ IsTop(t, g) /\ UNCHANGED <<state, mstate, multi_stack>>
      /\ \E at \in {"lib", "py"} : Replace(t, [g EXCEPT !.at = at])
  BY DEF EnterCallback, LeaveCallback, IsTop, slots, links
<1>2. g \in Frame /\ Sound(t, g) /\ n \in Nat
  BY <1>1, Innermost
<1>3. g.op # "mloop"
  BY <1>2 DEF EnterCallback, LeaveCallback, CallbackSlots, Sound
<1> PICK at \in {"lib", "py"} : Replace(t, [g EXCEPT !.at = at])
  BY <1>1
<1> DEFINE h == [g EXCEPT !.at = at]
<1>4. /\ h \in Frame /\ h.op = g.op /\ h.e = g.e /\ h.m = g.m
      /\ h.saved = g.saved /\ Replace(t, h)
  BY <1>2 DEF Frame
<1> HIDE DEF h
<1>5. SlotOf(h)' = t /\ (h.op \in {"detach", "add", "undo"} => state'[h.e] = NULL)
  BY <1>1, <1>2, <1>3, <1>4 DEF Sound, SlotOf
<1>6. KeptSound(t, n) /\ KeptPairs(t, n)
  BY <1>1, <1>2, IdleKept
<1> QED
  BY <1>1, <1>3, <1>4, <1>5, <1>6, SwapTop

\* The multi's close has detached an easy, and goes on with its loop.
LEMMA LoopDetachEndInv ==
    ASSUME TypeOK, SlotInv, NEW t \in Thread, LoopDetachEnd(t)
    PROVE  SlotInv'
<1> DEFINE n == Len(stack[t]) - 1
<1> PICK g : g = Last(stack[t])
  OBVIOUS
<1>1. /\ IsTop(t, g) /\ g.op = "mdetach" /\ g.at = "lib" /\ SetMulti(g.m, NULL)
  BY DEF LoopDetachEnd, Returning, InFrame, IsTop
<1>2. g \in Frame /\ Sound(t, g) /\ n \in Nat
  BY <1>1, Innermost
<1>3. /\ g.e \in Easy /\ g.m \in Multi /\ ~InEasy(g) /\ SlotMulti(g) = g.m
      /\ multi_stack[g.e] = g.m /\ g.m # NULL
  BY <1>1, <1>2, NullAssumption DEF Frame, MultiOps, InEasy, SlotMulti, Sound
<1> PICK x \in {g.e, NULL} : x = IF g.ok THEN g.e ELSE NULL
  OBVIOUS
<1> DEFINE h == [g EXCEPT !.op = "mloop", !.e = x]
<1>4. /\ h \in Frame /\ h.op = "mloop" /\ h.e = x /\ h.m = g.m /\ h.at = "lib"
  BY <1>1, <1>2 DEF Frame, EasyOps, MultiOps
<1>5. Replace(t, h) /\ multi_stack' = [multi_stack EXCEPT ![g.e] = NULL]
  BY <1>3 DEF LoopDetachEnd
<1> HIDE DEF h
<1>6. /\ AnchorsStay(t, n)
      /\ \A u \in Thread, i \in Nat, f \in Frame :
           Stays(t, n, u, i, f) => ~Adds(f, g.e)
  BY <1>1, <1>3, <1>5, ForgetAnchors
<1>7. KeptSound(t, n) /\ KeptPairs(t, n)
  BY <1>1, <1>3, <1>6, LeaveMultiKept
<1>8. ASSUME NEW u \in Thread, NEW i \in Nat, NEW f \in Frame, Stays(t, n, u, i, f)
      PROVE  ~Adds(f, h.e)
  BY <1>4, <1>6, <1>8 DEF Adds, Frame
<1>9. Sound(t, h)' /\ Closing(h) /\ Closing(g)
  BY <1>1, <1>4 DEF Sound, Closing
<1> QED
  BY <1>1, <1>4, <1>5, <1>6, <1>7, <1>8, <1>9, LoopOn

\* The end of any window.
LEMMA ReturnInv ==
    ASSUME TypeOK, SlotInv, NEW t \in Thread, Return(t)
    PROVE  SlotInv'
<1> DEFINE n == Len(stack[t]) - 1
<1> PICK g : g = Last(stack[t])
  OBVIOUS
<1>1. CASE IOEnd(t) \/ CleanupEnd(t)
  <2>1. /\ IsTop(t, g) /\ g.op \in {"io", "cleanup"} /\ SetEasy(g.e, NULL)
        /\ UNCHANGED multi_stack /\ Pop(t)
    BY <1>1 DEF IOEnd, CleanupEnd, Returning, InFrame, IsTop, links
  <2>2. KeptSound(t, n) /\ KeptPairs(t, n)
    BY <2>1, LeaveEasyKept
  <2> QED
    BY <2>1, <2>2, PopInv DEF IsTop
<1>2. CASE DriveEnd(t) \/ AddRefused(t) \/ AddUndoEnd(t) \/ MultiCleanupEnd(t)
  <2>1. /\ IsTop(t, g) /\ g.op \in {"drive", "add", "undo", "mcleanup"}
        /\ SetMulti(g.m, NULL) /\ UNCHANGED multi_stack /\ Pop(t)
    BY <1>2 DEF DriveEnd, AddRefused, AddUndoEnd, MultiCleanupEnd, Returning,
                InFrame, IsTop, links
  <2>2. AnchorsStay(t, n)
    BY <2>1 DEF AnchorsStay
  <2> QED
    BY <2>1, <2>2, MultiEndInv DEF MultiOps
<1> QED
  BY <1>1, <1>2, PauseEndInv, DetachEndInv, AddEndInv, AddUndoInv, RemoveEndInv,
     LoopDetachEndInv DEF Return

-----------------------------------------------------------------------------
(* The loop of a multi's close *)

\* The easy that is closed after it left the multi: its own slot is free, and
\* nobody has meanwhile begun to add it anywhere.
LEMMA LoopCloseInv ==
    ASSUME TypeOK, SlotInv, NEW t \in Thread, LoopClose(t)
    PROVE  SlotInv'
<1> DEFINE n == Len(stack[t]) - 1
<1> PICK g : g = Last(stack[t])
  OBVIOUS
<1>1. /\ IsTop(t, g) /\ g.op = "mloop" /\ g.e # NULL /\ ThreadState(g.e) = NULL
      /\ SetEasy(g.e, t) /\ ToCleanup(g.e)
  BY DEF LoopClose, Looping, InFrame, IsTop
<1>2. g \in Frame /\ Sound(t, g) /\ n \in Nat /\ Against(t, g)
  BY <1>1, Innermost
<1> PICK e \in Easy : e = g.e
  BY <1>1, <1>2 DEF Frame
<1> DEFINE h1 == [g EXCEPT !.e = NULL]
           h2 == Window("cleanup", e, NULL, TRUE, {})
<1>3. /\ h1 \in Frame /\ h1.op = "mloop" /\ h1.e = NULL /\ h1.m = g.m
      /\ h1.at = "lib"
  BY <1>1, <1>2 DEF Frame, EasyOps, Sound
<1>4. h2 \in Frame /\ h2.op = "cleanup" /\ h2.e = e
  BY WindowType, NullAssumption DEF EasyOps, MultiOps, Window
<1>5. /\ stack' = [stack EXCEPT ![t] = Append(Append(Front(@), h1), h2)]
      /\ state' = [state EXCEPT ![e] = t] /\ UNCHANGED mstate
      /\ multi_stack' = [multi_stack EXCEPT ![e] = NULL]
  BY <1>1 DEF LoopClose, SetEasy, ToCleanup
<1> HIDE DEF h1, h2
<1>6. ASSUME NEW u \in Thread, NEW i \in Nat, NEW f \in Frame, Stays(t, n, u, i, f)
      PROVE  /\ f.op \in EasyOps \cup {"mdetach", "add", "undo"} => f.e # e
             /\ u = t /\ f.op = "mloop" => f.e = NULL
             /\ AddsApart(f, g) /\ AddsApart(g, f)
             /\ f.op # "mloop" => ~SameSlot(f, g)
             /\ u # t => Separate(f, g) /\ Separate(g, f)
  <2>1. /\ IsFrame(u, i, f)
        /\ u = t => Nested(t, f, g)
        /\ u # t => Separate(f, g) /\ Separate(g, f)
        /\ f.op # "mloop" => ~SameSlot(f, g)
    BY <1>1, <1>2, <1>6 DEF Against
  <2>2. AddsApart(f, g) /\ AddsApart(g, f)
    BY <1>1, <2>1 DEF Nested, Separate, AddsApart
  <2>3. f.op \in {"add", "undo"} => f.e # e
    BY <1>1, <2>2 DEF AddsApart
  <2>4. f.op \in EasyOps \cup {"mdetach"} => f.e # e
    BY <1>1, <2>1, FreeEasy DEF EasyOps
  <2>5. u = t /\ f.op = "mloop" => f.e = NULL
    BY <2>1 DEF Nested
  <2> QED
    BY <2>1, <2>2, <2>3, <2>4, <2>5
<1>7. AnchorsStay(t, n)
  BY <1>5, <1>6 DEF AnchorsStay, TypeOK, EasyOps
<1>8. EasySlotFree(t, n, e, t)
  BY <1>6 DEF EasySlotFree, InEasy, EasyOps
<1>9. KeptSound(t, n) /\ KeptPairs(t, n)
  BY <1>2, <1>5, <1>7, <1>8, EasySlotKept
<1>10. /\ Sound(t, h1)' /\ Sound(t, h2)' /\ InEasy(h2)'
       /\ ~InEasy(h1)' /\ SlotMulti(h1)' = g.m
  BY <1>3, <1>4, <1>5 DEF Sound, InEasy, SlotMulti, SlotOf, TypeOK
<1>11. ASSUME NEW u \in Thread, NEW i \in Nat, NEW f \in Frame, Stays(t, n, u, i, f)
       PROVE  /\ u = t => Nested(t, f, h1)' /\ Nested(t, f, h2)'
              /\ u # t => /\ Separate(f, h1)' /\ Separate(h1, f)'
                          /\ Separate(f, h2)' /\ Separate(h2, f)'
  <2>1. InEasy(f)' = InEasy(f) /\ SlotMulti(f)' = SlotMulti(f)
    BY <1>7, <1>11 DEF AnchorsStay, InEasy, SlotMulti
  <2>2. f.op # "mloop" => ~SameSlot(f, h1)' /\ ~SameSlot(f, h2)'
    BY <1>1, <1>4, <1>6, <1>10, <1>11, <2>1
       DEF SameSlot, InEasy, SlotMulti, EasyOps
  <2>3. /\ AddsApart(f, h1)' /\ AddsApart(h1, f)'
        /\ AddsApart(f, h2)' /\ AddsApart(h2, f)'
    BY <1>3, <1>4 DEF AddsApart, Adds, Frame
  <2>4. CASE u = t
    BY <1>6, <1>11, <2>2, <2>3, <2>4 DEF Nested
  <2>5. CASE u # t
    <3>1. Separate(f, g) /\ Separate(g, f)
      BY <1>6, <1>11, <2>5
    <3> QED
      BY <1>1, <1>3, <1>4, <1>10, <2>1, <2>3, <2>5, <3>1
         DEF Separate, Closing, SlotMulti, InEasy
  <2> QED
    BY <2>4, <2>5
<1>12. Nested(t, h1, h2)'
  BY <1>3, <1>4 DEF Nested, AddsApart
<1>13. ASSUME NEW u \in Thread, NEW i \in Nat, NEW f \in Frame, IsFrame(u, i, f)'
       PROVE  \/ Stays(t, n, u, i, f)
              \/ u = t /\ i = n + 1 /\ f = h1
              \/ u = t /\ i = n + 2 /\ f = h2
  <2> DEFINE s == Append(Front(stack[t]), h1)
  <2>1. stack[t] \in Seq(Frame) /\ stack[t] # <<>>
    BY <1>1 DEF TypeOK, IsTop
  <2>2. /\ DOMAIN s = DOMAIN stack[t] /\ s \in Seq(Frame) /\ Len(s) = Len(stack[t])
        /\ \A k \in DOMAIN stack[t] \ {Len(stack[t])} : s[k] = stack[t][k]
        /\ s[Len(stack[t])] = h1
    BY <1>3, <2>1, ReplaceFrame
  <2>3. /\ stack'[t] = Append(s, h2)
        /\ \A w \in Thread \ {t} : stack'[w] = stack[w]
    BY <1>5 DEF TypeOK
  <2> HIDE DEF s
  <2>4. /\ DOMAIN Append(s, h2) = DOMAIN s \cup {Len(s) + 1}
        /\ \A k \in DOMAIN s : Append(s, h2)[k] = s[k]
        /\ Append(s, h2)[Len(s) + 1] = h2
    BY <1>4, <2>2, PushFrame
  <2>5. Len(stack[t]) = n + 1 /\ DOMAIN stack[t] = 1..(n + 1)
    BY <1>2, <2>1
  <2> QED
    BY <1>2, <1>13, <2>2, <2>3, <2>4, <2>5 DEF IsFrame, Stays
<1>14. ASSUME NEW u \in Thread, NEW f \in Frame, NEW i \in Nat, IsFrame(u, i, f)'
       PROVE  Sound(u, f)'
  BY <1>9, <1>10, <1>13, <1>14 DEF KeptSound
<1>15. ASSUME NEW u \in Thread, NEW f \in Frame, NEW k \in Frame,
              NEW i \in Nat, NEW j \in Nat,
              IsFrame(u, i, f)', IsFrame(u, j, k)', i < j
       PROVE  Nested(u, f, k)'
  <2>1. CASE Stays(t, n, u, j, k)
    <3>1. Stays(t, n, u, i, f)
      BY <1>2, <1>13, <1>15, <2>1 DEF Stays
    <3> QED
      BY <1>9, <1>15, <2>1, <3>1 DEF KeptPairs
  <2>2. CASE ~Stays(t, n, u, j, k)
    <3>1. /\ u = t
          /\ (j = n + 1 /\ k = h1) \/ (j = n + 2 /\ k = h2)
      BY <1>13, <1>15, <2>2
    <3>2. Stays(t, n, u, i, f) \/ (i = n + 1 /\ f = h1 /\ k = h2)
      BY <1>2, <1>13, <1>15, <3>1
    <3> QED
      BY <1>11, <1>12, <3>1, <3>2
  <2> QED
    BY <2>1, <2>2
<1>16. ASSUME NEW u \in Thread, NEW w \in Thread, NEW f \in Frame, NEW k \in Frame,
              NEW i \in Nat, NEW j \in Nat,
              IsFrame(u, i, f)', IsFrame(w, j, k)', u # w
       PROVE  Separate(f, k)'
  <2>1. CASE Stays(t, n, u, i, f) /\ Stays(t, n, w, j, k)
    BY <1>9, <1>16, <2>1 DEF KeptPairs
  <2>2. CASE ~Stays(t, n, u, i, f)
    <3>1. u = t /\ f \in {h1, h2} /\ Stays(t, n, w, j, k)
      BY <1>13, <1>16, <2>2
    <3> QED
      BY <1>11, <1>16, <3>1
  <2>3. CASE ~Stays(t, n, w, j, k)
    <3>1. w = t /\ k \in {h1, h2} /\ Stays(t, n, u, i, f)
      BY <1>13, <1>16, <2>3
    <3> QED
      BY <1>11, <1>16, <3>1
  <2> QED
    BY <2>1, <2>2, <2>3
<1> QED
  BY <1>14, <1>15, <1>16 DEF SlotInv

\* The other steps of the loop stay on its multi, or end it.
LEMMA LoopInv ==
    ASSUME TypeOK, SlotInv, NEW t \in Thread, Loop(t)
    PROVE  SlotInv'
<1> DEFINE n == Len(stack[t]) - 1
<1> PICK g : g = Last(stack[t])
  OBVIOUS
<1>1. IsTop(t, g) /\ g.op = "mloop"
  BY DEF Loop, Looping, InFrame, IsTop, LoopSkip, LoopDetach, LoopUnlink, LoopClose,
         LoopCloseNoop, LoopAbort, LoopEnd, LoopEndClosed
<1>2. g \in Frame /\ Sound(t, g) /\ n \in Nat
  BY <1>1, Innermost
<1>3. /\ g.m \in Multi /\ g.m # NULL /\ g.at = "lib" /\ g.ok \in BOOLEAN
      /\ g.todo \in SUBSET Easy /\ Closing(g) /\ ~InEasy(g) /\ SlotMulti(g) = g.m
  BY <1>1, <1>2 DEF Frame, MultiOps, Sound, Closing, InEasy, SlotMulti
<1>4. ASSUME NEW h \in Frame, h.op = "mloop", h.at = "lib", h.m = g.m, h.e = NULL,
             Replace(t, h), UNCHANGED <<state, mstate, multi_stack>>
      PROVE  SlotInv'
  <2>1. KeptSound(t, n) /\ KeptPairs(t, n) /\ AnchorsStay(t, n)
    BY <1>2, <1>4, IdleKept DEF AnchorsStay
  <2>2. Sound(t, h)' /\ Closing(h)
    BY <1>4 DEF Sound, Closing
  <2>3. \A u \in Thread, i \in Nat, f \in Frame :
          Stays(t, n, u, i, f) => ~Adds(f, h.e)
    BY <1>4 DEF Adds, Frame
  <2> QED
    BY <1>1, <1>3, <1>4, <2>1, <2>2, <2>3, LoopOn
<1>5. CASE LoopSkip(t)
  <2> PICK e \in g.todo : Replace(t, [g EXCEPT !.todo = @ \ {e}])
    BY <1>5 DEF LoopSkip
  <2> DEFINE h == [g EXCEPT !.todo = @ \ {e}]
  <2>1. h \in Frame /\ h.op = "mloop" /\ h.at = "lib" /\ h.m = g.m /\ h.e = g.e
    BY <1>1, <1>2, <1>3 DEF Frame
  <2> HIDE DEF h
  <2>2. /\ g.e = NULL /\ Replace(t, h)
        /\ UNCHANGED <<state, mstate, multi_stack>>
    BY <1>5 DEF LoopSkip, slots, links, h
  <2> QED
    BY <1>4, <2>1, <2>2
<1>6. CASE LoopDetach(t)
  <2> PICK e \in g.todo :
        /\ multi_stack[e] = g.m
        /\ Replace(t, Window("mdetach", e, g.m, g.ok, g.todo \ {e}))
    BY <1>6 DEF LoopDetach
  <2> DEFINE todo == g.todo \ {e}
             h == Window("mdetach", e, g.m, g.ok, todo)
  <2>0. todo \in SUBSET Easy /\ e \in Easy
    BY <1>3
  <2> HIDE DEF todo
  <2>1. h \in Frame /\ h.op = "mdetach" /\ h.m = g.m /\ h.e = e
    BY <1>3, <2>0, WindowType, NullAssumption DEF EasyOps, MultiOps, Window
  <2> HIDE DEF h
  <2>2. Replace(t, h) /\ SetMulti(g.m, t) /\ UNCHANGED multi_stack
    BY <1>6 DEF LoopDetach, h, todo
  <2>3. AnchorsStay(t, n)
    BY <2>2 DEF AnchorsStay
  <2>4. KeptSound(t, n) /\ KeptPairs(t, n)
    BY <1>1, <1>3, <2>2, <2>3, LeaveMultiKept
  <2>5. Sound(t, h)' /\ Closing(h) /\ h.op # "mloop"
    BY <1>3, <2>1, <2>2 DEF Sound, SlotOf, SetMulti, Closing, TypeOK
  <2> QED
    BY <1>1, <1>3, <2>1, <2>2, <2>3, <2>4, <2>5, LoopOn
<1>7. CASE LoopUnlink(t)
  <2> PICK e \in g.todo :
        /\ multi_stack[e] = g.m
        /\ multi_stack' = [multi_stack EXCEPT ![e] = NULL]
        /\ Replace(t, [g EXCEPT !.todo = @ \ {e}, !.e = IF g.ok THEN e ELSE NULL])
    BY <1>7 DEF LoopUnlink
  <2> PICK x \in {e, NULL} : x = IF g.ok THEN e ELSE NULL
    OBVIOUS
  <2> DEFINE h == [g EXCEPT !.todo = @ \ {e}, !.e = x]
  <2>0. e \in Easy
    BY <1>3
  <2>1. h \in Frame /\ h.op = "mloop" /\ h.at = "lib" /\ h.m = g.m /\ h.e = x
    BY <1>1, <1>2, <1>3, <2>0 DEF Frame, EasyOps, MultiOps
  <2> HIDE DEF h
  <2>2. Replace(t, h) /\ UNCHANGED <<state, mstate>>
    BY <1>7 DEF LoopUnlink, slots, h
  <2>3. /\ AnchorsStay(t, n)
        /\ \A u \in Thread, i \in Nat, f \in Frame :
             Stays(t, n, u, i, f) => ~Adds(f, e)
    BY <1>1, <1>3, <2>0, ForgetAnchors
  <2>4. KeptSound(t, n) /\ KeptPairs(t, n)
    <3>1. ASSUME NEW u \in Thread, NEW i \in Nat, NEW f \in Frame,
                 Stays(t, n, u, i, f)
          PROVE  /\ f.op \in {"detach", "add", "undo"} => state'[f.e] = state[f.e]
                 /\ f.op # "mloop" /\ InEasy(f) => state'[f.e] = u
                 /\ f.op # "mloop" /\ ~InEasy(f) => mstate'[SlotMulti(f)] = u
      <4>1. IsFrame(u, i, f)
        BY <3>1 DEF Stays
      <4> QED
        BY <2>2, <3>1, <4>1, FreeSlot
    <3> QED
      BY <1>2, <2>3, <3>1, SoundKept, PairsKept
  <2>5. Sound(t, h)' /\ Closing(h)
    BY <2>1 DEF Sound, Closing
  <2>6. \A u \in Thread, i \in Nat, f \in Frame :
          Stays(t, n, u, i, f) => ~Adds(f, h.e)
    BY <2>1, <2>3 DEF Adds, Frame
  <2> QED
    BY <1>1, <1>3, <2>1, <2>2, <2>3, <2>4, <2>5, <2>6, LoopOn
<1>8. CASE LoopCloseNoop(t)
  <2> DEFINE h == [g EXCEPT !.e = NULL]
  <2>1. h \in Frame /\ h.op = "mloop" /\ h.at = "lib" /\ h.m = g.m /\ h.e = NULL
    BY <1>1, <1>2, <1>3 DEF Frame, EasyOps
  <2> HIDE DEF h
  <2>2. Replace(t, h) /\ UNCHANGED <<state, mstate, multi_stack>>
    BY <1>8 DEF LoopCloseNoop, slots, links, h
  <2> QED
    BY <1>4, <2>1, <2>2
<1>9. CASE LoopAbort(t)
  <2>1. Pop(t) /\ UNCHANGED <<state, mstate, multi_stack>>
    BY <1>9 DEF LoopAbort, slots, links
  <2>2. KeptSound(t, n) /\ KeptPairs(t, n)
    BY <1>2, <2>1, IdleKept
  <2> QED
    BY <1>1, <2>1, <2>2, PopInv DEF IsTop
<1>10. CASE LoopEnd(t)
  <2> DEFINE h == Window("mcleanup", NULL, g.m, TRUE, {})
  <2>1. h \in Frame /\ h.op = "mcleanup" /\ h.m = g.m
    BY <1>3, WindowType, NullAssumption DEF EasyOps, MultiOps, Window
  <2> HIDE DEF h
  <2>2. Replace(t, h) /\ SetMulti(g.m, t) /\ UNCHANGED multi_stack
    BY <1>10 DEF LoopEnd, h
  <2>3. AnchorsStay(t, n)
    BY <2>2 DEF AnchorsStay
  <2>4. KeptSound(t, n) /\ KeptPairs(t, n)
    BY <1>1, <1>3, <2>2, <2>3, LeaveMultiKept
  <2>5. Sound(t, h)' /\ Closing(h) /\ h.op # "mloop"
    BY <1>3, <2>1, <2>2 DEF Sound, SlotOf, SetMulti, Closing, TypeOK
  <2> QED
    BY <1>1, <1>3, <2>1, <2>2, <2>3, <2>4, <2>5, LoopOn
<1>11. CASE LoopEndClosed(t)
  <2>1. Pop(t) /\ SetMulti(g.m, NULL) /\ UNCHANGED multi_stack
    BY <1>11 DEF LoopEndClosed
  <2>2. AnchorsStay(t, n)
    BY <2>1 DEF AnchorsStay
  <2>3. KeptSound(t, n) /\ KeptPairs(t, n)
    BY <1>1, <1>3, <2>1, <2>2, LeaveMultiKept
  <2> QED
    BY <1>1, <2>1, <2>3, PopInv DEF IsTop
<1> QED
  BY <1>5, <1>6, <1>7, <1>8, <1>9, <1>10, <1>11, LoopCloseInv DEF Loop

-----------------------------------------------------------------------------
(* The theorem *)

\* The invariant and the types together survive every step.
LEMMA Inductive ==
    ASSUME Gaps = {}
    PROVE  TypeOK /\ SlotInv /\ [Next]_vars => SlotInv'
<1> SUFFICES ASSUME TypeOK, SlotInv, [Next]_vars PROVE SlotInv'
  OBVIOUS
<1>1. CASE UNCHANGED vars
  BY <1>1, IdleInv DEF vars
<1>2. ASSUME NEW t \in Thread, Step(t) PROVE SlotInv'
  BY <1>2, EasyInv, MultiInv, ReturnInv, LoopInv, CallbackInv DEF Step
<1> QED
  BY <1>1, <1>2 DEF Next

\* What the runs check of a small instance.
LEMMA SlotInvOwned ==
    ASSUME TypeOK, SlotInv
    PROVE  SlotOwned
<1> SUFFICES ASSUME NEW t \in Thread, NEW i \in DOMAIN stack[t],
                    stack[t][i].op # "mloop"
             PROVE  SlotOf(stack[t][i]) = t
  BY DEF SlotOwned
<1>1. stack[t] \in Seq(Frame)
  BY DEF TypeOK
<1>2. stack[t][i] \in Frame /\ i \in Nat
  BY <1>1
<1> QED
  BY <1>2 DEF SlotInv, IsFrame, Sound

\* A program that keeps to the documented rules never ends a window with a
\* thread state that is not its own, whatever its easies, multis and threads
\* and however deep its callbacks call: the assertions of the END macros
\* (pycurl.h) hold, and no callback of a window runs as another thread.
THEOREM SlotsSafe ==
    ASSUME Gaps = {}
    PROVE  Spec => []SlotOwned
<1>1. Init => SlotInv
  BY DEF Init, SlotInv, IsFrame
<1>2. TypeOK /\ SlotInv /\ [Next]_vars => SlotInv'
  BY Inductive
<1>3. TypeOK /\ SlotInv => SlotOwned
  BY SlotInvOwned
<1> QED
  BY <1>1, <1>2, <1>3, TypeCorrect, PTL DEF Spec

-----------------------------------------------------------------------------
(* Links *)

\* the windows that move an easy to or from a multi
Moves(f) == f.op \in {"add", "undo", "remove", "detach", "mdetach"}

\* the windows that are about an easy
OnEasy(f) == Moves(f) \/ f.op \in {"io", "cleanup", "pause"}

\* whether libcurl has the easy of such a window on the window's multi
InLib(f) == (f.op = "add" /\ f.ok) \/ (f.op = "remove" /\ ~f.ok)

\* what holds of every frame f of thread t
Linked(t, f) ==
    /\ OnEasy(f) => handle[f.e]
    /\ f.op = "cleanup" => multi_stack[f.e] = NULL
    /\ f.op = "remove" => multi_stack[f.e] = f.m
    /\ f.op \in {"remove", "mdetach"} => state[f.e] = NULL
    /\ f.op = "pause" => f.saved \in {NULL, t}
    /\ Moves(f) => in_multi[f.e] = IF InLib(f) THEN f.m ELSE NULL
    /\ f.op \in {"add", "undo"} => f.e \in refs[f.m]
    /\ f.op \in {"add", "undo", "mcleanup"} => multi_handle[f.m]
    /\ Closing(f) => \A e \in Easy : multi_stack[e] = f.m =>
         \/ f.op \in {"mloop", "mdetach"} /\ e \in f.todo
         \/ f.op = "mdetach" /\ e = f.e
    /\ f.op \in {"add", "mloop", "mdetach"} /\ f.ok => alive[f.m]
    /\ f.op = "mloop" /\ f.e # NULL => f.ok

\* A multi that closes gets no new easy, and its easies are in calls of
\* their own only further in on the same stack.
OutOfClosing(t, f, i, u, g, j) ==
    Closing(f) =>
        /\ g.op = "io" /\ multi_stack[g.e] = f.m => t = u /\ i < j
        /\ g.op \in {"add", "undo"} => f.m # g.m

\* what holds of every easy
MovesEasy(e) == \E t \in Thread, f \in Frame, i \in Nat :
    IsFrame(t, i, f) /\ Moves(f) /\ f.e = e
InIO(e) == \E t \in Thread, f \in Frame, i \in Nat :
    IsFrame(t, i, f) /\ f.op = "io" /\ f.e = e
BeingClosed(m) == \E t \in Thread, f \in Frame, i \in Nat :
    IsFrame(t, i, f) /\ Closing(f) /\ f.m = m
Placed(e) ==
    /\ ~handle[e] => state[e] = NULL /\ multi_stack[e] = NULL
    /\ ~MovesEasy(e) => in_multi[e] = multi_stack[e]
    /\ multi_stack[e] # NULL =>
         /\ state[e] # NULL => mstate[multi_stack[e]] = NULL /\ InIO(e)
         /\ multi_handle[multi_stack[e]] /\ e \in refs[multi_stack[e]]
         /\ alive[multi_stack[e]] \/ BeingClosed(multi_stack[e])

FramesLinked ==
    \A t \in Thread, f \in Frame, i \in Nat : IsFrame(t, i, f) => Linked(t, f)
FramesApart ==
    \A t, u \in Thread, f, g \in Frame, i, j \in Nat :
        IsFrame(t, i, f) /\ IsFrame(u, j, g) => OutOfClosing(t, f, i, u, g, j)
LinkInv == FramesLinked /\ FramesApart /\ \A e \in Easy : Placed(e)

-----------------------------------------------------------------------------
(* The invariant after a step of thread t, from what the step changes.  The *)
(* first n frames of t stay, and all those of the other threads; the frames *)
(* in New join.  Only the easies in E change, and no window that stays is   *)
(* on one of them.                                                          *)

StackStep(t, n, New) ==
    /\ \A u \in Thread, i \in Nat, f \in Frame :
         IsFrame(u, i, f)' => Stays(t, n, u, i, f) \/ (u = t /\ i > n /\ f \in New)
    /\ \A u \in Thread, i \in Nat, f \in Frame :
         Stays(t, n, u, i, f) => IsFrame(u, i, f)'
    /\ \A f \in New : \E i \in Nat : IsFrame(t, i, f)'

OnlyEasies(E) == \A e \in Easy \ E :
    /\ handle'[e] = handle[e] /\ state'[e] = state[e]
    /\ multi_stack'[e] = multi_stack[e] /\ in_multi'[e] = in_multi[e]
Quiet(t, n, E) == \A u \in Thread, i \in Nat, f \in Frame :
    Stays(t, n, u, i, f) /\ f.e \in E => ~OnEasy(f)

\* a multi keeps its handle and its references, or nothing needs them
Vacant(t, n, m) ==
    /\ \A e \in Easy : multi_stack'[e] # m
    /\ \A u \in Thread, i \in Nat, f \in Frame :
         Stays(t, n, u, i, f) /\ f.op \in {"add", "undo", "mcleanup"} => f.m # m
MultisKept(t, n, E) == \A m \in Multi :
    \/ Vacant(t, n, m)
    \/ /\ multi_handle[m] => multi_handle'[m]
       /\ \A e \in Easy \ E : e \in refs[m] => e \in refs'[m]
AliveKept(t, n, New) == \A m \in Multi :
    \/ alive[m] => alive'[m]
    \/ /\ \A u \in Thread, i \in Nat, f \in Frame :
            Stays(t, n, u, i, f) /\ f.op \in {"add", "mloop", "mdetach"} => f.m # m
       /\ \E g \in New : Closing(g) /\ g.m = m
SlotsKept(E) == \A e \in Easy \ E :
    multi_stack[e] # NULL /\ state[e] # NULL =>
        mstate'[multi_stack[e]] = mstate[multi_stack[e]] \/ mstate'[multi_stack[e]] = NULL

\* the frames that go and those that come
Left(t, n, New, E) == \A i \in Nat, f \in Frame :
    IsFrame(t, i, f) /\ i > n =>
        /\ f.op = "io" \/ Moves(f) => f.e \in E
        /\ Closing(f) => \/ \E g \in New : Closing(g) /\ g.m = f.m
                         \/ alive'[f.m]
                         \/ \A e \in Easy : multi_stack'[e] # f.m
Arrived(t, New, E) == \A g \in New : Linked(t, g)' /\ (Moves(g) => g.e \in E)
NoneJoins(t, n, E) == \A e \in E, u \in Thread, i \in Nat, f \in Frame :
    Stays(t, n, u, i, f) /\ Closing(f) /\ multi_stack'[e] = f.m =>
        multi_stack[e] = f.m
NewApart(t, n, New) ==
    /\ \A u \in Thread, i \in Nat, f \in Frame, g \in New : Stays(t, n, u, i, f) =>
         /\ Closing(f) /\ g.op = "io" => u = t \/ multi_stack'[g.e] # f.m
         /\ Closing(f) /\ g.op \in {"add", "undo"} => f.m # g.m
         /\ Closing(g) /\ f.op = "io" => multi_stack'[f.e] # g.m
         /\ Closing(g) /\ f.op \in {"add", "undo"} => f.m # g.m
    /\ \A f, g \in New : Closing(f) => g.op \notin {"io", "add", "undo"}

\* The operands of a frame.
LEMMA Operands ==
    ASSUME NEW f \in Frame
    PROVE  /\ f.e \in Easy \cup {NULL} /\ f.m \in Multi \cup {NULL}
           /\ f.todo \in SUBSET Easy /\ f.ok \in BOOLEAN
           /\ f.saved \in Thread \cup {NULL}
           /\ OnEasy(f) => f.e \in Easy
           /\ Closing(f) \/ Moves(f) \/ f.op = "drive" => f.m \in Multi
BY DEF Frame, Moves, OnEasy, Closing, EasyOps, MultiOps

\* The frames that stay are linked as before.
LEMMA StayLinked ==
    ASSUME LinkInv, NEW t \in Thread, NEW n \in Nat,
           NEW E \in SUBSET Easy, NEW New \in SUBSET Frame,
           OnlyEasies(E), Quiet(t, n, E), MultisKept(t, n, E),
           AliveKept(t, n, New), NoneJoins(t, n, E),
           NEW u \in Thread, NEW i \in Nat, NEW f \in Frame,
           Stays(t, n, u, i, f)
    PROVE  Linked(u, f)'
<1>1. Linked(u, f)
  BY DEF LinkInv, FramesLinked, Stays
<1>2. \A e \in Easy : Closing(f) /\ multi_stack'[e] = f.m => multi_stack[e] = f.m
  BY DEF OnlyEasies, NoneJoins
<1>3. f.op \in {"add", "mloop", "mdetach"} /\ alive[f.m] => alive'[f.m]
  BY Operands DEF AliveKept, Closing, Moves
<1>4. f.op = "mcleanup" => multi_handle'[f.m]
  BY <1>1, Operands DEF Linked, MultisKept, Vacant, Closing
<1>5. ASSUME OnEasy(f)
      PROVE  /\ handle'[f.e] = handle[f.e] /\ state'[f.e] = state[f.e]
             /\ multi_stack'[f.e] = multi_stack[f.e] /\ in_multi'[f.e] = in_multi[f.e]
             /\ f.op \in {"add", "undo"} => f.e \in refs'[f.m] /\ multi_handle'[f.m]
  <2>1. f.e \in Easy \ E
    BY <1>5, Operands DEF Quiet
  <2> QED
    BY <1>1, <1>5, <2>1, Operands DEF OnlyEasies, Linked, MultisKept, Vacant, Moves
<1> QED
  BY <1>1, <1>2, <1>3, <1>4, <1>5 DEF Linked, OnEasy, Moves

\* A multi that an easy is on is held, or its close() goes on.
LEMMA StayAlive ==
    ASSUME NEW t \in Thread, NEW n \in Nat,
           NEW E \in SUBSET Easy, NEW New \in SUBSET Frame,
           StackStep(t, n, New), AliveKept(t, n, New), Left(t, n, New, E),
           NEW m \in Multi, alive[m] \/ BeingClosed(m),
           NEW e \in Easy, multi_stack'[e] = m
    PROVE  alive'[m] \/ BeingClosed(m)'
<1>1. CASE alive[m]
  BY <1>1 DEF AliveKept, BeingClosed, StackStep
<1>2. CASE BeingClosed(m)
  <2> PICK u \in Thread, f \in Frame, i \in Nat :
        IsFrame(u, i, f) /\ Closing(f) /\ f.m = m
    BY <1>2 DEF BeingClosed
  <2>1. CASE Stays(t, n, u, i, f)
    BY <2>1 DEF BeingClosed, StackStep
  <2>2. CASE u = t /\ i > n
    BY <2>2 DEF BeingClosed, StackStep, Left
  <2> QED
    BY <2>1, <2>2 DEF Stays
<1> QED
  BY <1>1, <1>2

\* An easy the step leaves alone is placed as before.
LEMMA StayPlaced ==
    ASSUME TypeOK, LinkInv, NEW t \in Thread, NEW n \in Nat,
           NEW E \in SUBSET Easy, NEW New \in SUBSET Frame,
           StackStep(t, n, New), OnlyEasies(E), MultisKept(t, n, E),
           AliveKept(t, n, New), SlotsKept(E), Left(t, n, New, E),
           Arrived(t, New, E), NEW e \in Easy \ E
    PROVE  Placed(e)'
<1>1. /\ Placed(e)
      /\ handle'[e] = handle[e] /\ state'[e] = state[e]
      /\ multi_stack'[e] = multi_stack[e] /\ in_multi'[e] = in_multi[e]
  BY DEF LinkInv, OnlyEasies
<1>2. \A u \in Thread, i \in Nat, f \in Frame :
        IsFrame(u, i, f) => Stays(t, n, u, i, f) \/ (u = t /\ i > n)
  BY DEF Stays
<1>3. MovesEasy(e) => MovesEasy(e)'
  BY <1>2 DEF MovesEasy, StackStep, Left
<1>4. InIO(e) => InIO(e)'
  BY <1>2 DEF InIO, StackStep, Left
<1>5. MovesEasy(e)' => MovesEasy(e)
  BY DEF MovesEasy, StackStep, Arrived, Stays
<1>6. ASSUME multi_stack[e] # NULL
      PROVE  /\ multi_handle'[multi_stack[e]] /\ e \in refs'[multi_stack[e]]
             /\ alive'[multi_stack[e]] \/ BeingClosed(multi_stack[e])'
  <2> PICK m \in Multi : m = multi_stack[e] /\ m # NULL
    BY <1>6 DEF TypeOK
  <2>1. multi_handle[m] /\ e \in refs[m] /\ (alive[m] \/ BeingClosed(m))
    BY <1>1 DEF Placed
  <2>2. multi_handle'[m] /\ e \in refs'[m]
    BY <1>1, <2>1 DEF MultisKept, Vacant
  <2>3. alive'[m] \/ BeingClosed(m)'
    BY <1>1, <2>1, StayAlive
  <2>4. BeingClosed(m)' = BeingClosed(multi_stack[e])'
    BY <1>1
  <2>5. multi_stack'[e] = m
    BY <1>1
  <2> QED
    BY <2>1, <2>2, <2>3, <2>4, <2>5 DEF BeingClosed
<1> QED
  BY <1>1, <1>3, <1>4, <1>5, <1>6 DEF Placed, SlotsKept

\* What a step has to show, then, is this and the place of the easies in E.
LEMMA LinkStep ==
    ASSUME TypeOK, LinkInv, NEW t \in Thread, NEW n \in Nat,
           NEW E \in SUBSET Easy, NEW New \in SUBSET Frame,
           StackStep(t, n, New), OnlyEasies(E), Quiet(t, n, E),
           MultisKept(t, n, E), AliveKept(t, n, New), SlotsKept(E),
           Left(t, n, New, E), Arrived(t, New, E), NoneJoins(t, n, E),
           NewApart(t, n, New), \A e \in E : Placed(e)'
    PROVE  LinkInv'
<1>1. FramesLinked'
  <2> SUFFICES ASSUME NEW u \in Thread, NEW f \in Frame, NEW i \in Nat,
                      IsFrame(u, i, f)'
               PROVE  Linked(u, f)'
    BY DEF FramesLinked
  <2>1. CASE Stays(t, n, u, i, f)
    BY <2>1, StayLinked
  <2>2. CASE u = t /\ f \in New
    BY <2>2 DEF Arrived
  <2> QED
    BY <2>1, <2>2 DEF StackStep
<1>2. FramesApart'
  <2> SUFFICES ASSUME NEW u \in Thread, NEW w \in Thread,
                      NEW f \in Frame, NEW g \in Frame, NEW i \in Nat, NEW j \in Nat,
                      IsFrame(u, i, f)', IsFrame(w, j, g)', Closing(f)
               PROVE  /\ g.op = "io" /\ multi_stack'[g.e] = f.m => u = w /\ i < j
                      /\ g.op \in {"add", "undo"} => f.m # g.m
    BY DEF FramesApart, OutOfClosing
  <2>1. /\ Stays(t, n, u, i, f) \/ (u = t /\ i > n /\ f \in New)
        /\ Stays(t, n, w, j, g) \/ (w = t /\ j > n /\ g \in New)
    BY DEF StackStep
  <2>2. CASE Stays(t, n, u, i, f) /\ Stays(t, n, w, j, g)
    <3>1. g.op = "io" => multi_stack'[g.e] = multi_stack[g.e]
      BY <2>2, Operands DEF Quiet, OnlyEasies, OnEasy
    <3>2. OutOfClosing(u, f, i, w, g, j)
      BY <2>2 DEF LinkInv, FramesApart, Stays
    <3> QED
      BY <3>1, <3>2 DEF OutOfClosing
  <2>3. CASE Stays(t, n, u, i, f) /\ (w = t /\ j > n /\ g \in New)
    BY <2>3 DEF NewApart, Stays
  <2>4. CASE f \in New /\ Stays(t, n, w, j, g)
    BY <2>4 DEF NewApart
  <2>5. CASE f \in New /\ g \in New
    BY <2>5 DEF NewApart
  <2> QED
    BY <2>1, <2>2, <2>3, <2>4, <2>5
<1>3. \A e \in Easy : Placed(e)'
  BY StayPlaced
<1> QED
  BY <1>1, <1>2, <1>3 DEF LinkInv

-----------------------------------------------------------------------------
(* The three ways a thread's stack changes, and which windows are in the way *)

LEMMA PushStep ==
    ASSUME TypeOK, NEW t \in Thread, NEW g \in Frame, Push(t, g)
    PROVE  StackStep(t, Len(stack[t]), {g}) /\ Len(stack[t]) \in Nat
<1>1. stack[t] \in Seq(Frame) /\ Len(stack[t]) \in Nat
      /\ DOMAIN stack[t] = 1..Len(stack[t])
  BY DEF TypeOK
<1>2. /\ DOMAIN stack'[t] = DOMAIN stack[t] \cup {Len(stack[t]) + 1}
      /\ \A i \in DOMAIN stack[t] : stack'[t][i] = stack[t][i]
      /\ stack'[t][Len(stack[t]) + 1] = g
      /\ \A u \in Thread \ {t} : stack'[u] = stack[u]
  BY <1>1, PushFrame DEF Push, TypeOK
<1> QED
  BY <1>1, <1>2 DEF StackStep, Stays, IsFrame

\* A window is closed ...
LEMMA PopStep ==
    ASSUME TypeOK, NEW t \in Thread, stack[t] # <<>>, Pop(t)
    PROVE  StackStep(t, Len(stack[t]) - 1, {}) /\ Len(stack[t]) - 1 \in Nat
<1> DEFINE n == Len(stack[t]) - 1
<1>1. stack[t] \in Seq(Frame) /\ n \in Nat /\ DOMAIN stack[t] = 1..(n + 1)
      /\ n + 1 = Len(stack[t])
  BY PopFrame DEF TypeOK
<1>2. stack'[t] = Front(stack[t]) /\ \A u \in Thread \ {t} : stack'[u] = stack[u]
  BY DEF Pop, TypeOK
<1>3. /\ DOMAIN stack'[t] = DOMAIN stack[t] \ {n + 1}
      /\ \A i \in DOMAIN stack'[t] : stack'[t][i] = stack[t][i]
  <2>1. /\ DOMAIN Front(stack[t]) = DOMAIN stack[t] \ {Len(stack[t])}
        /\ \A i \in DOMAIN Front(stack[t]) : Front(stack[t])[i] = stack[t][i]
    BY <1>1, PopFrame
  <2> QED
    BY <1>1, <1>2, <2>1
<1> HIDE DEF n
<1> QED
  BY <1>1, <1>2, <1>3 DEF StackStep, Stays, IsFrame, n

\* ... or another takes its place.
LEMMA ReplaceStep ==
    ASSUME TypeOK, NEW t \in Thread, stack[t] # <<>>, NEW g \in Frame, Replace(t, g)
    PROVE  StackStep(t, Len(stack[t]) - 1, {g}) /\ Len(stack[t]) - 1 \in Nat
<1> DEFINE n == Len(stack[t]) - 1
           s == Append(Front(stack[t]), g)
<1>1. stack[t] \in Seq(Frame) /\ n \in Nat /\ DOMAIN stack[t] = 1..(n + 1)
      /\ n + 1 = Len(stack[t])
  BY PopFrame DEF TypeOK
<1>2. stack'[t] = s /\ \A u \in Thread \ {t} : stack'[u] = stack[u]
  BY DEF Replace, TypeOK
<1>3. /\ DOMAIN s = DOMAIN stack[t]
      /\ \A i \in DOMAIN stack[t] \ {n + 1} : s[i] = stack[t][i]
      /\ s[n + 1] = g
  BY <1>1, ReplaceFrame
<1> HIDE DEF n, s
<1> QED
  BY <1>1, <1>2, <1>3 DEF StackStep, Stays, IsFrame, n

\* A call on an easy that is in no call: no window is open on it.
LEMMA FreeQuiet ==
    ASSUME TypeOK, SlotInv, LinkInv, NEW e \in Easy, ThreadState(e) = NULL, ~Adding(e),
           NEW t \in Thread, NEW n \in Nat
    PROVE  Quiet(t, n, {e}) /\ ~MovesEasy(e)
<1> SUFFICES ASSUME NEW u \in Thread, NEW i \in Nat, NEW f \in Frame,
                    IsFrame(u, i, f), f.e = e
             PROVE  ~OnEasy(f)
  BY DEF Quiet, Stays, MovesEasy, OnEasy
<1>1. /\ f.op \notin {"io", "cleanup", "pause", "detach", "mdetach"}
      /\ state[e] = NULL /\ (multi_stack[e] # NULL => mstate[multi_stack[e]] = NULL)
  BY FreeEasy
<1>2. f.op \notin {"add", "undo"}
  BY DEF Adding, IsFrame
<1>3. f.op # "remove"
  <2> SUFFICES ASSUME f.op = "remove" PROVE FALSE
    OBVIOUS
  <2>1. multi_stack[e] = f.m /\ f.m # NULL
    BY NullAssumption, Operands DEF LinkInv, FramesLinked, Linked, Moves
  <2> QED
    BY <1>1, <2>1, FreeSlot DEF InEasy, SlotMulti
<1> QED
  BY <1>1, <1>2, <1>3 DEF OnEasy, Moves

\* What holds of the innermost window.
LEMMA TopLinked ==
    ASSUME TypeOK, LinkInv, NEW t \in Thread, NEW g, IsTop(t, g)
    PROVE  /\ IsFrame(t, Len(stack[t]), g) /\ Len(stack[t]) \in Nat
           /\ g \in Frame /\ Linked(t, g)
<1>1. IsFrame(t, Len(stack[t]), g) /\ Len(stack[t]) \in Nat /\ g \in Frame
  <2>1. stack[t] \in Seq(Frame) /\ stack[t] # <<>> /\ g = Last(stack[t])
    BY DEF TypeOK, IsTop
  <2> QED
    BY <2>1, PopFrame DEF IsFrame
<1> QED
  BY <1>1 DEF LinkInv, FramesLinked

\* The innermost window on an easy is the only one that is about it.
LEMMA TopQuiet ==
    ASSUME TypeOK, SlotInv, LinkInv, NEW t \in Thread, NEW g, IsTop(t, g),
           Moves(g) \/ g.op \in {"io", "cleanup"}
    PROVE  Quiet(t, Len(stack[t]) - 1, {g.e})
<1>1. /\ g \in Frame /\ Sound(t, g) /\ Against(t, g)
      /\ InEasy(g) => state[g.e] = t
      /\ ~InEasy(g) => mstate[SlotMulti(g)] = t
      /\ t # NULL
  BY Innermost DEF Moves
<1>2. Linked(t, g) /\ g.e \in Easy
  BY TopLinked, Operands DEF OnEasy
<1> SUFFICES ASSUME NEW u \in Thread, NEW i \in Nat, NEW f \in Frame,
                    Stays(t, Len(stack[t]) - 1, u, i, f), f.e = g.e, OnEasy(f)
             PROVE  FALSE
  BY DEF Quiet
<1>3. /\ IsFrame(u, i, f) /\ Sound(u, f) /\ ~SameSlot(f, g)
      /\ u = t => Nested(t, f, g)
      /\ u # t => Separate(g, f)
  BY <1>1 DEF Against, OnEasy, Moves
<1>4. /\ Linked(u, f) /\ u # NULL
      /\ InEasy(f) => state[g.e] = u
      /\ ~InEasy(f) => mstate[SlotMulti(f)] = u
  BY <1>3, FreeSlot DEF LinkInv, FramesLinked, OnEasy, Moves
<1>5. /\ Placed(g.e) /\ (Moves(g) => g.m # NULL) /\ (Moves(f) => f.m # NULL)
  BY <1>1, <1>2, Operands, NullAssumption DEF LinkInv
<1>6. CASE g.op \in {"io", "cleanup"}
  BY <1>1, <1>2, <1>3, <1>4, <1>5, <1>6
     DEF InEasy, SlotMulti, SameSlot, Sound, Linked, Placed, OnEasy, Moves
<1>7. CASE g.op \in {"remove", "detach", "mdetach"}
  BY <1>1, <1>2, <1>3, <1>4, <1>5, <1>7
     DEF InEasy, SlotMulti, SameSlot, Sound, Linked, OnEasy, Moves
<1>8. CASE g.op \in {"add", "undo"}
  <2>1. AddsApart(f, g) \/ AddsApart(g, f)
    BY <1>3 DEF Nested, Separate
  <2> QED
    BY <1>1, <1>2, <1>3, <1>4, <1>5, <1>8, <2>1
       DEF InEasy, SlotMulti, SameSlot, Sound, Linked, OnEasy, Moves, AddsApart, Adds
<1> QED
  BY <1>6, <1>7, <1>8 DEF Moves

-----------------------------------------------------------------------------
(* Steps about one easy *)

\* where the easy is afterwards
PlacedNow(e, New) ==
    /\ ~handle'[e] => state'[e] = NULL /\ multi_stack'[e] = NULL
    /\ in_multi'[e] = multi_stack'[e] \/ \E g \in New : Moves(g)
    /\ multi_stack'[e] # NULL =>
         /\ state'[e] # NULL => /\ mstate'[multi_stack'[e]] = NULL
                                /\ \E g \in New : g.op = "io" /\ g.e = e
         /\ multi_handle[multi_stack'[e]] /\ e \in refs'[multi_stack'[e]]
         /\ \/ alive[multi_stack'[e]]
            \/ multi_stack'[e] = multi_stack[e] /\ BeingClosed(multi_stack[e])
    /\ multi_stack'[e] \in Multi \cup {NULL}

\* what changes besides
OneEasy(e) ==
    /\ OnlyEasies({e}) /\ SlotsKept({e}) /\ UNCHANGED <<multi_handle, alive>>
    /\ \A m \in Multi, x \in Easy \ {e} : x \in refs[m] => x \in refs'[m]

\* A step about the easy e keeps the invariant.
LEMMA EasyStep ==
    ASSUME TypeOK, LinkInv, NEW t \in Thread, NEW n \in Nat,
           NEW e \in Easy, NEW New \in SUBSET Frame,
           StackStep(t, n, New), Quiet(t, n, {e}), OneEasy(e),
           Left(t, n, New, {e}), Arrived(t, New, {e}), NoneJoins(t, n, {e}),
           NewApart(t, n, New), PlacedNow(e, New)
    PROVE  LinkInv'
<1>1. /\ {e} \in SUBSET Easy /\ OnlyEasies({e}) /\ SlotsKept({e})
      /\ MultisKept(t, n, {e}) /\ AliveKept(t, n, New)
  BY DEF OneEasy, MultisKept, AliveKept
<1>2. (\E g \in New : Moves(g)) => MovesEasy(e)'
  BY DEF MovesEasy, StackStep, Arrived
<1>3. (\E g \in New : g.op = "io" /\ g.e = e) => InIO(e)'
  BY DEF InIO, StackStep
<1>4. ASSUME multi_stack'[e] # NULL
      PROVE  alive'[multi_stack'[e]] \/ BeingClosed(multi_stack[e])'
  <2> PICK m \in Multi : m = multi_stack'[e]
    BY <1>4 DEF PlacedNow
  <2>1. alive[m] \/ BeingClosed(m)
    BY <1>4 DEF PlacedNow, BeingClosed
  <2>2. alive'[m] \/ BeingClosed(m)'
    BY <1>1, <2>1, StayAlive
  <2> QED
    BY <2>2 DEF BeingClosed
<1>5. Placed(e)'
  BY <1>2, <1>3, <1>4 DEF Placed, PlacedNow, OneEasy
<1> QED
  BY <1>1, <1>5, LinkStep

\* The frame that a return ends, or replaces, is the innermost one.
LEMMA TopLeaves ==
    ASSUME TypeOK, LinkInv, NEW t \in Thread, NEW g, IsTop(t, g),
           NEW i \in Nat, NEW f \in Frame, IsFrame(t, i, f), i > Len(stack[t]) - 1
    PROVE  f = g
<1>1. /\ stack[t] \in Seq(Frame) /\ stack[t] # <<>> /\ g = Last(stack[t])
      /\ i \in DOMAIN stack[t] /\ f = stack[t][i]
  BY DEF TypeOK, IsFrame, IsTop
<1>2. Len(stack[t]) \in Nat /\ DOMAIN stack[t] = 1..Len(stack[t])
  BY <1>1
<1>3. i = Len(stack[t])
  BY <1>1, <1>2
<1>4. Last(stack[t]) = stack[t][Len(stack[t])]
  BY <1>1, PopFrame
<1> QED
  BY <1>1, <1>3, <1>4

\* An easy in a call of its own is not being moved.
LEMMA NotMoving ==
    ASSUME TypeOK, SlotInv, LinkInv, NEW t \in Thread, NEW g, IsTop(t, g),
           g.op \in {"io", "cleanup"}
    PROVE  in_multi[g.e] = multi_stack[g.e]
<1>1. Quiet(t, Len(stack[t]) - 1, {g.e})
  BY TopQuiet
<1>2. g \in Frame /\ g.e \in Easy /\ Len(stack[t]) \in Nat
  BY TopLinked, Operands DEF OnEasy
<1>3. ~MovesEasy(g.e)
  <2> SUFFICES ASSUME NEW u \in Thread, NEW f \in Frame, NEW i \in Nat,
                      IsFrame(u, i, f), Moves(f), f.e = g.e
               PROVE  FALSE
    BY DEF MovesEasy
  <2>1. CASE u = t /\ i > Len(stack[t]) - 1
    BY <2>1, TopLeaves DEF Moves
  <2>2. CASE u # t \/ i <= Len(stack[t]) - 1
    BY <1>1, <1>2, <2>2 DEF Quiet, Stays, OnEasy
  <2> QED
    BY <1>2, <2>1, <2>2
<1> QED
  BY <1>2, <1>3 DEF LinkInv, Placed

\* A window on an easy ends.
LEMMA ReturnStep ==
    ASSUME TypeOK, SlotInv, LinkInv, NEW t \in Thread, NEW g, IsTop(t, g),
           Moves(g) \/ g.op \in {"io", "cleanup"}, g.op # "mdetach",
           Pop(t), OneEasy(g.e), NoneJoins(t, Len(stack[t]) - 1, {g.e}),
           PlacedNow(g.e, {})
    PROVE  LinkInv'
<1> DEFINE n == Len(stack[t]) - 1
<1>1. StackStep(t, n, {}) /\ n \in Nat
  BY PopStep DEF IsTop
<1>2. g \in Frame /\ g.e \in Easy /\ Quiet(t, n, {g.e})
  BY TopLinked, TopQuiet, Operands DEF OnEasy
<1>3. Left(t, n, {}, {g.e})
  BY TopLeaves DEF Left, Moves, Closing
<1>4. Arrived(t, {}, {g.e}) /\ NewApart(t, n, {})
  BY DEF Arrived, NewApart
<1> HIDE DEF n
<1> QED
  BY <1>1, <1>2, <1>3, <1>4, EasyStep DEF n

\* perform(), send() or recv() of an easy ends.
LEMMA IOEndLink ==
    ASSUME TypeOK, SlotInv, LinkInv, NEW t \in Thread, IOEnd(t)
    PROVE  LinkInv'
<1> PICK g : g = Last(stack[t])
  OBVIOUS
<1>1. /\ IsTop(t, g) /\ g.op = "io" /\ Pop(t)
      /\ state' = [state EXCEPT ![g.e] = NULL] /\ UNCHANGED mstate
      /\ UNCHANGED <<handle, multi_handle, alive, multi_stack, refs, in_multi>>
  BY DEF IOEnd, Returning, InFrame, IsTop, SetEasy, life, links
<1>2. /\ g.e \in Easy /\ handle[g.e] /\ Placed(g.e)
      /\ in_multi[g.e] = multi_stack[g.e]
  BY <1>1, TopLinked, Operands, NotMoving DEF LinkInv, Linked, OnEasy
<1>3. OneEasy(g.e) /\ NoneJoins(t, Len(stack[t]) - 1, {g.e})
  BY <1>1 DEF OneEasy, OnlyEasies, SlotsKept, NoneJoins, TypeOK
<1>4. PlacedNow(g.e, {})
  BY <1>1, <1>2 DEF PlacedNow, Placed, TypeOK
<1> QED
  BY <1>1, <1>3, <1>4, ReturnStep

\* curl_easy_cleanup() returns: the easy is on no multi any more.
LEMMA CleanupEndLink ==
    ASSUME TypeOK, SlotInv, LinkInv, NEW t \in Thread, CleanupEnd(t)
    PROVE  LinkInv'
<1> PICK g : g = Last(stack[t])
  OBVIOUS
<1>1. /\ IsTop(t, g) /\ g.op = "cleanup" /\ Pop(t)
      /\ state' = [state EXCEPT ![g.e] = NULL]
      /\ handle' = [handle EXCEPT ![g.e] = FALSE]
      /\ UNCHANGED <<mstate, multi_handle, alive, multi_stack, refs, in_multi>>
  BY DEF CleanupEnd, Returning, InFrame, IsTop, SetEasy, links
<1>2. /\ g.e \in Easy /\ multi_stack[g.e] = NULL
      /\ in_multi[g.e] = multi_stack[g.e]
  BY <1>1, TopLinked, Operands, NotMoving DEF LinkInv, Linked, OnEasy
<1>3. OneEasy(g.e) /\ NoneJoins(t, Len(stack[t]) - 1, {g.e})
  BY <1>1 DEF OneEasy, OnlyEasies, SlotsKept, NoneJoins, TypeOK
<1>4. PlacedNow(g.e, {})
  BY <1>1, <1>2 DEF PlacedNow, TypeOK
<1> QED
  BY <1>1, <1>3, <1>4, ReturnStep DEF Moves

\* add_handle() ends: the multi is open, held, and not being closed.
LEMMA AddEndLink ==
    ASSUME TypeOK, SlotInv, LinkInv, NEW t \in Thread, AddEnd(t)
    PROVE  LinkInv'
<1> PICK g : g = Last(stack[t])
  OBVIOUS
<1>1. /\ IsTop(t, g) /\ g.op = "add" /\ g.ok /\ Pop(t)
      /\ mstate' = [mstate EXCEPT ![g.m] = NULL]
      /\ multi_stack' = [multi_stack EXCEPT ![g.e] = g.m]
      /\ UNCHANGED <<state, handle, multi_handle, alive, refs, in_multi>>
  BY DEF AddEnd, Returning, InFrame, IsTop, SetMulti, life
<1>2. /\ g \in Frame /\ Linked(t, g) /\ Sound(t, g)
      /\ IsFrame(t, Len(stack[t]), g) /\ Len(stack[t]) \in Nat
      /\ g.e \in Easy /\ g.m \in Multi
  BY <1>1, TopLinked, Operands, Innermost DEF OnEasy, Moves
<1>3. /\ state[g.e] = NULL /\ in_multi[g.e] = g.m /\ handle[g.e]
      /\ g.e \in refs[g.m] /\ multi_handle[g.m] /\ alive[g.m]
  BY <1>1, <1>2 DEF Linked, Sound, OnEasy, Moves, InLib
<1>4. NoneJoins(t, Len(stack[t]) - 1, {g.e})
  <2> SUFFICES ASSUME NEW u \in Thread, NEW i \in Nat, NEW f \in Frame,
                      IsFrame(u, i, f), Closing(f)
               PROVE  f.m # g.m
    BY <1>1, <1>2 DEF NoneJoins, Stays, TypeOK
  <2>1. OutOfClosing(u, f, i, t, g, Len(stack[t]))
    BY <1>2 DEF LinkInv, FramesApart
  <2> QED
    BY <1>1, <2>1 DEF OutOfClosing
<1>5. OneEasy(g.e)
  BY <1>1, <1>2 DEF OneEasy, OnlyEasies, SlotsKept, TypeOK
<1>6. PlacedNow(g.e, {})
  BY <1>1, <1>2, <1>3 DEF PlacedNow, TypeOK
<1> QED
  BY <1>1, <1>4, <1>5, <1>6, ReturnStep DEF Moves

\* add_handle() fails, at once or after it has taken the handle out again.
LEMMA AddRefusedLink ==
    ASSUME TypeOK, SlotInv, LinkInv, NEW t \in Thread, AddRefused(t) \/ AddUndoEnd(t)
    PROVE  LinkInv'
<1> PICK g : g = Last(stack[t])
  OBVIOUS
<1>1. /\ IsTop(t, g) /\ g.op \in {"add", "undo"} /\ (g.op = "add" => ~g.ok) /\ Pop(t)
      /\ mstate' = [mstate EXCEPT ![g.m] = NULL]
      /\ refs' = [refs EXCEPT ![g.m] = @ \ {g.e}]
      /\ UNCHANGED <<state, handle, multi_handle, alive, multi_stack, in_multi>>
  BY DEF AddRefused, AddUndoEnd, Returning, InFrame, IsTop, SetMulti, life
<1>2. /\ g \in Frame /\ Linked(t, g) /\ Sound(t, g)
      /\ g.e \in Easy /\ g.m \in Multi
  BY <1>1, TopLinked, Operands, Innermost DEF OnEasy, Moves
<1>3. state[g.e] = NULL /\ in_multi[g.e] = NULL /\ multi_stack[g.e] = NULL
  BY <1>1, <1>2 DEF Linked, Sound, OnEasy, Moves, InLib
<1>4. OneEasy(g.e) /\ NoneJoins(t, Len(stack[t]) - 1, {g.e})
  BY <1>1, <1>2 DEF OneEasy, OnlyEasies, SlotsKept, NoneJoins, TypeOK
<1>5. PlacedNow(g.e, {})
  BY <1>1, <1>2, <1>3 DEF PlacedNow, TypeOK
<1> QED
  BY <1>1, <1>4, <1>5, ReturnStep DEF Moves

\* remove_handle() ends.
LEMMA RemoveEndLink ==
    ASSUME TypeOK, SlotInv, LinkInv, NEW t \in Thread, RemoveEnd(t)
    PROVE  LinkInv'
<1> PICK g : g = Last(stack[t])
  OBVIOUS
<1>1. /\ IsTop(t, g) /\ g.op = "remove" /\ Pop(t)
      /\ mstate' = [mstate EXCEPT ![g.m] = NULL]
      /\ refs' = IF g.ok THEN [refs EXCEPT ![g.m] = @ \ {g.e}] ELSE refs
      /\ multi_stack' = IF g.ok /\ multi_stack[g.e] = g.m
                        THEN [multi_stack EXCEPT ![g.e] = NULL] ELSE multi_stack
      /\ UNCHANGED <<state, handle, multi_handle, alive, in_multi>>
  BY DEF RemoveEnd, Returning, InFrame, IsTop, SetMulti, life
<1>2. /\ g \in Frame /\ Linked(t, g) /\ Placed(g.e)
      /\ g.e \in Easy /\ g.m \in Multi
  BY <1>1, TopLinked, Operands DEF OnEasy, Moves, LinkInv
<1>3. /\ state[g.e] = NULL /\ multi_stack[g.e] = g.m
      /\ in_multi[g.e] = IF g.ok THEN NULL ELSE g.m
      /\ handle[g.e] /\ g.m # NULL
  BY <1>1, <1>2, NullAssumption DEF Linked, OnEasy, Moves, InLib
<1>4. /\ \A x \in Easy \ {g.e} : multi_stack'[x] = multi_stack[x]
      /\ multi_stack'[g.e] = IF g.ok THEN NULL ELSE multi_stack[g.e]
      /\ \A m \in Multi, x \in Easy \ {g.e} : x \in refs[m] => x \in refs'[m]
  BY <1>1, <1>2, <1>3 DEF TypeOK
<1>5. OneEasy(g.e)
  BY <1>1, <1>2, <1>4 DEF OneEasy, OnlyEasies, SlotsKept, TypeOK
<1>6. NoneJoins(t, Len(stack[t]) - 1, {g.e})
  BY <1>4, NullAssumption, Operands DEF NoneJoins
<1>7. PlacedNow(g.e, {})
  BY <1>1, <1>2, <1>3, <1>4 DEF PlacedNow, Placed, TypeOK
<1> QED
  BY <1>1, <1>5, <1>6, <1>7, ReturnStep DEF Moves

-----------------------------------------------------------------------------
(* What the frames of a step have to satisfy, for the three kinds of steps  *)

LEMMA SwapFacts ==
    ASSUME TypeOK, LinkInv, NEW t \in Thread, NEW g, IsTop(t, g),
           NEW h \in Frame, Replace(t, h), NEW E \in SUBSET Easy,
           OnlyEasies(E), Quiet(t, Len(stack[t]) - 1, E), Linked(t, h)',
           g.op # "io", h.op # "io",
           Moves(g) => g.e \in E, Moves(h) => h.e \in E,
           h.op \in {"add", "undo"} => g.op \in {"add", "undo"} /\ h.m = g.m,
           Closing(g) <=> Closing(h), Closing(h) => h.m = g.m
    PROVE  /\ StackStep(t, Len(stack[t]) - 1, {h}) /\ Len(stack[t]) - 1 \in Nat
           /\ {h} \in SUBSET Frame
           /\ Left(t, Len(stack[t]) - 1, {h}, E) /\ Arrived(t, {h}, E)
           /\ NewApart(t, Len(stack[t]) - 1, {h})
<1> DEFINE n == Len(stack[t]) - 1
<1>1. StackStep(t, n, {h}) /\ n \in Nat
  BY ReplaceStep DEF IsTop
<1>2. Left(t, n, {h}, E) /\ Arrived(t, {h}, E)
  BY TopLeaves DEF Left, Arrived
<1>3. IsFrame(t, n + 1, g) /\ g \in Frame
  BY <1>1, TopLinked
<1>4. ASSUME NEW u \in Thread, NEW i \in Nat, NEW f \in Frame, Stays(t, n, u, i, f)
      PROVE  /\ OutOfClosing(u, f, i, t, g, n + 1)
             /\ OutOfClosing(t, g, n + 1, u, f, i)
             /\ f.op = "io" => multi_stack'[f.e] = multi_stack[f.e]
             /\ ~(u = t /\ n + 1 < i)
  <2>1. IsFrame(u, i, f)
    BY <1>4 DEF Stays
  <2>2. f.op = "io" => multi_stack'[f.e] = multi_stack[f.e]
    BY <1>4, Operands DEF Quiet, OnlyEasies, OnEasy
  <2>3. ~(u = t /\ n + 1 < i)
    BY <1>1, <1>4 DEF Stays
  <2>4. OutOfClosing(u, f, i, t, g, n + 1) /\ OutOfClosing(t, g, n + 1, u, f, i)
    BY <1>1, <1>3, <2>1 DEF LinkInv, FramesApart
  <2> QED
    BY <2>2, <2>3, <2>4
<1> HIDE DEF n
<1>5. NewApart(t, n, {h})
  BY <1>4 DEF NewApart, OutOfClosing, Closing
<1> QED
  BY <1>1, <1>2, <1>5 DEF n

\* A window opens.
LEMMA PushFacts ==
    ASSUME TypeOK, LinkInv, NEW t \in Thread, NEW h \in Frame, Push(t, h),
           NEW E \in SUBSET Easy, OnlyEasies(E), Quiet(t, Len(stack[t]), E),
           Linked(t, h)', Moves(h) => h.e \in E,
           \A u \in Thread, i \in Nat, f \in Frame : IsFrame(u, i, f) =>
             /\ Closing(f) /\ h.op = "io" => u = t \/ multi_stack'[h.e] # f.m
             /\ Closing(f) /\ h.op \in {"add", "undo"} => f.m # h.m
             /\ Closing(h) /\ f.op = "io" => multi_stack[f.e] # h.m
             /\ Closing(h) /\ f.op \in {"add", "undo"} => f.m # h.m
    PROVE  /\ StackStep(t, Len(stack[t]), {h}) /\ Len(stack[t]) \in Nat
           /\ {h} \in SUBSET Frame
           /\ Left(t, Len(stack[t]), {h}, E) /\ Arrived(t, {h}, E)
           /\ NewApart(t, Len(stack[t]), {h})
<1>1. StackStep(t, Len(stack[t]), {h}) /\ Len(stack[t]) \in Nat
  BY PushStep
<1>2. Left(t, Len(stack[t]), {h}, E)
  BY DEF Left, IsFrame, TypeOK
<1>3. Arrived(t, {h}, E)
  BY DEF Arrived
<1>4. \A u \in Thread, i \in Nat, f \in Frame :
        Stays(t, Len(stack[t]), u, i, f) =>
          /\ IsFrame(u, i, f)
          /\ f.op = "io" => multi_stack'[f.e] = multi_stack[f.e]
  BY Operands DEF Quiet, OnlyEasies, OnEasy, Stays
<1>5. NewApart(t, Len(stack[t]), {h})
  BY <1>4 DEF NewApart, Closing
<1> QED
  BY <1>1, <1>2, <1>3, <1>5

\* A window ends.
LEMMA PopFacts ==
    ASSUME TypeOK, LinkInv, NEW t \in Thread, NEW g, IsTop(t, g), Pop(t),
           NEW E \in SUBSET Easy, g.op = "io" \/ Moves(g) => g.e \in E,
           Closing(g) => alive'[g.m] \/ \A e \in Easy : multi_stack'[e] # g.m
    PROVE  /\ StackStep(t, Len(stack[t]) - 1, {}) /\ Len(stack[t]) - 1 \in Nat
           /\ Left(t, Len(stack[t]) - 1, {}, E) /\ Arrived(t, {}, E)
           /\ NewApart(t, Len(stack[t]) - 1, {})
<1>1. StackStep(t, Len(stack[t]) - 1, {}) /\ Len(stack[t]) - 1 \in Nat
  BY PopStep DEF IsTop
<1>2. Left(t, Len(stack[t]) - 1, {}, E)
  BY TopLeaves DEF Left
<1>3. Arrived(t, {}, E) /\ NewApart(t, Len(stack[t]) - 1, {})
  BY DEF Arrived, NewApart
<1> QED
  BY <1>1, <1>2, <1>3

\* Nothing else is moving the easy of the innermost window, nor one of a quiet step.
LEMMA QuietNotMoving ==
    ASSUME TypeOK, LinkInv, NEW t \in Thread, NEW g, IsTop(t, g), NEW e \in Easy,
           Quiet(t, Len(stack[t]) - 1, {e}), ~Moves(g) \/ g.e # e
    PROVE  ~MovesEasy(e)
<1> SUFFICES ASSUME NEW u \in Thread, NEW f \in Frame, NEW i \in Nat,
                    IsFrame(u, i, f), Moves(f), f.e = e
             PROVE  FALSE
  BY DEF MovesEasy
<1>1. Len(stack[t]) \in Nat
  BY DEF TypeOK
<1>2. CASE u = t /\ i > Len(stack[t]) - 1
  BY <1>2, TopLeaves
<1>3. CASE u # t \/ i <= Len(stack[t]) - 1
  BY <1>3 DEF Quiet, Stays, OnEasy
<1> QED
  BY <1>1, <1>2, <1>3

\* close() of an easy has taken it out of its multi: curl_easy_cleanup() is next.
LEMMA DetachEndLink ==
    ASSUME TypeOK, SlotInv, LinkInv, NEW t \in Thread, DetachEnd(t)
    PROVE  LinkInv'
<1> PICK g : g = Last(stack[t])
  OBVIOUS
<1>1. /\ g \in Frame /\ g.op = "detach" /\ IsTop(t, g)
      /\ Linked(t, g) /\ Sound(t, g) /\ g.e \in Easy /\ g.m \in Multi \cup {NULL}
  <2>1. g.op = "detach" /\ IsTop(t, g)
    BY DEF DetachEnd, Returning, InFrame, IsTop
  <2> QED
    BY <2>1, TopLinked, Innermost, Operands DEF OnEasy, Moves
<1>2. PICK h \in Frame : h = Window("cleanup", g.e, NULL, TRUE, {})
  BY <1>1, WindowType, NullAssumption DEF EasyOps, MultiOps
<1>3. h.op = "cleanup" /\ h.e = g.e
  BY <1>2 DEF Window
<1>4. /\ state' = [state EXCEPT ![g.e] = t]
      /\ \A m \in Multi : mstate'[m] = mstate[m] \/ mstate'[m] = NULL
      /\ refs' = [refs EXCEPT ![g.m] = @ \ {g.e}]
      /\ multi_stack' = [multi_stack EXCEPT ![g.e] = NULL]
      /\ in_multi' = [in_multi EXCEPT ![g.e] = NULL]
      /\ Replace(t, h)
      /\ UNCHANGED <<handle, multi_handle, alive>>
  BY <1>2 DEF DetachEnd, ToCleanup, life, TypeOK
<1>5. handle[g.e]
  BY <1>1 DEF Linked, OnEasy, Moves
<1>6. OneEasy(g.e)
  BY <1>1, <1>4 DEF OneEasy, OnlyEasies, SlotsKept, TypeOK
<1>7. PlacedNow(g.e, {h})
  BY <1>1, <1>4, <1>5 DEF PlacedNow, TypeOK
<1>8. Linked(t, h)'
  BY <1>1, <1>3, <1>4, <1>5 DEF Linked, OnEasy, Moves, Closing, TypeOK
<1>9. Quiet(t, Len(stack[t]) - 1, {g.e})
  BY <1>1, TopQuiet DEF Moves
<1>10. NoneJoins(t, Len(stack[t]) - 1, {g.e})
  BY <1>1, <1>4, NullAssumption, Operands DEF NoneJoins, TypeOK
<1>11. /\ StackStep(t, Len(stack[t]) - 1, {h}) /\ Len(stack[t]) - 1 \in Nat
       /\ {h} \in SUBSET Frame
       /\ Left(t, Len(stack[t]) - 1, {h}, {g.e}) /\ Arrived(t, {h}, {g.e})
       /\ NewApart(t, Len(stack[t]) - 1, {h})
  <2>1. OnlyEasies({g.e})
    BY <1>6 DEF OneEasy
  <2> QED
    BY <1>1, <1>3, <1>4, <1>8, <1>9, <2>1, SwapFacts DEF Moves, Closing
<1> QED
  BY <1>1, <1>6, <1>7, <1>9, <1>10, <1>11, EasyStep

\* add_handle() could not take its reference: a second window undoes the first.
LEMMA AddUndoLink ==
    ASSUME TypeOK, SlotInv, LinkInv, NEW t \in Thread, AddUndo(t)
    PROVE  LinkInv'
<1> PICK g : g = Last(stack[t])
  OBVIOUS
<1>1. /\ g \in Frame /\ g.op = "add" /\ IsTop(t, g)
      /\ Linked(t, g) /\ Sound(t, g) /\ g.e \in Easy /\ g.m \in Multi
      /\ mstate[g.m] = t
  <2>1. g.op = "add" /\ IsTop(t, g)
    BY DEF AddUndo, Returning, InFrame, IsTop
  <2> QED
    BY <2>1, TopLinked, Innermost, Operands DEF OnEasy, Moves, InEasy, SlotMulti
<1>2. PICK h \in Frame : h = Window("undo", g.e, g.m, FALSE, {})
  BY <1>1, WindowType, NullAssumption DEF EasyOps, MultiOps
<1>3. h.op = "undo" /\ h.e = g.e /\ h.m = g.m
  BY <1>2 DEF Window
<1>4. /\ mstate' = [mstate EXCEPT ![g.m] = t]
      /\ in_multi' = [in_multi EXCEPT ![g.e] = NULL]
      /\ Replace(t, h)
      /\ UNCHANGED <<state, handle, multi_handle, alive, multi_stack, refs>>
  BY <1>2 DEF AddUndo, SetMulti, life
<1>5. /\ handle[g.e] /\ g.e \in refs[g.m] /\ multi_handle[g.m]
      /\ multi_stack[g.e] = NULL
  BY <1>1 DEF Linked, OnEasy, Moves, Sound
<1>6. OneEasy(g.e)
  BY <1>1, <1>4 DEF OneEasy, OnlyEasies, SlotsKept, TypeOK
<1>7. PlacedNow(g.e, {h})
  BY <1>1, <1>4, <1>5 DEF PlacedNow, TypeOK
<1>8. Linked(t, h)'
  BY <1>1, <1>3, <1>4, <1>5 DEF Linked, OnEasy, Moves, Closing, InLib, TypeOK
<1>9. Quiet(t, Len(stack[t]) - 1, {g.e})
  BY <1>1, TopQuiet DEF Moves
<1>10. NoneJoins(t, Len(stack[t]) - 1, {g.e})
  BY <1>4 DEF NoneJoins
<1>11. /\ StackStep(t, Len(stack[t]) - 1, {h}) /\ Len(stack[t]) - 1 \in Nat
       /\ {h} \in SUBSET Frame
       /\ Left(t, Len(stack[t]) - 1, {h}, {g.e}) /\ Arrived(t, {h}, {g.e})
       /\ NewApart(t, Len(stack[t]) - 1, {h})
  <2>1. OnlyEasies({g.e})
    BY <1>6 DEF OneEasy
  <2> QED
    BY <1>1, <1>3, <1>4, <1>8, <1>9, <2>1, SwapFacts DEF Moves, Closing
<1> QED
  BY <1>1, <1>6, <1>7, <1>9, <1>10, <1>11, EasyStep

\* close() of a multi has taken one of its easies out.
LEMMA LoopDetachEndLink ==
    ASSUME TypeOK, SlotInv, LinkInv, NEW t \in Thread, LoopDetachEnd(t)
    PROVE  LinkInv'
<1> PICK g : g = Last(stack[t])
  OBVIOUS
<1>1. /\ g \in Frame /\ g.op = "mdetach" /\ IsTop(t, g)
      /\ Linked(t, g) /\ Sound(t, g) /\ g.e \in Easy /\ g.m \in Multi
  <2>1. g.op = "mdetach" /\ IsTop(t, g)
    BY DEF LoopDetachEnd, Returning, InFrame, IsTop
  <2> QED
    BY <2>1, TopLinked, Innermost, Operands DEF OnEasy, Moves
<1>2. PICK h \in Frame :
        h = [g EXCEPT !.op = "mloop", !.e = IF g.ok THEN g.e ELSE NULL]
  <2> PICK x \in Easy \cup {NULL} : x = IF g.ok THEN g.e ELSE NULL
    BY <1>1
  <2>1. [g EXCEPT !.op = "mloop", !.e = x] \in Frame
    BY <1>1, NullAssumption DEF Frame, MultiOps, EasyOps
  <2> QED
    BY <2>1
<1>3. /\ h.op = "mloop" /\ h.m = g.m /\ h.todo = g.todo /\ h.ok = g.ok
      /\ h.e # NULL => g.ok
  BY <1>1, <1>2 DEF Frame
<1>4. /\ mstate' = [mstate EXCEPT ![g.m] = NULL]
      /\ multi_stack' = [multi_stack EXCEPT ![g.e] = NULL]
      /\ Replace(t, h)
      /\ UNCHANGED <<state, handle, multi_handle, alive, refs, in_multi>>
  BY <1>1, <1>2 DEF LoopDetachEnd, SetMulti, life, Sound
<1>5. /\ handle[g.e] /\ state[g.e] = NULL /\ in_multi[g.e] = NULL
      /\ g.ok => alive[g.m]
      /\ \A e \in Easy : multi_stack[e] = g.m => e \in g.todo \/ e = g.e
  BY <1>1 DEF Linked, OnEasy, Moves, InLib, Closing
<1>6. OneEasy(g.e)
  BY <1>1, <1>4 DEF OneEasy, OnlyEasies, SlotsKept, TypeOK
<1>7. PlacedNow(g.e, {h})
  BY <1>1, <1>4, <1>5 DEF PlacedNow, TypeOK
<1>8. Linked(t, h)'
  BY <1>1, <1>3, <1>4, <1>5, NullAssumption DEF Linked, OnEasy, Moves, Closing, TypeOK
<1>9. Quiet(t, Len(stack[t]) - 1, {g.e})
  BY <1>1, TopQuiet DEF Moves
<1>10. NoneJoins(t, Len(stack[t]) - 1, {g.e})
  BY <1>1, <1>4, NullAssumption, Operands DEF NoneJoins, TypeOK
<1>11. /\ StackStep(t, Len(stack[t]) - 1, {h}) /\ Len(stack[t]) - 1 \in Nat
       /\ {h} \in SUBSET Frame
       /\ Left(t, Len(stack[t]) - 1, {h}, {g.e}) /\ Arrived(t, {h}, {g.e})
       /\ NewApart(t, Len(stack[t]) - 1, {h})
  <2>1. OnlyEasies({g.e})
    BY <1>6 DEF OneEasy
  <2> QED
    BY <1>1, <1>3, <1>4, <1>8, <1>9, <2>1, SwapFacts DEF Moves, Closing
<1> QED
  BY <1>1, <1>6, <1>7, <1>9, <1>10, <1>11, EasyStep

-----------------------------------------------------------------------------
(* close() of a multi, one easy after the other *)

\* While a multi closes nobody else is inside libcurl for one of its easies,
\* adds one to it, or closes it.
LEMMA LoopFree ==
    ASSUME TypeOK, SlotInv, LinkInv, NEW t \in Thread, NEW g, IsTop(t, g), Closing(g)
    PROVE  /\ \A e \in Easy : multi_stack[e] = g.m => state[e] = NULL
           /\ \A u \in Thread, i \in Nat, f \in Frame :
                Stays(t, Len(stack[t]) - 1, u, i, f) /\ f.op \in {"add", "undo", "mcleanup"}
                  => f.m # g.m
<1>1. IsFrame(t, Len(stack[t]), g) /\ g \in Frame /\ Len(stack[t]) \in Nat /\ g.m \in Multi
  BY TopLinked, Operands
<1>2. ASSUME NEW e \in Easy, multi_stack[e] = g.m, state[e] # NULL
      PROVE  FALSE
  <2>1. InIO(e)
    BY <1>1, <1>2, NullAssumption DEF LinkInv, Placed
  <2> PICK u \in Thread, f \in Frame, j \in Nat : IsFrame(u, j, f) /\ f.op = "io" /\ f.e = e
    BY <2>1 DEF InIO
  <2>2. t = u /\ Len(stack[t]) < j
    BY <1>1, <1>2 DEF LinkInv, FramesApart, OutOfClosing
  <2>3. DOMAIN stack[t] = 1..Len(stack[t])
    BY DEF TypeOK
  <2> QED
    BY <1>1, <2>2, <2>3 DEF IsFrame
<1>3. ASSUME NEW u \in Thread, NEW i \in Nat, NEW f \in Frame,
             Stays(t, Len(stack[t]) - 1, u, i, f), f.op \in {"add", "undo", "mcleanup"}
      PROVE  f.m # g.m
  <2>1. CASE f.op \in {"add", "undo"}
    BY <1>1, <1>3, <2>1 DEF LinkInv, FramesApart, OutOfClosing, Stays
  <2>2. CASE f.op = "mcleanup"
    BY <1>3, <2>2, TopAlone DEF IsTop, Closing, SameSlot, InEasy, SlotMulti
  <2> QED
    BY <1>3, <2>1, <2>2
<1> QED
  BY <1>2, <1>3

\* No window is open on an easy of the multi that is about to take it out.
LEMMA LoopQuiet ==
    ASSUME TypeOK, SlotInv, LinkInv, NEW t \in Thread, NEW g, IsTop(t, g), g.op = "mloop",
           NEW e \in Easy, multi_stack[e] = g.m
    PROVE  Quiet(t, Len(stack[t]) - 1, {e})
<1>1. state[e] = NULL /\ g \in Frame /\ g.m \in Multi
  BY LoopFree, TopLinked, Operands DEF Closing
<1> SUFFICES ASSUME NEW u \in Thread, NEW i \in Nat, NEW f \in Frame,
                    Stays(t, Len(stack[t]) - 1, u, i, f), f.e = e, OnEasy(f)
             PROVE  FALSE
  BY DEF Quiet
<1>2. IsFrame(u, i, f) /\ Sound(u, f) /\ Linked(u, f)
  BY DEF Stays, SlotInv, LinkInv, FramesLinked
<1>3. f.op # "mloop" /\ ~SameSlot(f, g)
  BY TopAlone DEF OnEasy, Moves, IsTop
<1>4. InEasy(f) => state[e] = u /\ u # NULL
  BY <1>2, <1>3, FreeSlot
<1> QED
  BY <1>1, <1>2, <1>3, <1>4, NullAssumption
     DEF SameSlot, InEasy, SlotMulti, Sound, Linked, OnEasy, Moves

\* A step of the loop that changes no easy.
LEMMA LoopIdle ==
    ASSUME TypeOK, SlotInv, LinkInv, NEW t \in Thread, NEW g, IsTop(t, g), g.op = "mloop",
           NEW h \in Frame, Replace(t, h), h.op = "mloop", h.m = g.m, h.ok = g.ok,
           h.e # NULL => h.e = g.e,
           \A e \in g.todo : e \in h.todo \/ multi_stack[e] # g.m,
           UNCHANGED <<handle, state, mstate, multi_handle, alive, links>>
    PROVE  LinkInv'
<1> DEFINE n == Len(stack[t]) - 1
<1>1. g \in Frame /\ Linked(t, g) /\ g.m \in Multi
  BY TopLinked, Operands DEF Closing
<1>2. /\ OnlyEasies({}) /\ Quiet(t, n, {}) /\ MultisKept(t, n, {}) /\ AliveKept(t, n, {h})
      /\ SlotsKept({}) /\ NoneJoins(t, n, {})
  BY DEF OnlyEasies, Quiet, MultisKept, AliveKept, SlotsKept, NoneJoins, links
<1>3. Linked(t, h)'
  BY <1>1 DEF Linked, OnEasy, Moves, Closing, links
<1>4. /\ StackStep(t, n, {h}) /\ n \in Nat /\ {h} \in SUBSET Frame
      /\ Left(t, n, {h}, {}) /\ Arrived(t, {h}, {}) /\ NewApart(t, n, {h})
  BY <1>1, <1>2, <1>3, SwapFacts DEF Moves, Closing
<1> QED
  BY <1>2, <1>4, LinkStep

\* close() goes past an easy that left, or that somebody else closed.
LEMMA LoopSkipLink ==
    ASSUME TypeOK, SlotInv, LinkInv, NEW t \in Thread, LoopSkip(t) \/ LoopCloseNoop(t)
    PROVE  LinkInv'
<1> PICK g : g = Last(stack[t])
  OBVIOUS
<1>1. IsTop(t, g) /\ g.op = "mloop" /\ g \in Frame
  <2>1. IsTop(t, g) /\ g.op = "mloop"
    BY DEF LoopSkip, LoopCloseNoop, Looping, InFrame, IsTop
  <2> QED
    BY <2>1, TopLinked
<1>2. CASE LoopSkip(t)
  <2> PICK e \in Easy : e \in g.todo /\ multi_stack[e] # g.m
                          /\ Replace(t, [g EXCEPT !.todo = @ \ {e}])
    BY <1>1, <1>2, Operands DEF LoopSkip
  <2> PICK h \in Frame : h = [g EXCEPT !.todo = @ \ {e}]
    BY <1>1 DEF Frame, MultiOps, EasyOps
  <2>1. /\ h.op = "mloop" /\ h.m = g.m /\ h.ok = g.ok /\ h.e = g.e
        /\ h.todo = g.todo \ {e}
    BY <1>1 DEF Frame
  <2>2. Replace(t, h) /\ UNCHANGED <<handle, state, mstate, multi_handle, alive, links>>
    BY <1>2 DEF LoopSkip, slots, life
  <2> QED
    BY <1>1, <2>1, <2>2, LoopIdle
<1>3. CASE LoopCloseNoop(t)
  <2> PICK h \in Frame : h = [g EXCEPT !.e = NULL]
    <3>1. [g EXCEPT !.e = NULL] \in Frame
      BY <1>1 DEF Frame, MultiOps, EasyOps
    <3> QED
      BY <3>1
  <2>1. h.op = "mloop" /\ h.m = g.m /\ h.ok = g.ok /\ h.e = NULL /\ h.todo = g.todo
    BY <1>1 DEF Frame
  <2>2. Replace(t, h) /\ UNCHANGED <<handle, state, mstate, multi_handle, alive, links>>
    BY <1>3 DEF LoopCloseNoop, slots, life
  <2> QED
    BY <1>1, <2>1, <2>2, LoopIdle
<1> QED
  BY <1>2, <1>3

\* close() of a multi starts to take one of its easies out.
LEMMA LoopDetachLink ==
    ASSUME TypeOK, SlotInv, LinkInv, NEW t \in Thread, LoopDetach(t)
    PROVE  LinkInv'
<1> PICK g : g = Last(stack[t])
  OBVIOUS
<1>1. /\ IsTop(t, g) /\ g.op = "mloop" /\ g \in Frame /\ Linked(t, g) /\ g.m \in Multi
      /\ g.ok \in BOOLEAN /\ g.todo \in SUBSET Easy
  <2>1. IsTop(t, g) /\ g.op = "mloop"
    BY DEF LoopDetach, Looping, InFrame, IsTop
  <2> QED
    BY <2>1, TopLinked, Operands DEF Closing
<1> PICK e \in Easy : /\ e \in g.todo /\ multi_stack[e] = g.m /\ handle[e]
                      /\ in_multi' = [in_multi EXCEPT ![e] = NULL]
                      /\ Replace(t, Window("mdetach", e, g.m, g.ok, g.todo \ {e}))
  BY <1>1 DEF LoopDetach
<1>2. PICK h \in Frame : h = Window("mdetach", e, g.m, g.ok, g.todo \ {e})
  BY <1>1, WindowType, NullAssumption DEF EasyOps, MultiOps
<1>3. /\ h.op = "mdetach" /\ h.e = e /\ h.m = g.m /\ h.ok = g.ok
      /\ h.todo = g.todo \ {e}
  BY <1>2 DEF Window
<1>4. /\ mstate' = [mstate EXCEPT ![g.m] = t] /\ Replace(t, h)
      /\ UNCHANGED <<state, handle, multi_handle, alive, multi_stack, refs>>
  BY <1>2 DEF LoopDetach, SetMulti, life
<1>5. /\ \A x \in Easy : multi_stack[x] = g.m => state[x] = NULL
      /\ Quiet(t, Len(stack[t]) - 1, {e}) /\ Placed(e)
  BY <1>1, LoopFree, LoopQuiet DEF Closing, LinkInv
<1>6. OneEasy(e)
  BY <1>1, <1>4, <1>5 DEF OneEasy, OnlyEasies, SlotsKept, TypeOK
<1>7. PlacedNow(e, {h})
  BY <1>1, <1>3, <1>4, <1>5 DEF PlacedNow, Placed, Moves, TypeOK
<1>8. Linked(t, h)'
  BY <1>1, <1>3, <1>4, <1>5 DEF Linked, OnEasy, Moves, InLib, Closing, TypeOK
<1>9. NoneJoins(t, Len(stack[t]) - 1, {e})
  BY <1>4 DEF NoneJoins
<1>10. /\ StackStep(t, Len(stack[t]) - 1, {h}) /\ Len(stack[t]) - 1 \in Nat
       /\ {h} \in SUBSET Frame
       /\ Left(t, Len(stack[t]) - 1, {h}, {e}) /\ Arrived(t, {h}, {e})
       /\ NewApart(t, Len(stack[t]) - 1, {h})
  <2>1. OnlyEasies({e})
    BY <1>6 DEF OneEasy
  <2> QED
    BY <1>1, <1>3, <1>4, <1>5, <1>8, <2>1, SwapFacts DEF Moves, Closing
<1> QED
  BY <1>5, <1>6, <1>7, <1>9, <1>10, EasyStep

\* An easy on an open multi is open itself, and so is its multi: the case in
\* which close() only forgets the multi does not arise.
LEMMA NeverUnlinks ==
    ASSUME TypeOK, LinkInv, NEW t \in Thread, LoopUnlink(t)
    PROVE  FALSE
<1> PICK g : g = Last(stack[t])
  OBVIOUS
<1>1. IsTop(t, g) /\ g.op = "mloop" /\ g \in Frame /\ g.m \in Multi /\ g.todo \in SUBSET Easy
  <2>1. IsTop(t, g) /\ g.op = "mloop"
    BY DEF LoopUnlink, Looping, InFrame, IsTop
  <2> QED
    BY <2>1, TopLinked, Operands DEF Closing
<1>2. PICK e \in Easy : multi_stack[e] = g.m /\ ~(multi_handle[g.m] /\ handle[e])
  BY <1>1 DEF LoopUnlink
<1>3. Placed(e)
  BY DEF LinkInv
<1> QED
  BY <1>1, <1>2, <1>3, NullAssumption DEF Placed, TypeOK

\* close() of a multi ends with the exception of one of its easies; the program
\* still has it.
LEMMA LoopAbortLink ==
    ASSUME TypeOK, SlotInv, LinkInv, NEW t \in Thread, LoopAbort(t)
    PROVE  LinkInv'
<1> PICK g : g = Last(stack[t])
  OBVIOUS
<1> DEFINE n == Len(stack[t]) - 1
<1>1. /\ IsTop(t, g) /\ g.op = "mloop" /\ g.ok /\ Pop(t)
      /\ UNCHANGED <<handle, state, mstate, multi_handle, alive, links>>
  BY DEF LoopAbort, Looping, InFrame, IsTop, slots, life
<1>2. alive'[g.m]
  BY <1>1, TopLinked DEF Linked
<1>3. /\ OnlyEasies({}) /\ Quiet(t, n, {}) /\ MultisKept(t, n, {}) /\ AliveKept(t, n, {})
      /\ SlotsKept({}) /\ NoneJoins(t, n, {})
  BY <1>1 DEF OnlyEasies, Quiet, MultisKept, AliveKept, SlotsKept, NoneJoins, links
<1>4. /\ StackStep(t, n, {}) /\ n \in Nat
      /\ Left(t, n, {}, {}) /\ Arrived(t, {}, {}) /\ NewApart(t, n, {})
  BY <1>1, <1>2, PopFacts DEF Moves
<1> QED
  BY <1>3, <1>4, LinkStep

\* close() of a multi closes an easy: two frames in the place of one.
LEMMA SwapPushStep ==
    ASSUME TypeOK, NEW t \in Thread, stack[t] # <<>>, NEW h \in Frame, NEW k \in Frame,
           stack' = [stack EXCEPT ![t] = Append(Append(Front(@), h), k)]
    PROVE  StackStep(t, Len(stack[t]) - 1, {h, k}) /\ Len(stack[t]) - 1 \in Nat
<1> DEFINE r == Append(Front(stack[t]), h)
           s == Append(r, k)
<1>0. /\ Len(stack[t]) \in Nat /\ Len(stack[t]) - 1 \in Nat
      /\ stack[t] \in Seq(Frame) /\ DOMAIN stack[t] = 1..Len(stack[t])
  BY PopFrame DEF TypeOK
<1> PICK n : n = Len(stack[t]) - 1
  OBVIOUS
<1>1. /\ stack[t] \in Seq(Frame) /\ n \in Nat
      /\ DOMAIN stack[t] = 1..(n + 1) /\ n + 1 = Len(stack[t])
  BY <1>0
<1>2. stack'[t] = s /\ \A u \in Thread \ {t} : stack'[u] = stack[u]
  BY DEF TypeOK
<1>3. /\ r \in Seq(Frame) /\ Len(r) = n + 1 /\ DOMAIN r = DOMAIN stack[t]
      /\ \A i \in DOMAIN stack[t] \ {n + 1} : r[i] = stack[t][i]
      /\ r[n + 1] = h
  BY <1>1, ReplaceFrame
<1> HIDE DEF r
<1>4. /\ DOMAIN s = DOMAIN r \cup {n + 2}
      /\ \A i \in DOMAIN r : s[i] = r[i]
      /\ s[n + 2] = k
  <2>1. Len(r) + 1 = n + 2
    BY <1>1, <1>3
  <2> QED
    BY <1>3, <2>1, PushFrame
<1> HIDE DEF s
<1>5. /\ \A i \in Nat : i \in DOMAIN s <=> (i \in DOMAIN stack[t] \/ i = n + 2)
      /\ s[n + 1] = h /\ s[n + 2] = k
      /\ \A i \in DOMAIN stack[t] : i # n + 1 => s[i] = stack[t][i]
  <2>1. n + 1 \in DOMAIN r
    BY <1>1, <1>3
  <2> QED
    BY <1>3, <1>4, <2>1
<1>6. ASSUME NEW u \in Thread, NEW i \in Nat, NEW f \in Frame
      PROVE  /\ IsFrame(u, i, f)' =>
                  Stays(t, n, u, i, f) \/ (u = t /\ i > n /\ f \in {h, k})
             /\ Stays(t, n, u, i, f) => IsFrame(u, i, f)'
  <2>1. CASE u # t
    BY <1>2, <2>1 DEF Stays, IsFrame
  <2>2. CASE u = t
    <3>1. IsFrame(u, i, f)' <=> i \in DOMAIN s /\ f = s[i]
      BY <1>2, <2>2 DEF IsFrame
    <3>2. i \in DOMAIN stack[t] <=> 1 <= i /\ i <= n + 1
      BY <1>1
    <3> QED
      BY <1>1, <1>5, <2>2, <3>1, <3>2 DEF Stays, IsFrame
  <2> QED
    BY <2>1, <2>2
<1>7. IsFrame(t, n + 1, h)' /\ IsFrame(t, n + 2, k)'
  BY <1>1, <1>2, <1>5 DEF IsFrame
<1>8. StackStep(t, n, {h, k})
  BY <1>1, <1>6, <1>7 DEF StackStep
<1> QED
  BY <1>1, <1>8

\* The easy is in no call, nor about to be added again: nothing else depends on it.
LEMMA LoopCloseLink ==
    ASSUME TypeOK, SlotInv, LinkInv, NEW t \in Thread, LoopClose(t)
    PROVE  LinkInv'
<1> PICK g : g = Last(stack[t])
  OBVIOUS
<1> DEFINE n == Len(stack[t]) - 1
<1>1. /\ IsTop(t, g) /\ g.op = "mloop" /\ g \in Frame /\ Linked(t, g) /\ g.m \in Multi
      /\ g.e \in Easy /\ Against(t, g) /\ stack[t] # <<>>
  <2>1. IsTop(t, g) /\ g.op = "mloop" /\ g.e # NULL
    BY DEF LoopClose, Looping, InFrame, IsTop
  <2> QED
    BY <2>1, TopLinked, Innermost, Operands DEF Closing, IsTop
<1>2. PICK h \in Frame : h = [g EXCEPT !.e = NULL]
  <2>1. [g EXCEPT !.e = NULL] \in Frame
    BY <1>1 DEF Frame, MultiOps, EasyOps
  <2> QED
    BY <2>1
<1>3. PICK k \in Frame : k = Window("cleanup", g.e, NULL, TRUE, {})
  BY <1>1, WindowType, NullAssumption DEF EasyOps, MultiOps
<1>4. /\ h.op = "mloop" /\ h.m = g.m /\ h.ok = g.ok /\ h.e = NULL /\ h.todo = g.todo
      /\ k.op = "cleanup" /\ k.e = g.e
  BY <1>1, <1>2, <1>3 DEF Frame, Window
<1>5. /\ ThreadState(g.e) = NULL /\ handle[g.e]
      /\ state' = [state EXCEPT ![g.e] = t]
      /\ multi_stack' = [multi_stack EXCEPT ![g.e] = NULL]
      /\ in_multi' = [in_multi EXCEPT ![g.e] = NULL]
      /\ stack' = [stack EXCEPT ![t] = Append(Append(Front(@), h), k)]
      /\ UNCHANGED <<handle, mstate, multi_handle, alive, refs>>
  BY <1>2, <1>3 DEF LoopClose, SetEasy, ToCleanup, life
<1>6. StackStep(t, n, {h, k}) /\ n \in Nat /\ {h, k} \in SUBSET Frame
  BY <1>1, <1>5, SwapPushStep
<1>7. ~Adding(g.e)
  <2> SUFFICES ASSUME NEW u \in Thread, NEW f \in Frame, NEW i \in Nat,
                      IsFrame(u, i, f), Adds(f, g.e)
               PROVE  FALSE
    BY DEF Adding, IsFrame, Adds, TypeOK
  <2>1. CASE u = t /\ i > n
    BY <1>1, <2>1, TopLeaves DEF Adds
  <2>2. CASE Stays(t, n, u, i, f)
    <3>1. Nested(t, f, g) \/ Separate(f, g)
      BY <1>1, <2>2 DEF Against
    <3> QED
      BY <1>1, <3>1 DEF Nested, Separate, AddsApart, Adds
  <2> QED
    BY <1>6, <2>1, <2>2 DEF Stays
<1>8. Quiet(t, n, {g.e})
  BY <1>1, <1>5, <1>6, <1>7, FreeQuiet
<1>9. OneEasy(g.e)
  BY <1>1, <1>5 DEF OneEasy, OnlyEasies, SlotsKept, TypeOK
<1>10. PlacedNow(g.e, {h, k})
  BY <1>1, <1>5 DEF PlacedNow, TypeOK
<1>11. Linked(t, h)' /\ Linked(t, k)'
  BY <1>1, <1>4, <1>5, NullAssumption DEF Linked, OnEasy, Moves, Closing, TypeOK
<1>12. NoneJoins(t, n, {g.e})
  BY <1>1, <1>5, NullAssumption, Operands DEF NoneJoins, TypeOK
<1>13. Left(t, n, {h, k}, {g.e}) /\ Arrived(t, {h, k}, {g.e})
  BY <1>1, <1>4, <1>11, TopLeaves DEF Left, Arrived, Moves, Closing
<1>14. NewApart(t, n, {h, k})
  <2> SUFFICES ASSUME NEW u \in Thread, NEW i \in Nat, NEW f \in Frame,
                      Stays(t, n, u, i, f)
               PROVE  /\ f.op = "io" => multi_stack'[f.e] # g.m
                      /\ f.op \in {"add", "undo"} => f.m # g.m
    BY <1>4 DEF NewApart, Closing
  <2>1. OutOfClosing(t, g, n + 1, u, f, i) /\ ~(u = t /\ n + 1 < i)
    <3>1. IsFrame(t, n + 1, g) /\ IsFrame(u, i, f)
      BY <1>1, <1>6, TopLinked DEF Stays
    <3> QED
      BY <1>1, <1>6, <3>1 DEF LinkInv, FramesApart, Stays
  <2>2. f.op = "io" => multi_stack'[f.e] = multi_stack[f.e]
    BY <1>8, <1>9, Operands DEF Quiet, OneEasy, OnlyEasies, OnEasy
  <2> QED
    BY <1>1, <2>1, <2>2 DEF OutOfClosing, Closing
<1> HIDE DEF n
<1> QED
  BY <1>1, <1>6, <1>8, <1>9, <1>10, <1>12, <1>13, <1>14, EasyStep

\* A multi that closes, once it has no easy left: pycurl and libcurl agree, and
\* nothing needs its handle or its references any more.
LEMMA LoopVacant ==
    ASSUME TypeOK, SlotInv, LinkInv, NEW t \in Thread, NEW g, IsTop(t, g),
           g.op = "mcleanup" \/ (g.op = "mloop" /\ g.todo = {}),
           UNCHANGED multi_stack
    PROVE  /\ \A e \in Easy : multi_stack[e] # g.m /\ in_multi[e] # g.m
           /\ Vacant(t, Len(stack[t]) - 1, g.m)
<1>1. /\ IsFrame(t, Len(stack[t]), g) /\ g \in Frame /\ Len(stack[t]) \in Nat
      /\ g.m \in Multi /\ Linked(t, g) /\ Closing(g)
  BY TopLinked, Operands DEF Closing
<1>2. \A e \in Easy : multi_stack[e] # g.m
  BY <1>1 DEF Linked
<1>3. ASSUME NEW e \in Easy, in_multi[e] = g.m
      PROVE  FALSE
  <2>1. MovesEasy(e)
    BY <1>2, <1>3 DEF LinkInv, Placed
  <2> PICK u \in Thread, f \in Frame, i \in Nat : IsFrame(u, i, f) /\ Moves(f) /\ f.e = e
    BY <2>1 DEF MovesEasy
  <2>2. /\ Linked(u, f) /\ OutOfClosing(t, g, Len(stack[t]), u, f, i)
    BY <1>1 DEF LinkInv, FramesLinked, FramesApart
  <2>3. g.m # NULL
    BY <1>1, NullAssumption
  <2> QED
    BY <1>1, <1>2, <1>3, <2>2, <2>3 DEF Linked, OutOfClosing, InLib, Moves
<1>4. Vacant(t, Len(stack[t]) - 1, g.m)
  BY <1>1, <1>2, LoopFree DEF Vacant
<1> QED
  BY <1>2, <1>3, <1>4

\* The loop is over: easy_object_refs is dropped and curl_multi_cleanup() begins.
LEMMA LoopEndLink ==
    ASSUME TypeOK, SlotInv, LinkInv, NEW t \in Thread, LoopEnd(t)
    PROVE  LinkInv'
<1> PICK g : g = Last(stack[t])
  OBVIOUS
<1> DEFINE n == Len(stack[t]) - 1
<1>1. /\ IsTop(t, g) /\ g.op = "mloop" /\ g \in Frame /\ g.m \in Multi /\ g.todo = {}
  <2>1. IsTop(t, g) /\ g.op = "mloop" /\ g.todo = {}
    BY DEF LoopEnd, Looping, InFrame, IsTop
  <2> QED
    BY <2>1, TopLinked, Operands DEF Closing
<1>2. PICK h \in Frame : h = Window("mcleanup", NULL, g.m, TRUE, {})
  BY <1>1, WindowType, NullAssumption DEF EasyOps, MultiOps
<1>3. h.op = "mcleanup" /\ h.m = g.m
  BY <1>2 DEF Window
<1>4. /\ multi_handle[g.m] /\ refs' = [refs EXCEPT ![g.m] = {}]
      /\ mstate' = [mstate EXCEPT ![g.m] = t] /\ Replace(t, h)
      /\ UNCHANGED <<handle, state, multi_handle, alive, multi_stack>>
      /\ in_multi' = [e \in Easy |-> IF in_multi[e] = g.m THEN NULL ELSE in_multi[e]]
  BY <1>2 DEF LoopEnd, SetMulti, life
<1>5. /\ \A e \in Easy : multi_stack[e] # g.m /\ in_multi[e] # g.m
      /\ Vacant(t, n, g.m)
  BY <1>1, <1>4, LoopVacant
<1>6. in_multi' = in_multi
  BY <1>4, <1>5 DEF TypeOK
<1>7. /\ OnlyEasies({}) /\ Quiet(t, n, {}) /\ AliveKept(t, n, {h})
      /\ NoneJoins(t, n, {})
  BY <1>4, <1>6 DEF OnlyEasies, Quiet, AliveKept, NoneJoins
<1>8. SlotsKept({}) /\ MultisKept(t, n, {})
  BY <1>1, <1>4, <1>5 DEF SlotsKept, MultisKept, TypeOK
<1>9. Linked(t, h)'
  BY <1>1, <1>3, <1>4, <1>5 DEF Linked, OnEasy, Moves, Closing
<1>10. /\ StackStep(t, n, {h}) /\ n \in Nat /\ {h} \in SUBSET Frame
       /\ Left(t, n, {h}, {}) /\ Arrived(t, {h}, {}) /\ NewApart(t, n, {h})
  BY <1>1, <1>3, <1>4, <1>7, <1>9, SwapFacts DEF Moves, Closing
<1> QED
  BY <1>7, <1>8, <1>10, LinkStep

\* Closing ends: of a multi that was closed before, or with curl_multi_cleanup().
LEMMA ClosedLink ==
    ASSUME TypeOK, SlotInv, LinkInv, NEW t \in Thread,
           LoopEndClosed(t) \/ MultiCleanupEnd(t)
    PROVE  LinkInv'
<1> PICK g : g = Last(stack[t])
  OBVIOUS
<1> DEFINE n == Len(stack[t]) - 1
<1>1. /\ IsTop(t, g) /\ (g.op = "mcleanup" \/ (g.op = "mloop" /\ g.todo = {}))
      /\ g \in Frame /\ g.m \in Multi /\ Pop(t)
  <2>1. /\ IsTop(t, g) /\ (g.op = "mcleanup" \/ (g.op = "mloop" /\ g.todo = {}))
        /\ Pop(t)
    BY DEF LoopEndClosed, MultiCleanupEnd, Returning, Looping, InFrame, IsTop
  <2> QED
    BY <2>1, TopLinked, Operands DEF Closing
<1>2. /\ mstate' = [mstate EXCEPT ![g.m] = NULL]
      /\ refs' = refs \/ refs' = [refs EXCEPT ![g.m] = {}]
      /\ multi_handle' = multi_handle \/ multi_handle' = [multi_handle EXCEPT ![g.m] = FALSE]
      /\ UNCHANGED <<handle, state, alive, multi_stack, in_multi>>
  BY DEF LoopEndClosed, MultiCleanupEnd, SetMulti, life, links
<1>3. Vacant(t, n, g.m) /\ \A e \in Easy : multi_stack[e] # g.m
  BY <1>1, <1>2, LoopVacant
<1>4. /\ OnlyEasies({}) /\ Quiet(t, n, {}) /\ AliveKept(t, n, {}) /\ NoneJoins(t, n, {})
  BY <1>2 DEF OnlyEasies, Quiet, AliveKept, NoneJoins
<1>5. SlotsKept({}) /\ MultisKept(t, n, {})
  BY <1>1, <1>2, <1>3 DEF SlotsKept, MultisKept, TypeOK
<1>6. /\ StackStep(t, n, {}) /\ n \in Nat
      /\ Left(t, n, {}, {}) /\ Arrived(t, {}, {}) /\ NewApart(t, n, {})
  BY <1>1, <1>2, <1>3, PopFacts DEF Moves
<1> QED
  BY <1>4, <1>5, <1>6, LinkStep

-----------------------------------------------------------------------------
(* Steps that only write a slot, of a multi or of an easy inside another call *)

\* what such a step leaves alone
SlotOnly ==
    /\ UNCHANGED <<handle, state, multi_handle, alive, multi_stack, refs, in_multi>>
    /\ SlotsKept({})

\* Such a step keeps the invariant, whatever the window ...
LEMMA SlotOnlyStep ==
    ASSUME TypeOK, LinkInv, NEW t \in Thread, NEW n \in Nat, NEW New \in SUBSET Frame,
           SlotOnly, StackStep(t, n, New), Left(t, n, New, {}), Arrived(t, New, {}),
           NewApart(t, n, New)
    PROVE  LinkInv'
<1>1. /\ OnlyEasies({}) /\ Quiet(t, n, {}) /\ MultisKept(t, n, {})
      /\ AliveKept(t, n, New) /\ SlotsKept({}) /\ NoneJoins(t, n, {})
  BY DEF SlotOnly, OnlyEasies, Quiet, MultisKept, AliveKept, NoneJoins
<1> QED
  BY <1>1, LinkStep

\* ... when it opens ...
LEMMA SlotOnlyPush ==
    ASSUME TypeOK, LinkInv, NEW t \in Thread, NEW h \in Frame, Push(t, h), SlotOnly,
           Linked(t, h)', h.op \in {"drive", "pause", "mloop"},
           h.op = "mloop" => \A u \in Thread, i \in Nat, f \in Frame : IsFrame(u, i, f) =>
             /\ f.op = "io" => multi_stack[f.e] # h.m
             /\ f.op \in {"add", "undo"} => f.m # h.m
    PROVE  LinkInv'
<1> DEFINE n == Len(stack[t])
<1>1. OnlyEasies({}) /\ Quiet(t, n, {})
  BY DEF SlotOnly, OnlyEasies, Quiet
<1>2. /\ StackStep(t, n, {h}) /\ n \in Nat /\ {h} \in SUBSET Frame
      /\ Left(t, n, {h}, {}) /\ Arrived(t, {h}, {}) /\ NewApart(t, n, {h})
  BY <1>1, PushFacts DEF Moves, Closing
<1> QED
  BY <1>2, SlotOnlyStep

\* ... and when it ends.
LEMMA SlotOnlyPop ==
    ASSUME TypeOK, LinkInv, NEW t \in Thread, NEW g, IsTop(t, g), Pop(t), SlotOnly,
           g.op \in {"drive", "pause"}
    PROVE  LinkInv'
<1> DEFINE n == Len(stack[t]) - 1
<1>1. /\ StackStep(t, n, {}) /\ n \in Nat /\ {} \in SUBSET Frame
      /\ Left(t, n, {}, {}) /\ Arrived(t, {}, {}) /\ NewApart(t, n, {})
  BY PopFacts DEF Moves, Closing
<1> QED
  BY <1>1, SlotOnlyStep

\* libcurl calls back, or the callback returns.
LEMMA CallbackLink ==
    ASSUME TypeOK, LinkInv, NEW t \in Thread, EnterCallback(t) \/ LeaveCallback(t)
    PROVE  LinkInv'
<1> PICK g : g = Last(stack[t])
  OBVIOUS
<1>1. IsTop(t, g) /\ g \in Frame /\ IsFrame(t, Len(stack[t]), g) /\ Len(stack[t]) \in Nat
  <2>1. IsTop(t, g)
    BY DEF EnterCallback, LeaveCallback, IsTop
  <2> QED
    BY <2>1, TopLinked
<1>2. PICK h \in Frame :
        /\ Replace(t, h)
        /\ h.op = g.op /\ h.e = g.e /\ h.m = g.m /\ h.ok = g.ok /\ h.saved = g.saved
        /\ h.todo = g.todo
  <2>1. /\ [g EXCEPT !.at = "py"] \in Frame /\ [g EXCEPT !.at = "lib"] \in Frame
    BY <1>1 DEF Frame
  <2> QED
    BY <1>1, <2>1 DEF EnterCallback, LeaveCallback, Frame
<1>3. UNCHANGED <<handle, state, mstate, multi_handle, alive, multi_stack, refs, in_multi>>
  BY DEF EnterCallback, LeaveCallback, slots, life, links
<1> PICK n : n = Len(stack[t]) - 1
  OBVIOUS
<1>4. StackStep(t, n, {h}) /\ n \in Nat /\ Len(stack[t]) = n + 1
  <2>1. stack[t] # <<>> /\ Replace(t, h)
    BY <1>1, <1>2 DEF IsTop
  <2>2. StackStep(t, Len(stack[t]) - 1, {h}) /\ Len(stack[t]) - 1 \in Nat
    BY <2>1, ReplaceStep
  <2> QED
    BY <1>1, <2>2
<1>a. DOMAIN stack[t] = 1..(n + 1)
  BY <1>4 DEF TypeOK
<1>5. IsFrame(t, n + 1, h)'
  <2>1. PICK i \in Nat : IsFrame(t, i, h)'
    BY <1>4 DEF StackStep
  <2>2. /\ stack'[t] = Append(Front(stack[t]), h)
        /\ stack[t] \in Seq(Frame) /\ stack[t] # <<>>
    BY <1>1, <1>2 DEF Replace, TypeOK, IsTop
  <2>3. /\ DOMAIN stack'[t] = DOMAIN stack[t] /\ stack'[t][Len(stack[t])] = h
    BY <2>2, ReplaceFrame
  <2> QED
    BY <1>4, <1>a, <2>3 DEF IsFrame
\* every frame there is now was there before, at the same place, and conversely
<1>6. ASSUME NEW u \in Thread, NEW i \in Nat, NEW f \in Frame, IsFrame(u, i, f)'
      PROVE  \E k \in Frame :
               /\ IsFrame(u, i, k)
               /\ f.op = k.op /\ f.e = k.e /\ f.m = k.m /\ f.ok = k.ok /\ f.saved = k.saved
               /\ f.todo = k.todo
  <2>1. CASE Stays(t, n, u, i, f)
    BY <2>1 DEF Stays
  <2>2. CASE u = t /\ i > n /\ f \in {h}
    <3>1. i = n + 1
      <4>1. i \in DOMAIN stack'[t] /\ DOMAIN stack'[t] = DOMAIN stack[t]
        <5>1. /\ stack'[t] = Append(Front(stack[t]), h)
              /\ stack[t] \in Seq(Frame) /\ stack[t] # <<>>
          BY <1>1, <1>2 DEF Replace, TypeOK, IsTop
        <5>2. DOMAIN Append(Front(stack[t]), h) = DOMAIN stack[t]
          BY <5>1, ReplaceFrame
        <5> QED
          BY <1>6, <2>2, <5>1, <5>2 DEF IsFrame
      <4> QED
        BY <1>4, <1>a, <2>2, <4>1
    <3> QED
      BY <1>1, <1>2, <1>4, <2>2, <3>1
  <2> QED
    BY <1>4, <1>6, <2>1, <2>2 DEF StackStep
<1>7. ASSUME NEW u \in Thread, NEW i \in Nat, NEW k \in Frame, IsFrame(u, i, k)
      PROVE  \E f \in Frame :
               /\ IsFrame(u, i, f)'
               /\ f.op = k.op /\ f.e = k.e /\ f.m = k.m
  <2>1. CASE Stays(t, n, u, i, k)
    BY <1>4, <2>1 DEF StackStep
  <2>2. CASE ~Stays(t, n, u, i, k)
    <3>1. u = t /\ i = n + 1 /\ k = g
      BY <1>1, <1>4, <1>7, <1>a, <2>2 DEF Stays, IsFrame
    <3> QED
      BY <1>2, <1>5, <3>1
  <2> QED
    BY <2>1, <2>2
<1>8. FramesLinked'
  <2> SUFFICES ASSUME NEW u \in Thread, NEW f \in Frame, NEW i \in Nat, IsFrame(u, i, f)'
               PROVE  Linked(u, f)'
    BY DEF FramesLinked
  <2> PICK k \in Frame :
         /\ IsFrame(u, i, k)
         /\ f.op = k.op /\ f.e = k.e /\ f.m = k.m /\ f.ok = k.ok /\ f.saved = k.saved
         /\ f.todo = k.todo
    BY <1>6
  <2>1. Linked(u, k)
    BY DEF LinkInv, FramesLinked
  <2> QED
    BY <1>3, <2>1 DEF Linked, OnEasy, Moves, InLib, Closing
<1>9. FramesApart'
  <2> SUFFICES ASSUME NEW u \in Thread, NEW w \in Thread, NEW f \in Frame, NEW q \in Frame,
                      NEW i \in Nat, NEW j \in Nat, IsFrame(u, i, f)', IsFrame(w, j, q)'
               PROVE  OutOfClosing(u, f, i, w, q, j)'
    BY DEF FramesApart
  <2>1. PICK k \in Frame : /\ IsFrame(u, i, k)
                           /\ f.op = k.op /\ f.e = k.e /\ f.m = k.m
    BY <1>6
  <2>2. PICK l \in Frame : /\ IsFrame(w, j, l)
                           /\ q.op = l.op /\ q.e = l.e /\ q.m = l.m
    BY <1>6
  <2>3. OutOfClosing(u, k, i, w, l, j)
    BY <2>1, <2>2 DEF LinkInv, FramesApart
  <2> QED
    BY <1>3, <2>1, <2>2, <2>3 DEF OutOfClosing, Closing
<1>10. ASSUME NEW e \in Easy
       PROVE  Placed(e)'
  <2>1. MovesEasy(e) <=> MovesEasy(e)'
    BY <1>6, <1>7 DEF MovesEasy, Moves
  <2>2. InIO(e) => InIO(e)'
    BY <1>7 DEF InIO
  <2>3. \A m \in Multi : BeingClosed(m) => BeingClosed(m)'
    BY <1>7 DEF BeingClosed, Closing
  <2>4. multi_stack[e] \in Multi \cup {NULL} /\ Placed(e)
    BY DEF TypeOK, LinkInv
  <2>5. multi_stack[e] # NULL /\ BeingClosed(multi_stack[e]) => BeingClosed(multi_stack[e])'
    <3> SUFFICES ASSUME multi_stack[e] # NULL, BeingClosed(multi_stack[e])
                 PROVE  BeingClosed(multi_stack[e])'
      OBVIOUS
    <3> PICK m \in Multi : m = multi_stack[e]
      BY <2>4
    <3>1. BeingClosed(m)'
      BY <2>3
    <3> QED
      BY <1>3, <3>1 DEF BeingClosed
  <2> QED
    BY <1>3, <2>1, <2>2, <2>4, <2>5 DEF Placed
<1> QED
  BY <1>8, <1>9, <1>10 DEF LinkInv

\* perform(), socket_action(): of a multi none of whose easies is in a call of
\* its own.
LEMMA DriveLink ==
    ASSUME TypeOK, SlotInv, LinkInv, Gaps = {}, NEW t \in Thread, NEW m \in Multi, Drive(t, m)
    PROVE  LinkInv'
<1>1. PICK h \in Frame : h = Window("drive", NULL, m, TRUE, {})
  BY WindowType, NullAssumption DEF EasyOps, MultiOps
<1>2. /\ ~DirectIO(m) /\ Push(t, h) /\ mstate' = [mstate EXCEPT ![m] = t]
      /\ UNCHANGED <<handle, state, multi_handle, alive, multi_stack, refs, in_multi>>
  BY <1>1 DEF Drive, MayUseMulti, Allow, SetMulti, life, links
<1>3. h.op = "drive"
  BY <1>1 DEF Window
<1>4. SlotOnly
  BY <1>2 DEF SlotOnly, SlotsKept, DirectIO, TypeOK
<1>5. Linked(t, h)'
  BY <1>3 DEF Linked, OnEasy, Moves, Closing
<1> QED
  BY <1>2, <1>3, <1>4, <1>5, SlotOnlyPush

\* The multi is free again.
LEMMA DriveEndLink ==
    ASSUME TypeOK, SlotInv, LinkInv, NEW t \in Thread, DriveEnd(t)
    PROVE  LinkInv'
<1> PICK g : g = Last(stack[t])
  OBVIOUS
<1>1. /\ IsTop(t, g) /\ g.op = "drive" /\ Pop(t) /\ mstate' = [mstate EXCEPT ![g.m] = NULL]
      /\ UNCHANGED <<handle, state, multi_handle, alive, multi_stack, refs, in_multi>>
  BY DEF DriveEnd, Returning, InFrame, IsTop, SetMulti, life, links
<1>2. SlotOnly
  BY <1>1 DEF SlotOnly, SlotsKept, TypeOK
<1> QED
  BY <1>1, <1>2, SlotOnlyPop

\* close() of a multi begins: it has no easy in a call of its own, and
\* easy_object_refs has all its easies.
LEMMA CloseMultiLink ==
    ASSUME TypeOK, SlotInv, LinkInv, Gaps = {},
           NEW t \in Thread, NEW m \in Multi, CloseMulti(t, m)
    PROVE  LinkInv'
<1> DEFINE ok == m \in CloseHandles
<1>0. ok \in BOOLEAN
  OBVIOUS
<1> HIDE DEF ok
<1> PICK s \in SUBSET Easy : s = refs[m]
  BY DEF TypeOK
<1>1. PICK h \in Frame : h = Window("mloop", NULL, m, ok, s)
  BY <1>0, WindowType, NullAssumption DEF EasyOps, MultiOps
<1>2. /\ ~DirectIO(m) /\ Push(t, h) /\ alive[m] /\ mstate[m] = NULL
      /\ UNCHANGED <<handle, state, mstate, multi_handle, alive, multi_stack, refs, in_multi>>
  BY <1>1 DEF CloseMulti, MayUseMulti, Allow, slots, life, links, ok
<1>3. h.op = "mloop" /\ h.e = NULL /\ h.m = m /\ h.ok = ok /\ h.todo = s
  BY <1>1 DEF Window
<1>4. SlotOnly
  BY <1>2 DEF SlotOnly, SlotsKept
<1>5. \A e \in Easy : multi_stack[e] = m => e \in s
  BY NullAssumption DEF LinkInv, Placed
<1>6. Linked(t, h)'
  BY <1>2, <1>3, <1>5 DEF Linked, OnEasy, Moves, Closing
<1>7. ASSUME NEW u \in Thread, NEW i \in Nat, NEW f \in Frame, IsFrame(u, i, f)
      PROVE  /\ f.op = "io" => multi_stack[f.e] # m
             /\ f.op \in {"add", "undo"} => f.m # m
  <2>1. f.op = "io" => f.e \in Easy /\ state[f.e] # NULL
    BY <1>7, FreeSlot, Operands DEF InEasy, OnEasy
  <2>2. f.op \in {"add", "undo"} => mstate[f.m] # NULL
    BY <1>7, FreeSlot DEF InEasy, SlotMulti
  <2> QED
    BY <1>2, <2>1, <2>2 DEF DirectIO
<1> QED
  BY <1>2, <1>3, <1>4, <1>6, <1>7, SlotOnlyPush

\* The last reference to a multi goes: no window holds it.
LEMMA DropMultiLink ==
    ASSUME TypeOK, SlotInv, LinkInv, Gaps = {},
           NEW t \in Thread, NEW m \in Multi, DropMulti(t, m)
    PROVE  LinkInv'
<1> DEFINE n == Len(stack[t])
<1> PICK s \in SUBSET Easy : s = refs[m]
  BY DEF TypeOK
<1>1. PICK h \in Frame : h = Window("mloop", NULL, m, FALSE, s)
  BY WindowType, NullAssumption DEF EasyOps, MultiOps
<1>2. /\ ~DirectIO(m) /\ Push(t, h) /\ ~Held(m)
      /\ alive' = [alive EXCEPT ![m] = FALSE]
      /\ UNCHANGED <<handle, state, mstate, multi_handle, multi_stack, refs, in_multi>>
  BY <1>1 DEF DropMulti, Allow, slots, links
<1>3. h.op = "mloop" /\ h.e = NULL /\ h.m = m /\ h.ok = FALSE /\ h.todo = s
  BY <1>1 DEF Window
<1>4. \A e \in Easy : multi_stack[e] = m => e \in s
  BY NullAssumption DEF LinkInv, Placed
<1>5. Linked(t, h)'
  BY <1>2, <1>3, <1>4 DEF Linked, OnEasy, Moves, Closing
<1>6. ASSUME NEW u \in Thread, NEW i \in Nat, NEW f \in Frame, IsFrame(u, i, f)
      PROVE  /\ f.op = "io" => multi_stack[f.e] # m
             /\ f.op \in {"add", "undo", "mloop", "mdetach"} => f.m # m
  <2>1. f.op = "io" => f.e \in Easy /\ state[f.e] # NULL
    BY <1>6, FreeSlot, Operands DEF InEasy, OnEasy
  <2> QED
    BY <1>2, <1>6, <2>1 DEF DirectIO, Held, IsFrame, MultiOps
<1>7. /\ OnlyEasies({}) /\ Quiet(t, n, {}) /\ MultisKept(t, n, {})
      /\ SlotsKept({}) /\ NoneJoins(t, n, {})
  BY <1>2 DEF OnlyEasies, Quiet, MultisKept, SlotsKept, NoneJoins
<1>8. AliveKept(t, n, {h})
  BY <1>2, <1>3, <1>6 DEF AliveKept, Stays, Closing, TypeOK
<1>9. /\ StackStep(t, n, {h}) /\ n \in Nat /\ {h} \in SUBSET Frame
      /\ Left(t, n, {h}, {}) /\ Arrived(t, {h}, {}) /\ NewApart(t, n, {h})
  BY <1>2, <1>3, <1>5, <1>6, <1>7, PushFacts DEF Moves, Closing
<1> QED
  BY <1>7, <1>8, <1>9, LinkStep

-----------------------------------------------------------------------------
(* Calls on an easy *)

LEMMA CallStep ==
    ASSUME TypeOK, LinkInv, NEW t \in Thread, NEW e \in Easy, NEW h \in Frame, Push(t, h),
           Quiet(t, Len(stack[t]), {e}), OneEasy(e), PlacedNow(e, {h}), Linked(t, h)',
           ~Closing(h), Moves(h) => h.e = e,
           multi_stack'[e] \in {multi_stack[e], NULL},
           \A u \in Thread, i \in Nat, f \in Frame : IsFrame(u, i, f) /\ Closing(f) =>
             /\ h.op = "io" => u = t \/ multi_stack'[h.e] # f.m
             /\ h.op \in {"add", "undo"} => f.m # h.m
    PROVE  LinkInv'
<1> DEFINE n == Len(stack[t])
<1>1. OnlyEasies({e}) /\ {e} \in SUBSET Easy
  BY DEF OneEasy
<1>2. NoneJoins(t, n, {e})
  BY NullAssumption, Operands DEF NoneJoins
<1>3. /\ StackStep(t, n, {h}) /\ n \in Nat /\ {h} \in SUBSET Frame
      /\ Left(t, n, {h}, {e}) /\ Arrived(t, {h}, {e}) /\ NewApart(t, n, {h})
  BY <1>1, PushFacts
<1> QED
  BY <1>1, <1>2, <1>3, EasyStep

\* perform(), send(), recv(): of an easy in no call and on no multi that
\* another thread closes.
LEMMA IOLink ==
    ASSUME TypeOK, SlotInv, LinkInv, Gaps = {}, NEW t \in Thread, NEW e \in Easy, IO(t, e)
    PROVE  LinkInv'
<1>1. PICK h \in Frame : h = Window("io", e, NULL, TRUE, {})
  BY WindowType, NullAssumption DEF EasyOps, MultiOps
<1>2. h.op = "io" /\ h.e = e
  BY <1>1 DEF Window
<1>3. /\ handle[e] /\ ThreadState(e) = NULL /\ ~Adding(e) /\ Push(t, h)
      /\ multi_stack[e] # NULL => ~ClosedByOther(t, multi_stack[e])
      /\ state' = [state EXCEPT ![e] = t]
      /\ UNCHANGED <<handle, mstate, multi_handle, alive, multi_stack, refs, in_multi>>
  BY <1>1 DEF IO, MayUseEasy, Allow, SetEasy, life, links
<1>4. /\ Quiet(t, Len(stack[t]), {e}) /\ ~MovesEasy(e) /\ Placed(e)
      /\ multi_stack[e] # NULL => mstate[multi_stack[e]] = NULL
  <2>1. Len(stack[t]) \in Nat
    BY DEF TypeOK
  <2> QED
    BY <1>3, <2>1, FreeQuiet, FreeEasy DEF LinkInv
<1>5. OneEasy(e)
  BY <1>3 DEF OneEasy, OnlyEasies, SlotsKept, TypeOK
<1>6. PlacedNow(e, {h})
  BY <1>2, <1>3, <1>4 DEF PlacedNow, Placed, TypeOK
<1>7. Linked(t, h)'
  BY <1>2, <1>3 DEF Linked, OnEasy, Moves, Closing
<1>8. ASSUME NEW u \in Thread, NEW i \in Nat, NEW f \in Frame, IsFrame(u, i, f), Closing(f)
      PROVE  u = t \/ multi_stack'[e] # f.m
  BY <1>3, <1>8, NullAssumption, Operands DEF ClosedByOther, Closes, IsFrame, Closing
<1> QED
  BY <1>2, <1>3, <1>4, <1>5, <1>6, <1>7, <1>8, CallStep DEF Moves, Closing

\* close() of an easy on no open multi.
LEMMA CloseLink ==
    ASSUME TypeOK, SlotInv, LinkInv, Gaps = {}, NEW t \in Thread, NEW e \in Easy, Close(t, e)
    PROVE  LinkInv'
<1>1. PICK h \in Frame : h = Window("cleanup", e, NULL, TRUE, {})
  BY WindowType, NullAssumption DEF EasyOps, MultiOps
<1>2. h.op = "cleanup" /\ h.e = e
  BY <1>1 DEF Window
<1>3. /\ handle[e] /\ ThreadState(e) = NULL /\ ~Adding(e) /\ Push(t, h)
      /\ state' = [state EXCEPT ![e] = t]
      /\ multi_stack' = [multi_stack EXCEPT ![e] = NULL]
      /\ in_multi' = [in_multi EXCEPT ![e] = NULL]
      /\ UNCHANGED <<handle, mstate, multi_handle, alive, refs>>
  BY <1>1 DEF Close, MayUseEasy, Allow, SetEasy, ToCleanup, life
<1>4. Quiet(t, Len(stack[t]), {e})
  <2>1. Len(stack[t]) \in Nat
    BY DEF TypeOK
  <2> QED
    BY <1>3, <2>1, FreeQuiet
<1>5. OneEasy(e)
  BY <1>3 DEF OneEasy, OnlyEasies, SlotsKept, TypeOK
<1>6. PlacedNow(e, {h})
  BY <1>3 DEF PlacedNow, TypeOK
<1>7. Linked(t, h)'
  BY <1>2, <1>3 DEF Linked, OnEasy, Moves, Closing, TypeOK
<1>8. multi_stack'[e] = NULL
  BY <1>3 DEF TypeOK
<1> QED
  BY <1>2, <1>3, <1>4, <1>5, <1>6, <1>7, <1>8, CallStep DEF Moves, Closing

\* close() of an easy that is on an open multi takes it out first.
LEMMA CloseAttachedLink ==
    ASSUME TypeOK, SlotInv, LinkInv, Gaps = {}, NEW t \in Thread, NEW e \in Easy,
           CloseAttached(t, e)
    PROVE  LinkInv'
<1> PICK m \in Multi : m = multi_stack[e] /\ m # NULL
  BY DEF CloseAttached, TypeOK
<1>1. PICK h \in Frame : h = Window("detach", e, m, TRUE, {})
  BY WindowType, NullAssumption DEF EasyOps, MultiOps
<1>2. h.op = "detach" /\ h.e = e /\ h.m = m
  BY <1>1 DEF Window
<1>3. /\ handle[e] /\ ThreadState(e) = NULL /\ ~Adding(e) /\ ~DirectIO(m) /\ Push(t, h)
      /\ mstate' = [mstate EXCEPT ![m] = t]
      /\ in_multi' = [in_multi EXCEPT ![e] = NULL]
      /\ UNCHANGED <<handle, state, multi_handle, alive, multi_stack, refs>>
  BY <1>1 DEF CloseAttached, MayUseSlot, MayUseEasy, MayUseMulti, Allow, SetMulti, life
<1>4. Quiet(t, Len(stack[t]), {e}) /\ Placed(e) /\ state[e] = NULL
  <2>1. Len(stack[t]) \in Nat
    BY DEF TypeOK
  <2> QED
    BY <1>3, <2>1, FreeQuiet, FreeEasy DEF LinkInv
<1>5. OneEasy(e)
  BY <1>3 DEF OneEasy, OnlyEasies, SlotsKept, DirectIO, TypeOK
<1>6. PlacedNow(e, {h})
  BY <1>2, <1>3, <1>4 DEF PlacedNow, Placed, Moves, TypeOK
<1>7. Linked(t, h)'
  BY <1>2, <1>3 DEF Linked, OnEasy, Moves, InLib, Closing, TypeOK
<1> QED
  BY <1>2, <1>3, <1>4, <1>5, <1>6, <1>7, CallStep DEF Moves, Closing

\* add_handle(): of an easy on no multi, to a multi that nobody closes.
LEMMA AddHandleLink ==
    ASSUME TypeOK, SlotInv, LinkInv, Gaps = {},
           NEW t \in Thread, NEW m \in Multi, NEW e \in Easy, AddHandle(t, m, e)
    PROVE  LinkInv'
<1> PICK ok \in BOOLEAN :
      /\ in_multi' = IF ok THEN [in_multi EXCEPT ![e] = m] ELSE in_multi
      /\ Push(t, Window("add", e, m, ok, {}))
  BY DEF AddHandle
<1>1. PICK h \in Frame : h = Window("add", e, m, ok, {})
  BY WindowType, NullAssumption DEF EasyOps, MultiOps
<1>2. h.op = "add" /\ h.e = e /\ h.m = m /\ h.ok = ok
  BY <1>1 DEF Window
<1>3. /\ handle[e] /\ state[e] = NULL /\ multi_stack[e] = NULL
      /\ multi_handle[m] /\ alive[m]
      /\ ~Adding(e) /\ ~DirectIO(m) /\ ~ClosedByOther(t, m) /\ ~Closes(t, m) /\ Push(t, h)
      /\ mstate' = [mstate EXCEPT ![m] = t]
      /\ refs' = [refs EXCEPT ![m] = @ \cup {e}]
      /\ UNCHANGED <<handle, state, multi_handle, alive, multi_stack>>
  BY <1>1 DEF AddHandle, MayAddRemove, MayUseEasy, MayUseMulti, Allow, SetMulti, life
<1>4. Quiet(t, Len(stack[t]), {e}) /\ in_multi[e] = NULL
  <2>1. Len(stack[t]) \in Nat /\ ThreadState(e) = NULL
    BY <1>3 DEF TypeOK, ThreadState
  <2> QED
    BY <1>3, <2>1, FreeQuiet DEF LinkInv, Placed
<1>5. OneEasy(e)
  BY <1>3 DEF OneEasy, OnlyEasies, SlotsKept, DirectIO, TypeOK
<1>6. PlacedNow(e, {h})
  BY <1>2, <1>3 DEF PlacedNow, Moves, TypeOK
<1>7. Linked(t, h)'
  BY <1>2, <1>3, <1>4 DEF Linked, OnEasy, Moves, InLib, Closing, TypeOK
<1>8. ASSUME NEW u \in Thread, NEW i \in Nat, NEW f \in Frame, IsFrame(u, i, f), Closing(f)
      PROVE  f.m # m
  BY <1>3, <1>8 DEF ClosedByOther, Closes, IsFrame, Closing
<1> QED
  BY <1>2, <1>3, <1>4, <1>5, <1>6, <1>7, <1>8, CallStep DEF Moves, Closing

\* remove_handle() of an easy that is in no call.
LEMMA RemoveHandleLink ==
    ASSUME TypeOK, SlotInv, LinkInv, Gaps = {},
           NEW t \in Thread, NEW m \in Multi, NEW e \in Easy, RemoveHandle(t, m, e)
    PROVE  LinkInv'
<1> PICK ok \in BOOLEAN :
      /\ in_multi' = IF ok THEN [in_multi EXCEPT ![e] = NULL] ELSE in_multi
      /\ Push(t, Window("remove", e, m, ok, {}))
  BY DEF RemoveHandle
<1>1. PICK h \in Frame : h = Window("remove", e, m, ok, {})
  BY WindowType, NullAssumption DEF EasyOps, MultiOps
<1>2. h.op = "remove" /\ h.e = e /\ h.m = m /\ h.ok = ok
  BY <1>1 DEF Window
<1>3. /\ handle[e] /\ state[e] = NULL /\ multi_stack[e] = m /\ mstate[m] = NULL
      /\ multi_handle[m] /\ alive[m] /\ ~DirectIO(m) /\ Push(t, h)
      /\ mstate' = [mstate EXCEPT ![m] = t]
      /\ UNCHANGED <<handle, state, multi_handle, alive, multi_stack, refs>>
  BY <1>1 DEF RemoveHandle, MayAddRemove, MayUseMulti, Allow, SetMulti, life
<1>4. ~Adding(e)
  <2> SUFFICES ASSUME NEW u \in Thread, NEW f \in Frame, NEW i \in Nat,
                      IsFrame(u, i, f), f.op \in {"add", "undo"}, f.e = e
               PROVE  FALSE
    BY DEF Adding, IsFrame, TypeOK
  <2> QED
    BY <1>3, NullAssumption DEF SlotInv, Sound
<1>5. Quiet(t, Len(stack[t]), {e}) /\ Placed(e) /\ in_multi[e] = m
  <2>1. Len(stack[t]) \in Nat /\ ThreadState(e) = NULL
    BY <1>3 DEF TypeOK, ThreadState
  <2> QED
    BY <1>3, <1>4, <2>1, FreeQuiet DEF LinkInv, Placed
<1>6. OneEasy(e)
  BY <1>3 DEF OneEasy, OnlyEasies, SlotsKept, DirectIO, TypeOK
<1>7. PlacedNow(e, {h})
  BY <1>2, <1>3, <1>5 DEF PlacedNow, Placed, Moves, TypeOK
<1>8. Linked(t, h)'
  BY <1>2, <1>3, <1>5 DEF Linked, OnEasy, Moves, InLib, Closing, TypeOK
<1> QED
  BY <1>2, <1>3, <1>5, <1>6, <1>7, <1>8, CallStep DEF Moves, Closing

\* remove_handle() of a closed easy: nothing knows it any more.
LEMMA RemoveClosedLink ==
    ASSUME TypeOK, SlotInv, LinkInv,
           NEW t \in Thread, NEW m \in Multi, NEW e \in Easy, RemoveClosed(t, m, e)
    PROVE  LinkInv'
<1>1. /\ ~handle[e] /\ refs' = [refs EXCEPT ![m] = @ \ {e}]
      /\ UNCHANGED <<handle, state, mstate, multi_handle, alive, multi_stack, in_multi, stack>>
  BY DEF RemoveClosed, slots, life
<1> DEFINE n == Len(stack[t])
<1>2. n \in Nat /\ DOMAIN stack[t] = 1..n
  BY DEF TypeOK
<1>3. Quiet(t, n, {e}) /\ ~MovesEasy(e) /\ Placed(e)
  BY <1>1 DEF Quiet, MovesEasy, LinkInv, FramesLinked, Linked, Stays, OnEasy
<1>4. StackStep(t, n, {})
  BY <1>1, <1>2 DEF StackStep, Stays, IsFrame
<1>5. /\ Left(t, n, {}, {e}) /\ Arrived(t, {}, {e}) /\ NewApart(t, n, {})
      /\ NoneJoins(t, n, {e})
  BY <1>1, <1>2 DEF Left, Arrived, NewApart, NoneJoins, IsFrame
<1>6. OneEasy(e)
  BY <1>1 DEF OneEasy, OnlyEasies, SlotsKept, TypeOK
<1>7. PlacedNow(e, {})
  BY <1>1, <1>3 DEF PlacedNow, Placed, TypeOK
<1> QED
  BY <1>2, <1>3, <1>4, <1>5, <1>6, <1>7, EasyStep

\* pause(), ws_send(): of an easy in no call, or from a callback of the call it
\* is in.
LEMMA PauseLink ==
    ASSUME TypeOK, SlotInv, LinkInv, Gaps = {}, NEW t \in Thread, NEW e \in Easy, Pause(t, e)
    PROVE  LinkInv'
<1> PICK s : s = IF multi_stack[e] # NULL THEN mstate[multi_stack[e]] ELSE state[e]
  OBVIOUS
<1> DEFINE k == [Window("pause", e, NULL, TRUE, {}) EXCEPT !.saved = s]
<1>1. /\ handle[e] /\ ThreadState(e) \in {NULL, t} /\ ~Adding(e)
      /\ Push(t, k) /\ SetSlot(e, t)
      /\ multi_stack[e] # NULL => ~DirectIO(multi_stack[e])
      /\ UNCHANGED <<handle, multi_handle, alive, multi_stack, refs, in_multi>>
  BY DEF Pause, MayUseSlot, MayUseEasy, MayUseMulti, Allow, life, links
<1>2. s \in {NULL, t}
  BY <1>1 DEF ThreadState, DirectIO
<1>3. k \in Frame /\ k.op = "pause" /\ k.e = e /\ k.saved = s
  <2>1. Window("pause", e, NULL, TRUE, {}) \in Frame
    BY WindowType, NullAssumption DEF EasyOps, MultiOps
  <2> QED
    BY <1>2, <2>1 DEF Frame, Window, MultiOps
<1> HIDE DEF k
<1> PICK h \in Frame : h = k
  BY <1>3
<1>4. h.op = "pause" /\ h.e = e /\ h.saved = s /\ Push(t, h)
  BY <1>1, <1>3
<1>5. Linked(t, h)'
  BY <1>1, <1>2, <1>4 DEF Linked, OnEasy, Moves, Closing
<1>6. CASE multi_stack[e] # NULL
  <2> PICK m \in Multi : m = multi_stack[e]
    BY <1>6 DEF TypeOK
  <2>1. mstate' = [mstate EXCEPT ![m] = t] /\ UNCHANGED state /\ ~DirectIO(m)
    BY <1>1, <1>6 DEF SetSlot, SetMulti
  <2>2. SlotOnly
    BY <1>1, <2>1 DEF SlotOnly, SlotsKept, DirectIO, TypeOK
  <2> QED
    BY <1>4, <1>5, <2>2, SlotOnlyPush
<1>7. CASE multi_stack[e] = NULL
  <2>1. s = state[e] /\ state' = [state EXCEPT ![e] = t] /\ UNCHANGED mstate
    BY <1>1, <1>7 DEF SetSlot, SetEasy
  <2>2. CASE s = t
    <3>1. SlotOnly
      BY <1>1, <2>1, <2>2 DEF SlotOnly, SlotsKept, TypeOK
    <3> QED
      BY <1>4, <1>5, <3>1, SlotOnlyPush
  <2>3. CASE s = NULL
    <3>1. /\ Quiet(t, Len(stack[t]), {e}) /\ ~MovesEasy(e) /\ Placed(e)
      <4>1. Len(stack[t]) \in Nat /\ ThreadState(e) = NULL
        BY <1>7, <2>1, <2>3 DEF TypeOK, ThreadState
      <4> QED
        BY <1>1, <4>1, FreeQuiet DEF LinkInv
    <3>2. OneEasy(e)
      BY <1>1, <2>1 DEF OneEasy, OnlyEasies, SlotsKept, TypeOK
    <3>3. PlacedNow(e, {h})
      BY <1>1, <1>7, <2>1, <3>1 DEF PlacedNow, Placed, TypeOK
    <3> QED
      BY <1>1, <1>4, <1>5, <3>1, <3>2, <3>3, CallStep DEF Moves, Closing
  <2> QED
    BY <1>2, <2>2, <2>3
<1> QED
  BY <1>6, <1>7

\* The slot is what it was before the pause; a slot that was NULL had no window.
LEMMA PauseEndLink ==
    ASSUME TypeOK, SlotInv, LinkInv, NEW t \in Thread, PauseEnd(t)
    PROVE  LinkInv'
<1> PICK g : g = Last(stack[t])
  OBVIOUS
<1> DEFINE n == Len(stack[t]) - 1
<1>1. /\ IsTop(t, g) /\ g.op = "pause" /\ Pop(t) /\ SetSlot(g.e, g.saved)
      /\ UNCHANGED <<handle, multi_handle, alive, multi_stack, refs, in_multi>>
  BY DEF PauseEnd, Returning, InFrame, IsTop, life, links
<1>2. /\ g \in Frame /\ g.e \in Easy /\ handle[g.e] /\ g.saved \in {NULL, t}
      /\ InEasy(g) => state[g.e] = t
      /\ ~InEasy(g) => mstate[SlotMulti(g)] = t
      /\ Against(t, g) /\ t # NULL /\ Placed(g.e) /\ n \in Nat
  BY <1>1, TopLinked, Innermost, Operands DEF Linked, OnEasy, LinkInv
<1>3. CASE multi_stack[g.e] # NULL
  <2> PICK m \in Multi : m = multi_stack[g.e]
    BY <1>2, <1>3 DEF TypeOK
  <2>1. /\ mstate' = [mstate EXCEPT ![m] = g.saved] /\ UNCHANGED state /\ mstate[m] = t
    BY <1>1, <1>2, <1>3 DEF SetSlot, SetMulti, InEasy, SlotMulti
  <2>2. SlotOnly
    BY <1>1, <1>2, <2>1 DEF SlotOnly, SlotsKept, TypeOK
  <2> QED
    BY <1>1, <2>2, SlotOnlyPop
<1>4. CASE multi_stack[g.e] = NULL
  <2>1. /\ state' = [state EXCEPT ![g.e] = g.saved] /\ UNCHANGED mstate /\ state[g.e] = t
        /\ InEasy(g)
    BY <1>1, <1>2, <1>4 DEF SetSlot, SetEasy, InEasy
  <2>2. CASE g.saved = t
    <3>1. SlotOnly
      BY <1>1, <2>1, <2>2 DEF SlotOnly, SlotsKept, TypeOK
    <3> QED
      BY <1>1, <3>1, SlotOnlyPop
  <2>3. CASE g.saved = NULL
    <3>1. Quiet(t, n, {g.e})
      <4> SUFFICES ASSUME NEW u \in Thread, NEW i \in Nat, NEW f \in Frame,
                          Stays(t, n, u, i, f), f.e = g.e, OnEasy(f)
                   PROVE  FALSE
        BY DEF Quiet
      <4>1. /\ IsFrame(u, i, f) /\ Sound(u, f) /\ Linked(u, f)
            /\ u = t => Nested(t, f, g)
        BY <1>2 DEF Against, LinkInv, FramesLinked
      <4>2. InEasy(f) => state[g.e] = u
        BY <4>1, FreeSlot DEF OnEasy, Moves
      <4>3. ~InEasy(f)
        BY <1>2, <2>1, <2>3, <4>1, <4>2 DEF Nested, SameSlot, InEasy
      <4>4. Moves(f) => f.m # NULL
        BY Operands, NullAssumption
      <4> QED
        BY <1>2, <1>4, <2>1, <4>1, <4>3, <4>4 DEF InEasy, Sound, Linked, OnEasy, Moves
    <3>2. ~MovesEasy(g.e)
      BY <1>1, <1>2, <3>1, QuietNotMoving DEF Moves
    <3>3. OneEasy(g.e) /\ NoneJoins(t, n, {g.e})
      BY <1>1, <2>1 DEF OneEasy, OnlyEasies, SlotsKept, NoneJoins, TypeOK
    <3>4. PlacedNow(g.e, {})
      BY <1>1, <1>2, <1>4, <2>1, <2>3, <3>2 DEF PlacedNow, Placed, TypeOK
    <3>5. /\ StackStep(t, n, {}) /\ {} \in SUBSET Frame
          /\ Left(t, n, {}, {g.e}) /\ Arrived(t, {}, {g.e}) /\ NewApart(t, n, {})
      BY <1>1, <1>2, PopFacts DEF Moves, Closing
    <3> HIDE DEF n
    <3> QED
      BY <1>2, <3>1, <3>3, <3>4, <3>5, EasyStep
  <2> QED
    BY <1>2, <2>2, <2>3
<1> QED
  BY <1>3, <1>4

-----------------------------------------------------------------------------
(* The invariant *)

LEMMA LinkInit == Init => LinkInv
<1> SUFFICES ASSUME Init PROVE LinkInv
  OBVIOUS
<1>1. \A t \in Thread, i \in Nat, f \in Frame : ~IsFrame(t, i, f)
  BY DEF Init, IsFrame
<1>2. \A e \in Easy : Placed(e)
  BY DEF Init, Placed
<1> QED
  BY <1>1, <1>2 DEF LinkInv, FramesLinked, FramesApart

\* Every step keeps the invariant, if the program keeps to the rules.
LEMMA LinkInductive ==
    ASSUME Gaps = {}
    PROVE  TypeOK /\ SlotInv /\ LinkInv /\ [Next]_vars => LinkInv'
<1> SUFFICES ASSUME TypeOK, SlotInv, LinkInv, [Next]_vars
             PROVE  LinkInv'
  OBVIOUS
<1>1. CASE UNCHANGED vars
  BY <1>1 DEF vars, LinkInv, FramesLinked, FramesApart, Placed, Linked, OutOfClosing,
              IsFrame, MovesEasy, InIO, BeingClosed, OnEasy, Moves, InLib, Closing
<1>2. ASSUME NEW t \in Thread, Step(t)
      PROVE  LinkInv'
  <2>1. CASE EasyCall(t)
    BY <2>1, IOLink, PauseLink, CloseLink, CloseAttachedLink DEF EasyCall
  <2>2. CASE MultiCall(t)
    BY <2>2, DriveLink, CloseMultiLink, DropMultiLink, AddHandleLink, RemoveHandleLink,
       RemoveClosedLink DEF MultiCall
  <2>3. CASE Return(t)
    BY <2>3, IOEndLink, PauseEndLink, DetachEndLink, CleanupEndLink, DriveEndLink,
       AddEndLink, AddRefusedLink, AddUndoLink, RemoveEndLink, LoopDetachEndLink,
       ClosedLink DEF Return
  <2>4. CASE Loop(t)
    BY <2>4, LoopSkipLink, LoopDetachLink, NeverUnlinks, LoopCloseLink, LoopAbortLink,
       LoopEndLink, ClosedLink DEF Loop
  <2>5. CASE EnterCallback(t) \/ LeaveCallback(t)
    BY <2>5, CallbackLink
  <2> QED
    BY <1>2, <2>1, <2>2, <2>3, <2>4, <2>5 DEF Step
<1> QED
  BY <1>1, <1>2 DEF Next

\* the three invariants, each of which needs the ones before it
Safe == TypeOK /\ SlotInv /\ LinkInv

\* The three invariants together hold in every reachable state.
LEMMA AlwaysSafe ==
    ASSUME Gaps = {}
    PROVE  Spec => []Safe
<1>1. Init => Safe
  BY LinkInit DEF Safe, Init, TypeOK, SlotInv, IsFrame
<1>2. TypeOK /\ SlotInv /\ [Next]_vars => SlotInv'
  BY Inductive
<1>3. TypeOK /\ SlotInv /\ LinkInv /\ [Next]_vars => LinkInv'
  BY LinkInductive
<1>4. Init => SlotInv /\ LinkInv
  BY <1>1 DEF Safe
<1> QED
  BY <1>2, <1>3, <1>4, TypeCorrect, PTL DEF Spec, Safe

-----------------------------------------------------------------------------
(* The properties *)

\* Frame i of a thread's stack, as the properties write it.
LEMMA FrameAt ==
    ASSUME TypeOK, NEW t \in Thread, NEW i \in DOMAIN stack[t]
    PROVE  i \in Nat /\ stack[t][i] \in Frame /\ IsFrame(t, i, stack[t][i])
BY DEF TypeOK, IsFrame

\* A slot in use belongs to open handles, and to one of an easy and its multi.
LEMMA SafeAsserts == Safe => SlotAsserts
BY DEF Safe, LinkInv, Placed, SlotAsserts

\* What is closed has nothing left.
LEMMA SafeDetached == Safe => ClosedIsDetached
BY DEF Safe, LinkInv, Placed, ClosedIsDetached

\* The easies no window moves are where multi_stack says.
LEMMA SafeAgrees == Safe => AttachAgrees
<1> SUFFICES ASSUME Safe, NEW e \in Easy, ~Moving(e)
             PROVE  multi_stack[e] = in_multi[e]
  BY DEF AttachAgrees
<1>1. ~MovesEasy(e)
  BY DEF MovesEasy, Moves, Moving, IsFrame
<1> QED
  BY <1>1 DEF Safe, LinkInv, Placed

\* curl_multi_cleanup() finds the multi empty.
LEMMA SafeEmpty == Safe => MultiEmptyAtCleanup
<1> SUFFICES ASSUME Safe, NEW t \in Thread, NEW i \in DOMAIN stack[t],
                    stack[t][i].op = "mcleanup", NEW e \in Easy
             PROVE  multi_stack[e] # stack[t][i].m
  BY DEF MultiEmptyAtCleanup
<1>1. Linked(t, stack[t][i])
  BY FrameAt DEF Safe, LinkInv, FramesLinked
<1> QED
  BY <1>1 DEF Linked, Closing

\* An easy that libcurl has is referenced, also while a window moves it.
LEMMA SafeAlive == Safe => KeptAlive
<1> SUFFICES ASSUME Safe, NEW e \in Easy
             PROVE  /\ in_multi[e] # NULL => handle[e] /\ e \in refs[in_multi[e]]
                    /\ multi_stack[e] # NULL =>
                         \/ alive[multi_stack[e]]
                         \/ \E t \in Thread : Closes(t, multi_stack[e])
  BY DEF KeptAlive
<1>1. TypeOK /\ LinkInv /\ Placed(e)
  BY DEF Safe, LinkInv
<1>2. ASSUME in_multi[e] # NULL, MovesEasy(e)
      PROVE  handle[e] /\ e \in refs[in_multi[e]]
  <2> PICK t \in Thread, f \in Frame, i \in Nat : IsFrame(t, i, f) /\ Moves(f) /\ f.e = e
    BY <1>2 DEF MovesEasy
  <2>1. Linked(t, f)
    BY <1>1 DEF LinkInv, FramesLinked
  <2> QED
    BY <1>1, <1>2, <2>1 DEF Linked, InLib, OnEasy, Placed
<1>3. ASSUME multi_stack[e] # NULL, BeingClosed(multi_stack[e])
      PROVE  \E t \in Thread : Closes(t, multi_stack[e])
  BY <1>3 DEF BeingClosed, Closes, Closing, IsFrame
<1> QED
  BY <1>1, <1>2, <1>3 DEF Placed

\* The objects libcurl calls back for while it drives a multi are under the
\* multi's slot.
LEMMA DrivenReady ==
    ASSUME Safe, NEW t \in Thread, NEW g, IsTop(t, g), g.op = "drive",
           NEW e \in Easy, in_multi[e] = g.m
    PROVE  ThreadState(e) = t
<1>1. /\ TypeOK /\ SlotInv /\ LinkInv /\ g \in Frame /\ g.m \in Multi
      /\ mstate[g.m] = t /\ t # NULL /\ Placed(e) /\ g.m # NULL
  BY TopLinked, Innermost, Operands, NullAssumption
     DEF Safe, InEasy, SlotMulti, LinkInv
<1>2. ~MovesEasy(e)
  <2> SUFFICES ASSUME NEW u \in Thread, NEW f \in Frame, NEW i \in Nat,
                      IsFrame(u, i, f), Moves(f), f.e = e
               PROVE  FALSE
    BY DEF MovesEasy
  <2>1. f.m = g.m /\ f.op \in {"add", "remove"}
    BY <1>1 DEF LinkInv, FramesLinked, Linked, InLib
  <2>2. SameSlot(f, g) /\ f.op # "mloop" /\ f # g
    BY <2>1 DEF SameSlot, InEasy, SlotMulti
  <2>3. CASE u = t /\ i > Len(stack[t]) - 1
    BY <1>1, <2>2, <2>3, TopLeaves
  <2>4. CASE Stays(t, Len(stack[t]) - 1, u, i, f)
    BY <1>1, <2>2, <2>4, TopAlone DEF IsTop
  <2> QED
    <3>1. Len(stack[t]) \in Nat
      BY <1>1 DEF TypeOK
    <3> QED
      BY <2>3, <2>4, <3>1 DEF Stays
<1> QED
  BY <1>1, <1>2 DEF Placed, ThreadState

\* The slots behind the objects of each kind of window.
LEMMA SafeReady == Safe => CallbacksReady
<1> SUFFICES ASSUME Safe, NEW t \in Thread, stack[t] # <<>>,
                    Last(stack[t]).at = "lib",
                    NEW v \in CallbackSlots(Last(stack[t]))
             PROVE  v = t
  BY DEF CallbacksReady
<1> PICK g : g = Last(stack[t])
  OBVIOUS
<1>1. /\ TypeOK /\ SlotInv /\ LinkInv /\ IsTop(t, g) /\ v \in CallbackSlots(g)
  BY DEF Safe, IsTop
<1>2. /\ g \in Frame /\ Sound(t, g) /\ Linked(t, g) /\ t # NULL
      /\ g.op # "mloop" /\ InEasy(g) => state[g.e] = t
      /\ g.op # "mloop" /\ ~InEasy(g) => mstate[SlotMulti(g)] = t
      /\ g.op \in EasyOps \cup MultiOps
  BY <1>1, TopLinked, Innermost DEF Frame
<1>3. OnEasy(g) => Placed(g.e)
  BY <1>1, <1>2, Operands DEF LinkInv
<1>4. CASE g.op \in {"io", "cleanup"}
  BY <1>1, <1>2, <1>4 DEF CallbackSlots, InEasy, ThreadState
<1>5. CASE g.op = "drive"
  BY <1>1, <1>2, <1>5, DrivenReady DEF CallbackSlots, InEasy, SlotMulti
<1>6. CASE g.op \in {"add", "undo", "mcleanup"}
  BY <1>1, <1>2, <1>6 DEF CallbackSlots, InEasy, SlotMulti
<1>7. CASE g.op \in {"remove", "detach", "mdetach"}
  <2>1. /\ multi_stack[g.e] = g.m /\ state[g.e] = NULL /\ g.m # NULL
        /\ mstate[g.m] = t
    BY <1>2, <1>7, Operands, NullAssumption
       DEF Sound, Linked, Moves, InEasy, SlotMulti
  <2> QED
    BY <1>1, <1>2, <1>7, <2>1 DEF CallbackSlots, ThreadState
<1>8. CASE g.op = "pause"
  <2>1. CASE multi_stack[g.e] = NULL
    BY <1>1, <1>2, <1>8, <2>1 DEF CallbackSlots, InEasy, ThreadState
  <2>2. CASE multi_stack[g.e] # NULL
    BY <1>1, <1>2, <1>3, <1>8, <2>2
       DEF CallbackSlots, InEasy, SlotMulti, ThreadState, Placed, OnEasy
  <2> QED
    BY <2>1, <2>2
<1>9. CASE g.op = "mloop"
  BY <1>1, <1>9 DEF CallbackSlots
<1> QED
  BY <1>2, <1>4, <1>5, <1>6, <1>7, <1>8, <1>9 DEF EasyOps, MultiOps

-----------------------------------------------------------------------------
(* EasyMulti implements Attachment: each step is an atomic call or changes   *)
(* nothing that Attachment can see.                                          *)

\* the steps that take an easy off its multi, if it is on one
LEMMA LeavesMulti ==
    ASSUME TypeOK, NEW e \in Easy, UNCHANGED <<handle, multi_handle>>,
           multi_stack' = [multi_stack EXCEPT ![e] = NULL]
    PROVE  [A!ANext]_A!avars
<1>1. CASE multi_stack[e] = NULL
  <2>1. multi_stack' = multi_stack
    BY <1>1 DEF TypeOK
  <2> QED
    BY <2>1 DEF A!avars
<1>2. CASE multi_stack[e] # NULL
  BY <1>2 DEF A!ANext, A!Detach
<1> QED
  BY <1>1, <1>2

\* The end of a window is one step of Attachment, or none.
LEMMA AtomicReturn ==
    ASSUME Safe, NEW t \in Thread, Return(t)
    PROVE  [A!ANext]_A!avars
<1> PICK g : g = Last(stack[t])
  OBVIOUS
<1>1. stack[t] # <<>>
  BY DEF Return, Returning, InFrame, IOEnd, PauseEnd, DetachEnd, CleanupEnd, DriveEnd,
         AddEnd, AddRefused, AddUndo, AddUndoEnd, RemoveEnd, LoopDetachEnd,
         MultiCleanupEnd
<1>2. /\ TypeOK /\ g \in Frame /\ Linked(t, g) /\ Sound(t, g)
      /\ OnEasy(g) => g.e \in Easy
      /\ Closing(g) \/ Moves(g) \/ g.op = "drive" => g.m \in Multi
  BY <1>1, TopLinked, Innermost, Operands DEF Safe, IsTop
<1>3. CASE \/ IOEnd(t) \/ PauseEnd(t) \/ DriveEnd(t) \/ AddRefused(t) \/ AddUndo(t)
           \/ AddUndoEnd(t)
  BY <1>3 DEF IOEnd, PauseEnd, DriveEnd, AddRefused, AddUndo, AddUndoEnd, life, links,
              A!avars
<1>4. CASE DetachEnd(t)
  <2>1. /\ g.op = "detach" /\ UNCHANGED <<handle, multi_handle>>
        /\ multi_stack' = [multi_stack EXCEPT ![g.e] = NULL]
    BY <1>4 DEF DetachEnd, Returning, InFrame, ToCleanup, life
  <2> QED
    BY <1>2, <2>1, LeavesMulti DEF OnEasy, Moves
<1>5. CASE CleanupEnd(t)
  <2>1. /\ g.op = "cleanup" /\ UNCHANGED <<multi_handle, multi_stack>>
        /\ handle' = [handle EXCEPT ![g.e] = FALSE]
    BY <1>5 DEF CleanupEnd, Returning, InFrame, links
  <2>2. g.e \in Easy /\ handle[g.e] /\ multi_stack[g.e] = NULL
    BY <1>2, <2>1 DEF Linked, OnEasy
  <2> QED
    BY <2>1, <2>2 DEF A!ANext, A!CloseEasy
<1>6. CASE AddEnd(t)
  <2>1. /\ g.op = "add" /\ UNCHANGED <<handle, multi_handle>>
        /\ multi_stack' = [multi_stack EXCEPT ![g.e] = g.m]
    BY <1>6 DEF AddEnd, Returning, InFrame, life
  <2>2. /\ g.e \in Easy /\ g.m \in Multi
        /\ handle[g.e] /\ multi_handle[g.m] /\ multi_stack[g.e] = NULL
    BY <1>2, <2>1 DEF Linked, OnEasy, Moves, Sound
  <2>3. A!Attach(g.e, g.m)
    BY <2>1, <2>2 DEF A!Attach
  <2> QED
    BY <2>2, <2>3 DEF A!ANext
<1>7. CASE RemoveEnd(t) \/ LoopDetachEnd(t)
  <2>1. /\ g.op \in {"remove", "mdetach"} /\ UNCHANGED <<handle, multi_handle>>
        /\ \/ multi_stack' = [multi_stack EXCEPT ![g.e] = NULL]
           \/ multi_stack' = multi_stack
    BY <1>7 DEF RemoveEnd, LoopDetachEnd, Returning, InFrame, life
  <2>2. g.e \in Easy
    BY <1>2, <2>1 DEF OnEasy, Moves
  <2>3. CASE multi_stack' = multi_stack
    BY <2>1, <2>3 DEF A!avars
  <2> QED
    BY <1>2, <2>1, <2>2, <2>3, LeavesMulti
<1>8. CASE MultiCleanupEnd(t)
  <2>1. /\ g.op = "mcleanup" /\ UNCHANGED <<handle, multi_stack>>
        /\ multi_handle' = [multi_handle EXCEPT ![g.m] = FALSE]
    BY <1>8 DEF MultiCleanupEnd, Returning, InFrame, links
  <2>2. /\ g.m \in Multi /\ multi_handle[g.m]
        /\ \A e \in Easy : multi_stack[e] # g.m
    BY <1>2, <2>1 DEF Linked, Closing
  <2>3. A!CloseMulti(g.m)
    BY <2>1, <2>2 DEF A!CloseMulti
  <2> QED
    BY <2>2, <2>3 DEF A!ANext
<1> QED
  BY <1>3, <1>4, <1>5, <1>6, <1>7, <1>8 DEF Return

\* close() of a multi takes its easies off one step at a time.
LEMMA AtomicLoop ==
    ASSUME Safe, NEW t \in Thread, Loop(t)
    PROVE  [A!ANext]_A!avars
<1>1. CASE \/ LoopSkip(t) \/ LoopDetach(t) \/ LoopCloseNoop(t) \/ LoopAbort(t)
           \/ LoopEnd(t) \/ LoopEndClosed(t)
  BY <1>1 DEF LoopSkip, LoopDetach, LoopCloseNoop, LoopAbort, LoopEnd, LoopEndClosed,
              life, links, A!avars
<1>2. CASE LoopUnlink(t)
  BY <1>2, NeverUnlinks DEF Safe
<1>3. CASE LoopClose(t)
  <2> PICK e : e = Last(stack[t]).e
    OBVIOUS
  <2>1. /\ stack[t] # <<>> /\ e # NULL /\ UNCHANGED <<handle, multi_handle>>
        /\ multi_stack' = [multi_stack EXCEPT ![e] = NULL]
    BY <1>3 DEF LoopClose, Looping, InFrame, ToCleanup, life
  <2>2. e \in Easy
    BY <2>1, TopFrame DEF Safe
  <2> QED
    BY <2>1, <2>2, LeavesMulti DEF Safe
<1> QED
  BY <1>1, <1>2, <1>3 DEF Loop

\* Every step is a step of Attachment, or changes nothing it can see.
LEMMA AtomicStep == Safe /\ [Next]_vars => [A!ANext]_A!avars
<1> SUFFICES ASSUME Safe, [Next]_vars
             PROVE  [A!ANext]_A!avars
  OBVIOUS
<1>1. CASE UNCHANGED vars
  BY <1>1 DEF vars, A!avars
<1>2. ASSUME NEW t \in Thread, Step(t)
      PROVE  [A!ANext]_A!avars
  <2>1. ASSUME NEW e \in Easy, Close(t, e)
        PROVE  [A!ANext]_A!avars
    BY <2>1, LeavesMulti DEF Close, ToCleanup, life, Safe
  <2>2. ASSUME NEW e \in Easy, IO(t, e) \/ Pause(t, e) \/ CloseAttached(t, e)
        PROVE  [A!ANext]_A!avars
    BY <2>2 DEF IO, Pause, CloseAttached, life, links, A!avars
  <2>3. CASE MultiCall(t)
    BY <2>3 DEF MultiCall, Drive, CloseMulti, DropMulti, AddHandle, RemoveHandle,
                RemoveClosed, life, links, A!avars
  <2>4. CASE EnterCallback(t) \/ LeaveCallback(t)
    BY <2>4 DEF EnterCallback, LeaveCallback, life, links, A!avars
  <2> QED
    BY <1>2, <2>1, <2>2, <2>3, <2>4, AtomicReturn, AtomicLoop DEF Step, EasyCall
<1> QED
  BY <1>1, <1>2 DEF Next

-----------------------------------------------------------------------------
(* What holds of a program that keeps to the documented rules, for any      *)
(* easies, multis and threads, however deep its callbacks call.             *)

\* The assertions of pycurl_get_thread_state_slot hold: an easy is inside its
\* own call or inside its multi's, never both, and only while both are open.
THEOREM AssertsHold ==
    ASSUME Gaps = {}
    PROVE  Spec => []SlotAsserts
BY AlwaysSafe, SafeAsserts, PTL

\* Every callback libcurl makes finds the thread state of the thread that is
\* inside libcurl (pycurl_get_thread_state): none is dropped or misdirected.
THEOREM CallbacksFindThread ==
    ASSUME Gaps = {}
    PROVE  Spec => []CallbacksReady
BY AlwaysSafe, SafeReady, PTL

\* The "paranoia assertions" of util_curl_close: a closed easy has no thread
\* state and is on no multi.
THEOREM ClosedDetached ==
    ASSUME Gaps = {}
    PROVE  Spec => []ClosedIsDetached
BY AlwaysSafe, SafeDetached, PTL

\* Nothing libcurl uses is freed: what is attached is open and referenced by
\* its multi, and multi_stack never outlives the multi it points to.
THEOREM NothingFreed ==
    ASSUME Gaps = {}
    PROVE  Spec => []KeptAlive
BY AlwaysSafe, SafeAlive, PTL

\* multi_stack is what libcurl has, outside the calls that change it.
THEOREM SidesAgree ==
    ASSUME Gaps = {}
    PROVE  Spec => []AttachAgrees
BY AlwaysSafe, SafeAgrees, PTL

\* curl_multi_cleanup() runs only when no easy is on the multi.
THEOREM EmptyAtCleanup ==
    ASSUME Gaps = {}
    PROVE  Spec => []MultiEmptyAtCleanup
BY AlwaysSafe, SafeEmpty, PTL

\* The handles behave as if every call were one atomic step of Attachment.
THEOREM CallsAtomic ==
    ASSUME Gaps = {}
    PROVE  Spec => Atomic
<1>1. Init => A!AInit
  BY DEF Init, A!AInit
<1>2. Safe /\ [Next]_vars => [A!ANext]_A!avars
  BY AtomicStep
<1> QED
  BY <1>1, <1>2, AlwaysSafe, PTL DEF Spec, Atomic, A!ASpec

=============================================================================
