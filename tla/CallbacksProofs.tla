--------------------------- MODULE CallbacksProofs ---------------------------
(***************************************************************************)
(* For any number of easies, multis and threads and any depth of nesting:  *)
(* no Python code starts with an exception pending, an exception stops the *)
(* transfer, KeyboardInterrupt and SystemExit reach the caller (both up to *)
(* the data callbacks of a mime), the flag of ws_write_cb_running is right,*)
(* and a frame is sent from inside a write callback of its own easy only.  *)
(*                                                                         *)
(* What carries this is that the windows of a slot are all of one thread,  *)
(* the innermost of them with the others below it on that thread's stack,  *)
(* so that the saved thread states and the saved flags are put back in the *)
(* order in which they were taken.                                         *)
(***************************************************************************)
EXTENDS Callbacks, TLAPS

\* frame number i of thread t
At(t, i, f) == i \in 1..Len(stack[t]) /\ f = stack[t][i]

Writes(f, e) == f.at = "callback" /\ f.what = "write" /\ f.of = e

\* a callback is called by the window just below it
Called(t, i, f) == f.at = "callback" =>
    /\ f.what \in {"write", "mime", "other"} /\ f.saved = NULL
    /\ f.what = "write" => f.of \in Easy
    /\ f.what = "mime" => "mime" \in Uses
    /\ \E w \in Frame : At(t, i - 1, w) /\ w.at = "window" /\ f.of \in Reachable(w)

\* the slot of a window has its thread; the first window that took the slot
\* found it empty
Owned(t, i, f) == f.at = "window" =>
    /\ state[Slot(f.of)] = t /\ f.saved \in {NULL, t}
    /\ f.saved = NULL => \A j \in Nat, g \in Frame :
         At(t, j, g) /\ j < i /\ g.at = "window" => Slot(g.of) # Slot(f.of)

\* a write callback remembers whether it is inside another one of its easy
Remembers(t, i, f) == f.at = "callback" /\ f.what = "write" =>
    (f.prev <=> \E j \in Nat, g \in Frame : At(t, j, g) /\ j < i /\ Writes(g, f.of))

Sends(t, i, f) == f.what = "ws_send" /\ f.saved # NULL =>
    /\ f.saved = t
    /\ \E j \in Nat, g \in Frame : At(t, j, g) /\ j < i /\ Writes(g, f.of)

FramesInv == \A t \in Thread, i \in Nat, f \in Frame : At(t, i, f) =>
    Called(t, i, f) /\ Owned(t, i, f) /\ Remembers(t, i, f) /\ Sends(t, i, f)
FlagInv == \A e \in Easy : e \in ws_write_cb_running <=>
    \E t \in Thread, i \in Nat, f \in Frame : At(t, i, f) /\ Writes(f, e)
PendingInv == \A t \in Thread : pending[t] # "none" => told[t] # "go"

CbInv == FramesInv /\ FlagInv /\ PendingInv

-----------------------------------------------------------------------------
(* Frames and slots *)

\* The innermost frame.
LEMMA TopAt ==
    ASSUME TypeOK, NEW t \in Thread, stack[t] # <<>>
    PROVE  /\ Len(stack[t]) \in Nat \ {0} /\ Top(t) \in Frame
           /\ At(t, Len(stack[t]), Top(t))
<1>1. stack[t] \in Seq(Frame)
  BY DEF TypeOK
<1> QED
  BY <1>1 DEF Top, At

\* A frame is added on top ...
LEMMA PushAt ==
    ASSUME TypeOK, NEW t \in Thread, NEW f \in Frame, Push(t, f)
    PROVE  /\ stack' \in [Thread -> Seq(Frame)] /\ Len(stack[t]) \in Nat
           /\ \A u \in Thread, i \in Nat, g \in Frame :
                At(u, i, g)' <=> At(u, i, g) \/ (u = t /\ i = Len(stack[t]) + 1 /\ g = f)
           /\ stack'[t] # <<>> /\ Top(t)' = f
           /\ \A u \in Thread \ {t} : stack'[u] = stack[u]
<1>1. /\ stack[t] \in Seq(Frame) /\ stack'[t] = Append(stack[t], f)
      /\ \A u \in Thread \ {t} : stack'[u] = stack[u]
  BY DEF TypeOK, Push
<1>2. /\ stack'[t] \in Seq(Frame) /\ Len(stack'[t]) = Len(stack[t]) + 1
      /\ \A i \in 1..Len(stack[t]) : stack'[t][i] = stack[t][i]
      /\ stack'[t][Len(stack[t]) + 1] = f /\ Len(stack[t]) \in Nat
  BY <1>1
<1>3. \A u \in Thread, i \in Nat, g \in Frame :
        At(u, i, g)' <=> At(u, i, g) \/ (u = t /\ i = Len(stack[t]) + 1 /\ g = f)
  BY <1>1, <1>2 DEF At
<1>4. stack' \in [Thread -> Seq(Frame)]
  BY <1>1 DEF TypeOK, Push
<1>5. stack'[t] # <<>> /\ Top(t)' = f
  BY <1>1, <1>2 DEF Top
<1> QED
  BY <1>1, <1>2, <1>3, <1>4, <1>5

\* ... and taken away.
LEMMA PopAt ==
    ASSUME TypeOK, NEW t \in Thread, stack[t] # <<>>, Pop(t)
    PROVE  /\ stack' \in [Thread -> Seq(Frame)]
           /\ \A u \in Thread, i \in Nat, g \in Frame :
                At(u, i, g)' <=> At(u, i, g) /\ (u = t => i < Len(stack[t]))
           /\ Len(stack'[t]) = Len(stack[t]) - 1
           /\ \A u \in Thread \ {t} : stack'[u] = stack[u]
<1>1. /\ stack[t] \in Seq(Frame) /\ stack'[t] = SubSeq(stack[t], 1, Len(stack[t]) - 1)
      /\ \A u \in Thread \ {t} : stack'[u] = stack[u]
      /\ Len(stack[t]) \in Nat \ {0}
  BY TopAt DEF TypeOK, Pop
<1>2. /\ stack'[t] \in Seq(Frame) /\ Len(stack'[t]) = Len(stack[t]) - 1
      /\ \A i \in 1..(Len(stack[t]) - 1) : stack'[t][i] = stack[t][i]
  BY <1>1
<1>3. \A u \in Thread, i \in Nat, g \in Frame :
        At(u, i, g)' <=> At(u, i, g) /\ (u = t => i < Len(stack[t]))
  BY <1>1, <1>2 DEF At
<1>4. stack' \in [Thread -> Seq(Frame)]
  BY <1>1, <1>2 DEF TypeOK, Pop
<1> QED
  BY <1>1, <1>2, <1>3, <1>4

\* A callback uses the slot of the window it is in, so that all the windows and
\* callbacks of a slot are of one thread.
LEMMA SlotFacts ==
    ASSUME TypeOK, NEW x \in Easy \cup Multi
    PROVE  /\ Slot(x) \in Easy \cup Multi
           /\ GetState(x) \in Thread \cup {NULL}
           /\ \A w \in Frame : x \in Reachable(w) => Slot(x) = Slot(w.of)
<1>1. Slot(x) \in Easy \cup Multi
  BY DEF TypeOK, Slot
<1>2. ASSUME NEW w \in Frame, x \in Reachable(w)
      PROVE  Slot(x) = Slot(w.of)
  <2>1. w.of \in Easy \cup Multi
    BY DEF Frame
  <2>2. CASE w.of \in Multi
    <3>1. x = w.of \/ (x \in Easy /\ on[x] = w.of)
      BY <1>2, <2>2 DEF Reachable
    <3> QED
      BY <2>2, <3>1, NullAssumption, ParamAssumption DEF Slot
  <2>3. CASE w.of \notin Multi
    <3>1. w.of \in Easy /\ on[w.of] \in Multi \cup {NULL}
      BY <2>1, <2>3 DEF TypeOK
    <3>2. x = w.of \/ (x = on[w.of] /\ on[w.of] # NULL)
      BY <1>2, <2>3 DEF Reachable
    <3> QED
      BY <2>3, <3>1, <3>2 DEF Slot
  <2> QED
    BY <2>2, <2>3
<1> QED
  BY <1>1, <1>2 DEF GetState, TypeOK

\* The thread of a write callback is the one in the slot of its easy.
LEMMA WriteOwned ==
    ASSUME TypeOK, FramesInv, NEW t \in Thread, NEW i \in Nat, NEW f \in Frame,
           At(t, i, f), f.at = "callback"
    PROVE  state[Slot(f.of)] = t
<1>1. PICK w \in Frame : At(t, i - 1, w) /\ w.at = "window" /\ f.of \in Reachable(w)
  BY DEF FramesInv, Called
<1>2. i - 1 \in Nat
  BY <1>1 DEF At
<1>3. Owned(t, i - 1, w)
  BY <1>1, <1>2 DEF FramesInv
<1>4. f.of \in Easy \cup Multi
  BY DEF Frame
<1> QED
  BY <1>1, <1>3, <1>4, SlotFacts DEF Owned

\* The kinds of a window and of a callback.
WindowKind == {"perform", "drive", "link", "dealloc", "pause", "ws_send"}

LEMMA FrameTypes ==
    ASSUME NEW x \in Easy \cup Multi
    PROVE  /\ \A what \in WindowKind, saved \in Thread \cup {NULL} :
                Window(what, x, saved) \in Frame
           /\ \A what \in {"write", "mime", "other"}, prev \in BOOLEAN :
                Callback(what, x, prev) \in Frame
BY DEF WindowKind, Window, Callback, Frame

-----------------------------------------------------------------------------
(* Windows *)

\* Opening a window of an object that is free or whose slot has the thread.
LEMMA OpenStep ==
    ASSUME TypeOK, CbInv, NEW t \in Thread, NEW what \in WindowKind,
           NEW x \in Easy \cup Multi, Open(t, what, x), GetState(x) \in {NULL, t},
           what = "ws_send" /\ GetState(x) # NULL => x \in ws_write_cb_running
    PROVE  TypeOK' /\ CbInv'
<1> PICK saved \in Thread \cup {NULL} : saved = GetState(x)
  BY SlotFacts
<1> PICK h \in Frame : h = Window(what, x, saved)
  BY FrameTypes
<1> PICK n \in Nat : n = Len(stack[t])
  BY DEF TypeOK
<1>1. /\ Push(t, h) /\ InPython(t)
      /\ state' = [state EXCEPT ![Slot(x)] = t]
      /\ raised' = [raised EXCEPT ![t] = "none"]
      /\ on' = on /\ ws_write_cb_running' = ws_write_cb_running
      /\ pending' = pending /\ told' = told
  BY DEF Open
<1>2. /\ stack' \in [Thread -> Seq(Frame)]
      /\ \A u \in Thread, i \in Nat, g \in Frame :
           At(u, i, g)' <=> At(u, i, g) \/ (u = t /\ i = n + 1 /\ g = h)
      /\ stack'[t] # <<>> /\ Top(t)' = h
      /\ \A u \in Thread \ {t} : stack'[u] = stack[u]
  BY <1>1, PushAt
<1>3. TypeOK'
  BY <1>1, <1>2, SlotFacts DEF TypeOK, Exception, Answer
<1>4. h.at = "window" /\ h.what = what /\ h.of = x /\ h.saved = saved
  BY DEF Window
<1>5. \A u \in Thread, i \in Nat, g \in Frame : At(u, i, g) =>
         (u = t => i <= n) /\ g.of \in Easy \cup Multi
  BY DEF At, Frame
<1>6. \A y \in Easy \cup Multi : Slot(y)' = Slot(y) /\ Slot(y) \in Easy \cup Multi
  BY <1>1, SlotFacts DEF Slot
<1>7. \A u \in Thread, i \in Nat, g \in Frame : At(u, i, g) /\ g.at = "window" =>
         state[Slot(g.of)] = u /\ (Slot(g.of) = Slot(x) => u = t /\ saved = t)
  BY NullAssumption DEF CbInv, FramesInv, Owned, GetState
<1>8. \A w \in Frame : Reachable(w)' = Reachable(w)
  BY <1>1 DEF Reachable
<1>9. ASSUME NEW u \in Thread, NEW i \in Nat, NEW g \in Frame, At(u, i, g)
      PROVE  Called(u, i, g)' /\ Owned(u, i, g)' /\ Remembers(u, i, g)' /\ Sends(u, i, g)'
  <2>1. Called(u, i, g) /\ Owned(u, i, g) /\ Remembers(u, i, g) /\ Sends(u, i, g)
    BY <1>9 DEF CbInv, FramesInv
  <2>2. \A j \in Nat, k \in Frame : j < i => (At(u, j, k)' <=> At(u, j, k))
    BY <1>2, <1>5, <1>9
  <2>3. Called(u, i, g)'
    <3>1. g.at = "callback" => i - 1 \in Nat
      BY <2>1 DEF Called, At
    <3> QED
      BY <1>8, <2>1, <2>2, <3>1 DEF Called
  <2>4. Owned(u, i, g)'
    <3>1. \A j \in Nat, k \in Frame : At(u, j, k) => Slot(k.of)' = Slot(k.of)
      BY <1>5, <1>6
    <3>2. g.at = "window" => state'[Slot(g.of)] = u
      BY <1>1, <1>5, <1>6, <1>7, <1>9 DEF TypeOK
    <3> QED
      BY <1>9, <2>1, <2>2, <3>1, <3>2 DEF Owned
  <2>5. Remembers(u, i, g)'
    BY <2>1, <2>2 DEF Remembers, Writes
  <2>6. Sends(u, i, g)'
    BY <2>1, <2>2 DEF Sends, Writes
  <2> QED
    BY <2>3, <2>4, <2>5, <2>6
<1>10. Called(t, n + 1, h)' /\ Owned(t, n + 1, h)' /\ Remembers(t, n + 1, h)' /\ Sends(t, n + 1, h)'
  <2>1. \A j \in Nat, k \in Frame : j < n + 1 => (At(t, j, k)' <=> At(t, j, k))
    BY <1>2
  <2>2. Owned(t, n + 1, h)'
    <3>1. state'[Slot(h.of)] = t
      BY <1>1, <1>4, <1>6 DEF TypeOK
    <3>2. saved = NULL => \A j \in Nat, k \in Frame :
             At(t, j, k) /\ j < n + 1 /\ k.at = "window" => Slot(k.of) # Slot(x)
      BY <1>7, NullAssumption
    <3>3. \A j \in Nat, k \in Frame : At(t, j, k) => Slot(k.of)' = Slot(k.of)
      BY <1>5, <1>6
    <3> QED
      BY <1>4, <1>6, <2>1, <3>1, <3>2, <3>3 DEF Owned
  <2>3. Sends(t, n + 1, h)'
    <3> SUFFICES ASSUME what = "ws_send", saved # NULL
                 PROVE  \E j \in Nat, k \in Frame : At(t, j, k)' /\ j < n + 1 /\ Writes(k, x)
      BY <1>4 DEF Sends, Writes
    <3>0. x \in ws_write_cb_running /\ x \in Easy
      BY DEF TypeOK
    <3>1. PICK u \in Thread, j \in Nat, k \in Frame : At(u, j, k) /\ Writes(k, x)
      BY <3>0 DEF CbInv, FlagInv
    <3>2. state[Slot(x)] = u
      BY <3>1, WriteOwned DEF CbInv, Writes
    <3>3. u = t
      BY <3>2, NullAssumption DEF GetState
    <3> QED
      BY <1>5, <2>1, <3>1, <3>3
  <2> QED
    BY <1>4, <2>2, <2>3 DEF Called, Remembers
<1>11. FramesInv'
  BY <1>2, <1>9, <1>10 DEF FramesInv
<1>12. FlagInv'
  <2>1. \A u \in Thread, i \in Nat, g \in Frame, e \in Easy :
           At(u, i, g)' /\ Writes(g, e) <=> At(u, i, g) /\ Writes(g, e)
    BY <1>2, <1>4 DEF Writes
  <2>2. \A g \in Frame, e \in Easy : Writes(g, e)' <=> Writes(g, e)
    BY DEF Writes
  <2> QED
    BY <1>1, <2>1, <2>2 DEF CbInv, FlagInv
<1>13. PendingInv'
  BY <1>1 DEF CbInv, PendingInv
<1> QED
  BY <1>3, <1>11, <1>12, <1>13 DEF CbInv

\* A window ends with a test for exceptions, without one, or with nothing.
LEMMA CloseEnds ==
    ASSUME TypeOK, NEW t \in Thread, Close(t)
    PROVE  \/ /\ pending' = [pending EXCEPT ![t] = "none"]
              /\ told' = [told EXCEPT ![t] = "go"]
              /\ \E r \in Exception : raised' = [raised EXCEPT ![t] = r]
           \/ pending' = pending /\ told' = told /\ raised' = raised
<1>1. CASE Top(t).what = "link"
  BY <1>1 DEF Close, Unchecked, Exception
<1>2. CASE Top(t).what = "dealloc"
  BY <1>2 DEF Close, Unasked
<1>3. CASE Top(t).what # "link" /\ Top(t).what # "dealloc"
  <2>1. CheckPending(t)
    BY <1>3 DEF Close
  <2>2. CASE pending[t] # "none"
    BY <2>1, <2>2 DEF CheckPending, TypeOK
  <2>3. CASE pending[t] = "none"
    BY <2>1, <2>3 DEF CheckPending, Exception
  <2> QED
    BY <2>1, <2>2, <2>3
<1> QED
  BY <1>1, <1>2, <1>3

\* Closing a window puts back what its slot held: windows below it of the same
\* slot are of the same thread, and if there are none it was free.
LEMMA CloseStep ==
    ASSUME TypeOK, CbInv, NEW t \in Thread, Close(t)
    PROVE  TypeOK' /\ CbInv'
<1>0. stack[t] # <<>> /\ Top(t).at = "window"
  BY DEF Close, InWindow
<1> PICK n \in Nat \ {0} : n = Len(stack[t])
  BY <1>0, TopAt
<1> PICK h \in Frame : h = Top(t)
  BY <1>0, TopAt
<1>1. /\ Pop(t) /\ h.at = "window"
      /\ state' = [state EXCEPT ![Slot(h.of)] = h.saved]
      /\ on' = on /\ ws_write_cb_running' = ws_write_cb_running
  BY <1>0 DEF Close, Saved
<1>2. /\ stack' \in [Thread -> Seq(Frame)]
      /\ \A u \in Thread, i \in Nat, g \in Frame :
           At(u, i, g)' <=> At(u, i, g) /\ (u = t => i < n)
      /\ \A u \in Thread \ {t} : stack'[u] = stack[u]
  BY <1>0, <1>1, PopAt
<1>3. At(t, n, h) /\ h.saved \in Thread \cup {NULL} /\ h.of \in Easy \cup Multi
  BY <1>0, TopAt DEF Frame
<1>c. \/ /\ pending' = [pending EXCEPT ![t] = "none"]
         /\ told' = [told EXCEPT ![t] = "go"]
         /\ \E r \in Exception : raised' = [raised EXCEPT ![t] = r]
      \/ pending' = pending /\ told' = told /\ raised' = raised
  BY CloseEnds
<1>4. /\ raised' \in [Thread -> Exception] /\ pending' \in [Thread -> Exception]
      /\ told' \in [Thread -> Answer]
  BY <1>c DEF TypeOK, Exception, Answer
<1>5. TypeOK'
  BY <1>1, <1>2, <1>3, <1>4, SlotFacts DEF TypeOK
<1>6. \A u \in Thread, i \in Nat, g \in Frame : At(u, i, g) =>
         (u = t => i <= n) /\ g.of \in Easy \cup Multi
  BY DEF At, Frame
<1>7. \A y \in Easy \cup Multi : Slot(y)' = Slot(y) /\ Slot(y) \in Easy \cup Multi
  BY <1>1, SlotFacts DEF Slot
<1>8. Owned(t, n, h)
  BY <1>3 DEF CbInv, FramesInv
<1>9. \A u \in Thread, i \in Nat, g \in Frame :
         At(u, i, g)' /\ g.at = "window" => state'[Slot(g.of)] = u
  <2> SUFFICES ASSUME NEW u \in Thread, NEW i \in Nat, NEW g \in Frame,
                      At(u, i, g), u = t => i < n, g.at = "window"
               PROVE  state'[Slot(g.of)] = u
    BY <1>2
  <2>1. state[Slot(g.of)] = u
    BY DEF CbInv, FramesInv, Owned
  <2>2. CASE Slot(g.of) # Slot(h.of)
    BY <1>1, <1>3, <1>6, <1>7, <2>1, <2>2 DEF TypeOK
  <2>3. CASE Slot(g.of) = Slot(h.of)
    <3>1. u = t
      BY <1>1, <1>8, <2>1, <2>3 DEF Owned
    <3>2. h.saved = t
      BY <1>1, <1>8, <2>3, <3>1 DEF Owned
    <3> QED
      BY <1>1, <1>3, <1>7, <2>3, <3>1, <3>2 DEF TypeOK
  <2> QED
    BY <2>2, <2>3
<1>10. \A w \in Frame : Reachable(w)' = Reachable(w)
  BY <1>1 DEF Reachable
<1>11. FramesInv'
  <2> SUFFICES ASSUME NEW u \in Thread, NEW i \in Nat, NEW g \in Frame,
                      At(u, i, g), u = t => i < n
               PROVE  Called(u, i, g)' /\ Owned(u, i, g)' /\ Remembers(u, i, g)' /\ Sends(u, i, g)'
    BY <1>2 DEF FramesInv
  <2>1. Called(u, i, g) /\ Owned(u, i, g) /\ Remembers(u, i, g) /\ Sends(u, i, g)
    BY DEF CbInv, FramesInv
  <2>2. \A j \in Nat, k \in Frame : j < i => (At(u, j, k)' <=> At(u, j, k))
    BY <1>2, <1>3
  <2>3. Called(u, i, g)'
    <3>1. g.at = "callback" => i - 1 \in Nat
      BY <2>1 DEF Called, At
    <3> QED
      BY <1>10, <2>1, <2>2, <3>1 DEF Called
  <2>4. Owned(u, i, g)'
    <3>1. \A j \in Nat, k \in Frame : At(u, j, k) => Slot(k.of)' = Slot(k.of)
      BY <1>6, <1>7
    <3>2. g.at = "window" => state'[Slot(g.of)] = u
      BY <1>2, <1>9
    <3> QED
      BY <2>1, <2>2, <3>1, <3>2 DEF Owned
  <2>5. Remembers(u, i, g)'
    BY <2>1, <2>2 DEF Remembers, Writes
  <2>6. Sends(u, i, g)'
    BY <2>1, <2>2 DEF Sends, Writes
  <2> QED
    BY <2>3, <2>4, <2>5, <2>6
<1>12. FlagInv'
  <2>1. \A u \in Thread, i \in Nat, g \in Frame, e \in Easy :
           At(u, i, g)' /\ Writes(g, e) <=> At(u, i, g) /\ Writes(g, e)
    <3>1. \A i \in Nat, g \in Frame : At(t, i, g) /\ ~(i < n) => g = h
      BY <1>3, <1>6 DEF At
    <3> QED
      BY <1>1, <1>2, <3>1 DEF Writes
  <2>2. \A g \in Frame, e \in Easy : Writes(g, e)' <=> Writes(g, e)
    BY DEF Writes
  <2> QED
    BY <1>1, <2>1, <2>2 DEF CbInv, FlagInv
<1>13. PendingInv'
  BY <1>c DEF CbInv, PendingInv, TypeOK
<1> QED
  BY <1>5, <1>11, <1>12, <1>13 DEF CbInv

-----------------------------------------------------------------------------
(* Callbacks *)

\* Entering a callback h of x, a write callback or another.
LEMMA EnterFrame ==
    ASSUME TypeOK, CbInv, NEW t \in Thread, NEW x \in Easy \cup Multi, NEW h \in Frame,
           InWindow(t), x \in Reachable(Top(t)), Push(t, h),
           h.at = "callback", h.what \in {"write", "mime", "other"}, h.of = x, h.saved = NULL,
           h.what = "mime" => "mime" \in Uses,
           IF h.what = "write"
           THEN /\ x \in Easy /\ (h.prev <=> x \in ws_write_cb_running)
                /\ ws_write_cb_running' = ws_write_cb_running \cup {x}
           ELSE ws_write_cb_running' = ws_write_cb_running,
           UNCHANGED <<on, state, pending, told, raised>>
    PROVE  TypeOK' /\ CbInv'
<1>0. stack[t] # <<>> /\ Top(t).at = "window"
  BY DEF InWindow
<1> PICK n \in Nat : n = Len(stack[t])
  BY <1>0, TopAt
<1> PICK w \in Frame : w = Top(t)
  BY <1>0, TopAt
<1>1. /\ stack' \in [Thread -> Seq(Frame)]
      /\ \A u \in Thread, i \in Nat, g \in Frame :
           At(u, i, g)' <=> At(u, i, g) \/ (u = t /\ i = n + 1 /\ g = h)
      /\ \A u \in Thread \ {t} : stack'[u] = stack[u]
  BY PushAt
<1>2. At(t, n, w) /\ w.at = "window" /\ x \in Reachable(w)
  BY <1>0, TopAt
<1>3. TypeOK'
  BY <1>1 DEF TypeOK
<1>4. \A u \in Thread, i \in Nat, g \in Frame : At(u, i, g) => (u = t => i <= n)
  BY DEF At
<1>5. \A y \in Easy \cup Multi, k \in Frame :
         Slot(y)' = Slot(y) /\ Reachable(k)' = Reachable(k)
  BY DEF Slot, Reachable
<1>6. state[Slot(x)] = t
  <2>1. Owned(t, n, w)
    BY <1>2 DEF CbInv, FramesInv
  <2> QED
    BY <1>2, <2>1, SlotFacts DEF Owned
<1>7. \A u \in Thread, i \in Nat, g \in Frame : At(u, i, g) /\ Writes(g, x) => u = t
  BY <1>6, WriteOwned DEF CbInv, Writes
<1>8. ASSUME NEW u \in Thread, NEW i \in Nat, NEW g \in Frame, At(u, i, g)
      PROVE  Called(u, i, g)' /\ Owned(u, i, g)' /\ Remembers(u, i, g)' /\ Sends(u, i, g)'
  <2>1. Called(u, i, g) /\ Owned(u, i, g) /\ Remembers(u, i, g) /\ Sends(u, i, g)
    BY <1>8 DEF CbInv, FramesInv
  <2>2. \A j \in Nat, k \in Frame : j < i => (At(u, j, k)' <=> At(u, j, k))
    BY <1>1, <1>4, <1>8
  <2>3. Called(u, i, g)'
    <3>1. g.at = "callback" => i - 1 \in Nat
      BY <2>1 DEF Called, At
    <3> QED
      BY <1>5, <2>1, <2>2, <3>1 DEF Called
  <2>4. Owned(u, i, g)'
    <3>1. \A k \in Frame : Slot(k.of)' = Slot(k.of)
      BY <1>5 DEF Frame
    <3> QED
      BY <2>1, <2>2, <3>1 DEF Owned
  <2>5. Remembers(u, i, g)'
    BY <2>1, <2>2 DEF Remembers, Writes
  <2>6. Sends(u, i, g)'
    BY <2>1, <2>2 DEF Sends, Writes
  <2> QED
    BY <2>3, <2>4, <2>5, <2>6
<1>9. Called(t, n + 1, h)' /\ Owned(t, n + 1, h)' /\ Remembers(t, n + 1, h)' /\ Sends(t, n + 1, h)'
  <2>1. \A j \in Nat, k \in Frame : j < n + 1 => (At(t, j, k)' <=> At(t, j, k))
    BY <1>1
  <2>2. Called(t, n + 1, h)'
    BY <1>1, <1>2, <1>5 DEF Called
  <2>3. Remembers(t, n + 1, h)'
    <3> SUFFICES ASSUME h.what = "write"
                 PROVE  h.prev <=> \E j \in Nat, g \in Frame :
                          At(t, j, g) /\ j < n + 1 /\ Writes(g, x)
      BY <2>1 DEF Remembers, Writes
    <3>1. x \in Easy /\ (h.prev <=> x \in ws_write_cb_running)
      OBVIOUS
    <3>2. x \in ws_write_cb_running <=>
            \E j \in Nat, g \in Frame : At(t, j, g) /\ Writes(g, x)
      BY <1>7, <3>1 DEF CbInv, FlagInv
    <3>3. \A j \in Nat, g \in Frame : At(t, j, g) => j < n + 1
      BY <1>4
    <3> QED
      BY <3>1, <3>2, <3>3
  <2> QED
    BY <2>2, <2>3 DEF Owned, Sends
<1>10. FramesInv'
  BY <1>1, <1>8, <1>9 DEF FramesInv
<1>11. FlagInv'
  <2>1. n + 1 \in Nat /\ At(t, n + 1, h)'
    BY <1>1
  <2>2. \A g \in Frame, e \in Easy : Writes(g, e)' <=> Writes(g, e)
    BY DEF Writes
  <2>3. ASSUME NEW e \in Easy
        PROVE  (\E u \in Thread, i \in Nat, g \in Frame : At(u, i, g)' /\ Writes(g, e))
               <=> Writes(h, e) \/ e \in ws_write_cb_running
    BY <1>1, <2>1 DEF CbInv, FlagInv
  <2>4. \A e \in Easy : e \in ws_write_cb_running' <=> Writes(h, e) \/ e \in ws_write_cb_running
    BY DEF Writes
  <2> QED
    BY <2>2, <2>3, <2>4 DEF FlagInv
<1>12. PendingInv'
  BY DEF CbInv, PendingInv
<1> QED
  BY <1>3, <1>10, <1>11, <1>12 DEF CbInv

LEMMA EnterStep ==
    ASSUME TypeOK, CbInv, NEW t \in Thread, NEW x \in Easy \cup Multi, Enter(t, x)
    PROVE  TypeOK' /\ CbInv'
<1>1. /\ InWindow(t) /\ x \in Reachable(Top(t))
      /\ UNCHANGED <<on, state, pending, told, raised>>
  BY DEF Enter, MayEnter
<1>2. CASE /\ x \in Easy
           /\ Push(t, Callback("write", x, x \in ws_write_cb_running))
           /\ ws_write_cb_running' = ws_write_cb_running \cup {x}
  <2> DEFINE prev == x \in ws_write_cb_running
  <2>1. prev \in BOOLEAN /\ (prev <=> x \in ws_write_cb_running)
    OBVIOUS
  <2> HIDE DEF prev
  <2>2. Push(t, Callback("write", x, prev))
    BY <1>2 DEF prev
  <2>3. Callback("write", x, prev) \in Frame
    BY <2>1, FrameTypes
  <2> PICK h \in Frame : h = Callback("write", x, prev)
    BY <2>3
  <2>4. /\ h.at = "callback" /\ h.what = "write" /\ h.of = x /\ h.saved = NULL
        /\ h.prev = prev
    BY DEF Callback
  <2> QED
    BY <1>1, <1>2, <2>1, <2>2, <2>4, EnterFrame
<1>3. CASE Push(t, Callback("other", x, FALSE)) /\ UNCHANGED ws_write_cb_running
  <2>1. Callback("other", x, FALSE) \in Frame
    BY FrameTypes
  <2> PICK h \in Frame : h = Callback("other", x, FALSE)
    BY <2>1
  <2>2. h.at = "callback" /\ h.what = "other" /\ h.of = x /\ h.saved = NULL
    BY DEF Callback
  <2> QED
    BY <1>1, <1>3, <2>2, EnterFrame
<1> QED
  BY <1>2, <1>3 DEF Enter

LEMMA EnterMimeStep ==
    ASSUME TypeOK, CbInv, NEW t \in Thread, NEW e \in Easy, EnterMime(t, e)
    PROVE  TypeOK' /\ CbInv'
<1> PICK prev \in BOOLEAN : prev = (pending[t] # "none")
  OBVIOUS
<1>1. /\ "mime" \in Uses /\ InWindow(t) /\ e \in Reachable(Top(t))
      /\ Push(t, Callback("mime", e, prev))
      /\ UNCHANGED <<on, state, ws_write_cb_running, pending, told, raised>>
  BY DEF EnterMime
<1>2. Callback("mime", e, prev) \in Frame
  BY FrameTypes
<1> PICK h \in Frame : h = Callback("mime", e, prev)
  BY <1>2
<1>3. h.at = "callback" /\ h.what = "mime" /\ h.of = e /\ h.saved = NULL
  BY DEF Callback
<1> QED
  BY <1>1, <1>3, EnterFrame

\* Whatever Python code ends with, libcurl is not told to go on while an
\* exception is left.
LEMMA Answers ==
    ASSUME NEW r \in Result, NEW f \in Frame, NEW out \in Outcomes(f, r)
    PROVE  /\ out.answer \in Answer /\ out.left \in Exception
           /\ out.left # "none" => out.answer # "go"
<1> DEFINE Good(o) == /\ o.answer \in Answer /\ o.left \in Exception
                      /\ o.left # "none" => o.answer # "go"
<1>1. \A answer \in {"stop", "ignored"}, Left \in SUBSET Exception :
         \A o \in Ends(answer, Left) : Good(o)
  BY DEF Ends, Answer
<1>2. \A o \in Fine : Good(o)
  BY DEF Fine, Ends, Answer, Exception
<1>3. Printed(r) \in SUBSET Exception
  BY DEF Printed, Exception
<1>4. r # "fine" => ToInt(r) \in SUBSET Exception
  BY DEF ToInt, Exception, Result
<1> HIDE DEF Good
<1>5. \A o \in Prints(r) : Good(o)
  BY <1>1, <1>2, <1>3 DEF Prints
<1>6. \A o \in Passes(r) : Good(o)
  BY <1>1, <1>2, <1>4 DEF Passes
<1>7. \A o \in Ends("ignored", Printed(r)) : Good(o)
  BY <1>1, <1>3
<1>c. \A o \in closesocket_callback(r) : Good(o)
  <2>1. (IF r = "fine" THEN {"none"} ELSE ToInt(r)) \in SUBSET Exception
    BY <1>4 DEF Exception
  <2> QED
    BY <1>1, <2>1 DEF closesocket_callback
<1>o. \A o \in opensocket_callback(r) : Good(o)
  <2>1. {"error"} \in SUBSET Exception
    BY DEF Exception
  <2> QED
    BY <1>1, <1>5, <2>1 DEF opensocket_callback
<1>8. \A o \in EasyCallbacks(r) : Good(o)
  BY <1>2, <1>5, <1>6, <1>7, <1>c, <1>o
     DEF EasyCallbacks, sockopt_cb, ssh_key_cb, ssl_ctx_callback,
         seek_callback, read_callback, progress_callback, xferinfo_callback,
         debug_callback, ioctl_callback, prereq_callback, fnmatch_callback,
         resolver_start_callback, trailer_callback, hstswrite_callback, hstsread_callback
<1>9. \A o \in MultiCallbacks(r) : Good(o)
  BY <1>5, <1>7 DEF MultiCallbacks, multi_socket_callback, multi_timer_callback,
                    multi_notify_callback
<1>m. \A o \in MimeCallbacks(r) : Good(o)
  <2>1. {"none"} \in SUBSET Exception
    BY DEF Exception
  <2> QED
    BY <1>1, <1>5, <2>1 DEF MimeCallbacks, curlmimepart_read_callback,
                            curlmimepart_seek_callback, curlmimepart_free_callback
<1>10. Good(out)
  BY <1>5, <1>8, <1>9, <1>m DEF Outcomes, util_write_callback
<1> QED
  BY <1>10 DEF Good

\* A callback returns into the window below it.  A write callback puts the flag
\* back to what it was when it began: set if it is inside another one of its
\* easy.
LEMMA ReturnStep ==
    ASSUME TypeOK, CbInv, NEW t \in Thread, NEW r \in Result, Return(t, r)
    PROVE  TypeOK' /\ CbInv'
<1>0. stack[t] # <<>> /\ Top(t).at = "callback"
  BY DEF Return
<1> PICK n \in Nat : n = Len(stack[t]) /\ n > 0
  BY <1>0, TopAt
<1> PICK h \in Frame : h = Top(t)
  BY <1>0, TopAt
<1>1. /\ Pop(t) /\ h.at = "callback" /\ on' = on /\ state' = state
      /\ raised' = [raised EXCEPT ![t] = "none"]
      /\ ws_write_cb_running' = FlagAfter(h)
  BY <1>0 DEF Return
<1>3. /\ stack' \in [Thread -> Seq(Frame)]
      /\ \A u \in Thread, i \in Nat, g \in Frame :
           At(u, i, g)' <=> At(u, i, g) /\ (u = t => i < n)
      /\ Len(stack'[t]) = n - 1
      /\ \A u \in Thread \ {t} : stack'[u] = stack[u]
  BY <1>0, <1>1, PopAt
<1>4. At(t, n, h)
  BY <1>0, TopAt
<1>5. Called(t, n, h) /\ Remembers(t, n, h)
  BY <1>4 DEF CbInv, FramesInv
<1>7. \A u \in Thread, i \in Nat, g \in Frame : At(u, i, g) /\ ~(u = t => i < n) => g = h
  BY <1>4 DEF At
<1>8. /\ \A y \in Easy \cup Multi : Slot(y)' = Slot(y)
      /\ \A k \in Frame : Reachable(k)' = Reachable(k)
  BY <1>1 DEF Slot, Reachable
<1>9. FramesInv'
  <2> SUFFICES ASSUME NEW u \in Thread, NEW i \in Nat, NEW g \in Frame,
                      At(u, i, g), u = t => i < n
               PROVE  Called(u, i, g)' /\ Owned(u, i, g)' /\ Remembers(u, i, g)' /\ Sends(u, i, g)'
    BY <1>3 DEF FramesInv
  <2>1. Called(u, i, g) /\ Owned(u, i, g) /\ Remembers(u, i, g) /\ Sends(u, i, g)
    BY DEF CbInv, FramesInv
  <2>2. \A j \in Nat, k \in Frame : j < i => (At(u, j, k)' <=> At(u, j, k))
    BY <1>3
  <2>3. Called(u, i, g)'
    <3>1. g.at = "callback" => i - 1 \in Nat
      BY <2>1 DEF Called, At
    <3> SUFFICES ASSUME g.at = "callback"
                 PROVE  \E w \in Frame : At(u, i - 1, w)' /\ w.at = "window" /\ g.of \in Reachable(w)'
      BY <2>1 DEF Called
    <3>2. PICK w \in Frame : At(u, i - 1, w) /\ w.at = "window" /\ g.of \in Reachable(w)
      BY <2>1 DEF Called
    <3>3. At(u, i - 1, w)'
      BY <2>2, <3>1, <3>2
    <3> QED
      BY <1>8, <3>2, <3>3
  <2>4. Owned(u, i, g)'
    <3>1. \A k \in Frame : Slot(k.of)' = Slot(k.of)
      BY <1>8 DEF Frame
    <3> QED
      BY <1>1, <2>1, <2>2, <3>1 DEF Owned
  <2>5. Remembers(u, i, g)'
    BY <2>1, <2>2 DEF Remembers, Writes
  <2>6. Sends(u, i, g)'
    BY <2>1, <2>2 DEF Sends, Writes
  <2> QED
    BY <2>3, <2>4, <2>5, <2>6
<1>10. FlagInv'
  <2> SUFFICES ASSUME NEW e \in Easy
               PROVE  e \in ws_write_cb_running' <=>
                        \E u \in Thread, i \in Nat, g \in Frame :
                          At(u, i, g) /\ (u = t => i < n) /\ Writes(g, e)
    BY <1>3 DEF FlagInv, Writes
  <2>1. CASE ~Writes(h, e)
    <3>1. e \in ws_write_cb_running' <=> e \in ws_write_cb_running
      BY <1>1, <2>1 DEF FlagAfter, Writes
    <3> QED
      BY <1>7, <2>1, <3>1 DEF CbInv, FlagInv
  <2>2. CASE Writes(h, e)
    <3>1. e \in ws_write_cb_running
      BY <1>4, <2>2 DEF CbInv, FlagInv
    <3>2. e \in ws_write_cb_running' <=> h.prev
      BY <1>1, <2>2, <3>1 DEF FlagAfter, Writes, Frame
    <3>3. h.prev <=> \E j \in Nat, g \in Frame : At(t, j, g) /\ j < n /\ Writes(g, e)
      BY <1>5, <2>2 DEF Remembers, Writes
    <3>4. state[Slot(e)] = t
      BY <1>4, <2>2, WriteOwned DEF CbInv, Writes
    <3>5. \A u \in Thread, i \in Nat, g \in Frame : At(u, i, g) /\ Writes(g, e) => u = t
      BY <3>4, WriteOwned DEF CbInv, Writes
    <3> QED
      BY <3>2, <3>3, <3>5
  <2> QED
    BY <2>1, <2>2
<1>r. PICK out \in Outcomes(h, r) : /\ told' = [told EXCEPT ![t] = out.answer]
                                   /\ pending' = [pending EXCEPT ![t] = out.left]
  BY DEF Return
<1>2. /\ out.answer \in Answer /\ out.left \in Exception
      /\ out.left # "none" => out.answer # "go"
  BY Answers
<1>6. TypeOK'
  <2>1. ws_write_cb_running' \subseteq Easy
    BY <1>1 DEF FlagAfter, TypeOK
  <2> QED
    BY <1>1, <1>2, <1>3, <1>r, <2>1 DEF TypeOK, Exception
<1>11. PendingInv'
  <2>2. \A u \in Thread \ {t} : pending'[u] = pending[u] /\ told'[u] = told[u]
    BY <1>r DEF TypeOK
  <2>3. pending'[t] = out.left /\ told'[t] = out.answer
    BY <1>r DEF TypeOK
  <2> QED
    BY <1>2, <2>2, <2>3 DEF CbInv, PendingInv
<1> QED
  BY <1>6, <1>9, <1>10, <1>11 DEF CbInv

\* The step changes neither stacks nor slots nor flags.
LEMMA QuietStep ==
    ASSUME TypeOK, CbInv, UNCHANGED <<on, state, ws_write_cb_running, stack>>,
           told' \in [Thread -> Answer], pending' \in [Thread -> Exception],
           raised' \in [Thread -> Exception],
           \A t \in Thread : told'[t] = told[t] \/ told'[t] # "go",
           \A t \in Thread : pending'[t] \in {"none", pending[t]}
    PROVE  TypeOK' /\ CbInv'
<1>1. TypeOK'
  BY DEF TypeOK
<1>2. \A u \in Thread, i \in Nat, g \in Frame : At(u, i, g)' = At(u, i, g)
  BY DEF At
<1>3. \A k \in Frame : Slot(k.of)' = Slot(k.of) /\ Reachable(k)' = Reachable(k)
  BY DEF Slot, Reachable
<1>4. FramesInv'
  <2> SUFFICES ASSUME NEW u \in Thread, NEW i \in Nat, NEW g \in Frame, At(u, i, g)
               PROVE  Called(u, i, g)' /\ Owned(u, i, g)' /\ Remembers(u, i, g)' /\ Sends(u, i, g)'
    BY <1>2 DEF FramesInv
  <2>1. Called(u, i, g) /\ Owned(u, i, g) /\ Remembers(u, i, g) /\ Sends(u, i, g)
    BY DEF CbInv, FramesInv
  <2>2. Called(u, i, g)'
    <3>1. \A w \in Frame : At(u, i - 1, w)' = At(u, i - 1, w)
      BY DEF At
    <3> QED
      BY <1>3, <2>1, <3>1 DEF Called
  <2>3. Owned(u, i, g)'
    BY <1>2, <1>3, <2>1 DEF Owned
  <2>4. Remembers(u, i, g)'
    BY <2>1 DEF Remembers, Writes, At
  <2>5. Sends(u, i, g)'
    BY <2>1 DEF Sends, Writes, At
  <2> QED
    BY <2>2, <2>3, <2>4, <2>5
<1>5. FlagInv'
  BY DEF CbInv, FlagInv, Writes, At
<1>6. PendingInv'
  BY DEF CbInv, PendingInv
<1> QED
  BY <1>1, <1>4, <1>5, <1>6 DEF CbInv

-----------------------------------------------------------------------------
(* The invariant *)

LEMMA InitHolds == Init => TypeOK /\ CbInv
<1> SUFFICES ASSUME Init PROVE TypeOK /\ CbInv
  OBVIOUS
<1>1. TypeOK
  BY DEF Init, TypeOK, Exception, Answer
<1>2. \A t \in Thread, i \in Nat, f \in Frame : ~At(t, i, f)
  BY DEF Init, At
<1>3. FramesInv /\ FlagInv
  BY <1>2 DEF Init, FramesInv, FlagInv
<1>4. PendingInv
  BY DEF Init, PendingInv
<1> QED
  BY <1>1, <1>3, <1>4 DEF CbInv

LEMMA StepKeeps == TypeOK /\ CbInv /\ [Next]_vars => TypeOK' /\ CbInv'
<1> SUFFICES ASSUME TypeOK, CbInv, [Next]_vars PROVE TypeOK' /\ CbInv'
  OBVIOUS
<1>1. ASSUME NEW t \in Thread, NEW e \in Easy, Perform(t, e)
      PROVE  TypeOK' /\ CbInv'
  BY <1>1, OpenStep DEF Perform, WindowKind
<1>2. ASSUME NEW t \in Thread, NEW e \in Easy, Pause(t, e)
      PROVE  TypeOK' /\ CbInv'
  BY <1>2, OpenStep DEF Pause, WindowKind
<1>3. ASSUME NEW t \in Thread, NEW e \in Easy, WsSend(t, e)
      PROVE  TypeOK' /\ CbInv'
  BY <1>3, OpenStep DEF WsSend, MaySend, WindowKind
<1>4. ASSUME NEW t \in Thread, NEW m \in Multi, Drive(t, m)
      PROVE  TypeOK' /\ CbInv'
  BY <1>4, OpenStep DEF Drive, WindowKind
<1>5. ASSUME NEW t \in Thread, NEW x \in Easy \cup Multi, Link(t, x) \/ Dealloc(t, x)
      PROVE  TypeOK' /\ CbInv'
  BY <1>5, OpenStep DEF Link, Dealloc, WindowKind
<1>6. ASSUME NEW t \in Thread, NEW x \in Easy \cup Multi, Enter(t, x)
      PROVE  TypeOK' /\ CbInv'
  BY <1>6, EnterStep
<1>7. ASSUME NEW t \in Thread, NEW r \in Result, Return(t, r)
      PROVE  TypeOK' /\ CbInv'
  BY <1>7, ReturnStep
<1>8. ASSUME NEW t \in Thread, Skip(t)
      PROVE  TypeOK' /\ CbInv'
  <2> PICK answer \in {"stop", "ignored"} : told' = [told EXCEPT ![t] = answer]
    BY <1>8 DEF Skip
  <2>1. /\ UNCHANGED <<on, state, ws_write_cb_running, stack, pending, raised>>
        /\ told' \in [Thread -> Answer] /\ pending' \in [Thread -> Exception]
        /\ raised' \in [Thread -> Exception]
        /\ \A u \in Thread : told'[u] = told[u] \/ told'[u] # "go"
    BY <1>8 DEF Skip, TypeOK, Answer
  <2> QED
    BY <2>1, QuietStep
<1>9. ASSUME NEW t \in Thread, Close(t)
      PROVE  TypeOK' /\ CbInv'
  BY <1>9, CloseStep
<1>10. CASE UNCHANGED vars
  <2>1. /\ UNCHANGED <<on, state, ws_write_cb_running, stack, pending, raised>>
        /\ told' \in [Thread -> Answer] /\ pending' \in [Thread -> Exception]
        /\ raised' \in [Thread -> Exception] /\ told' = told
    BY <1>10 DEF vars, TypeOK
  <2> QED
    BY <2>1, QuietStep
<1>11. ASSUME NEW t \in Thread, Notice(t)
       PROVE  TypeOK' /\ CbInv'
  <2>1. /\ UNCHANGED <<on, state, ws_write_cb_running, stack, told>>
        /\ pending' = [pending EXCEPT ![t] = "none"]
        /\ raised' = [raised EXCEPT ![t] = "SystemError"]
    BY <1>11 DEF Notice
  <2>2. /\ told' \in [Thread -> Answer] /\ pending' \in [Thread -> Exception]
        /\ raised' \in [Thread -> Exception]
        /\ \A u \in Thread : pending'[u] \in {"none", pending[u]}
    BY <2>1 DEF TypeOK, Exception
  <2> QED
    BY <2>1, <2>2, QuietStep
<1>12. ASSUME NEW t \in Thread, NEW e \in Easy, EnterMime(t, e)
       PROVE  TypeOK' /\ CbInv'
  BY <1>12, EnterMimeStep
<1> QED
  BY <1>1, <1>2, <1>3, <1>4, <1>5, <1>6, <1>7, <1>8, <1>9, <1>10, <1>11, <1>12 DEF Next

LEMMA Always == Spec => [](TypeOK /\ CbInv)
<1>1. Init => TypeOK /\ CbInv
  BY InitHolds
<1>2. TypeOK /\ CbInv /\ [Next]_vars => (TypeOK /\ CbInv)'
  BY StepKeeps
<1> QED
  BY <1>1, <1>2, PTL DEF Spec

-----------------------------------------------------------------------------
(* What follows *)

\* The variables keep their types; a stack holds windows and callbacks only.
THEOREM TypeCorrect == Spec => []TypeOK
<1> QED
  BY Always, PTL

\* While an exception is pending libcurl was never told to go on.
THEOREM PendingStops == Spec => []StopsWhilePending
<1>1. CbInv => StopsWhilePending
  BY DEF CbInv, PendingInv, StopsWhilePending
<1> QED
  BY <1>1, Always, PTL

\* ws_write_cb_running is set on an easy exactly while a write callback of it is
\* on a stack.
THEOREM FlagIsRight == Spec => []FlagMatches
<1>1. ASSUME TypeOK, CbInv PROVE FlagMatches
  <2> SUFFICES ASSUME NEW e \in Easy
               PROVE  e \in ws_write_cb_running <=>
                        \E t \in Thread : \E i \in 1..Len(stack[t]) :
                          /\ stack[t][i].at = "callback" /\ stack[t][i].what = "write"
                          /\ stack[t][i].of = e
    BY DEF FlagMatches
  <2>1. ASSUME NEW t \in Thread, NEW i \in 1..Len(stack[t])
        PROVE  i \in Nat /\ stack[t][i] \in Frame
    BY <1>1 DEF TypeOK
  <2>2. ASSUME NEW t \in Thread, NEW i \in 1..Len(stack[t]),
               stack[t][i].at = "callback", stack[t][i].what = "write", stack[t][i].of = e
        PROVE  e \in ws_write_cb_running
    <3>1. i \in Nat /\ stack[t][i] \in Frame
      BY <2>1
    <3> PICK f \in Frame : f = stack[t][i]
      BY <3>1
    <3>2. At(t, i, f) /\ Writes(f, e)
      BY <2>2 DEF At, Writes
    <3> QED
      BY <1>1, <3>1, <3>2 DEF CbInv, FlagInv
  <2>3. ASSUME e \in ws_write_cb_running
        PROVE  \E t \in Thread : \E i \in 1..Len(stack[t]) :
                 /\ stack[t][i].at = "callback" /\ stack[t][i].what = "write"
                 /\ stack[t][i].of = e
    <3>1. PICK t \in Thread, i \in Nat, f \in Frame : At(t, i, f) /\ Writes(f, e)
      BY <1>1, <2>3 DEF CbInv, FlagInv
    <3> QED
      BY <3>1 DEF At, Writes
  <2> QED
    BY <2>2, <2>3
<1>2. TypeOK /\ CbInv => FlagMatches
  BY <1>1
<1> QED
  BY <1>2, Always, PTL

\* ws_send() and ws_close() on an easy that is driven are in a write callback
\* of that easy, and on the thread that drives.
THEOREM SentFromWrite == Spec => []SendsInWrite
<1>1. ASSUME TypeOK, CbInv PROVE SendsInWrite
  <2> SUFFICES ASSUME NEW t \in Thread, NEW i \in 1..Len(stack[t]),
                      stack[t][i].what = "ws_send", stack[t][i].saved # NULL
               PROVE  /\ stack[t][i].saved = t
                      /\ \E j \in 1..(i - 1) :
                           stack[t][j] = Callback("write", stack[t][i].of, stack[t][j].prev)
    BY DEF SendsInWrite
  <2>1. i \in Nat /\ stack[t][i] \in Frame
    BY <1>1 DEF TypeOK
  <2> PICK f \in Frame : f = stack[t][i]
    BY <2>1
  <2>2. At(t, i, f)
    BY DEF At
  <2>3. Sends(t, i, f)
    BY <1>1, <2>1, <2>2 DEF CbInv, FramesInv
  <2>4. PICK j \in Nat, g \in Frame : At(t, j, g) /\ j < i /\ Writes(g, f.of)
    BY <2>3 DEF Sends
  <2>5. Called(t, j, g)
    BY <1>1, <2>4 DEF CbInv, FramesInv
  <2>6. g.at = "callback" /\ g.what = "write" /\ g.of = f.of /\ g.saved = NULL
    BY <2>4, <2>5 DEF Called, Writes
  <2>7. g = Callback("write", f.of, g.prev)
    BY <2>6 DEF Frame, Callback
  <2>8. j \in 1..(i - 1) /\ g = stack[t][j]
    BY <2>1, <2>4 DEF At
  <2> QED
    BY <2>3, <2>7, <2>8 DEF Sends
<1>2. TypeOK /\ CbInv => SendsInWrite
  BY <1>1
<1> QED
  BY <1>2, Always, PTL

-----------------------------------------------------------------------------
(* Where an exception may be pending *)

\* A mime callback that began with an exception pending.
Excused(f) == f.at = "callback" /\ f.what = "mime" /\ f.prev

\* Unless the callbacks of the windows that do not test for exceptions leave
\* some, one is pending in a window that tests, in an excused callback, or in a
\* window that such a callback has opened.
Confined == \A t \in Thread : pending[t] # "none" =>
    /\ stack[t] # <<>>
    /\ \/ InWindow(t) /\ Top(t).what \notin {"link", "dealloc"}
       \/ Excused(Top(t))
       \/ InWindow(t) /\ Len(stack[t]) > 1 /\ Excused(Around(t))

\* The innermost frame goes: the one below it is on top.
LEMMA PopTop ==
    ASSUME TypeOK, NEW t \in Thread, stack[t] # <<>>, Pop(t)
    PROVE  /\ \A u \in Thread \ {t} : stack'[u] = stack[u]
           /\ Len(stack[t]) > 1 => stack'[t] # <<>> /\ Top(t)' = Around(t)
<1>1. /\ stack[t] \in Seq(Frame) /\ stack'[t] = SubSeq(stack[t], 1, Len(stack[t]) - 1)
      /\ \A u \in Thread \ {t} : stack'[u] = stack[u]
      /\ Len(stack[t]) \in Nat \ {0}
  BY TopAt DEF TypeOK, Pop
<1>2. /\ Len(stack'[t]) = Len(stack[t]) - 1
      /\ \A i \in 1..(Len(stack[t]) - 1) : stack'[t][i] = stack[t][i]
  BY <1>1
<1>3. Len(stack[t]) > 1 => stack'[t] # <<>> /\ Top(t)' = Around(t)
  BY <1>1, <1>2 DEF Top, Around
<1> QED
  BY <1>1, <1>3

LEMMA ConfinedStep ==
    ASSUME "link" \notin Uses, TypeOK, CbInv, Confined, [Next]_vars
    PROVE  Confined'
<1>1. ASSUME NEW t \in Thread, \A u \in Thread \ {t} : stack'[u] = stack[u],
             \A u \in Thread \ {t} : pending'[u] = pending[u],
             pending'[t] # "none" =>
               /\ stack'[t] # <<>>
               /\ \/ InWindow(t)' /\ Top(t)'.what \notin {"link", "dealloc"}
                  \/ Excused(Top(t)')
                  \/ InWindow(t)' /\ Len(stack'[t]) > 1 /\ Excused(Around(t)')
      PROVE  Confined'
  BY <1>1 DEF Confined, InWindow, Top, Around, Excused
<1>2. ASSUME NEW t \in Thread, NEW what, NEW x, Open(t, what, x)
      PROVE  Confined'
  <2>1. /\ stack[t] \in Seq(Frame) /\ pending' = pending /\ ~InWindow(t)
        /\ stack' = [stack EXCEPT ![t] = Append(@, Window(what, x, GetState(x)))]
    BY <1>2 DEF Open, Push, InPython, TypeOK
  <2>2. /\ stack'[t] = Append(stack[t], Window(what, x, GetState(x)))
        /\ \A u \in Thread \ {t} : stack'[u] = stack[u]
    BY <2>1 DEF TypeOK
  <2>3. /\ stack'[t] # <<>> /\ Top(t)' = Window(what, x, GetState(x))
        /\ stack[t] # <<>> => Len(stack'[t]) > 1 /\ Around(t)' = Top(t)
    BY <2>1, <2>2 DEF Top, Around
  <2>4. InWindow(t)'
    BY <2>3 DEF InWindow, Window
  <2>5. pending[t] # "none" => stack[t] # <<>> /\ Excused(Top(t))
    BY <2>1 DEF Confined
  <2> QED
    BY <1>1, <2>1, <2>2, <2>3, <2>4, <2>5
<1>3. ASSUME NEW t \in Thread, NEW x \in Easy \cup Multi, Enter(t, x)
      PROVE  Confined'
  BY <1>1, <1>3 DEF Enter, MayEnter, Push, TypeOK
<1>4. ASSUME NEW t \in Thread, NEW e \in Easy, EnterMime(t, e)
      PROVE  Confined'
  <2> DEFINE h == Callback("mime", e, pending[t] # "none")
  <2>1. /\ stack[t] \in Seq(Frame) /\ pending' = pending
        /\ stack' = [stack EXCEPT ![t] = Append(@, h)]
    BY <1>4 DEF EnterMime, Push, TypeOK
  <2>2. /\ stack'[t] # <<>> /\ Top(t)' = h
        /\ \A u \in Thread \ {t} : stack'[u] = stack[u]
    BY <2>1 DEF Top, TypeOK
  <2>3. pending[t] # "none" => Excused(h)
    BY DEF Excused, Callback
  <2> QED
    BY <1>1, <2>1, <2>2, <2>3
<1>5. ASSUME NEW t \in Thread, NEW r \in Result, Return(t, r)
      PROVE  Confined'
  <2>1. stack[t] # <<>> /\ Top(t).at = "callback" /\ Pop(t)
    BY <1>5 DEF Return
  <2>2. PICK w \in Frame : At(t, Len(stack[t]) - 1, w) /\ w.at = "window"
    BY <2>1, TopAt DEF CbInv, FramesInv, Called
  <2>3. Len(stack[t]) > 1 /\ Around(t) = w
    BY <2>1, <2>2, TopAt DEF At, Around
  <2>4. /\ \A u \in Thread \ {t} : stack'[u] = stack[u]
        /\ stack'[t] # <<>> /\ Top(t)' = w
    BY <2>1, <2>3, PopTop
  <2>5. InWindow(t)'
    BY <2>2, <2>4 DEF InWindow
  <2>6. PICK left : /\ left = "none" \/ w.what \notin {"link", "dealloc"}
                    /\ pending' = [pending EXCEPT ![t] = left]
    BY <1>5, <2>3 DEF Return
  <2>7. pending'[t] = left /\ \A u \in Thread \ {t} : pending'[u] = pending[u]
    BY <2>6 DEF TypeOK
  <2> QED
    BY <1>1, <2>4, <2>5, <2>6, <2>7
<1>6. ASSUME NEW t \in Thread, Close(t)
      PROVE  Confined'
  <2>1. stack[t] # <<>> /\ Top(t).at = "window" /\ Pop(t)
    BY <1>6 DEF Close, InWindow
  <2>2. \/ pending' = [pending EXCEPT ![t] = "none"]
        \/ pending' = pending /\ Top(t).what = "dealloc"
    BY <1>6 DEF Close, Unchecked, CheckPending, Unasked
  <2>3. CASE pending' = [pending EXCEPT ![t] = "none"]
    BY <1>1, <2>1, <2>3, PopTop DEF TypeOK
  <2>4. CASE pending' = pending /\ Top(t).what = "dealloc"
    <3>1. pending[t] # "none" => Len(stack[t]) > 1 /\ Excused(Around(t))
      BY <2>4 DEF Confined, Excused
    <3> QED
      BY <1>1, <2>1, <2>4, <3>1, PopTop
  <2> QED
    BY <2>2, <2>3, <2>4
<1>7. ASSUME NEW t \in Thread, Notice(t)
      PROVE  Confined'
  BY <1>1, <1>7 DEF Notice, TypeOK
<1>8. CASE UNCHANGED <<stack, pending>>
  BY <1>8 DEF Confined, InWindow, Top, Around
<1> QED
  BY <1>2, <1>3, <1>4, <1>5, <1>6, <1>7, <1>8
     DEF Next, Perform, Pause, WsSend, Drive, Link, Dealloc, Skip, vars

LEMMA ConfinedAlways ==
    ASSUME "link" \notin Uses
    PROVE  Spec => [](TypeOK /\ CbInv /\ Confined)
<1> DEFINE Inv == TypeOK /\ CbInv /\ Confined
<1>1. Init => Inv
  <2>1. Init => Confined
    BY DEF Init, Confined
  <2> QED
    BY <2>1, InitHolds
<1>2. Inv /\ [Next]_vars => Inv'
  BY StepKeeps, ConfinedStep
<1> QED
  BY <1>1, <1>2, PTL DEF Spec

\* CleanPython: if the callbacks of the methods that do not test for exceptions
\* leave none, only the data callbacks of a mime run with one pending, however
\* deep the callbacks are nested.
THEOREM PythonIsClean ==
    ASSUME "link" \notin Uses
    PROVE  Spec => []CleanPython
<1>1. Confined => CleanPython
  BY DEF Confined, CleanPython, InPython, Excused
<1> QED
  BY <1>1, ConfinedAlways, PTL

\* A pending KeyboardInterrupt or SystemExit is cleared only by a method that
\* raises it, or in an excused callback.
LEMMA ExitStep ==
    ASSUME TypeOK, CbInv, Confined, [Next]_vars, NEW t \in Thread,
           pending[t] = "exit", pending'[t] # "exit"
    PROVE  \/ raised'[t] = "exit"
           \/ \E i \in 1..Len(stack[t]) : Excused(stack[t][i])
<1> DEFINE Lost == \E i \in 1..Len(stack[t]) : Excused(stack[t][i])
<1>0. stack[t] \in Seq(Frame) /\ Len(stack[t]) \in Nat
  BY DEF TypeOK
<1>1. ~InWindow(t) => Lost
  BY <1>0 DEF Confined, Top
<1>2. InWindow(t) /\ Top(t).what = "link" => Lost
  BY <1>0 DEF Confined, Around, Excused
<1> HIDE DEF Lost
<1>3. ASSUME NEW u \in Thread, NEW r \in Result, Return(u, r)
      PROVE  Lost
  <2>1. u = t
    BY <1>3 DEF Return, TypeOK
  <2> QED
    BY <1>1, <1>3, <2>1 DEF Return, InWindow
<1>4. ASSUME NEW u \in Thread, Notice(u)
      PROVE  Lost
  <2>1. u = t
    BY <1>4 DEF Notice, TypeOK
  <2> QED
    BY <1>1, <1>4, <2>1 DEF Notice, InPython
<1>5. ASSUME NEW u \in Thread, Close(u)
      PROVE  Lost \/ raised'[t] = "exit"
  <2>1. u = t
    BY <1>5 DEF Close, Unchecked, CheckPending, Unasked, TypeOK
  <2>2. CASE Top(t).what = "link"
    BY <1>2, <1>5, <2>1, <2>2 DEF Close
  <2>3. CASE Top(t).what # "link"
    <3>1. CheckPending(t)
      BY <1>5, <2>1, <2>3 DEF Close, Unasked
    <3> QED
      BY <3>1 DEF CheckPending, TypeOK
  <2> QED
    BY <2>2, <2>3
<1>6. CASE pending' = pending
  BY <1>6
<1>7. Lost \/ raised'[t] = "exit"
  BY <1>3, <1>4, <1>5, <1>6
     DEF Next, vars, Perform, Pause, WsSend, Drive, Link, Dealloc, Open, Enter, EnterMime, Skip
<1> QED
  BY <1>7 DEF Lost

\* ExitKept: KeyboardInterrupt and SystemExit of a callback are raised by the
\* method whose window it ran in or lost in a mime callback, if the callbacks of
\* the methods that do not test for exceptions leave none.
THEOREM ExitsKept ==
    ASSUME "link" \notin Uses
    PROVE  Spec => ExitKept
<1> DEFINE Inv == TypeOK /\ CbInv /\ Confined
<1>1. Inv /\ [Next]_vars =>
        [\A t \in Thread : pending[t] = "exit" /\ pending'[t] # "exit" =>
           \/ raised'[t] = "exit"
           \/ \E i \in 1..Len(stack[t]) : stack[t][i].what = "mime" /\ stack[t][i].prev]_vars
  BY ExitStep DEF Excused
<1> QED
  BY <1>1, ConfinedAlways, PTL DEF Spec, ExitKept

\* Without mime callbacks nothing is lost at all.
THEOREM ExitReachesCaller ==
    ASSUME Uses = {}
    PROVE  Spec => ExitDelivered
<1> DEFINE Inv == TypeOK /\ CbInv /\ Confined
<1>1. ASSUME TypeOK, CbInv, NEW t \in Thread, NEW i \in 1..Len(stack[t])
      PROVE  ~Excused(stack[t][i])
  <2>1. i \in Nat /\ stack[t][i] \in Frame /\ At(t, i, stack[t][i])
    BY <1>1 DEF TypeOK, At
  <2>2. Called(t, i, stack[t][i])
    BY <1>1, <2>1 DEF CbInv, FramesInv
  <2> QED
    BY <2>2 DEF Called, Excused
<1>2. Inv /\ [Next]_vars =>
        [\A t \in Thread : pending[t] = "exit" /\ pending'[t] # "exit" => raised'[t] = "exit"]_vars
  BY <1>1, ExitStep
<1>3. "link" \notin Uses
  OBVIOUS
<1>4. Spec => []Inv
  BY <1>3, ConfinedAlways
<1> QED
  BY <1>2, <1>4, PTL DEF Spec, ExitDelivered

=============================================================================
