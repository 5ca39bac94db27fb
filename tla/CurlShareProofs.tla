--------------------------- MODULE CurlShareProofs ---------------------------
(***************************************************************************)
(* Proofs about CurlShare: for any easies, shares and threads, as long as  *)
(* the program keeps the two rules, close() takes no share from an easy    *)
(* inside perform(), the three pointers between an easy, its share and     *)
(* libcurl agree, and a closed share is used by nobody.                    *)
(***************************************************************************)
EXTENDS CurlShare, TLAPS

-----------------------------------------------------------------------------
OnEasy == {"register", "undo", "unregister", "leave", "release", "cleanup"}
OnShare == {"scan", "share", "unshare"}

(* What the objects of a method are, and what it holds.                    *)
Shape ==
    \A t \in Thread :
        /\ op[t].at \in OnEasy <=> op[t].e # NULL
        /\ op[t].at \in {"idle", "cleanup"} <=> op[t].s = NULL
        /\ op[t].at \in OnShare => op[t].s \in named /\ api_lock[op[t].s] = t

(* An easy is used by one thread at a time, outside perform().             *)
Alone ==
    \A t \in Thread : op[t].e # NULL =>
        /\ op[t].e \notin running
        /\ \A u \in Others(t) : op[u].e # op[t].e

(* How far a method has come with the pointers of its easy.                *)
Stage ==
    \A t \in Thread :
        LET e == op[t].e
            s == op[t].s
        IN  /\ op[t].at = "register" =>
                  share[e] = s /\ lib[e] = IF s \in share_handle THEN s ELSE NULL
            /\ op[t].at \in {"undo", "unregister"} => share[e] = s /\ lib[e] = NULL
            /\ op[t].at = "leave" => share[e] = s /\ lib[e] = s
            /\ op[t].at = "release" => share[e] = NULL /\ lib[e] = s
            /\ op[t].at = "cleanup" => share[e] = NULL /\ lib[e] = NULL

(* close() sees every easy of the share, and nobody else is at it.         *)
Scanned ==
    \A t \in Thread : Closing(t) =>
        /\ \A e \in Easy : share[e] = op[t].s => e \in op[t].todo \cup op[t].live
        /\ \A u \in Others(t) : op[u].s # op[t].s

(* What close() found idle a moment ago is idle, and of this share: nobody *)
(* may use it meanwhile.                                                   *)
Tested ==
    \A t \in Thread : Closing(t) => \A e \in op[t].tested :
        e \in op[t].todo /\ share[e] = op[t].s /\ e \notin running

(* A share that libcurl points to is open, one that is not open is freed.  *)
Open ==
    /\ \A e \in Easy : lib[e] # NULL => lib[e] \in share_handle
    /\ freed = Share \ share_handle

Inv == TypeOK /\ Shape /\ Alone /\ Stage /\ Scanned /\ Open /\ AttachedAgrees

(* The rules of thread-safety.rst and share_close.rst are kept.            *)
Ruled == Uses = {}

-----------------------------------------------------------------------------
(* What a step does to the method of its thread.                           *)
LEMMA OpGo ==
  ASSUME TypeOK, NEW t \in Thread, NEW e \in Easy \cup {NULL},
         NEW s \in Share \cup {NULL}, NEW at \in OnEasy, Go(t, at, e, s)
  PROVE  /\ op' \in [Thread -> Op]
         /\ op'[t].at = at /\ op'[t].e = e /\ op'[t].s = s
         /\ \A u \in Others(t) : op'[u] = op[u]
  BY DEF Go, On, TypeOK, Op, OnEasy, Others

LEMMA OpIdle ==
  ASSUME TypeOK, NEW t \in Thread, op' = [op EXCEPT ![t] = Idle]
  PROVE  /\ op' \in [Thread -> Op]
         /\ op'[t].at = "idle" /\ op'[t].e = NULL /\ op'[t].s = NULL
         /\ \A u \in Others(t) : op'[u] = op[u]
  BY DEF TypeOK, Op, Idle, On, Others

LEMMA OpCounted ==
  ASSUME TypeOK, NEW t \in Thread, NEW e \in Easy,
         op' = [op EXCEPT ![t].todo = @ \ {e}, ![t].live = @ \cup {e}]
  PROVE  /\ op' \in [Thread -> Op]
         /\ op'[t].at = op[t].at /\ op'[t].e = op[t].e /\ op'[t].s = op[t].s
         /\ op'[t].todo = op[t].todo \ {e} /\ op'[t].live = op[t].live \cup {e}
         /\ op'[t].tested = op[t].tested
         /\ \A u \in Others(t) : op'[u] = op[u]
<1> DEFINE r == [op[t] EXCEPT !.todo = @ \ {e}, !.live = @ \cup {e}]
<1>1. op[t] \in Op
  BY DEF TypeOK
<1>2. /\ r \in Op
      /\ r.at = op[t].at /\ r.e = op[t].e /\ r.s = op[t].s
      /\ r.todo = op[t].todo \ {e} /\ r.live = op[t].live \cup {e} /\ r.tested = op[t].tested
  BY <1>1 DEF Op
<1>3. op' = [op EXCEPT ![t] = r]
  BY <1>1 DEF TypeOK, Op
<1> QED
  BY <1>2, <1>3 DEF TypeOK, Others

LEMMA OpSeen ==
  ASSUME TypeOK, NEW t \in Thread, NEW x, op' = [op EXCEPT ![t].todo = @ \ {x}]
  PROVE  /\ op' \in [Thread -> Op]
         /\ op'[t].at = op[t].at /\ op'[t].e = op[t].e /\ op'[t].s = op[t].s
         /\ op'[t].todo = op[t].todo \ {x} /\ op'[t].live = op[t].live
         /\ op'[t].tested = op[t].tested
         /\ \A u \in Others(t) : op'[u] = op[u]
<1>1. op[t] \in Op
  BY DEF TypeOK
<1>2. LET r == [op[t] EXCEPT !.todo = @ \ {x}]
      IN  /\ r \in Op
          /\ r.at = op[t].at /\ r.e = op[t].e /\ r.s = op[t].s
          /\ r.todo = op[t].todo \ {x} /\ r.live = op[t].live
          /\ r.tested = op[t].tested
  BY <1>1 DEF Op
<1>3. op' = [op EXCEPT ![t] = [op[t] EXCEPT !.todo = @ \ {x}]]
  BY DEF TypeOK
<1> QED
  BY <1>2, <1>3 DEF TypeOK, Others

LEMMA OpFound ==
  ASSUME TypeOK, NEW t \in Thread, NEW e \in Easy,
         op' = [op EXCEPT ![t].tested = {e}]
  PROVE  /\ op' \in [Thread -> Op]
         /\ op'[t].at = op[t].at /\ op'[t].e = op[t].e /\ op'[t].s = op[t].s
         /\ op'[t].todo = op[t].todo /\ op'[t].live = op[t].live
         /\ op'[t].tested = {e}
         /\ \A u \in Others(t) : op'[u] = op[u]
<1> DEFINE r == [op[t] EXCEPT !.tested = {e}]
<1>1. op[t] \in Op
  BY DEF TypeOK
<1>2. /\ r \in Op
      /\ r.at = op[t].at /\ r.e = op[t].e /\ r.s = op[t].s
      /\ r.todo = op[t].todo /\ r.live = op[t].live /\ r.tested = {e}
  BY <1>1 DEF Op
<1>3. op' = [op EXCEPT ![t] = r]
  BY <1>1 DEF TypeOK, Op
<1> QED
  BY <1>2, <1>3 DEF TypeOK, Others

LEMMA OpPassed ==
  ASSUME TypeOK, NEW t \in Thread, NEW e \in Easy,
         op' = [op EXCEPT ![t].todo = @ \ {e}, ![t].tested = {}]
  PROVE  /\ op' \in [Thread -> Op]
         /\ op'[t].at = op[t].at /\ op'[t].e = op[t].e /\ op'[t].s = op[t].s
         /\ op'[t].todo = op[t].todo \ {e} /\ op'[t].live = op[t].live
         /\ op'[t].tested = {}
         /\ \A u \in Others(t) : op'[u] = op[u]
<1> DEFINE r == [op[t] EXCEPT !.todo = @ \ {e}, !.tested = {}]
<1>1. op[t] \in Op
  BY DEF TypeOK
<1>2. /\ r \in Op
      /\ r.at = op[t].at /\ r.e = op[t].e /\ r.s = op[t].s
      /\ r.todo = op[t].todo \ {e} /\ r.live = op[t].live /\ r.tested = {}
  BY <1>1 DEF Op
<1>3. op' = [op EXCEPT ![t] = r]
  BY <1>1 DEF TypeOK, Op
<1> QED
  BY <1>2, <1>3 DEF TypeOK, Others

LEMMA OpLocked ==
  ASSUME TypeOK, NEW t \in Thread, NEW s \in Share, NEW at \in OnShare,
         NEW X \in SUBSET (Easy \cup Kind), op' = [op EXCEPT ![t] = Locked(at, s, X)]
  PROVE  /\ op' \in [Thread -> Op]
         /\ op'[t].at = at /\ op'[t].e = NULL /\ op'[t].s = s /\ op'[t].todo = X
         /\ op'[t].tested = {}
         /\ \A u \in Others(t) : op'[u] = op[u]
  BY DEF Locked, On, TypeOK, Op, OnShare, Others

LEMMA InitInv == ASSUME Init PROVE Inv
  BY NullAssumption DEF Init, Inv, TypeOK, Op, Idle, On, Shape, OnEasy, OnShare, Alone, Others,
     Stage, Scanned, Closing, Open, AttachedAgrees

-----------------------------------------------------------------------------
(* libcurl points to a share only where the Curl object does, or while a   *)
(* method that has the share is at the easy.                               *)
LEMMA NoPointer ==
  ASSUME Inv, NEW t \in Thread, NEW s \in Share,
         \A u \in Others(t) : op[u].s # s,
         \A f \in Easy : f # op[t].e => share[f] # s
  PROVE  \A f \in Easy : f # op[t].e => lib[f] # s
<1> SUFFICES ASSUME NEW f \in Easy, f # op[t].e, lib[f] = s PROVE FALSE
  OBVIOUS
<1>1. s # NULL /\ share[f] # s
  BY NullAssumption
<1>2. PICK u \in Thread : op[u].e = f
  BY <1>1 DEF Inv, AttachedAgrees
<1>3. u \in Others(t) /\ f # NULL
  BY <1>2, NullAssumption DEF Others
<1>4. op[u].at \in OnEasy /\ op[u].s # s
  BY <1>2, <1>3 DEF Inv, Shape
<1> QED
  BY <1>1, <1>2, <1>4 DEF Inv, Stage, OnEasy

(* Dropping a reference closes a share that nothing points to.             *)
LEMMA DecrefOpen ==
  ASSUME Inv, NEW t \in Thread, op[t].e \in Easy, NEW s \in Share, Decref(t, s),
         \A f \in Easy : f # op[t].e => share'[f] = share[f] /\ lib'[f] = lib[f],
         lib'[op[t].e] = NULL
  PROVE  /\ share_handle' \subseteq share_handle
         /\ \A x \in share_handle \ share_handle' :
               /\ \A f \in Easy : lib'[f] # x
               /\ \A u \in Others(t) : op[u].s # x
         /\ freed' = Share \ share_handle'
<1>1. /\ share_handle \subseteq Share /\ freed = Share \ share_handle
      /\ s # NULL
  BY NullAssumption DEF Inv, TypeOK, Open
<1> DEFINE gone == /\ s \in share_handle /\ s \notin named
                   /\ \A e \in Easy : share'[e] # s
                   /\ \A u \in Others(t) : op[u].s # s
<1>2. CASE gone
  <2>1. \A f \in Easy : f # op[t].e => lib[f] # s
    <3>1. \A u \in Others(t) : op[u].s # s
      BY <1>2
    <3>2. \A f \in Easy : f # op[t].e => share[f] # s
      BY <1>2
    <3> QED
      BY <3>1, <3>2, NoPointer
  <2>2. \A f \in Easy : lib'[f] # s
    BY <2>1, <1>1
  <2>3. share_handle' = share_handle \ {s} /\ freed' = freed \cup {s}
    BY <1>2, <2>2 DEF Decref
  <2> QED
    BY <1>1, <1>2, <2>2, <2>3
<1>3. CASE ~gone
  BY <1>1, <1>3 DEF Decref
<1> QED
  BY <1>2, <1>3

-----------------------------------------------------------------------------
(* A method that starts on an easy which is at rest.                       *)
LEMMA StartInv ==
  ASSUME Inv, Ruled, NEW t \in Thread, NEW e \in Easy, NEW s \in Share \cup {NULL},
         NEW at \in OnEasy, MayUse(t, e, s), e \notin running, Go(t, at, e, s),
         at \in {"register", "unregister", "leave", "cleanup"},
         at = "cleanup" <=> s = NULL,
         share' = [share EXCEPT ![e] = s],
         lib' = [lib EXCEPT ![e] = IF at = "leave" \/ (at = "register" /\ s \in share_handle)
                                   THEN s ELSE NULL],
         share[e] # NULL => share[e] = s,
         at = "leave" => s \in share_handle,
         UNCHANGED <<handle, running, shares>>
  PROVE  Inv'
<1>1. /\ op' \in [Thread -> Op]
      /\ op'[t].at = at /\ op'[t].e = e /\ op'[t].s = s
      /\ \A u \in Others(t) : op'[u] = op[u]
  BY OpGo DEF Inv
<1>2. /\ op[t].e = NULL /\ op[t].at = "idle"
      /\ \A u \in Others(t) : op[u].e # e /\ ~(Closing(u) /\ op[u].s = s)
  BY DEF MayUse, Ruled, Idle, On
<1>3. /\ share \in [Easy -> Share \cup {NULL}] /\ lib \in [Easy -> Share \cup {NULL}]
      /\ e # NULL /\ NULL \notin Share
  BY NullAssumption DEF Inv, TypeOK
<1>4. /\ share'[e] = s
      /\ lib'[e] = IF at = "leave" \/ (at = "register" /\ s \in share_handle) THEN s ELSE NULL
      /\ \A f \in Easy : f # e => share'[f] = share[f] /\ lib'[f] = lib[f]
  BY <1>3
<1>5. TypeOK'
  BY <1>1, <1>3 DEF Inv, TypeOK, shares
<1>6. Shape'
  BY <1>1, <1>2, <1>3 DEF Inv, Shape, OnEasy, OnShare, Others, shares
<1>7. Alone'
  BY <1>1, <1>2 DEF Inv, Alone, Others
<1>8. Stage'
  <2> SUFFICES ASSUME NEW u \in Thread, op'[u].e # NULL PROVE Stage!(u)'
    BY <1>1, <1>6, <1>3 DEF Stage, Shape, OnEasy
  <2>1. CASE u = t
    BY <2>1, <1>1, <1>4 DEF shares
  <2>2. CASE u # t
    <3>1. op'[u] = op[u] /\ op[u].e # e /\ op[u].e \in Easy
      BY <2>2, <1>1, <1>2 DEF Others, Inv, TypeOK, Op
    <3> QED
      BY <3>1, <1>4 DEF Inv, Stage, shares
  <2> QED
    BY <2>1, <2>2
<1>9. Scanned'
  BY <1>1, <1>2, <1>3, <1>4 DEF Inv, Scanned, Closing, Others
<1>10. Open'
  BY <1>3, <1>4 DEF Inv, Open, shares
<1>11. AttachedAgrees'
  <2> SUFFICES ASSUME NEW f \in Easy, \A u \in Thread : op'[u].e # f
               PROVE  /\ lib'[f] = share'[f]
                      /\ share'[f] # NULL => f \in weakrefs'[share'[f]]
    BY DEF AttachedAgrees
  <2>1. f # e
    BY <1>1
  <2>2. \A u \in Thread : op[u].e # f
    BY <1>1, <1>2, NullAssumption DEF Others
  <2> QED
    BY <1>4, <2>1, <2>2 DEF Inv, AttachedAgrees, shares
<1> QED
  BY <1>5, <1>6, <1>7, <1>8, <1>9, <1>10, <1>11 DEF Inv

LEMMA CallInv ==
  ASSUME Inv, Ruled, NEW t \in Thread, NEW e \in Easy,
         \/ \E s \in Share : SetShare(t, e, s)
         \/ Unshare(t, e) \/ CloseEasy(t, e)
  PROVE  Inv'
<1>1. /\ share \in [Easy -> Share \cup {NULL}] /\ lib \in [Easy -> Share \cup {NULL}]
      /\ share[e] \in Share \cup {NULL} /\ NULL \notin Share
  BY NullAssumption DEF Inv, TypeOK
<1>2. MayUse(t, e, share[e]) => lib[e] = share[e]
  <2> SUFFICES ASSUME MayUse(t, e, share[e]) PROVE \A u \in Thread : op[u].e # e
    BY DEF Inv, AttachedAgrees
  <2> QED
    BY NullAssumption DEF MayUse, Idle, On, Others
<1>3. share[e] # NULL /\ MayUse(t, e, share[e]) => share[e] \in share_handle
  BY <1>2 DEF Inv, Open
<1>4. ASSUME NEW s \in Share, SetShare(t, e, s) PROVE Inv'
  <2>1. /\ MayUse(t, e, s) /\ e \notin running /\ Go(t, "register", e, s)
        /\ share[e] = NULL
        /\ share' = [share EXCEPT ![e] = s]
        /\ lib' = [lib EXCEPT ![e] = IF s \in share_handle THEN s ELSE NULL]
        /\ UNCHANGED <<handle, running, shares>>
    BY <1>4 DEF SetShare
  <2> QED
    BY <2>1, <1>1, StartInv DEF OnEasy
<1>5. CASE Unshare(t, e)
  <2>1. /\ MayUse(t, e, share[e]) /\ e \notin running /\ share[e] # NULL
        /\ Go(t, "unregister", e, share[e])
        /\ share' = [share EXCEPT ![e] = share[e]]
        /\ lib' = [lib EXCEPT ![e] = NULL]
        /\ UNCHANGED <<handle, running, shares>>
    BY <1>5, <1>1 DEF Unshare
  <2> QED
    BY <2>1, <1>1, StartInv DEF OnEasy
<1>6. CASE CloseEasy(t, e)
  <2>1. /\ MayUse(t, e, share[e]) /\ e \notin running
        /\ share' = [share EXCEPT ![e] = share[e]]
        /\ lib' = [lib EXCEPT ![e] = share[e]]
        /\ UNCHANGED <<handle, running, shares>>
    BY <1>6, <1>1, <1>2 DEF CloseEasy
  <2>2. CASE share[e] = NULL
    <3>1. Go(t, "cleanup", e, share[e])
      BY <1>6, <2>2 DEF CloseEasy
    <3> QED
      BY <2>1, <2>2, <3>1, <1>1, StartInv DEF OnEasy
  <2>3. CASE share[e] # NULL
    <3>1. Go(t, "leave", e, share[e])
      BY <1>6, <2>3 DEF CloseEasy
    <3> QED
      BY <2>1, <2>3, <3>1, <1>1, <1>3, StartInv DEF OnEasy
  <2> QED
    BY <2>2, <2>3
<1> QED
  BY <1>4, <1>5, <1>6

LEMMA PerformInv ==
  ASSUME Inv, NEW e \in Easy, (\E t \in Thread : Perform(t, e)) \/ PerformEnd(e)
  PROVE  Inv'
<1>1. /\ UNCHANGED <<handle, share, lib, shares, op>>
      /\ running' \subseteq Easy
  BY DEF Perform, PerformEnd, Inv, TypeOK
<1>2. Alone'
  <2>1. CASE PerformEnd(e)
    BY <2>1, <1>1 DEF PerformEnd, Inv, Alone
  <2>2. CASE \E t \in Thread : Perform(t, e)
    <3>1. \A u \in Thread : op[u].e # e
      BY <2>2, NullAssumption DEF Perform, MayUse, Idle, On, Others
    <3> QED
      BY <2>2, <3>1, <1>1 DEF Perform, Inv, Alone
  <2> QED
    BY <2>1, <2>2
<1> QED
  BY <1>1, <1>2 DEF Inv, TypeOK, Shape, Stage, Scanned, Closing, Others, Open,
                    AttachedAgrees, shares

-----------------------------------------------------------------------------
(* The steps of a method that is at an easy e of the share s, and goes on  *)
(* or ends.                                                                *)
LEMMA MethodInv ==
  ASSUME Inv, NEW t \in Thread, NEW e \in Easy, NEW at, NEW x, NEW y,
         op[t].e = e, op[t].at \in OnEasy,
         op' \in [Thread -> Op], op'[t].at = at, op'[t].e = x, op'[t].s = y,
         \/ at = "idle" /\ x = NULL /\ y = NULL
         \/ at = "cleanup" /\ x = e /\ y = NULL
         \/ at \in {"undo", "release"} /\ x = e /\ y = op[t].s /\ y # NULL,
         \A u \in Others(t) : op'[u] = op[u],
         share' \in [Easy -> Share \cup {NULL}], lib' \in [Easy -> Share \cup {NULL}],
         \A f \in Easy : f # e => share'[f] = share[f] /\ lib'[f] = lib[f],
         lib'[e] \in {lib[e], NULL}, share'[e] \in {share[e], NULL},
         at = "undo" => share'[e] = y /\ lib'[e] = NULL,
         at = "release" => share'[e] = NULL /\ lib'[e] = y,
         at = "cleanup" => share'[e] = NULL /\ lib'[e] = NULL,
         at = "idle" => lib'[e] = share'[e]
                        /\ (share'[e] # NULL => e \in weakrefs'[share'[e]]),
         share_handle' \subseteq share_handle,
         \A z \in share_handle \ share_handle' :
            (\A f \in Easy : lib'[f] # z) /\ \A u \in Others(t) : op[u].s # z,
         freed' = Share \ share_handle',
         weakrefs' \in [Share -> SUBSET Easy],
         \A z \in Share, f \in Easy : f # e => (f \in weakrefs'[z] <=> f \in weakrefs[z]),
         handle' \subseteq handle,
         UNCHANGED <<running, detach_on_close, named, kinds, api_lock>>
  PROVE  Inv'
<1>1. /\ share \in [Easy -> Share \cup {NULL}] /\ lib \in [Easy -> Share \cup {NULL}]
      /\ e # NULL /\ NULL \notin Share /\ NULL \notin Easy
  BY NullAssumption DEF Inv, TypeOK
<1>2. \A u \in Others(t) : op[u].e # e
  BY <1>1 DEF Inv, Alone
<1>3. TypeOK'
  BY DEF Inv, TypeOK
<1>4. Shape'
  BY <1>1 DEF Inv, Shape, OnEasy, OnShare, Others
<1>5. Alone'
  BY <1>2 DEF Inv, Alone, Others
<1>6. Stage'
  <2> SUFFICES ASSUME NEW u \in Thread, op'[u].e # NULL PROVE Stage!(u)'
    BY <1>4, <1>1 DEF Stage, Shape, OnEasy
  <2>1. CASE u = t
    BY <2>1, <1>1
  <2>2. CASE u # t
    <3>1. op'[u] = op[u] /\ op[u].e # e /\ op[u].e \in Easy /\ u \in Others(t)
      BY <2>2, <1>2 DEF Others, Inv, TypeOK, Op
    <3>2. op[u].s \in share_handle' <=> op[u].s \in share_handle
      BY <3>1
    <3> QED
      BY <3>1, <3>2 DEF Inv, Stage
  <2> QED
    BY <2>1, <2>2
<1>7. Scanned'
  <2> SUFFICES ASSUME NEW u \in Thread, op'[u].at = "scan"
               PROVE  /\ \A f \in Easy : share'[f] = op'[u].s =>
                            f \in op'[u].todo \cup op'[u].live
                      /\ \A v \in Others(u) : op'[v].s # op'[u].s
    BY DEF Scanned, Closing
  <2>1. u \in Others(t) /\ op'[u] = op[u] /\ op[u].s # NULL
    BY <1>1 DEF Others, Inv, Shape
  <2> QED
    BY <2>1, <1>1 DEF Inv, Scanned, Closing, Others
<1>8. Open'
  BY <1>1 DEF Inv, Open
<1>9. AttachedAgrees'
  <2> SUFFICES ASSUME NEW f \in Easy, \A u \in Thread : op'[u].e # f
               PROVE  /\ lib'[f] = share'[f]
                      /\ share'[f] # NULL => f \in weakrefs'[share'[f]]
    BY DEF AttachedAgrees
  <2>1. CASE f = e
    BY <2>1
  <2>2. CASE f # e
    <3>1. \A u \in Thread : op[u].e # f
      BY <2>2 DEF Others
    <3> QED
      BY <3>1, <2>2, <1>1 DEF Inv, AttachedAgrees
  <2> QED
    BY <2>1, <2>2
<1> QED
  BY <1>3, <1>4, <1>5, <1>6, <1>7, <1>8, <1>9 DEF Inv

LEMMA StepInv ==
  ASSUME Inv, NEW t \in Thread,
         \/ Register(t) \/ Undo(t) \/ Unregister(t)
         \/ Leave(t) \/ ReleaseShare(t) \/ Cleanup(t)
  PROVE  Inv'
<1> DEFINE e == op[t].e
           s == op[t].s
<1>1. op[t].at \in OnEasy /\ e \in Easy /\ s \in Share \cup {NULL}
      /\ (op[t].at # "cleanup" => s \in Share)
  BY DEF Register, Undo, Unregister, Leave, ReleaseShare, Cleanup, OnEasy, Inv, TypeOK,
         Op, Shape
<1>2. /\ TypeOK
      /\ share \in [Easy -> Share \cup {NULL}] /\ lib \in [Easy -> Share \cup {NULL}]
      /\ weakrefs \in [Share -> SUBSET Easy] /\ share_handle \subseteq Share
      /\ freed = Share \ share_handle /\ NULL \notin Share /\ e # NULL
  BY <1>1, NullAssumption DEF Inv, TypeOK, Open
<1> HIDE DEF e, s
<1>3. CASE Register(t)
  <2>1. /\ op[t].at = "register" /\ share[e] = s
        /\ lib[e] = IF s \in share_handle THEN s ELSE NULL
    BY <1>3 DEF Register, Inv, Stage, e, s
  <2>2. UNCHANGED <<easies, detach_on_close, named, share_handle, freed, kinds, api_lock>>
    BY <1>3 DEF Register
  <2>3. CASE s \in share_handle
    <3>1. /\ op' = [op EXCEPT ![t] = Idle]
          /\ weakrefs' = [weakrefs EXCEPT ![s] = @ \cup {e}]
      BY <1>3, <2>3 DEF Register, e, s
    <3>2. /\ op' \in [Thread -> Op]
          /\ op'[t].at = "idle" /\ op'[t].e = NULL /\ op'[t].s = NULL
          /\ \A u \in Others(t) : op'[u] = op[u]
      BY <3>1, <1>2, OpIdle
    <3>3. /\ weakrefs' \in [Share -> SUBSET Easy] /\ e \in weakrefs'[s]
          /\ \A z \in Share, f \in Easy : f # e => (f \in weakrefs'[z] <=> f \in weakrefs[z])
      BY <3>1, <1>1, <1>2, <2>1
    <3> QED
      BY <1>1, <1>2, <2>1, <2>2, <2>3, <3>2, <3>3, MethodInv DEF easies, e, s
  <2>4. CASE s \notin share_handle
    <3>1. Go(t, "undo", e, s) /\ weakrefs' = weakrefs
      BY <1>3, <2>4 DEF Register, e, s
    <3>2. /\ op' \in [Thread -> Op]
          /\ op'[t].at = "undo" /\ op'[t].e = e /\ op'[t].s = s
          /\ \A u \in Others(t) : op'[u] = op[u]
      BY <3>1, <1>1, <1>2, OpGo DEF OnEasy
    <3> QED
      BY <1>1, <1>2, <2>1, <2>2, <2>4, <3>1, <3>2, MethodInv DEF easies, e, s
  <2> QED
    BY <2>3, <2>4
<1>4. CASE Undo(t)
  <2>1. /\ op' = [op EXCEPT ![t] = Idle]
        /\ lib' = [lib EXCEPT ![e] = NULL] /\ share' = [share EXCEPT ![e] = NULL]
        /\ UNCHANGED <<handle, running, shares>>
    BY <1>4 DEF Undo, e, s
  <2>2. /\ op' \in [Thread -> Op]
        /\ op'[t].at = "idle" /\ op'[t].e = NULL /\ op'[t].s = NULL
        /\ \A u \in Others(t) : op'[u] = op[u]
    BY <2>1, <1>2, OpIdle
  <2>3. /\ share' \in [Easy -> Share \cup {NULL}] /\ lib' \in [Easy -> Share \cup {NULL}]
        /\ share'[e] = NULL /\ lib'[e] = NULL
        /\ \A f \in Easy : f # e => share'[f] = share[f] /\ lib'[f] = lib[f]
    BY <2>1, <1>1, <1>2
  <2> QED
    BY <1>1, <1>2, <2>1, <2>2, <2>3, MethodInv DEF shares, e, s
<1>5. CASE Unregister(t)
  <2>1. /\ op[t].at = "unregister" /\ lib[e] = NULL
    BY <1>5 DEF Unregister, Inv, Stage, e
  <2>2. /\ op' = [op EXCEPT ![t] = Idle]
        /\ share' = [share EXCEPT ![e] = NULL] /\ Forget(e, s) /\ Decref(t, s)
        /\ UNCHANGED <<handle, running, lib, detach_on_close, named, kinds, api_lock>>
    BY <1>5 DEF Unregister, e, s
  <2>3. /\ op' \in [Thread -> Op]
        /\ op'[t].at = "idle" /\ op'[t].e = NULL /\ op'[t].s = NULL
        /\ \A u \in Others(t) : op'[u] = op[u]
    BY <2>2, <1>2, OpIdle
  <2>4. /\ share' \in [Easy -> Share \cup {NULL}] /\ share'[e] = NULL /\ lib'[e] = NULL
        /\ \A f \in Easy : f # e => share'[f] = share[f] /\ lib'[f] = lib[f]
    BY <2>1, <2>2, <1>1, <1>2
  <2>5. s \in Share
    BY <1>1, <2>1
  <2>6. /\ share_handle' \subseteq share_handle /\ freed' = Share \ share_handle'
        /\ \A z \in share_handle \ share_handle' :
              (\A f \in Easy : lib'[f] # z) /\ \A u \in Others(t) : op[u].s # z
    BY <1>1, <2>2, <2>4, <2>5, DecrefOpen DEF e
  <2>7. /\ weakrefs' \in [Share -> SUBSET Easy]
        /\ \A z \in Share, f \in Easy : f # e => (f \in weakrefs'[z] <=> f \in weakrefs[z])
    BY <1>2, <2>2 DEF Forget
  <2> QED
    BY <1>1, <1>2, <2>2, <2>3, <2>4, <2>6, <2>7, MethodInv DEF e, s
<1>6. CASE Leave(t)
  <2>1. /\ op[t].at = "leave" /\ lib[e] = s
    BY <1>6 DEF Leave, Inv, Stage, e, s
  <2>2. /\ Go(t, "release", e, s)
        /\ share' = [share EXCEPT ![e] = NULL] /\ Forget(e, s)
        /\ UNCHANGED <<handle, running, lib, detach_on_close, named, share_handle, freed,
                       kinds, api_lock>>
    BY <1>6 DEF Leave, e, s
  <2>3. /\ op' \in [Thread -> Op]
        /\ op'[t].at = "release" /\ op'[t].e = e /\ op'[t].s = s
        /\ \A u \in Others(t) : op'[u] = op[u]
    BY <2>2, <1>1, <1>2, OpGo DEF OnEasy
  <2>4. /\ share' \in [Easy -> Share \cup {NULL}] /\ share'[e] = NULL /\ lib'[e] = s
        /\ \A f \in Easy : f # e => share'[f] = share[f] /\ lib'[f] = lib[f]
    BY <2>1, <2>2, <1>1, <1>2
  <2>5. s \in Share
    BY <1>1, <2>1
  <2>6. /\ weakrefs' \in [Share -> SUBSET Easy]
        /\ \A z \in Share, f \in Easy : f # e => (f \in weakrefs'[z] <=> f \in weakrefs[z])
    BY <1>2, <2>2 DEF Forget
  <2> QED
    BY <1>1, <1>2, <2>1, <2>2, <2>3, <2>4, <2>5, <2>6, MethodInv DEF e, s
<1>7. CASE ReleaseShare(t)
  <2>1. /\ op[t].at = "release" /\ lib[e] = s /\ share[e] = NULL
    BY <1>7 DEF ReleaseShare, Inv, Stage, e, s
  <2>2. s \in Share /\ s \in share_handle
    BY <1>1, <1>2, <2>1 DEF Inv, Open
  <2>3. /\ Go(t, "cleanup", e, NULL)
        /\ lib' = [lib EXCEPT ![e] = NULL] /\ Decref(t, s)
        /\ UNCHANGED <<handle, running, share, detach_on_close, named, weakrefs, kinds,
                       api_lock>>
    BY <1>7, <2>2 DEF ReleaseShare, e, s
  <2>4. /\ op' \in [Thread -> Op]
        /\ op'[t].at = "cleanup" /\ op'[t].e = e /\ op'[t].s = NULL
        /\ \A u \in Others(t) : op'[u] = op[u]
    BY <2>3, <1>1, <1>2, OpGo DEF OnEasy
  <2>5. /\ lib' \in [Easy -> Share \cup {NULL}] /\ share'[e] = NULL /\ lib'[e] = NULL
        /\ \A f \in Easy : f # e => share'[f] = share[f] /\ lib'[f] = lib[f]
    BY <2>1, <2>3, <1>1, <1>2
  <2>6. /\ share_handle' \subseteq share_handle /\ freed' = Share \ share_handle'
        /\ \A z \in share_handle \ share_handle' :
              (\A f \in Easy : lib'[f] # z) /\ \A u \in Others(t) : op[u].s # z
    BY <1>1, <2>2, <2>3, <2>5, DecrefOpen DEF e
  <2> QED
    BY <1>1, <1>2, <2>3, <2>4, <2>5, <2>6, MethodInv DEF e, s
<1>8. CASE Cleanup(t)
  <2>1. op[t].at = "cleanup" /\ share[e] = NULL
    BY <1>8 DEF Cleanup, Inv, Stage, e
  <2>2. /\ op' = [op EXCEPT ![t] = Idle] /\ lib' = [lib EXCEPT ![e] = NULL]
        /\ handle' \subseteq handle
        /\ UNCHANGED <<running, share, shares>>
    BY <1>8 DEF Cleanup, e
  <2>3. /\ op' \in [Thread -> Op]
        /\ op'[t].at = "idle" /\ op'[t].e = NULL /\ op'[t].s = NULL
        /\ \A u \in Others(t) : op'[u] = op[u]
    BY <2>2, <1>2, OpIdle
  <2>4. /\ lib' \in [Easy -> Share \cup {NULL}] /\ share'[e] = NULL /\ lib'[e] = NULL
        /\ \A f \in Easy : f # e => share'[f] = share[f] /\ lib'[f] = lib[f]
    BY <2>1, <2>2, <1>1, <1>2
  <2> QED
    BY <1>1, <1>2, <2>2, <2>3, <2>4, MethodInv DEF shares, e
<1> QED
  BY <1>3, <1>4, <1>5, <1>6, <1>7, <1>8

-----------------------------------------------------------------------------
(* The methods of a share.  An easy that has the share is at rest while    *)
(* nobody else is at the share.                                            *)
LEMMA AtRest ==
  ASSUME Inv, NEW t \in Thread, op[t].e = NULL, NEW s \in Share,
         \A u \in Others(t) : op[u].s # s,
         NEW e \in Easy, share[e] = s
  PROVE  \A u \in Thread : op[u].e # e
<1> SUFFICES ASSUME NEW u \in Thread, op[u].e = e PROVE FALSE
  OBVIOUS
<1>1. e # NULL /\ s # NULL
  BY NullAssumption
<1>2. u \in Others(t) /\ op[u].at \in OnEasy /\ op[u].s # s
  BY <1>1 DEF Others, Inv, Shape
<1> QED
  BY <1>1, <1>2 DEF Inv, Stage, OnEasy

LEMMA DropInv == ASSUME Inv, NEW t \in Thread, NEW s \in Share, DropShare(t, s) PROVE Inv'
<1>1. /\ op[t].e = NULL /\ op[t].s = NULL /\ named' = named \ {s}
      /\ \A u \in Thread : op[u].at \in OnShare => op[u].s # s
      /\ UNCHANGED <<easies, detach_on_close, weakrefs, kinds, api_lock, op>>
  BY DEF DropShare, Idle, On, OnShare, easies
<1>2. /\ share_handle \subseteq Share /\ freed = Share \ share_handle
      /\ NULL \notin Share /\ NULL \notin Easy
  BY NullAssumption DEF Inv, TypeOK, Open
<1>3. /\ share_handle' \subseteq share_handle /\ freed' = Share \ share_handle'
      /\ \A z \in share_handle \ share_handle' :
            (\A f \in Easy : lib[f] # z) /\ \A u \in Thread : op[u].s # z
  <2> DEFINE gone == /\ s \in share_handle /\ \A e \in Easy : share[e] # s
                     /\ \A u \in Thread : op[u].s # s
  <2>1. CASE gone
    <3>1. \A f \in Easy : lib[f] # s
      BY <2>1, <1>1, <1>2, NoPointer DEF Others
    <3>2. share_handle' = share_handle \ {s} /\ freed' = freed \cup {s}
      BY <2>1, <1>1 DEF DropShare
    <3> QED
      BY <1>2, <2>1, <3>1, <3>2
  <2>2. CASE ~gone
    <3>1. share_handle' = share_handle /\ freed' = freed
      BY <2>2, <1>1 DEF DropShare
    <3> QED
      BY <1>2, <3>1
  <2> QED
    BY <2>1, <2>2
<1>4. TypeOK' /\ Shape' /\ Alone' /\ Scanned' /\ AttachedAgrees'
  BY <1>1, <1>2, <1>3 DEF Inv, TypeOK, Shape, OnShare, Alone, Others, Scanned, Closing,
                          AttachedAgrees, easies
<1>5. Stage'
  BY <1>1, <1>3 DEF Inv, Stage, easies
<1>6. Open'
  BY <1>1, <1>2, <1>3 DEF Inv, Open, easies
<1> QED
  BY <1>4, <1>5, <1>6 DEF Inv

LEMMA LockInv ==
  ASSUME Inv, Ruled, NEW t \in Thread, NEW s \in Share,
         \/ CloseShare(t, s)
         \/ \E at \in {"share", "unshare"}, K \in SUBSET Kind \ {{}} : SetKinds(t, s, at, K)
  PROVE  Inv'
<1>1. PICK at \in OnShare, X \in SUBSET (Easy \cup Kind) :
         /\ op' = [op EXCEPT ![t] = Locked(at, s, X)]
         /\ at = "scan" => MayClose(t, s) /\ X = weakrefs[s]
  BY DEF CloseShare, SetKinds, OnShare, Inv, TypeOK
<1>2. /\ op[t].at = "idle" /\ op[t].e = NULL /\ s \in named
      /\ api_lock[s] = NULL /\ api_lock' = [api_lock EXCEPT ![s] = t]
      /\ UNCHANGED <<easies, detach_on_close, named, share_handle, freed, weakrefs, kinds>>
  BY DEF CloseShare, SetKinds, Idle, On
<1>3. /\ op' \in [Thread -> Op]
      /\ op'[t].at = at /\ op'[t].e = NULL /\ op'[t].s = s /\ op'[t].todo = X
      /\ \A u \in Others(t) : op'[u] = op[u]
  <2>1. TypeOK /\ op' = [op EXCEPT ![t] = Locked(at, s, X)]
    BY <1>1 DEF Inv
  <2>2. /\ op' \in [Thread -> Op]
        /\ op'[t].at = at /\ op'[t].e = NULL /\ op'[t].s = s /\ op'[t].todo = X
        /\ op'[t].tested = {}
        /\ \A u \in Others(t) : op'[u] = op[u]
    BY <2>1, OpLocked
  <2> QED
    BY <2>2
<1>4. /\ NULL \notin Thread /\ NULL \notin Share /\ NULL \notin Easy
      /\ api_lock \in [Share -> Thread \cup {NULL}]
  BY NullAssumption DEF Inv, TypeOK
<1>5. \A u \in Thread : op[u].at \in OnShare => op[u].s # s
  BY <1>2, <1>4 DEF Inv, Shape
<1>6. TypeOK'
  BY <1>2, <1>3, <1>4 DEF Inv, TypeOK, easies
<1>7. Shape'
  BY <1>2, <1>3, <1>4, <1>5 DEF Inv, Shape, OnEasy, OnShare, Others
<1>8. Alone'
  BY <1>2, <1>3 DEF Inv, Alone, Others, easies
<1>9. Stage'
  <2> SUFFICES ASSUME NEW u \in Thread, op'[u].e # NULL PROVE Stage!(u)'
    BY <1>7, <1>4 DEF Stage, Shape, OnEasy
  <2>1. u \in Others(t) /\ op'[u] = op[u]
    BY <1>3 DEF Others
  <2> QED
    BY <2>1, <1>2 DEF Inv, Stage, easies
<1>10. Scanned'
  <2> SUFFICES ASSUME NEW u \in Thread, op'[u].at = "scan"
               PROVE  /\ \A f \in Easy : share'[f] = op'[u].s =>
                            f \in op'[u].todo \cup op'[u].live
                      /\ \A v \in Others(u) : op'[v].s # op'[u].s
    BY DEF Scanned, Closing
  <2>1. CASE u = t
    <3>1. MayClose(t, s) /\ X = weakrefs[s]
      BY <2>1, <1>1, <1>3
    <3>2. \A v \in Others(t) : op[v].s # s
      BY <3>1, <1>5 DEF MayClose, Ruled, OnShare, Others
    <3>3. \A f \in Easy : share[f] = s => f \in weakrefs[s]
      BY <1>2, <1>4, <3>2, AtRest DEF Inv, AttachedAgrees
    <3> QED
      BY <2>1, <1>2, <1>3, <3>1, <3>2, <3>3 DEF easies
  <2>2. CASE u # t
    <3>1. u \in Others(t) /\ op'[u] = op[u] /\ op[u].s # s
      BY <2>2, <1>3, <1>5 DEF Others, OnShare
    <3> QED
      BY <3>1, <1>2, <1>3 DEF Inv, Scanned, Closing, Others, easies
  <2> QED
    BY <2>1, <2>2
<1>11. Open'
  BY <1>2 DEF Inv, Open, easies
<1>12. AttachedAgrees'
  <2> SUFFICES ASSUME NEW f \in Easy, \A u \in Thread : op'[u].e # f
               PROVE  /\ lib'[f] = share'[f]
                      /\ share'[f] # NULL => f \in weakrefs'[share'[f]]
    BY DEF AttachedAgrees
  <2>1. \A u \in Thread : op[u].e # f
    BY <1>2, <1>3, <1>4 DEF Others
  <2> QED
    BY <2>1, <1>2 DEF Inv, AttachedAgrees, easies
<1> QED
  BY <1>6, <1>7, <1>8, <1>9, <1>10, <1>11, <1>12 DEF Inv

(* One easy of the set: gone, detached, or counted.                        *)
LEMMA ScanInv ==
  ASSUME Inv, Ruled, Tested, NEW t \in Thread, NEW e \in Easy,
         ScanGone(t, e) \/ ScanDetach(t, e) \/ ScanLive(t, e)
  PROVE  Inv'
<1>1. /\ op[t].at = "scan" /\ op[t].e = NULL /\ op[t].s \in Share
      /\ \A u \in Others(t) : op[u].s # op[t].s
  BY DEF ScanGone, ScanDetach, ScanLive, Looks, Closing, Inv, TypeOK, Op, Shape, OnEasy,
         Scanned
<1>2. /\ TypeOK /\ NULL \notin Share /\ NULL \notin Easy
      /\ share \in [Easy -> Share \cup {NULL}] /\ lib \in [Easy -> Share \cup {NULL}]
  BY NullAssumption DEF Inv, TypeOK
<1>3. /\ UNCHANGED <<handle, running, shares>>
      /\ \/ share' = share /\ lib' = lib
         \/ /\ share[e] = op[t].s
            /\ share' = [share EXCEPT ![e] = NULL] /\ lib' = [lib EXCEPT ![e] = NULL]
  BY DEF ScanGone, ScanDetach, ScanLive, Tested, easies
<1>4. /\ op' \in [Thread -> Op]
      /\ op'[t].at = "scan" /\ op'[t].e = NULL /\ op'[t].s = op[t].s
      /\ op'[t].todo = op[t].todo \ {e} /\ op[t].live \subseteq op'[t].live
      /\ share'[e] = op[t].s => e \in op'[t].live
      /\ \A u \in Others(t) : op'[u] = op[u]
  <2>1. CASE ScanGone(t, e)
    <3>1. op' = [op EXCEPT ![t].todo = @ \ {e}] /\ share'[e] # op[t].s
      BY <2>1 DEF ScanGone, easies
    <3> QED
      BY <3>1, <1>1, <1>2, OpSeen
  <2>2. CASE ScanDetach(t, e)
    <3>1. /\ op' = [op EXCEPT ![t].todo = @ \ {e}, ![t].tested = {}]
          /\ share'[e] # op[t].s
      BY <2>2, <1>1, <1>2 DEF ScanDetach
    <3>2. /\ op' \in [Thread -> Op]
          /\ op'[t].at = op[t].at /\ op'[t].e = op[t].e /\ op'[t].s = op[t].s
          /\ op'[t].todo = op[t].todo \ {e} /\ op'[t].live = op[t].live
          /\ \A u \in Others(t) : op'[u] = op[u]
      BY <3>1, <1>2, OpPassed
    <3> QED
      BY <3>1, <3>2, <1>1
  <2>3. CASE ScanLive(t, e)
    <3>1. op' = [op EXCEPT ![t].todo = @ \ {e}, ![t].live = @ \cup {e}]
      BY <2>3 DEF ScanLive, LastRef, Ruled
    <3>2. /\ op' \in [Thread -> Op]
          /\ op'[t].at = op[t].at /\ op'[t].e = op[t].e /\ op'[t].s = op[t].s
          /\ op'[t].todo = op[t].todo \ {e} /\ op'[t].live = op[t].live \cup {e}
          /\ \A u \in Others(t) : op'[u] = op[u]
      BY <3>1, <1>2, OpCounted
    <3> QED
      BY <3>2, <1>1
  <2> QED
    BY <2>1, <2>2, <2>3
<1>5. /\ share' \in [Easy -> Share \cup {NULL}] /\ lib' \in [Easy -> Share \cup {NULL}]
      /\ \A f \in Easy : \/ share'[f] = share[f] /\ lib'[f] = lib[f]
                         \/ share[f] = op[t].s /\ share'[f] = NULL /\ lib'[f] = NULL
  BY <1>2, <1>3
<1>6. \A f \in Easy : share[f] = op[t].s => \A u \in Thread : op[u].e # f
  BY <1>1, AtRest
<1>7. TypeOK'
  BY <1>3, <1>4, <1>5 DEF Inv, TypeOK, shares
<1>8. Shape' /\ Alone'
  BY <1>1, <1>2, <1>3, <1>4 DEF Inv, Shape, OnEasy, OnShare, Alone, Others, shares
<1>9. Stage'
  <2> SUFFICES ASSUME NEW u \in Thread, op'[u].e # NULL PROVE Stage!(u)'
    BY <1>8, <1>2 DEF Stage, Shape, OnEasy
  <2>1. u \in Others(t) /\ op'[u] = op[u] /\ op[u].e \in Easy
    BY <1>4 DEF Others, Inv, TypeOK, Op
  <2>2. share'[op[u].e] = share[op[u].e] /\ lib'[op[u].e] = lib[op[u].e]
    BY <2>1, <1>5, <1>6
  <2> QED
    BY <2>1, <2>2, <1>3 DEF Inv, Stage, shares
<1>10. Scanned'
  <2> SUFFICES ASSUME NEW u \in Thread, op'[u].at = "scan"
               PROVE  /\ \A f \in Easy : share'[f] = op'[u].s =>
                            f \in op'[u].todo \cup op'[u].live
                      /\ \A v \in Others(u) : op'[v].s # op'[u].s
    BY DEF Scanned, Closing
  <2>1. op'[u].s \in Share /\ op[u].at = "scan" /\ op'[u].s = op[u].s
    BY <1>1, <1>4, <1>2 DEF Others, Inv, Shape, TypeOK, Op
  <2>2. \A f \in Easy : share'[f] = op[u].s => f \in op[u].todo \cup op[u].live
    BY <2>1, <1>2, <1>5 DEF Inv, Scanned, Closing
  <2>3. \A f \in Easy : share'[f] = op[u].s => f \in op'[u].todo \cup op'[u].live
    BY <2>2, <1>4 DEF Others
  <2>4. \A v \in Others(u) : op'[v].s # op'[u].s
    BY <2>1, <1>4 DEF Others, Inv, Scanned, Closing
  <2> QED
    BY <2>1, <2>3, <2>4
<1>11. Open'
  BY <1>2, <1>3, <1>5 DEF Inv, Open, shares
<1>12. AttachedAgrees'
  <2> SUFFICES ASSUME NEW f \in Easy, \A u \in Thread : op'[u].e # f
               PROVE  /\ lib'[f] = share'[f]
                      /\ share'[f] # NULL => f \in weakrefs'[share'[f]]
    BY DEF AttachedAgrees
  <2>1. \A u \in Thread : op[u].e # f
    BY <1>1, <1>2, <1>4 DEF Others
  <2> QED
    BY <2>1, <1>3, <1>5 DEF Inv, AttachedAgrees, shares
<1> QED
  BY <1>7, <1>8, <1>9, <1>10, <1>11, <1>12 DEF Inv

LEMMA TestInv == ASSUME Inv, NEW t \in Thread, NEW e \in Easy, ScanTest(t, e) PROVE Inv'
<1>1. TypeOK /\ op' = [op EXCEPT ![t].tested = {e}] /\ UNCHANGED <<easies, shares>>
  BY DEF Inv, ScanTest
<1>2. /\ op' \in [Thread -> Op]
      /\ op'[t].at = op[t].at /\ op'[t].e = op[t].e /\ op'[t].s = op[t].s
      /\ op'[t].todo = op[t].todo /\ op'[t].live = op[t].live
      /\ \A u \in Others(t) : op'[u] = op[u]
  BY <1>1, OpFound
<1>3. /\ op' \in [Thread -> Op]
      /\ \A u \in Thread : /\ op'[u].at = op[u].at /\ op'[u].e = op[u].e
                           /\ op'[u].s = op[u].s
                           /\ op'[u].todo = op[u].todo /\ op'[u].live = op[u].live
  BY <1>2 DEF Others
<1>4. TypeOK' /\ Shape' /\ Alone'
  BY <1>1, <1>3 DEF Inv, TypeOK, Shape, OnShare, Alone, Others, easies, shares
<1>5. Stage'
  BY <1>1, <1>3 DEF Inv, Stage, easies, shares
<1>6. Scanned' /\ Open' /\ AttachedAgrees'
  BY <1>1, <1>3 DEF Inv, Scanned, Closing, Others, Open, AttachedAgrees, easies, shares
<1> QED
  BY <1>4, <1>5, <1>6 DEF Inv

LEMMA CloseEndInv == ASSUME Inv, NEW t \in Thread, CloseShareEnd(t) PROVE Inv'
<1> DEFINE s == op[t].s
<1>1. /\ op[t].at = "scan" /\ op[t].e = NULL /\ s \in Share /\ op[t].todo = {}
      /\ op[t].live \subseteq Easy
      /\ \A u \in Others(t) : op[u].s # s
      /\ \A f \in Easy : share[f] = s => f \in op[t].live
  BY DEF CloseShareEnd, Closing, Inv, TypeOK, Op, Shape, OnEasy, Scanned
<1>2. /\ TypeOK /\ NULL \notin Share /\ NULL \notin Easy /\ NULL \notin Thread
      /\ share_handle \subseteq Share /\ freed = Share \ share_handle
  BY NullAssumption DEF Inv, TypeOK, Open
<1> HIDE DEF s
<1>3. /\ op' = [op EXCEPT ![t] = Idle]
      /\ weakrefs' = [weakrefs EXCEPT ![s] = op[t].live]
      /\ api_lock' = [api_lock EXCEPT ![s] = NULL]
      /\ UNCHANGED <<easies, detach_on_close, named, kinds>>
  BY DEF CloseShareEnd, s
<1>4. /\ op' \in [Thread -> Op]
      /\ op'[t].at = "idle" /\ op'[t].e = NULL /\ op'[t].s = NULL
      /\ \A u \in Others(t) : op'[u] = op[u]
  BY <1>2, <1>3, OpIdle
<1>5. /\ share_handle' \subseteq share_handle /\ freed' = Share \ share_handle'
      /\ \A z \in share_handle \ share_handle' : z = s /\ \A f \in Easy : lib[f] # z
  <2>1. CASE op[t].live = {} /\ s \in share_handle
    <3>1. \A f \in Easy : lib[f] # s
      BY <2>1, <1>1, <1>2, NoPointer
    <3>2. share_handle' = share_handle \ {s} /\ freed' = freed \cup {s}
      BY <2>1, <3>1 DEF CloseShareEnd, s
    <3> QED
      BY <3>1, <3>2, <1>1, <1>2
  <2>2. CASE ~(op[t].live = {} /\ s \in share_handle)
    <3>1. share_handle' = share_handle /\ freed' = freed
      BY <2>2 DEF CloseShareEnd, s
    <3> QED
      BY <3>1, <1>2
  <2> QED
    BY <2>1, <2>2
<1>6. TypeOK'
  BY <1>1, <1>2, <1>3, <1>4, <1>5 DEF TypeOK, easies
<1>7. Shape' /\ Alone'
  BY <1>1, <1>2, <1>3, <1>4 DEF Inv, TypeOK, Op, Shape, OnEasy, OnShare, Alone, Others,
                                easies
<1>8. Stage'
  <2> SUFFICES ASSUME NEW u \in Thread, op'[u].e # NULL PROVE Stage!(u)'
    BY <1>7, <1>2 DEF Stage, Shape, OnEasy
  <2>1. u \in Others(t) /\ op'[u] = op[u] /\ op[u].s # s
    BY <1>1, <1>4 DEF Others
  <2>2. op[u].s \in share_handle' <=> op[u].s \in share_handle
    BY <2>1, <1>5
  <2> QED
    BY <2>1, <2>2, <1>3 DEF Inv, Stage, easies
<1>9. Scanned'
  <2> SUFFICES ASSUME NEW u \in Thread, op'[u].at = "scan"
               PROVE  /\ \A f \in Easy : share'[f] = op'[u].s =>
                            f \in op'[u].todo \cup op'[u].live
                      /\ \A v \in Others(u) : op'[v].s # op'[u].s
    BY DEF Scanned, Closing
  <2>1. u \in Others(t) /\ op'[u] = op[u] /\ op[u].s # NULL
    BY <1>4 DEF Others, Inv, Shape
  <2> QED
    BY <2>1, <1>3, <1>4 DEF Inv, Scanned, Closing, Others, easies
<1>10. Open'
  BY <1>2, <1>3, <1>5 DEF Inv, Open, easies
<1>11. AttachedAgrees'
  <2> SUFFICES ASSUME NEW f \in Easy, \A u \in Thread : op'[u].e # f
               PROVE  /\ lib'[f] = share'[f]
                      /\ share'[f] # NULL => f \in weakrefs'[share'[f]]
    BY DEF AttachedAgrees
  <2>1. \A u \in Thread : op[u].e # f
    BY <1>1, <1>2, <1>4 DEF Others
  <2>2. lib[f] = share[f] /\ (share[f] # NULL => f \in weakrefs[share[f]])
    BY <2>1 DEF Inv, AttachedAgrees
  <2>3. share[f] \in Share \cup {NULL} /\ weakrefs \in [Share -> SUBSET Easy]
    BY <1>2 DEF TypeOK
  <2> QED
    BY <2>2, <2>3, <1>1, <1>3 DEF easies
<1> QED
  BY <1>6, <1>7, <1>8, <1>9, <1>10, <1>11 DEF Inv

LEMMA KindInv ==
  ASSUME Inv, NEW t \in Thread, (\E k \in Kind : SetKind(t, k)) \/ SetKindsEnd(t)
  PROVE  Inv'
<1>1. /\ op[t].at \in {"share", "unshare"} /\ op[t].e = NULL /\ op[t].s \in Share
      /\ UNCHANGED <<easies, detach_on_close, named, share_handle, freed, weakrefs>>
  BY DEF SetKind, SetKindsEnd, Inv, TypeOK, Op, Shape, OnEasy
<1>2. TypeOK /\ NULL \notin Share /\ NULL \notin Easy /\ NULL \notin Thread
  BY NullAssumption DEF Inv
<1>3. /\ op' \in [Thread -> Op] /\ op'[t].e = NULL
      /\ \/ op'[t].at = op[t].at /\ op'[t].s = op[t].s /\ api_lock' = api_lock
         \/ /\ op'[t].at = "idle" /\ op'[t].s = NULL
            /\ api_lock' = [api_lock EXCEPT ![op[t].s] = NULL]
      /\ \A u \in Others(t) : op'[u] = op[u]
      /\ kinds' \in [Share -> SUBSET Kind]
  <2>1. ASSUME NEW k \in Kind, SetKind(t, k) PROVE <1>3
    <3>1. /\ op' = [op EXCEPT ![t].todo = @ \ {k}] /\ api_lock' = api_lock
          /\ kinds' \in [Share -> SUBSET Kind]
      BY <2>1, <1>1, <1>2 DEF SetKind, TypeOK
    <3> QED
      BY <3>1, <1>1, <1>2, OpSeen
  <2>2. CASE SetKindsEnd(t)
    <3>1. /\ op' = [op EXCEPT ![t] = Idle]
          /\ api_lock' = [api_lock EXCEPT ![op[t].s] = NULL] /\ kinds' = kinds
      BY <2>2 DEF SetKindsEnd
    <3> QED
      BY <3>1, <1>2, OpIdle DEF TypeOK
  <2> QED
    BY <2>1, <2>2
<1>4. TypeOK'
  BY <1>1, <1>2, <1>3 DEF TypeOK, easies
<1>5. Shape'
  BY <1>1, <1>2, <1>3 DEF Inv, TypeOK, Shape, OnEasy, OnShare, Others
<1>6. Alone'
  BY <1>1, <1>3 DEF Inv, Alone, Others, easies
<1>7. Stage'
  <2> SUFFICES ASSUME NEW u \in Thread, op'[u].e # NULL PROVE Stage!(u)'
    BY <1>5, <1>2 DEF Stage, Shape, OnEasy
  <2>1. u \in Others(t) /\ op'[u] = op[u]
    BY <1>3 DEF Others
  <2> QED
    BY <2>1, <1>1 DEF Inv, Stage, easies
<1>8. Scanned'
  <2> SUFFICES ASSUME NEW u \in Thread, op'[u].at = "scan"
               PROVE  /\ \A f \in Easy : share'[f] = op'[u].s =>
                            f \in op'[u].todo \cup op'[u].live
                      /\ \A v \in Others(u) : op'[v].s # op'[u].s
    BY DEF Scanned, Closing
  <2>1. u \in Others(t) /\ op'[u] = op[u] /\ op[u].s # NULL
    BY <1>1, <1>3 DEF Others, Inv, Shape
  <2> QED
    BY <2>1, <1>1, <1>3 DEF Inv, Scanned, Closing, Others, easies
<1>9. Open'
  BY <1>1 DEF Inv, Open, easies
<1>10. AttachedAgrees'
  BY <1>1, <1>3 DEF Inv, AttachedAgrees, Others, easies
<1> QED
  BY <1>4, <1>5, <1>6, <1>7, <1>8, <1>9, <1>10 DEF Inv

LEMMA NextInv == ASSUME Inv, Ruled, Tested, [Next]_vars PROVE Inv'
<1>1. ASSUME NEW t \in Thread, Call(t) PROVE Inv'
  BY <1>1, CallInv, PerformInv, DropInv, LockInv DEF Call
<1>2. ASSUME NEW t \in Thread, Step(t) PROVE Inv'
  BY <1>2, StepInv, ScanInv, TestInv, CloseEndInv, KindInv DEF Step
<1>3. ASSUME NEW e \in Easy, PerformEnd(e) PROVE Inv'
  BY <1>3, PerformInv
<1>4. CASE UNCHANGED vars
  BY <1>4 DEF vars, easies, shares, Inv, TypeOK, Shape, Alone, Others, Stage, Scanned,
              Closing, Open, AttachedAgrees
<1> QED
  BY <1>1, <1>2, <1>3, <1>4 DEF Next

-----------------------------------------------------------------------------
(* A step of t leaves the methods of the other threads alone.              *)
LEMMA OthersKept ==
  ASSUME TypeOK, NEW t \in Thread, Call(t) \/ Step(t)
  PROVE  \A u \in Others(t) : op'[u] = op[u]
<1>1. CASE Call(t)
  <2>1. \/ op' = op \/ \E e, s, at : Go(t, at, e, s)
        \/ \E at, s, X : op' = [op EXCEPT ![t] = Locked(at, s, X)]
    BY <1>1 DEF Call, Perform, Unshare, CloseEasy, SetShare, CloseShare, DropShare, SetKinds
  <2> QED
    BY <2>1 DEF Go, TypeOK, Others
<1>2. CASE Step(t)
  <2>1. CASE \/ Register(t) \/ Undo(t) \/ Unregister(t) \/ Leave(t) \/ ReleaseShare(t)
             \/ Cleanup(t) \/ CloseShareEnd(t) \/ SetKindsEnd(t)
    BY <2>1 DEF Register, Undo, Unregister, Leave, ReleaseShare, Cleanup, CloseShareEnd,
                SetKindsEnd, Go, TypeOK, Others
  <2>2. ASSUME NEW k \in Kind, SetKind(t, k) PROVE \A u \in Others(t) : op'[u] = op[u]
    BY <2>2 DEF SetKind, TypeOK, Others
  <2>3. ASSUME NEW e \in Easy,
               ScanGone(t, e) \/ ScanTest(t, e) \/ ScanDetach(t, e) \/ ScanLive(t, e)
        PROVE  \A u \in Others(t) : op'[u] = op[u]
    BY <2>3 DEF ScanGone, ScanTest, ScanDetach, ScanLive, Go, TypeOK, Others
  <2> QED
    BY <1>2, <2>1, <2>2, <2>3 DEF Step
<1> QED
  BY <1>1, <1>2

(* An easy that another thread has tested stays as it was tested.          *)
LEMMA TestedKept ==
  ASSUME Inv, Ruled, Tested, NEW t \in Thread, Call(t) \/ Step(t),
         NEW u \in Others(t), Closing(u), NEW f \in op[u].tested
  PROVE  share'[f] = share[f] /\ f \notin running'
<1>1. /\ u \in Thread /\ f \in Easy /\ share[f] = op[u].s /\ f \notin running
      /\ op[u].s \in Share /\ op[u].s # NULL
      /\ share \in [Easy -> Share \cup {NULL}]
  BY NullAssumption DEF Inv, TypeOK, Op, Others, Tested, Shape, Closing
<1>2. \A v \in Others(u) : op[v].s # op[u].s
  BY <1>1 DEF Inv, Scanned
<1>3. op[t].s # op[u].s /\ u # t
  BY <1>1, <1>2 DEF Others
<1>4. op[t].at \in {"undo", "unregister", "leave"} => op[t].e # f
  BY <1>1, <1>3 DEF Inv, Stage
<1>5. op[t].at = "scan" => f \notin op[t].tested
  BY <1>1, <1>3 DEF Tested, Closing
<1>6. ASSUME NEW e \in Easy, Perform(t, e) PROVE e # f
  BY <1>1, <1>3, <1>6 DEF Perform, MayUse, Ruled, Others
<1>7. CASE Call(t)
  <2>1. ASSUME NEW e \in Easy, Perform(t, e) PROVE share'[f] = share[f] /\ f \notin running'
    BY <1>1, <1>6, <2>1 DEF Perform
  <2>2. ASSUME NEW e \in Easy, NEW s \in Share, SetShare(t, e, s)
        PROVE  share'[f] = share[f] /\ f \notin running'
    BY <1>1, <2>2 DEF SetShare
  <2>3. ASSUME NEW e \in Easy, Unshare(t, e) \/ CloseEasy(t, e)
        PROVE  share'[f] = share[f] /\ f \notin running'
    BY <1>1, <2>3 DEF Unshare, CloseEasy
  <2>4. ASSUME NEW s \in Share, \/ CloseShare(t, s) \/ DropShare(t, s)
                                \/ \E at, K : SetKinds(t, s, at, K)
        PROVE  share'[f] = share[f] /\ f \notin running'
    BY <1>1, <2>4 DEF CloseShare, DropShare, SetKinds, easies
  <2> QED
    BY <1>7, <2>1, <2>2, <2>3, <2>4 DEF Call
<1>8. CASE Step(t)
  <2>1. CASE Register(t) \/ CloseShareEnd(t) \/ SetKindsEnd(t)
             \/ \E k \in Kind : SetKind(t, k)
    BY <1>1, <2>1 DEF Register, CloseShareEnd, SetKindsEnd, SetKind, easies
  <2>2. CASE Undo(t) \/ Unregister(t) \/ Leave(t)
    BY <1>1, <1>4, <2>2 DEF Undo, Unregister, Leave
  <2>3. CASE ReleaseShare(t) \/ Cleanup(t)
    BY <1>1, <2>3 DEF ReleaseShare, Cleanup
  <2>4. ASSUME NEW e \in Easy, ScanGone(t, e) \/ ScanTest(t, e) \/ ScanLive(t, e)
        PROVE  share'[f] = share[f] /\ f \notin running'
    BY <1>1, <2>4 DEF ScanGone, ScanTest, ScanLive, easies
  <2>5. ASSUME NEW e \in Easy, ScanDetach(t, e)
        PROVE  share'[f] = share[f] /\ f \notin running'
    BY <1>1, <1>5, <2>5 DEF ScanDetach, Closing
  <2> QED
    BY <1>8, <2>1, <2>2, <2>3, <2>4, <2>5 DEF Step
<1> QED
  BY <1>7, <1>8

(* What the loop of t itself has tested.                                   *)
LEMMA TestedOwn ==
  ASSUME Inv, Ruled, Tested, NEW t \in Thread, Call(t) \/ Step(t), Closing(t)',
         NEW f \in op'[t].tested
  PROVE  f \in op'[t].todo /\ share'[f] = op'[t].s /\ f \notin running'
<1>1. TypeOK
  BY DEF Inv
<1>2. CASE Call(t)
  <2>1. ASSUME NEW s \in Share, CloseShare(t, s) PROVE op'[t].tested = {}
    <3>1. weakrefs[s] \in SUBSET (Easy \cup Kind)
      BY <1>1 DEF TypeOK
    <3> QED
      BY <1>1, <2>1, <3>1, OpLocked DEF CloseShare, OnShare
  <2>2. ASSUME NEW s \in Share, NEW at \in {"share", "unshare"},
               NEW K \in SUBSET Kind, SetKinds(t, s, at, K)
        PROVE  op'[t].tested = {}
    BY <1>1, <2>2, OpLocked DEF SetKinds, OnShare
  <2>3. ASSUME NEW e \in Easy, Perform(t, e) PROVE FALSE
    BY <2>3 DEF Perform, MayUse, Closing, Idle, On
  <2>4. ASSUME NEW s \in Share, DropShare(t, s) PROVE FALSE
    BY <2>4 DEF DropShare, Closing, Idle, On
  <2>5. ASSUME NEW e \in Easy, NEW s, SetShare(t, e, s) PROVE FALSE
    BY <1>1, <2>5 DEF SetShare, Go, Closing, On, TypeOK
  <2>6. ASSUME NEW e \in Easy, Unshare(t, e) \/ CloseEasy(t, e) PROVE FALSE
    BY <1>1, <2>6 DEF Unshare, CloseEasy, Go, Closing, On, TypeOK
  <2> QED
    BY <1>2, <2>1, <2>2, <2>3, <2>4, <2>5, <2>6 DEF Call
<1>3. CASE Step(t)
  <2>1. CASE Register(t) \/ Undo(t) \/ Unregister(t) \/ Leave(t) \/ ReleaseShare(t)
             \/ Cleanup(t) \/ CloseShareEnd(t) \/ SetKindsEnd(t)
    BY <1>1, <2>1 DEF Register, Undo, Unregister, Leave, ReleaseShare, Cleanup, CloseShareEnd,
                      SetKindsEnd, Go, Idle, On, Closing, TypeOK
  <2>2. ASSUME NEW k \in Kind, SetKind(t, k) PROVE FALSE
    <3>1. op'[t].at = op[t].at /\ op[t].at # "scan"
      BY <1>1, <2>2, OpSeen DEF SetKind
    <3> QED
      BY <3>1 DEF Closing
  <2>3. ASSUME NEW e \in Easy, ScanGone(t, e) PROVE op'[t].tested = {}
    BY <1>1, <2>3, OpSeen DEF ScanGone, Looks
  <2>4. ASSUME NEW e \in Easy, ScanLive(t, e) PROVE op'[t].tested = {}
    <3>1. op' = [op EXCEPT ![t].todo = @ \ {e}, ![t].live = @ \cup {e}]
      BY <2>4 DEF ScanLive, LastRef, Ruled
    <3>2. op[t].tested = {}
      BY <2>4 DEF ScanLive, Looks
    <3> QED
      BY <1>1, <3>1, <3>2, OpCounted
  <2>5. ASSUME NEW e \in Easy, ScanDetach(t, e) PROVE op'[t].tested = {}
    <3>1. op' = [op EXCEPT ![t].todo = @ \ {e}, ![t].tested = {}]
      BY <2>5 DEF ScanDetach
    <3> QED
      BY <1>1, <3>1, OpPassed
  <2>6. ASSUME NEW e \in Easy, ScanTest(t, e)
        PROVE  f \in op'[t].todo /\ share'[f] = op'[t].s /\ f \notin running'
    <3>1. op' = [op EXCEPT ![t].tested = {e}]
      BY <2>6 DEF ScanTest
    <3>2. op'[t].s = op[t].s /\ op'[t].todo = op[t].todo /\ op'[t].tested = {e}
      BY <1>1, <3>1, OpFound
    <3> QED
      BY <2>6, <3>2 DEF ScanTest, Looks, easies
  <2> QED
    BY <1>3, <2>1, <2>2, <2>3, <2>4, <2>5, <2>6 DEF Step
<1> QED
  BY <1>2, <1>3

LEMMA TestedStep == ASSUME Inv, Ruled, Tested, [Next]_vars PROVE Tested'
<1>1. ASSUME NEW t \in Thread, Call(t) \/ Step(t) PROVE Tested'
  <2> SUFFICES ASSUME NEW u \in Thread, Closing(u)', NEW f \in op'[u].tested
               PROVE  f \in op'[u].todo /\ share'[f] = op'[u].s /\ f \notin running'
    BY DEF Tested
  <2>1. CASE u = t
    BY <1>1, <2>1, TestedOwn
  <2>2. CASE u # t
    <3>1. u \in Others(t) /\ op'[u] = op[u]
      BY <1>1, <2>2, OthersKept DEF Others, Inv
    <3>2. Closing(u) /\ f \in op[u].tested
      BY <3>1 DEF Closing
    <3> QED
      BY <1>1, <3>1, <3>2, TestedKept DEF Tested
  <2> QED
    BY <2>1, <2>2
<1>2. ASSUME NEW e \in Easy, PerformEnd(e) PROVE Tested'
  BY <1>2 DEF PerformEnd, Tested, Closing
<1>3. CASE UNCHANGED vars
  BY <1>3 DEF vars, easies, Tested, Closing
<1> QED
  BY <1>1, <1>2, <1>3 DEF Next

(* For any easies, shares and threads, if the program keeps the two rules: *)
(* the invariant holds in every state.                                     *)
LEMMA InvTested == ASSUME Ruled PROVE Spec => [](Inv /\ Tested)
<1>1. Init => Inv /\ Tested
  BY InitInv DEF Init, Tested, Closing, Idle, On
<1>2. Inv /\ Tested /\ [Next]_vars => Inv' /\ Tested'
  BY NextInv, TestedStep
<1> QED
  BY <1>1, <1>2, PTL DEF Spec

LEMMA Invariant == ASSUME Ruled PROVE Spec => []Inv
<1>1. Spec => [](Inv /\ Tested)
  BY InvTested
<1> QED
  BY <1>1, PTL

(* Between its methods an easy, libcurl and the set of the share agree.    *)
THEOREM Attached == ASSUME Ruled PROVE Spec => []AttachedAgrees
<1>1. Inv => AttachedAgrees
  BY DEF Inv
<1> QED
  BY <1>1, Invariant, PTL

(* libcurl never points to a freed share; a closed share has no easy left. *)
THEOREM ClosedUnused == ASSUME Ruled PROVE Spec => []ClosedIsUnused
<1>1. Inv => ClosedIsUnused
  <2> SUFFICES ASSUME Inv PROVE ClosedIsUnused
    OBVIOUS
  <2>1. /\ freed = Share \ share_handle /\ NULL \notin Share
        /\ \A e \in Easy : lib[e] # NULL => lib[e] \in share_handle
    BY NullAssumption DEF Inv, Open
  <2>2. \A e \in Easy : lib[e] \notin freed
    BY <2>1
  <2>3. ASSUME NEW s \in Share \ share_handle, NEW e \in Easy, share[e] = s,
               \A t \in Thread : op[t].e # e
        PROVE  FALSE
    BY <2>1, <2>3 DEF Inv, AttachedAgrees
  <2> QED
    BY <2>1, <2>2, <2>3 DEF ClosedIsUnused
<1> QED
  BY <1>1, Invariant, PTL

-----------------------------------------------------------------------------
(* What is left of the invariant when the rules are broken: a method is at *)
(* an easy outside perform(), if perhaps not alone.                        *)
Idling ==
    \A t \in Thread :
        /\ op[t].at \in OnEasy <=> op[t].e # NULL
        /\ op[t].at \in {"idle", "cleanup"} <=> op[t].s = NULL
        /\ op[t].e \notin running

LEMMA DecrefType ==
  ASSUME TypeOK, NEW t \in Thread, NEW s \in Share, Decref(t, s)
  PROVE  share_handle' \subseteq Share /\ freed' \subseteq Share
<1>1. /\ share_handle' \in {share_handle, share_handle \ {s}}
      /\ freed' \in {freed, freed \cup {s}}
  BY DEF Decref
<1> QED
  BY <1>1 DEF TypeOK

(* A step of a thread that leaves perform() alone and whose method, if it  *)
(* is at an easy, is at one outside perform().                             *)
LEMMA IdlingStep ==
  ASSUME Idling, NEW t \in Thread, running' \subseteq running,
         op'[t].at \in OnEasy <=> op'[t].e # NULL,
         op'[t].at \in {"idle", "cleanup"} <=> op'[t].s = NULL,
         op'[t].e \notin running,
         \A u \in Others(t) : op'[u] = op[u]
  PROVE  Idling'
  BY DEF Idling, Others

LEMMA CallIdling ==
  ASSUME TypeOK, Idling, NEW t \in Thread, Call(t)
  PROVE  TypeOK' /\ Idling'
<1>0. /\ share \in [Easy -> Share \cup {NULL}] /\ lib \in [Easy -> Share \cup {NULL}]
      /\ NULL \notin Share /\ NULL \notin Easy /\ running \subseteq Easy
      /\ weakrefs \in [Share -> SUBSET Easy] /\ op[t].e \notin running
  BY NullAssumption DEF TypeOK, Idling
<1>1. ASSUME NEW e \in Easy, Perform(t, e) PROVE TypeOK' /\ Idling'
  <2>1. \A u \in Thread : op[u].e # e
    BY <1>0, <1>1 DEF Perform, MayUse, Idle, On, Others
  <2> QED
    BY <1>1, <2>1 DEF Perform, TypeOK, Idling, shares
<1>2. ASSUME NEW e \in Easy, NEW at \in OnEasy, NEW s \in Share \cup {NULL},
             Go(t, at, e, s), at = "cleanup" <=> s = NULL, e \notin running,
             share' \in [Easy -> Share \cup {NULL}], lib' \in [Easy -> Share \cup {NULL}],
             UNCHANGED <<handle, running, shares>>
      PROVE  TypeOK' /\ Idling'
  <2>1. /\ op' \in [Thread -> Op]
        /\ op'[t].at = at /\ op'[t].e = e /\ op'[t].s = s
        /\ \A u \in Others(t) : op'[u] = op[u]
    BY <1>2, OpGo
  <2>2. TypeOK'
    BY <1>2, <2>1 DEF TypeOK, shares
  <2>3. Idling'
    BY <1>0, <1>2, <2>1, IdlingStep DEF OnEasy
  <2> QED
    BY <2>2, <2>3
<1>3. ASSUME NEW e \in Easy, NEW s \in Share, SetShare(t, e, s) PROVE TypeOK' /\ Idling'
  <2>1. /\ share' \in [Easy -> Share \cup {NULL}] /\ lib' \in [Easy -> Share \cup {NULL}]
        /\ Go(t, "register", e, s) /\ e \notin running
        /\ UNCHANGED <<handle, running, shares>>
    BY <1>0, <1>3 DEF SetShare
  <2> QED
    BY <1>0, <1>2, <2>1 DEF OnEasy
<1>4. ASSUME NEW e \in Easy, Unshare(t, e) PROVE TypeOK' /\ Idling'
  <2>1. /\ share' \in [Easy -> Share \cup {NULL}] /\ lib' \in [Easy -> Share \cup {NULL}]
        /\ Go(t, "unregister", e, share[e]) /\ e \notin running /\ share[e] # NULL
        /\ UNCHANGED <<handle, running, shares>>
    BY <1>0, <1>4 DEF Unshare
  <2> QED
    BY <1>0, <1>2, <2>1 DEF OnEasy
<1>5. ASSUME NEW e \in Easy, CloseEasy(t, e) PROVE TypeOK' /\ Idling'
  <2>1. PICK at \in OnEasy : at = IF share[e] = NULL THEN "cleanup" ELSE "leave"
    BY DEF OnEasy
  <2>2. /\ share' \in [Easy -> Share \cup {NULL}] /\ lib' \in [Easy -> Share \cup {NULL}]
        /\ Go(t, at, e, share[e]) /\ e \notin running
        /\ UNCHANGED <<handle, running, shares>>
    BY <1>0, <1>5, <2>1 DEF CloseEasy
  <2> QED
    BY <1>0, <1>2, <2>1, <2>2
<1>6. ASSUME NEW s \in Share, NEW at \in OnShare, NEW X \in SUBSET (Easy \cup Kind),
             op' = [op EXCEPT ![t] = Locked(at, s, X)],
             api_lock' = [api_lock EXCEPT ![s] = t],
             UNCHANGED <<easies, detach_on_close, named, share_handle, freed, weakrefs, kinds>>
      PROVE  TypeOK' /\ Idling'
  <2>1. /\ op' \in [Thread -> Op]
        /\ op'[t].at = at /\ op'[t].e = NULL /\ op'[t].s = s
        /\ \A u \in Others(t) : op'[u] = op[u]
    BY <1>6, OpLocked
  <2>2. TypeOK'
    BY <1>6, <2>1 DEF TypeOK, easies
  <2>3. Idling'
    BY <1>0, <1>6, <2>1, IdlingStep DEF OnEasy, OnShare, easies
  <2> QED
    BY <2>2, <2>3
<1>7. ASSUME NEW s \in Share, CloseShare(t, s) PROVE TypeOK' /\ Idling'
  <2>1. weakrefs[s] \in SUBSET (Easy \cup Kind)
    BY <1>0
  <2> QED
    BY <1>6, <1>7, <2>1 DEF CloseShare, OnShare
<1>8. ASSUME NEW s \in Share, NEW at \in {"share", "unshare"}, NEW K \in SUBSET Kind \ {{}},
             SetKinds(t, s, at, K)
      PROVE  TypeOK' /\ Idling'
  BY <1>6, <1>8 DEF SetKinds, OnShare
<1>9. ASSUME NEW s \in Share, DropShare(t, s) PROVE TypeOK' /\ Idling'
  BY <1>9 DEF DropShare, TypeOK, Idling
<1> QED
  BY <1>1, <1>3, <1>4, <1>5, <1>7, <1>8, <1>9 DEF Call

LEMMA StepIdling ==
  ASSUME TypeOK, Idling, NEW t \in Thread, Step(t)
  PROVE  TypeOK' /\ Idling'
<1>0. /\ share \in [Easy -> Share \cup {NULL}] /\ lib \in [Easy -> Share \cup {NULL}]
      /\ NULL \notin Share /\ NULL \notin Easy /\ NULL \notin Thread
      /\ running \subseteq Easy /\ weakrefs \in [Share -> SUBSET Easy]
      /\ op[t].e \in Easy \cup {NULL} /\ op[t].s \in Share \cup {NULL}
      /\ op[t].live \subseteq Easy
  BY NullAssumption DEF TypeOK, Op
<1>1. /\ op[t].at \in OnEasy <=> op[t].e # NULL
      /\ op[t].at \in {"idle", "cleanup"} <=> op[t].s = NULL
      /\ op[t].e \notin running /\ NULL \notin running
  BY <1>0 DEF Idling
<1>2. ASSUME op' = [op EXCEPT ![t] = Idle], running' = running PROVE Idling' /\ op' \in [Thread -> Op]
  <2>1. /\ op' \in [Thread -> Op]
        /\ op'[t].at = "idle" /\ op'[t].e = NULL /\ op'[t].s = NULL
        /\ \A u \in Others(t) : op'[u] = op[u]
    BY <1>2, OpIdle
  <2> QED
    BY <1>1, <1>2, <2>1, IdlingStep DEF OnEasy
<1>3. ASSUME NEW e \in Easy, NEW s \in Share \cup {NULL}, NEW at \in OnEasy,
             Go(t, at, e, s), at = "cleanup" <=> s = NULL, e \notin running,
             running' = running
      PROVE  Idling' /\ op' \in [Thread -> Op]
  <2>1. /\ op' \in [Thread -> Op]
        /\ op'[t].at = at /\ op'[t].e = e /\ op'[t].s = s
        /\ \A u \in Others(t) : op'[u] = op[u]
    BY <1>3, OpGo
  <2> QED
    BY <1>0, <1>3, <2>1, IdlingStep DEF OnEasy
<1>4. ASSUME NEW x, op' = [op EXCEPT ![t].todo = @ \ {x}], running' = running
      PROVE  Idling' /\ op' \in [Thread -> Op]
  <2>1. /\ op' \in [Thread -> Op]
        /\ op'[t].at = op[t].at /\ op'[t].e = op[t].e /\ op'[t].s = op[t].s
        /\ \A u \in Others(t) : op'[u] = op[u]
    BY <1>4, OpSeen
  <2> QED
    BY <1>1, <1>4, <2>1, IdlingStep
<1>5. CASE Register(t)
  <2>1. op[t].e \in Easy /\ op[t].s \in Share
    BY <1>0, <1>1, <1>5 DEF Register, OnEasy
  <2>2. Idling' /\ op' \in [Thread -> Op]
    <3>1. running' = running /\ (op' = [op EXCEPT ![t] = Idle] \/ Go(t, "undo", op[t].e, op[t].s))
      BY <1>5 DEF Register, easies
    <3> QED
      BY <1>0, <1>1, <1>2, <1>3, <2>1, <3>1 DEF OnEasy
  <2>3. weakrefs' \in [Share -> SUBSET Easy]
    BY <1>0, <1>5, <2>1 DEF Register
  <2> QED
    BY <1>5, <2>2, <2>3 DEF Register, TypeOK, easies
<1>6. CASE Undo(t)
  <2>1. Idling' /\ op' \in [Thread -> Op]
    BY <1>2, <1>6 DEF Undo
  <2> QED
    BY <1>6, <2>1 DEF Undo, TypeOK, shares
<1>7. CASE Unregister(t)
  <2>1. op[t].s \in Share /\ Forget(op[t].e, op[t].s) /\ Decref(t, op[t].s)
    BY <1>0, <1>1, <1>7 DEF Unregister
  <2>2. Idling' /\ op' \in [Thread -> Op]
    BY <1>2, <1>7 DEF Unregister
  <2>3. weakrefs' \in [Share -> SUBSET Easy]
    BY <1>0, <2>1 DEF Forget
  <2>4. share_handle' \subseteq Share /\ freed' \subseteq Share
    BY <2>1, DecrefType
  <2> QED
    BY <1>7, <2>2, <2>3, <2>4 DEF Unregister, TypeOK
<1>8. CASE Leave(t)
  <2>1. /\ op[t].e \in Easy /\ op[t].s \in Share /\ Forget(op[t].e, op[t].s)
        /\ Go(t, "release", op[t].e, op[t].s) /\ running' = running
    BY <1>0, <1>1, <1>8 DEF Leave, OnEasy
  <2>2. Idling' /\ op' \in [Thread -> Op]
    BY <1>0, <1>1, <1>3, <2>1 DEF OnEasy
  <2>3. weakrefs' \in [Share -> SUBSET Easy]
    BY <1>0, <2>1 DEF Forget
  <2> QED
    BY <1>8, <2>2, <2>3 DEF Leave, TypeOK
<1>9. CASE ReleaseShare(t)
  <2>1. /\ op[t].e \in Easy /\ op[t].s \in Share /\ Decref(t, op[t].s)
        /\ Go(t, "cleanup", op[t].e, NULL) /\ running' = running
    BY <1>0, <1>1, <1>9 DEF ReleaseShare, OnEasy
  <2>2. Idling' /\ op' \in [Thread -> Op]
    BY <1>0, <1>1, <1>3, <2>1 DEF OnEasy
  <2>3. share_handle' \subseteq Share /\ freed' \subseteq Share
    BY <2>1, DecrefType
  <2>4. lib' \in [Easy -> Share \cup {NULL}]
    BY <1>0, <1>9 DEF ReleaseShare
  <2> QED
    BY <1>9, <2>2, <2>3, <2>4 DEF ReleaseShare, TypeOK
<1>10. CASE Cleanup(t)
  <2>1. Idling' /\ op' \in [Thread -> Op]
    BY <1>2, <1>10 DEF Cleanup
  <2> QED
    BY <1>10, <2>1 DEF Cleanup, TypeOK, shares
<1>11. ASSUME NEW e \in Easy, ScanGone(t, e) \/ ScanTest(t, e) \/ ScanDetach(t, e)
       PROVE  TypeOK' /\ Idling'
  <2>1. CASE ScanGone(t, e)
    <3>1. Idling' /\ op' \in [Thread -> Op]
      BY <1>4, <2>1 DEF ScanGone, easies
    <3> QED
      BY <2>1, <3>1 DEF ScanGone, TypeOK, easies, shares
  <2>2. CASE ScanTest(t, e) \/ ScanDetach(t, e)
    <3>1. /\ op' \in [Thread -> Op]
          /\ op'[t].at = op[t].at /\ op'[t].e = op[t].e /\ op'[t].s = op[t].s
          /\ \A u \in Others(t) : op'[u] = op[u]
      <4>1. CASE ScanTest(t, e)
        <5>1. op' = [op EXCEPT ![t].tested = {e}]
          BY <4>1 DEF ScanTest
        <5> QED
          BY <5>1, OpFound
      <4>2. CASE ScanDetach(t, e)
        <5>1. op' = [op EXCEPT ![t].todo = @ \ {e}, ![t].tested = {}]
          BY <4>2 DEF ScanDetach
        <5> QED
          BY <5>1, OpPassed
      <4> QED
        BY <2>2, <4>1, <4>2
    <3>2. running' = running
      BY <2>2 DEF ScanTest, ScanDetach, easies
    <3>3. Idling'
      BY <1>1, <3>1, <3>2, IdlingStep
    <3> QED
      BY <2>2, <3>1, <3>3 DEF ScanTest, ScanDetach, TypeOK, easies, shares
  <2> QED
    BY <1>11, <2>1, <2>2
<1>12. ASSUME NEW e \in Easy, ScanLive(t, e) PROVE TypeOK' /\ Idling'
  <2>1. UNCHANGED <<easies, shares>> /\ op[t].at = "scan" /\ op[t].s # NULL
    BY <1>1, <1>12 DEF ScanLive, Looks, Closing
  <2>2. CASE Go(t, "leave", e, op[t].s) /\ e \notin running
    BY <1>0, <1>3, <2>1, <2>2 DEF TypeOK, easies, shares, OnEasy
  <2>3. CASE op' = [op EXCEPT ![t].todo = @ \ {e}, ![t].live = @ \cup {e}]
    <3>1. /\ op' \in [Thread -> Op]
          /\ op'[t].at = op[t].at /\ op'[t].e = op[t].e /\ op'[t].s = op[t].s
          /\ \A u \in Others(t) : op'[u] = op[u]
      BY <2>3, OpCounted
    <3>2. Idling'
      BY <1>1, <2>1, <3>1, IdlingStep DEF easies
    <3> QED
      BY <2>1, <3>1, <3>2 DEF TypeOK, easies, shares
  <2> QED
    BY <1>12, <2>2, <2>3 DEF ScanLive
<1>13. CASE CloseShareEnd(t)
  <2>1. op[t].s \in Share
    BY <1>0, <1>1, <1>13 DEF CloseShareEnd, Closing
  <2>2. Idling' /\ op' \in [Thread -> Op]
    BY <1>2, <1>13 DEF CloseShareEnd, easies
  <2>3. weakrefs' \in [Share -> SUBSET Easy] /\ api_lock' \in [Share -> Thread \cup {NULL}]
    BY <1>0, <1>13, <2>1 DEF CloseShareEnd, TypeOK
  <2>4. /\ share_handle' \in {share_handle, share_handle \ {op[t].s}}
        /\ freed' \in {freed, freed \cup {op[t].s}}
    BY <1>13 DEF CloseShareEnd
  <2>5. share_handle' \subseteq Share /\ freed' \subseteq Share
    BY <2>1, <2>4 DEF TypeOK
  <2> QED
    BY <1>13, <2>2, <2>3, <2>5 DEF CloseShareEnd, TypeOK, easies
<1>14. ASSUME NEW k \in Kind, SetKind(t, k) PROVE TypeOK' /\ Idling'
  <2>1. Idling' /\ op' \in [Thread -> Op]
    BY <1>4, <1>14 DEF SetKind, easies
  <2> QED
    BY <1>14, <2>1 DEF SetKind, TypeOK, easies
<1>15. CASE SetKindsEnd(t)
  <2>1. Idling' /\ op' \in [Thread -> Op]
    BY <1>2, <1>15 DEF SetKindsEnd, easies
  <2> QED
    BY <1>15, <2>1 DEF SetKindsEnd, TypeOK, easies
<1> QED
  BY <1>5, <1>6, <1>7, <1>8, <1>9, <1>10, <1>11, <1>12, <1>13, <1>14, <1>15 DEF Step

(* Whatever the uses: no method is ever at an easy inside perform().       *)
LEMMA IdlingHolds == Spec => [](TypeOK /\ Idling)
<1>1. Init => TypeOK /\ Idling
  BY InitInv, NullAssumption DEF Inv, Init, Idling, Idle, On, OnEasy
<1>2. TypeOK /\ Idling /\ [Next]_vars => (TypeOK /\ Idling)'
  <2> SUFFICES ASSUME TypeOK, Idling, [Next]_vars PROVE TypeOK' /\ Idling'
    OBVIOUS
  <2>1. ASSUME NEW e \in Easy, PerformEnd(e) PROVE TypeOK' /\ Idling'
    BY <2>1 DEF PerformEnd, TypeOK, Idling, shares
  <2>2. CASE UNCHANGED vars
    BY <2>2 DEF vars, easies, shares, TypeOK, Idling
  <2> QED
    BY <2>1, <2>2, CallIdling, StepIdling DEF Next
<1> QED
  BY <1>1, <1>2, PTL DEF Spec

(* Only a method that is at an easy, or close(), changes its pointers.     *)
LEMMA KeptStep == ASSUME TypeOK, Idling, Tested, [Next]_vars PROVE [Kept]_vars
<1>1. \A t \in Thread : op[t].e # NULL => op[t].e \notin running
  BY DEF Idling
<1>2. ASSUME NEW t \in Thread, Call(t) PROVE Kept
  BY <1>2 DEF Call, Perform, Unshare, CloseEasy, SetShare, CloseShare, DropShare, SetKinds,
              Kept, easies, TypeOK
<1>3. ASSUME NEW t \in Thread, Step(t) PROVE Kept
  <2>1. share \in [Easy -> Share \cup {NULL}] /\ lib \in [Easy -> Share \cup {NULL}]
    BY DEF TypeOK
  <2>2. CASE Register(t) \/ CloseShareEnd(t) \/ SetKindsEnd(t)
             \/ \E k \in Kind : SetKind(t, k)
    BY <2>2 DEF Register, CloseShareEnd, SetKindsEnd, SetKind, easies, Kept
  <2>3. CASE Undo(t) \/ Unregister(t) \/ Leave(t) \/ ReleaseShare(t) \/ Cleanup(t)
    <3>1. op[t].e \notin running
      BY <2>3, <1>1 DEF Undo, Unregister, Leave, ReleaseShare, Cleanup, Idling, OnEasy
    <3>2. \A f \in Easy : f # op[t].e => share'[f] = share[f] /\ lib'[f] = lib[f]
      BY <2>1, <2>3 DEF Undo, Unregister, Leave, ReleaseShare, Cleanup
    <3> QED
      BY <3>1, <3>2 DEF Kept, TypeOK
  <2>4. ASSUME NEW e \in Easy, \/ ScanGone(t, e) \/ ScanTest(t, e)
                                \/ ScanDetach(t, e) \/ ScanLive(t, e)
        PROVE  Kept
    BY <2>1, <2>4 DEF ScanGone, ScanTest, ScanDetach, ScanLive, Tested, easies, Kept, TypeOK
  <2> QED
    BY <1>3, <2>2, <2>3, <2>4 DEF Step
<1>4. ASSUME NEW e \in Easy, PerformEnd(e) PROVE Kept
  BY <1>4 DEF PerformEnd, Kept
<1>5. CASE UNCHANGED vars
  BY <1>5
<1> QED
  BY <1>2, <1>3, <1>4, <1>5 DEF Next

(* Every variable keeps its type, whatever the uses.                       *)
THEOREM TypeCorrect == Spec => []TypeOK
  BY IdlingHolds, PTL

(* close() takes no share from an easy inside perform(), although it tests *)
(* for that first and detaches then (share.c:340-346), if the rules are    *)
(* kept: perform() waits for no lock.                                      *)
THEOREM RunningKept == ASSUME Ruled PROVE Spec => RunningKeepsShare
<1>1. TypeOK /\ Idling /\ Tested /\ [Next]_vars => [Kept]_vars
  BY KeptStep
<1>2. Spec => [](Inv /\ Tested)
  BY InvTested
<1> QED
  BY <1>1, <1>2, IdlingHolds, PTL DEF Spec, RunningKeepsShare
=============================================================================
