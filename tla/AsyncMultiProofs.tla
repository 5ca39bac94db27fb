--------------------------- MODULE AsyncMultiProofs ---------------------------
(***************************************************************************)
(* Proofs about AsyncMulti, for any easies and futures.                    *)
(*                                                                         *)
(* The object keeps three things that asyncio or libcurl keep as well: its *)
(* timer and its notify handle, its table of futures, and the done         *)
(* callbacks of those futures.  Inv says how far they agree whatever the   *)
(* program does, the timer and the messages only until an exception left   *)
(* in a callback makes libcurl's calls be skipped (lost); Plain is what is *)
(* added when the program neither adds a handle before the callbacks of    *)
(* its last future have run, nor removes one from inside a callback.       *)
(*                                                                         *)
(* Most of the work is the loop's ready queue.  Beyond its head the model  *)
(* never depends on its order, so the invariants say only what is in it    *)
(* (Has) and what is in it at most once (Once), and one lemma for each     *)
(* operation on a queue says what that does to both.                       *)
(***************************************************************************)
EXTENDS AsyncMulti, FiniteSetTheorems, TLAPS

-----------------------------------------------------------------------------
(* What is in a queue *)

Has(q, h) == \E i \in DOMAIN q : q[i] = h
Once(q, h) == \A i, j \in DOMAIN q : q[i] = h /\ q[j] = h => i = j

\* The empty queue has nothing.
LEMMA EmptyQueue ==
    ASSUME NEW S
    PROVE  <<>> \in Seq(S) /\ \A h : ~Has(<<>>, h) /\ Once(<<>>, h)
BY DEF Has, Once

\* What is appended is in the queue, beside what was there.
LEMMA AppendQueue ==
    ASSUME NEW S, NEW q \in Seq(S), NEW x \in S
    PROVE  /\ Append(q, x) \in Seq(S)
           /\ \A h : Has(Append(q, x), h) <=> Has(q, h) \/ h = x
           /\ \A h : Once(q, h) /\ (h = x => ~Has(q, h)) => Once(Append(q, x), h)
<1>1. /\ Append(q, x) \in Seq(S) /\ Len(q) \in Nat /\ DOMAIN q = 1..Len(q)
      /\ DOMAIN Append(q, x) = 1..Len(q) + 1 /\ Append(q, x)[Len(q) + 1] = x
      /\ \A i \in 1..Len(q) : Append(q, x)[i] = q[i]
  OBVIOUS
<1>2. \A h : Has(Append(q, x), h) <=> Has(q, h) \/ h = x
  BY <1>1 DEF Has
<1>3. \A h : Once(q, h) /\ (h = x => ~Has(q, h)) => Once(Append(q, x), h)
  BY <1>1 DEF Has, Once
<1> QED
  BY <1>1, <1>2, <1>3

LEMMA TailQueue ==
    ASSUME NEW S, NEW q \in Seq(S), q # <<>>
    PROVE  /\ Tail(q) \in Seq(S) /\ Head(q) \in S
           /\ \A h : Has(q, h) <=> Has(Tail(q), h) \/ h = Head(q)
           /\ \A h : Once(q, h) => Once(Tail(q), h) /\ (h = Head(q) => ~Has(Tail(q), h))
<1>1. /\ Tail(q) \in Seq(S) /\ Len(q) \in Nat /\ Len(q) > 0 /\ DOMAIN q = 1..Len(q)
      /\ DOMAIN Tail(q) = 1..Len(q) - 1 /\ Head(q) = q[1] /\ Head(q) \in S
      /\ \A i \in 1..Len(q) - 1 : Tail(q)[i] = q[i + 1]
  OBVIOUS
<1>2. \A h : Has(q, h) <=> Has(Tail(q), h) \/ h = Head(q)
  <2> SUFFICES ASSUME NEW h PROVE Has(q, h) <=> Has(Tail(q), h) \/ h = Head(q)
    OBVIOUS
  <2>1. ASSUME NEW i \in DOMAIN q, q[i] = h, i # 1
        PROVE  Has(Tail(q), h)
    <3>1. i - 1 \in 1..Len(q) - 1 /\ (i - 1) + 1 = i
      BY <1>1, <2>1
    <3> QED
      BY <1>1, <2>1, <3>1 DEF Has
  <2>2. ASSUME NEW i \in DOMAIN Tail(q), Tail(q)[i] = h
        PROVE  Has(q, h)
    <3>1. i + 1 \in DOMAIN q
      BY <1>1, <2>2
    <3> QED
      BY <1>1, <2>2, <3>1 DEF Has
  <2> QED
    BY <1>1, <2>1, <2>2 DEF Has
<1>3. \A h : Once(q, h) => Once(Tail(q), h) /\ (h = Head(q) => ~Has(Tail(q), h))
  BY <1>1 DEF Has, Once
<1> QED
  BY <1>1, <1>2, <1>3

LEMMA ConcatQueue ==
    ASSUME NEW S, NEW p \in Seq(S), NEW q \in Seq(S)
    PROVE  /\ p \o q \in Seq(S)
           /\ \A h : Has(p \o q, h) <=> Has(p, h) \/ Has(q, h)
           /\ \A h : Once(p, h) /\ Once(q, h) /\ ~(Has(p, h) /\ Has(q, h)) => Once(p \o q, h)
<1>1. /\ p \o q \in Seq(S) /\ Len(p) \in Nat /\ Len(q) \in Nat
      /\ DOMAIN p = 1..Len(p) /\ DOMAIN q = 1..Len(q)
      /\ DOMAIN (p \o q) = 1..Len(p) + Len(q)
      /\ \A i \in 1..Len(p) + Len(q) :
           (p \o q)[i] = IF i <= Len(p) THEN p[i] ELSE q[i - Len(p)]
  OBVIOUS
<1>2. \A h : Has(p \o q, h) <=> Has(p, h) \/ Has(q, h)
  <2> SUFFICES ASSUME NEW h PROVE Has(p \o q, h) <=> Has(p, h) \/ Has(q, h)
    OBVIOUS
  <2>1. ASSUME NEW i \in DOMAIN q, q[i] = h
        PROVE  Has(p \o q, h)
    <3>1. i + Len(p) \in 1..Len(p) + Len(q) /\ ~(i + Len(p) <= Len(p))
          /\ (i + Len(p)) - Len(p) = i
      BY <1>1, <2>1
    <3> QED
      BY <1>1, <2>1, <3>1 DEF Has
  <2>2. ASSUME NEW i \in DOMAIN p, p[i] = h
        PROVE  Has(p \o q, h)
    BY <1>1, <2>2 DEF Has
  <2>3. ASSUME NEW i \in DOMAIN (p \o q), (p \o q)[i] = h
        PROVE  Has(p, h) \/ Has(q, h)
    BY <1>1, <2>3 DEF Has
  <2> QED
    BY <2>1, <2>2, <2>3 DEF Has
<1>3. \A h : Once(p, h) /\ Once(q, h) /\ ~(Has(p, h) /\ Has(q, h)) => Once(p \o q, h)
  <2> SUFFICES ASSUME NEW h, Once(p, h), Once(q, h), ~(Has(p, h) /\ Has(q, h)),
                      NEW i \in 1..Len(p) + Len(q), NEW j \in 1..Len(p) + Len(q),
                      (p \o q)[i] = h, (p \o q)[j] = h
               PROVE  i = j
    BY <1>1 DEF Once
  <2>1. CASE i <= Len(p) /\ j <= Len(p)
    BY <1>1, <2>1 DEF Once
  <2>2. CASE ~(i <= Len(p)) /\ ~(j <= Len(p))
    BY <1>1, <2>2 DEF Once
  <2> QED
    BY <1>1, <2>1, <2>2 DEF Has
<1> QED
  BY <1>1, <1>2, <1>3

LEMMA SingleQueue ==
    ASSUME NEW S, NEW x \in S
    PROVE  <<x>> \in Seq(S) /\ \A h : (Has(<<x>>, h) <=> h = x) /\ Once(<<x>>, h)
BY DEF Has, Once

\* Something is put into a queue.
LEMMA InsertQueue ==
    ASSUME NEW S, NEW q \in Seq(S), NEW x \in S, NEW i \in 1..Len(q) + 1
    PROVE  /\ InsertAt(q, i, x) \in Seq(S)
           /\ \A h : Has(InsertAt(q, i, x), h) <=> Has(q, h) \/ h = x
           /\ \A h : Once(q, h) /\ (h = x => ~Has(q, h)) => Once(InsertAt(q, i, x), h)
<1> DEFINE a == SubSeq(q, 1, i - 1)
           b == SubSeq(q, i, Len(q))
<1>1. /\ Len(q) \in Nat /\ i \in Nat /\ i > 0 /\ i <= Len(q) + 1 /\ DOMAIN q = 1..Len(q)
      /\ a \in Seq(S) /\ DOMAIN a = 1..i - 1 /\ \A j \in 1..i - 1 : a[j] = q[j]
      /\ b \in Seq(S) /\ DOMAIN b = 1..Len(q) - i + 1
      /\ \A j \in 1..Len(q) - i + 1 : b[j] = q[i + j - 1]
  OBVIOUS
<1>2. InsertAt(q, i, x) = (a \o <<x>>) \o b
  BY DEF InsertAt
<1> HIDE DEF a, b
<1>3. \A h : Has(q, h) <=> Has(a, h) \/ Has(b, h)
  <2> SUFFICES ASSUME NEW h PROVE Has(q, h) <=> Has(a, h) \/ Has(b, h)
    OBVIOUS
  <2>1. ASSUME NEW j \in DOMAIN q, q[j] = h, ~(j < i)
        PROVE  Has(b, h)
    <3>1. j - i + 1 \in 1..Len(q) - i + 1 /\ i + (j - i + 1) - 1 = j
      BY <1>1, <2>1
    <3> QED
      BY <1>1, <2>1, <3>1 DEF Has
  <2>2. ASSUME NEW j \in DOMAIN q, q[j] = h, j < i
        PROVE  Has(a, h)
    BY <1>1, <2>2 DEF Has
  <2>3. ASSUME NEW j \in DOMAIN b, b[j] = h
        PROVE  Has(q, h)
    <3>1. i + j - 1 \in DOMAIN q
      BY <1>1, <2>3
    <3> QED
      BY <1>1, <2>3, <3>1 DEF Has
  <2>4. ASSUME NEW j \in DOMAIN a, a[j] = h
        PROVE  Has(q, h)
    BY <1>1, <2>4 DEF Has
  <2> QED
    BY <2>1, <2>2, <2>3, <2>4 DEF Has
<1>4. \A h : Once(q, h) => Once(a, h) /\ Once(b, h) /\ ~(Has(a, h) /\ Has(b, h))
  <2> SUFFICES ASSUME NEW h, Once(q, h)
               PROVE  Once(a, h) /\ Once(b, h) /\ ~(Has(a, h) /\ Has(b, h))
    OBVIOUS
  <2>1. Once(a, h)
    BY <1>1 DEF Once
  <2>2. Once(b, h)
    <3> SUFFICES ASSUME NEW j \in DOMAIN b, NEW k \in DOMAIN b, b[j] = h, b[k] = h
                 PROVE  j = k
      BY DEF Once
    <3>1. i + j - 1 \in DOMAIN q /\ i + k - 1 \in DOMAIN q
      BY <1>1
    <3>2. i + j - 1 = i + k - 1
      BY <1>1, <3>1 DEF Once
    <3> QED
      BY <1>1, <3>2
  <2>3. ASSUME NEW j \in DOMAIN a, NEW k \in DOMAIN b, a[j] = h, b[k] = h
        PROVE  FALSE
    <3>1. j \in DOMAIN q /\ i + k - 1 \in DOMAIN q /\ j # i + k - 1
      BY <1>1
    <3> QED
      BY <1>1, <2>3, <3>1 DEF Once
  <2> QED
    BY <2>1, <2>2, <2>3 DEF Has
<1>5. /\ a \o <<x>> \in Seq(S)
      /\ \A h : Has(a \o <<x>>, h) <=> Has(a, h) \/ h = x
      /\ \A h : Once(a, h) /\ (h = x => ~Has(a, h)) => Once(a \o <<x>>, h)
  <2>1. <<x>> \in Seq(S) /\ \A h : (Has(<<x>>, h) <=> h = x) /\ Once(<<x>>, h)
    BY SingleQueue
  <2>2. /\ a \o <<x>> \in Seq(S)
        /\ \A h : Has(a \o <<x>>, h) <=> Has(a, h) \/ Has(<<x>>, h)
        /\ \A h : Once(a, h) /\ Once(<<x>>, h) /\ ~(Has(a, h) /\ Has(<<x>>, h))
                    => Once(a \o <<x>>, h)
    BY <1>1, <2>1, ConcatQueue
  <2> QED
    BY <2>1, <2>2
<1>6. /\ (a \o <<x>>) \o b \in Seq(S)
      /\ \A h : Has((a \o <<x>>) \o b, h) <=> Has(a \o <<x>>, h) \/ Has(b, h)
      /\ \A h : Once(a \o <<x>>, h) /\ Once(b, h) /\ ~(Has(a \o <<x>>, h) /\ Has(b, h))
                  => Once((a \o <<x>>) \o b, h)
  BY <1>1, <1>5, ConcatQueue
<1> QED
  BY <1>2, <1>3, <1>4, <1>5, <1>6

\* The one occurrence of x is taken out of a queue.
LEMMA RemoveQueue ==
    ASSUME NEW S, NEW q \in Seq(S), NEW x, Once(q, x)
    PROVE  /\ RemoveFirst(q, x) \in Seq(S)
           /\ \A h : Has(RemoveFirst(q, x), h) <=> Has(q, h) /\ h # x
           /\ \A h : Once(q, h) => Once(RemoveFirst(q, x), h)
<1>0. Len(q) \in Nat /\ DOMAIN q = 1..Len(q)
  OBVIOUS
<1>1. CASE ~Has(q, x)
  <2>1. RemoveFirst(q, x) = q
    BY <1>0, <1>1 DEF RemoveFirst, Has
  <2> QED
    BY <1>1, <2>1 DEF Has
<1>2. CASE Has(q, x)
  <2>1. PICK k \in 1..Len(q) : q[k] = x
    BY <1>0, <1>2 DEF Has
  <2>2. \A i \in 1..Len(q) : q[i] = x => i = k
    BY <1>0, <2>1 DEF Once
  <2>3. SelectInSeq(q, LAMBDA v : v = x) = k
    <3>1. {i \in 1..Len(q) : q[i] = x} = {k}
      BY <2>1, <2>2
    <3>2. Min({k}) = k
      BY DEF Min
    <3> QED
      BY <3>1, <3>2 DEF SelectInSeq
  <2> DEFINE a == SubSeq(q, 1, k - 1)
             b == SubSeq(q, k + 1, Len(q))
  <2>4. RemoveFirst(q, x) = a \o b
    BY <2>1, <2>3 DEF RemoveFirst, RemoveAt
  <2>5. /\ k \in Nat /\ k > 0 /\ k <= Len(q)
        /\ a \in Seq(S) /\ DOMAIN a = 1..k - 1 /\ \A j \in 1..k - 1 : a[j] = q[j]
        /\ b \in Seq(S) /\ DOMAIN b = 1..Len(q) - k
        /\ \A j \in 1..Len(q) - k : b[j] = q[k + j]
    BY <1>0, <2>1
  <2> HIDE DEF a, b
  <2>6. \A h : Has(q, h) /\ h # x <=> Has(a, h) \/ Has(b, h)
    <3> SUFFICES ASSUME NEW h PROVE Has(q, h) /\ h # x <=> Has(a, h) \/ Has(b, h)
      OBVIOUS
    <3>1. ASSUME NEW j \in DOMAIN q, q[j] = h, h # x
          PROVE  Has(a, h) \/ Has(b, h)
      <4>1. j # k /\ j \in 1..Len(q)
        BY <1>0, <2>1, <3>1
      <4>2. CASE j < k
        BY <2>5, <3>1, <4>1, <4>2 DEF Has
      <4>3. CASE j > k
        <5>1. j - k \in 1..Len(q) - k /\ k + (j - k) = j
          BY <2>5, <4>1, <4>3
        <5> QED
          BY <2>5, <3>1, <5>1 DEF Has
      <4> QED
        BY <2>5, <4>1, <4>2, <4>3
    <3>2. ASSUME NEW j \in DOMAIN a, a[j] = h
          PROVE  Has(q, h) /\ h # x
      <4>1. j \in DOMAIN q /\ j # k /\ q[j] = h
        BY <1>0, <2>5, <3>2
      <4> QED
        BY <1>0, <2>2, <4>1 DEF Has
    <3>3. ASSUME NEW j \in DOMAIN b, b[j] = h
          PROVE  Has(q, h) /\ h # x
      <4>1. k + j \in DOMAIN q /\ k + j # k /\ q[k + j] = h
        BY <1>0, <2>5, <3>3
      <4> QED
        BY <1>0, <2>2, <4>1 DEF Has
    <3> QED
      BY <3>1, <3>2, <3>3 DEF Has
  <2>7. \A h : Once(q, h) => Once(a, h) /\ Once(b, h) /\ ~(Has(a, h) /\ Has(b, h))
    <3> SUFFICES ASSUME NEW h, Once(q, h)
                 PROVE  Once(a, h) /\ Once(b, h) /\ ~(Has(a, h) /\ Has(b, h))
      OBVIOUS
    <3>1. Once(a, h)
      BY <1>0, <2>5 DEF Once
    <3>2. Once(b, h)
      <4> SUFFICES ASSUME NEW j \in DOMAIN b, NEW l \in DOMAIN b, b[j] = h, b[l] = h
                   PROVE  j = l
        BY DEF Once
      <4>1. k + j \in DOMAIN q /\ k + l \in DOMAIN q
        BY <1>0, <2>5
      <4>2. k + j = k + l
        BY <2>5, <4>1 DEF Once
      <4> QED
        BY <2>5, <4>2
    <3>3. ASSUME NEW j \in DOMAIN a, NEW l \in DOMAIN b, a[j] = h, b[l] = h
          PROVE  FALSE
      <4>1. j \in DOMAIN q /\ k + l \in DOMAIN q /\ j # k + l
        BY <1>0, <2>5
      <4> QED
        BY <2>5, <3>3, <4>1 DEF Once
    <3> QED
      BY <3>1, <3>2, <3>3 DEF Has
  <2>8. /\ a \o b \in Seq(S)
        /\ \A h : Has(a \o b, h) <=> Has(a, h) \/ Has(b, h)
        /\ \A h : Once(a, h) /\ Once(b, h) /\ ~(Has(a, h) /\ Has(b, h)) => Once(a \o b, h)
    BY <2>5, ConcatQueue
  <2> QED
    BY <2>4, <2>6, <2>7, <2>8
<1> QED
  BY <1>1, <1>2

\* The elements of a finite set in some order.
LEMMA SetQueue ==
    ASSUME NEW S, NEW T \in SUBSET S, IsFiniteSet(T)
    PROVE  /\ \A q \in SetToSeqs(T) : /\ q \in Seq(S)
                                      /\ \A h : (Has(q, h) <=> h \in T) /\ Once(q, h)
           /\ SetToSeq(T) \in SetToSeqs(T)
<1> PICK n \in Nat : n = Cardinality(T)
  BY FS_CardinalityType
<1>1. ExistsBijection(1..n, T)
  BY FS_CardinalityType
<1>2. ASSUME NEW q \in SetToSeqs(T)
      PROVE  /\ q \in Seq(S)
             /\ \A h : (Has(q, h) <=> h \in T) /\ Once(q, h)
  <2>1. q \in [1..n -> T] /\ \A i, j \in 1..n : i # j => q[i] # q[j]
    BY <1>2 DEF SetToSeqs
  <2>2. q \in Injection(1..n, T)
    BY <2>1 DEF Injection, IsInjective
  <2>3. IsFiniteSet(1..n) /\ Cardinality(1..n) = n
    BY FS_Interval
  <2>4. q \in Surjection(1..n, T)
    BY <2>2, <2>3, FS_Injection
  <2>5. q \in Seq(S)
    BY <2>1
  <2> QED
    BY <2>1, <2>4, <2>5 DEF Surjection, Has, Once
<1>3. SetToSeq(T) \in SetToSeqs(T)
  <2>1. \E f \in [1..n -> T] : IsInjective(f)
    BY <1>1 DEF ExistsBijection, Bijection, Injection
  <2>2. SetToSeq(T) \in [1..n -> T] /\ IsInjective(SetToSeq(T))
    BY <2>1 DEF SetToSeq
  <2> QED
    BY <2>2 DEF SetToSeqs, IsInjective
<1> QED
  BY <1>2, <1>3

-----------------------------------------------------------------------------
(* The timer *)

\* There is one timeout handle, queued or still waiting, if own, and no other.
Timers(q, l, own) ==
    /\ l \in {0, 1} /\ own \in BOOLEAN
    /\ Once(q, Timeout)
    /\ own <=> l = 1 \/ Has(q, Timeout)
    /\ ~(l = 1 /\ Has(q, Timeout))

\* The queue r has the handles of p and q, apart from timeouts.
Joins(r, p, q) == \A h : h # Timeout =>
    /\ Has(r, h) <=> Has(p, h) \/ Has(q, h)
    /\ Once(p, h) /\ Once(q, h) /\ ~(Has(p, h) /\ Has(q, h)) => Once(r, h)

LEMMA TimeoutHandle == Timeout \in Handle
BY DEF Timeout, Handle

LEMMA CancelFacts ==
    ASSUME NEW q \in Seq(Handle), NEW own, Timers(q, later, own)
    PROVE  /\ CancelTimer(q, own) \in Seq(Handle)
           /\ ~Has(CancelTimer(q, own), Timeout)
           /\ Joins(CancelTimer(q, own), q, <<>>)
           /\ StillLater(own) = 0
<1>1. Once(q, Timeout) /\ \A h : ~Has(<<>>, h)
  BY EmptyQueue DEF Timers
<1>2. CASE own
  <2>1. CancelTimer(q, own) = RemoveFirst(q, Timeout)
    BY <1>2 DEF CancelTimer
  <2>2. /\ RemoveFirst(q, Timeout) \in Seq(Handle)
        /\ \A h : Has(RemoveFirst(q, Timeout), h) <=> Has(q, h) /\ h # Timeout
        /\ \A h : Once(q, h) => Once(RemoveFirst(q, Timeout), h)
    BY <1>1, RemoveQueue
  <2>3. StillLater(own) = 0
    BY <1>2 DEF StillLater
  <2> QED
    BY <1>1, <2>1, <2>2, <2>3 DEF Joins
<1>3. CASE ~own
  <2>1. CancelTimer(q, own) = q /\ StillLater(own) = later
    BY <1>3 DEF CancelTimer, StillLater
  <2> QED
    BY <1>1, <1>3, <2>1 DEF Timers, Joins
<1> QED
  BY <1>2, <1>3

\* Whatever libcurl does with its timer, the loop's handle follows.
LEMMA TimerStep ==
    ASSUME NEW q \in Seq(Handle), NEW new \in Seq(Handle), NEW own \in BOOLEAN,
           NEW still \in BOOLEAN,
           Timers(q, later, own), ~Has(new, Timeout), LibTimer(q, new, own, still)
    PROVE  /\ ready' \in Seq(Handle) /\ Timers(ready', later', timer')
           /\ armed' \in BOOLEAN /\ (own = still => armed' = timer')
           /\ Joins(ready', q, new)
<1> PICK c \in Seq(Handle) : c = CancelTimer(q, own)
  BY CancelFacts
<1>1. ~Has(c, Timeout) /\ Joins(c, q, <<>>) /\ StillLater(own) = 0
  BY CancelFacts
<1>2. \A h : h # Timeout => (Has(c, h) <=> Has(q, h)) /\ (Once(q, h) => Once(c, h))
  BY <1>1, EmptyQueue DEF Joins
<1>3. later \in {0, 1}
  BY DEF Timers
<1>4. CASE armed' = still /\ timer' = own /\ ready' = q \o new /\ later' = later
  <2>1. /\ q \o new \in Seq(Handle)
        /\ \A h : Has(q \o new, h) <=> Has(q, h) \/ Has(new, h)
        /\ \A h : Once(q, h) /\ Once(new, h) /\ ~(Has(q, h) /\ Has(new, h))
                    => Once(q \o new, h)
    BY ConcatQueue
  <2>2. Once(new, Timeout)
    BY DEF Once, Has
  <2>3. Joins(ready', q, new)
    BY <1>4, <2>1 DEF Joins
  <2>4. Timers(ready', later', timer')
    BY <1>4, <2>1, <2>2 DEF Timers
  <2> QED
    BY <1>4, <2>1, <2>3, <2>4
<1>5. CASE \/ armed' = FALSE /\ timer' = FALSE /\ ready' = c \o new /\ later' = 0
           \/ armed' = TRUE /\ timer' = TRUE /\ ready' = c \o new /\ later' = 1
  <2>1. /\ c \o new \in Seq(Handle)
        /\ \A h : Has(c \o new, h) <=> Has(c, h) \/ Has(new, h)
        /\ \A h : Once(c, h) /\ Once(new, h) /\ ~(Has(c, h) /\ Has(new, h))
                    => Once(c \o new, h)
    BY ConcatQueue
  <2>2. Once(c, Timeout) /\ Once(new, Timeout)
    BY <1>1 DEF Once, Has
  <2>3. Joins(ready', q, new)
    BY <1>2, <1>5, <2>1 DEF Joins
  <2>4. Once(ready', Timeout) /\ ~Has(ready', Timeout)
    BY <1>1, <1>5, <2>1, <2>2
  <2>5. Timers(ready', later', timer')
    <3>1. CASE timer' = FALSE /\ later' = 0
      <4>1. Timers(ready', 0, FALSE)
        BY <2>4 DEF Timers
      <4> QED
        BY <3>1, <4>1
    <3>2. CASE timer' = TRUE /\ later' = 1
      <4>1. Timers(ready', 1, TRUE)
        BY <2>4 DEF Timers
      <4> QED
        BY <3>2, <4>1
    <3> QED
      BY <1>5, <3>1, <3>2
  <2> QED
    BY <1>5, <2>1, <2>3, <2>5
<1>6. ASSUME NEW i \in 1 .. Len(new) + 1, armed' = TRUE, timer' = TRUE,
             ready' = c \o InsertAt(new, i, Timeout), later' = 0
      PROVE  /\ ready' \in Seq(Handle) /\ Timers(ready', later', timer')
             /\ armed' \in BOOLEAN /\ (own = still => armed' = timer')
             /\ Joins(ready', q, new)
  <2>1. /\ InsertAt(new, i, Timeout) \in Seq(Handle)
        /\ \A h : Has(InsertAt(new, i, Timeout), h) <=> Has(new, h) \/ h = Timeout
        /\ \A h : Once(new, h) /\ (h = Timeout => ~Has(new, h))
                    => Once(InsertAt(new, i, Timeout), h)
    BY TimeoutHandle, InsertQueue
  <2> PICK n \in Seq(Handle) : n = InsertAt(new, i, Timeout)
    BY <2>1
  <2>2. /\ c \o n \in Seq(Handle)
        /\ \A h : Has(c \o n, h) <=> Has(c, h) \/ Has(n, h)
        /\ \A h : Once(c, h) /\ Once(n, h) /\ ~(Has(c, h) /\ Has(n, h)) => Once(c \o n, h)
    BY ConcatQueue
  <2>3. Once(c, Timeout) /\ Once(new, Timeout)
    BY <1>1 DEF Once, Has
  <2>4. Joins(ready', q, new)
    BY <1>2, <1>6, <2>1, <2>2 DEF Joins
  <2>5. Timers(ready', later', timer')
    BY <1>1, <1>6, <2>1, <2>2, <2>3 DEF Timers
  <2> QED
    BY <1>6, <2>2, <2>4, <2>5
<1>7. \/ armed' = still /\ timer' = own /\ ready' = q \o new /\ later' = later
      \/ armed' = FALSE /\ timer' = FALSE /\ ready' = c \o new /\ later' = 0
      \/ armed' = TRUE /\ timer' = TRUE /\ ready' = c \o new /\ later' = 1
      \/ /\ armed' = TRUE /\ timer' = TRUE /\ later' = 0
         /\ \E i \in 1 .. Len(new) + 1 : ready' = c \o InsertAt(new, i, Timeout)
  <2>1. CASE /\ armed' = still /\ timer' = own
             /\ ready' = q \o new /\ UNCHANGED later
    BY <2>1
  <2>2. CASE /\ still /\ armed' = FALSE /\ timer' = FALSE
             /\ ready' = CancelTimer(q, own) \o new
             /\ later' = StillLater(own)
    BY <1>1, <2>2
  <2>3. CASE /\ armed' = TRUE /\ timer' = TRUE
             /\ \E i \in 1 .. Len(new) + 1 :
                  ready' = CancelTimer(q, own) \o InsertAt(new, i, Timeout)
             /\ later' = StillLater(own)
    BY <1>1, <2>3
  <2>4. CASE /\ armed' = TRUE /\ timer' = TRUE
             /\ ready' = CancelTimer(q, own) \o new
             /\ later' = StillLater(own) + 1
    BY <1>1, <2>4
  <2> QED
    BY <2>1, <2>2, <2>3, <2>4 DEF LibTimer
<1> QED
  BY <1>4, <1>5, <1>6, <1>7

-----------------------------------------------------------------------------
(* The invariant *)

Forms(q) == \A h : Has(q, h) =>
    (h.kind = "timeout" => h = Timeout) /\ (h.kind = "drain" => h = DrainHandle)

\* The queue q has the handles that l, own and n account for: one timeout or
\* none, one drain or none.
Accounted(q, l, own, n) ==
    /\ q \in Seq(Handle) /\ n \in BOOLEAN
    /\ Timers(q, l, own) /\ Forms(q)
    /\ Once(q, DrainHandle) /\ (n <=> Has(q, DrainHandle))

\* The timers agree as long as no callback was lost.
Queue ==
    /\ Accounted(ready, later, timer, notify)
    /\ armed \in BOOLEAN /\ lost \in BOOLEAN /\ (lost \/ timer = armed)

Types ==
    /\ notify_supported \in BOOLEAN /\ closed \in BOOLEAN
    /\ futures \in [Curl -> Fut \cup {NULL}]
    /\ fcurl \in [Fut -> Curl \cup {NULL}]
    /\ fstate \in [Fut -> {"unused", "dropped", "pending"} \cup Finals]
    /\ attached \in [Curl -> Fut \cup {NULL}]
    /\ open \in [Curl -> BOOLEAN]
    /\ msgs \in [Curl -> {"none", "ok", "err"}]
    /\ watched \subseteq Curl

\* A future in the table is of its handle, and it is the one the handle was
\* attached for, if it is attached; a message is of an attached handle and has
\* a drain on the way, as long as no callback was lost.
Table ==
    /\ \A c \in Curl : futures[c] # NULL =>
         fcurl[futures[c]] = c /\ fstate[futures[c]] \notin {"unused", "dropped"}
    /\ \A c \in Curl : attached[c] # NULL /\ futures[c] # NULL => attached[c] = futures[c]
    /\ \A f \in Fut : fstate[f] = "pending" => fcurl[f] # NULL
Heard == \A c \in Curl : msgs[c] # "none" => (lost \/ notify) /\ attached[c] # NULL

DoneIn(q, h) == h.kind = "done" /\ Has(q, h)

\* A done callback is of a future that is done, with the handle it had.
Dones == \A h \in Handle : DoneIn(ready, h) =>
    h.f \in Fut /\ h.c \in Curl /\ h.c = fcurl[h.f] /\ fstate[h.f] \in Finals

Inv == Types /\ Queue /\ Table /\ Heard /\ Dones

\* Only the callback of its own future can find a handle in the table.
Apart == \A h \in Handle : DoneIn(ready, h) => futures[h.c] \in {NULL, h.f}

\* What futures() shows, in terms of DoneIn.
Snapshot ==
    /\ \A f \in Fut : fstate[f] = "pending" => futures[fcurl[f]] = f
    /\ \A c \in Curl : futures[c] # NULL =>
         \/ fstate[futures[c]] = "pending"
         \/ \E h \in Handle : DoneIn(ready, h) /\ h.f = futures[c]

Plain == NoOrphans /\ Apart /\ Snapshot /\ ClosedIsQuiet

-----------------------------------------------------------------------------
(* The queue in a step *)

\* libcurl sets its timer while the handles new join the queue.
LEMMA QueueStep ==
    ASSUME NEW q, NEW own, NEW n, Accounted(q, later, own, n),
           NEW new \in Seq(Handle), Once(new, DrainHandle),
           \A h : Has(new, h) => h.kind = "done" \/ (h = DrainHandle /\ ~n),
           NEW still \in BOOLEAN, LibTimer(q, new, own, still),
           lost' \in BOOLEAN, lost' \/ own = still,
           notify' \in BOOLEAN, notify' <=> n \/ Has(new, DrainHandle)
    PROVE  /\ Queue'
           /\ \A h : DoneIn(ready, h)' <=> DoneIn(q, h) \/ DoneIn(new, h)
<1>1. /\ Timeout.kind = "timeout" /\ DrainHandle.kind = "drain"
      /\ Timeout # DrainHandle
  BY DEF Timeout, DrainHandle
<1>2. ~Has(new, Timeout)
  BY <1>1
<1>3. q \in Seq(Handle) /\ Timers(q, later, own) /\ own \in BOOLEAN
  BY DEF Accounted, Timers
<1>4. /\ ready' \in Seq(Handle) /\ Timers(ready', later', timer')
      /\ armed' \in BOOLEAN /\ (own = still => armed' = timer')
      /\ Joins(ready', q, new)
  BY <1>2, <1>3, TimerStep
<1>5. Once(ready', DrainHandle) /\ (notify' <=> Has(ready', DrainHandle))
  BY <1>1, <1>4 DEF Accounted, Joins
<1>6. Forms(ready')
  BY <1>1, <1>4 DEF Accounted, Joins, Forms
<1>7. Queue'
  BY <1>4, <1>5, <1>6 DEF Queue, Accounted
<1>8. \A h : DoneIn(ready', h) <=> DoneIn(q, h) \/ DoneIn(new, h)
  BY <1>1, <1>4 DEF DoneIn, Joins
<1> QED
  BY <1>7, <1>8

\* The queue without its head, which the loop runs.
LEMMA HeadFacts ==
    ASSUME Queue, ready # <<>>
    PROVE  /\ Head(ready) \in Handle /\ Has(ready, Head(ready))
           /\ Accounted(Tail(ready), later, timer /\ Head(ready).kind # "timeout",
                        notify /\ Head(ready).kind # "drain")
           /\ \A h : DoneIn(ready, h) <=>
                DoneIn(Tail(ready), h) \/ (h = Head(ready) /\ h.kind = "done")
<1> PICK q \in Seq(Handle) : q = ready
  BY DEF Queue, Accounted
<1>1. /\ Tail(q) \in Seq(Handle) /\ Head(q) \in Handle
      /\ \A h : Has(q, h) <=> Has(Tail(q), h) \/ h = Head(q)
      /\ \A h : Once(q, h) => Once(Tail(q), h) /\ (h = Head(q) => ~Has(Tail(q), h))
  BY TailQueue
<1> PICK r \in Seq(Handle), x \in Handle : r = Tail(q) /\ x = Head(q)
  BY <1>1
<1>2. /\ Timeout.kind = "timeout" /\ DrainHandle.kind = "drain"
  BY DEF Timeout, DrainHandle
<1>3. Timers(q, later, timer) /\ Forms(q) /\ Once(q, DrainHandle)
      /\ notify \in BOOLEAN /\ (notify <=> Has(q, DrainHandle))
  BY DEF Queue, Accounted
<1>4. Forms(r)
  BY <1>1, <1>3 DEF Forms
<1>5. x.kind = "timeout" <=> x = Timeout
  BY <1>1, <1>2, <1>3 DEF Forms
<1>6. x.kind = "drain" <=> x = DrainHandle
  BY <1>1, <1>2, <1>3 DEF Forms
<1>7. Timers(r, later, timer /\ x.kind # "timeout")
  <2>1. CASE x = Timeout
    BY <1>1, <1>3, <1>5, <2>1 DEF Timers
  <2>2. CASE x # Timeout
    BY <1>1, <1>3, <1>5, <2>2 DEF Timers
  <2> QED
    BY <2>1, <2>2
<1>8. /\ Once(r, DrainHandle)
      /\ (notify /\ x.kind # "drain") <=> Has(r, DrainHandle)
  BY <1>1, <1>3, <1>6
<1>9. Accounted(r, later, timer /\ x.kind # "timeout", notify /\ x.kind # "drain")
  BY <1>3, <1>4, <1>7, <1>8 DEF Accounted
<1>10. \A h : DoneIn(q, h) <=> DoneIn(r, h) \/ (h = x /\ h.kind = "done")
  BY <1>1 DEF DoneIn
<1> QED
  BY <1>1, <1>9, <1>10

\* Done callbacks of futures.
LEMMA DoneFacts ==
    ASSUME Types, NEW f \in Fut
    PROVE  /\ DoneHandle(f) \in Handle /\ DoneHandle(f).kind = "done"
           /\ DoneHandle(f).f = f /\ DoneHandle(f).c = fcurl[f]
BY DEF Types, DoneHandle, Handle

\* The callbacks of the futures of some handles can be queued, in any order.
LEMMA NewDones ==
    ASSUME Types, Table, NEW R \in SUBSET Curl
    PROVE  LET new == {DoneHandle(f) : f \in NotDone(R)} IN
           /\ \A q \in SetToSeqs(new) :
                /\ q \in Seq(Handle) /\ Once(q, DrainHandle)
                /\ \A h : Has(q, h) => h.kind = "done"
                /\ \A h : DoneIn(q, h) <=> \E f \in NotDone(R) : h = DoneHandle(f)
           /\ SetToSeq(new) \in SetToSeqs(new)
<1> DEFINE new == {DoneHandle(f) : f \in NotDone(R)}
<1>1. \A f \in NotDone(R) : /\ f \in Fut /\ fcurl[f] \in R /\ futures[fcurl[f]] = f
  BY NoneAssumption DEF NotDone, Table, Types
<1>2. \A h \in new : h \in Handle /\ h.kind = "done" /\ h.c \in Curl
                     /\ h.f = futures[h.c] /\ h = DoneHandle(h.f)
  BY <1>1, DoneFacts
<1>3. IsFiniteSet(new)
  <2> DEFINE g == [h \in new |-> h.c]
  <2>1. \A h, k \in new : g[h] = g[k] => h = k
    BY <1>2
  <2>2. g \in [new -> Curl]
    BY <1>2
  <2>3. g \in Injection(new, Curl)
    BY <2>1, <2>2 DEF Injection, IsInjective
  <2> QED
    BY <2>3, FS_Injection, CurlAssumption
<1>4. new \in SUBSET Handle
  BY <1>2
<1>5. /\ \A q \in SetToSeqs(new) : /\ q \in Seq(Handle)
                                  /\ \A h : (Has(q, h) <=> h \in new) /\ Once(q, h)
      /\ SetToSeq(new) \in SetToSeqs(new)
  BY <1>3, <1>4, SetQueue
<1>6. \A h : h \in new <=> \E f \in NotDone(R) : h = DoneHandle(f)
  OBVIOUS
<1> HIDE DEF new
<1>7. \A q \in SetToSeqs(new) :
        /\ q \in Seq(Handle) /\ Once(q, DrainHandle)
        /\ \A h : Has(q, h) => h.kind = "done"
        /\ \A h : DoneIn(q, h) <=> \E f \in NotDone(R) : h = DoneHandle(f)
  BY <1>2, <1>5, <1>6 DEF DoneIn
<1> QED
  BY <1>5, <1>7 DEF new

\* A handle is its kind, its easy and its future.
LEMMA HandleFacts ==
    ASSUME Inv, NEW h \in Handle, DoneIn(ready, h)
    PROVE  h = DoneHandle(h.f) /\ h.f \in Fut /\ h.c \in Curl /\ h.c = fcurl[h.f]
BY DEF Inv, Dones, DoneIn, Handle, DoneHandle

\* libcurl sets its timer, no more.
LEMMA QuietStep ==
    ASSUME Inv, LibTimer(ready, <<>>, timer, armed), notify' = notify, lost' = lost
    PROVE  Queue' /\ \A h : DoneIn(ready, h)' <=> DoneIn(ready, h)
<1> PICK q, own, n, still : q = ready /\ own = timer /\ n = notify /\ still = armed
  OBVIOUS
<1>1. /\ Accounted(q, later, own, n) /\ n \in BOOLEAN
      /\ still \in BOOLEAN /\ lost' \in BOOLEAN /\ (lost' \/ own = still)
  BY DEF Inv, Queue, Accounted
<1>2. <<>> \in Seq(Handle) /\ \A h : ~Has(<<>>, h) /\ Once(<<>>, h) /\ ~DoneIn(<<>>, h)
  BY EmptyQueue DEF DoneIn
<1>3. LibTimer(q, <<>>, own, still)
  OBVIOUS
<1> PICK new : new = <<>>
  OBVIOUS
<1>4. /\ Queue'
      /\ \A h : DoneIn(ready, h)' <=> DoneIn(q, h) \/ DoneIn(new, h)
  BY <1>1, <1>2, <1>3, QueueStep
<1> QED
  BY <1>2, <1>4

-----------------------------------------------------------------------------
(* The program's calls *)

LEMMA AddStep ==
    ASSUME Inv, NEW c \in Curl, NEW f \in Fut, AddHandle(c, f)
    PROVE  Inv' /\ (Uses \subseteq {"raise"} /\ Plain => Plain')
<1>1. /\ ~closed /\ futures[c] = NULL /\ fstate[f] = "unused"
      /\ open[c] /\ attached[c] = NULL
      /\ "readd" \in Uses \/ \A g \in Fut : fcurl[g] = c => ~Queued(DoneHandle(g))
      /\ futures' = [futures EXCEPT ![c] = f]
      /\ fcurl' = [fcurl EXCEPT ![f] = c]
      /\ fstate' = [fstate EXCEPT ![f] = "pending"]
      /\ attached' = [attached EXCEPT ![c] = f]
      /\ notify' = notify /\ closed' = closed /\ open' = open /\ msgs' = msgs
      /\ notify_supported' = notify_supported /\ watched' = watched /\ lost' = lost
  BY DEF AddHandle
<1>2. Queue' /\ \A h : DoneIn(ready, h)' <=> DoneIn(ready, h)
  BY <1>1, QuietStep DEF AddHandle
<1>3. Types'
  BY <1>1 DEF Inv, Types
<1>4. Table'
  BY <1>1, NoneAssumption DEF Inv, Table, Types
<1>5. Heard'
  BY <1>1 DEF Inv, Heard, Types
<1>6. Dones'
  <2>1. \A h \in Handle : DoneIn(ready, h) => h.f # f
    BY <1>1 DEF Inv, Dones, Finals
  <2> QED
    BY <1>1, <1>2, <2>1 DEF Inv, Dones, Types
<1>7. ASSUME Uses \subseteq {"raise"}, Plain
      PROVE  Plain'
  <2>1. NoOrphans'
    BY <1>1, <1>7 DEF Plain, NoOrphans, Inv, Types
  <2>2. Apart'
    <3>1. \A h \in Handle : DoneIn(ready, h) => h.c # c
      BY <1>1, <1>7, HandleFacts DEF DoneIn, Has, Queued
    <3> QED
      BY <1>1, <1>2, <1>7, <3>1, HandleFacts DEF Plain, Apart, Inv, Types
  <2>3. Snapshot'
    <3>1. \A g \in Fut : fstate'[g] = "pending" => futures'[fcurl'[g]] = g
      BY <1>1, <1>7, NoneAssumption DEF Plain, Snapshot, Inv, Types, Table
    <3>2. \A d \in Curl : futures'[d] # NULL =>
             \/ fstate'[futures'[d]] = "pending"
             \/ \E h \in Handle : DoneIn(ready, h) /\ h.f = futures'[d]
      <4> SUFFICES ASSUME NEW d \in Curl, d # c, futures[d] # NULL
                   PROVE  \/ fstate'[futures[d]] = "pending"
                          \/ \E h \in Handle : DoneIn(ready, h) /\ h.f = futures[d]
        BY <1>1 DEF Inv, Types
      <4>1. futures[d] \in Fut /\ futures[d] # f
        BY <1>1 DEF Inv, Types, Table
      <4> QED
        BY <1>1, <1>7, <4>1 DEF Plain, Snapshot, Inv, Types
    <3> QED
      BY <1>2, <3>1, <3>2 DEF Snapshot
  <2>4. ClosedIsQuiet'
    BY <1>1 DEF ClosedIsQuiet
  <2> QED
    BY <2>1, <2>2, <2>3, <2>4 DEF Plain
<1> QED
  BY <1>2, <1>3, <1>4, <1>5, <1>6, <1>7 DEF Inv

\* The handles R leave the table and libcurl, their futures M are settled and
\* have their callbacks queued.
Settles(R, M) ==
    /\ UNCHANGED <<notify_supported, fcurl>> /\ closed' \in BOOLEAN
    /\ lost' \in BOOLEAN /\ (lost => lost')
    /\ futures' \in [Curl -> Fut \cup {NULL}] /\ attached' \in [Curl -> Fut \cup {NULL}]
    /\ \A c \in Curl : futures'[c] = IF c \in R THEN NULL ELSE futures[c]
    /\ \A c \in Curl : attached'[c] = IF c \in R THEN NULL ELSE attached[c]
    /\ fstate' \in [Fut -> {"unused", "dropped", "pending"} \cup Finals]
    /\ \A f \in Fut : IF f \in M THEN fstate'[f] \in Finals ELSE fstate'[f] = fstate[f]
    /\ msgs' \in [Curl -> {"none", "ok", "err"}]
    /\ \A c \in Curl : \/ msgs'[c] = "none"
                       \/ c \notin R /\ (lost' \/ notify') /\ attached[c] # NULL
    /\ open' \in [Curl -> BOOLEAN] /\ \A c \in Curl \ R : open'[c] = open[c]
    /\ watched' \subseteq Curl
    /\ \A h : DoneIn(ready, h)' => DoneIn(ready, h) \/ \E f \in M : h = DoneHandle(f)
    /\ \A h : DoneIn(ready, h) => DoneIn(ready, h)' \/ h.c \in R

LEMMA SettleStep ==
    ASSUME Inv, NEW R \in SUBSET Curl, NEW M \in SUBSET NotDone(R), Settles(R, M)
    PROVE  /\ Types' /\ Table' /\ Heard' /\ Dones'
           /\ Plain /\ M = NotDone(R) => NoOrphans' /\ Apart' /\ Snapshot'
<1> USE DEF Settles
<1>1. Types'
  BY DEF Inv, Types
<1>2. \A f \in NotDone(R) : /\ f \in Fut /\ fstate[f] = "pending" /\ fcurl[f] \in R
                            /\ futures[fcurl[f]] = f
  BY NoneAssumption DEF NotDone, Inv, Table, Types
<1>3. \A f \in Fut : /\ fstate'[f] = "pending" => fstate[f] = "pending" /\ f \notin M
                     /\ fstate'[f] \in {"unused", "dropped"} => fstate'[f] = fstate[f]
                     /\ fstate[f] \in Finals => fstate'[f] \in Finals
  BY DEF Finals
<1>4. Table'
  BY <1>3 DEF Inv, Table, Types
<1>5. Heard'
  BY DEF Inv, Heard, Types
<1>6. Dones'
  <2> SUFFICES ASSUME NEW h \in Handle,
                      DoneIn(ready, h) \/ \E f \in M : h = DoneHandle(f)
               PROVE  h.f \in Fut /\ h.c \in Curl /\ h.c = fcurl'[h.f] /\ fstate'[h.f] \in Finals
    BY DEF Dones
  <2>1. CASE DoneIn(ready, h)
    BY <1>3, <2>1 DEF Inv, Dones
  <2>2. CASE \E f \in M : h = DoneHandle(f)
    BY <1>2, <2>2, DoneFacts DEF Inv
  <2> QED
    BY <2>1, <2>2
<1>7. ASSUME Plain, M = NotDone(R)
      PROVE  NoOrphans' /\ Apart' /\ Snapshot'
  <2>1. NoOrphans'
    BY <1>7 DEF Plain, NoOrphans
  <2>2. Apart'
    <3> SUFFICES ASSUME NEW h \in Handle,
                        DoneIn(ready, h) \/ \E f \in M : h = DoneHandle(f)
                 PROVE  futures'[h.c] \in {NULL, h.f}
      BY DEF Apart
    <3>1. CASE DoneIn(ready, h)
      BY <1>7, <3>1, HandleFacts DEF Plain, Apart
    <3>2. CASE \E f \in M : h = DoneHandle(f)
      BY <1>2, <3>2, DoneFacts DEF Inv
    <3> QED
      BY <3>1, <3>2
  <2>3. \A f \in Fut : fstate'[f] = "pending" => futures'[fcurl'[f]] = f
    <3> SUFFICES ASSUME NEW f \in Fut, fstate[f] = "pending", f \notin M
                 PROVE  futures'[fcurl[f]] = f
      BY <1>3
    <3>1. futures[fcurl[f]] = f /\ fcurl[f] \in Curl
      BY <1>7 DEF Plain, Snapshot, Inv, Table, Types
    <3>2. fcurl[f] \notin R
      BY <1>7, <3>1 DEF NotDone
    <3> QED
      BY <3>1, <3>2
  <2>4. ASSUME NEW c \in Curl, futures'[c] # NULL
        PROVE  \/ fstate'[futures'[c]] = "pending"
               \/ \E h \in Handle : DoneIn(ready, h)' /\ h.f = futures'[c]
    <3>1. c \notin R /\ futures'[c] = futures[c] /\ futures[c] \in Fut /\ fcurl[futures[c]] = c
      BY <2>4 DEF Inv, Types, Table
    <3>2. fstate'[futures[c]] = fstate[futures[c]]
      BY <1>2, <3>1
    <3>3. \/ fstate[futures[c]] = "pending"
          \/ \E h \in Handle : DoneIn(ready, h) /\ h.f = futures[c]
      BY <1>7, <3>1, <2>4 DEF Plain, Snapshot
    <3>4. \A h \in Handle : DoneIn(ready, h) => DoneIn(ready, h)' \/ h.c \in R
      OBVIOUS
    <3>5. \A h \in Handle : DoneIn(ready, h) => h.c = fcurl[h.f]
      BY HandleFacts
    <3> QED
      BY <3>1, <3>2, <3>3, <3>4, <3>5
  <2>5. Snapshot'
    BY <2>3, <2>4 DEF Snapshot
  <2> QED
    BY <2>1, <2>2, <2>5
<1> QED
  BY <1>1, <1>4, <1>5, <1>6, <1>7

\* Only the queue changes, and callbacks leave it that find nothing.
LEMMA QueueOnly ==
    ASSUME Inv, Queue', notify' = notify,
           UNCHANGED <<notify_supported, lost, futures, closed, fcurl, fstate, attached,
                       open, msgs, watched>>,
           \A h : DoneIn(ready, h)' => DoneIn(ready, h),
           \A h : DoneIn(ready, h) => \/ DoneIn(ready, h)'
                                      \/ closed \/ futures[h.c] = NULL
    PROVE  Inv' /\ (Plain /\ timer' = timer => Plain')
<1>1. Types' /\ Table' /\ Heard'
  BY DEF Inv, Types, Table, Heard
<1>2. Dones'
  BY DEF Inv, Dones
<1>3. ASSUME Plain, timer' = timer
      PROVE  Plain'
  <2>1. NoOrphans' /\ ClosedIsQuiet'
    BY <1>3 DEF Plain, NoOrphans, ClosedIsQuiet
  <2>2. Apart'
    BY <1>3 DEF Plain, Apart
  <2>3. ASSUME NEW c \in Curl, futures[c] # NULL
        PROVE  \/ fstate[futures[c]] = "pending"
               \/ \E h \in Handle : DoneIn(ready, h)' /\ h.f = futures[c]
    <3>1. CASE fstate[futures[c]] = "pending"
      BY <3>1
    <3>2. CASE fstate[futures[c]] # "pending"
      <4>1. PICK h \in Handle : DoneIn(ready, h) /\ h.f = futures[c]
        BY <1>3, <2>3, <3>2 DEF Plain, Snapshot
      <4>2. h.c = c
        BY <2>3, <4>1, HandleFacts DEF Inv, Table
      <4>3. ~closed
        BY <1>3, <2>3 DEF Plain, ClosedIsQuiet
      <4> QED
        BY <2>3, <4>1, <4>2, <4>3
    <3> QED
      BY <3>1, <3>2
  <2>4. Snapshot'
    BY <1>3, <2>3 DEF Plain, Snapshot
  <2> QED
    BY <2>1, <2>2, <2>4 DEF Plain
<1> QED
  BY <1>1, <1>2, <1>3 DEF Inv

LEMMA RefusedStep ==
    ASSUME Inv, NEW c \in Curl, NEW f \in Fut, AddRefused(c, f)
    PROVE  Inv' /\ (Plain => Plain')
<1>1. /\ fstate[f] = "unused" /\ fstate' = [fstate EXCEPT ![f] = "dropped"]
      /\ UNCHANGED <<notify_supported, lost, object, fcurl, ready, later, libcurl>>
  BY DEF AddRefused
<1> USE DEF object, libcurl
<1>2. Types' /\ Queue' /\ Heard'
  BY <1>1 DEF Inv, Types, Queue, Accounted, Timers, Forms, Heard
<1>3. \A d \in Curl : futures[d] # f
  BY <1>1, NoneAssumption DEF Inv, Table, Types
<1>4. Table'
  BY <1>1, <1>3 DEF Inv, Table, Types
<1>5. \A h \in Handle : DoneIn(ready, h) => h.f # f
  BY <1>1 DEF Inv, Dones, Finals
<1>6. Dones'
  BY <1>1, <1>5 DEF Inv, Dones, DoneIn, Types
<1>7. Plain => Plain'
  BY <1>1, <1>3 DEF Plain, NoOrphans, Apart, Snapshot, ClosedIsQuiet, DoneIn, Inv, Types
<1> QED
  BY <1>2, <1>4, <1>6, <1>7 DEF Inv

\* The queue q goes on with the callbacks of the futures that are settled.
LEMMA SettledQueue ==
    ASSUME Inv, NEW q, NEW own, NEW n, Accounted(q, later, own, n),
           \A h : DoneIn(q, h) <=> DoneIn(ready, h),
           NEW R \in SUBSET Curl,
           NEW new \in SetToSeqs({DoneHandle(f) : f \in NotDone(R)}),
           NEW still \in BOOLEAN, LibTimer(q, new, own, still),
           lost' \in BOOLEAN, lost' \/ own = still, notify' \in BOOLEAN, notify' <=> n
    PROVE  /\ Queue'
           /\ \A h : DoneIn(ready, h)' <=>
                DoneIn(ready, h) \/ \E f \in NotDone(R) : h = DoneHandle(f)
<1>1. /\ new \in Seq(Handle) /\ Once(new, DrainHandle)
      /\ \A h : Has(new, h) => h.kind = "done"
      /\ \A h : DoneIn(new, h) <=> \E f \in NotDone(R) : h = DoneHandle(f)
  BY NewDones DEF Inv
<1>2. ~Has(new, DrainHandle)
  BY <1>1 DEF DrainHandle
<1>3. Queue' /\ \A h : DoneIn(ready, h)' <=> DoneIn(q, h) \/ DoneIn(new, h)
  BY <1>1, <1>2, QueueStep
<1> QED
  BY <1>1, <1>3

LEMMA RemoveStep ==
    ASSUME Inv, NEW c \in Curl, RemoveHandle(c)
    PROVE  Inv' /\ (Plain => Plain')
<1> PICK q, own, n, still : q = ready /\ own = timer /\ n = notify /\ still = armed
  OBVIOUS
<1> PICK R \in SUBSET Curl : R = {c}
  OBVIOUS
<1> PICK new : new = SetToSeq({DoneHandle(f) : f \in NotDone(R)})
  OBVIOUS
<1> PICK M \in SUBSET NotDone(R) : M = NotDone(R)
  OBVIOUS
<1>1. /\ ~closed /\ futures' = [futures EXCEPT ![c] = NULL]
      /\ attached' = [d \in Curl |-> IF d \in R THEN NULL ELSE attached[d]]
      /\ msgs' = [d \in Curl |-> IF d \in R THEN "none" ELSE msgs[d]]
      /\ watched' = watched \ R
      /\ fstate' = [f \in Fut |-> IF f \in M THEN "cancelled" ELSE fstate[f]]
      /\ LibTimer(q, new, own, still)
      /\ UNCHANGED <<notify_supported, lost, notify, closed, fcurl, open>>
  BY DEF RemoveHandle, Detach
<1>2. /\ Accounted(q, later, own, n) /\ n \in BOOLEAN
      /\ still \in BOOLEAN /\ lost \in BOOLEAN /\ (lost \/ own = still)
  BY DEF Inv, Queue, Accounted
<1>3. new \in SetToSeqs({DoneHandle(f) : f \in NotDone(R)})
  BY NewDones DEF Inv
<1>4. /\ Queue'
      /\ \A h : DoneIn(ready, h)' <=> DoneIn(ready, h) \/ \E f \in M : h = DoneHandle(f)
  <2>1. \A h : DoneIn(q, h) <=> DoneIn(ready, h)
    OBVIOUS
  <2>2. /\ LibTimer(q, new, own, still) /\ notify' \in BOOLEAN /\ (notify' <=> n)
        /\ lost' \in BOOLEAN /\ (lost' \/ own = still)
    BY <1>1, <1>2
  <2> QED
    BY <1>2, <1>3, <2>1, <2>2, SettledQueue
<1>5. /\ futures' \in [Curl -> Fut \cup {NULL}] /\ attached' \in [Curl -> Fut \cup {NULL}]
      /\ \A d \in Curl : futures'[d] = IF d \in R THEN NULL ELSE futures[d]
      /\ \A d \in Curl : attached'[d] = IF d \in R THEN NULL ELSE attached[d]
  BY <1>1 DEF Inv, Types
<1>6. /\ fstate' \in [Fut -> {"unused", "dropped", "pending"} \cup Finals]
      /\ \A f \in Fut : IF f \in M THEN fstate'[f] \in Finals ELSE fstate'[f] = fstate[f]
  BY <1>1 DEF Inv, Types, Finals
<1>7. /\ msgs' \in [Curl -> {"none", "ok", "err"}] /\ watched' \subseteq Curl
      /\ \A d \in Curl : \/ msgs'[d] = "none"
                         \/ d \notin R /\ (lost' \/ notify') /\ attached[d] # NULL
      /\ open' \in [Curl -> BOOLEAN] /\ \A d \in Curl \ R : open'[d] = open[d]
      /\ closed' \in BOOLEAN
  BY <1>1 DEF Inv, Types, Heard
<1>8. /\ Types' /\ Table' /\ Heard' /\ Dones'
      /\ Plain => NoOrphans' /\ Apart' /\ Snapshot'
  <2>1. Settles(R, M)
    BY <1>1, <1>2, <1>4, <1>5, <1>6, <1>7 DEF Settles
  <2> QED
    BY <2>1, SettleStep
<1>9. ClosedIsQuiet'
  BY <1>1 DEF ClosedIsQuiet
<1> QED
  BY <1>4, <1>8, <1>9 DEF Inv, Plain

LEMMA CancelStep ==
    ASSUME Inv, NEW f \in Fut, CancelFuture(f)
    PROVE  Inv' /\ (Plain => Plain')
<1>1. /\ fstate[f] = "pending" /\ fstate' = [fstate EXCEPT ![f] = "cancelled"]
      /\ ready' = Append(ready, DoneHandle(f))
      /\ UNCHANGED <<notify_supported, lost, futures, timer, notify, closed, fcurl, later>>
      /\ UNCHANGED <<attached, open, msgs, watched, armed>>
  BY DEF CancelFuture, object, libcurl
<1> PICK q \in Seq(Handle), h \in Handle : q = ready /\ h = DoneHandle(f)
  BY DoneFacts DEF Inv, Queue, Accounted
<1>2. h.kind = "done" /\ h.f = f /\ h.c = fcurl[f] /\ h.c \in Curl
  BY <1>1, DoneFacts DEF Inv, Table, Types
<1>3. /\ Append(q, h) \in Seq(Handle)
      /\ \A k : Has(Append(q, h), k) <=> Has(q, k) \/ k = h
      /\ \A k : Once(q, k) /\ (k = h => ~Has(q, k)) => Once(Append(q, h), k)
  BY AppendQueue
<1>4. Timeout.kind = "timeout" /\ DrainHandle.kind = "drain"
  BY DEF Timeout, DrainHandle
<1>5. Accounted(q, later, timer, notify)
  BY DEF Inv, Queue
<1>6. Accounted(ready', later, timer, notify)
  BY <1>1, <1>2, <1>3, <1>4, <1>5 DEF Accounted, Timers, Forms
<1>7. Queue'
  BY <1>1, <1>6 DEF Inv, Queue
<1>8. \A k : DoneIn(ready, k)' <=> DoneIn(ready, k) \/ k = h
  BY <1>1, <1>2, <1>3 DEF DoneIn
<1>9. Types' /\ Table' /\ Heard'
  BY <1>1 DEF Inv, Types, Table, Heard, Finals
<1>10. Dones'
  BY <1>1, <1>2, <1>8 DEF Inv, Dones, Types, Finals
<1>11. ASSUME Plain PROVE Plain'
  <2>1. NoOrphans' /\ ClosedIsQuiet'
    BY <1>1, <1>11 DEF Plain, NoOrphans, ClosedIsQuiet, Inv, Types
  <2>2. Apart'
    BY <1>1, <1>2, <1>8, <1>11 DEF Plain, Apart, Snapshot
  <2>3. ASSUME NEW c \in Curl, futures[c] # NULL
        PROVE  \/ fstate'[futures[c]] = "pending"
               \/ \E k \in Handle : DoneIn(ready, k)' /\ k.f = futures[c]
    <3>1. CASE futures[c] = f
      BY <1>2, <1>8, <3>1
    <3>2. CASE futures[c] # f
      <4>1. fstate'[futures[c]] = fstate[futures[c]]
        BY <1>1, <2>3, <3>2 DEF Inv, Types
      <4>2. \/ fstate[futures[c]] = "pending"
            \/ \E k \in Handle : DoneIn(ready, k) /\ k.f = futures[c]
        BY <1>11, <2>3 DEF Plain, Snapshot
      <4> QED
        BY <1>8, <4>1, <4>2
    <3> QED
      BY <3>1, <3>2
  <2>4. \A g \in Fut : fstate'[g] = "pending" => fstate[g] = "pending"
    BY <1>1 DEF Inv, Types
  <2>5. Snapshot'
    BY <1>1, <1>11, <2>3, <2>4 DEF Plain, Snapshot
  <2> QED
    BY <2>1, <2>2, <2>5 DEF Plain
<1> QED
  BY <1>7, <1>9, <1>10, <1>11 DEF Inv

LEMMA CloseEasyStep ==
    ASSUME Inv, NEW c \in Curl, CloseEasy(c)
    PROVE  Inv' /\ (Plain => Plain')
<1>1. /\ open' = [open EXCEPT ![c] = FALSE]
      /\ attached' = [d \in Curl |-> IF d \in {c} THEN NULL ELSE attached[d]]
      /\ msgs' = [d \in Curl |-> IF d \in {c} THEN "none" ELSE msgs[d]]
      /\ watched' = watched \ {c}
      /\ UNCHANGED <<notify_supported, lost, futures, notify, closed, fcurl, fstate>>
  BY DEF CloseEasy, Detach
<1>2. Queue' /\ \A h : DoneIn(ready, h)' <=> DoneIn(ready, h)
  <2>1. CASE attached[c] = NULL
    BY <1>1, <2>1 DEF CloseEasy, Inv, Queue, DoneIn
  <2>2. CASE attached[c] # NULL
    BY <1>1, <2>2, QuietStep DEF CloseEasy
  <2> QED
    BY <2>1, <2>2
<1>3. Types' /\ Table' /\ Heard'
  BY <1>1 DEF Inv, Types, Table, Heard
<1>4. Dones'
  BY <1>1, <1>2 DEF Inv, Dones
<1>5. ASSUME Plain PROVE Plain'
  <2>1. NoOrphans'
    BY <1>1, <1>5 DEF Plain, NoOrphans, Inv, Types
  <2>2. ClosedIsQuiet'
    BY <1>1, <1>5 DEF Plain, ClosedIsQuiet, CloseEasy
  <2>3. Apart' /\ Snapshot'
    BY <1>1, <1>2, <1>5 DEF Plain, Apart, Snapshot
  <2> QED
    BY <2>1, <2>2, <2>3 DEF Plain
<1> QED
  BY <1>2, <1>3, <1>4, <1>5 DEF Inv

LEMMA CloseStep ==
    ASSUME Inv, Aclose
    PROVE  Inv' /\ (Plain => Plain')
<1> PICK R \in SUBSET Curl : R = Curl
  OBVIOUS
<1> PICK M \in SUBSET NotDone(R) : M = NotDone(R)
  OBVIOUS
<1> PICK kept : kept = IF notify THEN RemoveFirst(ready, DrainHandle) ELSE ready
  OBVIOUS
<1>1. /\ ~closed /\ closed' = TRUE /\ notify' = FALSE /\ timer' = FALSE
      /\ later' = StillLater(timer) /\ armed' = FALSE
      /\ futures' = [c \in Curl |-> NULL]
      /\ attached' = [c \in Curl |-> IF c \in Curl THEN NULL ELSE attached[c]]
      /\ msgs' = [c \in Curl |-> IF c \in Curl THEN "none" ELSE msgs[c]]
      /\ watched' = watched \ Curl
      /\ open' = [c \in Curl |-> open[c] /\ ~(close_handles /\ c \in Unknown)]
      /\ fstate' = [f \in Fut |-> IF f \in M THEN "cancelled" ELSE fstate[f]]
      /\ UNCHANGED <<notify_supported, lost, fcurl>>
  BY DEF Aclose, Detach
<1>2. PICK new \in SetToSeqs({DoneHandle(f) : f \in NotDone(R)}) :
         ready' = CancelTimer(kept, timer) \o new
  BY DEF Aclose
<1>3. /\ new \in Seq(Handle) /\ Once(new, DrainHandle)
      /\ \A h : Has(new, h) => h.kind = "done"
      /\ \A h : DoneIn(new, h) <=> \E f \in M : h = DoneHandle(f)
  BY NewDones DEF Inv
<1>4. Accounted(ready, later, timer, notify) /\ lost \in BOOLEAN
  BY DEF Inv, Queue
<1>5. /\ Timeout.kind = "timeout" /\ DrainHandle.kind = "drain" /\ Timeout # DrainHandle
  BY DEF Timeout, DrainHandle
<1>6. /\ kept \in Seq(Handle)
      /\ \A h : Has(kept, h) <=> Has(ready, h) /\ h # DrainHandle
      /\ \A h : Once(ready, h) => Once(kept, h)
  <2>1. CASE notify
    <3>1. ready \in Seq(Handle) /\ Once(ready, DrainHandle)
      BY <1>4 DEF Accounted
    <3> QED
      BY <2>1, <3>1, RemoveQueue
  <2>2. CASE ~notify
    BY <1>4, <2>2 DEF Accounted
  <2> QED
    BY <2>1, <2>2
<1>7. Timers(kept, later, timer)
  BY <1>4, <1>5, <1>6 DEF Accounted, Timers
<1> PICK own, q : own = timer /\ q = CancelTimer(kept, own)
  OBVIOUS
<1>8. /\ q \in Seq(Handle) /\ ~Has(q, Timeout) /\ Joins(q, kept, <<>>)
      /\ StillLater(own) = 0
  BY <1>6, <1>7, CancelFacts
<1>9. \A h : h # Timeout => (Has(q, h) <=> Has(kept, h)) /\ (Once(kept, h) => Once(q, h))
  BY <1>8, EmptyQueue DEF Joins
<1>10. /\ q \o new \in Seq(Handle)
       /\ \A h : Has(q \o new, h) <=> Has(q, h) \/ Has(new, h)
  BY <1>3, <1>8, ConcatQueue
<1>11. Accounted(ready', 0, FALSE, FALSE)
  <2>1. ready' = q \o new
    BY <1>2
  <2>2. ~Has(ready', Timeout) /\ ~Has(ready', DrainHandle)
    BY <1>3, <1>5, <1>6, <1>8, <1>9, <1>10, <2>1
  <2>3. Once(ready', Timeout) /\ Once(ready', DrainHandle)
    BY <2>2 DEF Once, Has
  <2>4. Timers(ready', 0, FALSE)
    BY <2>2, <2>3 DEF Timers
  <2>5. Forms(ready')
    BY <1>3, <1>4, <1>5, <1>6, <1>8, <1>9, <1>10, <2>1 DEF Accounted, Forms
  <2> QED
    BY <1>10, <2>1, <2>2, <2>3, <2>4, <2>5 DEF Accounted
<1>12. Queue'
  <2>1. later' = 0 /\ timer' = FALSE /\ notify' = FALSE /\ armed' = FALSE
    BY <1>1, <1>8
  <2> QED
    BY <1>1, <1>4, <1>11, <2>1 DEF Queue
<1>13. \A h : DoneIn(ready, h)' <=> DoneIn(ready, h) \/ \E f \in M : h = DoneHandle(f)
  <2>1. \A h : DoneIn(ready', h) <=> DoneIn(ready, h) \/ DoneIn(new, h)
    BY <1>2, <1>5, <1>6, <1>9, <1>10 DEF DoneIn
  <2> QED
    BY <1>3, <2>1
<1>14. Settles(R, M)
  BY <1>1, <1>4, <1>13 DEF Settles, Inv, Types, Finals
<1>15. /\ Types' /\ Table' /\ Heard' /\ Dones'
       /\ Plain => NoOrphans' /\ Apart' /\ Snapshot'
  BY <1>14, SettleStep
<1>16. Plain => ClosedIsQuiet'
  <2> SUFFICES ASSUME Plain, NEW f \in Fut, fstate[f] = "pending"
               PROVE  f \in M
    BY <1>1 DEF ClosedIsQuiet, Inv, Types, Finals
  <2>1. futures[fcurl[f]] = f /\ fcurl[f] \in Curl
    BY DEF Plain, Snapshot, Inv, Types, Table
  <2> QED
    BY <2>1 DEF NotDone
<1> QED
  BY <1>12, <1>15, <1>16 DEF Inv, Plain

-----------------------------------------------------------------------------
(* What libcurl ends *)

\* The handles of out are resolved, in a step that goes on with the queue q.
LEMMA ResolveStep ==
    ASSUME Inv, ~closed, NEW q, NEW own, NEW n \in BOOLEAN, Accounted(q, later, own, n),
           \A h : DoneIn(q, h) <=> DoneIn(ready, h),
           NEW out, DOMAIN out \subseteq Curl,
           NEW still \in BOOLEAN, Resolve(out, q, own, still),
           lost' \in BOOLEAN, lost => lost', lost' \/ own = still,
           notify' = n, watched' \subseteq Curl,
           \A c \in Curl \ DOMAIN out : msgs[c] # "none" => lost' \/ n,
           UNCHANGED <<notify_supported, closed, fcurl, open>>
    PROVE  Inv' /\ (Plain => Plain')
<1> PICK R \in SUBSET Curl : R = {c \in DOMAIN out : futures[c] # NULL}
  OBVIOUS
<1> PICK M \in SUBSET NotDone(R) : M = NotDone(R)
  OBVIOUS
<1>1. /\ futures' = [c \in Curl |-> IF c \in R THEN NULL ELSE futures[c]]
      /\ fstate' = [f \in Fut |-> IF f \notin M THEN fstate[f]
                    ELSE IF out[fcurl[f]] = "ok" THEN "result" ELSE "error"]
      /\ attached' = [c \in Curl |-> IF c \in R THEN NULL ELSE attached[c]]
      /\ msgs' = [c \in Curl |-> IF c \in DOMAIN out THEN "none" ELSE msgs[c]]
  BY DEF Resolve
<1>2. PICK new \in SetToSeqs({DoneHandle(f) : f \in NotDone(R)}) : LibTimer(q, new, own, still)
  BY DEF Resolve
<1>3. /\ Queue'
      /\ \A h : DoneIn(ready, h)' <=> DoneIn(ready, h) \/ \E f \in M : h = DoneHandle(f)
  <2>1. notify' \in BOOLEAN /\ (notify' <=> n)
    OBVIOUS
  <2>2. LibTimer(q, new, own, still)
    BY <1>2
  <2>3. /\ new \in Seq(Handle) /\ Once(new, DrainHandle)
        /\ \A h : Has(new, h) => h.kind = "done"
        /\ \A h : DoneIn(new, h) <=> \E f \in NotDone(R) : h = DoneHandle(f)
    BY NewDones DEF Inv
  <2>4. ~Has(new, DrainHandle)
    BY <2>3 DEF DrainHandle
  <2>5. Queue' /\ \A h : DoneIn(ready, h)' <=> DoneIn(q, h) \/ DoneIn(new, h)
    BY <2>1, <2>2, <2>3, <2>4, QueueStep
  <2> QED
    BY <2>3, <2>5
<1>4. Settles(R, M)
  <2>1. \A c \in Curl : \/ msgs'[c] = "none"
                        \/ c \notin R /\ (lost' \/ notify') /\ attached[c] # NULL
    BY <1>1 DEF Inv, Heard
  <2> QED
    BY <1>1, <1>3, <2>1 DEF Settles, Inv, Types, Finals
<1>5. /\ Types' /\ Table' /\ Heard' /\ Dones'
      /\ Plain => NoOrphans' /\ Apart' /\ Snapshot'
  BY <1>4, SettleStep
<1>6. ClosedIsQuiet'
  BY DEF ClosedIsQuiet
<1> QED
  BY <1>3, <1>5, <1>6 DEF Inv, Plain

\* The drain handle joins the queue if libcurl tells of a message.
LEMMA ToldQueue ==
    ASSUME NEW q, NEW own, NEW n \in BOOLEAN, Accounted(q, later, own, n),
           NEW told \in BOOLEAN, told => ~n, notify' = (n \/ told),
           NEW still \in BOOLEAN,
           LibTimer(q, IF told THEN <<DrainHandle>> ELSE <<>>, own, still),
           lost' \in BOOLEAN, lost' \/ own = still
    PROVE  Queue' /\ \A h : DoneIn(ready, h)' <=> DoneIn(q, h)
<1>1. PICK new : /\ new = IF told THEN <<DrainHandle>> ELSE <<>>
                 /\ LibTimer(q, new, own, still)
  OBVIOUS
<1>2. /\ new \in Seq(Handle) /\ Once(new, DrainHandle)
      /\ \A h : Has(new, h) <=> h = DrainHandle /\ told
  <2>1. DrainHandle \in Handle
    BY DEF DrainHandle, Handle
  <2>2. CASE told
    BY <1>1, <2>1, <2>2, SingleQueue
  <2>3. CASE ~told
    BY <1>1, <2>3, EmptyQueue
  <2> QED
    BY <2>2, <2>3
<1>3. notify' \in BOOLEAN /\ (notify' <=> n \/ Has(new, DrainHandle))
  BY <1>2
<1>4. \A h : Has(new, h) => h.kind = "done" \/ (h = DrainHandle /\ ~n)
  BY <1>2
<1>5. \A h : ~DoneIn(new, h)
  BY <1>2 DEF DoneIn, DrainHandle
<1>6. LibTimer(q, new, own, still)
  BY <1>1
<1>7. Queue' /\ \A h : DoneIn(ready, h)' <=> DoneIn(q, h) \/ DoneIn(new, h)
  BY <1>2, <1>3, <1>4, <1>6, QueueStep
<1> QED
  BY <1>5, <1>7

\* libcurl's message and timer are told, or a callback is lost with them; the
\* table stays.
LEMMA ToldStep ==
    ASSUME Inv, ~closed, NEW q, NEW own, NEW n \in BOOLEAN, Accounted(q, later, own, n),
           n = notify, \A h : DoneIn(q, h) <=> DoneIn(ready, h),
           NEW F \in SUBSET Running, NEW out \in [F -> {"ok", "err"}], msgs' = Ended(out),
           NEW told \in BOOLEAN, told => Told(F), notify' = (n \/ told),
           NEW still \in BOOLEAN,
           LibTimer(q, IF told THEN <<DrainHandle>> ELSE <<>>, own, still),
           lost' \in BOOLEAN, lost => lost', lost' \/ (own = still /\ told = Told(F)),
           UNCHANGED <<notify_supported, futures, closed, fcurl, fstate, attached, open>>,
           watched' \subseteq Curl
    PROVE  Inv' /\ (Plain => Plain')
<1>1. told => ~n
  BY DEF Told
<1>2. lost' \/ own = still
  OBVIOUS
<1>3. Queue' /\ \A h : DoneIn(ready, h)' <=> DoneIn(q, h)
  BY <1>1, <1>2, ToldQueue
<1> PICK R \in SUBSET Curl : R = {}
  OBVIOUS
<1> PICK M \in SUBSET NotDone(R) : M = {}
  OBVIOUS
<1>4. M = NotDone(R)
  BY DEF NotDone
<1>5. \A c \in Curl : msgs'[c] = IF c \in F THEN out[c] ELSE msgs[c]
  BY DEF Ended
<1>6. ASSUME NEW c \in Curl, msgs'[c] # "none"
       PROVE  c \notin R /\ (lost' \/ notify') /\ attached[c] # NULL
  <2>1. attached[c] # NULL
    BY <1>5, <1>6 DEF Inv, Heard, Running
  <2>2. lost' \/ notify'
    <3>1. CASE msgs[c] # "none"
      BY <3>1 DEF Inv, Heard
    <3>2. CASE msgs[c] = "none" /\ \A d \in Curl : msgs[d] = "none"
      BY <1>5, <1>6, <3>2 DEF Told
    <3>3. CASE \E d \in Curl : msgs[d] # "none"
      BY <3>3 DEF Inv, Heard
    <3> QED
      BY <3>1, <3>2, <3>3
  <2> QED
    BY <2>1, <2>2
<1>7. msgs' \in [Curl -> {"none", "ok", "err"}]
  BY DEF Ended, Inv, Types
<1>8. Settles(R, M)
  BY <1>3, <1>6, <1>7 DEF Settles, Inv, Types
<1>9. /\ Types' /\ Table' /\ Heard' /\ Dones'
      /\ Plain => NoOrphans' /\ Apart' /\ Snapshot'
  BY <1>4, <1>8, SettleStep
<1>10. ClosedIsQuiet'
  <2>1. ~closed'
    OBVIOUS
  <2> QED
    BY <2>1 DEF ClosedIsQuiet
<1> QED
  BY <1>3, <1>9, <1>10 DEF Inv, Plain

\* What socket_action() is called with: the loop's queue goes on as q, and
\* libcurl's timer agrees unless a callback was lost.
Driving(q, own, still) ==
    /\ Accounted(q, later, own, notify)
    /\ \A h : DoneIn(q, h) <=> DoneIn(ready, h)
    /\ still \in BOOLEAN /\ (lost \/ own = still)

\* Whatever is read from libcurl is of some of the handles.
LEMMA DrainDomain ==
    ASSUME NEW m, NEW q, NEW own, NEW still, Drain(m, q, own, still)
    PROVE  \E out : /\ out = [c \in {d \in Curl : m[d] # "none"} |-> m[c]]
                    /\ DOMAIN out \subseteq Curl /\ Resolve(out, q, own, still)
<1> DEFINE out == [c \in {d \in Curl : m[d] # "none"} |-> m[c]]
<1>1. DOMAIN out \subseteq Curl /\ Resolve(out, q, own, still)
  BY DEF Drain
<1> QED
  BY <1>1

LEMMA DriveStep ==
    ASSUME Inv, NEW q, NEW own, NEW still, Driving(q, own, still),
           NEW F, Drive(F, q, own, still)
    PROVE  Inv' /\ (Plain => Plain')
<1>1. /\ ~closed /\ F \in SUBSET Running /\ F \subseteq Curl
      /\ UNCHANGED <<notify_supported, lost, closed, fcurl, open>>
      /\ watched' \subseteq Curl
  BY DEF Drive, Running, Stale, Inv, Types
<1> PICK n \in BOOLEAN : n = notify
  BY DEF Driving, Accounted
<1>2. /\ Accounted(q, later, own, n) /\ \A h : DoneIn(q, h) <=> DoneIn(ready, h)
      /\ still \in BOOLEAN /\ lost' \in BOOLEAN /\ (lost => lost') /\ (lost' \/ own = still)
  BY <1>1 DEF Driving, Inv, Queue
<1>3. ASSUME NEW out \in [F -> {"ok", "err"}], msgs' = Ended(out),
             notify' = (notify \/ Told(F)),
             LibTimer(q, IF Told(F) THEN <<DrainHandle>> ELSE <<>>, own, still),
             UNCHANGED <<futures, fstate, attached>>
      PROVE  Inv' /\ (Plain => Plain')
  <2> PICK told \in BOOLEAN : told = Told(F)
    BY DEF Told
  <2>1. /\ told => Told(F) /\ notify' = (n \/ told)
        /\ lost' \/ (own = still /\ told = Told(F))
        /\ LibTimer(q, IF told THEN <<DrainHandle>> ELSE <<>>, own, still)
    BY <1>2, <1>3
  <2>2. UNCHANGED <<notify_supported, futures, closed, fcurl, fstate, attached, open>>
    BY <1>1, <1>3
  <2> QED
    BY <1>1, <1>2, <1>3, <2>1, <2>2, ToldStep
<1>4. ASSUME NEW res \in [F -> {"ok", "err"}], Drain(Ended(res), q, own, still),
             UNCHANGED notify
      PROVE  Inv' /\ (Plain => Plain')
  <2>1. PICK out : /\ out = [c \in {d \in Curl : Ended(res)[d] # "none"} |-> Ended(res)[c]]
                   /\ DOMAIN out \subseteq Curl /\ Resolve(out, q, own, still)
    BY <1>4, DrainDomain
  <2>2. \A c \in Curl \ DOMAIN out : msgs[c] # "none" => lost' \/ n
    BY <1>1 DEF Inv, Heard
  <2>3. notify' = n
    BY <1>4
  <2> QED
    BY <1>1, <1>2, <2>1, <2>2, <2>3, ResolveStep
<1> QED
  BY <1>3, <1>4 DEF Drive

LEMMA DriveRaisesStep ==
    ASSUME Inv, NEW q, NEW own, NEW still, Driving(q, own, still),
           NEW F, DriveRaises(F, q, own)
    PROVE  Inv' /\ (Plain => Plain')
<1>1. /\ ~closed /\ F \in SUBSET Running /\ lost' = TRUE /\ watched' \subseteq Curl
      /\ UNCHANGED <<notify_supported, futures, closed, fcurl, fstate, attached, open>>
  BY DEF DriveRaises, Running, Stale, Inv, Types
<1> PICK n \in BOOLEAN : n = notify
  BY DEF Driving, Accounted
<1>2. Accounted(q, later, own, n) /\ \A h : DoneIn(q, h) <=> DoneIn(ready, h)
  BY DEF Driving
<1>3. PICK out \in [F -> {"ok", "err"}] : msgs' = Ended(out)
  BY DEF DriveRaises
<1>4. PICK told \in BOOLEAN, s \in BOOLEAN :
         /\ told => Told(F)
         /\ notify' = (notify \/ told)
         /\ LibTimer(q, IF told THEN <<DrainHandle>> ELSE <<>>, own, s)
  BY DEF DriveRaises
<1>5. lost' \in BOOLEAN /\ (lost => lost') /\ notify' = (n \/ told)
      /\ (lost' \/ (own = s /\ told = Told(F)))
  BY <1>1, <1>4
<1> QED
  BY <1>1, <1>2, <1>3, <1>4, <1>5, ToldStep

LEMMA DriveFailsStep ==
    ASSUME Inv, NEW q, NEW own, NEW still, Driving(q, own, still), DriveFails(q, own, still)
    PROVE  Inv' /\ (Plain => Plain')
<1> PICK n \in BOOLEAN : n = notify
  BY DEF Driving, Accounted
<1>1. Accounted(q, later, own, n) /\ \A h : DoneIn(q, h) <=> DoneIn(ready, h)
  BY DEF Driving
<1> PICK out : out = [c \in {d \in Curl : futures[d] # NULL} |-> "err"]
  OBVIOUS
<1>2. PICK s \in BOOLEAN : Resolve(out, q, own, s) /\ lost' = (lost \/ s # still)
  BY DEF DriveFails
<1>3. /\ ~closed /\ DOMAIN out \subseteq Curl
      /\ notify' = n /\ watched' \subseteq Curl
      /\ UNCHANGED <<notify_supported, closed, fcurl, open>>
  BY DEF DriveFails, Inv, Types
<1>4. lost' \in BOOLEAN /\ (lost => lost') /\ (lost' \/ own = s)
  BY <1>2 DEF Driving, Inv, Queue
<1>5. \A c \in Curl \ DOMAIN out : msgs[c] # "none" => lost' \/ n
  BY <1>4 DEF Inv, Heard
<1> QED
  BY <1>1, <1>2, <1>3, <1>4, <1>5, ResolveStep

LEMMA CallbackRemoveStep ==
    ASSUME Inv, NEW q, NEW own, NEW still, Driving(q, own, still),
           NEW c \in Curl, CallbackRemove(c, q, own, still)
    PROVE  Inv' /\ ~(Uses \subseteq {"raise"})
<1>1. /\ futures' = [futures EXCEPT ![c] = NULL]
      /\ LibTimer(q, <<>>, own, still)
      /\ UNCHANGED <<notify_supported, lost, notify, closed, fcurl, fstate>>
      /\ UNCHANGED <<attached, open, msgs, watched>> /\ ~(Uses \subseteq {"raise"})
  BY DEF CallbackRemove
<1> PICK n \in BOOLEAN : n = notify
  BY DEF Driving, Accounted
<1>2. /\ Accounted(q, later, own, n) /\ \A h : DoneIn(q, h) <=> DoneIn(ready, h)
      /\ still \in BOOLEAN /\ lost' \in BOOLEAN /\ (lost' \/ own = still)
  BY <1>1 DEF Driving, Inv, Queue
<1> PICK new : new = <<>>
  OBVIOUS
<1>3. new \in Seq(Handle) /\ \A h : ~Has(new, h) /\ Once(new, h) /\ ~DoneIn(new, h)
  BY EmptyQueue DEF DoneIn
<1>4. /\ notify' \in BOOLEAN /\ (notify' <=> n \/ Has(new, DrainHandle))
      /\ LibTimer(q, new, own, still)
  BY <1>1, <1>3
<1>5. Queue' /\ \A h : DoneIn(ready, h)' <=> DoneIn(q, h) \/ DoneIn(new, h)
  <2>1. /\ new \in Seq(Handle) /\ Once(new, DrainHandle)
        /\ \A h : Has(new, h) => h.kind = "done" \/ (h = DrainHandle /\ ~n)
    BY <1>3
  <2>2. Accounted(q, later, own, n) /\ LibTimer(q, new, own, still)
    BY <1>2, <1>4
  <2>3. still \in BOOLEAN /\ lost' \in BOOLEAN /\ (lost' \/ own = still)
    BY <1>2
  <2>4. notify' \in BOOLEAN /\ (notify' <=> n \/ Has(new, DrainHandle))
    BY <1>4
  <2> QED
    BY <2>1, <2>2, <2>3, <2>4, QueueStep
<1>6. Types' /\ Table' /\ Heard'
  BY <1>1 DEF Inv, Types, Table, Heard
<1>7. Dones'
  BY <1>1, <1>2, <1>3, <1>5 DEF Inv, Dones
<1> QED
  BY <1>1, <1>5, <1>6, <1>7 DEF Inv

\* Everything that socket_action() may do.
LEMMA SocketActionStep ==
    ASSUME Inv, NEW q, NEW own, NEW still, Driving(q, own, still),
           NEW F, SocketAction(F, q, own, still)
    PROVE  Inv' /\ (Uses \subseteq {"raise"} /\ Plain => Plain')
BY DriveStep, DriveRaisesStep, DriveFailsStep, CallbackRemoveStep DEF SocketAction

-----------------------------------------------------------------------------
(* What the event loop runs *)

\* The handle that runs leaves the queue; a done callback takes its trace along.
LEMMA RunFacts ==
    ASSUME Inv, NEW k \in {"timeout", "drain", "io", "done"}, HeadIs(k)
    PROVE  /\ ready # <<>> /\ Head(ready) \in Handle /\ Head(ready).kind = k
           /\ Accounted(Tail(ready), later, timer /\ k # "timeout", notify /\ k # "drain")
           /\ k # "done" => \A h : DoneIn(Tail(ready), h) <=> DoneIn(ready, h)
<1>1. ready # <<>> /\ Head(ready).kind = k
  BY DEF HeadIs
<1>2. /\ Head(ready) \in Handle
      /\ Accounted(Tail(ready), later, timer /\ Head(ready).kind # "timeout",
                   notify /\ Head(ready).kind # "drain")
      /\ \A h : DoneIn(ready, h) <=>
           DoneIn(Tail(ready), h) \/ (h = Head(ready) /\ h.kind = "done")
  BY <1>1, HeadFacts DEF Inv
<1> QED
  BY <1>1, <1>2

LEMMA FireStep ==
    ASSUME Inv, NEW F, FireTimeout(F)
    PROVE  Inv' /\ (Uses \subseteq {"raise"} /\ Plain => Plain')
<1>1. /\ HeadIs("timeout") /\ SocketAction(F, Tail(ready), FALSE, FALSE)
  BY DEF FireTimeout
<1>2. /\ Accounted(Tail(ready), later, FALSE, notify /\ TRUE)
      /\ \A h : DoneIn(Tail(ready), h) <=> DoneIn(ready, h)
  BY <1>1, RunFacts
<1>3. notify \in BOOLEAN
  BY DEF Inv, Queue, Accounted
<1> PICK q, own : q = Tail(ready) /\ own = FALSE
  OBVIOUS
<1>4. Accounted(q, later, own, notify)
  <2>1. CASE notify = TRUE
    BY <1>2, <2>1
  <2>2. CASE notify = FALSE
    BY <1>2, <2>2
  <2> QED
    BY <1>3, <2>1, <2>2
<1>5. \A h : DoneIn(q, h) <=> DoneIn(ready, h)
  BY <1>2
<1>6. SocketAction(F, q, own, FALSE) /\ Driving(q, own, FALSE)
  BY <1>1, <1>4, <1>5 DEF Driving
<1> QED
  BY <1>6, SocketActionStep

LEMMA SocketReadyStep ==
    ASSUME Inv, NEW F, SocketReady(F)
    PROVE  Inv' /\ (Uses \subseteq {"raise"} /\ Plain => Plain')
<1>1. /\ HeadIs("io") /\ SocketAction(F, Tail(ready), timer, armed)
  BY DEF SocketReady
<1>2. /\ Accounted(Tail(ready), later, timer /\ TRUE, notify /\ TRUE)
      /\ \A h : DoneIn(Tail(ready), h) <=> DoneIn(ready, h)
  BY <1>1, RunFacts
<1> PICK own \in BOOLEAN, still \in BOOLEAN, n \in BOOLEAN :
        own = timer /\ still = armed /\ n = notify
  BY DEF Inv, Queue, Accounted, Timers
<1> PICK q : q = Tail(ready)
  OBVIOUS
<1>3. Accounted(q, later, own, n)
  <2>1. Accounted(q, later, own /\ TRUE, n /\ TRUE)
    BY <1>2
  <2>2. (own /\ TRUE) = own /\ (n /\ TRUE) = n
    OBVIOUS
  <2> QED
    BY <2>1, <2>2
<1>4. Accounted(q, later, own, notify)
  BY <1>3
<1>5. \A h : DoneIn(q, h) <=> DoneIn(ready, h)
  BY <1>2
<1>6. SocketAction(F, q, own, still) /\ Driving(q, own, still)
  BY <1>1, <1>4, <1>5 DEF Driving, Inv, Queue
<1> QED
  BY <1>6, SocketActionStep

LEMMA StaleStep ==
    ASSUME Inv, SocketStale
    PROVE  Inv' /\ (Plain => Plain')
<1>1. /\ HeadIs("io") /\ ready' = Tail(ready)
      /\ UNCHANGED <<notify_supported, lost, futures, timer, notify, closed, fcurl, fstate,
                     later, attached, open, msgs, watched, armed>>
  BY DEF SocketStale, object, libcurl
<1>2. /\ Accounted(Tail(ready), later, timer /\ TRUE, notify /\ TRUE)
      /\ \A h : DoneIn(Tail(ready), h) <=> DoneIn(ready, h)
  BY <1>1, RunFacts
<1>3. /\ timer \in BOOLEAN /\ notify \in BOOLEAN
      /\ armed \in BOOLEAN /\ lost \in BOOLEAN /\ (lost \/ timer = armed)
  BY DEF Inv, Queue, Accounted, Timers
<1>4. Queue'
  <2>1. (timer /\ TRUE) = timer /\ (notify /\ TRUE) = notify
    BY <1>3
  <2>2. Accounted(Tail(ready), later, timer, notify)
    BY <1>2, <2>1
  <2> QED
    BY <1>1, <1>3, <2>2 DEF Queue
<1>5. \A h : DoneIn(ready, h)' <=> DoneIn(ready, h)
  BY <1>1, <1>2
<1> QED
  BY <1>1, <1>4, <1>5, QueueOnly

LEMMA NoopStep ==
    ASSUME Inv, OnFutureDoneNoop
    PROVE  Inv' /\ (Plain => Plain')
<1>1. /\ HeadIs("done") /\ (closed \/ futures[Head(ready).c] = NULL)
      /\ ready' = Tail(ready)
      /\ UNCHANGED <<notify_supported, lost, futures, timer, notify, closed, fcurl, fstate,
                     later, attached, open, msgs, watched, armed>>
  BY DEF OnFutureDoneNoop, object, libcurl
<1>2. /\ Accounted(Tail(ready), later, timer /\ TRUE, notify /\ TRUE)
      /\ ready # <<>>
  BY <1>1, RunFacts
<1>3. /\ timer \in BOOLEAN /\ notify \in BOOLEAN
      /\ armed \in BOOLEAN /\ lost \in BOOLEAN /\ (lost \/ timer = armed)
  BY DEF Inv, Queue, Accounted, Timers
<1>4. Queue'
  <2>1. (timer /\ TRUE) = timer /\ (notify /\ TRUE) = notify
    BY <1>3
  <2>2. Accounted(Tail(ready), later, timer, notify)
    BY <1>2, <2>1
  <2> QED
    BY <1>1, <1>3, <2>2 DEF Queue
<1>5. \A h : DoneIn(ready, h) <=>
        DoneIn(Tail(ready), h) \/ (h = Head(ready) /\ h.kind = "done")
  BY <1>2, HeadFacts DEF Inv
<1>6. /\ \A h : DoneIn(ready, h)' => DoneIn(ready, h)
      /\ \A h : DoneIn(ready, h) => \/ DoneIn(ready, h)'
                                    \/ closed \/ futures[h.c] = NULL
  BY <1>1, <1>5
<1> QED
  BY <1>1, <1>4, <1>6, QueueOnly

LEMMA DueStep ==
    ASSUME Inv, TimerDue
    PROVE  Inv' /\ (Plain => Plain')
<1>1. /\ later > 0 /\ later' = later - 1 /\ ready' = Append(ready, Timeout)
      /\ UNCHANGED <<notify_supported, lost, futures, timer, notify, closed, fcurl, fstate,
                     attached, open, msgs, watched, armed>>
  BY DEF TimerDue, object, libcurl
<1> PICK q, own, n : q = ready /\ own = timer /\ n = notify
  OBVIOUS
<1>2. /\ Accounted(q, later, own, n)
      /\ armed \in BOOLEAN /\ lost \in BOOLEAN /\ (lost \/ own = armed)
  BY DEF Inv, Queue
<1>3. /\ q \in Seq(Handle) /\ later = 1 /\ own = TRUE /\ ~Has(q, Timeout)
  BY <1>1, <1>2 DEF Accounted, Timers
<1>4. /\ Append(q, Timeout) \in Seq(Handle)
      /\ \A h : Has(Append(q, Timeout), h) <=> Has(q, h) \/ h = Timeout
      /\ \A h : Once(q, h) /\ (h = Timeout => ~Has(q, h)) => Once(Append(q, Timeout), h)
  BY <1>3, TimeoutHandle, AppendQueue
<1>5. Timeout.kind = "timeout" /\ Timeout # DrainHandle
  BY DEF Timeout, DrainHandle
<1> PICK r \in Seq(Handle) : r = Append(q, Timeout)
  BY <1>4
<1>6. Timers(r, 0, TRUE)
  BY <1>2, <1>3, <1>4 DEF Accounted, Timers
<1>7. Accounted(r, 0, TRUE, n)
  BY <1>2, <1>4, <1>5, <1>6 DEF Accounted, Forms
<1>8. Queue'
  <2>1. later' = 0 /\ timer' = TRUE /\ notify' = n /\ ready' = r
    BY <1>1, <1>2, <1>3
  <2>2. armed' \in BOOLEAN /\ lost' \in BOOLEAN /\ (lost' \/ timer' = armed')
    BY <1>1, <1>2
  <2> QED
    BY <1>7, <2>1, <2>2 DEF Queue
<1>9. \A h : DoneIn(ready, h)' <=> DoneIn(ready, h)
  <2>1. \A h : DoneIn(r, h) <=> DoneIn(q, h)
    BY <1>4, <1>5 DEF DoneIn
  <2> QED
    BY <1>1, <2>1
<1> QED
  BY <1>1, <1>8, <1>9, QueueOnly

LEMMA EventStep ==
    ASSUME Inv, NEW c \in Curl, SocketEvent(c)
    PROVE  Inv' /\ (Plain => Plain')
<1>1. /\ ready' = Append(ready, SocketHandle(c))
      /\ UNCHANGED <<notify_supported, lost, futures, timer, notify, closed, fcurl, fstate,
                     later, attached, open, msgs, watched, armed>>
  BY DEF SocketEvent, object, libcurl
<1> PICK q, own, n, l : q = ready /\ own = timer /\ n = notify /\ l = later
  OBVIOUS
<1>2. /\ Accounted(q, l, own, n)
      /\ armed \in BOOLEAN /\ lost \in BOOLEAN /\ (lost \/ own = armed)
  BY DEF Inv, Queue
<1>3. q \in Seq(Handle)
  BY <1>2 DEF Accounted
<1> PICK x \in Handle : x = SocketHandle(c)
  BY DEF SocketHandle, Handle
<1>4. /\ Append(q, x) \in Seq(Handle)
      /\ \A h : Has(Append(q, x), h) <=> Has(q, h) \/ h = x
      /\ \A h : Once(q, h) /\ (h = x => ~Has(q, h)) => Once(Append(q, x), h)
  BY <1>3, AppendQueue
<1>5. x.kind = "io" /\ Timeout.kind = "timeout" /\ DrainHandle.kind = "drain"
  BY DEF Timeout, DrainHandle, SocketHandle
<1> PICK r \in Seq(Handle) : r = Append(q, x)
  BY <1>4
<1>6. Timers(r, l, own)
  BY <1>2, <1>4, <1>5 DEF Accounted, Timers
<1>7. Accounted(r, l, own, n)
  BY <1>2, <1>4, <1>5, <1>6 DEF Accounted, Forms
<1>8. Queue'
  <2>1. later' = l /\ timer' = own /\ notify' = n /\ ready' = r
    BY <1>1, <1>2
  <2>2. armed' \in BOOLEAN /\ lost' \in BOOLEAN /\ (lost' \/ timer' = armed')
    BY <1>1, <1>2
  <2> QED
    BY <1>7, <2>1, <2>2 DEF Queue
<1>9. \A h : DoneIn(ready, h)' <=> DoneIn(ready, h)
  <2>1. \A h : DoneIn(r, h) <=> DoneIn(q, h)
    BY <1>4, <1>5 DEF DoneIn
  <2> QED
    BY <1>1, <2>1
<1> QED
  BY <1>1, <1>8, <1>9, QueueOnly

LEMMA DrainStep ==
    ASSUME Inv, DrainFromNotify
    PROVE  Inv' /\ (Plain => Plain')
<1> PICK out : out = [c \in {d \in Curl : msgs[d] # "none"} |-> msgs[c]]
  OBVIOUS
<1>1. /\ HeadIs("drain") /\ ~closed /\ notify' = FALSE
      /\ Resolve(out, Tail(ready), timer, armed)
      /\ UNCHANGED <<notify_supported, lost, closed, fcurl, open, watched>>
  BY DEF DrainFromNotify, Drain
<1>2. /\ Accounted(Tail(ready), later, timer /\ TRUE, notify /\ FALSE)
      /\ \A h : DoneIn(Tail(ready), h) <=> DoneIn(ready, h)
  BY <1>1, RunFacts
<1> PICK own \in BOOLEAN, still \in BOOLEAN, n \in BOOLEAN :
        own = timer /\ still = armed /\ n = FALSE
  BY DEF Inv, Queue, Accounted, Timers
<1> PICK q : q = Tail(ready)
  OBVIOUS
<1>3. Accounted(q, later, own, n)
  <2>1. (timer /\ TRUE) = own /\ (notify /\ FALSE) = n
    OBVIOUS
  <2> QED
    BY <1>2, <2>1
<1>4. \A h : DoneIn(q, h) <=> DoneIn(ready, h)
  BY <1>2
<1>5. /\ DOMAIN out \subseteq Curl /\ notify' = n /\ watched' \subseteq Curl
      /\ \A c \in Curl \ DOMAIN out : msgs[c] # "none" => lost' \/ n
  BY <1>1 DEF Inv, Types
<1>6. /\ Resolve(out, q, own, still)
      /\ lost' \in BOOLEAN /\ (lost => lost') /\ (lost' \/ own = still)
  BY <1>1 DEF Inv, Queue
<1> QED
  BY <1>1, <1>3, <1>4, <1>5, <1>6, ResolveStep

\* Without a handle that is added again too early, the callback finds its own
\* future, which is done, or nothing.
LEMMA DoneStep ==
    ASSUME Inv, OnFutureDone
    PROVE  Inv' /\ (Plain => Plain')
<1> PICK x, c : x = Head(ready) /\ c = x.c
  OBVIOUS
<1>1. /\ HeadIs("done") /\ ~closed /\ futures[c] # NULL
      /\ futures' = [futures EXCEPT ![c] = NULL]
      /\ Detach({c})
      /\ LibTimer(Tail(ready), <<>>, timer, armed)
      /\ UNCHANGED <<notify_supported, lost, notify, closed, fcurl, fstate, open>>
  BY DEF OnFutureDone
<1>2. /\ Accounted(Tail(ready), later, timer /\ TRUE, notify /\ TRUE)
      /\ ready # <<>> /\ x \in Handle /\ x.kind = "done"
  BY <1>1, RunFacts
<1>3. /\ Has(ready, x)
      /\ \A h : DoneIn(ready, h) <=>
           DoneIn(Tail(ready), h) \/ (h = x /\ h.kind = "done")
  BY <1>2, HeadFacts DEF Inv
<1>4. DoneIn(ready, x) /\ c \in Curl /\ x.f \in Fut /\ c = fcurl[x.f] /\ fstate[x.f] \in Finals
  BY <1>2, <1>3 DEF Inv, Dones, DoneIn
<1> PICK own \in BOOLEAN, still \in BOOLEAN, n \in BOOLEAN :
        own = timer /\ still = armed /\ n = notify
  BY DEF Inv, Queue, Accounted, Timers
<1> PICK q : q = Tail(ready)
  OBVIOUS
<1>5. Accounted(q, later, own, n)
  <2>1. (timer /\ TRUE) = own /\ (notify /\ TRUE) = n
    OBVIOUS
  <2> QED
    BY <1>2, <2>1
<1> PICK new : new = <<>>
  OBVIOUS
<1>6. new \in Seq(Handle) /\ \A h : ~Has(new, h) /\ Once(new, h) /\ ~DoneIn(new, h)
  BY EmptyQueue DEF DoneIn
<1>7. /\ LibTimer(q, new, own, still)
      /\ lost' \in BOOLEAN /\ (lost => lost') /\ (lost' \/ own = still)
  BY <1>1 DEF Inv, Queue
<1>8. notify' \in BOOLEAN /\ (notify' <=> n \/ Has(new, DrainHandle))
  BY <1>1, <1>6
<1>9. Queue' /\ \A h : DoneIn(ready, h)' <=> DoneIn(q, h) \/ DoneIn(new, h)
  BY <1>5, <1>6, <1>7, <1>8, QueueStep
<1> PICK R \in SUBSET Curl : R = {c}
  BY <1>4
<1> PICK M \in SUBSET NotDone(R) : M = {}
  OBVIOUS
<1>10. /\ \A h : DoneIn(ready, h)' => DoneIn(ready, h)
       /\ \A h : DoneIn(ready, h) => DoneIn(ready, h)' \/ h.c \in R
  BY <1>3, <1>6, <1>9
<1>11. /\ attached' = [d \in Curl |-> IF d \in R THEN NULL ELSE attached[d]]
       /\ msgs' = [d \in Curl |-> IF d \in R THEN "none" ELSE msgs[d]]
       /\ watched' = watched \ R
  BY <1>1 DEF Detach
<1>12. Settles(R, M)
  BY <1>1, <1>7, <1>10, <1>11 DEF Settles, Inv, Types, Heard, Finals
<1>13. ASSUME Plain
       PROVE  M = NotDone(R)
  <2>1. futures[c] = x.f
    BY <1>1, <1>2, <1>4, <1>13 DEF Plain, Apart
  <2> QED
    BY <1>4, <2>1 DEF NotDone, Finals
<1>14. /\ Types' /\ Table' /\ Heard' /\ Dones'
       /\ Plain => NoOrphans' /\ Apart' /\ Snapshot'
  BY <1>12, <1>13, SettleStep
<1>15. ClosedIsQuiet'
  BY <1>1 DEF ClosedIsQuiet
<1> QED
  BY <1>9, <1>14, <1>15 DEF Inv, Plain

-----------------------------------------------------------------------------
(* The theorems *)

LEMMA InitHolds ==
    ASSUME Init
    PROVE  Inv /\ Plain
<1> USE DEF Init
<1> PICK q : q = <<>>
  OBVIOUS
<1>1. q \in Seq(Handle) /\ \A h : ~Has(q, h) /\ Once(q, h)
  BY EmptyQueue
<1>2. Timers(q, 0, FALSE)
  BY <1>1 DEF Timers
<1>3. Accounted(q, 0, FALSE, FALSE)
  BY <1>1, <1>2 DEF Accounted, Forms
<1>4. Queue
  <2>1. /\ ready = q /\ later = 0 /\ timer = FALSE /\ notify = FALSE
        /\ armed = FALSE /\ lost = FALSE
    OBVIOUS
  <2> QED
    BY <1>3, <2>1 DEF Queue
<1>5. \A h : ~DoneIn(ready, h)
  BY <1>1 DEF DoneIn
<1>6. Inv
  BY <1>4, <1>5 DEF Inv, Types, Table, Heard, Dones
<1>7. Plain
  BY <1>5 DEF Plain, NoOrphans, Apart, Snapshot, ClosedIsQuiet
<1> QED
  BY <1>6, <1>7

LEMMA StepKeeps ==
    ASSUME Inv, [Next]_vars
    PROVE  Inv' /\ (Uses \subseteq {"raise"} /\ Plain => Plain')
<1>1. ASSUME NEW c \in Curl, NEW f \in Fut, AddHandle(c, f) \/ AddRefused(c, f)
      PROVE  Inv' /\ (Uses \subseteq {"raise"} /\ Plain => Plain')
  BY <1>1, AddStep, RefusedStep
<1>2. ASSUME NEW c \in Curl, RemoveHandle(c) \/ CloseEasy(c) \/ SocketEvent(c)
      PROVE  Inv' /\ (Uses \subseteq {"raise"} /\ Plain => Plain')
  BY <1>2, RemoveStep, CloseEasyStep, EventStep
<1>3. ASSUME NEW f \in Fut, CancelFuture(f)
      PROVE  Inv' /\ (Uses \subseteq {"raise"} /\ Plain => Plain')
  BY <1>3, CancelStep
<1>4. CASE Aclose
  BY <1>4, CloseStep
<1>5. ASSUME NEW F, RunReady(F)
      PROVE  Inv' /\ (Uses \subseteq {"raise"} /\ Plain => Plain')
  BY <1>5, FireStep, SocketReadyStep, StaleStep, DrainStep, DoneStep, NoopStep DEF RunReady
<1>6. CASE TimerDue
  BY <1>6, DueStep
<1>7. CASE UNCHANGED vars
  <2>1. UNCHANGED <<notify_supported, lost, futures, timer, notify, closed, fcurl, fstate, ready,
                    later, attached, open, msgs, watched, armed>>
    BY <1>7 DEF vars, object, loop, libcurl
  <2>2. Queue' /\ \A h : DoneIn(ready, h)' <=> DoneIn(ready, h)
    BY <2>1 DEF Inv, Queue, Accounted, Timers, Forms
  <2> QED
    BY <2>1, <2>2, QueueOnly
<1> QED
  BY <1>1, <1>2, <1>3, <1>4, <1>5, <1>6, <1>7 DEF Next, Program

\* Inv holds whatever the program does.
THEOREM Invariance == Spec => []Inv
<1>1. Init => Inv
  BY InitHolds
<1>2. Inv /\ [Next]_vars => Inv'
  BY StepKeeps
<1> QED
  BY <1>1, <1>2, PTL DEF Spec

\* Plain holds as well for a program without any of the special uses.
THEOREM PlainInvariance ==
    ASSUME Uses \subseteq {"raise"}
    PROVE  Spec => [](Inv /\ Plain)
<1>1. Init => Inv /\ Plain
  BY InitHolds
<1>2. (Inv /\ Plain) /\ [Next]_vars => (Inv /\ Plain)'
  BY StepKeeps
<1> QED
  BY <1>1, <1>2, PTL DEF Spec

\* TypeOK for any easies and futures.
THEOREM TypeCorrect == Spec => []TypeOK
<1>1. Inv => TypeOK
  BY DEF Inv, Types, Queue, Accounted, Timers, TypeOK
<1> QED
  BY <1>1, Invariance, PTL

\* A handle that is at most once in a queue is counted as zero or one.
LEMMA CountQueue ==
    ASSUME NEW q, NEW h, Once(q, h)
    PROVE  Cardinality({i \in DOMAIN q : q[i] = h}) = IF Has(q, h) THEN 1 ELSE 0
<1>1. CASE Has(q, h)
  <2>1. PICK i \in DOMAIN q : q[i] = h
    BY <1>1 DEF Has
  <2>2. {j \in DOMAIN q : q[j] = h} = {i}
    BY <2>1 DEF Once
  <2> QED
    BY <1>1, <2>2, FS_Singleton
<1>2. CASE ~Has(q, h)
  <2>1. {j \in DOMAIN q : q[j] = h} = {}
    BY <1>2 DEF Has
  <2> QED
    BY <1>2, <2>1, FS_EmptySet
<1> QED
  BY <1>1, <1>2

\* HandlesTracked: the loop has one timeout handle if self._timer is set and
\* one drain if the notify flag is, and none otherwise; a second one would be a
\* callback that nobody can cancel.
THEOREM HandlesAccounted == Spec => []HandlesTracked
<1>1. ASSUME Inv
      PROVE  HandlesTracked
  <2>1. Accounted(ready, later, timer, notify)
    BY <1>1 DEF Inv, Queue
  <2>2. /\ Cardinality({i \in DOMAIN ready : ready[i] = Timeout})
             = IF Has(ready, Timeout) THEN 1 ELSE 0
        /\ Cardinality({i \in DOMAIN ready : ready[i] = DrainHandle})
             = IF Has(ready, DrainHandle) THEN 1 ELSE 0
    BY <2>1, CountQueue DEF Accounted, Timers
  <2>3. /\ later + (IF Has(ready, Timeout) THEN 1 ELSE 0) = IF timer THEN 1 ELSE 0
        /\ notify <=> Has(ready, DrainHandle)
    BY <2>1 DEF Accounted, Timers
  <2> QED
    BY <2>2, <2>3 DEF HandlesTracked
<1>2. Inv => HandlesTracked
  BY <1>1
<1> QED
  BY <1>2, Invariance, PTL

\* MessagesHeard: no transfer ends in libcurl without a drain on its way, until
\* an exception makes libcurl's call be skipped.
THEOREM MessagesAreHeard == Spec => []MessagesHeard
<1>1. Inv => MessagesHeard
  BY DEF Inv, Queue, Accounted, Heard, Has, MessagesHeard, Queued
<1> QED
  BY <1>1, Invariance, PTL

\* libcurl's promise is kept by every step; the program's calls that end a
\* transfer, or start one, are those where the code could let go of it.
LEMMA CoveredStep ==
    ASSUME Inv, Covered, [Next]_vars
    PROVE  Covered'
<1>1. ASSUME NEW c \in Curl, NEW f \in Fut, AddHandle(c, f)
      PROVE  Covered'
  BY <1>1 DEF AddHandle, Covered
<1>2. CASE UNCHANGED <<attached, msgs, watched, armed, lost>>
  BY <1>2 DEF Covered, Running
<1>3. ASSUME NEW c \in Curl, RemoveHandle(c) \/ CloseEasy(c)
      PROVE  Covered'
  BY <1>3 DEF RemoveHandle, CloseEasy
<1>4. CASE Aclose
  BY <1>4 DEF Aclose, Detach, Covered, Running
<1>5. ASSUME NEW F, NEW q, NEW own, NEW still, SocketAction(F, q, own, still)
      PROVE  Covered'
  <2>1. CASE DriveRaises(F, q, own)
    BY <2>1 DEF DriveRaises, Covered
  <2> QED
    BY <1>5, <2>1 DEF SocketAction, Drive, DriveFails, CallbackRemove
<1>6. ASSUME NEW F, RunReady(F)
      PROVE  Covered'
  <2>1. CASE FireTimeout(F) \/ SocketReady(F)
    BY <1>5, <2>1 DEF FireTimeout, SocketReady
  <2>2. CASE DrainFromNotify \/ OnFutureDone
    BY <2>2 DEF DrainFromNotify, OnFutureDone
  <2>3. CASE SocketStale \/ OnFutureDoneNoop
    BY <1>2, <2>3 DEF SocketStale, OnFutureDoneNoop, libcurl
  <2> QED
    BY <1>6, <2>1, <2>2, <2>3 DEF RunReady
<1>7. ASSUME \/ TimerDue \/ UNCHANGED vars
             \/ \E c \in Curl : SocketEvent(c)
             \/ \E f \in Fut : CancelFuture(f)
             \/ \E c \in Curl, f \in Fut : AddRefused(c, f)
      PROVE  UNCHANGED <<attached, msgs, watched, armed, lost>>
  BY <1>7 DEF TimerDue, SocketEvent, CancelFuture, AddRefused, vars, libcurl
<1> QED
  BY <1>1, <1>2, <1>3, <1>4, <1>6, <1>7 DEF Next, Program

\* NoneStranded: libcurl's promise is about its own timer; with the timers
\* agreeing, and one handle in the loop for the object's, it becomes one about
\* what the loop will run.
THEOREM StrandsNone == Spec => []NoneStranded
<1>1. Init => Inv /\ Covered
  BY InitHolds DEF Init, Covered, Running
<1>2. (Inv /\ Covered) /\ [Next]_vars => (Inv /\ Covered)'
  BY StepKeeps, CoveredStep
<1>3. ASSUME Inv, Covered
      PROVE  NoneStranded
  <2>1. Timers(ready, later, timer) /\ (lost \/ timer = armed)
    BY <1>3 DEF Inv, Queue, Accounted
  <2>2. timer => later > 0 \/ Queued(Timeout)
    BY <2>1 DEF Timers, Has, Queued
  <2> QED
    BY <1>3, <2>1, <2>2 DEF Covered, NoneStranded
<1>4. Inv /\ Covered => NoneStranded
  BY <1>3
<1> QED
  BY <1>1, <1>2, <1>4, PTL DEF Spec

\* SnapshotComplete: every pending future is in the table, and a done one is
\* there only while the callback that removes it is in the queue.
THEOREM FuturesShown ==
    ASSUME Uses \subseteq {"raise"}
    PROVE  Spec => []SnapshotComplete
<1>1. ASSUME Inv, Plain
      PROVE  SnapshotComplete
  <2>1. ASSUME NEW c \in Curl, futures[c] # NULL, fstate[futures[c]] # "pending"
        PROVE  Queued(DoneHandle(futures[c]))
    <3>1. PICK h \in Handle : DoneIn(ready, h) /\ h.f = futures[c]
      BY <1>1, <2>1 DEF Plain, Snapshot
    <3>2. h = DoneHandle(futures[c])
      BY <1>1, <3>1, HandleFacts
    <3> QED
      BY <3>1, <3>2 DEF DoneIn, Has, Queued
  <2> QED
    BY <1>1, <2>1 DEF Plain, Snapshot, SnapshotComplete
<1>2. Inv /\ Plain => SnapshotComplete
  BY <1>1
<1> QED
  BY <1>2, PlainInvariance, PTL

\* Table and multi lose a handle together, unless the program closed it.
LEMMA LeaveTogether ==
    ASSUME NoOrphans, NEW R \in SUBSET Curl,
           \A c \in Curl : futures'[c] = IF c \in R THEN NULL ELSE futures[c],
           \A c \in Curl : attached'[c] = IF c \in R THEN NULL ELSE attached[c],
           \A c \in Curl \ R : open'[c] = open[c]
    PROVE  NoOrphans'
BY DEF NoOrphans

LEMMA ResolveTogether ==
    ASSUME NoOrphans, NEW out, NEW q, NEW own, NEW still, Resolve(out, q, own, still),
           UNCHANGED open
    PROVE  NoOrphans'
<1> PICK R \in SUBSET Curl : \A c \in Curl : c \in R <=> c \in DOMAIN out /\ futures[c] # NULL
  <2> DEFINE R == {c \in Curl : c \in DOMAIN out /\ futures[c] # NULL}
  <2> WITNESS R \in SUBSET Curl
  <2> QED
    OBVIOUS
<1>1. /\ \A c \in Curl : futures'[c] = IF c \in R THEN NULL ELSE futures[c]
      /\ \A c \in Curl : attached'[c] = IF c \in R THEN NULL ELSE attached[c]
  BY DEF Resolve
<1> QED
  BY <1>1, LeaveTogether

LEMMA NoOrphansStep ==
    ASSUME Inv, NoOrphans, "callback" \notin Uses, [Next]_vars
    PROVE  NoOrphans'
<1>1. ASSUME NEW c \in Curl, NEW f \in Fut, AddHandle(c, f)
      PROVE  NoOrphans'
  BY <1>1 DEF AddHandle, NoOrphans, Inv, Types
<1>2. ASSUME NEW R \in SUBSET Curl, Detach(R), UNCHANGED open,
             \A c \in Curl : futures'[c] = IF c \in R THEN NULL ELSE futures[c]
      PROVE  NoOrphans'
  BY <1>2, LeaveTogether DEF Detach
<1>3. ASSUME NEW c \in Curl, RemoveHandle(c)
      PROVE  NoOrphans'
  <2>1. /\ Detach({c}) /\ UNCHANGED open
        /\ \A d \in Curl : futures'[d] = IF d \in {c} THEN NULL ELSE futures[d]
    BY <1>3 DEF RemoveHandle, Inv, Types
  <2> QED
    BY <1>2, <2>1
<1>4. ASSUME NEW c \in Curl, CloseEasy(c)
      PROVE  NoOrphans'
  BY <1>4 DEF CloseEasy, Detach, NoOrphans, Inv, Types
<1>5. CASE Aclose
  BY <1>5 DEF Aclose, Detach, NoOrphans
<1>6. CASE OnFutureDone
  <2>1. Head(ready).c \in Curl
    BY <1>6, RunFacts, HeadFacts DEF OnFutureDone, HeadIs, Inv, Dones, DoneIn
  <2> PICK c \in Curl : c = Head(ready).c
    BY <2>1
  <2>2. /\ Detach({c}) /\ UNCHANGED open
        /\ \A d \in Curl : futures'[d] = IF d \in {c} THEN NULL ELSE futures[d]
    BY <1>6 DEF OnFutureDone, Inv, Types
  <2> QED
    BY <1>2, <2>2
<1>7. CASE UNCHANGED <<futures, attached, open>>
  BY <1>7 DEF NoOrphans
<1>8. ASSUME NEW F, NEW q, NEW own, NEW still, SocketAction(F, q, own, still)
      PROVE  NoOrphans'
  <2>1. ASSUME NEW out, Resolve(out, q, own, still), UNCHANGED open
        PROVE  NoOrphans'
    BY <2>1, ResolveTogether
  <2>2. CASE Drive(F, q, own, still)
    BY <1>7, <2>1, <2>2 DEF Drive, Drain
  <2>3. CASE DriveFails(q, own, still)
    <3> PICK out : out = [c \in {d \in Curl : futures[d] # NULL} |-> "err"]
      OBVIOUS
    <3>1. PICK s \in BOOLEAN : Resolve(out, q, own, s) /\ UNCHANGED open
      BY <2>3 DEF DriveFails
    <3> QED
      BY <3>1, ResolveTogether
  <2>4. CASE DriveRaises(F, q, own)
    BY <1>7, <2>4 DEF DriveRaises
  <2> QED
    BY <1>8, <2>2, <2>3, <2>4 DEF SocketAction, CallbackRemove
<1>9. CASE DrainFromNotify
  <2> PICK out, q, own, still : /\ out = [c \in {d \in Curl : msgs[d] # "none"} |-> msgs[c]]
                                /\ q = Tail(ready) /\ own = timer /\ still = armed
    OBVIOUS
  <2>1. Resolve(out, q, own, still) /\ UNCHANGED open
    BY <1>9 DEF DrainFromNotify, Drain
  <2> QED
    BY <2>1, ResolveTogether
<1>10. ASSUME NEW F, FireTimeout(F) \/ SocketReady(F)
       PROVE  NoOrphans'
  BY <1>8, <1>10 DEF FireTimeout, SocketReady
<1>11. ASSUME \/ SocketStale \/ OnFutureDoneNoop \/ TimerDue \/ UNCHANGED vars
              \/ \E c \in Curl : SocketEvent(c)
              \/ \E f \in Fut : CancelFuture(f)
              \/ \E c \in Curl, f \in Fut : AddRefused(c, f)
       PROVE  UNCHANGED <<futures, attached, open>>
  BY <1>11 DEF SocketStale, OnFutureDoneNoop, TimerDue, SocketEvent, CancelFuture,
               AddRefused, vars, object, libcurl
<1> QED
  BY <1>1, <1>3, <1>4, <1>5, <1>6, <1>7, <1>9, <1>10, <1>11 DEF Next, Program, RunReady

\* NoOrphans: a handle is attached exactly as long as its future is in the
\* table, if the program calls remove_handle() outside of libcurl's callbacks
\* only; adding a handle again early does no harm.
THEOREM NothingOrphaned ==
    ASSUME "callback" \notin Uses
    PROVE  Spec => []NoOrphans
<1>1. Init => Inv /\ NoOrphans
  BY InitHolds DEF Plain
<1>2. (Inv /\ NoOrphans) /\ [Next]_vars => (Inv /\ NoOrphans)'
  BY StepKeeps, NoOrphansStep
<1>3. Inv /\ NoOrphans => NoOrphans
  OBVIOUS
<1> QED
  BY <1>1, <1>2, PTL DEF Spec

\* ClosedIsQuiet: nothing is pending, attached or scheduled after aclose().
THEOREM QuietWhenClosed ==
    ASSUME Uses \subseteq {"raise"}
    PROVE  Spec => []ClosedIsQuiet
<1>1. Inv /\ Plain => ClosedIsQuiet
  BY DEF Plain
<1> QED
  BY <1>1, PlainInvariance, PTL

\* What OwnOutcome asks of a step.
Outcome(f) ==
    /\ fstate[f] \in Finals => fstate'[f] = fstate[f]
    /\ fstate[f] # "result" /\ fstate'[f] = "result" =>
         /\ attached[fcurl[f]] = f
         /\ notify_supported => msgs[fcurl[f]] = "ok"

\* A step that settles no future with a result, and no settled one.
LEMMA NoResult ==
    ASSUME \A f \in Fut : \/ fstate'[f] = fstate[f]
                          \/ fstate[f] \notin Finals /\ fstate'[f] # "result"
    PROVE  \A f \in Fut : Outcome(f)
BY DEF Outcome

LEMMA ResolveOutcome ==
    ASSUME Inv, NEW out, NEW q, NEW own, NEW still, Resolve(out, q, own, still),
           DOMAIN out \subseteq Curl,
           \A c \in DOMAIN out : out[c] = "ok" =>
             attached[c] # NULL /\ (notify_supported => msgs[c] = "ok")
    PROVE  \A f \in Fut : Outcome(f)
<1> PICK R \in SUBSET Curl : R = {c \in DOMAIN out : futures[c] # NULL}
  OBVIOUS
<1>1. fstate' = [f \in Fut |-> IF f \notin NotDone(R) THEN fstate[f]
                               ELSE IF out[fcurl[f]] = "ok" THEN "result" ELSE "error"]
  BY DEF Resolve
<1>2. ASSUME NEW f \in NotDone(R)
      PROVE  Outcome(f)
  <2>1. f \in Fut /\ fstate[f] = "pending" /\ fcurl[f] \in R /\ futures[fcurl[f]] = f
    BY NoneAssumption DEF NotDone, Inv, Table, Types
  <2>2. attached[fcurl[f]] # NULL => attached[fcurl[f]] = f
    BY <2>1 DEF Inv, Table
  <2> QED
    BY <1>1, <2>1, <2>2 DEF Outcome, Finals
<1>3. ASSUME NEW f \in Fut, f \notin NotDone(R)
      PROVE  Outcome(f)
  BY <1>1, <1>3 DEF Outcome
<1> QED
  BY <1>2, <1>3

LEMMA SocketActionOutcome ==
    ASSUME Inv, NEW F, NEW q, NEW own, NEW still, SocketAction(F, q, own, still)
    PROVE  \A f \in Fut : Outcome(f)
<1>1. CASE Drive(F, q, own, still)
  <2>1. PICK res \in [F -> {"ok", "err"}] :
            \/ UNCHANGED fstate
            \/ ~notify_supported /\ Drain(Ended(res), q, own, still)
    BY <1>1 DEF Drive
  <2>2. CASE UNCHANGED fstate
    BY <2>2, NoResult
  <2>3. CASE ~notify_supported /\ Drain(Ended(res), q, own, still)
    <3>1. PICK out : /\ out = [c \in {d \in Curl : Ended(res)[d] # "none"} |-> Ended(res)[c]]
                     /\ DOMAIN out \subseteq Curl /\ Resolve(out, q, own, still)
      BY <2>3, DrainDomain
    <3>2. \A c \in F : c \in Curl /\ attached[c] # NULL
      BY <1>1 DEF Drive, Running
    <3>3. \A c \in Curl : Ended(res)[c] = IF c \in F THEN res[c] ELSE msgs[c]
      BY DEF Ended
    <3>4. \A c \in DOMAIN out : attached[c] # NULL
      BY <3>1, <3>2, <3>3 DEF Inv, Heard
    <3> QED
      BY <2>3, <3>1, <3>4, ResolveOutcome
  <2> QED
    BY <2>1, <2>2, <2>3
<1>2. CASE DriveFails(q, own, still)
  <2> PICK out : out = [c \in {d \in Curl : futures[d] # NULL} |-> "err"]
    OBVIOUS
  <2>1. PICK s \in BOOLEAN : Resolve(out, q, own, s)
    BY <1>2 DEF DriveFails
  <2> QED
    BY <2>1, ResolveOutcome
<1>4. CASE DriveRaises(F, q, own)
  <2>1. UNCHANGED fstate
    BY <1>4 DEF DriveRaises
  <2> QED
    BY <2>1, NoResult
<1>3. CASE \E c \in Curl : CallbackRemove(c, q, own, still)
  <2>1. UNCHANGED fstate
    BY <1>3 DEF CallbackRemove
  <2> QED
    BY <2>1, NoResult
<1> QED
  BY <1>1, <1>2, <1>3, <1>4 DEF SocketAction

\* OwnOutcome: a result is that of the transfer the future was made for, and a
\* done future never changes.
THEOREM OutcomesAreOwn == Spec => OwnOutcome
<1>1. ASSUME Inv, [Next]_vars
      PROVE  \A f \in Fut : Outcome(f)
  <2>1. ASSUME NEW c \in Curl, NEW f \in Fut, AddHandle(c, f) \/ AddRefused(c, f)
        PROVE  \A g \in Fut : Outcome(g)
    <3>1. /\ fstate[f] = "unused"
          /\ \A g \in Fut : fstate'[g] = fstate[g] \/ (g = f /\ fstate'[f] # "result")
      BY <1>1, <2>1 DEF AddHandle, AddRefused, Inv, Types
    <3> QED
      BY <3>1, NoResult DEF Finals
  <2>2. ASSUME NEW c \in Curl, RemoveHandle(c)
        PROVE  \A g \in Fut : Outcome(g)
    <3>1. \A g \in Fut : fstate'[g] = IF g \in NotDone({c}) THEN "cancelled" ELSE fstate[g]
      BY <2>2 DEF RemoveHandle
    <3> QED
      BY <3>1, NoResult DEF NotDone, Finals
  <2>3. ASSUME NEW f \in Fut, CancelFuture(f)
        PROVE  \A g \in Fut : Outcome(g)
    <3>1. /\ fstate[f] = "pending"
          /\ \A g \in Fut : fstate'[g] = IF g = f THEN "cancelled" ELSE fstate[g]
      BY <1>1, <2>3 DEF CancelFuture, Inv, Types
    <3> QED
      BY <3>1, NoResult DEF Finals
  <2>4. CASE Aclose
    <3>1. \A g \in Fut : fstate'[g] = IF g \in NotDone(Curl) THEN "cancelled" ELSE fstate[g]
      BY <2>4 DEF Aclose
    <3> QED
      BY <3>1, NoResult DEF NotDone, Finals
  <2>5. ASSUME NEW F, FireTimeout(F) \/ SocketReady(F)
        PROVE  \A g \in Fut : Outcome(g)
    BY <1>1, <2>5, SocketActionOutcome DEF FireTimeout, SocketReady
  <2>6. CASE DrainFromNotify
    <3> PICK out : out = [c \in {d \in Curl : msgs[d] # "none"} |-> msgs[c]]
      OBVIOUS
    <3>1. Resolve(out, Tail(ready), timer, armed)
      BY <2>6 DEF DrainFromNotify, Drain
    <3>2. \A c \in DOMAIN out : c \in Curl /\ attached[c] # NULL /\ out[c] = msgs[c]
      BY <1>1 DEF Inv, Heard
    <3> PICK q, own, still : q = Tail(ready) /\ own = timer /\ still = armed
      OBVIOUS
    <3>3. Resolve(out, q, own, still)
      BY <3>1
    <3> QED
      BY <1>1, <3>2, <3>3, ResolveOutcome
  <2>7. CASE UNCHANGED fstate
    BY <2>7, NoResult
  <2>8. ASSUME NEW c \in Curl, CloseEasy(c) \/ SocketEvent(c)
        PROVE  UNCHANGED fstate
    BY <2>8 DEF CloseEasy, SocketEvent
  <2>9. ASSUME TimerDue \/ SocketStale \/ OnFutureDone \/ OnFutureDoneNoop \/ UNCHANGED vars
        PROVE  UNCHANGED fstate
    BY <2>9 DEF TimerDue, SocketStale, OnFutureDone, OnFutureDoneNoop, vars, loop
  <2> QED
    BY <1>1, <2>1, <2>2, <2>3, <2>4, <2>5, <2>6, <2>7, <2>8, <2>9
       DEF Next, Program, RunReady
<1>2. Inv /\ [Next]_vars =>
        [\A f \in Fut :
           /\ fstate[f] \in Finals => fstate'[f] = fstate[f]
           /\ fstate[f] # "result" /\ fstate'[f] = "result" =>
                /\ attached[fcurl[f]] = f
                /\ notify_supported => msgs[fcurl[f]] = "ok"]_vars
  BY <1>1 DEF Outcome
<1> QED
  BY <1>2, Invariance, PTL DEF Spec, OwnOutcome

=============================================================================
