--------------------------- MODULE MimeOwnersProofs ---------------------------
(***************************************************************************)
(* Proofs about MimeOwners, for any easies, mimes, parts and owners.       *)
(*                                                                         *)
(* The wrappers of pycurl are kept beside the trees of libcurl, and every  *)
(* property rests on how far the two agree.  TreeInv, which holds as long  *)
(* as no part with subparts gets new content, says that an open wrapper in *)
(* a tree of libcurl is below the open wrapper of its parent, so that what *)
(* libcurl frees with a tree is invalidated with the wrapper tree.         *)
(* CountInv, for a program without any of the special uses, adds that the  *)
(* two worlds list the same owners and that each owner is counted once for *)
(* every tree that holds it.                                               *)
(***************************************************************************)
EXTENDS MimeOwners, FiniteSetTheorems, TLAPS

-----------------------------------------------------------------------------
(* Trees *)

\* A tree has its root and is closed.
LEMMA ClosureFacts ==
    ASSUME NEW next \in [Mime -> SUBSET Mime], NEW m \in Mime
    PROVE  /\ Closure(next, m) \subseteq Mime
           /\ m \in Closure(next, m)
           /\ \A x \in Closure(next, m) : next[x] \subseteq Closure(next, m)
<1>1. Closure(next, m) \subseteq Mime /\ m \in Closure(next, m)
  BY DEF Closure
<1>2. ASSUME NEW x \in Closure(next, m), NEW y \in next[x]
      PROVE  y \in Closure(next, m)
  <2> SUFFICES ASSUME NEW S \in SUBSET Mime, m \in S, \A z \in S : next[z] \subseteq S
               PROVE  y \in S
    BY <1>1, <1>2 DEF Closure
  <2>1. x \in S
    BY <1>2 DEF Closure
  <2> QED
    BY <1>2, <2>1
<1> QED
  BY <1>1, <1>2

\* It is in every set that has the root and is closed.
LEMMA ClosureLeast ==
    ASSUME NEW next \in [Mime -> SUBSET Mime], NEW m \in Mime, NEW S, m \in S,
           \A x \in S \cap Mime : next[x] \subseteq S
    PROVE  Closure(next, m) \subseteq S
<1> DEFINE T == S \cap Mime
<1>1. T \in SUBSET Mime /\ m \in T /\ \A x \in T : next[x] \subseteq T
  OBVIOUS
<1> QED
  BY <1>1 DEF Closure

\* It depends on what is below its own members only.
LEMMA ClosureSame ==
    ASSUME NEW next \in [Mime -> SUBSET Mime], NEW next2 \in [Mime -> SUBSET Mime],
           NEW m \in Mime, \A x \in Closure(next, m) : next2[x] = next[x]
    PROVE  Closure(next2, m) = Closure(next, m)
<1> PICK S : S = Closure(next, m)
  OBVIOUS
<1> PICK T : T = Closure(next2, m)
  OBVIOUS
<1>1. S \subseteq Mime /\ m \in S /\ \A x \in S : next[x] \subseteq S
  BY ClosureFacts
<1>2. T \subseteq Mime /\ m \in T /\ \A x \in T : next2[x] \subseteq T
  BY ClosureFacts
<1>3. T \subseteq S
  BY <1>1, ClosureLeast
<1>4. S \subseteq T
  <2>1. \A x \in (S \cap T) \cap Mime : next[x] \subseteq S \cap T
    BY <1>1, <1>2
  <2>2. S \subseteq S \cap T
    BY <1>1, <1>2, <2>1, ClosureLeast
  <2> QED
    BY <2>2
<1> QED
  BY <1>3, <1>4

\* What libcurl has right below a mime.
LEMMA ChildrenType ==
    /\ Children \in [Mime -> SUBSET Mime]
    /\ \A m \in Mime : \A x : x \in Children[m] <=>
         x \in Mime /\ \E p \in Part : home[p] = m /\ content[p] = x
BY DEF Children, PartsOf

-----------------------------------------------------------------------------
(* Types *)

\* The content of a part that has no subparts is replaced, nothing else.
LEMMA PlainContent ==
    ASSUME TypeOK, NEW p \in Part, content[p] \notin Mime, NEW x, NEW gained,
           SetContent(p, x, gained)
    PROVE  /\ UNCHANGED <<lives, posts, copy>>
           /\ home' = home /\ content' = [content EXCEPT ![p] = x]
           /\ Count(gained, {content[p]} \cap Owner)
<1>1. /\ FreeTrees({})
      /\ content' = [q \in Part |-> IF q = p THEN x
                                    ELSE IF home[q] \in {} THEN NULL ELSE content[q]]
      /\ Count(gained, {content[q] : q \in PartsOf({}) \cup {p}} \cap Owner)
      /\ UNCHANGED <<posts, copy>>
  BY DEF SetContent
<1>2. PartsOf({}) = {}
  BY DEF PartsOf
<1>3. {content[q] : q \in PartsOf({}) \cup {p}} = {content[p]}
  BY <1>2
<1> QED
  BY <1>1, <1>3 DEF FreeTrees, TypeOK

\* The counts are never negative.
LEMMA CountTypes ==
    ASSUME TypeOK, NEW gained, NEW lost \in SUBSET Owner, Count(gained, lost)
    PROVE  refs' \in [Owner -> Nat] /\ freed' \subseteq Owner
BY DEF Count, TypeOK

LEMMA TypeStep ==
    ASSUME TypeOK, [Next]_vars
    PROVE  TypeOK'
<1> USE NullAssumption
<1>1. ASSUME NEW c \in Curl, NewCurl(c) \/ Perform(c) \/ PerformEnd(c)
      PROVE  TypeOK'
  BY <1>1 DEF NewCurl, Perform, PerformEnd, Ready, wrappers, trees, counts, TypeOK
<1>2. ASSUME NEW c \in Curl, NEW ref \in Mime \cup {NULL}, Unpost(c, ref),
             handle' \in [Curl -> {"new", "open", "closed"}],
             posts' \in [Curl -> Mime \cup {NULL}]
      PROVE  TypeOK'
  <2>1. refs' \in [Owner -> Nat] /\ freed' \subseteq Owner
    <3>1. Count({}, copy[c]) /\ copy[c] \in SUBSET Owner
      BY <1>2 DEF Unpost, TypeOK
    <3> QED
      BY <3>1, CountTypes
  <2> QED
    BY <1>2, <2>1 DEF Unpost, wrappers, TypeOK
<1>3. ASSUME NEW c \in Curl, UnsetMimepost(c) \/ CloseCurl(c)
      PROVE  TypeOK'
  <2>1. Unpost(c, NULL)
    BY <1>3 DEF UnsetMimepost, CloseCurl
  <2>2. handle' \in [Curl -> {"new", "open", "closed"}] /\ posts' \in [Curl -> Mime \cup {NULL}]
    BY <1>3 DEF UnsetMimepost, CloseCurl, TypeOK
  <2> QED
    BY <1>2, <2>1, <2>2
<1>4. ASSUME NEW c \in Curl, NEW m \in Mime, SetMimepost(c, m)
      PROVE  TypeOK'
  BY <1>2, <1>4 DEF SetMimepost, TypeOK
<1>5. ASSUME NEW c \in Curl, NEW d \in Curl, Duphandle(c, d)
      PROVE  TypeOK'
  <2> PICK listed : Count(listed, {})
    BY <1>5 DEF Duphandle
  <2>1. refs' \in [Owner -> Nat] /\ freed' \subseteq Owner
    BY CountTypes
  <2>2. Sent(c) \subseteq Owner
    BY DEF Sent, LibOwners, TypeOK
  <2> QED
    BY <1>5, <2>1, <2>2 DEF Duphandle, wrappers, TypeOK
<1>6. ASSUME NEW m \in Mime, NEW c \in Curl, NewMime(m, c)
      PROVE  TypeOK'
  BY <1>6 DEF NewMime, easies, counts, TypeOK
<1>7. ASSUME NEW m \in Mime, NEW p \in Part, AddPart(m, p)
      PROVE  TypeOK'
  BY <1>7 DEF AddPart, easies, counts, TypeOK
<1>8. ASSUME NEW m \in Mime, NEW p \in Part, NEW s \in Mime, AddMultipart(m, p, s)
      PROVE  TypeOK'
  BY <1>8 DEF AddMultipart, easies, counts, TypeOK
<1>9. ASSUME NEW p \in Part, NEW x \in Owner \cup Mime \cup {NULL}, NEW gained,
             SetContent(p, x, gained)
      PROVE  /\ lives' \subseteq Mime /\ home' \in [Part -> Mime \cup {NULL}]
             /\ content' \in [Part -> Owner \cup Mime \cup {NULL}]
             /\ refs' \in [Owner -> Nat] /\ freed' \subseteq Owner
             /\ UNCHANGED <<posts, copy>>
  <2> PICK lost \in SUBSET Owner : Count(gained, lost)
    BY <1>9 DEF SetContent
  <2>1. refs' \in [Owner -> Nat] /\ freed' \subseteq Owner
    BY CountTypes
  <2> QED
    BY <1>9, <2>1 DEF SetContent, FreeTrees, TypeOK
<1>10. ASSUME NEW p \in Part, NEW o \in Owner \cup {NULL}, ReplaceOwner(p, o), partOf[p] # NULL
       PROVE  owners' \in [Mime -> SUBSET Owner] /\ held' \in [Part -> Owner \cup {NULL}]
  BY <1>10 DEF ReplaceOwner, TypeOK
<1>11. ASSUME NEW p \in Part, Data(p)
       PROVE  TypeOK'
  <2>1. /\ SetContent(p, NULL, {}) /\ partOf[p] # NULL
        /\ ReplaceOwner(p, NULL) \/ UNCHANGED <<owners, held>>
        /\ UNCHANGED <<handle, running, mimepost, status, curl, owns, subs, partOf, used>>
    BY <1>11 DEF Data, PartReady, easies
  <2>2. owners' \in [Mime -> SUBSET Owner] /\ held' \in [Part -> Owner \cup {NULL}]
    BY <1>10, <2>1 DEF TypeOK
  <2> QED
    BY <1>9, <2>1, <2>2 DEF TypeOK
<1>12. ASSUME NEW p \in Part, NEW o \in Owner, DataCb(p, o)
       PROVE  TypeOK'
  <2>1. /\ SetContent(p, o, {o}) /\ partOf[p] # NULL /\ ReplaceOwner(p, o)
        /\ used' = used \cup {o}
        /\ UNCHANGED <<handle, running, mimepost, status, curl, owns, subs, partOf>>
    BY <1>12 DEF DataCb, PartReady, easies
  <2>2. owners' \in [Mime -> SUBSET Owner] /\ held' \in [Part -> Owner \cup {NULL}]
    BY <1>10, <2>1
  <2> QED
    BY <1>9, <2>1, <2>2 DEF TypeOK
<1>13. ASSUME NEW p \in Part, NEW s \in Mime, Subparts(p, s)
       PROVE  TypeOK'
  <2>1. PICK x \in Mime \cup {NULL} :
          /\ SetContent(p, x, {}) /\ partOf[p] # NULL
          /\ \/ /\ ReplaceOwner(p, NULL)
                /\ subs' = [subs EXCEPT ![partOf[p]] = @ \cup {s}]
                /\ owns' = [owns EXCEPT ![s] = FALSE]
             \/ UNCHANGED <<owners, held, subs, owns>>
          /\ UNCHANGED <<handle, running, mimepost, status, curl, partOf, used>>
    <3> DEFINE ok == partOf[p] \notin LibTree(s)
    <3>1. CASE ok
      <4> WITNESS s \in Mime \cup {NULL}
      <4> QED
        BY <1>13, <3>1 DEF Subparts, PartReady, easies
    <3>2. CASE ~ok
      <4> WITNESS NULL \in Mime \cup {NULL}
      <4> QED
        BY <1>13, <3>2 DEF Subparts, PartReady, easies
    <3> QED
      BY <3>1, <3>2
  <2>2. owners' \in [Mime -> SUBSET Owner] /\ held' \in [Part -> Owner \cup {NULL}]
    BY <1>10, <2>1 DEF TypeOK
  <2>3. subs' \in [Mime -> SUBSET Mime]
    <3>1. CASE UNCHANGED subs
      BY <3>1 DEF TypeOK
    <3>2. CASE subs' = [subs EXCEPT ![partOf[p]] = subs[partOf[p]] \cup {s}]
      <4>1. subs[partOf[p]] \cup {s} \in SUBSET Mime
        BY <2>1 DEF TypeOK
      <4> QED
        BY <3>2, <4>1 DEF TypeOK
    <3> QED
      BY <2>1, <3>1, <3>2
  <2>4. owns' \in [Mime -> BOOLEAN]
    BY <2>1 DEF TypeOK
  <2> QED
    BY <1>9, <2>1, <2>2, <2>3, <2>4 DEF TypeOK
<1>14. ASSUME NEW m \in Mime, CloseMime(m)
       PROVE  TypeOK'
  <2>1. PICK lost \in SUBSET Owner : Count({}, lost)
    BY <1>14 DEF CloseMime
  <2>2. refs' \in [Owner -> Nat] /\ freed' \subseteq Owner
    BY <2>1, CountTypes
  <2>3. /\ lives' \subseteq Mime /\ home' \in [Part -> Mime \cup {NULL}]
        /\ content' \in [Part -> Owner \cup Mime \cup {NULL}]
        /\ mimepost' \in [Curl -> Mime \cup {NULL}] /\ posts' \in [Curl -> Mime \cup {NULL}]
        /\ UNCHANGED <<handle, running, copy, used>>
    BY <1>14 DEF CloseMime, FreeTrees, Unpin, TypeOK
  <2>4. /\ status' \in [Mime -> {"new", "open", "closed"}] /\ curl' \in [Mime -> Curl \cup {NULL}]
        /\ owns' \in [Mime -> BOOLEAN] /\ subs' \in [Mime -> SUBSET Mime]
        /\ owners' \in [Mime -> SUBSET Owner] /\ partOf' \in [Part -> Mime \cup {NULL}]
        /\ held' \in [Part -> Owner \cup {NULL}]
    <3>1. Invalidate(WrapperTree(m))
      BY <1>14 DEF CloseMime
    <3> QED
      BY <3>1 DEF Invalidate, TypeOK
  <2> QED
    BY <2>2, <2>3, <2>4 DEF TypeOK
<1>15. CASE UNCHANGED vars
  BY <1>15 DEF vars, easies, wrappers, trees, counts, TypeOK
<1> QED
  BY <1>1, <1>3, <1>4, <1>5, <1>6, <1>7, <1>8, <1>11, <1>12, <1>13, <1>14, <1>15
     DEF Next, Add, Filedata

LEMMA InitTypes == Init => TypeOK
BY DEF Init, TypeOK

\* TypeOK for any easies, mimes, parts and owners.
THEOREM TypeCorrect == Spec => []TypeOK
<1>1. Init => TypeOK
  BY InitTypes
<1>2. TypeOK /\ [Next]_vars => TypeOK'
  BY TypeStep
<1> QED
  BY <1>1, <1>2, PTL DEF Spec

-----------------------------------------------------------------------------
(* The wrappers and the trees *)

\* A wrapper that is not open has nothing, one that is points to a live tree;
\* what is attached has been made and belongs to its parent.
Wrappers ==
    /\ \A m \in Mime : status[m] # "open" => ~owns[m] /\ subs[m] = {} /\ owners[m] = {}
    /\ \A m \in Mime : status[m] = "open" => m \in lives
    /\ \A m \in Mime : \A s \in subs[m] : status[s] # "new" /\ ~owns[s]

\* A part wrapper that points to a mime is in its tree, a part outside of any
\* tree is empty.
Parts ==
    /\ \A p \in Part : partOf[p] # NULL => home[p] = partOf[p] /\ status[partOf[p]] = "open"
    /\ \A p \in Part : partOf[p] = NULL => held[p] = NULL
    /\ \A p \in Part : home[p] = NULL => content[p] = NULL

\* An open mime that is the content of a part is below that part's open mime.
Below ==
    \A p \in Part : content[p] \in Mime =>
        /\ status[content[p]] # "new"
        /\ status[content[p]] = "open" =>
             status[home[p]] = "open" /\ content[p] \in subs[home[p]]

\* An easy sends a mime of its own that nobody has attached; one that is not
\* yet made sends nothing.
Posts ==
    /\ \A c \in Curl : posts[c] # NULL =>
         posts[c] = mimepost[c] /\ curl[posts[c]] = c /\ owns[posts[c]]
    /\ \A c \in Curl : handle[c] = "new" =>
         posts[c] = NULL /\ copy[c] = {} /\ mimepost[c] = NULL
    /\ \A c \in running : handle[c] = "open"

TreeInv == TypeOK /\ Wrappers /\ Parts /\ Below /\ Posts

\* The owners in the parts of one mime.
OwnersIn(m) == {o \in Owner : \E p \in Part : home[p] = m /\ content[p] = o}

\* A wrapper lists exactly the owners in its tree; what it lists below it is
\* below it, with the same easy.
Listed ==
    /\ \A m \in Mime : owners[m] = OwnersIn(m)
    /\ \A p \in Part : partOf[p] # NULL =>
         held[p] = IF content[p] \in Owner THEN content[p] ELSE NULL
    /\ \A m \in Mime : subs[m] \subseteq Children[m]
    /\ \A m \in Mime : \A s \in subs[m] : status[s] = "open" => curl[s] = curl[m]

\* No owner has two parts; those in a tree, and those freed, have been made.
Single ==
    /\ \A p, q \in Part : content[p] \in Owner /\ content[p] = content[q] => p = q
    /\ \A p \in Part : content[p] \in Owner => content[p] \in used
    /\ \A c \in Curl : copy[c] \subseteq used
    /\ freed \subseteq used

CountInv == TreeInv /\ Listed /\ Single /\ CountIsExact /\ FreeOnLast

\* What is open in a tree of libcurl is in the tree of the wrapper; nothing
\* below the root of that one owns a tree.
LEMMA TreeFacts ==
    ASSUME TreeInv, NEW m \in Mime
    PROVE  /\ WrapperTree(m) \subseteq Mime /\ LibTree(m) \subseteq Mime
           /\ m \in WrapperTree(m) /\ m \in LibTree(m)
           /\ \A x \in WrapperTree(m) : subs[x] \subseteq WrapperTree(m)
           /\ \A x \in WrapperTree(m) : x # m => ~owns[x]
           /\ \A x \in LibTree(m) : status[x] = "open" => x \in WrapperTree(m)
<1> USE ChildrenType
<1>0. subs \in [Mime -> SUBSET Mime]
  BY DEF TreeInv, TypeOK
<1> PICK W : W = WrapperTree(m)
  OBVIOUS
<1> PICK next : next = subs
  OBVIOUS
<1>1. /\ W \subseteq Mime /\ m \in W /\ \A x \in W : next[x] \subseteq W
      /\ LibTree(m) \subseteq Mime /\ m \in LibTree(m)
  BY <1>0, ClosureFacts DEF WrapperTree, LibTree
<1>2. \A x \in W : x # m => ~owns[x]
  <2> DEFINE S == {x \in Mime : x # m => ~owns[x]}
  <2>1. m \in S /\ \A x \in S \cap Mime : subs[x] \subseteq S
    BY <1>0 DEF TreeInv, Wrappers
  <2> HIDE DEF S
  <2>2. WrapperTree(m) \subseteq S
    BY <1>0, <2>1, ClosureLeast DEF WrapperTree
  <2> QED
    BY <2>2 DEF S
<1>3. \A x \in LibTree(m) : status[x] = "open" => x \in W
  <2> DEFINE S == {x \in Mime : status[x] = "open" => x \in W}
  <2>1. m \in S
    BY <1>1
  <2>2. ASSUME NEW x \in S, NEW y \in Children[x], status[y] = "open"
        PROVE  y \in W
    <3>1. PICK p \in Part : home[p] = x /\ content[p] = y /\ y \in Mime
      BY <2>2
    <3>2. status[x] = "open" /\ y \in subs[x]
      BY <2>2, <3>1 DEF TreeInv, Below
    <3> QED
      BY <1>1, <2>2, <3>2
  <2>3. \A x \in S \cap Mime : Children[x] \subseteq S
    BY <2>2
  <2> HIDE DEF S
  <2>4. LibTree(m) \subseteq S
    BY <2>1, <2>3, ClosureLeast DEF LibTree
  <2> QED
    BY <2>4 DEF S
<1> QED
  BY <1>1, <1>2, <1>3

\* An easy stops sending what it sends.
LEMMA UnpostTree ==
    ASSUME TreeInv, TypeOK', NEW c \in Curl, NEW ref \in Mime \cup {NULL}, Unpost(c, ref),
           handle[c] = "open", handle'[c] # "new",
           \A d \in Curl : d # c => handle'[d] = handle[d],
           c \notin running,
           posts' = [posts EXCEPT ![c] = ref],
           ref # NULL => curl[ref] = c /\ owns[ref]
    PROVE  TreeInv'
<1>1. UNCHANGED <<running, status, curl, owns, subs, owners, partOf, held, lives, home, content>>
  BY DEF Unpost, wrappers
<1>2. /\ copy' = [copy EXCEPT ![c] = {}]
      /\ mimepost' = [mimepost EXCEPT ![c] = ref]
  BY DEF Unpost
<1>3. Wrappers' /\ Parts' /\ Below'
  BY <1>1 DEF TreeInv, Wrappers, Parts, Below
<1>4. Posts'
  BY <1>1, <1>2 DEF TreeInv, Posts, TypeOK
<1> QED
  BY <1>3, <1>4 DEF TreeInv

LEMMA DuphandleTree ==
    ASSUME TreeInv, TypeOK', NEW c \in Curl, NEW d \in Curl, Duphandle(c, d)
    PROVE  TreeInv'
<1>1. /\ handle[c] = "open" /\ handle[d] = "new"
      /\ handle' = [handle EXCEPT ![d] = "open"]
      /\ copy' = [copy EXCEPT ![d] = Sent(c)]
      /\ mimepost' = [mimepost EXCEPT ![d] = mimepost[c]]
      /\ UNCHANGED <<running, posts, status, curl, owns, subs, owners, partOf, held>>
      /\ UNCHANGED <<lives, home, content>>
  BY DEF Duphandle, wrappers
<1>2. Wrappers' /\ Parts' /\ Below'
  BY <1>1 DEF TreeInv, Wrappers, Parts, Below
<1>3. Posts'
  BY <1>1 DEF TreeInv, Posts, TypeOK
<1> QED
  BY <1>2, <1>3 DEF TreeInv

LEMMA NewMimeTree ==
    ASSUME TreeInv, TypeOK', NEW c \in Curl, NEW m \in Mime, NewMime(m, c)
    PROVE  TreeInv'
<1>1. /\ status[m] = "new"
      /\ status' = [status EXCEPT ![m] = "open"]
      /\ curl' = [curl EXCEPT ![m] = c]
      /\ owns' = [owns EXCEPT ![m] = TRUE]
      /\ lives' = lives \cup {m}
      /\ UNCHANGED <<handle, running, mimepost, subs, owners, partOf, held>>
      /\ UNCHANGED <<posts, copy, home, content>>
  BY DEF NewMime, easies
<1>2. Wrappers'
  BY <1>1 DEF TreeInv, Wrappers, TypeOK
<1>3. Parts'
  BY <1>1, NullAssumption DEF TreeInv, Parts, TypeOK
<1>4. Below'
  BY <1>1, NullAssumption DEF TreeInv, Below, Parts, TypeOK
<1>5. Posts'
  BY <1>1 DEF TreeInv, Posts, Wrappers, TypeOK
<1> QED
  BY <1>2, <1>3, <1>4, <1>5 DEF TreeInv

LEMMA AddPartTree ==
    ASSUME TreeInv, TypeOK', NEW m \in Mime, NEW p \in Part, AddPart(m, p)
    PROVE  TreeInv'
<1>1. /\ status[m] = "open" /\ home[p] = NULL /\ partOf[p] = NULL
      /\ home' = [home EXCEPT ![p] = m]
      /\ partOf' = [partOf EXCEPT ![p] = m]
      /\ UNCHANGED <<handle, running, mimepost, status, curl, owns, subs, owners, held>>
      /\ UNCHANGED <<posts, copy, lives, content>>
  BY DEF AddPart, easies
<1>2. content[p] = NULL
  BY <1>1 DEF TreeInv, Parts
<1>3. Wrappers' /\ Posts'
  BY <1>1 DEF TreeInv, Wrappers, Posts
<1>4. Parts'
  BY <1>1, NullAssumption DEF TreeInv, Parts, TypeOK
<1>5. Below'
  BY <1>1, <1>2, NullAssumption DEF TreeInv, Below, TypeOK
<1> QED
  BY <1>3, <1>4, <1>5 DEF TreeInv

LEMMA AddMultipartTree ==
    ASSUME TreeInv, TypeOK', NEW m \in Mime, NEW p \in Part, NEW s \in Mime,
           AddMultipart(m, p, s)
    PROVE  TreeInv'
<1>1. /\ status[m] = "open" /\ status[s] = "new" /\ home[p] = NULL /\ partOf[p] = NULL
      /\ home' = [home EXCEPT ![p] = m]
      /\ partOf' = [partOf EXCEPT ![p] = m]
      /\ \/ /\ status' = [status EXCEPT ![s] = "open"]
            /\ curl' = [curl EXCEPT ![s] = curl[m]]
            /\ subs' = [subs EXCEPT ![m] = subs[m] \cup {s}]
            /\ lives' = lives \cup {s}
            /\ content' = [content EXCEPT ![p] = s]
         \/ /\ status' = [status EXCEPT ![s] = "closed"]
            /\ UNCHANGED <<curl, subs, lives, content>>
      /\ UNCHANGED <<handle, running, mimepost, owns, owners, held, posts, copy>>
  BY DEF AddMultipart, easies
<1>2. /\ content[p] = NULL /\ held[p] = NULL /\ ~owns[s] /\ subs[s] = {}
      /\ \A x \in Mime : s \notin subs[x]
      /\ \A q \in Part : content[q] # s
      /\ \A q \in Part : partOf[q] # s
  BY <1>1, NullAssumption DEF TreeInv, Parts, Wrappers, Below
<1>3. Wrappers'
  <2>1. /\ m # s /\ \A x \in Mime : x # s => status'[x] = status[x]
        /\ \A x \in Mime : x # m => subs'[x] = subs[x]
        /\ subs'[m] \subseteq subs[m] \cup {s} /\ subs[m] \subseteq Mime
        /\ status'[s] # "new" /\ lives \subseteq lives'
        /\ status'[s] = "open" => s \in lives'
        /\ \A x \in Mime : subs[x] \subseteq Mime
    BY <1>1 DEF TreeInv, TypeOK
  <2>2. \A x \in Mime : status'[x] # "open" => ~owns'[x] /\ subs'[x] = {} /\ owners'[x] = {}
    BY <1>1, <1>2, <2>1 DEF TreeInv, Wrappers
  <2>3. \A x \in Mime : status'[x] = "open" => x \in lives'
    BY <2>1 DEF TreeInv, Wrappers
  <2>4. \A x \in Mime : \A y \in subs'[x] : status'[y] # "new" /\ ~owns'[y]
    BY <1>1, <1>2, <2>1 DEF TreeInv, Wrappers
  <2> QED
    BY <2>2, <2>3, <2>4 DEF Wrappers
<1>4. Parts'
  BY <1>1, <1>2, NullAssumption DEF TreeInv, Parts, TypeOK
<1>5. Below'
  BY <1>1, <1>2, NullAssumption DEF TreeInv, Below, Parts, TypeOK
<1>6. Posts'
  BY <1>1, <1>2 DEF TreeInv, Posts, TypeOK
<1> QED
  BY <1>3, <1>4, <1>5, <1>6 DEF TreeInv

\* A part gets new content, which is no mime, or one that is attached to it.
LEMMA ContentTree ==
    ASSUME TreeInv, TypeOK', NEW p \in Part, content[p] \notin Mime, partOf[p] # NULL,
           NEW x \in Owner \cup Mime \cup {NULL}, NEW gained, SetContent(p, x, gained),
           NEW o \in Owner \cup {NULL}, ReplaceOwner(p, o) \/ UNCHANGED <<owners, held>>,
           UNCHANGED <<handle, running, mimepost, status, curl, partOf>>,
           \/ x \notin Mime /\ UNCHANGED <<owns, subs>>
           \/ /\ x \in Mime /\ status[x] = "open" /\ mimepost[curl[x]] # x
              /\ subs' = [subs EXCEPT ![partOf[p]] = subs[partOf[p]] \cup {x}]
              /\ owns' = [owns EXCEPT ![x] = FALSE]
    PROVE  TreeInv'
<1> PICK m \in Mime : m = partOf[p]
  BY DEF TreeInv, TypeOK
<1>1. /\ UNCHANGED <<lives, posts, copy, home>> /\ content' = [content EXCEPT ![p] = x]
  BY PlainContent DEF TreeInv
<1>2. home[p] = m /\ status[m] = "open" /\ m # NULL
  BY NullAssumption DEF TreeInv, Parts
<1>3. /\ \A y \in Mime : y # m => owners'[y] = owners[y]
      /\ \A q \in Part : q # p => held'[q] = held[q]
  BY DEF ReplaceOwner, TreeInv, TypeOK
<1>4. /\ \A y \in Mime : y # m => subs'[y] = subs[y]
      /\ subs'[m] \subseteq subs[m] \cup ({x} \cap Mime) /\ subs[m] \subseteq subs'[m]
      /\ x \in Mime => x \in subs'[m] /\ status[x] = "open" /\ ~owns'[x]
      /\ \A y \in Mime : owns'[y] => owns[y] /\ y # x
      /\ \A y \in Mime : owns[y] /\ y # x => owns'[y]
      /\ \A y \in Mime : subs[y] \subseteq Mime
  BY DEF TreeInv, TypeOK
<1>5. Wrappers'
  <2>1. \A y \in Mime : status'[y] # "open" => ~owns'[y] /\ subs'[y] = {} /\ owners'[y] = {}
    BY <1>2, <1>3, <1>4 DEF TreeInv, Wrappers
  <2>2. \A y \in Mime : status'[y] = "open" => y \in lives'
    BY <1>1 DEF TreeInv, Wrappers
  <2>3. \A y \in Mime : \A s \in subs'[y] : status'[s] # "new" /\ ~owns'[s]
    BY <1>4 DEF TreeInv, Wrappers
  <2> QED
    BY <2>1, <2>2, <2>3 DEF Wrappers
<1>6. Parts'
  BY <1>1, <1>2, <1>3 DEF TreeInv, Parts, TypeOK
<1>7. Below'
  <2> SUFFICES ASSUME NEW q \in Part, content'[q] \in Mime
               PROVE  /\ status[content'[q]] # "new"
                      /\ status[content'[q]] = "open" =>
                           status[home[q]] = "open" /\ content'[q] \in subs'[home[q]]
    BY <1>1 DEF Below
  <2>1. CASE q = p
    BY <1>1, <1>2, <1>4, <2>1 DEF TreeInv, TypeOK
  <2>2. CASE q # p
    <3>1. content'[q] = content[q] /\ content[q] # NULL
      BY <1>1, <2>2, NullAssumption DEF TreeInv, TypeOK
    <3>2. home[q] \in Mime
      BY <3>1 DEF TreeInv, Parts, TypeOK
    <3>3. subs[home[q]] \subseteq subs'[home[q]]
      BY <1>4, <3>2
    <3> QED
      BY <3>1, <3>3 DEF TreeInv, Below
  <2> QED
    BY <2>1, <2>2
<1>8. Posts'
  <2>1. ASSUME NEW c \in Curl, posts[c] # NULL
        PROVE  posts[c] = mimepost[c] /\ curl[posts[c]] = c /\ owns'[posts[c]]
    <3>1. /\ posts[c] = mimepost[c] /\ curl[posts[c]] = c /\ owns[posts[c]]
          /\ posts[c] \in Mime
      BY <2>1 DEF TreeInv, Posts, TypeOK
    <3>2. posts[c] # x
      BY <3>1
    <3> QED
      BY <1>4, <3>1, <3>2
  <2> QED
    BY <1>1, <2>1 DEF TreeInv, Posts
<1> QED
  BY <1>5, <1>6, <1>7, <1>8 DEF TreeInv

\* What an action does to a part that may get new content.
LEMMA DataTree ==
    ASSUME TreeInv, TypeOK', "replace" \notin Uses, NEW p \in Part, Data(p)
    PROVE  TreeInv'
<1>1. /\ content[p] \notin Mime /\ partOf[p] # NULL
      /\ SetContent(p, NULL, {})
      /\ ReplaceOwner(p, NULL) \/ UNCHANGED <<owners, held>>
      /\ UNCHANGED <<handle, running, mimepost, status, curl, partOf, owns, subs>>
  BY DEF Data, Replaceable, PartReady, easies
<1>2. NULL \notin Mime
  BY NullAssumption
<1> QED
  BY <1>1, <1>2, ContentTree

LEMMA DataCbTree ==
    ASSUME TreeInv, TypeOK', "replace" \notin Uses, NEW p \in Part, NEW o \in Owner,
           DataCb(p, o)
    PROVE  TreeInv'
<1>1. /\ content[p] \notin Mime /\ partOf[p] # NULL
      /\ SetContent(p, o, {o})
      /\ ReplaceOwner(p, o)
      /\ UNCHANGED <<handle, running, mimepost, status, curl, partOf, owns, subs>>
  BY DEF DataCb, Replaceable, PartReady, easies
<1>2. o \notin Mime
  BY KindsAssumption
<1> QED
  BY <1>1, <1>2, ContentTree

\* A mime is attached, or libcurl refuses it.
LEMMA SubpartsFacts ==
    ASSUME TypeOK, "replace" \notin Uses, NEW p \in Part, NEW s \in Mime, Subparts(p, s)
    PROVE  /\ content[p] \notin Mime /\ PartReady(p) /\ partOf[p] # NULL
           /\ Attachable(s, partOf[p]) /\ status[s] = "open" /\ mimepost[curl[s]] # s
           /\ \/ /\ SetContent(p, s, {})
                 /\ subs' = [subs EXCEPT ![partOf[p]] = subs[partOf[p]] \cup {s}]
                 /\ owns' = [owns EXCEPT ![s] = FALSE]
                 /\ ReplaceOwner(p, NULL)
              \/ /\ "fail" \in Uses /\ SetContent(p, NULL, {})
                 /\ UNCHANGED <<subs, owns, owners, held>>
           /\ UNCHANGED <<handle, running, mimepost, status, curl, partOf, used>>
<1>1. /\ PartReady(p) /\ Replaceable(p) /\ Attachable(s, partOf[p])
      /\ UNCHANGED <<handle, running, mimepost, status, curl, partOf, used>>
  BY DEF Subparts, easies
<1>2. CASE partOf[p] \notin LibTree(s)
  BY <1>1, <1>2 DEF Subparts, Replaceable, PartReady, Attachable
<1>3. CASE partOf[p] \in LibTree(s)
  BY <1>1, <1>3 DEF Subparts, Replaceable, PartReady, Attachable, Outcomes
<1> QED
  BY <1>2, <1>3

LEMMA SubpartsTree ==
    ASSUME TreeInv, TypeOK', "replace" \notin Uses, NEW p \in Part, NEW s \in Mime,
           Subparts(p, s)
    PROVE  TreeInv'
<1>1. NULL \notin Mime /\ NULL \in Owner \cup {NULL} /\ TypeOK
  BY NullAssumption DEF TreeInv
<1>2. /\ content[p] \notin Mime /\ partOf[p] # NULL
      /\ status[s] = "open" /\ mimepost[curl[s]] # s
      /\ UNCHANGED <<handle, running, mimepost, status, curl, partOf>>
  BY <1>1, SubpartsFacts
<1>3. CASE /\ SetContent(p, s, {})
           /\ subs' = [subs EXCEPT ![partOf[p]] = subs[partOf[p]] \cup {s}]
           /\ owns' = [owns EXCEPT ![s] = FALSE]
           /\ ReplaceOwner(p, NULL)
  BY <1>1, <1>2, <1>3, ContentTree
<1>4. CASE SetContent(p, NULL, {}) /\ UNCHANGED <<subs, owns, owners, held>>
  BY <1>1, <1>2, <1>4, ContentTree
<1> QED
  BY <1>1, <1>3, <1>4, SubpartsFacts

\* What is freed with a tree, and what is invalidated.
LEMMA CloseTree ==
    ASSUME TreeInv, TypeOK', NEW m \in Mime, CloseMime(m)
    PROVE  TreeInv'
<1> PICK W : W = WrapperTree(m)
  OBVIOUS
<1> PICK gone : gone = IF owns[m] THEN LibTree(m) ELSE {}
  OBVIOUS
<1>1. /\ W \subseteq Mime /\ m \in W /\ \A x \in W : subs[x] \subseteq W
      /\ \A x \in W : x # m => ~owns[x]
      /\ gone \subseteq Mime /\ \A x \in gone : status[x] = "open" => x \in W
  BY TreeFacts
<1>2. /\ status' = [x \in Mime |-> IF x \in W THEN "closed" ELSE status[x]]
      /\ curl' = [x \in Mime |-> IF x \in W THEN NULL ELSE curl[x]]
      /\ owns' = [x \in Mime |-> owns[x] /\ x \notin W]
      /\ subs' = [x \in Mime |-> IF x \in W THEN {} ELSE subs[x]]
      /\ owners' = [x \in Mime |-> IF x \in W THEN {} ELSE owners[x]]
      /\ partOf' = [p \in Part |-> IF partOf[p] \in W THEN NULL ELSE partOf[p]]
      /\ held' = [p \in Part |-> IF partOf[p] \in W THEN NULL ELSE held[p]]
  BY DEF CloseMime, Invalidate
<1>3. /\ lives' = lives \ gone
      /\ home' = [p \in Part |-> IF home[p] \in gone THEN NULL ELSE home[p]]
      /\ content' = [p \in Part |-> IF home[p] \in gone THEN NULL ELSE content[p]]
      /\ UNCHANGED <<handle, running, copy>>
  BY DEF CloseMime, FreeTrees
<1>4. /\ status[m] = "open"
      /\ mimepost' = IF mimepost[curl[m]] = m THEN [mimepost EXCEPT ![curl[m]] = NULL]
                                              ELSE mimepost
      /\ posts' = IF mimepost[curl[m]] = m THEN [posts EXCEPT ![curl[m]] = NULL] ELSE posts
  BY DEF CloseMime, Unpin
<1>5. Wrappers'
  <2>1. \A x \in Mime : status'[x] # "open" => ~owns'[x] /\ subs'[x] = {} /\ owners'[x] = {}
    BY <1>2 DEF TreeInv, Wrappers
  <2>2. \A x \in Mime : status'[x] = "open" => x \in lives'
    BY <1>1, <1>2, <1>3 DEF TreeInv, Wrappers
  <2>3. ASSUME NEW x \in Mime, NEW y \in subs'[x]
        PROVE  status'[y] # "new" /\ ~owns'[y]
    <3>1. y \in subs[x] /\ y \in Mime
      BY <1>2, <2>3 DEF TreeInv, TypeOK
    <3> QED
      BY <1>2, <3>1 DEF TreeInv, Wrappers
  <2> QED
    BY <2>1, <2>2, <2>3 DEF Wrappers
<1>6. Parts'
  <2>1. ASSUME NEW p \in Part, partOf'[p] # NULL
        PROVE  home'[p] = partOf'[p] /\ status'[partOf'[p]] = "open"
    <3>1. /\ partOf'[p] = partOf[p] /\ partOf[p] \notin W /\ partOf[p] \in Mime
          /\ home[p] = partOf[p] /\ status[partOf[p]] = "open"
      BY <1>2, <2>1 DEF TreeInv, Parts, TypeOK
    <3> QED
      BY <1>1, <1>2, <1>3, <3>1
  <2>2. \A p \in Part : partOf'[p] = NULL => held'[p] = NULL
    BY <1>2 DEF TreeInv, Parts
  <2>3. \A p \in Part : home'[p] = NULL => content'[p] = NULL
    BY <1>3 DEF TreeInv, Parts
  <2> QED
    BY <2>1, <2>2, <2>3 DEF Parts
<1>7. Below'
  <2> SUFFICES ASSUME NEW p \in Part, content'[p] \in Mime
               PROVE  /\ status'[content'[p]] # "new"
                      /\ status'[content'[p]] = "open" =>
                           status'[home'[p]] = "open" /\ content'[p] \in subs'[home'[p]]
    BY DEF Below
  <2>1. /\ home[p] \notin gone /\ home'[p] = home[p] /\ content'[p] = content[p]
        /\ home[p] \in Mime
    BY <1>3, NullAssumption DEF TreeInv, Parts, TypeOK
  <2>2. /\ status[content[p]] # "new"
        /\ status[content[p]] = "open" =>
             status[home[p]] = "open" /\ content[p] \in subs[home[p]]
    BY <2>1 DEF TreeInv, Below
  <2>3. status'[content[p]] # "new"
    BY <1>2, <2>1, <2>2
  <2>4. ASSUME status'[content[p]] = "open"
        PROVE  status'[home[p]] = "open" /\ content[p] \in subs'[home[p]]
    <3>1. content[p] \notin W /\ status[content[p]] = "open"
      BY <1>2, <2>1, <2>4
    <3>2. home[p] \notin W
      BY <1>1, <2>2, <3>1
    <3> QED
      BY <1>2, <2>1, <2>2, <3>1, <3>2
  <2> QED
    BY <2>1, <2>3, <2>4
<1>8. Posts'
  <2>1. ASSUME NEW c \in Curl, posts'[c] # NULL
        PROVE  posts'[c] = mimepost'[c] /\ curl'[posts'[c]] = c /\ owns'[posts'[c]]
    <3>1. /\ posts'[c] = posts[c] /\ posts[c] \in Mime /\ posts[c] = mimepost[c]
          /\ curl[posts[c]] = c /\ owns[posts[c]]
      BY <1>4, <2>1 DEF TreeInv, Posts, TypeOK
    <3>2. posts[c] # m
      BY <1>4, <2>1, <3>1 DEF TreeInv, TypeOK
    <3>3. posts[c] \notin W
      BY <1>1, <3>1, <3>2
    <3>4. mimepost'[c] = mimepost[c]
      BY <1>4, <2>1, <3>1 DEF TreeInv, TypeOK
    <3> QED
      BY <1>2, <3>1, <3>3, <3>4
  <2>2. \A c \in Curl : handle'[c] = "new" => posts'[c] = NULL /\ copy'[c] = {} /\ mimepost'[c] = NULL
    BY <1>3, <1>4 DEF TreeInv, Posts, TypeOK
  <2>3. \A c \in running' : handle'[c] = "open"
    BY <1>3 DEF TreeInv, Posts
  <2> QED
    BY <2>1, <2>2, <2>3 DEF Posts
<1> QED
  BY <1>5, <1>6, <1>7, <1>8 DEF TreeInv

LEMMA TreeStep ==
    ASSUME TreeInv, "replace" \notin Uses, [Next]_vars
    PROVE  TreeInv'
<1>0. TypeOK'
  BY TypeStep DEF TreeInv
<1>1. ASSUME NEW c \in Curl, NewCurl(c) \/ Perform(c) \/ PerformEnd(c)
      PROVE  TreeInv'
  <2>1. UNCHANGED <<mimepost, status, curl, owns, subs, owners, partOf, held,
                    posts, copy, lives, home, content>>
    BY <1>1 DEF NewCurl, Perform, PerformEnd, wrappers, trees
  <2>2. Wrappers' /\ Parts' /\ Below'
    BY <2>1 DEF TreeInv, Wrappers, Parts, Below
  <2>3. Posts'
    BY <1>1, <2>1 DEF NewCurl, Perform, PerformEnd, Ready, TreeInv, Posts, TypeOK
  <2> QED
    BY <1>0, <2>2, <2>3 DEF TreeInv
<1>2. ASSUME NEW c \in Curl, NEW m \in Mime, SetMimepost(c, m)
      PROVE  TreeInv'
  <2>1. /\ Unpost(c, m) /\ handle[c] = "open" /\ handle' = handle /\ c \notin running
        /\ posts' = [posts EXCEPT ![c] = m] /\ curl[m] = c /\ owns[m]
    BY <1>2 DEF SetMimepost, Ready
  <2> QED
    BY <1>0, <2>1, UnpostTree
<1>3. ASSUME NEW c \in Curl, UnsetMimepost(c) \/ CloseCurl(c)
      PROVE  TreeInv'
  <2>1. /\ Unpost(c, NULL) /\ handle[c] = "open" /\ c \notin running
        /\ handle' \in {handle, [handle EXCEPT ![c] = "closed"]}
        /\ posts' = [posts EXCEPT ![c] = NULL]
    BY <1>3 DEF UnsetMimepost, CloseCurl, Ready
  <2>2. handle'[c] # "new" /\ \A d \in Curl : d # c => handle'[d] = handle[d]
    BY <2>1 DEF TreeInv, TypeOK
  <2> QED
    BY <1>0, <2>1, <2>2, UnpostTree
<1>4. CASE UNCHANGED vars
  BY <1>4 DEF vars, easies, wrappers, trees, counts, TreeInv, TypeOK, Wrappers, Parts,
              Below, Posts
<1> QED
  BY <1>0, <1>1, <1>2, <1>3, <1>4, DuphandleTree, NewMimeTree, AddPartTree,
     AddMultipartTree, DataTree, DataCbTree, SubpartsTree, CloseTree
     DEF Next, Add, Filedata

LEMMA InitTree == Init => TreeInv
<1> SUFFICES ASSUME Init PROVE TreeInv
  OBVIOUS
<1>1. Wrappers /\ Parts /\ Below /\ Posts
  BY NullAssumption DEF Init, Wrappers, Parts, Below, Posts
<1> QED
  BY <1>1, InitTypes DEF TreeInv

\* The wrappers follow the trees of libcurl while no part with subparts gets
\* new content.
THEOREM TreesFollowed ==
    ASSUME "replace" \notin Uses
    PROVE  Spec => []TreeInv
<1>1. Init => TreeInv
  BY InitTree
<1>2. TreeInv /\ [Next]_vars => TreeInv'
  BY TreeStep
<1> QED
  BY <1>1, <1>2, PTL DEF Spec

\* An open wrapper points to a tree that libcurl has not freed.
THEOREM OpenAreLive ==
    ASSUME "replace" \notin Uses
    PROVE  Spec => []OpenIsLive
<1>1. ASSUME TreeInv
      PROVE  OpenIsLive
  <2>1. ASSUME NEW c \in Curl, posts[c] # NULL
        PROVE  /\ posts[c] = mimepost[c] /\ curl[posts[c]] = c
               /\ posts[c] \in lives /\ owns[posts[c]]
    BY <1>1, <2>1 DEF TreeInv, Posts, Wrappers, TypeOK
  <2> QED
    BY <1>1, <2>1 DEF TreeInv, Wrappers, Parts, OpenIsLive
<1>2. TreeInv => OpenIsLive
  BY <1>1
<1> QED
  BY <1>2, TreesFollowed, PTL

-----------------------------------------------------------------------------
(* The counts *)

\* pycurl counts up for the owners that one more tree holds, libcurl calls the
\* free function of those that one tree less holds.
Counted(gained, lost) ==
    /\ Count(gained, lost)
    /\ gained \subseteq used' /\ lost \subseteq used
    /\ used \subseteq used' /\ used' \subseteq used \cup gained
    /\ \A o \in gained : /\ o \in Owner /\ o \notin lost /\ o \notin freed
                         /\ \E t : t \notin Trees(o) /\ Trees(o)' = Trees(o) \cup {t}
    /\ \A o \in lost : \E t \in Trees(o) : Trees(o)' = Trees(o) \ {t}
    /\ \A o \in Owner : o \notin gained \cup lost => Trees(o)' = Trees(o)

\* The trees that hold an owner can be counted.
LEMMA TreesFinite ==
    ASSUME NEW o
    PROVE  IsFiniteSet(Trees(o)) /\ Cardinality(Trees(o)) \in Nat
<1>1. Trees(o) \subseteq Curl \cup Part
  BY DEF Trees
<1>2. IsFiniteSet(Curl \cup Part)
  BY KindsAssumption, FS_Union
<1>3. IsFiniteSet(Trees(o))
  BY <1>1, <1>2, FS_Subset
<1> QED
  BY <1>3, FS_CardinalityType

\* A step that counts every tree it makes and every tree it frees keeps the
\* counts exact.
LEMMA CountStep ==
    ASSUME CountInv, NEW gained, NEW lost \in SUBSET Owner, Counted(gained, lost)
    PROVE  CountIsExact' /\ FreeOnLast' /\ freed' \subseteq used'
<1> USE DEF Counted
<1>0. /\ \A o \in Owner : refs[o] \in Nat /\ refs[o] = Cardinality(Trees(o))
      /\ \A o \in used : o \in freed <=> Trees(o) = {}
      /\ freed \subseteq used /\ used \subseteq Owner
  BY DEF CountInv, TreeInv, TypeOK, CountIsExact, FreeOnLast, Single
<1>1. ASSUME NEW o \in gained
      PROVE  /\ refs'[o] = Cardinality(Trees(o)') /\ Trees(o)' # {}
             /\ o \notin freed'
  <2>1. PICK t : t \notin Trees(o) /\ Trees(o)' = Trees(o) \cup {t}
    OBVIOUS
  <2>2. Cardinality(Trees(o) \cup {t}) = Cardinality(Trees(o)) + 1
    BY <2>1, TreesFinite, FS_AddElement
  <2>3. refs'[o] = refs[o] + 1 /\ o \notin freed'
    BY DEF Count
  <2> QED
    BY <1>0, <2>1, <2>2, <2>3
<1>2. ASSUME NEW o \in lost
      PROVE  /\ refs'[o] = Cardinality(Trees(o)')
             /\ o \in freed' <=> Trees(o)' = {}
             /\ o \in used
  <2>1. PICK t \in Trees(o) : Trees(o)' = Trees(o) \ {t}
    OBVIOUS
  <2> PICK T : T = Trees(o)
    OBVIOUS
  <2>2. IsFiniteSet(T) /\ t \in T /\ Cardinality(T) \in Nat
    BY <2>1, TreesFinite
  <2>3. Cardinality(T \ {t}) = Cardinality(T) - 1 /\ Cardinality(T \ {t}) \in Nat
    BY <2>2, FS_RemoveElement, FS_CardinalityType
  <2>4. T \ {t} = {} <=> Cardinality(T \ {t}) = 0
    BY <2>2, FS_RemoveElement, FS_EmptySet
  <2>5. o \in Owner /\ refs[o] > 0 /\ refs[o] = Cardinality(T)
    BY <1>0, <2>2, <2>3
  <2>6. refs'[o] = refs[o] - 1 /\ (o \in freed' <=> o \in freed \/ refs[o] = 1)
    BY <2>5 DEF Count
  <2>7. o \notin freed
    BY <1>0, <2>2
  <2>8. o \in freed' <=> T \ {t} = {}
    BY <2>3, <2>4, <2>5, <2>6, <2>7
  <2> QED
    BY <2>1, <2>3, <2>5, <2>6, <2>8
<1>3. ASSUME NEW o \in Owner, o \notin gained \cup lost
      PROVE  /\ refs'[o] = refs[o] /\ Trees(o)' = Trees(o)
             /\ o \in freed' <=> o \in freed
             /\ o \in used' => o \in used
  BY <1>3 DEF Count
<1>4. CountIsExact'
  BY <1>0, <1>1, <1>2, <1>3 DEF CountIsExact
<1>5. FreeOnLast'
  <2>1. used' \subseteq Owner
    BY <1>0
  <2> QED
    BY <1>0, <1>1, <1>2, <1>3, <2>1 DEF FreeOnLast
<1>6. freed' \subseteq used'
  BY <1>0 DEF Count
<1> QED
  BY <1>4, <1>5, <1>6

\* What an easy would copy is what the wrappers list.
LEMMA OwnersAgree ==
    ASSUME CountInv, NEW m \in Mime
    PROVE  LibOwners(m) = ListedOwners(m)
<1>0. subs \in [Mime -> SUBSET Mime] /\ TreeInv
  BY DEF CountInv, TreeInv, TypeOK
<1> PICK W : W = WrapperTree(m)
  OBVIOUS
<1> PICK T : T = LibTree(m)
  OBVIOUS
<1>1. /\ W \subseteq Mime /\ T \subseteq Mime /\ \A x \in T : status[x] = "open" => x \in W
  BY <1>0, TreeFacts
<1>2. W \subseteq T
  <2>1. m \in T /\ \A x \in T : Children[x] \subseteq T
    BY ClosureFacts, ChildrenType DEF LibTree
  <2>2. \A x \in T \cap Mime : subs[x] \subseteq T
    BY <2>1 DEF CountInv, Listed
  <2> QED
    BY <1>0, <2>1, <2>2, ClosureLeast DEF WrapperTree
<1>3. LibOwners(m) = {o \in Owner : \E x \in T : o \in OwnersIn(x)}
  BY DEF LibOwners, PartsOf, OwnersIn
<1>4. ListedOwners(m) = {o \in Owner : \E x \in W : o \in OwnersIn(x)}
  <2>1. \A x \in W : owners[x] = OwnersIn(x) /\ owners[x] \subseteq Owner
    BY <1>1 DEF CountInv, Listed, TreeInv, TypeOK
  <2> QED
    BY <2>1 DEF ListedOwners
<1>5. \A x \in T : x \notin W => OwnersIn(x) = {}
  BY <1>0, <1>1 DEF CountInv, Listed, TreeInv, Wrappers
<1> QED
  BY <1>2, <1>3, <1>4, <1>5

\* The copy that an easy drops frees each of its owners once.
LEMMA UnpostCount ==
    ASSUME CountInv, TreeInv', NEW c \in Curl, NEW ref, Unpost(c, ref)
    PROVE  CountInv'
<1>1. /\ Count({}, copy[c]) /\ copy' = [copy EXCEPT ![c] = {}]
      /\ UNCHANGED <<used, status, curl, owns, subs, owners, partOf, held, home, content>>
  BY DEF Unpost, wrappers
<1>2. c \notin Part /\ copy[c] \in SUBSET Owner /\ copy[c] \subseteq used
  BY KindsAssumption DEF CountInv, TreeInv, TypeOK, Single
<1>3. Counted({}, copy[c])
  <2>1. ASSUME NEW o \in copy[c]
        PROVE  c \in Trees(o) /\ Trees(o)' = Trees(o) \ {c}
    BY <1>1, <1>2, <2>1 DEF Trees, CountInv, TreeInv, TypeOK
  <2>2. ASSUME NEW o \in Owner, o \notin copy[c]
        PROVE  Trees(o)' = Trees(o)
    BY <1>1, <2>2 DEF Trees, CountInv, TreeInv, TypeOK
  <2> QED
    BY <1>1, <1>2, <2>1, <2>2 DEF Counted
<1>4. CountIsExact' /\ FreeOnLast' /\ freed' \subseteq used'
  BY <1>2, <1>3, CountStep
<1>5. Listed'
  BY <1>1 DEF CountInv, Listed, OwnersIn, Children, PartsOf
<1>6. Single'
  BY <1>1, <1>4 DEF CountInv, Single, TreeInv, TypeOK
<1> QED
  BY <1>4, <1>5, <1>6 DEF CountInv

\* The duplicate holds the owners that are counted for it.
LEMMA DuphandleCount ==
    ASSUME CountInv, TreeInv', "chain" \notin Uses, NEW c \in Curl, NEW d \in Curl,
           Duphandle(c, d)
    PROVE  CountInv'
<1> PICK listed : listed = IF mimepost[c] = NULL THEN {} ELSE ListedOwners(mimepost[c])
  OBVIOUS
<1>1. /\ handle[d] = "new" /\ (posts[c] # NULL \/ copy[c] = listed)
      /\ copy' = [copy EXCEPT ![d] = Sent(c)]
      /\ Count(listed, {})
      /\ UNCHANGED <<used, status, curl, owns, subs, owners, partOf, held, home, content>>
  BY DEF Duphandle, wrappers
<1>2. copy[d] = {} /\ d \notin Part
  BY <1>1, KindsAssumption DEF CountInv, TreeInv, Posts
<1>3. Sent(c) = listed
  <2>1. CASE posts[c] = NULL
    BY <1>1, <2>1 DEF Sent
  <2>2. CASE posts[c] # NULL
    <3>1. posts[c] = mimepost[c] /\ posts[c] \in Mime
      BY <2>2 DEF CountInv, TreeInv, Posts, TypeOK
    <3> QED
      BY <2>2, <3>1, OwnersAgree DEF Sent
  <2> QED
    BY <2>1, <2>2
<1>4. \A o \in listed : o \in Owner /\ o \in used /\ o \notin freed
  <2>1. ASSUME NEW o \in Sent(c)
        PROVE  o \in Owner /\ o \in used /\ Trees(o) # {}
    <3>1. CASE posts[c] = NULL
      BY <2>1, <3>1 DEF Sent, Trees, CountInv, Single, TreeInv, TypeOK
    <3>2. CASE posts[c] # NULL
      <4>1. PICK p \in Part : content[p] = o /\ o \in Owner
        BY <2>1, <3>2 DEF Sent, LibOwners, PartsOf
      <4> QED
        BY <4>1 DEF Trees, CountInv, Single
    <3> QED
      BY <3>1, <3>2
  <2> QED
    BY <1>3, <2>1 DEF CountInv, FreeOnLast
<1>5. Counted(listed, {})
  <2>1. ASSUME NEW o \in listed
        PROVE  d \notin Trees(o) /\ Trees(o)' = Trees(o) \cup {d}
    BY <1>1, <1>2, <1>3, <2>1 DEF Trees, CountInv, TreeInv, TypeOK
  <2>2. ASSUME NEW o \in Owner, o \notin listed
        PROVE  Trees(o)' = Trees(o)
    BY <1>1, <1>2, <1>3, <2>2 DEF Trees, CountInv, TreeInv, TypeOK
  <2> QED
    BY <1>1, <1>4, <2>1, <2>2 DEF Counted
<1>6. CountIsExact' /\ FreeOnLast' /\ freed' \subseteq used'
  BY <1>5, CountStep
<1>7. Listed'
  BY <1>1 DEF CountInv, Listed, OwnersIn, Children, PartsOf
<1>8. Single'
  BY <1>1, <1>3, <1>4, <1>6 DEF CountInv, Single, TreeInv, TypeOK
<1> QED
  BY <1>6, <1>7, <1>8 DEF CountInv

\* Owners do not move.
LEMMA QuietCount ==
    ASSUME CountInv, UNCHANGED <<copy, counts>>,
           \A p \in Part : \A o \in Owner : content'[p] = o <=> content[p] = o
    PROVE  CountIsExact' /\ FreeOnLast' /\ Single'
<1>1. \A o \in Owner : Trees(o)' = Trees(o)
  BY DEF Trees
<1>2. \A o \in used : o \in Owner
  BY DEF CountInv, TreeInv, TypeOK
<1>3. CountIsExact' /\ FreeOnLast'
  BY <1>1, <1>2 DEF counts, CountInv, CountIsExact, FreeOnLast
<1>4. Single'
  BY DEF counts, CountInv, Single
<1> QED
  BY <1>3, <1>4

LEMMA NewMimeCount ==
    ASSUME CountInv, TreeInv', NEW c \in Curl, NEW m \in Mime, NewMime(m, c)
    PROVE  CountInv'
<1>1. /\ status[m] = "new"
      /\ status' = [status EXCEPT ![m] = "open"]
      /\ curl' = [curl EXCEPT ![m] = c]
      /\ UNCHANGED <<subs, owners, partOf, held, copy, home, content, counts>>
  BY DEF NewMime
<1>2. subs[m] = {} /\ \A x \in Mime : m \notin subs[x]
  BY <1>1 DEF CountInv, TreeInv, Wrappers
<1>3. Listed'
  <2>1. \A x \in Mime : \A s \in subs[x] : status'[s] = "open" => curl'[s] = curl'[x]
    BY <1>1, <1>2 DEF CountInv, Listed, TreeInv, TypeOK
  <2> QED
    BY <1>1, <2>1 DEF CountInv, Listed, OwnersIn, Children, PartsOf
<1> QED
  BY <1>1, <1>3, QuietCount DEF CountInv

\* A part joins a tree without an owner.
LEMMA JoinListed ==
    ASSUME CountInv, NEW p \in Part, home[p] = NULL, partOf[p] = NULL, NEW m \in Mime,
           home' = [home EXCEPT ![p] = m], partOf' = [partOf EXCEPT ![p] = m],
           content'[p] \notin Owner, \A q \in Part : q # p => content'[q] = content[q],
           UNCHANGED <<owners, held>>
    PROVE  /\ \A x \in Mime : owners'[x] = OwnersIn(x)'
           /\ \A q \in Part : partOf'[q] # NULL =>
                held'[q] = IF content'[q] \in Owner THEN content'[q] ELSE NULL
           /\ \A x, y \in Mime : y \in Children[x] => y \in Children[x]'
           /\ \A q \in Part : \A o \in Owner : content'[q] = o <=> content[q] = o
<1>1. content[p] = NULL /\ held[p] = NULL /\ NULL \notin Owner \cup Mime
  BY NullAssumption DEF CountInv, TreeInv, Parts
<1>2. \A x \in Mime : OwnersIn(x)' = OwnersIn(x)
  BY <1>1 DEF OwnersIn, CountInv, TreeInv, TypeOK
<1>3. \A q \in Part : \A o \in Owner : content'[q] = o <=> content[q] = o
  BY <1>1
<1>4. \A q \in Part : partOf'[q] # NULL =>
        held'[q] = IF content'[q] \in Owner THEN content'[q] ELSE NULL
  BY <1>1 DEF CountInv, Listed, TreeInv, TypeOK
<1>5. ASSUME NEW x \in Mime, NEW y \in Mime, y \in Children[x]
      PROVE  y \in Children[x]'
  <2>1. PICK q \in Part : home[q] = x /\ content[q] = y
    BY <1>5, ChildrenType
  <2>2. q # p /\ home'[q] = x /\ content'[q] = y
    BY <1>1, <2>1 DEF CountInv, TreeInv, TypeOK
  <2> QED
    BY <2>2 DEF Children, PartsOf
<1> QED
  BY <1>2, <1>3, <1>4, <1>5 DEF CountInv, Listed

LEMMA AddPartCount ==
    ASSUME CountInv, TreeInv', NEW m \in Mime, NEW p \in Part, AddPart(m, p)
    PROVE  CountInv'
<1>1. /\ home[p] = NULL /\ partOf[p] = NULL
      /\ home' = [home EXCEPT ![p] = m] /\ partOf' = [partOf EXCEPT ![p] = m]
      /\ UNCHANGED <<status, curl, subs, owners, held, copy, content, counts>>
  BY DEF AddPart
<1>2. content[p] \notin Owner
  BY <1>1, NullAssumption DEF CountInv, TreeInv, Parts
<1>3. /\ \A x \in Mime : owners'[x] = OwnersIn(x)'
      /\ \A q \in Part : partOf'[q] # NULL =>
           held'[q] = IF content'[q] \in Owner THEN content'[q] ELSE NULL
      /\ \A x, y \in Mime : y \in Children[x] => y \in Children[x]'
      /\ \A q \in Part : \A o \in Owner : content'[q] = o <=> content[q] = o
  BY <1>1, <1>2, JoinListed
<1>4. \A x \in Mime : subs[x] \subseteq Mime
  BY DEF CountInv, TreeInv, TypeOK
<1>5. Listed'
  BY <1>1, <1>3, <1>4 DEF CountInv, Listed
<1> QED
  BY <1>1, <1>3, <1>5, QuietCount DEF CountInv

LEMMA AddMultipartCount ==
    ASSUME CountInv, TreeInv', NEW m \in Mime, NEW p \in Part, NEW s \in Mime,
           AddMultipart(m, p, s)
    PROVE  CountInv'
<1>1. /\ status[m] = "open" /\ status[s] = "new" /\ home[p] = NULL /\ partOf[p] = NULL
      /\ home' = [home EXCEPT ![p] = m] /\ partOf' = [partOf EXCEPT ![p] = m]
      /\ \/ /\ status' = [status EXCEPT ![s] = "open"]
            /\ curl' = [curl EXCEPT ![s] = curl[m]]
            /\ subs' = [subs EXCEPT ![m] = subs[m] \cup {s}]
            /\ content' = [content EXCEPT ![p] = s]
         \/ /\ status' = [status EXCEPT ![s] = "closed"]
            /\ UNCHANGED <<curl, subs, content>>
      /\ UNCHANGED <<owners, held, copy, counts>>
  BY DEF AddMultipart
<1>2. /\ content[p] = NULL /\ NULL \notin Owner /\ s \notin Owner /\ m # s
      /\ subs[s] = {} /\ \A x \in Mime : s \notin subs[x]
  BY <1>1, NullAssumption, KindsAssumption DEF CountInv, TreeInv, Parts, Wrappers
<1>3. /\ content'[p] \notin Owner /\ \A q \in Part : q # p => content'[q] = content[q]
      /\ content'[p] = s \/ subs' = subs
  BY <1>1, <1>2 DEF CountInv, TreeInv, TypeOK
<1>4. /\ \A x \in Mime : owners'[x] = OwnersIn(x)'
      /\ \A q \in Part : partOf'[q] # NULL =>
           held'[q] = IF content'[q] \in Owner THEN content'[q] ELSE NULL
      /\ \A x, y \in Mime : y \in Children[x] => y \in Children[x]'
      /\ \A q \in Part : \A o \in Owner : content'[q] = o <=> content[q] = o
  BY <1>1, <1>3, JoinListed
<1>5. \A x \in Mime : subs'[x] \subseteq Children[x]'
  <2> SUFFICES ASSUME NEW x \in Mime, NEW y \in subs'[x]
               PROVE  y \in Children[x]'
    OBVIOUS
  <2>1. CASE y \in subs[x]
    BY <1>4, <2>1 DEF CountInv, Listed, TreeInv, TypeOK
  <2>2. CASE y \notin subs[x]
    <3>1. x = m /\ y = s /\ content'[p] = s /\ home'[p] = m
      BY <1>1, <1>3, <2>2 DEF CountInv, TreeInv, TypeOK
    <3> QED
      BY <3>1 DEF Children, PartsOf
  <2> QED
    BY <2>1, <2>2
<1>6. \A x \in Mime : \A y \in subs'[x] : status'[y] = "open" => curl'[y] = curl'[x]
  <2> SUFFICES ASSUME NEW x \in Mime, NEW y \in subs'[x], status'[y] = "open"
               PROVE  curl'[y] = curl'[x]
    OBVIOUS
  <2>0. \A z \in Mime : z # s => status'[z] = status[z] /\ curl'[z] = curl[z]
    BY <1>1 DEF CountInv, TreeInv, TypeOK
  <2>1. CASE y \in subs[x]
    <3>1. y \in Mime /\ y # s /\ x # s
      BY <1>2, <2>1 DEF CountInv, TreeInv, TypeOK
    <3> QED
      BY <2>0, <2>1, <3>1 DEF CountInv, Listed
  <2>2. CASE y \notin subs[x]
    <3>1. x = m /\ y = s /\ curl'[s] = curl[m]
      BY <1>1, <2>2 DEF CountInv, TreeInv, TypeOK
    <3> QED
      BY <1>2, <2>0, <3>1
  <2> QED
    BY <2>1, <2>2
<1>7. Listed'
  BY <1>4, <1>5, <1>6 DEF Listed
<1> QED
  BY <1>1, <1>4, <1>7, QuietCount DEF CountInv

\* A part gets new content, and its wrapper the new owner or none.
LEMMA ContentCount ==
    ASSUME CountInv, TreeInv', NEW p \in Part, content[p] \notin Mime, partOf[p] # NULL,
           NEW x \in Owner \cup Mime \cup {NULL}, x \in Owner => x \notin used,
           NEW gained, gained = {x} \cap Owner, SetContent(p, x, gained),
           used' = used \cup gained,
           NEW o, o = (IF x \in Owner THEN x ELSE NULL), ReplaceOwner(p, o),
           UNCHANGED <<status, curl, partOf>>,
           \/ UNCHANGED subs
           \/ /\ x \in Mime /\ curl[x] = curl[partOf[p]]
              /\ subs' = [subs EXCEPT ![partOf[p]] = subs[partOf[p]] \cup {x}]
    PROVE  CountInv'
<1> PICK m \in Mime : m = partOf[p]
  BY DEF CountInv, TreeInv, TypeOK
<1> PICK lost \in SUBSET Owner : lost = {content[p]} \cap Owner
  OBVIOUS
<1>0. TypeOK /\ NULL \notin Owner /\ NULL \notin Mime /\ Mime \cap Owner = {}
      /\ home[p] = m /\ m # NULL
  BY NullAssumption, KindsAssumption DEF CountInv, TreeInv, Parts
<1>1. /\ UNCHANGED <<copy, home>> /\ content' = [content EXCEPT ![p] = x]
      /\ Count(gained, lost)
  BY <1>0, PlainContent
<1>2. /\ content'[p] = x /\ \A q \in Part : q # p => content'[q] = content[q]
      /\ \A q \in Part : content'[q] \in Owner /\ q # p => content'[q] \in used
      /\ \A q \in Part : q # p /\ content[p] \in Owner => content[q] # content[p]
      /\ content[p] \in Owner => content[p] \in used
  BY <1>0, <1>1 DEF TypeOK, CountInv, Single
<1>3. Counted(gained, lost)
  <2>1. ASSUME NEW i \in gained
        PROVE  /\ i \in Owner /\ i \notin lost /\ i \notin freed
               /\ p \notin Trees(i) /\ Trees(i)' = Trees(i) \cup {p}
    <3>1. i = x /\ i \in Owner /\ i \notin used
      BY <2>1
    <3>2. Trees(i) = {}
      BY <3>1 DEF Trees, CountInv, Single
    <3>3. Trees(i)' = {p}
      BY <1>1, <1>2, <3>1, <3>2 DEF Trees
    <3> QED
      BY <1>2, <3>1, <3>2, <3>3 DEF CountInv, Single
  <2>2. ASSUME NEW i \in lost
        PROVE  p \in Trees(i) /\ Trees(i)' = Trees(i) \ {p} /\ i \in used
    <3>1. i = content[p] /\ i \in Owner /\ i # x /\ p \notin Curl
      BY <1>2, <2>2, KindsAssumption
    <3> QED
      BY <1>1, <1>2, <3>1 DEF Trees
  <2>3. ASSUME NEW i \in Owner, i \notin gained \cup lost
        PROVE  Trees(i)' = Trees(i)
    BY <1>1, <1>2, <2>3 DEF Trees
  <2> QED
    BY <1>1, <2>1, <2>2, <2>3 DEF Counted
<1>4. CountIsExact' /\ FreeOnLast' /\ freed' \subseteq used'
  BY <1>3, CountStep
<1>5. Single'
  <2>1. \A q \in Part : content'[q] \in Owner => content'[q] \in used'
    BY <1>2
  <2>2. \A q, r \in Part : content'[q] \in Owner /\ content'[q] = content'[r] => q = r
    BY <1>2 DEF CountInv, Single
  <2> QED
    BY <1>1, <1>4, <2>1, <2>2 DEF CountInv, Single
<1>6. Listed'
  <2>1. \A y \in Mime : owners'[y] = OwnersIn(y)'
    <3> SUFFICES ASSUME NEW y \in Mime PROVE owners'[y] = OwnersIn(y)'
      OBVIOUS
    <3>1. owners[y] = OwnersIn(y)
      BY DEF CountInv, Listed
    <3>2. CASE y # m
      <4>1. owners'[y] = owners[y]
        BY <1>0, <3>2 DEF ReplaceOwner, TypeOK
      <4>2. OwnersIn(y)' = OwnersIn(y)
        BY <1>0, <1>1, <1>2, <3>2 DEF OwnersIn
      <4> QED
        BY <3>1, <4>1, <4>2
    <3>3. CASE y = m
      <4>1. owners'[m] = (owners[m] \ {held[p]}) \cup ({o} \ {NULL})
        BY <1>0 DEF ReplaceOwner, TypeOK
      <4>2. held[p] = IF content[p] \in Owner THEN content[p] ELSE NULL
        BY DEF CountInv, Listed
      <4>3. OwnersIn(m)' = (OwnersIn(m) \ {held[p]}) \cup ({o} \ {NULL})
        BY <1>0, <1>1, <1>2, <4>2 DEF OwnersIn
      <4> QED
        BY <3>1, <3>3, <4>1, <4>3
    <3> QED
      BY <3>2, <3>3
  <2>2. \A q \in Part : partOf'[q] # NULL =>
          held'[q] = IF content'[q] \in Owner THEN content'[q] ELSE NULL
    <3>1. held'[p] = o /\ \A q \in Part : q # p => held'[q] = held[q]
      BY <1>0 DEF ReplaceOwner, TypeOK
    <3> QED
      BY <1>2, <3>1 DEF CountInv, Listed
  <2>3. \A y \in Mime : subs'[y] \subseteq Children[y]'
    <3> SUFFICES ASSUME NEW y \in Mime, NEW z \in subs'[y]
                 PROVE  z \in Children[y]'
      OBVIOUS
    <3>1. CASE z \in subs[y]
      <4>1. PICK q \in Part : home[q] = y /\ content[q] = z /\ z \in Mime
        BY <3>1, ChildrenType DEF CountInv, Listed
      <4>2. q # p
        BY <4>1
      <4> QED
        BY <1>1, <1>2, <4>1, <4>2 DEF Children, PartsOf
    <3>2. CASE z \notin subs[y]
      <4>1. y = m /\ z = x /\ x \in Mime
        BY <1>0, <3>2 DEF TypeOK
      <4> QED
        BY <1>0, <1>1, <1>2, <4>1 DEF Children, PartsOf
    <3> QED
      BY <3>1, <3>2
  <2>4. \A y \in Mime : \A z \in subs'[y] : status'[z] = "open" => curl'[z] = curl'[y]
    <3>1. \A y \in Mime : \A z \in subs'[y] :
            z \in subs[y] \/ (y = m /\ z = x /\ curl[x] = curl[m])
      BY <1>0 DEF TypeOK
    <3> QED
      BY <3>1 DEF CountInv, Listed
  <2> QED
    BY <2>1, <2>2, <2>3, <2>4 DEF Listed
<1> QED
  BY <1>4, <1>5, <1>6 DEF CountInv

LEMMA DataCount ==
    ASSUME CountInv, TreeInv', Uses = {}, NEW p \in Part, Data(p)
    PROVE  CountInv'
<1> PICK gained, o : gained = {} /\ o = NULL
  OBVIOUS
<1>1. /\ content[p] \notin Mime /\ partOf[p] # NULL
      /\ SetContent(p, NULL, gained) /\ ReplaceOwner(p, o)
      /\ UNCHANGED <<status, curl, partOf, subs, used>>
  BY DEF Data, Replaceable, PartReady, Outcomes, easies
<1>2. NULL \notin Owner /\ used' = used \cup gained
  BY <1>1, NullAssumption
<1> QED
  BY <1>1, <1>2, ContentCount

LEMMA DataCbCount ==
    ASSUME CountInv, TreeInv', Uses = {}, NEW p \in Part, NEW i \in Owner, DataCb(p, i)
    PROVE  CountInv'
<1> PICK gained, o : gained = {i} /\ o = i
  OBVIOUS
<1>1. /\ content[p] \notin Mime /\ partOf[p] # NULL /\ i \notin used
      /\ SetContent(p, i, gained) /\ ReplaceOwner(p, o)
      /\ used' = used \cup gained
      /\ UNCHANGED <<status, curl, partOf, subs>>
  BY DEF DataCb, Replaceable, PartReady, easies
<1>2. gained = {i} \cap Owner
  OBVIOUS
<1> QED
  BY <1>1, <1>2, ContentCount

LEMMA SubpartsCount ==
    ASSUME CountInv, TreeInv', Uses = {}, NEW p \in Part, NEW s \in Mime, Subparts(p, s)
    PROVE  CountInv'
<1> PICK gained, o : gained = {} /\ o = NULL
  OBVIOUS
<1>0. "replace" \notin Uses /\ "fail" \notin Uses /\ TypeOK /\ s \notin Owner
  BY KindsAssumption DEF CountInv, TreeInv
<1>1. /\ content[p] \notin Mime /\ partOf[p] # NULL
      /\ SetContent(p, s, gained) /\ ReplaceOwner(p, o)
      /\ subs' = [subs EXCEPT ![partOf[p]] = subs[partOf[p]] \cup {s}]
      /\ UNCHANGED <<status, curl, partOf, used>>
      /\ curl[s] = curl[partOf[p]]
  BY <1>0, SubpartsFacts DEF Attachable
<1>2. gained = {s} \cap Owner /\ used' = used \cup gained
  BY <1>0, <1>1
<1> QED
  BY <1>0, <1>1, <1>2, ContentCount

\* The owners in the tree that goes are freed once each; a wrapper that goes
\* without its tree has none.
LEMMA CloseCount ==
    ASSUME CountInv, TreeInv', Uses = {}, NEW m \in Mime, CloseMime(m)
    PROVE  CountInv'
<1> PICK W : W = WrapperTree(m)
  OBVIOUS
<1> PICK gone : gone = IF owns[m] THEN LibTree(m) ELSE {}
  OBVIOUS
<1> PICK lost \in SUBSET Owner :
      lost = {o \in Owner : \E p \in Part : home[p] \in gone /\ content[p] = o}
  OBVIOUS
<1>0. TypeOK /\ TreeInv /\ NULL \notin Owner /\ NULL \notin Mime /\ Mime \cap Owner = {}
      /\ Curl \cap Part = {}
  BY NullAssumption, KindsAssumption DEF CountInv, TreeInv
<1>1. /\ W \subseteq Mime /\ m \in W /\ \A x \in W : subs[x] \subseteq W
      /\ gone \subseteq Mime /\ \A x \in gone : status[x] = "open" => x \in W
  BY <1>0, TreeFacts
<1>2. /\ status' = [x \in Mime |-> IF x \in W THEN "closed" ELSE status[x]]
      /\ curl' = [x \in Mime |-> IF x \in W THEN NULL ELSE curl[x]]
      /\ subs' = [x \in Mime |-> IF x \in W THEN {} ELSE subs[x]]
      /\ owners' = [x \in Mime |-> IF x \in W THEN {} ELSE owners[x]]
      /\ partOf' = [p \in Part |-> IF partOf[p] \in W THEN NULL ELSE partOf[p]]
      /\ held' = [p \in Part |-> IF partOf[p] \in W THEN NULL ELSE held[p]]
  BY DEF CloseMime, Invalidate
<1>3. /\ home' = [p \in Part |-> IF home[p] \in gone THEN NULL ELSE home[p]]
      /\ content' = [p \in Part |-> IF home[p] \in gone THEN NULL ELSE content[p]]
      /\ UNCHANGED <<copy, used>>
  BY DEF CloseMime, FreeTrees
<1>4. Count({}, lost)
  <2>1. lost = {content[p] : p \in PartsOf(gone)} \cap Owner
    BY DEF PartsOf
  <2> QED
    BY <2>1 DEF CloseMime
<1>5. owns[m] \/ \A x \in W : owners[x] = {}
  <2>1. owns[m] \/ ListedOwners(m) = {}
    BY DEF CloseMime
  <2> QED
    BY <2>1 DEF ListedOwners
<1>6. owns[m] => W \subseteq gone
  <2> SUFFICES ASSUME owns[m] PROVE WrapperTree(m) \subseteq LibTree(m)
    OBVIOUS
  <2> PICK T : T = LibTree(m)
    OBVIOUS
  <2>1. m \in T /\ \A x \in T : Children[x] \subseteq T
    BY ClosureFacts, ChildrenType DEF LibTree
  <2>2. subs \in [Mime -> SUBSET Mime] /\ \A x \in T \cap Mime : subs[x] \subseteq T
    BY <1>0, <2>1 DEF CountInv, Listed, TypeOK
  <2> QED
    BY <2>1, <2>2, ClosureLeast DEF WrapperTree
<1>7. Counted({}, lost)
  <2>1. ASSUME NEW o \in lost
        PROVE  o \in used /\ \E t \in Trees(o) : Trees(o)' = Trees(o) \ {t}
    <3>1. PICK p \in Part : home[p] \in gone /\ content[p] = o
      BY <2>1
    <3>2. \A q \in Part : content[q] = o => q = p
      BY <3>1 DEF CountInv, Single
    <3>3. o \in used /\ p \in Trees(o)
      BY <3>1 DEF CountInv, Single, Trees
    <3>4. Trees(o)' = Trees(o) \ {p}
      BY <1>0, <1>3, <3>1, <3>2 DEF Trees
    <3> QED
      BY <3>3, <3>4
  <2>2. ASSUME NEW o \in Owner, o \notin lost
        PROVE  Trees(o)' = Trees(o)
    BY <1>0, <1>3, <2>2 DEF Trees
  <2> QED
    BY <1>3, <1>4, <2>1, <2>2 DEF Counted
<1>8. CountIsExact' /\ FreeOnLast' /\ freed' \subseteq used'
  BY <1>7, CountStep
<1>9. Single'
  <2>1. \A q \in Part : content'[q] \in Owner => content'[q] = content[q]
    BY <1>0, <1>3
  <2> QED
    BY <1>3, <1>8, <2>1 DEF CountInv, Single
<1>10. Listed'
  <2>1. \A y \in Mime : owners'[y] = OwnersIn(y)'
    <3> SUFFICES ASSUME NEW y \in Mime PROVE owners'[y] = OwnersIn(y)'
      OBVIOUS
    <3>1. owners[y] = OwnersIn(y)
      BY DEF CountInv, Listed
    <3>2. OwnersIn(y)' = IF y \in gone THEN {} ELSE OwnersIn(y)
      BY <1>0, <1>3 DEF OwnersIn
    <3>3. CASE y \in W
      BY <1>2, <1>5, <1>6, <3>1, <3>2, <3>3
    <3>4. CASE y \notin W
      <4>1. y \in gone => owners[y] = {}
        BY <1>0, <1>1, <3>4 DEF TreeInv, Wrappers
      <4> QED
        BY <1>2, <3>1, <3>2, <3>4, <4>1
    <3> QED
      BY <3>3, <3>4
  <2>2. ASSUME NEW q \in Part, partOf'[q] # NULL
        PROVE  held'[q] = IF content'[q] \in Owner THEN content'[q] ELSE NULL
    <3>1. /\ partOf[q] # NULL /\ partOf[q] \notin W /\ home[q] = partOf[q]
          /\ status[home[q]] = "open" /\ held'[q] = held[q]
      BY <1>2, <2>2, <1>0 DEF TreeInv, Parts
    <3>2. content'[q] = content[q]
      BY <1>1, <1>3, <3>1
    <3> QED
      BY <3>1, <3>2 DEF CountInv, Listed
  <2>3. ASSUME NEW y \in Mime, NEW z \in subs'[y]
        PROVE  z \in Children[y]' /\ (status'[z] = "open" => curl'[z] = curl'[y])
    <3>1. y \notin W /\ z \in subs[y] /\ status[y] = "open" /\ z \in Mime
      BY <1>0, <1>2, <2>3 DEF TreeInv, Wrappers, TypeOK
    <3>2. PICK q \in Part : home[q] = y /\ content[q] = z
      BY <3>1, ChildrenType DEF CountInv, Listed
    <3>3. home'[q] = y /\ content'[q] = z
      BY <1>1, <1>3, <3>1, <3>2
    <3>4. status'[z] = "open" => curl'[z] = curl'[y]
      BY <1>2, <3>1 DEF CountInv, Listed
    <3> QED
      BY <3>1, <3>3, <3>4 DEF Children, PartsOf
  <2> QED
    BY <2>1, <2>2, <2>3 DEF Listed
<1> QED
  BY <1>8, <1>9, <1>10 DEF CountInv

LEMMA CountInvStep ==
    ASSUME CountInv, Uses = {}, [Next]_vars
    PROVE  CountInv'
<1>0. TreeInv'
  BY TreeStep DEF CountInv
<1>1. ASSUME NEW c \in Curl, NewCurl(c) \/ Perform(c) \/ PerformEnd(c)
      PROVE  CountInv'
  <2>1. UNCHANGED <<wrappers, trees, counts>>
    BY <1>1 DEF NewCurl, Perform, PerformEnd
  <2>2. Listed'
    BY <2>1 DEF wrappers, trees, CountInv, Listed, OwnersIn, Children, PartsOf
  <2> QED
    BY <1>0, <2>1, <2>2, QuietCount DEF trees, CountInv
<1>2. ASSUME NEW c \in Curl, NEW m \in Mime, SetMimepost(c, m)
      PROVE  CountInv'
  BY <1>0, <1>2, UnpostCount DEF SetMimepost
<1>3. ASSUME NEW c \in Curl, UnsetMimepost(c) \/ CloseCurl(c)
      PROVE  CountInv'
  BY <1>0, <1>3, UnpostCount DEF UnsetMimepost, CloseCurl
<1>4. CASE UNCHANGED vars
  <2>1. UNCHANGED <<wrappers, trees, counts>>
    BY <1>4 DEF vars
  <2>2. Listed'
    BY <2>1 DEF wrappers, trees, CountInv, Listed, OwnersIn, Children, PartsOf
  <2> QED
    BY <1>0, <2>1, <2>2, QuietCount DEF trees, CountInv
<1> QED
  BY <1>0, <1>1, <1>2, <1>3, <1>4, DuphandleCount, NewMimeCount, AddPartCount,
     AddMultipartCount, DataCount, DataCbCount, SubpartsCount, CloseCount
     DEF Next, Add, Filedata

LEMMA InitCount == Init => CountInv
<1> SUFFICES ASSUME Init PROVE CountInv
  OBVIOUS
<1>1. NULL \notin Owner /\ NULL \notin Mime
  BY NullAssumption
<1>2. \A o \in Owner : Trees(o) = {}
  BY <1>1 DEF Init, Trees
<1>3. Cardinality({}) = 0
  BY FS_EmptySet
<1>4. CountIsExact /\ FreeOnLast
  BY <1>2, <1>3 DEF Init, CountIsExact, FreeOnLast
<1>5. Listed
  BY <1>1 DEF Init, Listed, OwnersIn
<1>6. Single
  BY <1>1 DEF Init, Single
<1> QED
  BY <1>4, <1>5, <1>6, InitTree DEF CountInv

\* Wrappers and trees list the same owners, and each owner is counted, for a
\* program without any of the special uses.
THEOREM CountsFollowed ==
    ASSUME Uses = {}
    PROVE  Spec => []CountInv
<1>1. Init => CountInv
  BY InitCount
<1>2. CountInv /\ [Next]_vars => CountInv'
  BY CountInvStep
<1> QED
  BY <1>1, <1>2, PTL DEF Spec

\* CountIsExact: shared_refcount is the number of trees, the easies' own copies
\* among them, that will call the free function of the owner.
THEOREM CountsExact ==
    ASSUME Uses = {}
    PROVE  Spec => []CountIsExact
<1>1. CountInv => CountIsExact
  BY DEF CountInv
<1> QED
  BY <1>1, CountsFollowed, PTL

\* FreeOnLast: the free callback has run exactly when no tree holds the owner.
THEOREM FreedOnLast ==
    ASSUME Uses = {}
    PROVE  Spec => []FreeOnLast
<1>1. CountInv => FreeOnLast
  BY DEF CountInv
<1> QED
  BY <1>1, CountsFollowed, PTL

-----------------------------------------------------------------------------
(* The tree of a running easy *)

\* All open wrappers of a wrapper tree have the easy of its root.
LEMMA TreeHasOneCurl ==
    ASSUME CountInv, NEW x \in Mime, NEW y \in WrapperTree(x), status[y] = "open"
    PROVE  curl[y] = curl[x]
<1> DEFINE S == {z \in Mime : status[z] = "open" => curl[z] = curl[x]}
<1>0. subs \in [Mime -> SUBSET Mime]
  BY DEF CountInv, TreeInv, TypeOK
<1>1. ASSUME NEW z \in S, NEW s \in subs[z], status[s] = "open"
      PROVE  curl[s] = curl[x]
  <2>1. status[z] = "open"
    BY <1>1 DEF CountInv, TreeInv, Wrappers
  <2> QED
    BY <1>1, <2>1 DEF CountInv, Listed
<1>2. x \in S /\ \A z \in S \cap Mime : subs[z] \subseteq S
  BY <1>0, <1>1
<1> HIDE DEF S
<1>3. WrapperTree(x) \subseteq S
  BY <1>0, <1>2, ClosureLeast DEF WrapperTree
<1> QED
  BY <1>3 DEF S

\* A step changes what is listed at open wrappers of idle easies only.
IdleOnly == \A y \in Mime :
    subs'[y] # subs[y] \/ owners'[y] # owners[y] => status[y] = "open" /\ curl[y] \notin running

\* That includes close(), which looks at the easy of the root only.
LEMMA IdleStep ==
    ASSUME CountInv, Uses = {}, [Next]_vars
    PROVE  IdleOnly
<1>0. TypeOK /\ TreeInv
  BY DEF CountInv, TreeInv
<1>1. ASSUME UNCHANGED <<subs, owners>>
      PROVE  IdleOnly
  BY <1>1 DEF IdleOnly
<1>2. ASSUME NEW c \in Curl, NewCurl(c) \/ Perform(c) \/ PerformEnd(c)
                              \/ UnsetMimepost(c) \/ CloseCurl(c)
      PROVE  IdleOnly
  BY <1>1, <1>2 DEF NewCurl, Perform, PerformEnd, UnsetMimepost, CloseCurl, Unpost, wrappers
<1>3. ASSUME NEW c \in Curl, NEW d \in Curl, Duphandle(c, d)
      PROVE  IdleOnly
  BY <1>1, <1>3 DEF Duphandle, wrappers
<1>4. ASSUME NEW c \in Curl, NEW m \in Mime, NewMime(m, c) \/ SetMimepost(c, m)
      PROVE  IdleOnly
  BY <1>1, <1>4 DEF NewMime, SetMimepost, Unpost, wrappers
<1>5. ASSUME NEW m \in Mime, NEW p \in Part, AddPart(m, p)
      PROVE  IdleOnly
  BY <1>1, <1>5 DEF AddPart
<1>6. ASSUME NEW m \in Mime, NEW s \in Mime, NEW p \in Part, AddMultipart(m, p, s)
      PROVE  IdleOnly
  BY <1>0, <1>6 DEF AddMultipart, Ready, IdleOnly, TypeOK
<1>7. ASSUME NEW p \in Part, PartReady(p), NEW o, ReplaceOwner(p, o) \/ UNCHANGED owners,
             NEW S, subs' = subs \/ subs' = [subs EXCEPT ![partOf[p]] = S]
      PROVE  IdleOnly
  BY <1>0, <1>7 DEF PartReady, Ready, ReplaceOwner, IdleOnly, TypeOK
<1>8. ASSUME NEW p \in Part, Data(p)
      PROVE  IdleOnly
  <2>1. PartReady(p) /\ ReplaceOwner(p, NULL) /\ subs' = subs
    BY <1>8 DEF Data, Outcomes
  <2> QED
    BY <1>7, <2>1
<1>9. ASSUME NEW p \in Part, NEW o \in Owner, DataCb(p, o)
      PROVE  IdleOnly
  <2>1. PartReady(p) /\ ReplaceOwner(p, o) /\ subs' = subs
    BY <1>9 DEF DataCb
  <2> QED
    BY <1>7, <2>1
<1>10. ASSUME NEW p \in Part, NEW s \in Mime, Subparts(p, s)
       PROVE  IdleOnly
  <2>1. /\ PartReady(p) /\ ReplaceOwner(p, NULL)
        /\ subs' = [subs EXCEPT ![partOf[p]] = subs[partOf[p]] \cup {s}]
    BY <1>0, <1>10, SubpartsFacts
  <2> QED
    BY <1>7, <2>1
<1>11. ASSUME NEW m \in Mime, CloseMime(m)
       PROVE  IdleOnly
  <2> SUFFICES ASSUME NEW y \in Mime, subs'[y] # subs[y] \/ owners'[y] # owners[y]
               PROVE  status[y] = "open" /\ curl[y] \notin running
    BY DEF IdleOnly
  <2>1. /\ subs' = [x \in Mime |-> IF x \in WrapperTree(m) THEN {} ELSE subs[x]]
        /\ owners' = [x \in Mime |-> IF x \in WrapperTree(m) THEN {} ELSE owners[x]]
        /\ curl[m] \notin running
    BY <1>11 DEF CloseMime, Invalidate
  <2>2. y \in WrapperTree(m) /\ status[y] = "open"
    BY <1>0, <2>1 DEF TreeInv, Wrappers
  <2> QED
    BY <2>1, <2>2, TreeHasOneCurl
<1>12. CASE UNCHANGED vars
  BY <1>1, <1>12 DEF vars, wrappers
<1> QED
  BY <1>2, <1>3, <1>4, <1>5, <1>6, <1>8, <1>9, <1>10, <1>11, <1>12 DEF Next, Add, Filedata

\* No step changes which tree a running easy sends.
LEMMA PostsKept ==
    ASSUME TreeInv, "replace" \notin Uses, [Next]_vars, NEW c \in running
    PROVE  posts'[c] = posts[c] /\ copy'[c] = copy[c]
<1>0. TypeOK /\ c \in Curl /\ handle[c] = "open"
  BY DEF TreeInv, Posts, TypeOK
<1>1. ASSUME NEW d \in Curl, NewCurl(d) \/ Perform(d) \/ PerformEnd(d)
      PROVE  UNCHANGED <<posts, copy>>
  BY <1>1 DEF NewCurl, Perform, PerformEnd, trees
<1>2. ASSUME NEW d \in Curl, UnsetMimepost(d) \/ CloseCurl(d)
      PROVE  posts'[c] = posts[c] /\ copy'[c] = copy[c]
  BY <1>0, <1>2 DEF UnsetMimepost, CloseCurl, Unpost, Ready, TypeOK
<1>3. ASSUME NEW d \in Curl, NEW m \in Mime, SetMimepost(d, m)
      PROVE  posts'[c] = posts[c] /\ copy'[c] = copy[c]
  BY <1>0, <1>3 DEF SetMimepost, Unpost, Ready, TypeOK
<1>4. ASSUME NEW e \in Curl, NEW d \in Curl, Duphandle(e, d)
      PROVE  posts'[c] = posts[c] /\ copy'[c] = copy[c]
  BY <1>0, <1>4 DEF Duphandle, TypeOK
<1>5. ASSUME NEW d \in Curl, NEW m \in Mime, NewMime(m, d)
      PROVE  UNCHANGED <<posts, copy>>
  BY <1>5 DEF NewMime
<1>6. ASSUME NEW m \in Mime, NEW s \in Mime, NEW p \in Part,
             AddPart(m, p) \/ AddMultipart(m, p, s)
      PROVE  UNCHANGED <<posts, copy>>
  BY <1>6 DEF AddPart, AddMultipart
<1>7. ASSUME NEW p \in Part, NEW o \in Owner, Data(p) \/ DataCb(p, o)
      PROVE  UNCHANGED <<posts, copy>>
  BY <1>7 DEF Data, DataCb, SetContent
<1>8. ASSUME NEW p \in Part, NEW s \in Mime, Subparts(p, s)
      PROVE  UNCHANGED <<posts, copy>>
  BY <1>8 DEF Subparts, SetContent
<1>9. ASSUME NEW m \in Mime, CloseMime(m)
      PROVE  posts'[c] = posts[c] /\ copy'[c] = copy[c]
  BY <1>0, <1>9 DEF CloseMime, Unpin, TypeOK
<1>10. CASE UNCHANGED vars
  BY <1>10 DEF vars, trees
<1>11. ASSUME NEW p \in Part, Data(p)
       PROVE  UNCHANGED <<posts, copy>>
  BY <1>11 DEF Data, SetContent
<1>12. ASSUME NEW m \in Mime, NEW p \in Part, AddPart(m, p)
       PROVE  UNCHANGED <<posts, copy>>
  BY <1>12 DEF AddPart
<1> QED
  BY <1>1, <1>2, <1>3, <1>4, <1>5, <1>6, <1>7, <1>8, <1>9, <1>10, <1>11, <1>12
     DEF Next, Add, Filedata

\* What a wrapper tree lists changes only with one of its wrappers.
LEMMA SameLists ==
    ASSUME TypeOK, TypeOK', NEW x \in Mime,
           \A y \in WrapperTree(x) : subs'[y] = subs[y] /\ owners'[y] = owners[y]
    PROVE  ListedOwners(x)' = ListedOwners(x)
<1> PICK next, next2 : next = subs /\ next2 = subs'
  OBVIOUS
<1> PICK W : W = Closure(next, x)
  OBVIOUS
<1>1. next \in [Mime -> SUBSET Mime] /\ next2 \in [Mime -> SUBSET Mime]
  BY DEF TypeOK
<1>2. W = WrapperTree(x) /\ WrapperTree(x)' = Closure(next2, x)
  BY DEF WrapperTree, Closure
<1>3. Closure(next2, x) = W
  <2>1. \A y \in Closure(next, x) : next2[y] = next[y]
    BY <1>2
  <2> QED
    BY <1>1, <2>1, ClosureSame
<1> QED
  BY <1>2, <1>3 DEF ListedOwners

\* RunningTreeKept: neither the easy's own copy nor any mime, part or owner of
\* the tree it sends changes while it is inside perform(), although the guard
\* of each call looks at the easy of one wrapper only.
THEOREM TreeKept ==
    ASSUME Uses = {}
    PROVE  Spec => RunningTreeKept
<1>a. CountInv => \A m \in Mime : LibOwners(m) = ListedOwners(m)
  BY OwnersAgree
<1>b. CountInv' => (\A m \in Mime : LibOwners(m) = ListedOwners(m))'
  BY <1>a, PTL
<1>1. ASSUME CountInv, [Next]_vars
      PROVE  \A c \in running \cap running' : Sent(c)' = Sent(c)
  <2> SUFFICES ASSUME NEW c \in running
               PROVE  Sent(c)' = Sent(c)
    OBVIOUS
  <2>0. CountInv' /\ TypeOK /\ TypeOK' /\ TreeInv
    <3>1. CountInv'
      BY <1>1, CountInvStep
    <3> QED
      BY <1>1, <3>1 DEF CountInv, TreeInv
  <2>1. posts'[c] = posts[c] /\ copy'[c] = copy[c] /\ c \in Curl
    BY <1>1, <2>0, PostsKept DEF TypeOK
  <2>2. CASE posts[c] = NULL
    BY <2>1, <2>2 DEF Sent
  <2>3. CASE posts[c] # NULL
    <3> PICK x \in Mime : x = posts[c]
      BY <2>0, <2>1, <2>3 DEF TypeOK
    <3>1. curl[x] = c
      BY <2>0, <2>1, <2>3 DEF TreeInv, Posts
    <3>2. \A y \in WrapperTree(x) : subs'[y] = subs[y] /\ owners'[y] = owners[y]
      <4>1. IdleOnly /\ WrapperTree(x) \subseteq Mime
        BY <1>1, <2>0, IdleStep, TreeFacts
      <4> QED
        BY <1>1, <3>1, <4>1, TreeHasOneCurl DEF IdleOnly
    <3>3. ListedOwners(x)' = ListedOwners(x)
      BY <2>0, <3>2, SameLists
    <3>4. LibOwners(x) = ListedOwners(x)
      BY <1>1, <1>a
    <3>5. LibOwners(x)' = ListedOwners(x)'
      BY <1>b, <2>0
    <3>6. Sent(c) = LibOwners(x) /\ Sent(c)' = LibOwners(x)'
      BY <2>1, <2>3 DEF Sent
    <3> QED
      BY <3>3, <3>4, <3>5, <3>6
  <2> QED
    BY <2>2, <2>3
<1>2. CountInv /\ [Next]_vars => [\A c \in running \cap running' : Sent(c)' = Sent(c)]_vars
  BY <1>1
<1> QED
  BY <1>2, CountsFollowed, PTL DEF Spec, RunningTreeKept

=============================================================================
