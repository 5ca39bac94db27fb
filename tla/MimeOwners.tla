----------------------------- MODULE MimeOwners -----------------------------
(***************************************************************************)
(* CurlMime trees and the owners of their data callbacks (mime.c), with    *)
(* MIMEPOST and duphandle of the easies that send them (easyopt.c,         *)
(* easy.c).                                                                *)
(*                                                                         *)
(* There are two worlds.  libcurl has trees of curl_mime and curl_mimepart *)
(* (lives, home, content) and, in an easy, either a pointer to a tree      *)
(* (posts) or a deep copy of its own that curl_easy_duphandle made (copy). *)
(* pycurl has wrappers (status .. held) that must follow those trees, and  *)
(* for every data_cb() an owner object that libcurl knows as an untyped    *)
(* argument.  libcurl calls the free function once per tree that holds     *)
(* that argument; shared_refcount (refs) counts those calls in advance, so *)
(* that the program's free callback runs on the last one.                  *)
(*                                                                         *)
(* An owner is used for one data_cb() call, a CurlMime for one object, a   *)
(* Part for one addpart().  Names, types, headers, encoders and plain data *)
(* do not matter to the owners: they are all the content NULL.             *)
(***************************************************************************)
EXTENDS Naturals, FiniteSets

CONSTANTS
    Curl,       \* easy handles
    Mime,       \* CurlMime objects, and the curl_mime each one made
    Part,       \* CurlMimePart objects, and the curl_mimepart each one made
    Owner,      \* CurlMimeDataCbOwner objects
    NULL,
    Uses        \* call sequences that the code accepts and does not handle

(***************************************************************************)
(*   "chain"    duphandle() of a duplicate whose original's mime was       *)
(*              changed or closed since                                    *)
(*   "child"    close() of a mime with owners that is attached by          *)
(*              subparts()                                                 *)
(*   "replace"  new content for a part that has subparts                   *)
(*   "fail"     data() or filedata() fails on a part that has a callback   *)
(*              or subparts, when libcurl has dropped the old content      *)
(***************************************************************************)
UseKinds == {"chain", "child", "replace", "fail"}

ASSUME NullAssumption == NULL \notin Curl \cup Mime \cup Part \cup Owner
ASSUME KindsAssumption ==
    /\ Uses \subseteq UseKinds
    /\ Mime \cap Owner = {} /\ Curl \cap Part = {}
    /\ IsFiniteSet(Curl) /\ IsFiniteSet(Part)

VARIABLES
    handle,     \* [Curl -> {"new", "open", "closed"}]: CurlObject.handle
    running,    \* the easies inside perform()
    mimepost,   \* [Curl -> Mime or NULL]: CurlObject.mimepost_obj
    posts,      \* [Curl -> Mime or NULL]: the tree MIMEPOST points to
    copy,       \* [Curl -> SUBSET Owner]: arguments in the easy's own copy
    status,     \* [Mime -> {"new", "open", "closed"}]: CurlMimeObject.mime
    curl,       \* [Mime -> Curl or NULL]: CurlMimeObject.curl
    owns,       \* [Mime -> BOOLEAN]: owns_mime
    subs,       \* [Mime -> SUBSET Mime]: submimes
    owners,     \* [Mime -> SUBSET Owner]: data_cb_owners
    partOf,     \* [Part -> Mime or NULL]: CurlMimePartObject.mime
    held,       \* [Part -> Owner or NULL]: data_cb_owner
    lives,      \* the curl_mimes that are not freed
    home,       \* [Part -> Mime or NULL]: the curl_mime a part is in
    content,    \* [Part -> Owner or Mime or NULL]: what libcurl would send
    used,       \* the owners some data_cb() has made
    refs,       \* [Owner -> Nat]: shared_refcount
    freed       \* the owners with free_called set

easies == <<handle, running, mimepost>>
wrappers == <<status, curl, owns, subs, owners, partOf, held>>
trees == <<posts, copy, lives, home, content>>
counts == <<used, refs, freed>>
vars == <<easies, wrappers, trees, counts>>

Init ==
    /\ handle = [c \in Curl |-> "new"]
    /\ running = {}
    /\ mimepost = [c \in Curl |-> NULL]
    /\ posts = [c \in Curl |-> NULL]
    /\ copy = [c \in Curl |-> {}]
    /\ status = [m \in Mime |-> "new"]
    /\ curl = [m \in Mime |-> NULL]
    /\ owns = [m \in Mime |-> FALSE]
    /\ subs = [m \in Mime |-> {}]
    /\ owners = [m \in Mime |-> {}]
    /\ partOf = [p \in Part |-> NULL]
    /\ held = [p \in Part |-> NULL]
    /\ lives = {}
    /\ home = [p \in Part |-> NULL]
    /\ content = [p \in Part |-> NULL]
    /\ used = {}
    /\ refs = [o \in Owner |-> 0]
    /\ freed = {}

-----------------------------------------------------------------------------
(* Trees.                                                                  *)

(* m and everything reached from it along next \in [Mime -> SUBSET Mime]:  *)
(* what is in every set that has m and is closed under next.               *)
Closure(next, m) ==
    {x \in Mime : \A S \in SUBSET Mime :
                    m \in S /\ (\A y \in S : next[y] \subseteq S) => x \in S}

PartsOf(M) == {p \in Part : home[p] \in M}
Children == [m \in Mime |-> {content[p] : p \in PartsOf({m})} \cap Mime]

(* What libcurl has below m, what pycurl believes is below m.              *)
LibTree(m) == Closure(Children, m)
LibOwners(m) == {content[p] : p \in PartsOf(LibTree(m))} \cap Owner

(* bug: only the wrapper itself *)
WrapperTreeFlat(m) == {m}
WrapperTree(m) == Closure(subs, m)

(* bug: the owners of the mime itself only *)
ListedOwnersFlat(m) == owners[m]
ListedOwners(m) == UNION {owners[x] : x \in WrapperTree(m)}

(* The arguments in the tree that an easy sends.                           *)
Sent(c) == IF posts[c] = NULL THEN copy[c] ELSE LibOwners(posts[c])

(* bug: the free callback runs on the first of the calls *)
CountEager(gained, lost) ==
    LET dropped == {o \in lost : refs[o] > 0}
    IN  /\ refs' = [o \in Owner |-> IF o \in gained THEN refs[o] + 1
                                    ELSE IF o \in dropped THEN refs[o] - 1
                                    ELSE refs[o]]
        /\ freed' = freed \cup dropped

(* pycurl adds a reference to every owner in gained, libcurl calls the     *)
(* free function of every one in lost.  The count that reaches zero runs   *)
(* the program's free callback; a count at zero is left alone.             *)
Count(gained, lost) ==
    LET dropped == {o \in lost : refs[o] > 0}
    IN  /\ refs' = [o \in Owner |-> IF o \in gained THEN refs[o] + 1
                                    ELSE IF o \in dropped THEN refs[o] - 1
                                    ELSE refs[o]]
        /\ freed' = freed \cup {o \in dropped : refs[o] = 1}

(* libcurl frees the trees M with all their parts.                         *)
FreeTrees(M) ==
    /\ lives' = lives \ M
    /\ home' = [p \in Part |-> IF home[p] \in M THEN NULL ELSE home[p]]

(* libcurl replaces the content of p: what p held before is freed.         *)
SetContent(p, x, gained) ==
    LET gone == IF content[p] \in Mime THEN LibTree(content[p]) ELSE {}
    IN  /\ FreeTrees(gone)
        /\ content' = [q \in Part |-> IF q = p THEN x
                                      ELSE IF home[q] \in gone THEN NULL
                                      ELSE content[q]]
        /\ Count(gained, {content[q] : q \in PartsOf(gone) \cup {p}} \cap Owner)
        /\ UNCHANGED <<posts, copy>>

(* check_curl_state(PYCURL_REQUIRE_HANDLE | PYCURL_REQUIRE_NOT_RUNNING)    *)
Ready(c) == c # NULL /\ handle[c] = "open" /\ c \notin running

(* bug: a part may be changed while its easy runs *)
PartReadyRunning(p) ==
    partOf[p] # NULL /\ status[partOf[p]] = "open" /\ handle[curl[partOf[p]]] = "open"
PartReady(p) == partOf[p] # NULL /\ status[partOf[p]] = "open" /\ Ready(curl[partOf[p]])

(* What a call may return.                                                 *)
Outcomes == {TRUE} \cup IF "fail" \in Uses THEN {FALSE} ELSE {}
Replaceable(p) == "replace" \in Uses \/ content[p] \notin Mime

-----------------------------------------------------------------------------
(* Easy handles.                                                           *)

NewCurl(c) ==
    /\ handle[c] = "new"
    /\ handle' = [handle EXCEPT ![c] = "open"]
    /\ UNCHANGED <<running, mimepost, wrappers, trees, counts>>

Perform(c) ==
    /\ Ready(c)
    /\ running' = running \cup {c}
    /\ UNCHANGED <<handle, mimepost, wrappers, trees, counts>>

PerformEnd(c) ==
    /\ c \in running
    /\ running' = running \ {c}
    /\ UNCHANGED <<handle, mimepost, wrappers, trees, counts>>

(* libcurl forgets the tree of c, and frees it if it is c's own copy.      *)
Unpost(c, ref) ==
    /\ copy' = [copy EXCEPT ![c] = {}]
    /\ Count({}, copy[c])
    /\ mimepost' = [mimepost EXCEPT ![c] = ref]
    /\ UNCHANGED <<running, wrappers, lives, home, content, used>>

SetMimepost(c, m) ==
    /\ Ready(c)
    /\ status[m] = "open" /\ owns[m] /\ curl[m] = c
    /\ posts' = [posts EXCEPT ![c] = m]
    /\ Unpost(c, m)
    /\ UNCHANGED handle

(* unsetopt(MIMEPOST), setopt(HTTPPOST) and reset().                       *)
UnsetMimepost(c) ==
    /\ Ready(c)
    /\ posts' = [posts EXCEPT ![c] = NULL]
    /\ Unpost(c, NULL)
    /\ UNCHANGED handle

CloseCurl(c) ==
    /\ Ready(c)
    /\ handle' = [handle EXCEPT ![c] = "closed"]
    /\ posts' = [posts EXCEPT ![c] = NULL]
    /\ Unpost(c, NULL)

(* libcurl copies the tree the handle sends; pycurl counts the owners that *)
(* the wrapper it remembers lists at this moment.                          *)
Duphandle(c, d) ==
    LET listed == IF mimepost[c] = NULL THEN {} ELSE ListedOwners(mimepost[c])
    IN  /\ handle[c] = "open" /\ handle[d] = "new"
        /\ "chain" \in Uses \/ posts[c] # NULL \/ copy[c] = listed
        /\ handle' = [handle EXCEPT ![d] = "open"]
        /\ copy' = [copy EXCEPT ![d] = Sent(c)]
        /\ mimepost' = [mimepost EXCEPT ![d] = mimepost[c]]
        /\ Count(listed, {})
        /\ UNCHANGED <<running, wrappers, posts, lives, home, content, used>>

-----------------------------------------------------------------------------
(* Mimes and parts.                                                        *)

NewMime(m, c) ==
    /\ status[m] = "new" /\ Ready(c)
    /\ status' = [status EXCEPT ![m] = "open"]
    /\ curl' = [curl EXCEPT ![m] = c]
    /\ owns' = [owns EXCEPT ![m] = TRUE]
    /\ lives' = lives \cup {m}
    /\ UNCHANGED <<easies, subs, owners, partOf, held, posts, copy, home, content, counts>>

AddPart(m, p) ==
    /\ status[m] = "open" /\ Ready(curl[m])
    /\ home[p] = NULL /\ partOf[p] = NULL
    /\ home' = [home EXCEPT ![p] = m]
    /\ partOf' = [partOf EXCEPT ![p] = m]
    /\ UNCHANGED <<easies, status, curl, owns, subs, owners, held>>
    /\ UNCHANGED <<posts, copy, lives, content, counts>>

(* add(), add_field() and add_file(): a new part with plain content.  When *)
(* a later step fails the part stays in the tree, without content.         *)
Add(m, p) == AddPart(m, p)

(* add_multipart(): a new mime, a new part, and the mime as its subparts.  *)
(* If the part cannot be named, the part stays and the mime is freed.      *)
AddMultipart(m, p, s) ==
    /\ status[m] = "open" /\ status[s] = "new" /\ Ready(curl[m])
    /\ home[p] = NULL /\ partOf[p] = NULL
    /\ home' = [home EXCEPT ![p] = m]
    /\ partOf' = [partOf EXCEPT ![p] = m]
    /\ \/ /\ status' = [status EXCEPT ![s] = "open"]
          /\ curl' = [curl EXCEPT ![s] = curl[m]]
          /\ subs' = [subs EXCEPT ![m] = @ \cup {s}]
          /\ lives' = lives \cup {s}
          /\ content' = [content EXCEPT ![p] = s]
       \/ /\ status' = [status EXCEPT ![s] = "closed"]
          /\ UNCHANGED <<curl, subs, lives, content>>
    /\ UNCHANGED <<easies, owns, owners, held, posts, copy, counts>>

(* curlmimepart_drop_data_cb_owner: o takes the place of p's owner.        *)
ReplaceOwner(p, o) ==
    /\ owners' = [owners EXCEPT ![partOf[p]] = (@ \ {held[p]}) \cup ({o} \ {NULL})]
    /\ held' = [held EXCEPT ![p] = o]

Data(p) ==
    /\ PartReady(p) /\ Replaceable(p)
    /\ SetContent(p, NULL, {})
    /\ \E ok \in Outcomes : IF ok THEN ReplaceOwner(p, NULL) ELSE UNCHANGED <<owners, held>>
    /\ UNCHANGED <<easies, status, curl, owns, subs, partOf, used>>

(* The steps of data(), with a path; libcurl fails if it cannot read it.   *)
Filedata(p) == Data(p)

(* A refusal of curl_mime_data_cb takes the new owner out of the list and  *)
(* the count again, without the free callback: a step that changes nothing. *)
DataCb(p, o) ==
    /\ PartReady(p) /\ Replaceable(p)
    /\ o \notin used
    /\ used' = used \cup {o}
    /\ SetContent(p, o, {o})
    /\ ReplaceOwner(p, o)
    /\ UNCHANGED <<easies, status, curl, owns, subs, partOf>>

Attachable(s, m) ==
    /\ status[s] = "open" /\ curl[s] = curl[m] /\ s # m
    /\ owns[s] /\ mimepost[curl[s]] # s

(* libcurl refuses a mime that is the root of the part's own tree.         *)
Subparts(p, s) ==
    LET m == partOf[p]
        ok == m \notin LibTree(s)
    IN  /\ PartReady(p) /\ Replaceable(p)
        /\ Attachable(s, m)
        /\ ok \in Outcomes
        /\ SetContent(p, IF ok THEN s ELSE NULL, {})
        /\ IF ok THEN /\ subs' = [subs EXCEPT ![m] = @ \cup {s}]
                      /\ owns' = [owns EXCEPT ![s] = FALSE]
                      /\ ReplaceOwner(p, NULL)
                 ELSE UNCHANGED <<subs, owns, owners, held>>
        /\ UNCHANGED <<easies, status, curl, partOf, used>>

(* curlmime_detach_if_pinned: the easy stops sending m if it sends it.     *)
Unpin(m) ==
    LET c == curl[m]
        pinned == mimepost[c] = m
    IN  /\ mimepost' = IF pinned THEN [mimepost EXCEPT ![c] = NULL] ELSE mimepost
        /\ posts' = IF pinned THEN [posts EXCEPT ![c] = NULL] ELSE posts

(* The wrappers W and those of their parts point to nothing any more.      *)
Invalidate(W) ==
    /\ status' = [x \in Mime |-> IF x \in W THEN "closed" ELSE status[x]]
    /\ curl' = [x \in Mime |-> IF x \in W THEN NULL ELSE curl[x]]
    /\ owns' = [x \in Mime |-> owns[x] /\ x \notin W]
    /\ subs' = [x \in Mime |-> IF x \in W THEN {} ELSE subs[x]]
    /\ owners' = [x \in Mime |-> IF x \in W THEN {} ELSE owners[x]]
    /\ partOf' = [p \in Part |-> IF partOf[p] \in W THEN NULL ELSE partOf[p]]
    /\ held' = [p \in Part |-> IF partOf[p] \in W THEN NULL ELSE held[p]]

(* close(), dealloc and GC clear: the tree is freed by the wrapper that    *)
(* owns it; a mime attached as subparts stays in its parent's tree.        *)
CloseMime(m) ==
    LET gone == IF owns[m] THEN LibTree(m) ELSE {}
    IN  /\ status[m] = "open" /\ curl[m] \notin running
        /\ "child" \in Uses \/ owns[m] \/ ListedOwners(m) = {}
        /\ Unpin(m)
        /\ Invalidate(WrapperTree(m))
        /\ FreeTrees(gone)
        /\ content' = [p \in Part |-> IF home[p] \in gone THEN NULL ELSE content[p]]
        /\ Count({}, {content[p] : p \in PartsOf(gone)} \cap Owner)
        /\ UNCHANGED <<handle, running, copy, used>>

Next ==
    \/ \E c \in Curl : NewCurl(c) \/ Perform(c) \/ PerformEnd(c)
                       \/ UnsetMimepost(c) \/ CloseCurl(c)
    \/ \E c, d \in Curl : Duphandle(c, d)
    \/ \E c \in Curl, m \in Mime : NewMime(m, c) \/ SetMimepost(c, m)
    \/ \E m \in Mime, p \in Part : AddPart(m, p) \/ Add(m, p) \/ Subparts(p, m)
    \/ \E m, s \in Mime, p \in Part : AddMultipart(m, p, s)
    \/ \E p \in Part : Data(p) \/ Filedata(p)
    \/ \E p \in Part, o \in Owner : DataCb(p, o)
    \/ \E m \in Mime : CloseMime(m)

Spec == Init /\ [][Next]_vars

-----------------------------------------------------------------------------
(* Properties.                                                             *)

TypeOK ==
    /\ handle \in [Curl -> {"new", "open", "closed"}]
    /\ running \subseteq Curl
    /\ mimepost \in [Curl -> Mime \cup {NULL}]
    /\ posts \in [Curl -> Mime \cup {NULL}]
    /\ copy \in [Curl -> SUBSET Owner]
    /\ status \in [Mime -> {"new", "open", "closed"}]
    /\ curl \in [Mime -> Curl \cup {NULL}]
    /\ owns \in [Mime -> BOOLEAN]
    /\ subs \in [Mime -> SUBSET Mime]
    /\ owners \in [Mime -> SUBSET Owner]
    /\ partOf \in [Part -> Mime \cup {NULL}]
    /\ held \in [Part -> Owner \cup {NULL}]
    /\ lives \subseteq Mime
    /\ home \in [Part -> Mime \cup {NULL}]
    /\ content \in [Part -> Owner \cup Mime \cup {NULL}]
    /\ used \subseteq Owner /\ freed \subseteq Owner
    /\ refs \in [Owner -> Nat]

(* The trees that still hold o: they will call its free function.          *)
Trees(o) == {c \in Curl : o \in copy[c]} \cup {p \in Part : content[p] = o}

(* shared_refcount is the number of trees that will call the free function *)
(* of the owner (mime.c:150): no call underflows it, none goes missing.    *)
CountIsExact == \A o \in Owner : refs[o] = Cardinality(Trees(o))

(* The free callback has run exactly when no tree holds the owner any      *)
(* more: never while a transfer could still read through it, and never not *)
(* at all (easy.c:514).                                                    *)
FreeOnLast == \A o \in used : o \in freed <=> Trees(o) = {}

(* An open wrapper points to a tree that libcurl has not freed, a part     *)
(* wrapper to a part of that tree, and what MIMEPOST points to is kept by  *)
(* the easy and freed by its wrapper.                                      *)
OpenIsLive ==
    /\ \A m \in Mime : status[m] = "open" => m \in lives
    /\ \A p \in Part : partOf[p] # NULL => home[p] = partOf[p]
    /\ \A c \in Curl : posts[c] # NULL =>
          /\ posts[c] = mimepost[c] /\ curl[posts[c]] = c
          /\ posts[c] \in lives /\ owns[posts[c]]

(* No call changes the tree of an easy that is inside perform().           *)
RunningTreeKept == [][\A c \in running \cap running' : Sent(c)' = Sent(c)]_vars
=============================================================================
