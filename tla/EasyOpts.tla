------------------------------- MODULE EasyOpts -------------------------------
(***************************************************************************)
(* The options of an easy: what libcurl's handle points to and what the    *)
(* Curl object holds a reference to (easyopt.c; new, duphandle, reset,     *)
(* close and the collector's clear of easy.c).                             *)
(*                                                                         *)
(* libcurl copies most values.  It keeps a pointer to a list, to the bytes *)
(* of POSTFIELDS, to a form, a mime and a URL handle, and for a callback   *)
(* the C function and a pointer to the Curl object, which has to hold the  *)
(* callable that the function calls.                                       *)
(*                                                                         *)
(* Options of one kind are alike, so there is one of each: "list" stands   *)
(* for the ten list options.  Of the callbacks, "header" is one whose C    *)
(* function tests for a missing callable, "closesocket" one that does not, *)
(* and "ssl_ctx" is the function that set_ca_certs() installs.             *)
(***************************************************************************)
EXTENDS Naturals

CONSTANTS
    Easy,
    Obj,        \* lists, bytes, forms, mimes and URLs
    Field,      \* the options that keep a pointer
    NULL,
    Uses        \* what the program does that the code is not made for

(***************************************************************************)
(*   "finalizer"    the program's finalizers run, and call methods, while  *)
(*                  a setopt() replaces one value by another               *)
(*   "fail"         of the changes of one setopt() the first is made and a *)
(*                  later one fails: libcurl refuses it, or there is no    *)
(*                  memory for the object that would keep the value        *)
(*   "unset_other"  HTTPPOST is unset while a mime is set, or the reverse  *)
(*   "writeheader"  unsetopt(WRITEHEADER) with a header callback set       *)
(*   "live_socket"  the closesocket callable goes (unsetopt, reset, or the *)
(*                  collector's clear) before a connection made with it    *)
(***************************************************************************)
Bodies == {"postfields", "httppost", "mimepost"}
Copy == "copy"  \* libcurl's own copy of the bytes

ASSUME OptsAssumption ==
    /\ NULL \notin Easy \cup Obj \cup {Copy}
    /\ Copy \notin Obj
    /\ Bodies \subseteq Field
    /\ Field \subseteq {"list", "curlu"} \cup Bodies
    /\ Uses \subseteq {"finalizer", "fail", "unset_other", "writeheader", "live_socket"}

VARIABLES
    status, \* [Easy -> Status]
    ref,    \* [Easy -> [Field -> Obj or NULL]]: the references of the Curl object
    lib,    \* [Easy -> [Field -> Obj, Copy or NULL]]: libcurl's pointers
    cb,     \* [Easy -> SUBSET Slot]: the callables that are there
    fn,     \* [Easy -> SUBSET Slot]: the C functions libcurl would call
    data,   \* [Easy -> [Slot -> Easy or NULL]]: with which Curl object
    conn,   \* the easies with a live connection that has their closesocket function
    todo    \* [Easy -> Todo]: the rest of a method, while a finalizer runs

vars == <<status, ref, lib, cb, fn, data, conn, todo>>

Status == {"none", "open", "closed", "cleared"}
Slot == {"header", "closesocket", "ssl_ctx"}    \* the callbacks
NullTested == {"header"}

NoFields == [f \in Field |-> NULL]
NoData == [s \in Slot |-> NULL]

Nothing == [op |-> "none", to |-> NULL]
Todo == [op : {"none", "header", "closesocket", "postfields", "httppost", "reset"},
         to : Obj \cup {NULL}]

Init ==
    /\ status = [e \in Easy |-> "none"]
    /\ ref = [e \in Easy |-> NoFields]
    /\ lib = [e \in Easy |-> NoFields]
    /\ cb = [e \in Easy |-> {}]
    /\ fn = [e \in Easy |-> {}]
    /\ data = [e \in Easy |-> NoData]
    /\ conn = {}
    /\ todo = [e \in Easy |-> Nothing]

(* Python code runs: no method is half way, or a finalizer of one runs.    *)
Between == \A e \in Easy : todo[e] = Nothing
Runs == Between \/ "finalizer" \in Uses

(* check_curl_state(PYCURL_REQUIRE_HANDLE), which all but set_ca_certs()   *)
(* ask.                                                                    *)
Open(e) == Runs /\ status[e] = "open"

callbacks == <<cb, fn, data, conn>>

(* HTTPPOST and MIMEPOST replace each other in libcurl.                    *)
Other(f) == IF f = "httppost" THEN "mimepost" ELSE "httppost"
LibSet(e, f, o) ==
    lib' = [lib EXCEPT ![e] =
        [g \in Field |->
            IF g = f THEN o
            ELSE IF f \in {"httppost", "mimepost"} /\ g = Other(f) THEN NULL
            ELSE @[g]]]

-----------------------------------------------------------------------------
(* Options that keep a pointer.                                            *)

MayFail == IF "fail" \in Uses THEN BOOLEAN ELSE {FALSE}

(* do_curl_setopt_list, do_curl_setopt_curlurl: nothing changes when       *)
(* libcurl refuses.  A list that cannot be kept is unset again, and the    *)
(* old one stays referenced.                                               *)
SetObject(e, f, o) ==
    /\ Open(e) /\ f \in {"list", "curlu"}
    /\ \E unkept \in MayFail :
          IF unkept
          THEN f = "list" /\ LibSet(e, f, NULL) /\ UNCHANGED ref
          ELSE LibSet(e, f, o) /\ ref' = [ref EXCEPT ![e][f] = o]
    /\ UNCHANGED <<status, callbacks, todo>>

(* POSTFIELDS: the pointer; then the old bytes go, and the new ones are    *)
(* kept.                                                                   *)
SetPostfields(e, o) ==
    /\ Open(e) /\ todo[e] = Nothing
    /\ LibSet(e, "postfields", o)
    /\ ref' = [ref EXCEPT ![e]["postfields"] = NULL]
    /\ todo' = [todo EXCEPT ![e] = [op |-> "postfields", to |-> o]]
    /\ UNCHANGED <<status, callbacks>>

(* COPYPOSTFIELDS: libcurl copies the bytes; those of an earlier           *)
(* POSTFIELDS stay referenced.                                             *)
SetCopyPostfields(e) ==
    /\ Open(e)
    /\ LibSet(e, "postfields", Copy)
    /\ UNCHANGED <<status, ref, callbacks, todo>>

(* HTTPPOST: the mime is unset, which libcurl may refuse; the form is set, *)
(* which it may refuse too; the mime goes, and the new form replaces the   *)
(* old one.  The form is built of copies, and of buffers it refers to.     *)
SetHttppostDone(e, o) ==
    /\ LibSet(e, "httppost", o)
    /\ ref' = [ref EXCEPT ![e]["mimepost"] = NULL]
    /\ todo' = [todo EXCEPT ![e] = [op |-> "httppost", to |-> o]]

(* libcurl has given up the mime and refuses the form.                     *)
SetHttppostRefused(e) ==
    /\ ref[e]["mimepost"] # NULL
    /\ LibSet(e, "mimepost", NULL)
    /\ UNCHANGED <<ref, todo>>

(* The new form cannot be kept: it is unset and freed, the mime has gone,  *)
(* the old form stays referenced.                                          *)
SetHttppostUnkept(e, o) ==
    /\ LibSet(e, "httppost", NULL)
    /\ ref' = [ref EXCEPT ![e]["mimepost"] = NULL]
    /\ UNCHANGED todo

SetHttppost(e, o) ==
    /\ Open(e) /\ todo[e] = Nothing
    /\ \E fails \in MayFail :
          IF fails
          THEN SetHttppostRefused(e) \/ SetHttppostUnkept(e, o)
          ELSE SetHttppostDone(e, o)
    /\ UNCHANGED <<status, callbacks>>

(* bug: the form is released, libcurl keeps sending it *)
SetMimepostEager(e, o) ==
    /\ Open(e)
    /\ ref' = [ref EXCEPT ![e]["mimepost"] = o, ![e]["httppost"] = NULL]
    /\ lib' = [lib EXCEPT ![e]["mimepost"] = o]
    /\ UNCHANGED <<status, callbacks, todo>>

(* MIMEPOST: the form is unset, the mime set and kept, the form freed.     *)
SetMimepost(e, o) ==
    /\ Open(e)
    /\ \E refused \in MayFail :
          IF refused
          THEN /\ ref[e]["httppost"] # NULL
               /\ LibSet(e, "httppost", NULL)
               /\ UNCHANGED ref
          ELSE /\ LibSet(e, "mimepost", o)
               /\ ref' = [ref EXCEPT ![e]["mimepost"] = o, ![e]["httppost"] = NULL]
    /\ UNCHANGED <<status, callbacks, todo>>

(* unsetopt() and setopt(option, None) of these options, POSTFIELDS apart. *)
UnsetObject(e, f) ==
    /\ Open(e) /\ f # "postfields"
    /\ f \in {"httppost", "mimepost"} /\ ref[e][Other(f)] # NULL => "unset_other" \in Uses
    /\ LibSet(e, f, NULL)
    /\ ref' = [ref EXCEPT ![e][f] = NULL]
    /\ UNCHANGED <<status, callbacks, todo>>

-----------------------------------------------------------------------------
(* Callbacks.                                                              *)

Install(e, s) ==
    /\ fn' = [fn EXCEPT ![e] = @ \cup {s}]
    /\ data' = [data EXCEPT ![e][s] = e]

(* do_curl_setopt_callable: the old callable goes first.                   *)
SetCallable(e, s) ==
    /\ Open(e) /\ todo[e] = Nothing /\ s # "ssl_ctx"
    /\ cb' = [cb EXCEPT ![e] = @ \ {s}]
    /\ todo' = [todo EXCEPT ![e] = [op |-> s, to |-> NULL]]
    /\ UNCHANGED <<status, ref, lib, fn, data, conn>>

LoseSocket(e) == e \in conn => "live_socket" \in Uses

(* CLEAR_CALLBACK: the function, the data, the callable.                   *)
UnsetCallback(e, s) ==
    /\ Open(e) /\ s # "ssl_ctx"
    /\ s = "closesocket" => LoseSocket(e)
    /\ fn' = [fn EXCEPT ![e] = @ \ {s}]
    /\ \E refused \in MayFail :
          IF refused
          THEN UNCHANGED <<data, cb>>
          ELSE data' = [data EXCEPT ![e][s] = NULL] /\ cb' = [cb EXCEPT ![e] = @ \ {s}]
    /\ UNCHANGED <<status, ref, lib, conn, todo>>

(* unsetopt(WRITEHEADER): the data of the header callback, not its         *)
(* function.                                                               *)
UnsetWriteheader(e) ==
    /\ Open(e)
    /\ "header" \in fn[e] => "writeheader" \in Uses
    /\ data' = [data EXCEPT ![e]["header"] = NULL]
    /\ UNCHANGED <<status, ref, lib, cb, fn, conn, todo>>

(* set_ca_certs(), which does not test the handle: libcurl refuses a NULL  *)
(* one, and the certificates go again.                                     *)
SetCaCerts(e) ==
    /\ Runs /\ status[e] \in {"open", "closed"}
    /\ IF status[e] = "open"
       THEN cb' = [cb EXCEPT ![e] = @ \cup {"ssl_ctx"}] /\ Install(e, "ssl_ctx")
       ELSE cb' = [cb EXCEPT ![e] = @ \ {"ssl_ctx"}] /\ UNCHANGED <<fn, data>>
    /\ UNCHANGED <<status, ref, lib, conn, todo>>

-----------------------------------------------------------------------------
(* The rest of a method, after the finalizer of what it dropped.           *)

(* util_curl_init sets only options whose values libcurl copies; when it   *)
(* fails the easy is closed.                                               *)
ResetEnd(e) ==
    /\ ref' = [ref EXCEPT ![e] = NoFields]
    /\ cb' = [cb EXCEPT ![e] = {}]
    /\ \/ UNCHANGED <<status, lib, fn, data, conn>>
       \/ /\ status' = [status EXCEPT ![e] = "closed"]
          /\ conn' = conn \ {e}
          /\ UNCHANGED <<lib, fn, data>>

Finish(e) ==
    /\ todo[e] # Nothing
    /\ todo' = [todo EXCEPT ![e] = Nothing]
    /\ LET op == todo[e].op
       IN  CASE op \in {"postfields", "httppost"} ->
                  /\ ref' = [ref EXCEPT ![e][op] = todo[e].to]
                  /\ UNCHANGED <<status, lib, callbacks>>
             [] op = "reset" -> ResetEnd(e)
             [] OTHER ->
                  /\ cb' = [cb EXCEPT ![e] = @ \cup {op}]
                  /\ Install(e, op)
                  /\ UNCHANGED <<status, ref, lib, conn>>

-----------------------------------------------------------------------------
(* Handles.                                                                *)

(* do_curl_new                                                             *)
NewCurl(e) ==
    /\ Runs /\ status[e] = "none"
    /\ status' = [status EXCEPT ![e] = "open"]
    /\ UNCHANGED <<ref, lib, callbacks, todo>>

(* bug: the data pointers are those of the original *)
DuphandleData(e, d) == data[e]

(* The data pointers of the duplicate: its own where there is a callable.  *)
DuphandleOwn(e, d) == [s \in Slot |-> IF s \in cb[e] THEN d ELSE data[e][s]]
DupData(e, d) == DuphandleOwn(e, d)

(* bug: the form is not referenced by the duplicate *)
DuphandleRefsNoForm(e) == [ref[e] EXCEPT !["httppost"] = NULL]
DupRefs(e) == ref[e]

(* do_curl_duphandle                                                       *)
Duphandle(e, d) ==
    /\ Open(e) /\ status[d] = "none"
    /\ status' = [status EXCEPT ![d] = "open"]
    /\ lib' = [lib EXCEPT ![d] = lib[e]]
    /\ fn' = [fn EXCEPT ![d] = fn[e]]
    /\ data' = [data EXCEPT ![d] = DupData(e, d)]
    /\ ref' = [ref EXCEPT ![d] = DupRefs(e)]
    /\ cb' = [cb EXCEPT ![d] = cb[e]]
    /\ UNCHANGED <<conn, todo>>

(* do_curl_reset, up to the first finalizer; connections stay alive.       *)
Reset(e) ==
    /\ Open(e) /\ todo[e] = Nothing /\ LoseSocket(e)
    /\ lib' = [lib EXCEPT ![e] = NoFields]
    /\ fn' = [fn EXCEPT ![e] = {}]
    /\ data' = [data EXCEPT ![e] = NoData]
    /\ todo' = [todo EXCEPT ![e] = [op |-> "reset", to |-> NULL]]
    /\ UNCHANGED <<status, ref, cb, conn>>

(* A transfer leaves a connection in the cache, and the cache drops one.   *)
Connect(e) ==
    /\ Open(e) /\ "closesocket" \in fn[e] /\ e \notin conn
    /\ conn' = conn \cup {e}
    /\ UNCHANGED <<status, ref, lib, cb, fn, data, todo>>

Disconnect(e) ==
    /\ Open(e) /\ e \in conn
    /\ conn' = conn \ {e}
    /\ UNCHANGED <<status, ref, lib, cb, fn, data, todo>>

Forget(e, st) ==
    /\ status' = [status EXCEPT ![e] = st]
    /\ lib' = [lib EXCEPT ![e] = NoFields]
    /\ fn' = [fn EXCEPT ![e] = {}]
    /\ data' = [data EXCEPT ![e] = NoData]
    /\ conn' = conn \ {e}
    /\ ref' = [ref EXCEPT ![e] = NoFields]
    /\ cb' = [cb EXCEPT ![e] = {}]
    /\ UNCHANGED todo

(* util_curl_close: libcurl's handle goes, its connections with it, then   *)
(* the references.                                                         *)
Close(e) == Open(e) /\ todo[e] = Nothing /\ Forget(e, "closed")

(* do_curl_dealloc                                                         *)
Dealloc(e) ==
    /\ Runs /\ status[e] # "none" /\ todo[e] = Nothing
    /\ Forget(e, "none")

(* do_curl_clear, for an easy in a reference cycle: every reference goes,  *)
(* libcurl's handle stays until the object is deallocated.                 *)
Clear(e) ==
    /\ Open(e) /\ todo[e] = Nothing /\ LoseSocket(e)
    /\ status' = [status EXCEPT ![e] = "cleared"]
    /\ ref' = [ref EXCEPT ![e] = NoFields]
    /\ cb' = [cb EXCEPT ![e] = {}]
    /\ lib' = [lib EXCEPT ![e] = [f \in Field |->
                  IF f \in {"mimepost", "curlu"} /\ ref[e][f] # NULL THEN NULL ELSE @[f]]]
    /\ UNCHANGED <<fn, data, conn, todo>>

Next ==
    \/ \E e \in Easy, f \in Field, o \in Obj : SetObject(e, f, o)
    \/ \E e \in Easy, o \in Obj : SetPostfields(e, o) \/ SetHttppost(e, o) \/ SetMimepost(e, o)
    \/ \E e \in Easy, f \in Field : UnsetObject(e, f)
    \/ \E e \in Easy, s \in Slot : SetCallable(e, s) \/ UnsetCallback(e, s)
    \/ \E e \in Easy : SetCopyPostfields(e) \/ UnsetWriteheader(e) \/ SetCaCerts(e)
    \/ \E e, d \in Easy : Duphandle(e, d)
    \/ \E e \in Easy : NewCurl(e) \/ Reset(e) \/ Finish(e) \/ Close(e)
    \/ \E e \in Easy : Dealloc(e) \/ Clear(e) \/ Connect(e) \/ Disconnect(e)

Spec == Init /\ [][Next]_vars

-----------------------------------------------------------------------------
TypeOK ==
    /\ status \in [Easy -> Status]
    /\ ref \in [Easy -> [Field -> Obj \cup {NULL}]]
    /\ lib \in [Easy -> [Field -> Obj \cup {Copy, NULL}]]
    /\ cb \in [Easy -> SUBSET Slot]
    /\ fn \in [Easy -> SUBSET Slot]
    /\ data \in [Easy -> [Slot -> Easy \cup {NULL}]]
    /\ conn \subseteq Easy
    /\ todo \in [Easy -> Todo]

(* What libcurl points to is kept by a reference of the same Curl object,  *)
(* in duplicates as in originals, after replacing, unsetting and failing:  *)
(* no other object has to live for a transfer to be safe.                  *)
KeptByOwn ==
    Runs => \A e \in Easy, f \in Field :
        status[e] = "open" /\ lib[e][f] \in Obj => ref[e][f] = lib[e][f]

(* A C function that libcurl may call, now or when a connection of the     *)
(* easy closes, is called with its own easy, and finds a callable there    *)
(* unless it tests for one.                                                *)
CallbackFindsCallable ==
    Runs => \A e \in Easy :
        /\ \A s \in fn[e] :
              status[e] = "open" => data[e][s] = e /\ (s \in NullTested \/ s \in cb[e])
        /\ e \in conn => "closesocket" \in cb[e]

(* The form or the mime the Curl object holds is the one libcurl points    *)
(* to, and it never holds both: neither call leaves behind what the other  *)
(* has replaced.  (POSTFIELDS, set after them, may be sent instead.)       *)
BodyIsSent ==
    Runs => \A e \in Easy : status[e] = "open" =>
        /\ \A f \in {"httppost", "mimepost"} : lib[e][f] = ref[e][f]
        /\ ref[e]["httppost"] = NULL \/ ref[e]["mimepost"] = NULL

(* A closed easy keeps nothing alive (curl_close.rst), whatever is called  *)
(* on it afterwards.                                                       *)
ClosedHoldsNothing ==
    \A e \in Easy : status[e] = "closed" => ref[e] = NoFields /\ cb[e] = {} /\ e \notin conn
=============================================================================
