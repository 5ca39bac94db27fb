---------------------------- MODULE EasyOptsProofs ----------------------------
(***************************************************************************)
(* Proofs about EasyOpts: for any easies and objects, and any program that *)
(* keeps to the uses the code is made for, what libcurl points to is kept  *)
(* by the same Curl object, and every function libcurl may call finds its  *)
(* callable.                                                               *)
(***************************************************************************)
EXTENDS EasyOpts, TLAPS

-----------------------------------------------------------------------------
(* What holds of one easy at every step, the rest of a method included:    *)
(* todo says what the method still has to write.                           *)

Halfway(e) == todo[e] # Nothing => status[e] = "open" /\ todo[e].op # "none"

Connected(e) == e \in conn => status[e] = "open"

Emptied(e) ==
    /\ status[e] \in {"none", "closed"} => ref[e] = NoFields /\ cb[e] = {}
    /\ status[e] = "none" => lib[e] = NoFields /\ fn[e] = {}

(* What libcurl points to is what is referenced; after a change that       *)
(* failed half way libcurl may point to nothing instead.                   *)
Agree(pointer, reference) ==
    pointer = reference \/ (pointer = NULL /\ "fail" \in Uses)

(* The reference is there, or about to be; reset() has emptied libcurl.    *)
Kept(e) ==
    /\ todo[e].op = "reset" => lib[e] = NoFields
    /\ \A f \in Field :
          /\ todo[e].op = f => lib[e][f] = todo[e].to /\ f \in {"postfields", "httppost"}
          /\ todo[e].op \notin {f, "reset"} /\ lib[e][f] # Copy => Agree(lib[e][f], ref[e][f])

(* One body at most, and only POSTFIELDS is ever a copy.                   *)
OneBody(e) ==
    /\ lib[e]["httppost"] = NULL \/ lib[e]["mimepost"] = NULL
    /\ \A f \in Field : lib[e][f] = Copy => f = "postfields"

(* The callable is there, or about to be.                                  *)
Callable(e) ==
    /\ todo[e].op = "reset" => fn[e] = {} /\ e \notin conn
    /\ \A s \in fn[e] : data[e][s] = e /\ (s \in cb[e] \/ todo[e].op = s)
    /\ e \in conn => "closesocket" \in cb[e] \/ todo[e].op = "closesocket"

Good(e) ==
    /\ Halfway(e) /\ Connected(e) /\ Emptied(e)
    /\ status[e] = "open" => Kept(e) /\ OneBody(e) /\ Callable(e)

Inv == TypeOK /\ \A e \in Easy : Good(e)

(* The uses the code is made for, and changes that fail half way.          *)
Clean == Uses \subseteq {"fail"}

(* A method of e leaves the other easies alone.                            *)
Frame(e) ==
    \A x \in Easy \ {e} :
        /\ status'[x] = status[x] /\ ref'[x] = ref[x] /\ lib'[x] = lib[x]
        /\ cb'[x] = cb[x] /\ fn'[x] = fn[x]
        /\ data'[x] = data[x] /\ todo'[x] = todo[x]
        /\ x \in conn' <=> x \in conn

LEMMA InitInv == ASSUME Init PROVE Inv
  BY OptsAssumption
  DEF Init, Inv, TypeOK, Status, Todo, Nothing, NoFields, NoData, Slot, Good, Halfway,
      Connected, Emptied, Bodies

LEMMA Local ==
  ASSUME Inv, NEW e \in Easy, TypeOK', Frame(e), Good(e)'
  PROVE  Inv'
<1>1. ASSUME NEW x \in Easy, x # e PROVE Good(x)'
  BY <1>1 DEF Inv, Frame, Good, Halfway, Connected, Emptied, Kept, OneBody, Callable
<1> QED
  BY <1>1 DEF Inv

LEMMA Idle ==
  ASSUME Inv, NEW e \in Easy, Between
  PROVE  /\ todo[e] = Nothing /\ todo[e].op = "none"
         /\ status[e] = "open" =>
              /\ \A f \in Field : lib[e][f] # Copy => Agree(lib[e][f], ref[e][f])
              /\ OneBody(e) /\ Callable(e)
<1>1. todo[e] = Nothing /\ todo[e].op = "none"
  BY DEF Between, Nothing
<1>2. Field \subseteq {"list", "curlu", "postfields", "httppost", "mimepost"}
  BY OptsAssumption DEF Bodies
<1>3. status[e] = "open" => Kept(e) /\ OneBody(e) /\ Callable(e)
  BY DEF Inv, Good
<1>4. \A f \in Field : todo[e].op \notin {f, "reset"}
  BY <1>1, <1>2
<1> QED
  BY <1>1, <1>3, <1>4 DEF Kept

(* The callbacks while another option is set.                              *)
LEMMA CallableKeeps ==
  ASSUME Inv, Between, NEW e \in Easy, status[e] = "open",
         UNCHANGED <<cb, fn, data, conn>>,
         todo'[e].op \in {"none", "postfields", "httppost"}
  PROVE  Callable(e)'
<1>1. Callable(e) /\ todo[e].op = "none" /\ fn[e] \subseteq Slot
  BY Idle DEF Inv, TypeOK
<1>2. \A s \in fn[e] : data[e][s] = e /\ s \in cb[e]
  BY <1>1 DEF Callable, Slot
<1>3. e \in conn => "closesocket" \in cb[e]
  BY <1>1 DEF Callable
<1> QED
  BY <1>2, <1>3 DEF Callable

(* What libcurl points to after an option was set.                         *)
LEMMA LibSetIs ==
  ASSUME TypeOK, NEW e \in Easy, NEW f \in Field, NEW o \in Obj \cup {Copy, NULL},
         LibSet(e, f, o)
  PROVE  /\ lib' \in [Easy -> [Field -> Obj \cup {Copy, NULL}]]
         /\ \A x \in Easy : x # e => lib'[x] = lib[x]
         /\ \A g \in Field : lib'[e][g] =
               IF g = f THEN o
               ELSE IF f \in {"httppost", "mimepost"} /\ g = Other(f) THEN NULL
               ELSE lib[e][g]
<1> DEFINE new == [g \in Field |->
                     IF g = f THEN o
                     ELSE IF f \in {"httppost", "mimepost"} /\ g = Other(f) THEN NULL
                     ELSE lib[e][g]]
<1>1. new \in [Field -> Obj \cup {Copy, NULL}]
  BY DEF TypeOK
<1>2. lib' = [lib EXCEPT ![e] = new]
  BY DEF LibSet
<1> HIDE DEF new
<1>3. /\ lib' \in [Easy -> [Field -> Obj \cup {Copy, NULL}]]
      /\ \A x \in Easy : x # e => lib'[x] = lib[x]
      /\ lib'[e] = new
  BY <1>1, <1>2 DEF TypeOK
<1> QED
  BY <1>3 DEF new

(* A setopt() that failed half way: libcurl points to less than before, and *)
(* a reference that went is one libcurl does not point to.                 *)
LEMMA FailedInv ==
  ASSUME Inv, Between, NEW e \in Easy, status[e] = "open", "fail" \in Uses,
         UNCHANGED <<status, cb, fn, data, conn, todo>>,
         lib' \in [Easy -> [Field -> Obj \cup {Copy, NULL}]],
         ref' \in [Easy -> [Field -> Obj \cup {NULL}]],
         \A x \in Easy : x # e => lib'[x] = lib[x] /\ ref'[x] = ref[x],
         \A f \in Field : /\ lib'[e][f] \in {NULL, lib[e][f]}
                          /\ (ref'[e][f] = ref[e][f] \/ lib'[e][f] = NULL)
  PROVE  Inv'
<1>1. TypeOK' /\ Frame(e)
  BY DEF Inv, TypeOK, Frame
<1>2. todo'[e].op = "none" /\ todo'[e] = Nothing /\ status'[e] = "open"
  BY Idle
<1>3. Kept(e)'
  <2>1. \A f \in Field : lib[e][f] # Copy => Agree(lib[e][f], ref[e][f])
    BY Idle
  <2>2. \A f \in Field : lib'[e][f] # Copy => Agree(lib'[e][f], ref'[e][f])
    BY <2>1 DEF Agree
  <2>3. \A f \in Field : f # "none"
    BY OptsAssumption DEF Bodies
  <2> QED
    BY <1>2, <2>2, <2>3 DEF Kept
<1>4. OneBody(e)'
  BY Idle, OptsAssumption DEF OneBody, Bodies
<1>5. Callable(e)'
  BY <1>2, CallableKeeps
<1>6. Good(e)'
  BY <1>2, <1>3, <1>4, <1>5 DEF Good, Halfway, Connected, Emptied
<1> QED
  BY <1>1, <1>6, Local

-----------------------------------------------------------------------------
(* Options that keep a pointer.                                            *)

LEMMA SetObjectInv ==
  ASSUME Inv, Clean, NEW e \in Easy, NEW f \in Field, NEW o \in Obj, SetObject(e, f, o)
  PROVE  Inv'
<1>1. /\ Between /\ status[e] = "open" /\ f \in {"list", "curlu"}
      /\ UNCHANGED <<status, cb, fn, data, conn, todo>>
  BY DEF SetObject, Open, Runs, Clean, callbacks
<1>2. CASE "fail" \in Uses /\ LibSet(e, f, NULL) /\ UNCHANGED ref
  <2>1. /\ lib' \in [Easy -> [Field -> Obj \cup {Copy, NULL}]]
        /\ \A x \in Easy : x # e => lib'[x] = lib[x]
        /\ \A g \in Field : lib'[e][g] \in {NULL, lib[e][g]}
    BY <1>2, LibSetIs DEF Inv
  <2> QED
    BY <1>1, <1>2, <2>1, FailedInv DEF Inv, TypeOK
<1>3. CASE LibSet(e, f, o) /\ ref' = [ref EXCEPT ![e][f] = o]
  <2>1. /\ lib' = [lib EXCEPT ![e] = [lib[e] EXCEPT ![f] = o]]
        /\ ref' = [ref EXCEPT ![e] = [ref[e] EXCEPT ![f] = o]]
    BY <1>1, <1>3 DEF LibSet, TypeOK, Inv
  <2>2. TypeOK' /\ Frame(e)
    BY <1>1, <2>1 DEF Inv, TypeOK, Frame
  <2>3. todo'[e].op = "none" /\ todo'[e] = Nothing /\ status'[e] = "open"
    BY <1>1, Idle
  <2>4. Kept(e)'
    <3>1. \A g \in Field : lib[e][g] # Copy => Agree(lib[e][g], ref[e][g])
      BY <1>1, Idle
    <3>2. \A g \in Field : lib'[e][g] # Copy => Agree(lib'[e][g], ref'[e][g])
      BY <2>1, <3>1 DEF Inv, TypeOK, Agree
    <3>3. \A g \in Field : g # "none"
      BY OptsAssumption DEF Bodies
    <3> QED
      BY <2>3, <3>2, <3>3 DEF Kept
  <2>5. OneBody(e)'
    <3>1. OneBody(e)
      BY <1>1, Idle
    <3> QED
      BY <1>1, <2>1, <3>1, OptsAssumption DEF Inv, TypeOK, OneBody, Bodies
  <2>6. Callable(e)'
    BY <1>1, <2>3, CallableKeeps
  <2>7. Good(e)'
    BY <2>1, <2>3, <2>4, <2>5, <2>6 DEF Good, Halfway, Connected, Emptied
  <2> QED
    BY <2>2, <2>7, Local
<1> QED
  BY <1>2, <1>3 DEF SetObject, MayFail

LEMMA SetPostfieldsInv ==
  ASSUME Inv, Clean, NEW e \in Easy, NEW o \in Obj, SetPostfields(e, o)
  PROVE  Inv'
<1>1. Between /\ status[e] = "open"
  BY DEF SetPostfields, Open, Runs, Clean
<1>2. /\ lib' = [lib EXCEPT ![e] = [lib[e] EXCEPT !["postfields"] = o]]
      /\ ref' = [ref EXCEPT ![e] = [ref[e] EXCEPT !["postfields"] = NULL]]
      /\ todo' = [todo EXCEPT ![e] = [op |-> "postfields", to |-> o]]
      /\ UNCHANGED <<status, cb, fn, data, conn>>
  BY DEF SetPostfields, Clean, LibSet, TypeOK, Inv, callbacks
<1>3. TypeOK'
  BY <1>2 DEF Inv, TypeOK, Todo
<1>4. Frame(e)
  BY <1>2 DEF Inv, TypeOK, Frame
<1>5. Good(e)'
  <2>1. todo'[e].op = "postfields" /\ todo'[e].to = o /\ status'[e] = "open"
    BY <1>1, <1>2 DEF Inv, TypeOK
  <2>2. Kept(e)'
    BY <1>1, <1>2, <2>1, Idle, OptsAssumption DEF Inv, TypeOK, Kept, Bodies
  <2>3. OneBody(e)'
    BY <1>1, <1>2, Idle, OptsAssumption DEF Inv, TypeOK, OneBody, Bodies
  <2>4. Callable(e)'
    BY <1>1, <1>2, <2>1, CallableKeeps
  <2> QED
    BY <1>2, <2>1, <2>2, <2>3, <2>4 DEF Inv, Good, Halfway, Connected, Emptied
<1> QED
  BY <1>3, <1>4, <1>5, Local

LEMMA SetCopyPostfieldsInv ==
  ASSUME Inv, Clean, NEW e \in Easy, SetCopyPostfields(e)
  PROVE  Inv'
<1>1. Between /\ status[e] = "open"
  BY DEF SetCopyPostfields, Open, Runs, Clean
<1>2. /\ lib' = [lib EXCEPT ![e] = [lib[e] EXCEPT !["postfields"] = Copy]]
      /\ UNCHANGED <<status, ref, cb, fn, data, conn, todo>>
  BY DEF SetCopyPostfields, LibSet, TypeOK, Inv, callbacks
<1>3. TypeOK'
  BY <1>2 DEF Inv, TypeOK
<1>4. Frame(e)
  BY <1>2 DEF Inv, TypeOK, Frame
<1>5. Good(e)'
  <2>1. todo'[e].op = "none" /\ todo'[e] = Nothing /\ status'[e] = "open"
    BY <1>1, <1>2, Idle
  <2>2. Kept(e)'
    BY <1>1, <1>2, <2>1, Idle, OptsAssumption DEF Inv, TypeOK, Kept, Bodies
  <2>3. OneBody(e)'
    BY <1>1, <1>2, Idle, OptsAssumption DEF Inv, TypeOK, OneBody, Bodies
  <2>4. Callable(e)'
    BY <1>1, <1>2, <2>1, CallableKeeps
  <2> QED
    BY <1>2, <2>1, <2>2, <2>3, <2>4 DEF Good, Halfway, Connected, Emptied
<1> QED
  BY <1>3, <1>4, <1>5, Local

(* The form takes the place of the mime.                                   *)
LEMMA SetHttppostDoneInv ==
  ASSUME Inv, Between, NEW e \in Easy, NEW o \in Obj, status[e] = "open",
         SetHttppostDone(e, o), UNCHANGED <<status, cb, fn, data, conn>>
  PROVE  Inv'
<1>1. LibSet(e, "httppost", o)
  BY DEF SetHttppostDone
<1>2. /\ ref' = [ref EXCEPT ![e] = [ref[e] EXCEPT !["mimepost"] = NULL]]
      /\ todo' = [todo EXCEPT ![e] = [op |-> "httppost", to |-> o]]
  BY DEF SetHttppostDone
<1>3. /\ lib' \in [Easy -> [Field -> Obj \cup {Copy, NULL}]]
      /\ \A x \in Easy : x # e => lib'[x] = lib[x]
      /\ \A g \in Field : lib'[e][g] =
            IF g = "httppost" THEN o ELSE IF g = "mimepost" THEN NULL ELSE lib[e][g]
  BY <1>1, LibSetIs, OptsAssumption DEF Inv, Other, Bodies
<1>4. TypeOK'
  BY <1>2, <1>3 DEF Inv, TypeOK, Todo
<1>5. Frame(e)
  BY <1>2, <1>3 DEF Inv, TypeOK, Frame
<1>6. Good(e)'
  <2>1. todo'[e].op = "httppost" /\ todo'[e].to = o /\ status'[e] = "open"
    BY <1>2 DEF Inv, TypeOK
  <2>2. Kept(e)'
    BY <1>2, <1>3, <2>1, Idle, OptsAssumption DEF Inv, TypeOK, Kept, Bodies, Agree
  <2>3. OneBody(e)'
    <3>1. OneBody(e) /\ {"httppost", "mimepost"} \subseteq Field
      BY Idle, OptsAssumption DEF Bodies
    <3> QED
      BY <1>3, <3>1, OptsAssumption DEF OneBody
  <2>4. Callable(e)'
    BY <2>1, CallableKeeps
  <2> QED
    BY <1>2, <2>1, <2>2, <2>3, <2>4 DEF Inv, Good, Halfway, Connected, Emptied
<1> QED
  BY <1>4, <1>5, <1>6, Local

LEMMA SetHttppostInv ==
  ASSUME Inv, Clean, NEW e \in Easy, NEW o \in Obj, SetHttppost(e, o)
  PROVE  Inv'
<1>1. Between /\ status[e] = "open" /\ UNCHANGED <<status, cb, fn, data, conn>>
  BY DEF SetHttppost, Open, Runs, Clean, callbacks
<1>2. {"httppost", "mimepost"} \subseteq Field
  BY OptsAssumption DEF Bodies
<1>3. CASE "fail" \in Uses /\ SetHttppostRefused(e)
  <2>1. /\ lib' \in [Easy -> [Field -> Obj \cup {Copy, NULL}]]
        /\ \A x \in Easy : x # e => lib'[x] = lib[x]
        /\ \A g \in Field : lib'[e][g] \in {NULL, lib[e][g]}
        /\ UNCHANGED <<ref, todo>>
    BY <1>2, <1>3, LibSetIs DEF SetHttppostRefused, Inv
  <2> QED
    BY <1>1, <1>3, <2>1, FailedInv DEF Inv, TypeOK
<1>4. CASE "fail" \in Uses /\ SetHttppostUnkept(e, o)
  <2>1. /\ lib' \in [Easy -> [Field -> Obj \cup {Copy, NULL}]]
        /\ \A x \in Easy : x # e => lib'[x] = lib[x]
        /\ \A g \in Field : lib'[e][g] \in {NULL, lib[e][g]}
        /\ lib'[e]["mimepost"] = NULL
    BY <1>2, <1>4, LibSetIs DEF SetHttppostUnkept, Inv, Other
  <2>2. ref' = [ref EXCEPT ![e] = [ref[e] EXCEPT !["mimepost"] = NULL]] /\ UNCHANGED todo
    BY <1>4 DEF SetHttppostUnkept
  <2>3. /\ ref' \in [Easy -> [Field -> Obj \cup {NULL}]]
        /\ \A x \in Easy : x # e => ref'[x] = ref[x]
        /\ \A g \in Field : ref'[e][g] = ref[e][g] \/ g = "mimepost"
    BY <2>2 DEF Inv, TypeOK
  <2>4. \A g \in Field : ref'[e][g] = ref[e][g] \/ lib'[e][g] = NULL
    BY <2>1, <2>3
  <2> QED
    BY <1>1, <1>4, <2>1, <2>2, <2>3, <2>4, FailedInv
<1>5. CASE SetHttppostDone(e, o)
  BY <1>1, <1>5, SetHttppostDoneInv
<1> QED
  BY <1>3, <1>4, <1>5 DEF SetHttppost, MayFail

LEMMA SetMimepostDoneInv ==
  ASSUME Inv, Between, NEW e \in Easy, NEW o \in Obj, status[e] = "open",
         LibSet(e, "mimepost", o),
         ref' = [ref EXCEPT ![e]["mimepost"] = o, ![e]["httppost"] = NULL],
         UNCHANGED <<status, cb, fn, data, conn, todo>>
  PROVE  Inv'
<1>1. Between /\ status[e] = "open" /\ LibSet(e, "mimepost", o)
  OBVIOUS
<1>2. /\ ref' = [ref EXCEPT ![e]["mimepost"] = o, ![e]["httppost"] = NULL]
      /\ UNCHANGED <<status, cb, fn, data, conn, todo>>
  OBVIOUS
<1>3. /\ lib' \in [Easy -> [Field -> Obj \cup {Copy, NULL}]]
      /\ \A x \in Easy : x # e => lib'[x] = lib[x]
      /\ \A g \in Field : lib'[e][g] =
            IF g = "mimepost" THEN o ELSE IF g = "httppost" THEN NULL ELSE lib[e][g]
  <2>1. "mimepost" \in Field /\ Other("mimepost") = "httppost"
    BY OptsAssumption DEF Other, Bodies
  <2> QED
    BY <1>1, <2>1, LibSetIs DEF Inv
<1>4. TypeOK'
  <2> DEFINE new == [[ref[e] EXCEPT !["mimepost"] = o] EXCEPT !["httppost"] = NULL]
  <2>1. new \in [Field -> Obj \cup {NULL}]
    BY DEF Inv, TypeOK
  <2>2. ref' = [ref EXCEPT ![e] = new]
    BY <1>2 DEF Inv, TypeOK
  <2> HIDE DEF new
  <2>3. ref' \in [Easy -> [Field -> Obj \cup {NULL}]]
    BY <2>1, <2>2 DEF Inv, TypeOK
  <2> QED
    BY <1>2, <1>3, <2>3 DEF Inv, TypeOK
<1>5. Frame(e)
  BY <1>2, <1>3 DEF Inv, TypeOK, Frame
<1>6. Good(e)'
  <2>1. todo'[e].op = "none" /\ todo'[e].to = NULL /\ status'[e] = "open"
    BY <1>1, <1>2, Idle DEF Nothing
  <2>2. Kept(e)'
    <3>1. \A f \in Field : lib[e][f] # Copy => Agree(lib[e][f], ref[e][f])
      BY <1>1, Idle
    <3>2. \A f \in Field : lib'[e][f] # Copy => Agree(lib'[e][f], ref'[e][f])
      BY <1>2, <1>3, <3>1 DEF Inv, TypeOK, Agree
    <3>3. \A f \in Field : f # "none"
      BY OptsAssumption DEF Bodies
    <3> QED
      BY <2>1, <3>2, <3>3 DEF Kept
  <2>3. OneBody(e)'
    <3>1. OneBody(e)
      BY <1>1, Idle
    <3> QED
      BY <1>3, <3>1, OptsAssumption DEF OneBody, Bodies
  <2>4. Callable(e)'
    BY <1>1, <1>2, <2>1, CallableKeeps
  <2> QED
    BY <1>2, <2>1, <2>2, <2>3, <2>4 DEF Inv, Good, Halfway, Connected, Emptied
<1> QED
  BY <1>4, <1>5, <1>6, Local

LEMMA SetMimepostInv ==
  ASSUME Inv, Clean, NEW e \in Easy, NEW o \in Obj, SetMimepost(e, o)
  PROVE  Inv'
<1>1. /\ Between /\ status[e] = "open"
      /\ UNCHANGED <<status, cb, fn, data, conn, todo>>
  BY DEF SetMimepost, Open, Runs, Clean, callbacks
<1>2. CASE "fail" \in Uses /\ LibSet(e, "httppost", NULL) /\ UNCHANGED ref
  <2>1. "httppost" \in Field
    BY OptsAssumption DEF Bodies
  <2>2. /\ lib' \in [Easy -> [Field -> Obj \cup {Copy, NULL}]]
        /\ \A x \in Easy : x # e => lib'[x] = lib[x]
        /\ \A g \in Field : lib'[e][g] \in {NULL, lib[e][g]}
    BY <1>2, <2>1, LibSetIs DEF Inv
  <2> QED
    BY <1>1, <1>2, <2>2, FailedInv DEF Inv, TypeOK
<1>3. CASE /\ LibSet(e, "mimepost", o)
           /\ ref' = [ref EXCEPT ![e]["mimepost"] = o, ![e]["httppost"] = NULL]
  BY <1>1, <1>3, SetMimepostDoneInv
<1> QED
  BY <1>2, <1>3 DEF SetMimepost, MayFail

(* Unsetting a form does not take a mime away: there is none.              *)
LEMMA UnsetObjectInv ==
  ASSUME Inv, Clean, NEW e \in Easy, NEW f \in Field, UnsetObject(e, f)
  PROVE  Inv'
<1>1. /\ Between /\ status[e] = "open" /\ f # "postfields" /\ LibSet(e, f, NULL)
      /\ f \in {"httppost", "mimepost"} => ref[e][Other(f)] = NULL
  BY DEF UnsetObject, Open, Runs, Clean
<1>2. /\ ref' = [ref EXCEPT ![e] = [ref[e] EXCEPT ![f] = NULL]]
      /\ UNCHANGED <<status, cb, fn, data, conn, todo>>
  BY DEF UnsetObject, callbacks, Inv, TypeOK
<1>3. f \in {"httppost", "mimepost"} => lib[e][Other(f)] = NULL
  <2>1. f \in {"httppost", "mimepost"} => Other(f) \in Field /\ Other(f) # "postfields"
    BY OptsAssumption DEF Other, Bodies
  <2> QED
    BY <1>1, <2>1, Idle DEF OneBody, Agree
<1>4. /\ lib' \in [Easy -> [Field -> Obj \cup {Copy, NULL}]]
      /\ \A x \in Easy : x # e => lib'[x] = lib[x]
      /\ \A g \in Field : lib'[e][g] = IF g = f THEN NULL ELSE lib[e][g]
  BY <1>1, <1>3, LibSetIs DEF Inv
<1>5. TypeOK'
  BY <1>2, <1>4 DEF Inv, TypeOK
<1>6. Frame(e)
  BY <1>2, <1>4 DEF Inv, TypeOK, Frame
<1>7. Good(e)'
  <2>1. todo'[e].op = "none" /\ todo'[e].to = NULL /\ status'[e] = "open"
    BY <1>1, <1>2, Idle DEF Nothing
  <2>2. Kept(e)'
    <3>1. \A g \in Field : lib[e][g] # Copy => Agree(lib[e][g], ref[e][g])
      BY <1>1, Idle
    <3>2. \A g \in Field : lib'[e][g] # Copy => Agree(lib'[e][g], ref'[e][g])
      BY <1>2, <1>4, <3>1 DEF Inv, TypeOK, Agree
    <3>3. \A g \in Field : g # "none"
      BY OptsAssumption DEF Bodies
    <3> QED
      BY <2>1, <3>2, <3>3 DEF Kept
  <2>3. OneBody(e)'
    BY <1>1, <1>2, <1>4, Idle, OptsAssumption DEF Inv, TypeOK, OneBody, Bodies
  <2>4. Callable(e)'
    BY <1>1, <1>2, <2>1, CallableKeeps
  <2> QED
    BY <1>2, <2>1, <2>2, <2>3, <2>4 DEF Inv, Good, Halfway, Connected, Emptied
<1> QED
  BY <1>5, <1>6, <1>7, Local

-----------------------------------------------------------------------------
(* Callbacks.                                                              *)

(* The references while a callback is set.                                 *)
LEMMA KeptKeeps ==
  ASSUME Inv, Between, NEW e \in Easy, status[e] = "open",
         UNCHANGED <<status, ref, lib>>,
         todo'[e].op \in {"none"} \cup Slot
  PROVE  Kept(e)' /\ OneBody(e)'
<1>1. OneBody(e) /\ \A f \in Field : lib[e][f] # Copy => Agree(lib[e][f], ref[e][f])
  BY Idle DEF Inv, Good
<1>2. todo'[e].op # "reset" /\ \A f \in Field : todo'[e].op # f
  BY OptsAssumption DEF Bodies, Slot
<1>3. Kept(e)'
  BY <1>1, <1>2 DEF Kept
<1> QED
  BY <1>1, <1>3 DEF OneBody

LEMMA SetCallableInv ==
  ASSUME Inv, Clean, NEW e \in Easy, NEW s \in Slot, SetCallable(e, s)
  PROVE  Inv'
<1>1. Between /\ status[e] = "open" /\ s \in {"header", "closesocket"}
  BY DEF SetCallable, Open, Runs, Clean, Slot
<1>2. /\ cb' = [cb EXCEPT ![e] = cb[e] \ {s}]
      /\ todo' = [todo EXCEPT ![e] = [op |-> s, to |-> NULL]]
      /\ UNCHANGED <<status, ref, lib, fn, data, conn>>
  BY DEF SetCallable
<1>3. TypeOK'
  BY <1>1, <1>2 DEF Inv, TypeOK, Todo
<1>4. Frame(e)
  BY <1>2 DEF Inv, TypeOK, Frame
<1>5. Good(e)'
  <2>1. todo'[e].op = s /\ cb'[e] = cb[e] \ {s} /\ status'[e] = "open"
    BY <1>1, <1>2 DEF Inv, TypeOK
  <2>2. Kept(e)' /\ OneBody(e)'
    BY <1>1, <1>2, <2>1, KeptKeeps
  <2>3. Callable(e)'
    <3>1. Callable(e) /\ todo[e].op = "none" /\ fn[e] \subseteq Slot
      BY <1>1, Idle DEF Inv, TypeOK
    <3>2. \A r \in fn[e] : data[e][r] = e /\ r \in cb[e]
      BY <3>1 DEF Callable, Slot
    <3>3. e \in conn => "closesocket" \in cb[e]
      BY <3>1 DEF Callable
    <3> QED
      BY <1>1, <1>2, <2>1, <3>2, <3>3 DEF Callable
  <2> QED
    BY <1>1, <1>2, <2>1, <2>2, <2>3 DEF Good, Halfway, Connected, Emptied
<1> QED
  BY <1>3, <1>4, <1>5, Local

(* The callable of a connection stays as long as the connection.           *)
LEMMA UnsetCallbackInv ==
  ASSUME Inv, Clean, NEW e \in Easy, NEW s \in Slot, UnsetCallback(e, s)
  PROVE  Inv'
<1>1. Between /\ status[e] = "open" /\ (s = "closesocket" => e \notin conn)
  BY DEF UnsetCallback, Open, Runs, Clean, LoseSocket
<1>2. /\ fn' = [fn EXCEPT ![e] = fn[e] \ {s}]
      /\ UNCHANGED <<status, ref, lib, conn, todo>>
      /\ \/ UNCHANGED <<data, cb>>
         \/ /\ data' = [data EXCEPT ![e] = [data[e] EXCEPT ![s] = NULL]]
            /\ cb' = [cb EXCEPT ![e] = cb[e] \ {s}]
  BY DEF UnsetCallback, Inv, TypeOK
<1>3. TypeOK'
  <2>1. fn' \in [Easy -> SUBSET Slot]
    BY <1>2 DEF Inv, TypeOK
  <2>2. data' \in [Easy -> [Slot -> Easy \cup {NULL}]]
    <3>1. [data[e] EXCEPT ![s] = NULL] \in [Slot -> Easy \cup {NULL}]
      BY DEF Inv, TypeOK
    <3> QED
      BY <1>2, <3>1 DEF Inv, TypeOK
  <2>3. cb' \in [Easy -> SUBSET Slot]
    <3>1. cb[e] \ {s} \subseteq Slot
      BY DEF Inv, TypeOK
    <3> QED
      BY <1>2, <3>1 DEF Inv, TypeOK
  <2> QED
    BY <1>2, <2>1, <2>2, <2>3 DEF Inv, TypeOK
<1>4. Frame(e)
  BY <1>2 DEF Inv, TypeOK, Frame
<1>5. Good(e)'
  <2>1. todo'[e].op = "none" /\ todo'[e] = Nothing /\ status'[e] = "open"
    BY <1>1, <1>2, Idle
  <2>2. Kept(e)' /\ OneBody(e)'
    BY <1>1, <1>2, <2>1, KeptKeeps
  <2>3. Callable(e)'
    <3>1. Callable(e) /\ todo[e].op = "none" /\ fn[e] \subseteq Slot
      BY <1>1, Idle DEF Inv, TypeOK
    <3>2. \A r \in fn[e] : data[e][r] = e /\ r \in cb[e]
      BY <3>1 DEF Callable, Slot
    <3>3. e \in conn => "closesocket" \in cb[e]
      BY <3>1 DEF Callable
    <3> QED
      BY <1>1, <1>2, <2>1, <3>2, <3>3 DEF Callable, Inv, TypeOK
  <2> QED
    BY <1>2, <2>1, <2>2, <2>3 DEF Good, Halfway, Connected, Emptied
<1> QED
  BY <1>3, <1>4, <1>5, Local

LEMMA UnsetWriteheaderInv ==
  ASSUME Inv, Clean, NEW e \in Easy, UnsetWriteheader(e)
  PROVE  Inv'
<1>1. Between /\ status[e] = "open" /\ "header" \notin fn[e]
  BY DEF UnsetWriteheader, Open, Runs, Clean
<1>2. /\ data' = [data EXCEPT ![e] = [data[e] EXCEPT !["header"] = NULL]]
      /\ UNCHANGED <<status, ref, lib, cb, fn, conn, todo>>
  BY DEF UnsetWriteheader, Inv, TypeOK
<1>3. TypeOK'
  BY <1>2 DEF Inv, TypeOK
<1>4. Frame(e)
  BY <1>2 DEF Inv, TypeOK, Frame
<1>5. Good(e)'
  <2>1. todo'[e].op = "none" /\ todo'[e] = Nothing /\ status'[e] = "open"
    BY <1>1, <1>2, Idle
  <2>2. Kept(e)' /\ OneBody(e)'
    BY <1>1, <1>2, <2>1, KeptKeeps
  <2>3. Callable(e)'
    BY <1>1, <1>2, Idle DEF Callable, Inv, TypeOK
  <2> QED
    BY <1>2, <2>1, <2>2, <2>3 DEF Good, Halfway, Connected, Emptied
<1> QED
  BY <1>3, <1>4, <1>5, Local

(* set_ca_certs() of an open easy installs its function, of a closed one   *)
(* leaves nothing.                                                         *)
LEMMA SetCaCertsInv ==
  ASSUME Inv, Clean, NEW e \in Easy, SetCaCerts(e)
  PROVE  Inv'
<1>1. Between /\ status[e] \in {"open", "closed"}
  BY DEF SetCaCerts, Runs, Clean
<1>2. todo[e].op = "none" /\ todo[e] = Nothing
  BY <1>1, Idle
<1>3. CASE status[e] = "open"
  <2>1. /\ cb' = [cb EXCEPT ![e] = cb[e] \cup {"ssl_ctx"}]
        /\ fn' = [fn EXCEPT ![e] = fn[e] \cup {"ssl_ctx"}]
        /\ data' = [data EXCEPT ![e] = [data[e] EXCEPT !["ssl_ctx"] = e]]
        /\ UNCHANGED <<status, ref, lib, conn, todo>>
    BY <1>3 DEF SetCaCerts, Install, Inv, TypeOK
  <2>2. TypeOK'
    BY <2>1 DEF Inv, TypeOK, Slot
  <2>3. Frame(e)
    BY <2>1 DEF Inv, TypeOK, Frame
  <2>4. Kept(e)' /\ OneBody(e)'
    BY <1>1, <1>2, <1>3, <2>1, KeptKeeps
  <2>5. Callable(e)'
    <3>1. Callable(e)
      BY <1>1, <1>3, Idle
    <3>2. cb'[e] = cb[e] \cup {"ssl_ctx"} /\ fn'[e] = fn[e] \cup {"ssl_ctx"}
      BY <2>1 DEF Inv, TypeOK
    <3>3. data'[e]["ssl_ctx"] = e /\ \A s \in Slot \ {"ssl_ctx"} : data'[e][s] = data[e][s]
      BY <2>1 DEF Inv, TypeOK, Slot
    <3>4. fn[e] \subseteq Slot
      BY DEF Inv, TypeOK
    <3> QED
      BY <1>2, <2>1, <3>1, <3>2, <3>3, <3>4 DEF Callable
  <2>6. Good(e)'
    BY <1>2, <1>3, <2>1, <2>4, <2>5 DEF Good, Halfway, Connected, Emptied
  <2> QED
    BY <2>2, <2>3, <2>6, Local
<1>4. CASE status[e] = "closed"
  <2>1. /\ cb' = [cb EXCEPT ![e] = cb[e] \ {"ssl_ctx"}]
        /\ UNCHANGED <<status, ref, lib, fn, data, conn, todo>>
    BY <1>4 DEF SetCaCerts
  <2>2. TypeOK'
    BY <2>1 DEF Inv, TypeOK
  <2>3. Frame(e)
    BY <2>1 DEF Inv, TypeOK, Frame
  <2>4. Good(e)'
    BY <1>4, <2>1 DEF Inv, TypeOK, Good, Halfway, Connected, Emptied
  <2> QED
    BY <2>2, <2>3, <2>4, Local
<1> QED
  BY <1>1, <1>3, <1>4

-----------------------------------------------------------------------------
(* The rest of a method.                                                   *)

LEMMA FinishInv ==
  ASSUME Inv, NEW e \in Easy, Finish(e)
  PROVE  Inv'
<1> DEFINE op == todo[e].op
           to == todo[e].to
<1>1. /\ todo[e] # Nothing /\ status[e] = "open" /\ todo[e] \in Todo /\ op # "none"
      /\ Kept(e) /\ OneBody(e) /\ Callable(e)
  BY DEF Finish, Inv, Good, Halfway, TypeOK
<1>2. todo' = [todo EXCEPT ![e] = Nothing]
  BY DEF Finish
<1>3. todo'[e] = Nothing /\ todo'[e].op = "none" /\ todo' \in [Easy -> Todo]
  BY <1>2 DEF Inv, TypeOK, Nothing, Todo
<1>4. CASE op \in {"postfields", "httppost"}
  <2>1. /\ ref' = [ref EXCEPT ![e] = [ref[e] EXCEPT ![op] = to]]
        /\ UNCHANGED <<status, lib, cb, fn, data, conn>>
    BY <1>4 DEF Finish, callbacks, Inv, TypeOK
  <2>2. TypeOK' /\ Frame(e)
    BY <1>1, <1>2, <1>3, <2>1 DEF Inv, TypeOK, Frame, Todo
  <2>3. op \in Field /\ ref'[e] = [ref[e] EXCEPT ![op] = to]
    BY <1>4, <2>1, OptsAssumption DEF Bodies, Inv, TypeOK
  <2>4. \A f \in Field : lib[e][f] # Copy => Agree(lib[e][f], ref'[e][f])
    BY <1>1, <1>4, <2>3 DEF Kept, Inv, TypeOK, Agree
  <2>5. Kept(e)'
    <3>1. \A f \in Field : f # "none"
      BY OptsAssumption DEF Bodies
    <3> QED
      BY <1>3, <2>1, <2>4, <3>1 DEF Kept
  <2>6. Callable(e)'
    <3>1. \A s \in Slot : op # s
      BY <1>4 DEF Slot
    <3>2. fn[e] \subseteq Slot
      BY DEF Inv, TypeOK
    <3> QED
      BY <1>1, <1>3, <1>4, <2>1, <3>1, <3>2 DEF Callable, Slot
  <2>7. Good(e)'
    BY <1>1, <1>3, <2>1, <2>5, <2>6 DEF Good, Halfway, Connected, Emptied, OneBody
  <2> QED
    BY <2>2, <2>7, Local
<1>5. CASE op = "reset"
  <2>1. /\ ref' = [ref EXCEPT ![e] = NoFields] /\ cb' = [cb EXCEPT ![e] = {}]
        /\ UNCHANGED <<lib, fn, data>>
        /\ \/ UNCHANGED <<status, conn>>
           \/ status' = [status EXCEPT ![e] = "closed"] /\ conn' = conn \ {e}
    BY <1>5 DEF Finish, ResetEnd
  <2>2. TypeOK' /\ Frame(e)
    BY <1>2, <1>3, <2>1 DEF Inv, TypeOK, Frame, NoFields, Status
  <2>3. /\ ref'[e] = NoFields /\ lib'[e] = NoFields /\ cb'[e] = {} /\ fn'[e] = {}
        /\ e \notin conn' /\ status'[e] \in {"open", "closed"}
    BY <1>1, <1>5, <2>1 DEF Inv, TypeOK, Kept, Callable
  <2>4. Kept(e)' /\ OneBody(e)' /\ Callable(e)'
    <3>1. \A f \in Field : f # "none" /\ lib'[e][f] = NULL /\ ref'[e][f] = NULL
      BY <2>3, OptsAssumption DEF Bodies, NoFields
    <3> QED
      BY <1>3, <2>3, <3>1, OptsAssumption DEF Kept, OneBody, Callable, Bodies, Agree
  <2>5. Good(e)'
    BY <1>1, <1>3, <2>1, <2>3, <2>4 DEF Good, Halfway, Connected, Emptied
  <2> QED
    BY <2>2, <2>5, Local
<1>6. CASE op \notin {"postfields", "httppost", "reset"}
  <2>1. op \in {"header", "closesocket"}
    BY <1>1, <1>6 DEF Todo
  <2>2. /\ cb' = [cb EXCEPT ![e] = cb[e] \cup {op}]
        /\ fn' = [fn EXCEPT ![e] = fn[e] \cup {op}]
        /\ data' = [data EXCEPT ![e] = [data[e] EXCEPT ![op] = e]]
        /\ UNCHANGED <<status, ref, lib, conn>>
    BY <1>6 DEF Finish, Install, Inv, TypeOK
  <2>3. TypeOK' /\ Frame(e)
    BY <1>2, <1>3, <2>1, <2>2 DEF Inv, TypeOK, Frame, Slot
  <2>4. Kept(e)'
    <3>1. \A f \in Field : f \notin {"none", "header", "closesocket"}
      BY OptsAssumption DEF Bodies
    <3> QED
      BY <1>1, <1>3, <2>1, <2>2, <3>1 DEF Kept
  <2>5. Callable(e)'
    <3>1. cb'[e] = cb[e] \cup {op} /\ fn'[e] = fn[e] \cup {op}
      BY <2>2 DEF Inv, TypeOK
    <3>2. data'[e][op] = e /\ \A s \in Slot \ {op} : data'[e][s] = data[e][s]
      BY <2>1, <2>2 DEF Inv, TypeOK, Slot
    <3>3. fn[e] \subseteq Slot
      BY DEF Inv, TypeOK
    <3> QED
      BY <1>1, <1>3, <2>1, <2>2, <3>1, <3>2, <3>3 DEF Callable
  <2>6. Good(e)'
    BY <1>1, <1>3, <2>2, <2>4, <2>5 DEF Good, Halfway, Connected, Emptied, OneBody
  <2> QED
    BY <2>3, <2>6, Local
<1> QED
  BY <1>4, <1>5, <1>6

-----------------------------------------------------------------------------
(* Handles.                                                                *)

(* An easy without options.                                                *)
LEMMA Fresh ==
  ASSUME NEW e \in Easy, todo'[e] = Nothing,
         ref'[e] = NoFields, lib'[e] = NoFields, cb'[e] = {}, fn'[e] = {}, e \notin conn'
  PROVE  Good(e)'
<1>1. \A f \in Field : ref'[e][f] = NULL /\ lib'[e][f] = NULL /\ f # "none"
  BY OptsAssumption DEF NoFields, Bodies
<1>2. todo'[e].op = "none" /\ Bodies \subseteq Field /\ NULL # Copy
  BY OptsAssumption DEF Nothing
<1>3. Kept(e)' /\ OneBody(e)'
  BY <1>1, <1>2 DEF Kept, OneBody, Bodies, Agree
<1>4. Callable(e)'
  BY <1>2 DEF Callable
<1> QED
  BY <1>3, <1>4 DEF Good, Halfway, Connected, Emptied

LEMMA NewCurlInv ==
  ASSUME Inv, Clean, NEW e \in Easy, NewCurl(e)
  PROVE  Inv'
<1>1. Between /\ status[e] = "none"
  BY DEF NewCurl, Runs, Clean
<1>2. /\ status' = [status EXCEPT ![e] = "open"]
      /\ UNCHANGED <<ref, lib, cb, fn, data, conn, todo>>
  BY DEF NewCurl, callbacks
<1>3. TypeOK' /\ Frame(e)
  BY <1>2 DEF Inv, TypeOK, Frame, Status
<1>4. /\ todo[e] = Nothing /\ e \notin conn
      /\ ref[e] = NoFields /\ lib[e] = NoFields /\ cb[e] = {} /\ fn[e] = {}
  BY <1>1, Idle DEF Inv, Good, Emptied, Connected
<1>5. Good(e)'
  BY <1>2, <1>4, Fresh
<1> QED
  BY <1>3, <1>5, Local

(* A duplicate has references of its own, and its callbacks are called     *)
(* with itself: every function the original had has its callable.          *)
LEMMA DuphandleInv ==
  ASSUME Inv, Clean, NEW e \in Easy, NEW d \in Easy, Duphandle(e, d)
  PROVE  Inv'
<1>1. Between /\ status[e] = "open" /\ status[d] = "none"
  BY DEF Duphandle, Open, Runs, Clean
<1>2. /\ status' = [status EXCEPT ![d] = "open"]
      /\ lib' = [lib EXCEPT ![d] = lib[e]]
      /\ fn' = [fn EXCEPT ![d] = fn[e]] /\ data' = [data EXCEPT ![d] = DupData(e, d)]
      /\ ref' = [ref EXCEPT ![d] = ref[e]] /\ cb' = [cb EXCEPT ![d] = cb[e]]
      /\ UNCHANGED <<conn, todo>>
  BY DEF Duphandle, DupRefs
<1>3. DupData(e, d) \in [Slot -> Easy \cup {NULL}]
  BY DEF DupData, DuphandleOwn, Inv, TypeOK
<1>4. TypeOK' /\ Frame(d)
  BY <1>2, <1>3 DEF Inv, TypeOK, Frame, Status
<1>5. todo'[d] = Nothing /\ todo'[d].op = "none" /\ d \notin conn' /\ status'[d] = "open"
  BY <1>1, <1>2, Idle DEF Inv, TypeOK, Good, Connected
<1>6. lib'[d] = lib[e] /\ ref'[d] = ref[e] /\ cb'[d] = cb[e]
  BY <1>2 DEF Inv, TypeOK
<1>7. Kept(d)' /\ OneBody(d)'
  <2>1. OneBody(e) /\ \A f \in Field : lib[e][f] # Copy => Agree(lib[e][f], ref[e][f])
    BY <1>1, Idle DEF Inv, Good
  <2>2. \A f \in Field : f # "none"
    BY OptsAssumption DEF Bodies
  <2> QED
    BY <1>5, <1>6, <2>1, <2>2 DEF Kept, OneBody
<1>8. Callable(d)'
  <2>1. Callable(e) /\ todo[e].op = "none" /\ fn[e] \subseteq Slot
    BY <1>1, Idle DEF Inv, TypeOK
  <2>2. fn'[d] = fn[e] /\ data'[d] = DupData(e, d)
    BY <1>2 DEF Inv, TypeOK
  <2>3. \A s \in fn[e] : s \in Slot /\ s \in cb[e]
    BY <2>1 DEF Callable, Slot
  <2>4. \A s \in fn[e] : data'[d][s] = d
    BY <2>2, <2>3 DEF DupData, DuphandleOwn
  <2> QED
    BY <1>5, <1>6, <2>2, <2>3, <2>4 DEF Callable
<1>9. Good(d)'
  BY <1>5, <1>7, <1>8 DEF Good, Halfway, Connected, Emptied
<1> QED
  BY <1>4, <1>9, Local

LEMMA ResetInv ==
  ASSUME Inv, Clean, NEW e \in Easy, Reset(e)
  PROVE  Inv'
<1>1. Between /\ status[e] = "open" /\ e \notin conn
  BY DEF Reset, Open, Runs, Clean, LoseSocket
<1>2. /\ lib' = [lib EXCEPT ![e] = NoFields]
      /\ fn' = [fn EXCEPT ![e] = {}] /\ data' = [data EXCEPT ![e] = NoData]
      /\ todo' = [todo EXCEPT ![e] = [op |-> "reset", to |-> NULL]]
      /\ UNCHANGED <<status, ref, cb, conn>>
  BY DEF Reset
<1>3. TypeOK' /\ Frame(e)
  BY <1>2 DEF Inv, TypeOK, Frame, NoFields, NoData, Todo
<1>4. todo'[e].op = "reset" /\ lib'[e] = NoFields /\ fn'[e] = {} /\ status'[e] = "open"
  BY <1>1, <1>2 DEF Inv, TypeOK
<1>5. \A f \in Field : lib'[e][f] = NULL /\ f # "reset"
  BY <1>4, OptsAssumption DEF NoFields, Bodies
<1>6. Kept(e)' /\ OneBody(e)'
  BY <1>4, <1>5, OptsAssumption DEF Kept, OneBody, Bodies
<1>7. Callable(e)'
  BY <1>1, <1>2, <1>4 DEF Callable
<1>8. Good(e)'
  BY <1>2, <1>4, <1>6, <1>7 DEF Good, Halfway, Connected, Emptied
<1> QED
  BY <1>3, <1>8, Local

LEMMA ConnectInv ==
  ASSUME Inv, Clean, NEW e \in Easy, Connect(e) \/ Disconnect(e)
  PROVE  Inv'
<1>1. /\ Between /\ status[e] = "open"
      /\ UNCHANGED <<status, ref, lib, cb, fn, data, todo>>
      /\ \/ conn' = conn \cup {e} /\ "closesocket" \in fn[e]
         \/ conn' = conn \ {e}
  BY DEF Connect, Disconnect, Open, Runs, Clean
<1>2. TypeOK' /\ Frame(e)
  BY <1>1 DEF Inv, TypeOK, Frame
<1>3. todo'[e] = Nothing /\ todo'[e].op = "none"
  BY <1>1, Idle
<1>4. Kept(e)' /\ OneBody(e)'
  BY <1>1, <1>3, KeptKeeps
<1>5. Callable(e)'
  BY <1>1, <1>3, Idle DEF Callable
<1>6. Good(e)'
  BY <1>1, <1>3, <1>4, <1>5 DEF Good, Halfway, Connected, Emptied
<1> QED
  BY <1>2, <1>6, Local

(* close() and the destructor.                                             *)
LEMMA ForgetInv ==
  ASSUME Inv, Clean, NEW e \in Easy, Close(e) \/ Dealloc(e)
  PROVE  Inv'
<1>1. \E st \in {"closed", "none"} : Forget(e, st)
  BY DEF Close, Dealloc
<1>2. PICK st \in {"closed", "none"} : Forget(e, st)
  BY <1>1
<1>3. Between
  BY DEF Close, Dealloc, Open, Runs, Clean
<1>4. TypeOK' /\ Frame(e)
  BY <1>2 DEF Forget, Inv, TypeOK, Frame, NoFields, NoData, Status
<1>5. /\ todo'[e] = Nothing /\ e \notin conn'
      /\ ref'[e] = NoFields /\ lib'[e] = NoFields /\ cb'[e] = {} /\ fn'[e] = {}
  BY <1>2, <1>3, Idle DEF Forget, Inv, TypeOK
<1>6. Good(e)'
  BY <1>5, Fresh
<1> QED
  BY <1>4, <1>6, Local

LEMMA ClearInv ==
  ASSUME Inv, Clean, NEW e \in Easy, Clear(e)
  PROVE  Inv'
<1> DEFINE left == [f \in Field |->
                      IF f \in {"mimepost", "curlu"} /\ ref[e][f] # NULL
                      THEN NULL ELSE lib[e][f]]
<1>1. Between /\ status[e] = "open" /\ e \notin conn
  BY DEF Clear, Open, Runs, Clean, LoseSocket
<1>2. /\ status' = [status EXCEPT ![e] = "cleared"]
      /\ ref' = [ref EXCEPT ![e] = NoFields] /\ cb' = [cb EXCEPT ![e] = {}]
      /\ lib' = [lib EXCEPT ![e] = left]
      /\ UNCHANGED <<fn, data, conn, todo>>
  BY DEF Clear
<1>3. left \in [Field -> Obj \cup {Copy, NULL}]
  BY DEF Inv, TypeOK
<1> HIDE DEF left
<1>5. TypeOK' /\ Frame(e)
  BY <1>2, <1>3 DEF Inv, TypeOK, Frame, NoFields, Status
<1>6. status'[e] = "cleared" /\ todo'[e] = Nothing /\ e \notin conn' /\ lib'[e] = left
  BY <1>1, <1>2, Idle DEF Inv, TypeOK
<1>7. Good(e)'
  BY <1>6 DEF Good, Halfway, Connected, Emptied
<1> QED
  BY <1>5, <1>7, Local

-----------------------------------------------------------------------------
LEMMA NextInv ==
  ASSUME Inv, Clean, [Next]_vars
  PROVE  Inv'
<1>1. ASSUME NEW e \in Easy, NEW f \in Field, NEW o \in Obj, SetObject(e, f, o)
      PROVE  Inv'
  BY <1>1, SetObjectInv
<1>2. ASSUME NEW e \in Easy, NEW o \in Obj,
             SetPostfields(e, o) \/ SetHttppost(e, o) \/ SetMimepost(e, o)
      PROVE  Inv'
  BY <1>2, SetPostfieldsInv, SetHttppostInv, SetMimepostInv
<1>3. ASSUME NEW e \in Easy, NEW f \in Field, UnsetObject(e, f)
      PROVE  Inv'
  BY <1>3, UnsetObjectInv
<1>4. ASSUME NEW e \in Easy, NEW s \in Slot, SetCallable(e, s) \/ UnsetCallback(e, s)
      PROVE  Inv'
  BY <1>4, SetCallableInv, UnsetCallbackInv
<1>5. ASSUME NEW e \in Easy, SetCopyPostfields(e) \/ UnsetWriteheader(e) \/ SetCaCerts(e)
      PROVE  Inv'
  BY <1>5, SetCopyPostfieldsInv, UnsetWriteheaderInv, SetCaCertsInv
<1>6. ASSUME NEW e \in Easy, NEW d \in Easy, Duphandle(e, d)
      PROVE  Inv'
  BY <1>6, DuphandleInv
<1>7. ASSUME NEW e \in Easy, NewCurl(e) \/ Reset(e) \/ Finish(e) \/ Close(e)
      PROVE  Inv'
  BY <1>7, NewCurlInv, ResetInv, FinishInv, ForgetInv
<1>8. ASSUME NEW e \in Easy, Dealloc(e) \/ Clear(e) \/ Connect(e) \/ Disconnect(e)
      PROVE  Inv'
  BY <1>8, ForgetInv, ClearInv, ConnectInv
<1>9. CASE UNCHANGED vars
  BY <1>9 DEF Inv, vars, TypeOK, Good, Halfway, Connected, Emptied, Kept, OneBody,
              Callable
<1> QED
  BY <1>1, <1>2, <1>3, <1>4, <1>5, <1>6, <1>7, <1>8, <1>9 DEF Next

LEMMA Invariance == ASSUME Clean PROVE Spec => []Inv
<1>1. Init => Inv
  BY InitInv
<1>2. Inv /\ [Next]_vars => Inv'
  BY NextInv
<1> QED
  BY <1>1, <1>2, PTL DEF Spec

LEMMA InvImplies ==
  ASSUME Inv, Clean
  PROVE  KeptByOwn /\ CallbackFindsCallable /\ (Uses = {} => BodyIsSent) /\ ClosedHoldsNothing
<1>1. Runs => Between
  BY DEF Runs, Clean
<1>2. KeptByOwn
  BY <1>1, Idle, OptsAssumption DEF KeptByOwn, Agree
<1>3. CallbackFindsCallable
  <2>1. ASSUME NEW e \in Easy, Between, status[e] = "open"
        PROVE  \A s \in fn[e] : data[e][s] = e /\ s \in cb[e]
    <3>1. Callable(e) /\ todo[e].op = "none" /\ fn[e] \subseteq Slot
      BY <2>1, Idle DEF Inv, TypeOK
    <3> QED
      BY <3>1 DEF Callable, Slot
  <2>2. ASSUME NEW e \in Easy, Between, e \in conn
        PROVE  "closesocket" \in cb[e]
    <3>1. status[e] = "open" /\ todo[e].op = "none" /\ Callable(e)
      BY <2>2, Idle DEF Inv, Good, Connected
    <3> QED
      BY <2>2, <3>1 DEF Callable
  <2> QED
    BY <1>1, <2>1, <2>2 DEF CallbackFindsCallable
<1>4. ASSUME Uses = {} PROVE BodyIsSent
  <2>1. {"httppost", "mimepost"} \subseteq Field
    BY OptsAssumption DEF Bodies
  <2>2. ASSUME NEW e \in Easy, Between, status[e] = "open"
        PROVE  /\ lib[e]["httppost"] = ref[e]["httppost"]
               /\ lib[e]["mimepost"] = ref[e]["mimepost"]
               /\ ref[e]["httppost"] = NULL \/ ref[e]["mimepost"] = NULL
    <3>1. OneBody(e) /\ \A f \in Field : lib[e][f] # Copy => Agree(lib[e][f], ref[e][f])
      BY <2>2, Idle
    <3> QED
      BY <1>4, <2>1, <3>1, OptsAssumption DEF OneBody, Agree
  <2> QED
    BY <1>1, <2>2 DEF BodyIsSent
<1>5. ClosedHoldsNothing
  BY DEF ClosedHoldsNothing, Inv, Good, Emptied, Connected
<1> QED
  BY <1>2, <1>3, <1>4, <1>5

(* What libcurl points to is kept by the Curl object itself (easyopt.c),   *)
(* also after a setopt() that failed half way.                             *)
THEOREM OptionsKept == ASSUME Clean PROVE Spec => []KeptByOwn
<1>1. Inv => KeptByOwn
  BY InvImplies
<1> QED
  BY <1>1, Invariance, PTL

(* A function libcurl may call finds its callable, in duplicates too       *)
(* (easy.c:387-469).                                                       *)
THEOREM CallablesFound == ASSUME Clean PROVE Spec => []CallbackFindsCallable
<1>1. Inv => CallbackFindsCallable
  BY InvImplies
<1> QED
  BY <1>1, Invariance, PTL

(* The form or mime that is kept is the one libcurl points to              *)
(* (easyopt.c:833, 1195-1250).                                             *)
THEOREM BodySent == ASSUME Uses = {} PROVE Spec => []BodyIsSent
<1>1. Clean
  BY DEF Clean
<1>2. Inv => BodyIsSent
  BY <1>1, InvImplies
<1>3. Spec => []Inv
  BY <1>1, Invariance
<1> QED
  BY <1>2, <1>3, PTL

(* A closed easy keeps nothing alive (easy.c:688-727).                     *)
THEOREM ClosedHolds == ASSUME Clean PROVE Spec => []ClosedHoldsNothing
<1>1. Inv => ClosedHoldsNothing
  BY InvImplies
<1> QED
  BY <1>1, Invariance, PTL
=============================================================================
