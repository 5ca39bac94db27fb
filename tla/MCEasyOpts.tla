----------------------------- MODULE MCEasyOpts -----------------------------
EXTENDS EasyOpts, TLC

(* Easies are alike, and so are the objects. *)
Alike == Permutations(Easy) \cup Permutations(Obj)
=============================================================================
