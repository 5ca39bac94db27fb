---------------------------- MODULE MCCallbacks ----------------------------
EXTENDS Callbacks, TLC

(* Easies are alike, and so are threads. *)
Alike == Permutations(Easy) \cup Permutations(Thread)
=============================================================================
