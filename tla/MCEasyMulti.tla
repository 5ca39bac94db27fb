---------------------------- MODULE MCEasyMulti ----------------------------
(* Instances of EasyMulti for TLC: the constants are model values in the   *)
(* .cfg files, interchangeable where symmetry is declared.                 *)
EXTENDS EasyMulti, TLC

\* Threads and easies are alike.
Symmetry == Permutations(Thread) \cup Permutations(Easy)

=============================================================================
