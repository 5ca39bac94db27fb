---------------------------- MODULE MCAsyncMulti ----------------------------
(* Instances of AsyncMulti for TLC: handles and futures are model values.  *)
EXTENDS AsyncMulti, TLC

\* Handles are alike, and so are futures (sound for the safety runs only).
Symmetry == Permutations(Curl) \cup Permutations(Fut)

=============================================================================
