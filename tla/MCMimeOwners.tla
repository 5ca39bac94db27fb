---------------------------- MODULE MCMimeOwners ----------------------------
EXTENDS MimeOwners, TLC

Symmetry == Permutations(Curl) \cup Permutations(Mime) \cup Permutations(Part)
                \cup Permutations(Owner)
=============================================================================
