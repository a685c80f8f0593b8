------------------------------ MODULE MCProfile ------------------------------
(* TLC instances of Profile. *)
EXTENDS Profile, TLC

Symmetry == Permutations(Submits) \cup Permutations(Admins) \cup Permutations(Pages)
=============================================================================
