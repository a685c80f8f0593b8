------------------------------- MODULE MCViews -------------------------------
(* TLC instances of Views. *)
EXTENDS Views, TLC

Symmetry == Permutations(Fetches) \cup Permutations(Queries)
=============================================================================
