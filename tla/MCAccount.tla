------------------------------ MODULE MCAccount ------------------------------
(* TLC instances of Account. *)
EXTENDS Account, TLC

Symmetry == Permutations(AuthRequests)
=============================================================================
