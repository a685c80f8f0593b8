------------------------------ MODULE MCAddMoney ------------------------------
(* TLC instances of AddMoney. *)
EXTENDS AddMoney, TLC

Symmetry == Permutations(Requests)

\* Bound: the third request is made only while nothing has failed.
FewWhenFailing == mishaps = 0 \/ \E r \in Requests : At(r, "idle")
=============================================================================
