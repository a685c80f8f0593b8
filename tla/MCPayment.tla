------------------------------ MODULE MCPayment ------------------------------
(* TLC instances of Payment: orders of one user, who shares one wallet. *)
EXTENDS Payment, TLC

CONSTANTS alice, o1

AllAlices == [o \in Orders |-> alice]
OneTwo == [o \in Orders |-> IF o = o1 THEN 1 ELSE 2]
Symmetry == Permutations(Verifies) \cup Permutations(Deliveries)
=============================================================================
