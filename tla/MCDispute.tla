------------------------------ MODULE MCDispute ------------------------------
(* TLC instances of Dispute: alice paid bob twice. *)
EXTENDS Dispute, TLC

CONSTANTS alice, bob, t1, t2

Paid == [t \in Transfers |-> [from |-> alice, to |-> bob, amount |-> IF t = t1 THEN 1 ELSE 2]]
NothingLeft == [u \in Users |-> 0]
Symmetry == Permutations(Raises) \cup Permutations(Reviews)
=============================================================================
