------------------------------ MODULE MCSession ------------------------------
(* TLC instances of Session. *)
EXTENDS Session

CONSTANTS t1, t2, q1, q2, q3

\* Two requests in one tab, one in another.
TwoTabs == [q \in Requests |-> IF q = q3 THEN t2 ELSE t1]
=============================================================================
