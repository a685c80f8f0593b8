----------------------------- MODULE MCScheduled -----------------------------
(* TLC instances of Scheduled. *)
EXTENDS Scheduled

CONSTANTS alice, bob, s1, s2

\* A single payment and a monthly one of the same sender, who has money for
\* one of them.
Plans == [s \in Schedules |->
    [from |-> alice, to |-> bob, amount |-> IF s = s1 THEN 2 ELSE 1,
     recurring |-> s = s2, interval |-> s = s2]]
Funded == [u \in Users |-> 3]

\* Bound: after a fault and a spend or a changed hold, the second schedule is
\* not created any more.
FewWhenFailing ==
    mishaps + spends < 2 \/ \E s \in Schedules : front[s] = "none"
=============================================================================
