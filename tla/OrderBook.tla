------------------------------ MODULE OrderBook ------------------------------
(***************************************************************************)
(* What the backend promises about Razorpay orders, with no key, session,  *)
(* webhook or page: an order is put on record once, nobody pays one that   *)
(* is not on record, and a recorded order is settled at most once, as      *)
(* paid only if Razorpay has its money.                                    *)
(***************************************************************************)
VARIABLES
    opened,     \* orders on record and not settled: PENDING
    paid,       \* SUCCESS
    failed,     \* FAILED
    captured    \* orders whose money Razorpay has

orderVars == <<opened, paid, failed, captured>>

OnRecord == opened \cup paid \cup failed

\* Orders may have been opened before.
BookInit == paid = {} /\ failed = {} /\ captured = {}

Open(o) ==
    /\ o \notin OnRecord
    /\ opened' = opened \cup {o}
    /\ UNCHANGED <<paid, failed, captured>>

Capture(o) ==
    /\ o \in OnRecord \ captured
    /\ captured' = captured \cup {o}
    /\ UNCHANGED <<opened, paid, failed>>

Settled(o) == o \in opened /\ opened' = opened \ {o} /\ UNCHANGED captured

Succeed(o) ==
    /\ Settled(o) /\ o \in captured
    /\ paid' = paid \cup {o}
    /\ UNCHANGED failed

Reject(o) ==
    /\ Settled(o)
    /\ failed' = failed \cup {o}
    /\ UNCHANGED paid

BookNext ==
    \/ \E o \in opened' : Open(o)
    \/ \E o \in captured' : Capture(o)
    \/ \E o \in opened : Succeed(o) \/ Reject(o)

BookSpec == BookInit /\ [][BookNext]_orderVars
=============================================================================
