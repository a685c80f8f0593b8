------------------------------ MODULE WalletBook ------------------------------
(***************************************************************************)
(* What transferMoney promises about money, with no lock, session, retry   *)
(* or record: a request takes its amount from one wallet at most once, and *)
(* only what is not held in escrow; what was taken is either in flight or  *)
(* has been given to the other wallet exactly once.  A transaction does    *)
(* both in one step; the non-transactional fallback does them in two and   *)
(* may stop in between.                                                    *)
(***************************************************************************)
EXTENDS Integers, Functions

CONSTANTS
    Users,
    Requests,
    Amounts,       \* what a request may move
    InitBalance    \* [Users -> Nat]

VARIABLES
    balance,   \* balance[u]: what readers of the wallet see
    held,      \* held[u]: what disputes hold of it
    taken,     \* requests whose debit is visible
    flight     \* flight[r]: taken by r and not yet given

bookVars == <<balance, held, taken, flight>>

BookTypeOK ==
    /\ balance \in [Users -> Int]
    /\ held \in [Users -> Int]
    /\ taken \subseteq Requests
    /\ flight \in [Requests -> Nat]

BookInit ==
    /\ balance = InitBalance
    /\ held = [u \in Users |-> 0]
    /\ taken = {}
    /\ flight = [r \in Requests |-> 0]

Take(r, s, a) ==
    /\ r \notin taken
    /\ balance[s] - held[s] >= a
    /\ balance' = [balance EXCEPT ![s] = @ - a]
    /\ taken' = taken \cup {r}
    /\ flight' = [flight EXCEPT ![r] = a]
    /\ UNCHANGED held

Give(r, t) ==
    /\ flight[r] > 0
    /\ balance' = [balance EXCEPT ![t] = @ + flight[r]]
    /\ flight' = [flight EXCEPT ![r] = 0]
    /\ UNCHANGED <<held, taken>>

Move(r, s, t, a) ==
    /\ r \notin taken
    /\ s # t
    /\ balance[s] - held[s] >= a
    /\ balance' = [balance EXCEPT ![s] = @ - a, ![t] = @ + a]
    /\ taken' = taken \cup {r}
    /\ UNCHANGED <<held, flight>>

\* One request's step, whatever its amount.
BookStep(r) ==
    \/ \E s \in Users, a \in Amounts : Take(r, s, a)
    \/ \E t \in Users : Give(r, t)
    \/ \E s, t \in Users, a \in Amounts : Move(r, s, t, a)

\* Disputes hold and release what they like, apart from every transfer.
Hold == held' \in [Users -> Int] /\ UNCHANGED <<balance, taken, flight>>

BookNext == Hold \/ \E r \in Requests : BookStep(r)

BookSpec == BookInit /\ [][BookNext]_bookVars

-----------------------------------------------------------------------------

\* Money is neither made nor lost: what left the wallets is in flight.
Conserved ==
    FoldFunction(+, 0, balance) + FoldFunction(+, 0, flight)
        = FoldFunction(+, 0, InitBalance)
=============================================================================
