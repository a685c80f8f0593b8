------------------------------- MODULE Dispute -------------------------------
(***************************************************************************)
(* raiseDispute, resolveDispute and rejectDispute                          *)
(* (backend/controllers/disputeController.js) as the requests of users and *)
(* admins run them: no session and no lock, one MongoDB write per step.    *)
(*                                                                         *)
(* A dispute is named by the request that raised it, and the reversal      *)
(* Transaction of a resolved dispute by the dispute, which can itself be   *)
(* disputed by the user who paid it.                                       *)
(***************************************************************************)
EXTENDS Integers, FiniteSets, Functions

CONSTANTS
    Users,
    Transfers,     \* successful transfers of the last day
    Original,      \* [Transfers -> [from, to, amount]]
    Raises,        \* requests of POST /disputes
    Reviews,       \* requests of POST /disputes/admin/resolve and /reject
    None,
    InitBalance,
    MayStop        \* may the process die, or MongoDB fail, in a handler?

ASSUME DisputeAssumption ==
    /\ Original \in [Transfers -> [from : Users, to : Users, amount : Nat \ {0}]]
    /\ Transfers \cap Raises = {} /\ Raises \cap Reviews = {}
    /\ None \notin Transfers \cup Raises
    /\ IsFiniteSet(Raises)
    /\ InitBalance \in [Users -> Nat]
    /\ MayStop \in BOOLEAN

VARIABLES
    balance,     \* Wallet.balance
    escrowHeld,  \* Wallet.escrowHeld
    disputes,    \* disputes[r]: the Dispute document r created
    reversals,   \* disputes with a DISPUTE_REVERSAL Transaction
    target,      \* the transaction disputed, or the dispute reviewed
    pc,          \* the await the request stands at
    dead,        \* requests that stopped where they stand
    overlapped,  \* history: disputes with two reviews under way at once
    retaken      \* history: disputes taken up again after a review that let
                 \* go of the hold had stopped short of its verdict

walletVars == <<balance, escrowHeld>>
vars == <<balance, escrowHeld, disputes, reversals, target, pc, dead,
          overlapped, retaken>>
history == <<overlapped, retaken>>

Handlers == Raises \cup Reviews
Statuses == {"pending", "resolved", "rejected"}
Documents == [txn : Transfers \cup Raises, by : Users, against : Users,
              amount : Nat, status : Statuses]
ASSUME NoneIsNoDocument == None \notin Documents
RaisePoints == {"idle", "lookup", "create", "hold", "done", "refused"}
ReviewPoints == {"idle", "reverse", "refund", "claw", "resolve",
                 "release", "reject", "resolved", "rejected", "refused"}

TypeOK ==
    /\ balance \in [Users -> Int]
    /\ escrowHeld \in [Users -> Int]
    /\ disputes \in [Raises -> Documents \cup {None}]
    /\ reversals \subseteq {d \in Raises : disputes[d] # None}
    /\ target \in [Handlers -> Transfers \cup Raises \cup {None}]
    /\ pc \in [Handlers -> RaisePoints \cup ReviewPoints]
    /\ \A r \in Raises : pc[r] \in RaisePoints
    /\ \A a \in Reviews : pc[a] \in ReviewPoints
    /\ dead \subseteq Handlers
    /\ overlapped \subseteq Raises /\ retaken \subseteq Raises

Init ==
    /\ balance = InitBalance
    /\ escrowHeld = [u \in Users |-> 0]
    /\ disputes = [r \in Raises |-> None]
    /\ reversals = {}
    /\ target = [h \in Handlers |-> None]
    /\ pc = [h \in Handlers |-> "idle"]
    /\ dead = {}
    /\ overlapped = {} /\ retaken = {}

-----------------------------------------------------------------------------
(* Helpers *)

Goto(h, p) == h \notin dead /\ pc' = [pc EXCEPT ![h] = p]
Exists == {d \in Raises : disputes[d] # None}
Open(d) == disputes[d].status = "pending"

\* The Transaction documents and what they say: a reversal pays back what
\* its dispute was about.
Transactions == Transfers \cup reversals
Transaction(t) ==
    IF t \in Transfers THEN Original[t]
    ELSE [from |-> disputes[t].against, to |-> disputes[t].by,
          amount |-> disputes[t].amount]

\* The dispute a review works on, and its parties.
By(a) == disputes[target[a]].by
Against(a) == disputes[target[a]].against
Amount(a) == disputes[target[a]].amount

-----------------------------------------------------------------------------
(* raiseDispute *)

\* The transaction is read; it is refused if it is not the caller's own, is
\* not successful or is older than 24 hours.
ReadTransaction(r) ==
    /\ pc[r] = "idle"
    /\ \E t \in Transactions :
        /\ target' = [target EXCEPT ![r] = t]
        /\ Goto(r, "lookup") \/ Goto(r, "refused")
    /\ UNCHANGED <<walletVars, disputes, reversals, dead, history>>

\* "One dispute per transaction": Dispute.findOne({ transactionId }).
LookupExisting(r) ==
    /\ pc[r] = "lookup"
    /\ Goto(r, IF \E d \in Exists : disputes[d].txn = target[r]
               THEN "refused" ELSE "create")
    /\ UNCHANGED <<walletVars, disputes, reversals, target, dead, history>>

CreateDispute(r) ==
    /\ pc[r] = "create"
    /\ LET t == Transaction(target[r]) IN
       disputes' = [disputes EXCEPT ![r] =
          [txn |-> target[r], by |-> t.from, against |-> t.to,
           amount |-> t.amount, status |-> "pending"]]
    /\ Goto(r, "hold")
    /\ UNCHANGED <<walletVars, reversals, target, dead, history>>

HoldEscrow(r) ==
    /\ pc[r] = "hold"
    /\ escrowHeld' = [escrowHeld EXCEPT ![disputes[r].by] = @ + disputes[r].amount]
    /\ Goto(r, "done")
    /\ UNCHANGED <<balance, disputes, reversals, target, dead, history>>

-----------------------------------------------------------------------------
(* resolveDispute and rejectDispute *)

Reviewing(d, points) == {a \in Reviews : target[a] = d /\ pc[a] \in points}
Unfinished == {"reverse", "refund", "claw", "resolve", "release", "reject"}
HoldGone == {"claw", "resolve", "reject"}

\* What a review that starts on d meets: one still at work, or what one that
\* stopped has left.
Meets(d) ==
    /\ overlapped' = IF Reviewing(d, Unfinished) \subseteq dead THEN overlapped
                     ELSE overlapped \cup {d}
    /\ retaken' = IF Reviewing(d, HoldGone) \cap dead = {} THEN retaken
                  ELSE retaken \cup {d}

\* Mutant: the status is not looked at.
ReadClosedToo(a) ==
    /\ pc[a] = "idle"
    /\ \E d \in Exists :
        /\ target' = [target EXCEPT ![a] = d]
        /\ Goto(a, "reverse") \/ Goto(a, "release")
        /\ Meets(d)
    /\ UNCHANGED <<walletVars, disputes, reversals, dead>>

\* The dispute is read, and with it both wallets, which exist.
ReadDispute(a) ==
    /\ pc[a] = "idle"
    /\ \E d \in Exists :
        /\ target' = [target EXCEPT ![a] = d]
        /\ \/ /\ Open(d)
              /\ Goto(a, "reverse") \/ Goto(a, "release")
              /\ Meets(d)
           \/ /\ ~Open(d)
              /\ Goto(a, "refused")
              /\ UNCHANGED history
    /\ UNCHANGED <<walletVars, disputes, reversals, dead>>

\* Mutant: a fresh idempotency key for every call.
CreateReversalUnkeyed(a) ==
    /\ pc[a] = "reverse"
    /\ reversals' = reversals \cup {target[a]}
    /\ Goto(a, "refund")
    /\ UNCHANGED <<walletVars, disputes, target, dead, history>>

\* Transaction.create with the key dispute-reversal-<id>, which is unique: a
\* second one fails, and with it the request.
CreateReversal(a) ==
    /\ pc[a] = "reverse"
    /\ reversals' = reversals \cup {target[a]}
    /\ Goto(a, IF target[a] \in reversals THEN "refused" ELSE "refund")
    /\ UNCHANGED <<walletVars, disputes, target, dead, history>>

\* Mutant: the hold stays.
RefundKeepsHold(a) ==
    /\ pc[a] = "refund"
    /\ balance' = [balance EXCEPT ![By(a)] = @ + Amount(a)]
    /\ Goto(a, "claw")
    /\ UNCHANGED <<escrowHeld, disputes, reversals, target, dead, history>>

\* The sender gets the money back and the hold is released.
Refund(a) ==
    /\ pc[a] = "refund"
    /\ balance' = [balance EXCEPT ![By(a)] = @ + Amount(a)]
    /\ escrowHeld' = [escrowHeld EXCEPT ![By(a)] = @ - Amount(a)]
    /\ Goto(a, "claw")
    /\ UNCHANGED <<disputes, reversals, target, dead, history>>

\* The receiver pays, with no guard on what is there.
Claw(a) ==
    /\ pc[a] = "claw"
    /\ balance' = [balance EXCEPT ![Against(a)] = @ - Amount(a)]
    /\ Goto(a, "resolve")
    /\ UNCHANGED <<escrowHeld, disputes, reversals, target, dead, history>>

\* rejectDispute: only the hold is released.
ReleaseEscrow(a) ==
    /\ pc[a] = "release"
    /\ escrowHeld' = [escrowHeld EXCEPT ![By(a)] = @ - Amount(a)]
    /\ Goto(a, "reject")
    /\ UNCHANGED <<balance, disputes, reversals, target, dead, history>>

\* Dispute.findByIdAndUpdate, whatever the status is by now.
Close(a, status) ==
    /\ disputes' = [disputes EXCEPT ![target[a]].status = status]
    /\ Goto(a, status)
    /\ UNCHANGED <<walletVars, reversals, target, dead, history>>

CloseResolved(a) == pc[a] = "resolve" /\ Close(a, "resolved")
CloseRejected(a) == pc[a] = "reject" /\ Close(a, "rejected")

-----------------------------------------------------------------------------

\* The process dies or a write fails: what was written stays written.
Stop(h) ==
    /\ MayStop
    /\ pc[h] \notin {"idle", "done", "refused", "resolved", "rejected"}
    /\ dead' = dead \cup {h}
    /\ UNCHANGED <<walletVars, disputes, reversals, target, pc, history>>

Next ==
    \/ \E r \in Raises :
        ReadTransaction(r) \/ LookupExisting(r) \/ CreateDispute(r) \/ HoldEscrow(r)
    \/ \E a \in Reviews :
        \/ ReadDispute(a)
        \/ CreateReversal(a) \/ Refund(a) \/ Claw(a) \/ CloseResolved(a)
        \/ ReleaseEscrow(a) \/ CloseRejected(a)
    \/ \E h \in Handlers : Stop(h)

Spec == Init /\ [][Next]_vars

-----------------------------------------------------------------------------
(* What a dispute promises *)

\* Reviews of d that have made their writes up to a point.
Past(d, points) == \E a \in Reviews : target[a] = d /\ pc[a] \in points
Refunded(d) == Past(d, {"claw", "resolve", "resolved"})
Clawed(d) == Past(d, {"resolve", "resolved"})
Released(d) == Refunded(d) \/ Past(d, {"reject", "rejected"})
Held(d) == d \in Exists /\ pc[d] = "done"

Amounts == [d \in Raises |-> IF d \in Exists THEN disputes[d].amount ELSE 0]
Sum(ds) == SumFunctionOnSet(Amounts, ds)
RaisedBy(u) == {d \in Exists : disputes[d].by = u}
RaisedAgainst(u) == {d \in Exists : disputes[d].against = u}

\* However reviews interleave, repeat or stop, the wallets hold exactly what
\* the reversal records moved: each dispute refunds at most once and
\* claws at most once, and only with its record (the unique key of line 199
\* guards the two $inc).
MoneyMatchesReversals ==
    /\ \A d \in Raises : Refunded(d) => d \in reversals
    /\ \A u \in Users :
        balance[u] = InitBalance[u] + Sum({d \in RaisedBy(u) : Refunded(d)})
                                    - Sum({d \in RaisedAgainst(u) : Clawed(d)})

\* "held in escrow": a wallet holds exactly its disputes still to be
\* released, wherever requests stop and however often reviews are tried
\* again.  Excepted are disputes two admins worked on at once, and those
\* taken up again after a review had released the hold and stopped before
\* line 213 or 275 wrote its verdict: the hold is then released twice.
EscrowMatchesOpen ==
    \A u \in Users :
        RaisedBy(u) \cap (overlapped \cup retaken) = {} =>
            escrowHeld[u] = Sum({d \in RaisedBy(u) : Held(d)})
                            - Sum({d \in RaisedBy(u) : Released(d)})

\* "Dispute resolved. Transfer reversed." and "Original transfer stands.":
\* the verdict on file is what happened to the money.  A resolved dispute
\* was refunded and clawed back, whatever happened; a rejected one was not,
\* with the exceptions of EscrowMatchesOpen.
VerdictMatchesMoney ==
    \A d \in Exists :
        /\ disputes[d].status = "resolved" => Refunded(d) /\ Clawed(d)
        /\ disputes[d].status = "rejected" /\ d \notin overlapped \cup retaken =>
              ~Refunded(d)

\* A verdict is never changed, however many reviews stop and are tried
\* again, unless two admins worked on it at once.
VerdictIsFinal ==
    [][\A d \in Exists : ~Open(d) => d \in overlapped \/ disputes'[d] = disputes[d]]_vars
=============================================================================
