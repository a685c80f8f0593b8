------------------------------- MODULE Payment -------------------------------
(***************************************************************************)
(* verifyPayment and handleWebhook                                         *)
(* (backend/controllers/paymentController.js): the client's verification   *)
(* and Razorpay's webhook deliveries race to credit one order, each in a   *)
(* MongoDB session.                                                        *)
(*                                                                         *)
(* On a replica set the session reads its snapshot and fails with a        *)
(* WriteConflict on a document that others have written since, or hold.    *)
(* On a standalone server its first statement fails (code 20), and neither *)
(* handler has a second attempt without a session.  Razorpay delivers a    *)
(* captured payment's event at least once, and again after any answer but  *)
(* 2xx.                                                                    *)
(***************************************************************************)
EXTENDS Integers, FiniteSets, Functions

CONSTANTS
    Users,
    Orders,        \* RAZORPAY orders: their ADD_MONEY Transaction documents
    Owner,         \* [Orders -> Users]: receiverId
    Value,         \* [Orders -> Nat]: amount
    Verifies,      \* requests of POST /payment/verify
    Deliveries,    \* deliveries of the payment.captured event
    None,
    Mongo,         \* "replica" or "standalone"
    Forgeable,     \* orders a client may verify with a wrong signature
    Busy,          \* users with other wallet traffic
    Faults         \* which of "crash", "mongo" may happen

ASSUME PaymentAssumption ==
    /\ IsFiniteSet(Orders)
    /\ Owner \in [Orders -> Users]
    /\ Value \in [Orders -> Nat \ {0}]
    /\ None \notin Orders
    /\ Verifies \cap Deliveries = {}
    /\ Mongo \in {"replica", "standalone"}
    /\ Faults \subseteq {"crash", "mongo"}

VARIABLES
    balance,    \* Wallet.balance, as committed, above what it was at first
    status,     \* Transaction.status of the order, as committed
    event,      \* status of the order's PaymentWebhookEvent document
    captured,   \* orders whose money Razorpay has
    target,     \* the order a handler works on
    pc,
    out,        \* the answer a handler gives
    txn,        \* its session has a transaction open
    snap,       \* the order's status in its snapshot
    outdated,   \* <<h, "wallet" or "order">>: written since h's snapshot
    disturbed   \* history: orders that met other traffic, a forgery or a fault

dataVars == <<balance, status, event>>
sessionVars == <<txn, snap, outdated>>
vars == <<balance, status, event, captured, target, pc, out, txn, snap,
          outdated, disturbed>>

Handlers == Verifies \cup Deliveries
Statuses == {"PENDING", "SUCCESS", "FAILED"}
VerifyPoints == {"idle", "reject", "rejectCommit", "credit", "mark", "commit", "done"}
WebhookPoints == {"idle", "duplicate", "find", "wmark", "wcredit", "wcommit",
                  "processed", "failed", "done"}
Answers == {"none", "ok", "already", "refused", "error", "ignored", "crashed"}

TypeOK ==
    /\ balance \in [Users -> Nat]
    /\ status \in [Orders -> Statuses]
    /\ event \in [Orders -> {"absent", "RECEIVED", "PROCESSED", "DUPLICATE", "FAILED"}]
    /\ captured \subseteq Orders
    /\ target \in [Handlers -> Orders \cup {None}]
    /\ \A h \in Handlers : target[h] = None => pc[h] = "idle"
    /\ pc \in [Handlers -> VerifyPoints \cup WebhookPoints]
    /\ \A v \in Verifies : pc[v] \in VerifyPoints
    /\ \A w \in Deliveries : pc[w] \in WebhookPoints
    /\ out \in [Handlers -> Answers]
    /\ txn \in [Handlers -> BOOLEAN]
    /\ snap \in [Handlers -> Statuses]
    /\ outdated \subseteq Handlers \X {"wallet", "order"}
    /\ disturbed \subseteq Orders

Init ==
    /\ balance = [u \in Users |-> 0]
    /\ status = [o \in Orders |-> "PENDING"]
    /\ event = [o \in Orders |-> "absent"]
    /\ captured = {}
    /\ target = [h \in Handlers |-> None]
    /\ pc = [h \in Handlers |-> "idle"]
    /\ out = [h \in Handlers |-> "none"]
    /\ txn = [h \in Handlers |-> FALSE]
    /\ snap = [h \in Handlers |-> "PENDING"]
    /\ outdated = {}
    /\ disturbed = {}

-----------------------------------------------------------------------------
(* Helpers *)

User(h) == Owner[target[h]]
Goto(h, p) == pc' = [pc EXCEPT ![h] = p]
Reply(h, o) == pc' = [pc EXCEPT ![h] = "done"] /\ out' = [out EXCEPT ![h] = o]

InSession == {h \in Handlers : txn[h]}

\* The sessions that have written a document and keep it until they end.
HoldsWallet(u) == {h \in InSession : pc[h] \in {"mark", "commit", "wcommit"} /\ User(h) = u}
HoldsOrder(o) == {h \in InSession : /\ pc[h] \in {"rejectCommit", "commit", "wcredit", "wcommit"}
                                    /\ target[h] = o}

OpenSession(h) ==
    /\ txn' = [txn EXCEPT ![h] = TRUE]
    /\ outdated' = outdated \ ({h} \X {"wallet", "order"})

CloseSession(h) == txn' = [txn EXCEPT ![h] = FALSE]

\* The snapshots of the others' open sessions that a commit leaves behind.
OutdateWallet(h) == {q \in InSession \ {h} : User(q) = User(h)} \X {"wallet"}
OutdateOrder(h) == {q \in InSession \ {h} : target[q] = target[h]} \X {"order"}

\* Orders of the same wallet with a session open: h's write is what fails them.
Neighbours(h) == {target[q] : q \in {p \in InSession : User(p) = User(h)}} \ {target[h]}

\* abortSafe.
Abort(h) == CloseSession(h) /\ UNCHANGED <<dataVars, snap, outdated>>

-----------------------------------------------------------------------------
(* verifyPayment *)

\* Mutant: whatever is not PENDING counts as verified.
VerifyLookupNotPending(v, o, genuine) ==
    /\ IF Mongo = "standalone" THEN Reply(v, "error") /\ UNCHANGED sessionVars
       ELSE IF status[o] # "PENDING" THEN Reply(v, "already") /\ UNCHANGED sessionVars
       ELSE /\ OpenSession(v)
            /\ snap' = [snap EXCEPT ![v] = status[o]]
            /\ Goto(v, IF genuine THEN "credit" ELSE "reject")
            /\ UNCHANGED out

\* The order is read in the session, which takes the snapshot; a standalone
\* server fails it.  Then the signature is checked.
VerifyLookup(v, o, genuine) ==
    /\ IF Mongo = "standalone" THEN Reply(v, "error") /\ UNCHANGED sessionVars
       ELSE IF status[o] = "SUCCESS" THEN Reply(v, "already") /\ UNCHANGED sessionVars
       ELSE /\ OpenSession(v)
            /\ snap' = [snap EXCEPT ![v] = status[o]]
            /\ Goto(v, IF genuine THEN "credit" ELSE "reject")
            /\ UNCHANGED out

\* A request with a wrong transaction or order id is refused and touches
\* nothing; it is left out.
VerifyPayment(v) ==
    /\ pc[v] = "idle"
    /\ \E o \in Orders, genuine \in BOOLEAN :
        /\ o \in IF genuine THEN captured ELSE Forgeable
        /\ target' = [target EXCEPT ![v] = o]
        /\ VerifyLookup(v, o, genuine)
        /\ disturbed' = IF genuine THEN disturbed ELSE disturbed \cup {o}
    /\ UNCHANGED <<dataVars, captured>>

\* Mutant: the update lacks the session.
VerifyRejectPlain(v) ==
    /\ pc[v] = "reject"
    /\ HoldsOrder(target[v]) = {}
    /\ status' = [status EXCEPT ![target[v]] = "FAILED"]
    /\ CloseSession(v) /\ Reply(v, "refused")
    /\ UNCHANGED <<balance, event, captured, target, snap, outdated, disturbed>>

\* A bad signature marks the order FAILED, whatever its status.
VerifyReject(v) ==
    /\ pc[v] = "reject"
    /\ IF <<v, "order">> \in outdated \/ HoldsOrder(target[v]) # {}
       THEN Abort(v) /\ Reply(v, "error")
       ELSE Goto(v, "rejectCommit") /\ UNCHANGED <<dataVars, sessionVars, out>>
    /\ UNCHANGED <<captured, target, disturbed>>

VerifyCommitReject(v) ==
    /\ pc[v] = "rejectCommit"
    /\ status' = [status EXCEPT ![target[v]] = "FAILED"]
    /\ outdated' = outdated \cup OutdateOrder(v)
    /\ CloseSession(v)
    /\ Reply(v, "refused")
    /\ UNCHANGED <<balance, event, captured, target, snap, disturbed>>

\* The wallet's upsert and its $inc.
VerifyCredit(v) ==
    /\ pc[v] = "credit"
    /\ IF <<v, "wallet">> \in outdated \/ HoldsWallet(User(v)) # {}
       THEN /\ Abort(v) /\ Reply(v, "error")
            /\ disturbed' = IF \A h \in HoldsWallet(User(v)) : target[h] = target[v]
                            THEN disturbed ELSE disturbed \cup {target[v]}
       ELSE Goto(v, "mark") /\ UNCHANGED <<dataVars, sessionVars, out, disturbed>>
    /\ UNCHANGED <<captured, target>>

\* updateOne({ _id, status: 'PENDING' }): 409 when the snapshot says otherwise.
VerifyMark(v) ==
    /\ pc[v] = "mark"
    /\ IF snap[v] # "PENDING" THEN Abort(v) /\ Reply(v, "refused")
       ELSE IF <<v, "order">> \in outdated \/ HoldsOrder(target[v]) # {}
            THEN Abort(v) /\ Reply(v, "error")
       ELSE Goto(v, "commit") /\ UNCHANGED <<dataVars, sessionVars, out>>
    /\ UNCHANGED <<captured, target, disturbed>>

\* The answer to a commit may fail to arrive.
ReplyLost == "mongo" \in Faults

\* Both writes of a session become visible.
CommitCredit(h) ==
    /\ balance' = [balance EXCEPT ![User(h)] = @ + Value[target[h]]]
    /\ status' = [status EXCEPT ![target[h]] = "SUCCESS"]
    /\ outdated' = outdated \cup OutdateWallet(h) \cup OutdateOrder(h)
    /\ CloseSession(h)

VerifyCommit(v) ==
    /\ pc[v] = "commit"
    /\ CommitCredit(v)
    /\ Reply(v, "ok") \/ (ReplyLost /\ Reply(v, "error"))
    /\ disturbed' = disturbed \cup Neighbours(v)
    /\ UNCHANGED <<event, captured, target, snap>>

-----------------------------------------------------------------------------
(* handleWebhook, for a payment.captured event whose order exists *)

\* The event is inserted unless its eventId is there.
Receive(w) ==
    /\ pc[w] = "idle"
    /\ \E o \in captured :
        /\ target' = [target EXCEPT ![w] = o]
        /\ IF event[o] = "absent"
           THEN event' = [event EXCEPT ![o] = "RECEIVED"] /\ Goto(w, "find")
           ELSE Goto(w, "duplicate") /\ UNCHANGED event
    /\ UNCHANGED <<balance, status, captured, out, sessionVars, disturbed>>

MarkEvent(w, s, o) ==
    /\ event' = [event EXCEPT ![target[w]] = s]
    /\ Reply(w, o)
    /\ UNCHANGED <<balance, status, captured, target, sessionVars, disturbed>>

MarkDuplicate(w) == pc[w] = "duplicate" /\ MarkEvent(w, "DUPLICATE", "ignored")

FindOrder(w) ==
    /\ pc[w] = "find"
    /\ Goto(w, IF status[target[w]] = "SUCCESS" THEN "duplicate" ELSE "wmark")
    /\ UNCHANGED <<dataVars, captured, target, out, sessionVars, disturbed>>

\* Mutant: the filter lacks status: 'PENDING'.
WebhookMarkAny(w) ==
    /\ pc[w] = "wmark"
    /\ IF Mongo = "standalone" \/ HoldsOrder(target[w]) # {}
       THEN Goto(w, "failed") /\ UNCHANGED sessionVars
       ELSE OpenSession(w) /\ Goto(w, "wcredit") /\ UNCHANGED snap
    /\ UNCHANGED <<dataVars, captured, target, out, disturbed>>

\* The session's first statement: PENDING becomes SUCCESS.
WebhookMark(w) ==
    /\ pc[w] = "wmark"
    /\ IF Mongo = "standalone" THEN Goto(w, "failed") /\ UNCHANGED sessionVars
       ELSE IF status[target[w]] # "PENDING" THEN Goto(w, "duplicate") /\ UNCHANGED sessionVars
       ELSE IF HoldsOrder(target[w]) # {} THEN Goto(w, "failed") /\ UNCHANGED sessionVars
       ELSE OpenSession(w) /\ Goto(w, "wcredit") /\ UNCHANGED snap
    /\ UNCHANGED <<dataVars, captured, target, out, disturbed>>

\* The wallet's upsert and $inc, and the balance snapshot on the order held.
WebhookCredit(w) ==
    /\ pc[w] = "wcredit"
    /\ IF <<w, "wallet">> \in outdated \/ HoldsWallet(User(w)) # {}
       THEN /\ Abort(w) /\ Goto(w, "failed")
            /\ disturbed' = IF \A h \in HoldsWallet(User(w)) : target[h] = target[w]
                            THEN disturbed ELSE disturbed \cup {target[w]}
       ELSE Goto(w, "wcommit") /\ UNCHANGED <<dataVars, sessionVars, disturbed>>
    /\ UNCHANGED <<captured, target, out>>

\* Mutant: commitSafe is not called.
WebhookCommitForgotten(w) ==
    /\ pc[w] = "wcommit"
    /\ Abort(w)
    /\ Goto(w, "processed")
    /\ UNCHANGED <<captured, target, out, disturbed>>

WebhookCommit(w) ==
    /\ pc[w] = "wcommit"
    /\ CommitCredit(w)
    /\ Goto(w, "processed") \/ (ReplyLost /\ Goto(w, "failed"))
    /\ disturbed' = disturbed \cup Neighbours(w)
    /\ UNCHANGED <<event, captured, target, out, snap>>

MarkProcessed(w) == pc[w] = "processed" /\ MarkEvent(w, "PROCESSED", "ok")

\* The inner catch: FAILED and 500, and Razorpay will deliver again.
MarkFailed(w) == pc[w] = "failed" /\ MarkEvent(w, "FAILED", "error")

-----------------------------------------------------------------------------
(* Razorpay, other wallet traffic and failures *)

Capture(o) ==
    /\ o \notin captured
    /\ captured' = captured \cup {o}
    /\ UNCHANGED <<dataVars, target, pc, out, sessionVars, disturbed>>

\* A transfer, a refund or a freeze writes the wallet.
OtherTraffic(u) ==
    /\ HoldsWallet(u) = {}
    /\ LET hit == {h \in InSession : User(h) = u} IN
       /\ outdated' = outdated \cup (hit \X {"wallet"})
       /\ disturbed' = disturbed \cup {target[h] : h \in hit}
    /\ UNCHANGED <<dataVars, captured, target, pc, out, txn, snap>>

Active(h) == pc[h] \notin {"idle", "done"}

Crash(h) ==
    /\ "crash" \in Faults /\ Active(h)
    /\ Abort(h) /\ Reply(h, "crashed")
    /\ disturbed' = disturbed \cup {target[h]}
    /\ UNCHANGED <<captured, target>>

\* An error in the webhook's inner try is recorded on the event; the outer
\* catch only answers 500.
MongoError(h) ==
    /\ "mongo" \in Faults /\ Active(h)
    /\ Abort(h)
    /\ \/ /\ pc[h] \in {"wmark", "wcredit", "wcommit", "processed", "duplicate"}
          /\ Goto(h, "failed")
          /\ UNCHANGED out
       \/ /\ pc[h] \notin {"wmark", "wcredit", "wcommit", "processed"}
          /\ Reply(h, "error")
    /\ disturbed' = disturbed \cup {target[h]}
    /\ UNCHANGED <<captured, target>>

Next ==
    \/ \E v \in Verifies :
        \/ VerifyPayment(v) \/ VerifyReject(v) \/ VerifyCommitReject(v)
        \/ VerifyCredit(v) \/ VerifyMark(v) \/ VerifyCommit(v)
    \/ \E w \in Deliveries :
        \/ Receive(w) \/ MarkDuplicate(w) \/ FindOrder(w) \/ WebhookMark(w)
        \/ WebhookCredit(w) \/ WebhookCommit(w) \/ MarkProcessed(w) \/ MarkFailed(w)
    \/ \E o \in Orders : Capture(o)
    \/ \E u \in Busy : OtherTraffic(u)
    \/ \E h \in Handlers : Crash(h) \/ MongoError(h)

Spec == Init /\ [][Next]_vars

-----------------------------------------------------------------------------
(* What a payment promises *)

Credited(u) == SumFunctionOnSet(Value, {o \in Orders : Owner[o] = u /\ status[o] = "SUCCESS"})

\* "would re-credit the user's wallet for the same payment" (README.md:954):
\* a wallet has received each captured payment once if its order is SUCCESS
\* and not at all otherwise, however verifications, deliveries, conflicts and
\* crashes interleave.
MoneyMatchesOrders ==
    /\ \A u \in Users : balance[u] = Credited(u)
    /\ \A o \in Orders : status[o] = "SUCCESS" => o \in captured

\* A credited order never becomes FAILED or PENDING again, though a bad
\* signature writes FAILED with no look at the status (line 383).
SuccessIsFinal ==
    [][\A o \in Orders : status[o] = "SUCCESS" => status'[o] = "SUCCESS"]_vars

\* A client or Razorpay that is told of a success, and an event filed as
\* PROCESSED, have the credit behind them.
SuccessIsTold ==
    /\ \A h \in Handlers : out[h] \in {"ok", "already"} => status[target[h]] = "SUCCESS"
    /\ \A o \in Orders : event[o] = "PROCESSED" => status[o] = "SUCCESS"

Settled(o) ==
    /\ \E h \in Handlers : target[h] = o
    /\ \A h \in Handlers : target[h] = o => pc[h] = "done"

\* Verification and webhook may fail each other with WriteConflicts, but not
\* both: once every handler of a captured order is done the order is
\* credited, unless something else got in the way.
RaceHasAWinner ==
    \A o \in captured \ disturbed : Settled(o) => status[o] = "SUCCESS"

WithStatus(s) == {o \in Orders : status[o] = s}

Book == INSTANCE OrderBook WITH
    opened <- WithStatus("PENDING"), paid <- WithStatus("SUCCESS"),
    failed <- WithStatus("FAILED")

\* Verifications and webhooks take an order through OrderBook: each settles
\* at most once, and one that a bad signature has made FAILED is not paid
\* afterwards, however they overlap (verifyPayment, lines 381-437;
\* handleWebhook, lines 556-592).
OrdersFollowBook == Book!BookSpec
=============================================================================
