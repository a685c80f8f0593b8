------------------------------- MODULE Transfer -------------------------------
(***************************************************************************)
(* transferMoney (backend/controllers/walletController.js) as the requests *)
(* of several clients run it, interleaved at every await, over MongoDB and *)
(* the Redis lock, together with the admin's freeze and unfreeze.          *)
(*                                                                         *)
(* MongoDB.  In "replica" mode a multi-document transaction buffers its    *)
(* writes until the commit, takes its snapshot at its first statement, and *)
(* fails with a WriteConflict when it writes a wallet that somebody else   *)
(* has written since the snapshot or has written and not yet committed.    *)
(* In "standalone" mode the driver accepts startTransaction but the first  *)
(* statement of the session fails (code 20).  In "nosession" mode          *)
(* startSessionSafe itself falls back.  A write outside a transaction      *)
(* waits for the transaction that holds its document.  Wallet documents    *)
(* have timestamps, so every update of one writes it (updatedAt).          *)
(*                                                                         *)
(* A request with out = "ok" has its SUCCESS Transaction document; the     *)
(* documents are represented by the requests that wrote them.              *)
(***************************************************************************)
EXTENDS Integers, FiniteSets, Functions

CONSTANTS
    Users,
    Requests,
    NoKey,          \* the request carries no idempotency key
    Free,           \* the Redis lock key does not exist
    Payloads,       \* [from, to, amount, key] records the clients may send
    Ineligible,     \* receivers unknown, unverified or deactivated
    InitBalance,
    Disputed,       \* wallets whose escrowHeld disputes change
    HoldLevels,     \* what they change it to
    TransferLimit,  \* KYC per-transfer limit
    DailyLimit,     \* KYC daily limit
    Mongo,          \* "replica", "standalone" or "nosession"
    Frozen,         \* wallets the admin freezes and unfreezes
    Faults          \* which of "crash", "redis", "slow", "mongo" may happen

ASSUME TransferAssumption ==
    /\ IsFiniteSet(Users) /\ IsFiniteSet(Requests)
    /\ Free \notin Requests
    /\ \A p \in Payloads : /\ p.from \in Users
                           /\ p.to \in Users \cup Ineligible
                           /\ p.amount \in Nat \ {0}
    /\ InitBalance \in [Users -> Nat]
    /\ Disputed \subseteq Users /\ HoldLevels \subseteq Int
    /\ Frozen \subseteq Users
    /\ Mongo \in {"replica", "standalone", "nosession"}
    /\ Faults \subseteq {"crash", "redis", "slow", "mongo"}

VARIABLES
    balance,    \* Wallet.balance as committed
    held,       \* Wallet.escrowHeld
    status,     \* Wallet.status
    recorded,   \* requests whose SUCCESS Transaction is committed
    ledger,     \* <<r, side>>: committed LedgerEntry documents
    lock,       \* lock[u]: token under lock:wallet:<u>
    args,       \* the request's payload
    pc,         \* the await the request stands at
    out,        \* the answer it gives
    token,      \* lockToken # null
    txn,        \* the attempt's transaction is open
    forced,     \* forceNoTransaction
    moved,      \* how far this attempt moved the money
    stale,      \* others wrote the receiver's wallet since r's snapshot
    seen,       \* balances read for the snapshot and the ledger
    troubles    \* history: the faults that have struck so far

moneyVars == <<balance, recorded, ledger>>
mongoVars == <<txn, forced, moved, stale, seen>>
lockVars  == <<lock, token>>
othersVars == <<held, status>>
vars == <<balance, held, status, recorded, ledger, lock, args, pc, out,
          token, txn, forced, moved, stale, seen, troubles>>

Sides == {"DEBIT", "CREDIT"}
Points == {"outer", "wallet", "limits", "lock", "attempt", "receiver",
           "ensureFrom", "ensureTo", "debit", "credit", "fetch", "record", "ledger",
           "commit", "release", "done", "early"}
Answers == {"none", "ok", "replay", "refused", "insufficient", "contention",
            "error", "crashed", "lost"}

TypeOK ==
    /\ balance \in [Users -> Int]
    /\ held \in [Users -> Int]
    /\ status \in [Users -> {"active", "frozen"}]
    /\ recorded \subseteq Requests
    /\ ledger \subseteq Requests \X Sides
    /\ lock \in [Users -> Requests \cup {Free}]
    /\ args \in [Requests -> Payloads]
    /\ pc \in [Requests -> Points]
    /\ out \in [Requests -> Answers]
    /\ token \in [Requests -> BOOLEAN]
    /\ txn \in [Requests -> BOOLEAN]
    /\ forced \in [Requests -> BOOLEAN]
    /\ moved \in [Requests -> {"no", "debited", "credited"}]
    /\ stale \in [Requests -> BOOLEAN]
    /\ seen \in [Requests -> [from : Int, to : Int]]
    /\ troubles \subseteq Faults

Init ==
    /\ balance = InitBalance
    /\ held = [u \in Users |-> 0]
    /\ status = [u \in Users |-> "active"]
    /\ recorded = {}
    /\ ledger = {}
    /\ lock = [u \in Users |-> Free]
    /\ args \in [Requests -> Payloads]
    /\ pc = [r \in Requests |-> "outer"]
    /\ out = [r \in Requests |-> "none"]
    /\ token = [r \in Requests |-> FALSE]
    /\ txn = [r \in Requests |-> FALSE]
    /\ forced = [r \in Requests |-> FALSE]
    /\ moved = [r \in Requests |-> "no"]
    /\ stale = [r \in Requests |-> FALSE]
    /\ seen = [r \in Requests |-> [from |-> 0, to |-> 0]]
    /\ troubles = {}

-----------------------------------------------------------------------------
(* Helpers *)

From(r) == args[r].from
To(r) == args[r].to
Amount(r) == args[r].amount

Goto(r, p) == pc' = [pc EXCEPT ![r] = p]
Reply(r, p, o) == pc' = [pc EXCEPT ![r] = p] /\ out' = [out EXCEPT ![r] = o]

\* The fault f happens now.
Strike(f) == f \in Faults /\ troubles' = troubles \cup {f}

SameKey(q, r) == From(q) = From(r) /\ args[q].key = args[r].key

\* findOne({ idempotencyUserId, idempotencyKey, type }) with status SUCCESS.
Replayed(r) == args[r].key # NoKey /\ \E q \in recorded : SameKey(q, r)

\* The unique index on (idempotencyUserId, idempotencyKey).  A request
\* without a key stores null, which the compound sparse index holds too.
Duplicate(r) == \E q \in recorded : SameKey(q, r)

\* getAlreadySpentToday
Spent(u) == SumFunctionOnSet([r \in Requests |-> Amount(r)],
                             {r \in recorded : From(r) = u})

Available(u) == balance[u] - held[u]

\* Mutant: the filter forgets escrowHeld.
CanDebitIgnoringHolds(r) == balance[From(r)] >= Amount(r)

\* The debit's filter: $expr balance - escrowHeld >= amount.
CanDebit(r) == Available(From(r)) >= Amount(r)

\* The credit's update.
CreditedBalance(r) == [balance EXCEPT ![To(r)] = @ + Amount(r)]

\* The wallets an open transaction has written and keeps until it ends.
InMoney == {"debit", "credit", "fetch", "record", "ledger", "commit"}
Holds(q, u) ==
    /\ txn[q]
    /\ \/ pc[q] = "ensureTo" /\ u = From(q)
       \/ pc[q] \in InMoney /\ u \in {From(q), To(q)}
HeldByOther(r, u) == \E q \in Requests \ {r} : Holds(q, u)
InsertedByOther(r) ==
    \E q \in Requests \ {r} :
        txn[q] /\ pc[q] \in {"ledger", "commit"} /\ SameKey(q, r)

\* The wallets in ws change under every other open snapshot.
Outdate(r, ws) ==
    stale' = [q \in Requests |->
                stale[q] \/ (q # r /\ txn[q] /\ pc[q] = "ensureTo" /\ To(q) \in ws)]

\* Mutant: abortTransaction is never called.
AbortForgotten(r) == UNCHANGED <<txn, moved>> /\ stale' = [stale EXCEPT ![r] = FALSE]

\* abortSafe: the buffered writes are dropped.
Abort(r) ==
    /\ txn' = [txn EXCEPT ![r] = FALSE]
    /\ moved' = [moved EXCEPT ![r] = IF txn[r] THEN "no" ELSE @]
    /\ stale' = [stale EXCEPT ![r] = FALSE]

\* Mutant: forceNoTransaction is not set.
FallBackUnforced(r) ==
    /\ Abort(r)
    /\ Goto(r, "attempt")
    /\ UNCHANGED <<moneyVars, forced, out, seen>>

\* catch: the error matches isTransactionUnsupportedError (code 20, but also
\* any message with the word "transaction", such as a WriteConflict or a
\* duplicate key in the collection "transactions"): one more attempt,
\* without a transaction.
FallBack(r) ==
    /\ Abort(r)
    /\ forced' = [forced EXCEPT ![r] = TRUE]
    /\ Goto(r, "attempt")
    /\ UNCHANGED <<moneyVars, out, seen>>

\* An early return inside the loop: abort, then release the lock.
Leave(r, o) ==
    /\ Abort(r)
    /\ Reply(r, "release", o)
    /\ UNCHANGED <<moneyVars, forced, seen>>

-----------------------------------------------------------------------------
(* Before the lock *)

\* Step 1: the outer idempotency check.
OuterCheck(r) ==
    /\ pc[r] = "outer"
    /\ IF Replayed(r) THEN Reply(r, "early", "replay")
                      ELSE Goto(r, "wallet") /\ UNCHANGED out
    /\ UNCHANGED <<moneyVars, mongoVars, lockVars, othersVars, args, troubles>>

\* Steps 2 and 3: wallet status, early effective-balance check and the KYC
\* per-transfer limit.
CheckWallet(r) ==
    /\ pc[r] = "wallet"
    /\ IF status[From(r)] # "active" THEN Reply(r, "early", "refused")
       ELSE IF Available(From(r)) < Amount(r) THEN Reply(r, "early", "insufficient")
       ELSE IF Amount(r) > TransferLimit THEN Reply(r, "early", "refused")
       ELSE Goto(r, "limits") /\ UNCHANGED out
    /\ UNCHANGED <<moneyVars, mongoVars, lockVars, othersVars, args, troubles>>

\* Step 4: the rolling daily limit, read before the lock.
CheckDailyLimit(r) ==
    /\ pc[r] = "limits"
    /\ IF Spent(From(r)) + Amount(r) > DailyLimit
       THEN Reply(r, "early", "refused")
       ELSE Goto(r, "lock") /\ UNCHANGED out
    /\ UNCHANGED <<moneyVars, mongoVars, lockVars, othersVars, args, troubles>>

-----------------------------------------------------------------------------
(* Step 5: the lock.  acquireLock's retries are stuttering here. *)

\* Mutant: SET without NX.
AcquireLockAnyway(r) ==
    /\ pc[r] = "lock"
    /\ lock' = [lock EXCEPT ![From(r)] = r]
    /\ token' = [token EXCEPT ![r] = TRUE]
    /\ Goto(r, "attempt")
    /\ UNCHANGED <<moneyVars, mongoVars, othersVars, args, troubles, out>>

AcquireLock(r) ==
    /\ pc[r] = "lock"
    /\ lock[From(r)] = Free
    /\ lock' = [lock EXCEPT ![From(r)] = r]
    /\ token' = [token EXCEPT ![r] = TRUE]
    /\ Goto(r, "attempt")
    /\ UNCHANGED <<moneyVars, mongoVars, othersVars, args, troubles, out>>

LockContention(r) ==
    /\ pc[r] = "lock"
    /\ lock[From(r)] # Free
    /\ Reply(r, "done", "contention")
    /\ UNCHANGED <<moneyVars, mongoVars, lockVars, othersVars, args, troubles>>

\* Redis is unreachable or its reply is lost: the transfer goes on unlocked.
LockUnavailable(r) ==
    /\ Strike("redis")
    /\ pc[r] = "lock"
    /\ \/ UNCHANGED lock
       \/ lock[From(r)] = Free /\ lock' = [lock EXCEPT ![From(r)] = r]
    /\ Goto(r, "attempt")
    /\ UNCHANGED <<moneyVars, mongoVars, othersVars, args, out, token>>

-----------------------------------------------------------------------------
(* One attempt of the loop *)

\* Mutant: the idempotency check inside the lock is gone.
StartAttemptUnchecked(r) ==
    /\ pc[r] = "attempt"
    /\ Goto(r, "receiver")
    /\ txn' = [txn EXCEPT ![r] = ~forced[r] /\ Mongo # "nosession"]
    /\ UNCHANGED <<moneyVars, lockVars, othersVars, args, troubles, forced, moved, stale, seen,
                   out>>

\* startSessionSafe, then the idempotency check again, outside the session.
StartAttempt(r) ==
    /\ pc[r] = "attempt"
    /\ IF Replayed(r)
       THEN Reply(r, "release", "replay") /\ UNCHANGED txn
       ELSE /\ Goto(r, "receiver")
            /\ txn' = [txn EXCEPT ![r] = ~forced[r] /\ Mongo # "nosession"]
            /\ UNCHANGED out
    /\ UNCHANGED <<moneyVars, lockVars, othersVars, args, troubles, forced, moved, stale, seen>>

\* Unknown, unverified or deactivated receiver, or the sender itself.
LookupReceiver(r) ==
    /\ pc[r] = "receiver"
    /\ IF To(r) \in Ineligible \/ To(r) = From(r)
       THEN Leave(r, "refused")
       ELSE Goto(r, "ensureFrom") /\ UNCHANGED <<moneyVars, mongoVars, out>>
    /\ UNCHANGED <<lockVars, othersVars, args, troubles>>

\* The upsert of the sender's wallet: the session's first statement, which
\* takes the snapshot and which a standalone server rejects.
EnsureSender(r) ==
    /\ pc[r] = "ensureFrom"
    /\ \/ /\ txn[r]
          /\ Mongo = "standalone" \/ HeldByOther(r, From(r))
          /\ FallBack(r)
       \/ /\ ~(txn[r] /\ Mongo = "standalone") /\ ~HeldByOther(r, From(r))
          /\ IF txn[r] THEN stale' = [stale EXCEPT ![r] = FALSE]
                       ELSE Outdate(r, {From(r)})
          /\ Goto(r, "ensureTo")
          /\ UNCHANGED <<moneyVars, txn, forced, moved, seen, out>>
    /\ UNCHANGED <<lockVars, othersVars, args, troubles>>

\* The upsert of the receiver's wallet.
EnsureReceiver(r) ==
    /\ pc[r] = "ensureTo"
    /\ \/ /\ txn[r]
          /\ stale[r] \/ HeldByOther(r, To(r))
          /\ FallBack(r)
       \/ /\ ~(txn[r] /\ stale[r]) /\ ~HeldByOther(r, To(r))
          /\ IF txn[r] THEN UNCHANGED stale ELSE Outdate(r, {To(r)})
          /\ Goto(r, "debit")
          /\ UNCHANGED <<moneyVars, txn, forced, moved, seen, out>>
    /\ UNCHANGED <<lockVars, othersVars, args, troubles>>

\* The guarded debit.  Outside a transaction it waits for the wallet and is
\* visible at once; inside one it is buffered, on a wallet already held.
Debit(r) ==
    /\ pc[r] = "debit"
    /\ ~txn[r] => ~HeldByOther(r, From(r))
    /\ IF ~CanDebit(r) THEN Leave(r, "insufficient")
       ELSE /\ IF txn[r] THEN UNCHANGED <<balance, stale>>
               ELSE /\ balance' = [balance EXCEPT ![From(r)] = @ - Amount(r)]
                    /\ Outdate(r, {From(r)})
            /\ moved' = [moved EXCEPT ![r] = "debited"]
            /\ Goto(r, "credit")
            /\ UNCHANGED <<recorded, ledger, txn, forced, seen, out>>
    /\ UNCHANGED <<lockVars, othersVars, args, troubles>>

Credit(r) ==
    /\ pc[r] = "credit"
    /\ ~txn[r] => ~HeldByOther(r, To(r))
    /\ IF txn[r] THEN UNCHANGED <<balance, stale>>
       ELSE /\ balance' = CreditedBalance(r)
            /\ Outdate(r, {To(r)})
    /\ moved' = [moved EXCEPT ![r] = "credited"]
    /\ Goto(r, "fetch")
    /\ UNCHANGED <<lockVars, othersVars, args, troubles, recorded, ledger, txn, forced, seen,
                   out>>

\* Mutant: the destructuring swaps the two wallets.
FetchSwapped(r) ==
    /\ pc[r] = "fetch"
    /\ seen' = [seen EXCEPT ![r] = [from |-> balance[To(r)], to |-> balance[From(r)]]]
    /\ Goto(r, "record")
    /\ UNCHANGED <<moneyVars, lockVars, othersVars, args, troubles, out, txn, forced, moved,
                   stale>>

\* Wallet.findOne for both wallets, without the session: committed values.
FetchBalances(r) ==
    /\ pc[r] = "fetch"
    /\ seen' = [seen EXCEPT ![r] = [from |-> balance[From(r)], to |-> balance[To(r)]]]
    /\ Goto(r, "record")
    /\ UNCHANGED <<moneyVars, lockVars, othersVars, args, troubles, out, txn, forced, moved,
                   stale>>

\* Transaction.create outside a transaction: waits for an uncommitted insert
\* of the same key, fails on a committed one with the money already moved.
RecordPlain(r) ==
    /\ pc[r] = "record" /\ ~txn[r]
    /\ ~InsertedByOther(r)
    /\ IF Duplicate(r) THEN Leave(r, "error")
       ELSE /\ recorded' = recorded \cup {r}
            /\ Goto(r, "ledger")
            /\ UNCHANGED <<balance, ledger, mongoVars, out>>
    /\ UNCHANGED <<lockVars, othersVars, args, troubles>>

RecordTxn(r) ==
    /\ pc[r] = "record" /\ txn[r]
    /\ IF Duplicate(r) \/ InsertedByOther(r) THEN FallBack(r)
       ELSE Goto(r, "ledger") /\ UNCHANGED <<moneyVars, mongoVars, out>>
    /\ UNCHANGED <<lockVars, othersVars, args, troubles>>

\* LedgerEntry.create sends one insert per entry; outside a transaction each
\* is visible on its own, and the last one ends the attempt with no commit.
LedgerPlain(r) ==
    /\ pc[r] = "ledger" /\ ~txn[r]
    /\ \E side \in Sides :
        /\ <<r, side>> \notin ledger
        /\ ledger' = ledger \cup {<<r, side>>}
        /\ IF \A x \in Sides : <<r, x>> \in ledger' THEN Reply(r, "release", "ok")
                                                   ELSE UNCHANGED <<pc, out>>
    /\ UNCHANGED <<balance, recorded, mongoVars, lockVars, othersVars, args, troubles>>

LedgerTxn(r) ==
    /\ pc[r] = "ledger" /\ txn[r]
    /\ Goto(r, "commit")
    /\ UNCHANGED <<moneyVars, mongoVars, lockVars, othersVars, args, troubles, out>>

\* commitTransaction: every buffered write becomes visible at once.
Commit(r) ==
    /\ pc[r] = "commit"
    /\ balance' = [balance EXCEPT ![From(r)] = @ - Amount(r), ![To(r)] = @ + Amount(r)]
    /\ recorded' = recorded \cup {r}
    /\ ledger' = ledger \cup ({r} \X Sides)
    /\ txn' = [txn EXCEPT ![r] = FALSE]
    /\ Outdate(r, {From(r), To(r)})
    /\ \/ Reply(r, "release", "ok") /\ UNCHANGED troubles
       \/ Reply(r, "release", "error") /\ Strike("mongo")  \* reply lost
    /\ UNCHANGED <<lockVars, othersVars, args, forced, moved, seen>>

\* The effects of a request leaving the lock, whatever becomes of its entry.
LeaveLock(r) ==
    /\ token' = [token EXCEPT ![r] = FALSE]
    /\ Goto(r, "done")
    /\ UNCHANGED <<moneyVars, mongoVars, othersVars, args, out>>

\* Mutant: DEL without comparing the token.
ReleaseAnyLock(r) ==
    /\ pc[r] = "release"
    /\ lock' = IF token[r] THEN [lock EXCEPT ![From(r)] = Free] ELSE lock
    /\ UNCHANGED troubles
    /\ LeaveLock(r)

\* releaseLock; on success invalidateMany and the audit log come before it
\* and the socket events and notification jobs after it.
ReleaseLock(r) ==
    /\ pc[r] = "release"
    /\ \/ /\ lock' = IF token[r] /\ lock[From(r)] = r
                     THEN [lock EXCEPT ![From(r)] = Free] ELSE lock
          /\ UNCHANGED troubles
       \/ Strike("redis") /\ UNCHANGED lock
    /\ LeaveLock(r)

-----------------------------------------------------------------------------
(* Failures, the lock's TTL and the admin *)

Critical == {"attempt", "receiver", "ensureFrom", "ensureTo", "debit", "credit", "fetch",
             "record", "ledger", "commit", "release"}

\* Mutant: every error gets the second attempt.
MongoErrorRetried(r) ==
    /\ Strike("mongo")
    /\ pc[r] \in Critical \ {"release"}
    /\ FallBack(r)
    /\ UNCHANGED <<lockVars, othersVars, args>>

\* A MongoDB error inside the try that does not mention transactions: abort,
\* release, 500.
MongoError(r) ==
    /\ Strike("mongo")
    /\ pc[r] \in Critical \ {"release"}
    /\ Leave(r, "error")
    /\ UNCHANGED <<lockVars, othersVars, args>>

\* The request goes on no more; whoever has the lock for it keeps it.
End(r, p, o) ==
    /\ Abort(r)
    /\ Reply(r, p, o)
    /\ token' = IF p = "done" THEN [token EXCEPT ![r] = FALSE] ELSE token
    /\ UNCHANGED <<moneyVars, lock, othersVars, args, forced, seen>>

\* MongoDB fails at an await outside every try: the reads before the lock and
\* startSessionSafe, which follows it.  Express hears nothing of the rejected
\* handler, server.js:182 logs it, nobody answers and nobody releases.
LoseRequest(r) ==
    /\ Strike("mongo")
    /\ \/ pc[r] \in {"outer", "wallet", "limits"} /\ End(r, "early", "lost")
       \/ pc[r] = "attempt" /\ ~forced[r] /\ End(r, "done", "lost")

\* The process dies; MongoDB aborts its transaction, Redis keeps the lock.
Crash(r) ==
    /\ Strike("crash")
    /\ pc[r] \in Critical \cup {"lock"}
    /\ End(r, "done", "crashed")

ExpireLock(u) ==
    /\ lock[u] # Free
    /\ IF pc[lock[u]] \in Critical THEN Strike("slow") ELSE UNCHANGED troubles
    /\ lock' = [lock EXCEPT ![u] = Free]
    /\ UNCHANGED <<moneyVars, mongoVars, othersVars, args, pc, out, token>>

\* Another handler's update of a wallet waits for the transaction that holds
\* it and overtakes the other snapshots.
UpdateFromOutside(u) ==
    /\ \A q \in Requests : ~Holds(q, u)
    /\ stale' = [q \in Requests |->
                   stale[q] \/ (txn[q] /\ pc[q] = "ensureTo" /\ To(q) = u)]
    /\ UNCHANGED <<moneyVars, lockVars, args, pc, out, txn, forced, moved, seen, troubles>>

\* freezeWallet and unfreezeWallet: one findOneAndUpdate of the wallet.
SetStatus(u, new) ==
    /\ status' = [status EXCEPT ![u] = new]
    /\ UpdateFromOutside(u)
    /\ UNCHANGED held

FreezeWallet(u) == SetStatus(u, "frozen")
UnfreezeWallet(u) == SetStatus(u, "active")

\* A dispute of u's is raised or closed: $inc of escrowHeld, at any time and
\* whatever the balance (see Dispute for what it is changed by).
MoveHold(u) ==
    /\ \E h \in HoldLevels : held' = [held EXCEPT ![u] = h]
    /\ UpdateFromOutside(u)
    /\ UNCHANGED status

Step(r) ==
    \/ OuterCheck(r) \/ CheckWallet(r) \/ CheckDailyLimit(r)
    \/ AcquireLock(r) \/ LockContention(r) \/ LockUnavailable(r)
    \/ StartAttempt(r) \/ LookupReceiver(r) \/ EnsureSender(r) \/ EnsureReceiver(r)
    \/ Debit(r) \/ Credit(r) \/ FetchBalances(r) \/ RecordPlain(r) \/ RecordTxn(r)
    \/ LedgerPlain(r) \/ LedgerTxn(r) \/ Commit(r) \/ ReleaseLock(r)

Next ==
    \/ \E r \in Requests : Step(r) \/ MongoError(r) \/ LoseRequest(r) \/ Crash(r)
    \/ \E u \in Users : ExpireLock(u)
    \/ \E u \in Frozen : FreezeWallet(u) \/ UnfreezeWallet(u)
    \/ \E u \in Disputed : MoveHold(u)

Spec == Init /\ [][Next]_vars

\* The event loop resumes every request whose reply has arrived, and a TTL
\* fires.  Arrivals, failures and the admin are not fair.
FairSpec ==
    /\ Spec
    /\ \A r \in Requests : WF_vars(pc[r] # "outer" /\ Step(r))
    /\ \A u \in Users : WF_vars(ExpireLock(u))

-----------------------------------------------------------------------------
(* What a transfer promises *)

\* r's debit is visible to everybody.
Debited(r) == moved[r] # "no" /\ ~txn[r]
Answered(r) == pc[r] \in {"done", "early"}

\* Redis has answered every command, and no transfer outlived its lock.
Calm == troubles \cap {"redis", "slow"} = {}

\* Every transfer so far has run in a MongoDB transaction.
Transactional == Mongo = "replica" /\ \A r \in Requests : ~forced[r]

Book == INSTANCE WalletBook WITH
    Amounts <- {p.amount : p \in Payloads},
    taken   <- {r \in Requests : Debited(r)},
    flight  <- [r \in Requests |->
                  IF Debited(r) /\ moved[r] = "debited" THEN Amount(r) ELSE 0]

\* Where in the lock's protocol a request stands.
LockPhase ==
    [p \in Points |-> CASE p = "lock"      -> "trying"
                        [] p \in Critical -> "critical"
                        [] p = "done"      -> "done"
                        [] OTHER           -> "idle"]

Lock == INSTANCE DistributedLock WITH
    Resources    <- Users,
    RetryCount   <- 1,
    calm    <- Calm,
    store   <- lock,
    want    <- [r \in Requests |-> From(r)],
    attempt <- [r \in Requests |-> IF LockPhase[pc[r]] = "idle" THEN 0 ELSE 1],
    phase   <- [r \in Requests |-> LockPhase[pc[r]]]

-----------------------------------------------------------------------------
(* The inductive invariant behind NoOverdraft and MoneyFollowsBook *)

\* How far an attempt has moved the money follows from where it stands.
MovedByPoint(r) ==
    /\ pc[r] \in {"outer", "wallet", "limits", "lock", "early", "attempt",
                 "receiver", "ensureFrom", "ensureTo", "debit"} => moved[r] = "no"
    /\ pc[r] = "credit" => moved[r] = "debited"
    /\ pc[r] \in {"fetch", "record", "ledger", "commit"} => moved[r] = "credited"

\* A transaction is open only inside an attempt, and a commit has one.
TxnByPoint(r) ==
    /\ txn[r] => pc[r] \in {"receiver", "ensureFrom", "ensureTo"} \cup InMoney
    /\ pc[r] = "commit" => txn[r]

\* From the receiver check on, the money goes to another existing wallet.
ReceiverChecked(r) ==
    pc[r] \in {"ensureFrom", "ensureTo"} \cup InMoney =>
        To(r) \in Users /\ To(r) # From(r)

\* Nobody else holds a wallet that r's open transaction holds.
HoldsAlone(r) == \A u \in Users : Holds(r, u) => ~HeldByOther(r, u)

\* A transaction that has buffered its debit can still afford it: nobody
\* else can touch the wallet it holds.
BufferedAffordable(r) ==
    txn[r] /\ pc[r] \in InMoney \ {"debit"} => Available(From(r)) >= Amount(r)

RequestInv(r) ==
    /\ MovedByPoint(r)
    /\ TxnByPoint(r)
    /\ ReceiverChecked(r)
    /\ HoldsAlone(r)
    /\ BufferedAffordable(r)

MoneyInv == \A r \in Requests : RequestInv(r)

\* Whatever the locks, sessions, retries and failures do, the wallets change
\* only as WalletBook allows: one guarded debit and one credit per request.
MoneyFollowsBook == Book!BookSpec

\* transferMoney calls acquireLock and releaseLock as DistributedLock expects:
\* the lock changes hands only through its protocol.
LockFollowsProtocol == Lock!Init /\ [][Lock!Next]_Lock!vars

\* "The atomic $inc with $gte guard still prevents negative balance"
\* (walletController.js:289), with Redis down, locks expired, crashes and
\* write conflicts, and with disputes placing holds between the checks, the
\* debit and the commit: no debit takes what is held when it becomes visible,
\* nor more than there is.
NoOverdraft ==
    [][\A u \in Users : balance'[u] < balance[u] => balance'[u] >= held'[u]]_vars

\* "10 simultaneous transfers same idempotency key - exactly 1 debit"
\* (concurrency.test.js:74): two requests of one user with the same key never
\* both take money, until Redis fails, or something fails outside a
\* transaction.
DebitOncePerKey ==
    troubles = {} \/ (Calm /\ Transactional) =>
        \A r, q \in Requests :
            r # q /\ Debited(r) /\ Debited(q) /\ SameKey(r, q) => args[r].key = NoKey

\* "no phantom debits or credits" (concurrency.test.js:154): a request that
\* has finished moved money exactly when it answered ok, and then it left a
\* Transaction and both ledger entries; one that did not leaves nothing.
TruthfulAnswer(r) ==
    pc[r] = "done" =>
        IF out[r] = "ok"
        THEN /\ moved[r] = "credited"
             /\ r \in recorded
             /\ \A side \in Sides : <<r, side>> \in ledger
        ELSE moved[r] = "no" /\ r \notin recorded

NoPhantomDebit == \A r \in Requests : TruthfulAnswer(r)

\* The same for the requests that carry a key, until something fails.
KeyedAnswersAreTrue ==
    troubles = {} => \A r \in Requests : args[r].key # NoKey => TruthfulAnswer(r)

\* Money is neither made nor lost: what is not in a wallet is in flight.  And
\* it is never stranded between two wallets by a request that is over, unless
\* that had fallen back to the path without a transaction.
NothingStranded ==
    /\ Book!Conserved
    /\ \A r \in Requests :
        Answered(r) /\ moved[r] = "debited" => forced[r] \/ Mongo # "replica"

\* Nobody but the lock's holder is between the lock and its release, on any
\* return path, until Redis fails or a transfer outlives the TTL.
OneTransferPerSender ==
    Calm => \A r, q \in Requests :
                r # q /\ pc[r] \in Critical /\ pc[q] \in Critical => From(r) # From(q)

\* "senderWallet.balance is post-debit" (walletController.js:441): when no
\* other request has moved money, the balanceAfter of the DEBIT entry is the
\* sender's balance after the transfer.
DebitEntryIsPostDebit(r) ==
    /\ <<r, "DEBIT">> \in ledger
    /\ \A q \in Requests \ {r} : moved[q] = "no"
    => seen[r].from = InitBalance[From(r)] - Amount(r)

\* It holds for the transfers that ran without a transaction; inside one, the
\* balances are read outside its session and are those from before the debit.
PlainLedgerShowsPostDebit ==
    \A r \in Requests : forced[r] => DebitEntryIsPostDebit(r)

\* Every request that reached the handler is answered: the lock, the attempt
\* that a standalone mongod refuses, the one that follows it and the failures
\* of either end in an answer, and "Safety net: release lock if the while loop
\* exits without returning" (walletController.js:554) is never reached.  A
\* request is left alone only if its process dies or MongoDB fails outside the
\* try, at lines 174 to 264 or 312.
EveryTransferAnswered ==
    \A r \in Requests : pc[r] # "outer" ~> out[r] # "none"
=============================================================================
