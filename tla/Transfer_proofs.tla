--------------------------- MODULE Transfer_proofs ---------------------------
(***************************************************************************)
(* Proofs about Transfer for every set of users, requests, payloads,       *)
(* limits and failures, in the three MongoDB modes.                        *)
(*                                                                         *)
(* MoneyInv is about sessions, held wallets and movements; the guard on    *)
(* every debit and the refinement of WalletBook follow from it.  The       *)
(* refinement of DistributedLock gives that one transfer of a sender runs  *)
(* at a time.  TraceInv (what each point has left behind), KeyInv (who has *)
(* debited under a key) and SightInv (what a transfer saw) rest on these,  *)
(* and on sums over the wallets rests conservation.                        *)
(***************************************************************************)
EXTENDS Transfer, SumTheorems, TLAPS

USE DEF moneyVars, mongoVars, lockVars, othersVars, Strike, CanDebit, CreditedBalance, LeaveLock,
        End, UpdateFromOutside

-----------------------------------------------------------------------------
(* Typing, first of the five shapes most steps have *)

\* The literals the actions use are points and answers.
LEMMA Labels ==
    /\ {"outer", "wallet", "limits", "lock", "attempt", "receiver", "ensureFrom",
        "ensureTo", "debit", "credit", "fetch", "record", "ledger", "commit",
        "release", "done", "early"} \subseteq Points
    /\ {"none", "ok", "replay", "refused", "insufficient", "contention", "error",
        "crashed", "lost"} \subseteq Answers
BY DEF Points, Answers

\* A step that only moves one request on.
LEMMA GotoType ==
    ASSUME TypeOK, NEW r \in Requests, NEW p \in Points, Goto(r, p),
           UNCHANGED <<moneyVars, mongoVars, lockVars, othersVars, args, troubles, out>>
    PROVE  TypeOK'
BY DEF TypeOK, Goto

\* A step that answers one request and leaves the rest alone.
LEMMA ReplyType ==
    ASSUME TypeOK, NEW r \in Requests, NEW p \in Points, NEW o \in Answers,
           Reply(r, p, o),
           UNCHANGED <<moneyVars, mongoVars, lockVars, othersVars, args, troubles>>
    PROVE  TypeOK'
BY DEF TypeOK, Reply

\* An abort drops a transaction's writes.
LEMMA AbortType ==
    ASSUME TypeOK, NEW r \in Requests, Abort(r)
    PROVE  /\ txn' \in [Requests -> BOOLEAN]
           /\ moved' \in [Requests -> {"no", "debited", "credited"}]
           /\ stale' \in [Requests -> BOOLEAN]
BY DEF TypeOK, Abort

\* What has struck stays a possible fault.
LEMMA TroublesType ==
    ASSUME TypeOK, \/ UNCHANGED troubles
                   \/ \E f \in Faults : troubles' = troubles \cup {f}
    PROVE  troubles' \subseteq Faults
BY DEF TypeOK

\* A return from the loop.
LEMMA LeaveType ==
    ASSUME TypeOK, NEW r \in Requests, NEW o \in Answers, Leave(r, o),
           UNCHANGED <<lockVars, othersVars, args>>, troubles' \subseteq Faults
    PROVE  TypeOK'
<1>1. Abort(r) /\ Reply(r, "release", o) /\ UNCHANGED <<moneyVars, forced, seen>>
  BY DEF Leave
<1> QED
  BY <1>1, AbortType, Labels DEF TypeOK, Reply

\* A second attempt.
LEMMA FallBackType ==
    ASSUME TypeOK, NEW r \in Requests, FallBack(r),
           UNCHANGED <<lockVars, othersVars, args, troubles>>
    PROVE  TypeOK'
<1>1. /\ Abort(r) /\ Goto(r, "attempt") /\ UNCHANGED <<moneyVars, out, seen>>
      /\ forced' = [forced EXCEPT ![r] = TRUE]
  BY DEF FallBack
<1> QED
  BY <1>1, AbortType, Labels DEF TypeOK, Goto

\* A committed write outdates other snapshots.
LEMMA OutdateType ==
    ASSUME TypeOK, NEW r \in Requests, NEW ws, Outdate(r, ws)
    PROVE  stale' \in [Requests -> BOOLEAN]
BY DEF TypeOK, Outdate

\* The payload's parts.
LEMMA PayloadType ==
    ASSUME TypeOK, NEW r \in Requests
    PROVE  From(r) \in Users /\ Amount(r) \in Nat /\ Amount(r) > 0
BY TransferAssumption DEF TypeOK, From, Amount

AllReceiversChecked == \A r \in Requests : ReceiverChecked(r)

\* Only LookupReceiver lets a request into the money steps, and it refuses a
\* receiver without a wallet and the sender itself.
LEMMA ReceiverStep ==
    TypeOK /\ AllReceiversChecked /\ [Next]_vars => AllReceiversChecked'
<1> SUFFICES ASSUME TypeOK, AllReceiversChecked, [Next]_vars,
                    NEW q \in Requests,
                    pc'[q] \in {"ensureFrom", "ensureTo"} \cup InMoney
             PROVE  To(q)' \in Users /\ To(q)' # From(q)'
  BY DEF AllReceiversChecked, ReceiverChecked
<1>1. args' = args
  BY DEF Next, Step, vars, OuterCheck, CheckWallet, CheckDailyLimit, AcquireLock,
         LockContention, LockUnavailable, StartAttempt, LookupReceiver, EnsureSender,
         EnsureReceiver, Debit, Credit, FetchBalances, RecordPlain, RecordTxn,
         LedgerPlain, LedgerTxn, Commit, ReleaseLock, MongoError, LoseRequest, Crash, ExpireLock,
         FreezeWallet, UnfreezeWallet, MoveHold, SetStatus
<1>2. ASSUME pc[q] \in {"ensureFrom", "ensureTo"} \cup InMoney
      PROVE  To(q) \in Users /\ To(q) # From(q)
  BY <1>2 DEF AllReceiversChecked, ReceiverChecked
<1>3. ASSUME pc[q] \notin {"ensureFrom", "ensureTo"} \cup InMoney
      PROVE  LookupReceiver(q) /\ pc'[q] = "ensureFrom"
  <2> USE DEF TypeOK, InMoney, Goto, Reply, Leave, FallBack
  <2>1. ASSUME NEW r \in Requests,
           Step(r) \/ MongoError(r) \/ LoseRequest(r) \/ Crash(r)
        PROVE  LookupReceiver(r) /\ r = q
    <3>1. ~(OuterCheck(r) \/ CheckWallet(r) \/ CheckDailyLimit(r))
      BY <1>3 DEF OuterCheck, CheckWallet, CheckDailyLimit
    <3>2. ~(AcquireLock(r) \/ LockContention(r) \/ LockUnavailable(r))
      BY <1>3 DEF AcquireLock, LockContention, LockUnavailable
    <3>3. ~(StartAttempt(r) \/ EnsureSender(r) \/ EnsureReceiver(r))
      BY <1>3 DEF StartAttempt, EnsureSender, EnsureReceiver
    <3>4. ~(Debit(r) \/ Credit(r) \/ FetchBalances(r))
      BY <1>3 DEF Debit, Credit, FetchBalances
    <3>5. ~(RecordPlain(r) \/ RecordTxn(r) \/ LedgerPlain(r) \/ LedgerTxn(r))
      BY <1>3 DEF RecordPlain, RecordTxn, LedgerPlain, LedgerTxn
    <3>6. ~(Commit(r) \/ ReleaseLock(r) \/ MongoError(r) \/ LoseRequest(r) \/ Crash(r))
      BY <1>3 DEF Commit, ReleaseLock, MongoError, LoseRequest, Crash
    <3>7. LookupReceiver(r)
      BY <2>1, <3>1, <3>2, <3>3, <3>4, <3>5, <3>6 DEF Step
    <3> QED
      BY <1>3, <3>7 DEF LookupReceiver
  <2>2. ~UNCHANGED vars /\ ~(\E u \in Users : ExpireLock(u))
    BY <1>3 DEF vars, ExpireLock
  <2>3. /\ ~(\E u \in Frozen : FreezeWallet(u) \/ UnfreezeWallet(u))
        /\ ~(\E u \in Disputed : MoveHold(u))
    BY <1>3 DEF FreezeWallet, UnfreezeWallet, MoveHold, SetStatus
  <2>4. LookupReceiver(q)
    BY <2>1, <2>2, <2>3 DEF Next
  <2> QED
    BY <1>3, <2>4 DEF LookupReceiver
<1>4. ASSUME LookupReceiver(q), pc'[q] = "ensureFrom"
      PROVE  To(q) \in Users /\ To(q) # From(q)
  <2>1. ~(To(q) \in Ineligible \/ To(q) = From(q))
    BY <1>4 DEF LookupReceiver, Leave, Reply, TypeOK
  <2> QED
    BY <2>1, TransferAssumption DEF TypeOK, To
<1> QED
  BY <1>1, <1>2, <1>3, <1>4 DEF From, To

\* Every variable keeps its type in every mode and under every failure.
THEOREM TypeCorrect == Spec => []TypeOK
<1>1. Init => TypeOK
  BY TransferAssumption DEF Init, TypeOK, Points, Answers
<1>3. Init => AllReceiversChecked
  BY DEF Init, AllReceiversChecked, ReceiverChecked, InMoney
<1>2. TypeOK /\ AllReceiversChecked /\ [Next]_vars => TypeOK'
  <2> SUFFICES ASSUME TypeOK, AllReceiversChecked, [Next]_vars PROVE TypeOK'
    OBVIOUS
  <2> USE Labels
  <2>1. ASSUME NEW r \in Requests, OuterCheck(r) PROVE TypeOK'
    <3>1. CASE Replayed(r)
      BY <2>1, <3>1, ReplyType DEF OuterCheck
    <3>2. CASE ~Replayed(r)
      BY <2>1, <3>2, GotoType DEF OuterCheck
    <3> QED
      BY <3>1, <3>2
  <2>2. ASSUME NEW r \in Requests, CheckWallet(r) PROVE TypeOK'
    <3>1. \/ \E o \in Answers : Reply(r, "early", o)
          \/ Goto(r, "limits") /\ UNCHANGED out
      BY <2>2 DEF CheckWallet
    <3> QED
      BY <2>2, <3>1, ReplyType, GotoType DEF CheckWallet
  <2>3. ASSUME NEW r \in Requests, CheckDailyLimit(r) PROVE TypeOK'
    <3>1. \/ Reply(r, "early", "refused")
          \/ Goto(r, "lock") /\ UNCHANGED out
      BY <2>3 DEF CheckDailyLimit
    <3> QED
      BY <2>3, <3>1, ReplyType, GotoType DEF CheckDailyLimit
  <2>4. ASSUME NEW r \in Requests, AcquireLock(r) PROVE TypeOK'
    BY <2>4 DEF AcquireLock, TypeOK, Goto
  <2>5. ASSUME NEW r \in Requests, LockContention(r) PROVE TypeOK'
    BY <2>5, ReplyType DEF LockContention
  <2>6. ASSUME NEW r \in Requests, LockUnavailable(r) PROVE TypeOK'
    <3>1. lock' \in [Users -> Requests \cup {Free}]
      BY <2>6 DEF LockUnavailable, TypeOK
    <3> QED
      BY <2>6, <3>1 DEF LockUnavailable, TypeOK, Goto
  <2>7. ASSUME NEW r \in Requests, StartAttempt(r) PROVE TypeOK'
    <3>1. CASE Replayed(r)
      BY <2>7, <3>1, ReplyType DEF StartAttempt
    <3>2. CASE ~Replayed(r)
      BY <2>7, <3>2 DEF StartAttempt, TypeOK, Goto
    <3> QED
      BY <3>1, <3>2
  <2>8. ASSUME NEW r \in Requests, LookupReceiver(r) PROVE TypeOK'
    <3>1. CASE To(r) \in Ineligible \/ To(r) = From(r)
      BY <2>8, <3>1, LeaveType, TroublesType DEF LookupReceiver
    <3>2. CASE ~(To(r) \in Ineligible \/ To(r) = From(r))
      BY <2>8, <3>2, GotoType DEF LookupReceiver
    <3> QED
      BY <3>1, <3>2
  <2>9. ASSUME NEW r \in Requests, EnsureSender(r) PROVE TypeOK'
    <3>1. CASE FallBack(r)
      BY <2>9, <3>1, FallBackType DEF EnsureSender
    <3>2. CASE ~FallBack(r)
      <4>1. stale' \in [Requests -> BOOLEAN]
        BY <2>9, <3>2, OutdateType DEF EnsureSender, TypeOK
      <4> QED
        BY <2>9, <3>2, <4>1 DEF EnsureSender, TypeOK, Goto
    <3> QED
      BY <3>1, <3>2
  <2>10. ASSUME NEW r \in Requests, EnsureReceiver(r) PROVE TypeOK'
    <3>1. CASE FallBack(r)
      BY <2>10, <3>1, FallBackType DEF EnsureReceiver
    <3>2. CASE ~FallBack(r)
      <4>1. stale' \in [Requests -> BOOLEAN]
        BY <2>10, <3>2, OutdateType DEF EnsureReceiver, TypeOK
      <4> QED
        BY <2>10, <3>2, <4>1 DEF EnsureReceiver, TypeOK, Goto
    <3> QED
      BY <3>1, <3>2
  <2>11. ASSUME NEW r \in Requests, Debit(r) PROVE TypeOK'
    <3>1. CASE ~CanDebit(r)
      BY <2>11, <3>1, LeaveType, TroublesType DEF Debit
    <3>2. CASE CanDebit(r)
      <4>1. /\ stale' \in [Requests -> BOOLEAN]
            /\ balance' \in [Users -> Int]
        BY <2>11, <3>2, OutdateType, PayloadType DEF Debit, TypeOK
      <4> QED
        <5>1. /\ moved' = [moved EXCEPT ![r] = "debited"] /\ Goto(r, "credit")
              /\ UNCHANGED <<recorded, ledger, txn, forced, seen, out>>
              /\ UNCHANGED <<lockVars, othersVars, args, troubles>>
          BY <2>11, <3>2 DEF Debit
        <5> QED
          BY <4>1, <5>1 DEF TypeOK, Goto
    <3> QED
      BY <3>1, <3>2
  <2>12. ASSUME NEW r \in Requests, Credit(r) PROVE TypeOK'
    <3>1. /\ stale' \in [Requests -> BOOLEAN]
          /\ balance' \in [Users -> Int]
      BY <2>12, OutdateType, PayloadType DEF Credit, TypeOK
    <3> QED
      BY <2>12, <3>1 DEF Credit, TypeOK, Goto
  <2>13. ASSUME NEW r \in Requests, FetchBalances(r) PROVE TypeOK'
    <3>1. balance[From(r)] \in Int /\ balance[To(r)] \in Int
      BY <2>13, PayloadType DEF FetchBalances, TypeOK, AllReceiversChecked, ReceiverChecked,
         InMoney
    <3>2. seen' \in [Requests -> [from : Int, to : Int]]
      BY <2>13, <3>1 DEF FetchBalances, TypeOK
    <3> QED
      BY <2>13, <3>2 DEF FetchBalances, TypeOK, Goto
  <2>14. ASSUME NEW r \in Requests, RecordPlain(r) PROVE TypeOK'
    <3>1. CASE Duplicate(r)
      BY <2>14, <3>1, LeaveType, TroublesType DEF RecordPlain
    <3>2. CASE ~Duplicate(r)
      BY <2>14, <3>2 DEF RecordPlain, TypeOK, Goto
    <3> QED
      BY <3>1, <3>2
  <2>15. ASSUME NEW r \in Requests, RecordTxn(r) PROVE TypeOK'
    <3>1. CASE Duplicate(r) \/ InsertedByOther(r)
      BY <2>15, <3>1, FallBackType DEF RecordTxn
    <3>2. CASE ~(Duplicate(r) \/ InsertedByOther(r))
      BY <2>15, <3>2, GotoType DEF RecordTxn
    <3> QED
      BY <3>1, <3>2
  <2>16. ASSUME NEW r \in Requests, LedgerPlain(r) PROVE TypeOK'
    <3>1. /\ ledger' \subseteq Requests \X Sides
          /\ Reply(r, "release", "ok") \/ UNCHANGED <<pc, out>>
      BY <2>16 DEF LedgerPlain, TypeOK
    <3>2. pc' \in [Requests -> Points] /\ out' \in [Requests -> Answers]
      <4>1. CASE Reply(r, "release", "ok")
        BY <4>1 DEF TypeOK, Reply
      <4>2. CASE UNCHANGED <<pc, out>>
        BY <4>2 DEF TypeOK
      <4> QED
        BY <3>1, <4>1, <4>2
    <3> QED
      BY <2>16, <3>1, <3>2 DEF LedgerPlain, TypeOK
  <2>17. ASSUME NEW r \in Requests, LedgerTxn(r) PROVE TypeOK'
    BY <2>17, GotoType DEF LedgerTxn
  <2>18. ASSUME NEW r \in Requests, Commit(r) PROVE TypeOK'
    <3>1. stale' \in [Requests -> BOOLEAN]
      BY <2>18, OutdateType DEF Commit
    <3>2. balance' \in [Users -> Int]
      <4>1. balance \in [Users -> Int] /\ From(r) \in Users /\ Amount(r) \in Int
        BY PayloadType DEF TypeOK
      <4>2. To(r) \in Users /\ To(r) # From(r)
        BY <2>18 DEF Commit, AllReceiversChecked, ReceiverChecked, InMoney
      <4> QED
        BY <2>18, <4>1, <4>2 DEF Commit
    <3>3. \E o \in Answers : Reply(r, "release", o)
      BY <2>18 DEF Commit
    <3>4. pc' \in [Requests -> Points] /\ out' \in [Requests -> Answers]
      BY <3>3 DEF TypeOK, Reply
    <3> QED
      BY <2>18, <3>1, <3>2, <3>4 DEF Commit, TypeOK
  <2>19. ASSUME NEW r \in Requests, ReleaseLock(r) PROVE TypeOK'
    <3>1. lock' \in [Users -> Requests \cup {Free}]
      BY <2>19 DEF ReleaseLock, TypeOK
    <3> QED
      BY <2>19, <3>1 DEF ReleaseLock, TypeOK, Goto
  <2>20. ASSUME NEW r \in Requests, MongoError(r) PROVE TypeOK'
    BY <2>20, LeaveType, TroublesType DEF MongoError
  <2>21. ASSUME NEW r \in Requests, Crash(r) PROVE TypeOK'
    BY <2>21, AbortType DEF Crash, TypeOK, Reply
  <2>22. ASSUME NEW u \in Users, ExpireLock(u) PROVE TypeOK'
    BY <2>22 DEF ExpireLock, TypeOK
  <2>23. ASSUME NEW u \in Frozen, FreezeWallet(u) \/ UnfreezeWallet(u) PROVE TypeOK'
    <3>1. status' \in [Users -> {"active", "frozen"}] /\ stale' \in [Requests -> BOOLEAN]
      BY <2>23 DEF FreezeWallet, UnfreezeWallet, MoveHold, SetStatus, TypeOK
    <3> QED
      BY <2>23, <3>1 DEF FreezeWallet, UnfreezeWallet, MoveHold, SetStatus, TypeOK
  <2>24. CASE UNCHANGED vars
    BY <2>24 DEF vars, TypeOK
  <2>25. ASSUME NEW u \in Disputed, MoveHold(u) PROVE TypeOK'
    <3>1. held' \in [Users -> Int] /\ stale' \in [Requests -> BOOLEAN]
      BY <2>25, TransferAssumption DEF MoveHold, TypeOK
    <3> QED
      BY <2>25, <3>1 DEF MoveHold, TypeOK
  <2>26. ASSUME NEW r \in Requests, LoseRequest(r) PROVE TypeOK'
    <3>1. PICK p \in {"early", "done"} : End(r, p, "lost")
      BY <2>26 DEF LoseRequest
    <3>2. p \in Points /\ "lost" \in Answers
      BY DEF Points, Answers
    <3>3. pc' \in [Requests -> Points] /\ out' \in [Requests -> Answers]
      BY <3>1, <3>2 DEF TypeOK, Reply
    <3>4. troubles' \subseteq Faults
      BY <2>26, TroublesType DEF LoseRequest
    <3> QED
      BY <3>1, <3>3, <3>4, AbortType DEF TypeOK
  <2> QED
    BY <2>1, <2>2, <2>3, <2>4, <2>5, <2>6, <2>7, <2>8, <2>9, <2>10, <2>11, <2>12, <2>13, <2>14,
       <2>15, <2>16, <2>17, <2>18, <2>19, <2>20, <2>21, <2>22, <2>23, <2>24, <2>25, <2>26
    DEF Next, Step
<1> QED
  BY <1>1, <1>2, <1>3, ReceiverStep, PTL DEF Spec

-----------------------------------------------------------------------------
(* The money invariant *)

\* A step of r: nobody else's point, session or movement changes, and no
\* wallet that another open transaction holds changes its balance.
OnlyAt(r) ==
    /\ args' = args /\ held' = held
    /\ \A q \in Requests \ {r} :
          pc'[q] = pc[q] /\ txn'[q] = txn[q] /\ moved'[q] = moved[q]
    /\ \A u \in Users : HeldByOther(r, u) => balance'[u] = balance[u]

\* What r does, the others' invariant survives if r holds its wallets alone.
LEMMA OthersKeep ==
    ASSUME TypeOK, MoneyInv, NEW r \in Requests, OnlyAt(r), HoldsAlone(r)',
           NEW q \in Requests \ {r}
    PROVE  RequestInv(q)'
<1> USE DEF MoneyInv, RequestInv, OnlyAt
<1>1. From(q)' = From(q) /\ To(q)' = To(q) /\ Amount(q)' = Amount(q)
  BY DEF From, To, Amount
<1>2. \A u : Holds(q, u)' <=> Holds(q, u)
  BY <1>1 DEF Holds
<1>3. MovedByPoint(q)' /\ TxnByPoint(q)' /\ ReceiverChecked(q)'
  BY <1>1 DEF MovedByPoint, TxnByPoint, ReceiverChecked
<1>4. ASSUME NEW u \in Users, Holds(q, u)', NEW o \in Requests \ {q}, Holds(o, u)'
      PROVE  FALSE
  <2>1. CASE o = r
    BY <2>1, <1>4, <1>2 DEF HoldsAlone, HeldByOther
  <2>2. CASE o # r
    <3>1. Holds(o, u)
      BY <2>2, <1>4 DEF Holds, From, To
    <3> QED
      BY <3>1, <1>4, <1>2 DEF HoldsAlone, HeldByOther
  <2> QED
    BY <2>1, <2>2
<1>5. HoldsAlone(q)'
  BY <1>4 DEF HoldsAlone, HeldByOther
<1>6. BufferedAffordable(q)'
  <2> SUFFICES ASSUME txn[q], pc[q] \in InMoney \ {"debit"}
               PROVE  Available(From(q))' >= Amount(q)
    BY <1>1 DEF BufferedAffordable
  <2>1. From(q) \in Users /\ HeldByOther(r, From(q))
    BY PayloadType DEF Holds, HeldByOther, InMoney
  <2>2. Available(From(q))' = Available(From(q))
    BY <2>1, <1>1 DEF Available
  <2> QED
    BY <2>2 DEF BufferedAffordable
<1> QED
  BY <1>3, <1>5, <1>6

\* Local form of the step: it is enough to look at r and at the balances.
LEMMA LocalStep ==
    ASSUME TypeOK, MoneyInv, NEW r \in Requests, OnlyAt(r), RequestInv(r)'
    PROVE  MoneyInv'
BY OthersKeep DEF MoneyInv, RequestInv

\* Points at which a request has no open transaction.
Outside == {"outer", "wallet", "limits", "lock", "attempt", "release", "done", "early"}

\* A request that is outside a transaction and stays there, moving nothing.
LEMMA OutsideStep ==
    ASSUME TypeOK, MoneyInv, NEW r \in Requests, NEW p \in Outside,
           ~txn'[r], moved'[r] = "no" \/ p \in {"release", "done"},
           pc' = [pc EXCEPT ![r] = p],
           \A q \in Requests \ {r} : txn'[q] = txn[q] /\ moved'[q] = moved[q],
           UNCHANGED <<balance, held, args>>
    PROVE  MoneyInv'
<1>1. pc'[r] = p /\ \A q \in Requests \ {r} : pc'[q] = pc[q]
  BY DEF TypeOK
<1>2. OnlyAt(r)
  BY <1>1 DEF OnlyAt
<1>3. MovedByPoint(r)' /\ TxnByPoint(r)' /\ ReceiverChecked(r)'
  BY <1>1 DEF MovedByPoint, TxnByPoint, ReceiverChecked, Outside, InMoney
<1>4. HoldsAlone(r)' /\ BufferedAffordable(r)'
  BY DEF HoldsAlone, Holds, BufferedAffordable
<1> QED
  BY <1>2, <1>3, <1>4, LocalStep DEF RequestInv

\* An abort that ends the attempt, or that goes back before its money steps
\* because its writes were dropped.
LEMMA AbortStep ==
    ASSUME TypeOK, MoneyInv, NEW r \in Requests, Abort(r),
           NEW p \in {"attempt", "release", "done"}, pc' = [pc EXCEPT ![r] = p],
           txn[r] \/ p # "attempt",
           UNCHANGED <<balance, held, args>>
    PROVE  MoneyInv'
<1>1. ~txn'[r] /\ (moved'[r] = "no" \/ p \in {"release", "done"})
  BY DEF Abort, TypeOK
<1>2. \A q \in Requests \ {r} : txn'[q] = txn[q] /\ moved'[q] = moved[q]
  BY DEF Abort, TypeOK
<1> QED
  BY <1>1, <1>2, OutsideStep DEF Outside

\* A return from the loop keeps the invariant.
LEMMA LeaveStep ==
    ASSUME TypeOK, MoneyInv, NEW r \in Requests, NEW o, Leave(r, o), UNCHANGED <<held, args>>
    PROVE  MoneyInv'
BY AbortStep DEF Leave, Reply

\* So does a second attempt.
LEMMA FallBackStep ==
    ASSUME TypeOK, MoneyInv, NEW r \in Requests, FallBack(r), txn[r],
           UNCHANGED <<held, args>>
    PROVE  MoneyInv'
BY AbortStep DEF FallBack, Goto

\* A step of r from one point inside the attempt to another, which changes no
\* balance and after which r holds the wallets it held or that nobody held.
LEMMA InsideStep ==
    ASSUME TypeOK, MoneyInv, NEW r \in Requests, NEW p \in Points,
           pc' = [pc EXCEPT ![r] = p],
           UNCHANGED <<args, held, txn>>,
           \A q \in Requests \ {r} : moved'[q] = moved[q],
           \A u \in Users : HeldByOther(r, u) => balance'[u] = balance[u],
           \A u \in Users : Holds(r, u)' => Holds(r, u) \/ ~HeldByOther(r, u),
           MovedByPoint(r)', TxnByPoint(r)', ReceiverChecked(r)',
           BufferedAffordable(r)'
    PROVE  MoneyInv'
<1>1. \A q \in Requests \ {r} : pc'[q] = pc[q]
  BY DEF TypeOK
<1>2. OnlyAt(r)
  BY <1>1 DEF OnlyAt
<1>3. \A u, q : q \in Requests \ {r} => (Holds(q, u)' <=> Holds(q, u))
  BY <1>1 DEF Holds, From, To
<1>4. HoldsAlone(r)'
  BY <1>3 DEF HoldsAlone, HeldByOther, MoneyInv, RequestInv
<1> QED
  BY <1>2, <1>4, LocalStep DEF RequestInv

\* No request's step moves a hold.
LEMMA HoldsStay ==
    ASSUME NEW r \in Requests,
           Step(r) \/ MongoError(r) \/ LoseRequest(r) \/ Crash(r)
    PROVE  held' = held
BY DEF Step, OuterCheck, CheckWallet, CheckDailyLimit, AcquireLock, LockContention,
       LockUnavailable, StartAttempt, LookupReceiver, EnsureSender, EnsureReceiver, Debit,
       Credit, FetchBalances, RecordPlain, RecordTxn, LedgerPlain, LedgerTxn, Commit,
       ReleaseLock, MongoError, LoseRequest, Crash

\* Each step of a request keeps the invariant.
LEMMA MoneyStep ==
    ASSUME TypeOK, MoneyInv, NEW r \in Requests,
           Step(r) \/ MongoError(r) \/ LoseRequest(r) \/ Crash(r)
    PROVE  MoneyInv'
<1>h. held' = held
  BY HoldsStay
<1> USE Labels, <1>h
<1>i. RequestInv(r)
  BY DEF MoneyInv
<1>a. ASSUME NEW p \in {"wallet", "limits", "lock", "attempt", "early", "done"},
             pc[r] \in {"outer", "wallet", "limits", "lock"},
             pc' = [pc EXCEPT ![r] = p], UNCHANGED <<moneyVars, mongoVars, args>>
      PROVE  MoneyInv'
  <2>1. ~txn[r] /\ moved[r] = "no"
    BY <1>i, <1>a DEF RequestInv, MovedByPoint, TxnByPoint, InMoney
  <2> QED
    BY <1>a, <2>1, OutsideStep DEF Outside
<1>1. CASE OuterCheck(r)
  BY <1>1, <1>a DEF OuterCheck, Reply, Goto
<1>2. CASE CheckWallet(r)
  <2>1. pc' = [pc EXCEPT ![r] = "early"] \/ pc' = [pc EXCEPT ![r] = "limits"]
    BY <1>2 DEF CheckWallet, Reply, Goto
  <2> QED
    BY <1>2, <2>1, <1>a DEF CheckWallet
<1>3. CASE CheckDailyLimit(r)
  <2>1. pc' = [pc EXCEPT ![r] = "early"] \/ pc' = [pc EXCEPT ![r] = "lock"]
    BY <1>3 DEF CheckDailyLimit, Reply, Goto
  <2> QED
    BY <1>3, <2>1, <1>a DEF CheckDailyLimit
<1>4. CASE AcquireLock(r) \/ LockContention(r) \/ LockUnavailable(r)
  BY <1>4, <1>a DEF AcquireLock, LockContention, LockUnavailable, Reply, Goto
<1>5. CASE StartAttempt(r)
  <2>0. moved[r] = "no" /\ ~txn[r]
    BY <1>5, <1>i DEF StartAttempt, RequestInv, MovedByPoint, TxnByPoint, InMoney
  <2>1. CASE Replayed(r)
    BY <1>5, <2>0, <2>1, OutsideStep DEF StartAttempt, Reply, Outside
  <2>2. CASE ~Replayed(r)
    <3>1. /\ pc' = [pc EXCEPT ![r] = "receiver"]
          /\ \A q \in Requests \ {r} : txn'[q] = txn[q]
          /\ UNCHANGED <<moved, balance, args>>
      BY <1>5, <2>2 DEF StartAttempt, Goto, TypeOK
    <3>2. OnlyAt(r) /\ pc'[r] = "receiver"
      BY <3>1 DEF OnlyAt, TypeOK
    <3>3. MovedByPoint(r)' /\ TxnByPoint(r)' /\ ReceiverChecked(r)'
      BY <3>1, <3>2, <2>0 DEF MovedByPoint, TxnByPoint, ReceiverChecked, InMoney
    <3>4. HoldsAlone(r)' /\ BufferedAffordable(r)'
      BY <3>2 DEF HoldsAlone, BufferedAffordable, Holds, InMoney
    <3> QED
      BY <3>2, <3>3, <3>4, LocalStep DEF RequestInv
  <2> QED
    BY <2>1, <2>2
<1>6. CASE LookupReceiver(r)
  <2>1. CASE To(r) \in Ineligible \/ To(r) = From(r)
    BY <1>6, <2>1, LeaveStep DEF LookupReceiver
  <2>2. CASE ~(To(r) \in Ineligible \/ To(r) = From(r))
    <3>1. /\ pc' = [pc EXCEPT ![r] = "ensureFrom"]
          /\ UNCHANGED <<moneyVars, mongoVars, args>>
          /\ pc[r] = "receiver"
      BY <1>6, <2>2 DEF LookupReceiver, Goto
    <3>2. pc'[r] = "ensureFrom"
      BY <3>1 DEF TypeOK
    <3>3. MovedByPoint(r)' /\ TxnByPoint(r)' /\ BufferedAffordable(r)'
      BY <1>i, <3>1, <3>2 DEF RequestInv, MovedByPoint, TxnByPoint, BufferedAffordable, InMoney
    <3>4. ReceiverChecked(r)'
      <4>1. To(r) \in Users
        BY <2>2, TransferAssumption DEF TypeOK, To
      <4> QED
        BY <2>2, <3>1, <4>1 DEF ReceiverChecked, To, From
    <3>5. \A u \in Users : ~Holds(r, u)'
      BY <3>2 DEF Holds, InMoney
    <3> QED
      BY <3>1, <3>3, <3>4, <3>5, InsideStep
  <2> QED
    BY <2>1, <2>2
<1>7. CASE EnsureSender(r)
  <2>1. CASE FallBack(r) /\ txn[r]
    BY <1>7, <2>1, FallBackStep DEF EnsureSender
  <2>2. CASE ~(FallBack(r) /\ txn[r])
    <3>1. /\ pc' = [pc EXCEPT ![r] = "ensureTo"]
          /\ UNCHANGED <<moneyVars, txn, moved, args>>
          /\ pc[r] = "ensureFrom" /\ ~HeldByOther(r, From(r))
      BY <1>7, <2>2 DEF EnsureSender, Goto
    <3>2. pc'[r] = "ensureTo"
      BY <3>1 DEF TypeOK
    <3>3. MovedByPoint(r)' /\ TxnByPoint(r)' /\ BufferedAffordable(r)'
      BY <1>i, <3>1, <3>2 DEF RequestInv, MovedByPoint, TxnByPoint, BufferedAffordable, InMoney
    <3>4. ReceiverChecked(r)'
      BY <1>i, <3>1 DEF RequestInv, ReceiverChecked, From, To, InMoney
    <3>5. \A u \in Users : Holds(r, u)' => u = From(r)
      BY <3>1, <3>2 DEF Holds, InMoney, From
    <3> QED
      BY <3>1, <3>3, <3>4, <3>5, InsideStep
  <2> QED
    BY <2>1, <2>2
<1>8. CASE EnsureReceiver(r)
  <2>1. CASE FallBack(r) /\ txn[r]
    BY <1>8, <2>1, FallBackStep DEF EnsureReceiver
  <2>2. CASE ~(FallBack(r) /\ txn[r])
    <3>1. /\ pc' = [pc EXCEPT ![r] = "debit"]
          /\ UNCHANGED <<moneyVars, txn, moved, args>>
          /\ pc[r] = "ensureTo" /\ ~HeldByOther(r, To(r))
      BY <1>8, <2>2 DEF EnsureReceiver, Goto
    <3>2. pc'[r] = "debit"
      BY <3>1 DEF TypeOK
    <3>3. MovedByPoint(r)' /\ TxnByPoint(r)' /\ BufferedAffordable(r)'
      BY <1>i, <3>1, <3>2 DEF RequestInv, MovedByPoint, TxnByPoint, BufferedAffordable, InMoney
    <3>4. ReceiverChecked(r)'
      BY <1>i, <3>1 DEF RequestInv, ReceiverChecked, From, To, InMoney
    <3>5. \A u \in Users : Holds(r, u)' => Holds(r, u) \/ ~HeldByOther(r, u)
      BY <3>1, <3>2 DEF Holds, InMoney, From, To
    <3> QED
      BY <3>1, <3>3, <3>4, <3>5, InsideStep
  <2> QED
    BY <2>1, <2>2
<1>9. CASE Debit(r)
  <2>0. From(r) \in Users /\ Amount(r) \in Nat /\ Amount(r) > 0
    BY PayloadType
  <2>1. CASE ~CanDebit(r)
    BY <1>9, <2>1, LeaveStep DEF Debit
  <2>2. CASE CanDebit(r)
    <3>1. /\ pc' = [pc EXCEPT ![r] = "credit"] /\ pc[r] = "debit"
          /\ moved' = [moved EXCEPT ![r] = "debited"]
          /\ UNCHANGED <<args, txn>>
          /\ txn[r] => balance' = balance
          /\ ~txn[r] => /\ ~HeldByOther(r, From(r))
                        /\ balance' = [balance EXCEPT ![From(r)] = @ - Amount(r)]
      BY <1>9, <2>2 DEF Debit, Goto
    <3>2. pc'[r] = "credit" /\ moved'[r] = "debited"
          /\ \A q \in Requests \ {r} : moved'[q] = moved[q]
      BY <3>1 DEF TypeOK
    <3>3. MovedByPoint(r)' /\ TxnByPoint(r)'
      BY <1>i, <3>1, <3>2 DEF RequestInv, MovedByPoint, TxnByPoint, InMoney
    <3>4. ReceiverChecked(r)'
      BY <1>i, <3>1 DEF RequestInv, ReceiverChecked, From, To, InMoney
    <3>5. \A u \in Users : Holds(r, u)' => Holds(r, u)
      BY <3>1, <3>2 DEF Holds, InMoney, From, To
    <3>6. \A u \in Users : HeldByOther(r, u) => balance'[u] = balance[u]
      BY <3>1, <2>0 DEF TypeOK
    <3>7. BufferedAffordable(r)'
      <4>1. Available(From(r)) \in Int
        BY <2>0, TransferAssumption DEF Available, TypeOK
      <4> QED
        BY <2>0, <2>2, <3>1, <4>1 DEF BufferedAffordable, Available, From, Amount
    <3> QED
      BY <3>1, <3>2, <3>3, <3>4, <3>5, <3>6, <3>7, InsideStep
  <2> QED
    BY <2>1, <2>2
<1>10. CASE Credit(r)
  <2>0. To(r) \in Users
    BY <1>10, <1>i DEF Credit, RequestInv, ReceiverChecked, InMoney
  <2>1. /\ pc' = [pc EXCEPT ![r] = "fetch"] /\ pc[r] = "credit"
        /\ moved' = [moved EXCEPT ![r] = "credited"]
        /\ UNCHANGED <<args, txn>>
        /\ txn[r] => balance' = balance
        /\ ~txn[r] => /\ ~HeldByOther(r, To(r))
                      /\ balance' = [balance EXCEPT ![To(r)] = @ + Amount(r)]
    BY <1>10 DEF Credit, Goto
  <2>2. pc'[r] = "fetch" /\ moved'[r] = "credited"
        /\ \A q \in Requests \ {r} : moved'[q] = moved[q]
    BY <2>1 DEF TypeOK
  <2>3. MovedByPoint(r)' /\ TxnByPoint(r)'
    BY <1>i, <2>1, <2>2 DEF RequestInv, MovedByPoint, TxnByPoint, InMoney
  <2>4. ReceiverChecked(r)'
    BY <1>i, <2>1 DEF RequestInv, ReceiverChecked, From, To, InMoney
  <2>5. \A u \in Users : Holds(r, u)' => Holds(r, u)
    BY <2>1, <2>2 DEF Holds, InMoney, From, To
  <2>6. \A u \in Users : HeldByOther(r, u) => balance'[u] = balance[u]
    BY <2>1, <2>0 DEF TypeOK
  <2>7. BufferedAffordable(r)'
    BY <1>i, <2>1 DEF RequestInv, BufferedAffordable, Available, From, Amount, InMoney
  <2> QED
    BY <2>1, <2>2, <2>3, <2>4, <2>5, <2>6, <2>7, InsideStep
<1>b. ASSUME NEW p \in {"record", "ledger", "commit"}, pc' = [pc EXCEPT ![r] = p],
             pc[r] \in {"fetch", "record", "ledger"}, p = "commit" => txn[r],
             UNCHANGED <<balance, txn, moved, args>>
      PROVE  MoneyInv'
  <2>1. pc'[r] = p
    BY <1>b DEF TypeOK
  <2>2. MovedByPoint(r)' /\ TxnByPoint(r)'
    BY <1>i, <1>b, <2>1 DEF RequestInv, MovedByPoint, TxnByPoint, InMoney
  <2>3. ReceiverChecked(r)' /\ BufferedAffordable(r)'
    BY <1>i, <1>b, <2>1 DEF RequestInv, ReceiverChecked, BufferedAffordable, Available,
                            From, To, Amount, InMoney
  <2>4. \A u \in Users : Holds(r, u)' => Holds(r, u)
    BY <1>b, <2>1 DEF Holds, InMoney, From, To
  <2> QED
    BY <1>b, <2>2, <2>3, <2>4, InsideStep
<1>11. CASE FetchBalances(r)
  BY <1>11, <1>b DEF FetchBalances, Goto
<1>12. CASE RecordPlain(r)
  <2>1. CASE Duplicate(r)
    BY <1>12, <2>1, LeaveStep DEF RecordPlain
  <2>2. CASE ~Duplicate(r)
    BY <1>12, <2>2, <1>b DEF RecordPlain, Goto
  <2> QED
    BY <2>1, <2>2
<1>13. CASE RecordTxn(r)
  <2>1. CASE Duplicate(r) \/ InsertedByOther(r)
    BY <1>13, <2>1, FallBackStep DEF RecordTxn
  <2>2. CASE ~(Duplicate(r) \/ InsertedByOther(r))
    BY <1>13, <2>2, <1>b DEF RecordTxn, Goto
  <2> QED
    BY <2>1, <2>2
<1>14. CASE LedgerPlain(r)
  <2>0. ~txn[r] /\ UNCHANGED <<balance, txn, moved, args>>
    BY <1>14 DEF LedgerPlain
  <2>1. CASE pc' = [pc EXCEPT ![r] = "release"]
    BY <2>0, <2>1, OutsideStep DEF Outside
  <2>2. CASE pc' # [pc EXCEPT ![r] = "release"]
    <3>1. pc[r] = "ledger" /\ pc' = pc
      BY <1>14, <2>2 DEF LedgerPlain, Reply
    <3> QED
      BY <2>0, <3>1, <1>b DEF TypeOK
  <2> QED
    BY <2>1, <2>2
<1>15. CASE LedgerTxn(r)
  BY <1>15, <1>b DEF LedgerTxn, Goto
<1>16. CASE Commit(r)
  <2>0. /\ txn[r] /\ From(r) \in Users /\ To(r) \in Users
        /\ Holds(r, From(r)) /\ Holds(r, To(r))
    BY <1>16, <1>i, PayloadType DEF Commit, RequestInv, TxnByPoint, ReceiverChecked, Holds,
       InMoney
  <2>1. ~HeldByOther(r, From(r)) /\ ~HeldByOther(r, To(r))
    BY <2>0, <1>i DEF RequestInv, HoldsAlone
  <2>2. /\ pc' = [pc EXCEPT ![r] = "release"]
        /\ txn' = [txn EXCEPT ![r] = FALSE]
        /\ UNCHANGED <<args, moved>>
    BY <1>16 DEF Commit, Reply
  <2>3. \A u \in Users : u # From(r) /\ u # To(r) => balance'[u] = balance[u]
    BY <1>16, <2>0 DEF Commit, TypeOK
  <2>4. OnlyAt(r) /\ pc'[r] = "release" /\ ~txn'[r]
    BY <2>1, <2>2, <2>3 DEF OnlyAt, TypeOK
  <2>5. RequestInv(r)'
    BY <2>4 DEF RequestInv, MovedByPoint, TxnByPoint, ReceiverChecked, HoldsAlone,
                BufferedAffordable, Holds, InMoney
  <2> QED
    BY <2>4, <2>5, LocalStep
<1>17. CASE ReleaseLock(r)
  <2>1. ~txn[r]
    BY <1>17, <1>i DEF ReleaseLock, RequestInv, TxnByPoint, InMoney
  <2> QED
    BY <1>17, <2>1, OutsideStep DEF ReleaseLock, Goto, Outside
<1>18. CASE MongoError(r)
  BY <1>18, LeaveStep DEF MongoError
<1>19. CASE Crash(r)
  BY <1>19, AbortStep DEF Crash, Reply
<1>20. CASE LoseRequest(r)
  <2>1. PICK p \in {"early", "done"} : End(r, p, "lost")
    BY <1>20 DEF LoseRequest
  <2>2. moved[r] = "no" /\ ~txn[r]
    BY <1>20, <1>i DEF LoseRequest, RequestInv, MovedByPoint, TxnByPoint, InMoney
  <2>3. ~txn'[r] /\ moved'[r] = "no"
    BY <2>1, <2>2 DEF Abort, TypeOK
  <2>4. \A q \in Requests \ {r} : txn'[q] = txn[q] /\ moved'[q] = moved[q]
    BY <2>1 DEF Abort, TypeOK
  <2> QED
    BY <2>1, <2>3, <2>4, OutsideStep DEF Reply, Outside
<1> QED
  BY <1>1, <1>2, <1>3, <1>4, <1>5, <1>6, <1>7, <1>8, <1>9, <1>10, <1>11, <1>12, <1>13, <1>14,
     <1>15, <1>16, <1>17, <1>18, <1>19, <1>20 DEF Step

\* Lock expiry, freezing and stuttering leave the money alone.
Elsewhere == (\E u \in Users : ExpireLock(u))
             \/ (\E u \in Frozen : FreezeWallet(u) \/ UnfreezeWallet(u))
             \/ (\E u \in Disputed : MoveHold(u))
             \/ UNCHANGED vars

\* The other steps touch no money.
LEMMA ElsewhereKeepsMoney ==
    ASSUME TypeOK, Elsewhere
    PROVE  /\ UNCHANGED <<balance, args, pc, txn, moved>>
           /\ \A q \in Requests, u \in Users : Holds(q, u) => held'[u] = held[u]
           /\ held' \in [Users -> Int]
BY TransferAssumption DEF TypeOK, Elsewhere, ExpireLock, FreezeWallet, UnfreezeWallet, MoveHold,
                          SetStatus, vars

\* A step is one request's or touches no money.
LEMMA WhoSteps ==
    ASSUME [Next]_vars
    PROVE  \/ Elsewhere
           \/ \E r \in Requests : Step(r) \/ MongoError(r) \/ LoseRequest(r) \/ Crash(r)
BY DEF Next, Elsewhere

\* MoneyInv is inductive.
LEMMA MoneyInductive ==
    TypeOK /\ MoneyInv /\ [Next]_vars => MoneyInv'
<1>1. ASSUME TypeOK, MoneyInv, Elsewhere PROVE MoneyInv'
  <2> SUFFICES ASSUME NEW q \in Requests PROVE RequestInv(q)'
    BY DEF MoneyInv
  <2>1. /\ UNCHANGED <<balance, args, pc, txn, moved>>
        /\ \A u \in Users : Holds(q, u) => held'[u] = held[u]
    BY <1>1, ElsewhereKeepsMoney
  <2>2. RequestInv(q)
    BY <1>1 DEF MoneyInv
  <2>3. MovedByPoint(q)' /\ TxnByPoint(q)' /\ ReceiverChecked(q)' /\ HoldsAlone(q)'
    BY <2>1, <2>2 DEF RequestInv, MovedByPoint, TxnByPoint, ReceiverChecked, HoldsAlone,
                      HeldByOther, Holds, From, To
  <2>4. BufferedAffordable(q)'
    <3> SUFFICES ASSUME txn[q], pc[q] \in InMoney \ {"debit"}
                 PROVE  Available(From(q))' >= Amount(q)'
      BY <2>1 DEF BufferedAffordable
    <3>1. From(q) \in Users /\ Holds(q, From(q))
      BY <1>1, PayloadType DEF Holds, InMoney
    <3>2. Available(From(q))' = Available(From(q)) /\ Amount(q)' = Amount(q)
      BY <2>1, <3>1 DEF Available, From, Amount
    <3> QED
      BY <2>2, <3>2 DEF RequestInv, BufferedAffordable
  <2> QED
    BY <2>3, <2>4 DEF RequestInv
<1> QED
  BY <1>1, MoneyStep, WhoSteps

\* The invariant about sessions, wallet locks and movements that the
\* theorems on money rest on.
THEOREM MoneyInvariant == Spec => []MoneyInv
<1>1. Init => MoneyInv
  BY DEF Init, MoneyInv, RequestInv, MovedByPoint, TxnByPoint, ReceiverChecked, HoldsAlone,
         BufferedAffordable, Holds, InMoney
<1> QED
  BY <1>1, MoneyInductive, TypeCorrect, PTL DEF Spec

-----------------------------------------------------------------------------
(* How a step may change the wallets *)

\* The three ways money moves, in the program's terms, and the stutter.
LEMMA HowMoneyMoves ==
    ASSUME TypeOK, MoneyInv, NEW r \in Requests,
           Step(r) \/ MongoError(r) \/ LoseRequest(r) \/ Crash(r)
    PROVE  /\ args' = args
           /\ \A q \in Requests \ {r} : moved'[q] = moved[q] /\ txn'[q] = txn[q]
           /\ \/ /\ balance' = balance
                 /\ Debited(r)' <=> Debited(r)
                 /\ Debited(r) => moved'[r] = moved[r]
              \/ /\ Debit(r) /\ ~Debited(r) /\ Debited(r)' /\ moved'[r] = "debited"
                 /\ Available(From(r)) >= Amount(r)
                 /\ balance' = [balance EXCEPT ![From(r)] = @ - Amount(r)]
              \/ /\ Credit(r) /\ Debited(r) /\ moved[r] = "debited"
                 /\ Debited(r)' /\ moved'[r] = "credited"
                 /\ To(r) \in Users
                 /\ balance' = [balance EXCEPT ![To(r)] = @ + Amount(r)]
              \/ /\ Commit(r) /\ ~Debited(r) /\ Debited(r)' /\ moved'[r] = "credited"
                 /\ Available(From(r)) >= Amount(r)
                 /\ To(r) \in Users /\ To(r) # From(r)
                 /\ balance' = [balance EXCEPT ![From(r)] = @ - Amount(r),
                                               ![To(r)] = @ + Amount(r)]
<1> DEFINE Still == /\ UNCHANGED <<args, balance>>
                    /\ \A q \in Requests \ {r} : moved'[q] = moved[q] /\ txn'[q] = txn[q]
                    /\ Debited(r)' <=> Debited(r)
                    /\ Debited(r) => moved'[r] = moved[r]
<1>i. RequestInv(r)
  BY DEF MoneyInv
<1>a. ASSUME UNCHANGED <<args, balance, moved, txn>> PROVE Still
  BY <1>a DEF Debited
<1>b. ASSUME Abort(r), UNCHANGED <<args, balance>> PROVE Still
  BY <1>b DEF Abort, Debited, TypeOK
<1>1. CASE OuterCheck(r) \/ CheckWallet(r) \/ CheckDailyLimit(r)
  BY <1>1, <1>a DEF OuterCheck, CheckWallet, CheckDailyLimit
<1>2. CASE AcquireLock(r) \/ LockContention(r) \/ LockUnavailable(r)
  BY <1>2, <1>a DEF AcquireLock, LockContention, LockUnavailable
<1>3. CASE StartAttempt(r)
  <2>1. moved[r] = "no" /\ UNCHANGED <<args, balance, moved>>
    BY <1>3, <1>i DEF StartAttempt, RequestInv, MovedByPoint
  <2>2. \A q \in Requests \ {r} : txn'[q] = txn[q]
    BY <1>3 DEF StartAttempt, TypeOK
  <2> QED
    BY <2>1, <2>2 DEF Debited
<1>4. CASE LookupReceiver(r) \/ MongoError(r) \/ LoseRequest(r) \/ Crash(r)
  BY <1>4, <1>a, <1>b DEF LookupReceiver, MongoError, LoseRequest, Crash, Leave
<1>5. CASE EnsureSender(r) \/ EnsureReceiver(r)
  BY <1>5, <1>a, <1>b DEF EnsureSender, EnsureReceiver, FallBack
<1>6. CASE Debit(r)
  <2>0. pc[r] = "debit" /\ moved[r] = "no"
    BY <1>6, <1>i DEF Debit, RequestInv, MovedByPoint
  <2>1. CASE ~CanDebit(r)
    BY <1>6, <2>1, <1>b DEF Debit, Leave
  <2>2. CASE CanDebit(r)
    <3>1. Available(From(r)) >= Amount(r)
      BY <2>2, PayloadType, TransferAssumption DEF TypeOK, Available
    <3>2. /\ UNCHANGED <<args, txn>>
          /\ moved' = [moved EXCEPT ![r] = "debited"]
          /\ txn[r] => balance' = balance
          /\ ~txn[r] => balance' = [balance EXCEPT ![From(r)] = @ - Amount(r)]
      BY <1>6, <2>2 DEF Debit
    <3>3. moved'[r] = "debited" /\ \A q \in Requests \ {r} : moved'[q] = moved[q]
      BY <3>2 DEF TypeOK
    <3>4. CASE txn[r]
      BY <3>2, <3>3, <3>4 DEF Debited
    <3>5. CASE ~txn[r]
      BY <1>6, <2>0, <3>1, <3>2, <3>3, <3>5 DEF Debited
    <3> QED
      BY <3>4, <3>5
  <2> QED
    BY <2>1, <2>2
<1>7. CASE Credit(r)
  <2>0. moved[r] = "debited" /\ To(r) \in Users
    BY <1>7, <1>i DEF Credit, RequestInv, MovedByPoint, ReceiverChecked, InMoney
  <2>1. /\ UNCHANGED <<args, txn>>
        /\ moved' = [moved EXCEPT ![r] = "credited"]
        /\ txn[r] => balance' = balance
        /\ ~txn[r] => balance' = [balance EXCEPT ![To(r)] = @ + Amount(r)]
    BY <1>7 DEF Credit
  <2>2. moved'[r] = "credited" /\ \A q \in Requests \ {r} : moved'[q] = moved[q]
    BY <2>1 DEF TypeOK
  <2>3. CASE txn[r]
    BY <2>1, <2>2, <2>3 DEF Debited
  <2>4. CASE ~txn[r]
    BY <1>7, <2>0, <2>1, <2>2, <2>4 DEF Debited
  <2> QED
    BY <2>3, <2>4
<1>8. CASE FetchBalances(r) \/ RecordPlain(r) \/ RecordTxn(r)
  BY <1>8, <1>a, <1>b DEF FetchBalances, RecordPlain, RecordTxn, Leave, FallBack
<1>9. CASE LedgerPlain(r) \/ LedgerTxn(r) \/ ReleaseLock(r)
  BY <1>9, <1>a DEF LedgerPlain, LedgerTxn, ReleaseLock
<1>10. CASE Commit(r)
  <2>0. /\ txn[r] /\ moved[r] = "credited"
        /\ To(r) \in Users /\ To(r) # From(r)
        /\ Available(From(r)) >= Amount(r)
    BY <1>10, <1>i DEF Commit, RequestInv, MovedByPoint, TxnByPoint, ReceiverChecked,
                       BufferedAffordable, InMoney
  <2>1. /\ UNCHANGED <<args, moved>>
        /\ txn' = [txn EXCEPT ![r] = FALSE]
        /\ balance' = [balance EXCEPT ![From(r)] = @ - Amount(r),
                                      ![To(r)] = @ + Amount(r)]
    BY <1>10 DEF Commit
  <2>2. ~txn'[r] /\ \A q \in Requests \ {r} : txn'[q] = txn[q]
    BY <2>1 DEF TypeOK
  <2> QED
    BY <1>10, <2>0, <2>1, <2>2 DEF Debited
<1> QED
  BY <1>1, <1>2, <1>3, <1>4, <1>5, <1>6, <1>7, <1>8, <1>9, <1>10 DEF Step

\* No debit takes what disputes hold, in any of the three MongoDB modes, with
\* the lock lost, expired or ignored, holds placed at any moment, and under
\* every failure.
THEOREM NeverOverdrawn == Spec => NoOverdraft
<1>1. ASSUME TypeOK, MoneyInv, [Next]_vars, NEW u \in Users, balance'[u] < balance[u]
      PROVE  balance'[u] >= held'[u]
  <2>0. balance \in [Users -> Int] /\ held \in [Users -> Int]
    BY <1>1 DEF TypeOK
  <2>1. ~Elsewhere
    BY <1>1, <2>0, ElsewhereKeepsMoney
  <2>2. PICK r \in Requests : Step(r) \/ MongoError(r) \/ LoseRequest(r) \/ Crash(r)
    BY <1>1, <2>1, WhoSteps
  <2>3. From(r) \in Users /\ Amount(r) \in Nat /\ Amount(r) > 0 /\ held' = held
    BY <1>1, <2>2, PayloadType, HoldsStay
  <2>4. CASE balance' = balance
    BY <1>1, <2>0, <2>4
  <2>5. CASE /\ Available(From(r)) >= Amount(r)
             /\ balance' = [balance EXCEPT ![From(r)] = @ - Amount(r)]
    BY <1>1, <2>0, <2>3, <2>5 DEF Available
  <2>6. CASE /\ To(r) \in Users
             /\ balance' = [balance EXCEPT ![To(r)] = @ + Amount(r)]
    BY <1>1, <2>0, <2>3, <2>6
  <2>7. CASE /\ Available(From(r)) >= Amount(r)
             /\ To(r) \in Users /\ To(r) # From(r)
             /\ balance' = [balance EXCEPT ![From(r)] = @ - Amount(r),
                                           ![To(r)] = @ + Amount(r)]
    BY <1>1, <2>0, <2>3, <2>7 DEF Available
  <2> QED
    BY <1>1, <2>2, <2>4, <2>5, <2>6, <2>7, HowMoneyMoves
<1>2. TypeOK /\ MoneyInv /\ [Next]_vars =>
          [\A u \in Users : balance'[u] < balance[u] => balance'[u] >= held'[u]]_vars
  BY <1>1
<1> QED
  BY <1>2, TypeCorrect, MoneyInvariant, PTL DEF Spec, NoOverdraft

-----------------------------------------------------------------------------
(* transferMoney implements WalletBook *)

\* A step that moves no visible money is a stutter of the book.
LEMMA BookStutter ==
    ASSUME UNCHANGED <<balance, held, args>>,
           \A q \in Requests :
              (Debited(q)' <=> Debited(q)) /\ (Debited(q) => moved'[q] = moved[q])
    PROVE  UNCHANGED Book!bookVars
<1>1. {r \in Requests : Debited(r)}' = {r \in Requests : Debited(r)}
  OBVIOUS
<1>2. ASSUME NEW r \in Requests
      PROVE  (IF Debited(r) /\ moved[r] = "debited" THEN Amount(r) ELSE 0)'
               = IF Debited(r) /\ moved[r] = "debited" THEN Amount(r) ELSE 0
  BY DEF Amount
<1> QED
  BY <1>1, <1>2 DEF Book!bookVars

\* A dispute's hold is one in the book.
LEMMA BookHold ==
    ASSUME UNCHANGED <<balance, args, moved, txn>>, held' \in [Users -> Int]
    PROVE  Book!Hold
<1>1. \A q \in Requests : Debited(q)' <=> Debited(q)
  BY DEF Debited
<1>2. {r \in Requests : Debited(r)}' = {r \in Requests : Debited(r)}
  BY <1>1
<1>3. ASSUME NEW r \in Requests
      PROVE  (IF Debited(r) /\ moved[r] = "debited" THEN Amount(r) ELSE 0)'
               = IF Debited(r) /\ moved[r] = "debited" THEN Amount(r) ELSE 0
  BY <1>1 DEF Amount
<1>4. [r \in Requests |-> IF Debited(r) /\ moved[r] = "debited" THEN Amount(r) ELSE 0]'
        = [r \in Requests |-> IF Debited(r) /\ moved[r] = "debited" THEN Amount(r) ELSE 0]
  BY <1>3
<1> QED
  BY <1>2, <1>4 DEF Book!Hold

\* What the books say of the others does not change.
LEMMA OthersInBook ==
    ASSUME NEW r \in Requests, NEW q \in Requests \ {r},
           args' = args, moved'[q] = moved[q], txn'[q] = txn[q]
    PROVE  /\ Debited(q)' <=> Debited(q)
           /\ (IF Debited(q) /\ moved[q] = "debited" THEN Amount(q) ELSE 0)'
                = IF Debited(q) /\ moved[q] = "debited" THEN Amount(q) ELSE 0
BY DEF Debited, Amount

\* Every behaviour of transferMoney, seen through the visible debits, is one
\* of WalletBook: at most one guarded debit and one credit per request.
THEOREM ImplementsBook == Spec => MoneyFollowsBook
<1>1. Init => Book!BookInit
  BY DEF Init, Book!BookInit, Debited
<1>2. TypeOK /\ MoneyInv /\ [Next]_vars => [Book!BookNext]_(Book!bookVars)
  <2> SUFFICES ASSUME TypeOK, MoneyInv, [Next]_vars
               PROVE  Book!BookNext \/ UNCHANGED Book!bookVars
    OBVIOUS
  <2>1. CASE Elsewhere
    <3>1. UNCHANGED <<balance, args, moved, txn>> /\ held' \in [Users -> Int]
      BY <2>1, ElsewhereKeepsMoney
    <3> QED
      BY <3>1, BookHold DEF Book!BookNext
  <2>2. ASSUME NEW r \in Requests,
           Step(r) \/ MongoError(r) \/ LoseRequest(r) \/ Crash(r)
        PROVE  Book!BookStep(r) \/ UNCHANGED Book!bookVars
    <3> DEFINE F(q) == IF Debited(q) /\ moved[q] = "debited" THEN Amount(q) ELSE 0
    <3> DEFINE T == {q \in Requests : Debited(q)}
    <3> DEFINE flight == [q \in Requests |-> F(q)]
    <3>0. /\ From(r) \in Users /\ Amount(r) \in {p.amount : p \in Payloads}
          /\ Amount(r) \in Nat /\ Amount(r) > 0 /\ Amount(r)' = Amount(r)
          /\ held' = held
      BY <2>2, PayloadType, HowMoneyMoves, HoldsStay DEF TypeOK, Amount
    <3>1. args' = args /\ \A q \in Requests \ {r} : moved'[q] = moved[q] /\ txn'[q] = txn[q]
      BY <2>2, HowMoneyMoves
    <3>2. \A q \in Requests \ {r} : (Debited(q)' <=> Debited(q)) /\ F(q)' = F(q)
      BY <3>1, OthersInBook
    <3>3. CASE /\ balance' = balance
               /\ Debited(r)' <=> Debited(r)
               /\ Debited(r) => moved'[r] = moved[r]
      BY <3>0, <3>1, <3>2, <3>3, BookStutter
    <3>4. CASE /\ ~Debited(r) /\ Debited(r)' /\ moved'[r] = "debited"
               /\ Available(From(r)) >= Amount(r)
               /\ balance' = [balance EXCEPT ![From(r)] = @ - Amount(r)]
      <4>1. T' = T \cup {r} /\ r \notin T
        BY <3>2, <3>4
      <4>2. F(r)' = Amount(r)
        BY <3>0, <3>4
      <4>3. flight' = [flight EXCEPT ![r] = Amount(r)]
        BY <3>2, <4>2
      <4>4. PICK s \in Users, a \in {p.amount : p \in Payloads} : s = From(r) /\ a = Amount(r)
        BY <3>0
      <4>5. Book!Take(r, s, a)
        BY <3>0, <3>4, <4>1, <4>3, <4>4 DEF Book!Take, Available
      <4> QED
        BY <4>5 DEF Book!BookStep
    <3>5. CASE /\ Debited(r) /\ moved[r] = "debited" /\ Debited(r)' /\ moved'[r] = "credited"
               /\ To(r) \in Users
               /\ balance' = [balance EXCEPT ![To(r)] = @ + Amount(r)]
      <4>1. T' = T
        BY <3>2, <3>5
      <4>2. F(r) = Amount(r) /\ F(r)' = 0
        BY <3>5
      <4>3. flight' = [flight EXCEPT ![r] = 0] /\ flight[r] = Amount(r)
        BY <3>2, <4>2
      <4>4. PICK t \in Users : t = To(r)
        BY <3>5
      <4>5. Book!Give(r, t)
        BY <3>0, <3>5, <4>1, <4>3, <4>4 DEF Book!Give
      <4> QED
        BY <4>5 DEF Book!BookStep
    <3>6. CASE /\ ~Debited(r) /\ Debited(r)' /\ moved'[r] = "credited"
               /\ Available(From(r)) >= Amount(r)
               /\ To(r) \in Users /\ To(r) # From(r)
               /\ balance' = [balance EXCEPT ![From(r)] = @ - Amount(r),
                                             ![To(r)] = @ + Amount(r)]
      <4>1. T' = T \cup {r} /\ r \notin T
        BY <3>2, <3>6
      <4>2. F(r) = 0 /\ F(r)' = 0
        BY <3>6
      <4>3. flight' = flight
        BY <3>2, <4>2
      <4>4. Book!Move(r, From(r), To(r), Amount(r))
        BY <3>0, <3>6, <4>1, <4>3 DEF Book!Move, Available
      <4> QED
        BY <3>0, <3>6, <4>4 DEF Book!BookStep
    <3> QED
      BY <2>2, <3>3, <3>4, <3>5, <3>6, HowMoneyMoves
  <2> QED
    BY <2>1, <2>2, WhoSteps DEF Book!BookNext
<1> QED
  BY <1>1, <1>2, TypeCorrect, MoneyInvariant, PTL DEF Spec, MoneyFollowsBook, Book!BookSpec

-----------------------------------------------------------------------------
(* transferMoney uses DistributedLock as its protocol says *)

Phases == [r \in Requests |-> LockPhase[pc[r]]]
Attempts == [r \in Requests |-> IF LockPhase[pc[r]] = "idle" THEN 0 ELSE 1]
Wants == [r \in Requests |-> From(r)]

\* An EXCEPT, written as a function.
LEMMA ExceptIs ==
    ASSUME NEW S, NEW f, f = [x \in S |-> f[x]], NEW r, NEW v
    PROVE  [f EXCEPT ![r] = v] = [x \in S |-> IF x = r THEN v ELSE f[x]]
OBVIOUS

\* The points of a transfer by the phase of its lock.
LEMMA LockPhases ==
    /\ \A p \in {"outer", "wallet", "limits", "early"} : LockPhase[p] = "idle"
    /\ \A p \in Critical : LockPhase[p] = "critical"
    /\ LockPhase["lock"] = "trying" /\ LockPhase["done"] = "done"
    /\ \A p \in Points : LockPhase[p] = "critical" => p \in Critical
BY DEF LockPhase, Points, Critical

\* What the move of one request looks like to the protocol.
LEMMA PhaseStep ==
    ASSUME TypeOK, NEW r \in Requests, NEW p, pc' = [pc EXCEPT ![r] = p], args' = args,
           NEW h, LockPhase[p] = h, h # "idle"
    PROVE  /\ Phases' = [Phases EXCEPT ![r] = h]
           /\ Attempts' = [Attempts EXCEPT ![r] = 1]
           /\ Wants' = Wants
<1>1. pc'[r] = p /\ \A q \in Requests \ {r} : pc'[q] = pc[q]
  BY DEF TypeOK
<1>2. Phases' = [q \in Requests |-> IF q = r THEN h ELSE Phases[q]]
  BY <1>1 DEF Phases
<1>3. Attempts' = [q \in Requests |-> IF q = r THEN 1 ELSE Attempts[q]]
  BY <1>1 DEF Attempts
<1>4. Phases = [q \in Requests |-> Phases[q]] /\ Attempts = [q \in Requests |-> Attempts[q]]
  BY DEF Phases, Attempts
<1> QED
  BY <1>2, <1>3, <1>4, ExceptIs DEF Wants, From

\* A step into the lock's section.
LEMMA EnterPhase ==
    ASSUME TypeOK, NEW r \in Requests, pc' = [pc EXCEPT ![r] = "attempt"], args' = args
    PROVE  /\ Phases' = [Phases EXCEPT ![r] = "critical"]
           /\ Attempts' = [Attempts EXCEPT ![r] = 1]
           /\ Wants' = Wants
<1>1. LockPhase["attempt"] = "critical"
  BY LockPhases DEF Critical
<1>2. "critical" # "idle"
  OBVIOUS
<1> QED
  BY <1>1, <1>2, PhaseStep, Zenon

\* A step out of it.
LEMMA LeavePhase ==
    ASSUME TypeOK, NEW r \in Requests, pc' = [pc EXCEPT ![r] = "done"], args' = args
    PROVE  /\ Phases' = [Phases EXCEPT ![r] = "done"]
           /\ Attempts' = [Attempts EXCEPT ![r] = 1]
           /\ Wants' = Wants
<1>1. LockPhase["done"] = "done"
  BY LockPhases
<1>2. "done" # "idle"
  OBVIOUS
<1> QED
  BY <1>1, <1>2, PhaseStep, Zenon

\* A step that stays on its side of the lock is a stutter of the lock.
LEMMA SamePhase ==
    ASSUME TypeOK, NEW r \in Requests, NEW p, pc' = [pc EXCEPT ![r] = p],
           LockPhase[p] = LockPhase[pc[r]], UNCHANGED <<lockVars, args>>, Calm' = Calm
    PROVE  UNCHANGED Lock!vars
<1>1. pc'[r] = p /\ \A q \in Requests \ {r} : pc'[q] = pc[q]
  BY DEF TypeOK
<1>2. Phases' = Phases /\ Attempts' = Attempts /\ Wants' = Wants
  BY <1>1 DEF Phases, Attempts, Wants, From
<1> QED
  BY <1>2 DEF Lock!vars, Phases, Attempts, Wants

\* Troubles with MongoDB and crashes leave the lock calm.
LEMMA CalmKept ==
    ASSUME \/ UNCHANGED troubles \/ troubles' = troubles \cup {"mongo"}
           \/ troubles' = troubles \cup {"crash"}
    PROVE  Calm' = Calm
BY DEF Calm

\* What a request does between acquireLock and releaseLock is nothing to it.
LEMMA CriticalStep ==
    ASSUME TypeOK, NEW r \in Requests,
           StartAttempt(r) \/ LookupReceiver(r) \/ EnsureSender(r) \/ EnsureReceiver(r)
           \/ Debit(r) \/ Credit(r) \/ FetchBalances(r) \/ RecordPlain(r) \/ RecordTxn(r)
           \/ LedgerPlain(r) \/ LedgerTxn(r) \/ Commit(r) \/ MongoError(r)
    PROVE  UNCHANGED Lock!vars
<1> USE DEF Leave, FallBack, Goto, Reply
<1>1. pc[r] \in Critical
  BY DEF StartAttempt, LookupReceiver, EnsureSender, EnsureReceiver, Debit, Credit,
     FetchBalances,
         RecordPlain, RecordTxn, LedgerPlain, LedgerTxn, Commit, MongoError, Critical
<1>2. \E p \in Critical : pc' = [pc EXCEPT ![r] = p]
  <2>1. CASE StartAttempt(r) \/ LookupReceiver(r)
    BY <2>1 DEF StartAttempt, LookupReceiver, Critical
  <2>2. CASE EnsureSender(r) \/ EnsureReceiver(r)
    BY <2>2 DEF EnsureSender, EnsureReceiver, Critical
  <2>3. CASE Debit(r) \/ Credit(r) \/ FetchBalances(r)
    BY <2>3 DEF Debit, Credit, FetchBalances, Critical
  <2>4. CASE RecordPlain(r) \/ RecordTxn(r)
    BY <2>4 DEF RecordPlain, RecordTxn, Critical
  <2>5. CASE LedgerPlain(r)
    <3>1. pc = [pc EXCEPT ![r] = "ledger"]
      BY <2>5 DEF LedgerPlain, TypeOK
    <3> QED
      BY <2>5, <3>1 DEF LedgerPlain, Critical
  <2>6. CASE LedgerTxn(r) \/ Commit(r) \/ MongoError(r)
    BY <2>6 DEF LedgerTxn, Commit, MongoError, Critical
  <2> QED
    BY <2>1, <2>2, <2>3, <2>4, <2>5, <2>6
<1>3. UNCHANGED <<lockVars, args>> /\ (UNCHANGED troubles \/ troubles' = troubles \cup {"mongo"})
  BY DEF StartAttempt, LookupReceiver, EnsureSender, EnsureReceiver, Debit, Credit,
     FetchBalances,
         RecordPlain, RecordTxn, LedgerPlain, LedgerTxn, Commit, MongoError
<1>4. PICK p \in Critical : pc' = [pc EXCEPT ![r] = p]
  BY <1>2
<1>5. LockPhase[p] = LockPhase[pc[r]]
  BY <1>1, LockPhases
<1>6. Calm' = Calm
  BY <1>3, CalmKept
<1> QED
  BY <1>3, <1>4, <1>5, <1>6, SamePhase

\* Each step of a request is one of the protocol, or nothing to it.
LEMMA LockStep ==
    ASSUME TypeOK, NEW r \in Requests,
           Step(r) \/ MongoError(r) \/ LoseRequest(r) \/ Crash(r)
    PROVE  Lock!Call(r) \/ Lock!Step(r) \/ Lock!Crash(r) \/ UNCHANGED Lock!vars
<1> USE DEF Goto, Reply
<1>0. /\ Phases[r] = LockPhase[pc[r]] /\ Wants[r] = From(r)
      /\ Attempts[r] = IF LockPhase[pc[r]] = "idle" THEN 0 ELSE 1
  BY DEF Phases, Attempts, Wants
<1>1. CASE OuterCheck(r) \/ CheckWallet(r)
  <2>1. /\ pc[r] \in {"outer", "wallet"} /\ UNCHANGED <<lockVars, args, troubles>>
        /\ \E p \in {"early", "wallet", "limits"} : pc' = [pc EXCEPT ![r] = p]
    BY <1>1 DEF OuterCheck, CheckWallet
  <2>2. PICK p \in {"early", "wallet", "limits"} : pc' = [pc EXCEPT ![r] = p]
    BY <2>1
  <2>3. LockPhase[p] = LockPhase[pc[r]] /\ Calm' = Calm
    BY <2>1, CalmKept, LockPhases
  <2> QED
    BY <2>1, <2>2, <2>3, SamePhase
<1>2. CASE CheckDailyLimit(r)
  <2>1. /\ pc[r] = "limits" /\ UNCHANGED <<lockVars, args, troubles>>
        /\ \E p \in {"early", "lock"} : pc' = [pc EXCEPT ![r] = p]
    BY <1>2 DEF CheckDailyLimit
  <2>2. CASE pc' = [pc EXCEPT ![r] = "early"]
    BY <2>1, <2>2, CalmKept, SamePhase, LockPhases
  <2>3. CASE pc' = [pc EXCEPT ![r] = "lock"]
    <3>1. /\ Phases[r] = "idle" /\ Phases' = [Phases EXCEPT ![r] = "trying"]
          /\ Attempts' = [Attempts EXCEPT ![r] = 1] /\ Wants' = Wants
      <4>1. Phases[r] = "idle" /\ args' = args
        BY <1>0, <2>1, LockPhases
      <4>2. LockPhase["lock"] = "trying" /\ "trying" # "idle"
        BY LockPhases
      <4> QED
        BY <2>3, <4>1, <4>2, PhaseStep, Zenon
    <3>2. Calm' = Calm
      BY <2>1, CalmKept
    <3>3. Lock!Call(r)
      BY <2>1, <3>1, <3>2 DEF Lock!Call, Phases, Attempts, Wants
    <3> QED
      BY <3>3
  <2> QED
    BY <2>1, <2>2, <2>3
<1>3. CASE AcquireLock(r)
  <2>1. /\ pc[r] = "lock" /\ lock[Wants[r]] = Free /\ lock' = [lock EXCEPT ![Wants[r]] = r]
        /\ token' = [token EXCEPT ![r] = TRUE]
        /\ pc' = [pc EXCEPT ![r] = "attempt"] /\ UNCHANGED <<args, troubles>>
    BY <1>0, <1>3 DEF AcquireLock
  <2>2. /\ Phases[r] = "trying" /\ Phases' = [Phases EXCEPT ![r] = "critical"]
        /\ Attempts' = [Attempts EXCEPT ![r] = 1] /\ Attempts[r] = 1 /\ Wants' = Wants
    <3>1. /\ Phases[r] = "trying" /\ Attempts[r] = 1 /\ args' = args
          /\ pc' = [pc EXCEPT ![r] = "attempt"]
      BY <1>0, <2>1, LockPhases
    <3> QED
      BY <3>1, EnterPhase
  <2>3. Attempts' = Attempts
    BY <2>2 DEF Attempts
  <2>4. Calm' = Calm
    BY <2>1, CalmKept
  <2>5. Lock!SetNX(r)
    BY <2>1, <2>2, <2>3, <2>4 DEF Lock!SetNX, Phases, Attempts, Wants
  <2> QED
    BY <2>5 DEF Lock!Step
<1>4. CASE LockContention(r)
  <2>1. /\ pc[r] = "lock" /\ lock[Wants[r]] # Free
        /\ pc' = [pc EXCEPT ![r] = "done"] /\ UNCHANGED <<lock, token, args, troubles>>
    BY <1>0, <1>4 DEF LockContention
  <2>2. Phases[r] = "trying" /\ Attempts[r] = 1 /\ Calm' = Calm
    BY <1>0, <2>1, LockPhases, CalmKept
  <2>3. pc' = [pc EXCEPT ![r] = "done"] /\ args' = args
    BY <2>1
  <2>4. Phases' = [Phases EXCEPT ![r] = "done"] /\ Attempts' = [Attempts EXCEPT ![r] = 1]
    BY <2>3, LeavePhase
  <2>5. Attempts' = Attempts /\ Wants' = Wants
    BY <2>1, <2>2, <2>4 DEF Attempts, Wants, From
  <2>6. Lock!Contention(r)
    BY <2>1, <2>2, <2>4, <2>5 DEF Lock!Contention, Phases, Attempts, Wants
  <2> QED
    BY <2>6 DEF Lock!Step
<1>5. CASE LockUnavailable(r)
  <2>1. /\ pc[r] = "lock" /\ UNCHANGED <<token, args>>
        /\ \/ UNCHANGED lock
           \/ lock[Wants[r]] = Free /\ lock' = [lock EXCEPT ![Wants[r]] = r]
        /\ pc' = [pc EXCEPT ![r] = "attempt"] /\ "redis" \in troubles'
    BY <1>0, <1>5 DEF LockUnavailable
  <2>2. Phases[r] = "trying" /\ Attempts[r] = 1 /\ Calm' = FALSE
    BY <1>0, <2>1, LockPhases DEF Calm
  <2>3. pc' = [pc EXCEPT ![r] = "attempt"] /\ args' = args
    BY <2>1
  <2>4. Phases' = [Phases EXCEPT ![r] = "critical"] /\ Attempts' = [Attempts EXCEPT ![r] = 1]
    BY <2>3, EnterPhase
  <2>5. Attempts' = Attempts /\ Wants' = Wants
    BY <2>1, <2>2, <2>4 DEF Attempts, Wants, From
  <2>6. \E p \in {"critical", "done"} : Phases' = [Phases EXCEPT ![r] = p]
    BY <2>4
  <2>7. Lock!SetFails(r)
    BY <2>1, <2>2, <2>5, <2>6 DEF Lock!SetFails, Phases, Attempts, Wants
  <2> QED
    BY <2>7 DEF Lock!Step
<1>6. CASE ReleaseLock(r)
  <2>1. /\ pc[r] = "release" /\ UNCHANGED args /\ token' = [token EXCEPT ![r] = FALSE]
        /\ pc' = [pc EXCEPT ![r] = "done"]
        /\ \/ /\ lock' = IF token[r] /\ lock[Wants[r]] = r
                         THEN [lock EXCEPT ![Wants[r]] = Free] ELSE lock
              /\ UNCHANGED troubles
           \/ "redis" \in troubles' /\ UNCHANGED lock
    BY <1>0, <1>6 DEF ReleaseLock
  <2>2. Phases[r] = "critical" /\ Attempts[r] = 1
    BY <1>0, <2>1, LockPhases DEF Critical
  <2>3. pc' = [pc EXCEPT ![r] = "done"] /\ args' = args
    BY <2>1
  <2>4. Phases' = [Phases EXCEPT ![r] = "done"] /\ Attempts' = [Attempts EXCEPT ![r] = 1]
    BY <2>3, LeavePhase
  <2>5. Attempts' = Attempts /\ Wants' = Wants
    BY <2>1, <2>2, <2>4 DEF Attempts, Wants, From
  <2>6. CASE /\ lock' = IF token[r] /\ lock[Wants[r]] = r
                         THEN [lock EXCEPT ![Wants[r]] = Free] ELSE lock
             /\ UNCHANGED troubles
    <3>1. Calm' = Calm
      BY <2>6, CalmKept
    <3>2. Lock!Release(r)
      BY <2>1, <2>2, <2>4, <2>5, <2>6, <3>1 DEF Lock!Release, Phases, Attempts, Wants
    <3> QED
      BY <3>2 DEF Lock!Step
  <2>7. CASE "redis" \in troubles' /\ UNCHANGED lock
    <3>1. Calm' = FALSE
      BY <2>7 DEF Calm
    <3>2. Lock!ReleaseFails(r)
      BY <2>1, <2>2, <2>4, <2>5, <2>7, <3>1 DEF Lock!ReleaseFails, Phases, Attempts, Wants
    <3> QED
      BY <3>2 DEF Lock!Step
  <2> QED
    BY <2>1, <2>6, <2>7
<1>7. CASE Crash(r)
  <2>1. /\ pc[r] \in Critical \cup {"lock"} /\ UNCHANGED <<lock, args>>
        /\ token' = [token EXCEPT ![r] = FALSE]
        /\ pc' = [pc EXCEPT ![r] = "done"] /\ troubles' = troubles \cup {"crash"}
    BY <1>7 DEF Crash
  <2>2. Phases[r] \in {"trying", "critical"} /\ Attempts[r] = 1 /\ Calm' = Calm
    BY <1>0, <2>1, LockPhases, CalmKept
  <2>3. pc' = [pc EXCEPT ![r] = "done"] /\ args' = args
    BY <2>1
  <2>4. Phases' = [Phases EXCEPT ![r] = "done"] /\ Attempts' = [Attempts EXCEPT ![r] = 1]
    BY <2>3, LeavePhase
  <2>5. Attempts' = Attempts /\ Wants' = Wants
    BY <2>1, <2>2, <2>4 DEF Attempts, Wants, From
  <2> QED
    BY <2>1, <2>2, <2>4, <2>5 DEF Lock!Crash, Phases, Attempts, Wants
<1>8. CASE LoseRequest(r)
  <2>1. UNCHANGED <<lock, args>> /\ troubles' = troubles \cup {"mongo"}
    BY <1>8 DEF LoseRequest
  <2>2. Calm' = Calm
    BY <2>1, CalmKept
  <2>3. CASE pc[r] \in {"outer", "wallet", "limits"} /\ End(r, "early", "lost")
    <3>1. pc' = [pc EXCEPT ![r] = "early"] /\ UNCHANGED token
      BY <2>3
    <3>2. LockPhase["early"] = LockPhase[pc[r]]
      BY <2>3, LockPhases
    <3> QED
      BY <2>1, <2>2, <3>1, <3>2, SamePhase
  <2>4. CASE pc[r] = "attempt" /\ End(r, "done", "lost")
    <3>1. /\ pc' = [pc EXCEPT ![r] = "done"] /\ args' = args
          /\ token' = [token EXCEPT ![r] = FALSE]
      BY <2>1, <2>4
    <3>2. Phases[r] = "critical" /\ Attempts[r] = 1
      BY <1>0, <2>4, LockPhases DEF Critical
    <3>3. Phases' = [Phases EXCEPT ![r] = "done"] /\ Attempts' = [Attempts EXCEPT ![r] = 1]
      BY <3>1, LeavePhase
    <3>4. Attempts' = Attempts /\ Wants' = Wants
      BY <3>1, <3>2, <3>3 DEF Attempts, Wants, From
    <3> QED
      BY <2>1, <2>2, <3>1, <3>2, <3>3, <3>4 DEF Lock!Crash, Phases, Attempts, Wants
  <2> QED
    BY <1>8, <2>3, <2>4 DEF LoseRequest
<1> QED
  BY <1>1, <1>2, <1>3, <1>4, <1>5, <1>6, <1>7, <1>8, CriticalStep DEF Step
-----------------------------------------------------------------------------
\* transferMoney runs DistributedLock's protocol and touches the Redis entries
\* in no other way.
THEOREM UsesLockProtocol == Spec => LockFollowsProtocol
<1>1. Init => Lock!Init
  <2> SUFFICES ASSUME Init PROVE Lock!Init
    OBVIOUS
  <2>1. Phases = [r \in Requests |-> "idle"] /\ Attempts = [r \in Requests |-> 0]
    BY LockPhases DEF Init, Phases, Attempts
  <2>2. Wants \in [Requests -> Users]
    BY TransferAssumption DEF Init, Wants, From
  <2>3. Calm = TRUE
    BY DEF Init, Calm
  <2> QED
    BY <2>1, <2>2, <2>3 DEF Init, Lock!Init, Phases, Attempts, Wants
<1>2. TypeOK /\ [Next]_vars => [Lock!Next]_(Lock!vars)
  <2> SUFFICES ASSUME TypeOK, [Next]_vars
               PROVE  Lock!Next \/ UNCHANGED Lock!vars
    OBVIOUS
  <2>1. ASSUME NEW r \in Requests,
           Step(r) \/ MongoError(r) \/ LoseRequest(r) \/ Crash(r)
        PROVE  Lock!Next \/ UNCHANGED Lock!vars
    BY <2>1, LockStep DEF Lock!Next
  <2>2. ASSUME NEW u \in Users, ExpireLock(u)
        PROVE  Lock!Next \/ UNCHANGED Lock!vars
    <3>1. /\ lock[u] # Free /\ lock' = [lock EXCEPT ![u] = Free]
          /\ UNCHANGED <<args, pc, token>>
          /\ IF pc[lock[u]] \in Critical THEN "slow" \in troubles' ELSE UNCHANGED troubles
      BY <2>2 DEF ExpireLock
    <3>2. lock[u] \in Requests /\ Phases[lock[u]] = LockPhase[pc[lock[u]]]
          /\ pc[lock[u]] \in Points
      BY <3>1 DEF TypeOK, Phases
    <3>3. Calm' = (Calm /\ Phases[lock[u]] # "critical")
      <4>1. CASE pc[lock[u]] \in Critical
        <5>1. Calm' = FALSE
          BY <3>1, <4>1 DEF Calm
        <5>2. Phases[lock[u]] = "critical"
          BY <3>2, <4>1, LockPhases
        <5> QED
          BY <5>1, <5>2
      <4>2. CASE pc[lock[u]] \notin Critical
        <5>1. Calm' = Calm
          BY <3>1, <4>2, CalmKept
        <5>2. Phases[lock[u]] # "critical"
          BY <3>2, <4>2, LockPhases
        <5> QED
          BY <5>1, <5>2 DEF Calm
      <4> QED
        BY <4>1, <4>2
    <3>4. Phases' = Phases /\ Attempts' = Attempts /\ Wants' = Wants
      BY <3>1 DEF Phases, Attempts, Wants, From
    <3>5. Lock!Expire(u)
      BY <3>1, <3>3, <3>4 DEF Lock!Expire, Phases, Attempts, Wants
    <3> QED
      BY <3>5 DEF Lock!Next
  <2>3. CASE \/ \E u \in Frozen : FreezeWallet(u) \/ UnfreezeWallet(u)
             \/ \E u \in Disputed : MoveHold(u)
             \/ UNCHANGED vars
    <3>1. UNCHANGED <<lockVars, args, pc, troubles>>
      BY <2>3 DEF FreezeWallet, UnfreezeWallet, MoveHold, SetStatus, vars
    <3>2. Phases' = Phases /\ Attempts' = Attempts /\ Wants' = Wants /\ Calm' = Calm
      BY <3>1 DEF Phases, Attempts, Wants, From, Calm
    <3> QED
      BY <3>1, <3>2 DEF Lock!vars, Phases, Attempts, Wants
  <2> QED
    BY <2>1, <2>2, <2>3 DEF Next
<1> QED
  BY <1>1, <1>2, TypeCorrect, PTL DEF Spec, LockFollowsProtocol

\* The lock's theorems, for the lock as the transfers use it.
LockProofs == INSTANCE DistributedLock_proofs WITH
    Resources    <- Users,
    RetryCount   <- 1,
    calm    <- Calm,
    store   <- lock,
    want    <- Wants,
    attempt <- Attempts,
    phase   <- Phases

\* Nobody but the lock's holder is between acquireLock and releaseLock until
\* Redis fails or a transfer outlives the TTL: what DistributedLock promises.
THEOREM SenderIsExclusive == Spec => []OneTransferPerSender
<1>1. Free \notin Requests /\ 1 \in Nat \ {0}
  BY TransferAssumption
<1>2. Lock!Init => LockProofs!Init
  BY DEF Lock!Init, LockProofs!Init, Phases, Attempts, Wants
<1>3. Lock!vars = LockProofs!vars
  BY DEF Lock!vars, LockProofs!vars, Phases, Attempts, Wants
<1>4. Lock!vars' = LockProofs!vars'
  BY DEF Lock!vars, LockProofs!vars, Phases, Attempts, Wants
<1>5. ASSUME NEW r \in Requests
      PROVE  /\ Lock!Call(r) => LockProofs!Call(r)
             /\ Lock!Crash(r) => LockProofs!Crash(r)
             /\ Lock!Step(r) => LockProofs!Step(r)
  <2>1. /\ Lock!Call(r) => LockProofs!Call(r)
        /\ Lock!Crash(r) => LockProofs!Crash(r)
    BY DEF Lock!Call, Lock!Crash, LockProofs!Call, LockProofs!Crash, Phases, Attempts, Wants
  <2>2. /\ Lock!SetNX(r) => LockProofs!SetNX(r)
        /\ Lock!Busy(r) => LockProofs!Busy(r)
        /\ Lock!Contention(r) => LockProofs!Contention(r)
    BY DEF Lock!SetNX, Lock!Busy, Lock!Contention, LockProofs!SetNX, LockProofs!Busy,
           LockProofs!Contention, Phases, Attempts, Wants
  <2>3. /\ Lock!SetFails(r) => LockProofs!SetFails(r)
        /\ Lock!Release(r) => LockProofs!Release(r)
        /\ Lock!ReleaseFails(r) => LockProofs!ReleaseFails(r)
    BY DEF Lock!SetFails, Lock!Release, Lock!ReleaseFails, LockProofs!SetFails,
       LockProofs!Release,
           LockProofs!ReleaseFails, Phases, Attempts, Wants
  <2> QED
    BY <2>1, <2>2, <2>3 DEF Lock!Step, LockProofs!Step
<1>6. ASSUME NEW u \in Users PROVE Lock!Expire(u) => LockProofs!Expire(u)
  BY DEF Lock!Expire, LockProofs!Expire, Phases, Attempts, Wants
<1>7. [Lock!Next]_(Lock!vars) => [LockProofs!Next]_(LockProofs!vars)
  BY <1>3, <1>4, <1>5, <1>6 DEF Lock!Next, LockProofs!Next
<1>8. LockFollowsProtocol => LockProofs!Spec
  BY <1>2, <1>7, PTL DEF LockFollowsProtocol, LockProofs!Spec
<1>9. LockProofs!Spec => []LockProofs!MutualExclusion
  BY <1>1, LockProofs!LockExcludes
<1>10. TypeOK /\ LockProofs!MutualExclusion => OneTransferPerSender
  <2> SUFFICES ASSUME TypeOK, LockProofs!MutualExclusion, Calm,
                      NEW r \in Requests, NEW q \in Requests,
                      r # q, pc[r] \in Critical, pc[q] \in Critical
               PROVE  From(r) # From(q)
    BY DEF OneTransferPerSender
  <2>1. Phases[r] = "critical" /\ Phases[q] = "critical"
    BY LockPhases DEF Phases
  <2> QED
    BY <2>1 DEF LockProofs!MutualExclusion, LockProofs!Critical, Wants
<1> QED
  BY <1>8, <1>9, <1>10, TypeCorrect, UsesLockProtocol, PTL

-----------------------------------------------------------------------------
(* What a request leaves behind, whoever else is running *)

Attempting == {"receiver", "ensureFrom", "ensureTo"} \cup InMoney

\* On a replica set the first attempt works in a transaction, and whatever
\* ends it drops or commits both halves of the move.
WholeUnlessForced(r) ==
    ~forced[r] /\ Mongo = "replica" =>
        IF pc[r] \in Attempting THEN txn[r] ELSE moved[r] # "debited"

\* Documents are written on the way out of an attempt, never before another.
WrittenByPoint(r) ==
    /\ r \in recorded => pc[r] \in {"ledger", "release", "done"} /\ ~txn[r]
    /\ pc[r] = "ledger" /\ ~txn[r] => r \in recorded
    /\ \A side \in Sides : <<r, side>> \in ledger => r \in recorded

\* The answer ok is given after everything is written.
OkIsTrue(r) ==
    pc[r] \in {"release", "done"} /\ out[r] = "ok" =>
        /\ moved[r] = "credited" /\ r \in recorded
        /\ \A side \in Sides : <<r, side>> \in ledger


-----------------------------------------------------------------------------
(* Idempotency keys *)

Undisturbed == troubles = {} \/ (Calm /\ Transactional)
Keyed(r) == args[r].key # NoKey

\* The check inside the lock stays true for as long as the lock is held.
NoOtherRecord(r) ==
    pc[r] \in Attempting => \A q \in recorded : SameKey(q, r) => q = r

\* Money that has left is recorded, or about to be.
DebitIsRecorded(r) ==
    Debited(r) => r \in recorded \/ pc[r] \in {"credit", "fetch", "record"}

RecordIsUnique ==
    \A r, q \in recorded : Keyed(r) /\ SameKey(r, q) => r = q

FailureIsTrue(r) ==
    troubles = {} /\ pc[r] \in {"release", "done"} /\ out[r] # "ok" =>
        moved[r] = "no" /\ r \notin recorded

KeyInv ==
    Undisturbed =>
        /\ RecordIsUnique
        /\ \A r \in Requests : Keyed(r) =>
              NoOtherRecord(r) /\ DebitIsRecorded(r) /\ FailureIsTrue(r)

-----------------------------------------------------------------------------
(* The balance a ledger entry shows *)

\* Nobody else's transfer is visible.
OnlyMover(r) == \A q \in Requests \ {r} : ~Debited(q)

SoleBalance(r) ==
    OnlyMover(r) =>
        balance[From(r)] = InitBalance[From(r)] - (IF Debited(r) THEN Amount(r) ELSE 0)

SeenAfterDebit(r) ==
    OnlyMover(r) /\ forced[r] /\ (pc[r] \in {"record", "ledger"} \/ r \in recorded) =>
        seen[r].from = InitBalance[From(r)] - Amount(r)

SightInv == \A r \in Requests : SoleBalance(r) /\ SeenAfterDebit(r)
\* The functions a step writes are total on the requests.
LEMMA Total ==
    ASSUME TypeOK
    PROVE  /\ DOMAIN pc = Requests /\ DOMAIN txn = Requests /\ DOMAIN moved = Requests
           /\ DOMAIN forced = Requests /\ DOMAIN out = Requests /\ DOMAIN seen = Requests
           /\ pc = [q \in Requests |-> pc[q]] /\ txn = [q \in Requests |-> txn[q]]
           /\ moved = [q \in Requests |-> moved[q]] /\ forced = [q \in Requests |-> forced[q]]
           /\ out = [q \in Requests |-> out[q]] /\ seen = [q \in Requests |-> seen[q]]
           /\ \A q \in Requests : txn[q] \in BOOLEAN /\ forced[q] \in BOOLEAN
           /\ recorded \subseteq Requests /\ ledger \subseteq Requests \X Sides
BY DEF TypeOK

\* What a step of r leaves as it is.
OnlyOf(r) ==
    /\ args' = args
    /\ recorded \subseteq recorded' /\ recorded' \subseteq recorded \cup {r}
    /\ ledger \subseteq ledger' /\ ledger' \subseteq ledger \cup ({r} \X Sides)
    /\ \A q \in Requests \ {r} :
          /\ pc'[q] = pc[q] /\ txn'[q] = txn[q] /\ moved'[q] = moved[q]
          /\ forced'[q] = forced[q] /\ out'[q] = out[q] /\ seen'[q] = seen[q]

\* A request's step leaves the traces of the others alone.
LEMMA StepIsOwn ==
    ASSUME TypeOK, NEW r \in Requests,
           Step(r) \/ MongoError(r) \/ LoseRequest(r) \/ Crash(r)
    PROVE  OnlyOf(r)
<1> USE Total DEF OnlyOf, Goto, Reply, Leave, FallBack, Abort
<1>1. CASE OuterCheck(r) \/ CheckWallet(r) \/ CheckDailyLimit(r)
  BY <1>1 DEF OuterCheck, CheckWallet, CheckDailyLimit
<1>2. CASE AcquireLock(r) \/ LockContention(r) \/ LockUnavailable(r)
  BY <1>2 DEF AcquireLock, LockContention, LockUnavailable
<1>3. CASE StartAttempt(r) \/ LookupReceiver(r)
  BY <1>3 DEF StartAttempt, LookupReceiver
<1>4. CASE EnsureSender(r) \/ EnsureReceiver(r)
  BY <1>4 DEF EnsureSender, EnsureReceiver
<1>5. CASE Debit(r) \/ Credit(r) \/ FetchBalances(r)
  BY <1>5 DEF Debit, Credit, FetchBalances
<1>6. CASE RecordPlain(r) \/ RecordTxn(r)
  BY <1>6 DEF RecordPlain, RecordTxn
<1>7. CASE LedgerPlain(r)
  <2>1. /\ UNCHANGED <<args, recorded, txn, moved, forced, seen>>
        /\ \/ pc' = [pc EXCEPT ![r] = "release"] /\ out' = [out EXCEPT ![r] = "ok"]
           \/ UNCHANGED <<pc, out>>
    BY <1>7 DEF LedgerPlain
  <2>2. \E side \in Sides : ledger' = ledger \cup {<<r, side>>}
    BY <1>7 DEF LedgerPlain
  <2> QED
    BY <2>1, <2>2
<1>9. CASE LedgerTxn(r)
  BY <1>9 DEF LedgerTxn
<1>8. CASE Commit(r) \/ ReleaseLock(r) \/ MongoError(r) \/ LoseRequest(r) \/ Crash(r)
  BY <1>8 DEF Commit, ReleaseLock, MongoError, LoseRequest, Crash
<1> QED
  BY <1>1, <1>2, <1>3, <1>4, <1>5, <1>6, <1>7, <1>8, <1>9 DEF Step

\* Nothing else writes any of it.
LEMMA ElsewhereKeepsTraces ==
    ASSUME Elsewhere
    PROVE  UNCHANGED <<moneyVars, args, pc, out, txn, forced, moved, seen>>
BY DEF Elsewhere, ExpireLock, FreezeWallet, UnfreezeWallet, MoveHold, SetStatus, vars

Trace(r) ==
    /\ WholeUnlessForced(r)
    /\ WrittenByPoint(r)
    /\ OkIsTrue(r)
    /\ forced[r] => ~txn[r]

TraceInv == \A r \in Requests : Trace(r)

\* Each step of a request keeps its own traces.
LEMMA TraceStep ==
    ASSUME TypeOK, MoneyInv, NEW r \in Requests, Trace(r),
           Step(r) \/ MongoError(r) \/ LoseRequest(r) \/ Crash(r)
    PROVE  Trace(r)'
<1> USE Total DEF Goto, Reply, Leave, FallBack, Abort, Trace, WholeUnlessForced, WrittenByPoint,
                  OkIsTrue, Attempting, InMoney
<1>0. MovedByPoint(r) /\ TxnByPoint(r)
  BY DEF MoneyInv, RequestInv
<1>1. CASE OuterCheck(r) \/ CheckWallet(r) \/ CheckDailyLimit(r)
  BY <1>0, <1>1 DEF OuterCheck, CheckWallet, CheckDailyLimit, MovedByPoint
<1>2. CASE AcquireLock(r) \/ LockContention(r) \/ LockUnavailable(r)
  BY <1>0, <1>2 DEF AcquireLock, LockContention, LockUnavailable, MovedByPoint
<1>3. CASE StartAttempt(r)
  BY <1>0, <1>3 DEF StartAttempt, MovedByPoint
<1>4. CASE LookupReceiver(r)
  BY <1>0, <1>4 DEF LookupReceiver, MovedByPoint
<1>5. CASE EnsureSender(r)
  BY <1>0, <1>5 DEF EnsureSender, MovedByPoint
<1>6. CASE EnsureReceiver(r)
  BY <1>0, <1>6 DEF EnsureReceiver, MovedByPoint
<1>7. CASE Debit(r)
  BY <1>0, <1>7 DEF Debit, MovedByPoint
<1>8. CASE Credit(r)
  BY <1>0, <1>8 DEF Credit, MovedByPoint
<1>9. CASE FetchBalances(r)
  BY <1>0, <1>9 DEF FetchBalances, MovedByPoint
<1>10. CASE RecordPlain(r)
  BY <1>0, <1>10 DEF RecordPlain, MovedByPoint
<1>11. CASE RecordTxn(r)
  BY <1>0, <1>11 DEF RecordTxn, MovedByPoint
<1>12. CASE LedgerPlain(r)
  BY <1>0, <1>12 DEF LedgerPlain, MovedByPoint
<1>13. CASE LedgerTxn(r)
  BY <1>0, <1>13 DEF LedgerTxn, MovedByPoint
<1>14. CASE Commit(r)
  BY <1>0, <1>14 DEF Commit, MovedByPoint, TxnByPoint
<1>15. CASE ReleaseLock(r)
  BY <1>0, <1>15 DEF ReleaseLock
<1>16. CASE MongoError(r)
  BY <1>0, <1>16 DEF MongoError, Critical
<1>17. CASE Crash(r)
  BY <1>0, <1>17 DEF Crash, Critical
<1>18. CASE LoseRequest(r)
  <2>1. moved[r] = "no" /\ ~txn[r] /\ pc[r] \in {"outer", "wallet", "limits", "attempt"}
    BY <1>0, <1>18 DEF LoseRequest, MovedByPoint, TxnByPoint
  <2>2. \E p \in {"early", "done"} : pc' = [pc EXCEPT ![r] = p]
    BY <1>18 DEF LoseRequest
  <2>3. /\ out' = [out EXCEPT ![r] = "lost"] /\ Abort(r)
        /\ UNCHANGED <<recorded, ledger, forced>>
    BY <1>18 DEF LoseRequest
  <2> QED
    BY <2>1, <2>2, <2>3
<1> QED
  BY <1>1, <1>2, <1>3, <1>4, <1>5, <1>6, <1>7, <1>8, <1>9, <1>10, <1>11, <1>12, <1>13, <1>14,
     <1>15, <1>16, <1>17, <1>18 DEF Step

\* A step of r keeps what the others left behind.
LEMMA TraceInductive ==
    TypeOK /\ MoneyInv /\ TraceInv /\ [Next]_vars => TraceInv'
<1> SUFFICES ASSUME TypeOK, MoneyInv, TraceInv, [Next]_vars, NEW q \in Requests
             PROVE  Trace(q)'
  BY DEF TraceInv
<1>1. Trace(q)
  BY DEF TraceInv
<1>2. CASE Elsewhere
  BY <1>1, <1>2, ElsewhereKeepsTraces
     DEF Trace, WholeUnlessForced, WrittenByPoint, OkIsTrue
<1>3. ASSUME NEW r \in Requests,
           Step(r) \/ MongoError(r) \/ LoseRequest(r) \/ Crash(r)
      PROVE  Trace(q)'
  <2>1. CASE q = r
    BY <1>1, <1>3, <2>1, TraceStep
  <2>2. CASE q # r
    <3>1. /\ pc'[q] = pc[q] /\ txn'[q] = txn[q] /\ moved'[q] = moved[q]
          /\ forced'[q] = forced[q] /\ out'[q] = out[q]
          /\ q \in recorded' <=> q \in recorded
          /\ \A side \in Sides : <<q, side>> \in ledger' <=> <<q, side>> \in ledger
      BY <1>3, <2>2, StepIsOwn DEF OnlyOf
    <3> QED
      BY <1>1, <3>1 DEF Trace, WholeUnlessForced, WrittenByPoint, OkIsTrue
  <2> QED
    BY <2>1, <2>2
<1> QED
  BY <1>2, <1>3, WhoSteps

\* Whatever fails, what a request has written agrees with where it stands.
THEOREM TracesAgree == Spec => []TraceInv
<1>1. Init => TraceInv
  BY DEF Init, TraceInv, Trace, WholeUnlessForced, WrittenByPoint, OkIsTrue, Attempting, InMoney
<1> QED
  BY <1>1, TraceInductive, TypeCorrect, MoneyInvariant, PTL DEF Spec

-----------------------------------------------------------------------------
(* Money is conserved, and stranded only by the fallback *)

Flight == [r \in Requests |-> IF Debited(r) /\ moved[r] = "debited" THEN Amount(r) ELSE 0]

\* WalletBook's sum is SumFunctionOnSet.
LEMMA BookSums ==
    ASSUME NEW f, NEW S, DOMAIN f = S
    PROVE  Book!FoldFunction(+, 0, f) = SumFunctionOnSet(f, S)
BY DEF Book!FoldFunction, Book!FoldFunctionOnSet, Book!MapThenFoldSet, SumFunctionOnSet,
       FoldFunctionOnSet, MapThenFoldSet

\* The money in the wallets and on the way.
InWallets == SumFunctionOnSet(balance, Users)
OnTheWay == SumFunctionOnSet(Flight, Requests)
Balanced == InWallets + OnTheWay = SumFunctionOnSet(InitBalance, Users)

SumsTyped ==
    InWallets \in Int /\ OnTheWay \in Int /\ \A q \in Requests : Flight[q] \in Int

\* The sums of conservation are integers.
LEMMA SumsAreIntegers == TypeOK => SumsTyped
<1> SUFFICES ASSUME TypeOK PROVE SumsTyped
  OBVIOUS
<1>1. \A q \in Requests : Flight[q] \in Int
  BY PayloadType DEF Flight
<1>2. \A u \in Users : balance[u] \in Int
  BY DEF TypeOK
<1> QED
  BY <1>1, <1>2, SumType, TransferAssumption DEF InWallets, OnTheWay, SumsTyped

\* Only r's share of what is on the way changes.
LEMMA FlightMoves ==
    ASSUME TypeOK, TypeOK', NEW r \in Requests, args' = args,
           \A q \in Requests \ {r} : moved'[q] = moved[q] /\ txn'[q] = txn[q]
    PROVE  OnTheWay' = OnTheWay + (Flight'[r] - Flight[r])
<1>1. \A q \in Requests \ {r} : Flight[q] = Flight'[q]
  <2> TAKE q \in Requests \ {r}
  <2> QED
    BY OthersInBook DEF Flight
<1>2. \A q \in Requests : Flight[q] \in Int /\ Flight'[q] \in Int
  <2>1. SumsTyped'
    BY SumsAreIntegers, PTL
  <2> QED
    BY <2>1, SumsAreIntegers DEF SumsTyped
<1>3. SumFunctionOnSet(Flight', Requests)
        = SumFunctionOnSet(Flight, Requests) + (Flight'[r] - Flight[r])
  BY <1>1, <1>2, SumChange, TransferAssumption
<1> QED
  BY <1>3 DEF OnTheWay

\* One wallet changes.
LEMMA WalletMoves ==
    ASSUME NEW b \in [Users -> Int], NEW u \in Users, NEW d \in Int
    PROVE  /\ [b EXCEPT ![u] = @ + d] \in [Users -> Int]
           /\ SumFunctionOnSet([b EXCEPT ![u] = @ + d], Users) = SumFunctionOnSet(b, Users) + d
<1> DEFINE c == [b EXCEPT ![u] = @ + d]
<1>1. /\ c \in [Users -> Int] /\ c[u] = b[u] + d
      /\ \A x \in Users : b[x] \in Int /\ c[x] \in Int
      /\ \A x \in Users \ {u} : b[x] = c[x]
  OBVIOUS
<1>2. SumFunctionOnSet(c, Users) = SumFunctionOnSet(b, Users) + (c[u] - b[u])
  <2> HIDE DEF c
  <2> QED
    BY <1>1, SumChange, TransferAssumption
<1>3. SumFunctionOnSet(b, Users) \in Int
  BY <1>1, SumType, TransferAssumption
<1> QED
  BY <1>1, <1>2, <1>3

\* A step takes from the wallets what it adds to the money on the way.
LEMMA BalanceStep ==
    ASSUME TypeOK, TypeOK', MoneyInv, NEW r \in Requests,
           Step(r) \/ MongoError(r) \/ LoseRequest(r) \/ Crash(r)
    PROVE  InWallets' + OnTheWay' = InWallets + OnTheWay
<1>1. OnTheWay' = OnTheWay + (Flight'[r] - Flight[r])
  BY HowMoneyMoves, FlightMoves
<1>2. From(r) \in Users /\ Amount(r) \in Int /\ -Amount(r) \in Int /\ balance \in [Users -> Int]
  BY PayloadType DEF TypeOK
<1>3. InWallets \in Int /\ OnTheWay \in Int /\ Amount(r) \in Int /\ Amount(r)' = Amount(r)
  BY <1>2, SumsAreIntegers, HowMoneyMoves DEF Amount, SumsTyped
<1>4. CASE /\ balance' = balance
           /\ Debited(r)' <=> Debited(r)
           /\ Debited(r) => moved'[r] = moved[r]
  <2>1. Flight'[r] = Flight[r]
    BY <1>3, <1>4 DEF Flight
  <2>2. Flight[r] \in Int
    BY SumsAreIntegers DEF SumsTyped
  <2> QED
    BY <1>1, <1>3, <1>4, <2>1, <2>2 DEF InWallets
<1>5. CASE /\ ~Debited(r) /\ Debited(r)' /\ moved'[r] = "debited"
           /\ balance' = [balance EXCEPT ![From(r)] = @ - Amount(r)]
  <2>1. Flight'[r] = Amount(r) /\ Flight[r] = 0
    BY <1>3, <1>5 DEF Flight
  <2>2. balance' = [balance EXCEPT ![From(r)] = @ + (-Amount(r))]
    BY <1>2, <1>5
  <2>3. InWallets' = InWallets + (-Amount(r))
    BY <1>2, <2>2, WalletMoves DEF InWallets
  <2> QED
    BY <1>1, <1>3, <2>1, <2>3
<1>6. CASE /\ Debited(r) /\ moved[r] = "debited" /\ Debited(r)' /\ moved'[r] = "credited"
           /\ To(r) \in Users
           /\ balance' = [balance EXCEPT ![To(r)] = @ + Amount(r)]
  <2>1. Flight'[r] = 0 /\ Flight[r] = Amount(r)
    BY <1>3, <1>6 DEF Flight
  <2>2. InWallets' = InWallets + Amount(r)
    BY <1>2, <1>6, WalletMoves DEF InWallets
  <2> QED
    BY <1>1, <1>3, <2>1, <2>2
<1>7. CASE /\ ~Debited(r) /\ Debited(r)' /\ moved'[r] = "credited"
           /\ To(r) \in Users /\ To(r) # From(r)
           /\ balance' = [balance EXCEPT ![From(r)] = @ - Amount(r), ![To(r)] = @ + Amount(r)]
  <2>1. Flight'[r] = 0 /\ Flight[r] = 0
    BY <1>7 DEF Flight
  <2> DEFINE b == [balance EXCEPT ![From(r)] = @ + (-Amount(r))]
  <2>2. balance' = [b EXCEPT ![To(r)] = @ + Amount(r)]
    BY <1>2, <1>7
  <2>3. b \in [Users -> Int] /\ SumFunctionOnSet(b, Users) = InWallets + (-Amount(r))
    BY <1>2, WalletMoves DEF InWallets
  <2> HIDE DEF b
  <2>4. SumFunctionOnSet([b EXCEPT ![To(r)] = @ + Amount(r)], Users)
          = SumFunctionOnSet(b, Users) + Amount(r)
    <3>1. b \in [Users -> Int] /\ To(r) \in Users /\ Amount(r) \in Int
      BY <1>2, <1>7, <2>3
    <3> QED
      BY <3>1, WalletMoves
  <2>5. InWallets' = SumFunctionOnSet(b, Users) + Amount(r)
    BY <2>2, <2>4, Zenon DEF InWallets
  <2> QED
    BY <1>1, <1>3, <2>1, <2>3, <2>5
<1> QED
  BY <1>4, <1>5, <1>6, <1>7, HowMoneyMoves

\* Every step keeps the total.
LEMMA BalanceInductive ==
    TypeOK /\ TypeOK' /\ MoneyInv /\ Balanced /\ [Next]_vars => Balanced'
<1> SUFFICES ASSUME TypeOK, TypeOK', MoneyInv, Balanced, [Next]_vars PROVE Balanced'
  OBVIOUS
<1>1. CASE Elsewhere
  <2>1. UNCHANGED <<balance, args, moved, txn>>
    BY <1>1, ElsewhereKeepsMoney
  <2>2. Flight' = Flight
    BY <2>1 DEF Flight, Debited, Amount
  <2> QED
    BY <2>1, <2>2 DEF Balanced, InWallets, OnTheWay
<1> QED
  BY <1>1, WhoSteps, BalanceStep DEF Balanced

\* Money is neither made nor lost, and only a transfer that has fallen back
\* to the path without a transaction can leave it between two wallets.
THEOREM MoneyIsConserved == Spec => []NothingStranded
<1>1. Init => Balanced
  <2> SUFFICES ASSUME Init PROVE Balanced
    OBVIOUS
  <2>1. Flight = [q \in Requests |-> 0]
    BY DEF Init, Flight, Debited
  <2>2. SumFunctionOnSet([q \in Requests |-> 0], Requests) = 0
    BY SumZero, TransferAssumption
  <2>3. SumFunctionOnSet(InitBalance, Users) \in Int
    BY SumType, TransferAssumption
  <2> QED
    BY <2>1, <2>2, <2>3 DEF Init, Balanced, InWallets, OnTheWay
<1>2. TypeOK /\ TraceInv /\ Balanced => NothingStranded
  <2> SUFFICES ASSUME TypeOK, TraceInv, Balanced PROVE NothingStranded
    OBVIOUS
  <2>1. Book!Conserved
    <3>1. DOMAIN balance = Users /\ DOMAIN Flight = Requests /\ DOMAIN InitBalance = Users
      BY TransferAssumption DEF TypeOK, Flight
    <3> QED
      BY <3>1, BookSums DEF Book!Conserved, Balanced, InWallets, OnTheWay, Flight
  <2>2. ASSUME NEW r \in Requests, Answered(r), moved[r] = "debited"
        PROVE  forced[r] \/ Mongo # "replica"
    BY <2>2 DEF TraceInv, Trace, WholeUnlessForced, Answered, Attempting, InMoney
  <2> QED
    BY <2>1, <2>2 DEF NothingStranded
<1> QED
  BY <1>1, <1>2, BalanceInductive, TracesAgree, TypeCorrect, MoneyInvariant, PTL DEF Spec

-----------------------------------------------------------------------------
(* One debit per idempotency key *)

\* Faults are remembered, and a request that has fallen back stays so.
LEMMA FaultsStay ==
    ASSUME TypeOK, [Next]_vars
    PROVE  (Undisturbed' => Undisturbed) /\ (troubles' = {} => troubles = {})
<1> USE Total DEF Goto, Reply, Leave, FallBack, Abort
<1>1. troubles \subseteq troubles' /\ \A q \in Requests : forced[q] => forced'[q]
  <2>1. ASSUME NEW r \in Requests,
           Step(r) \/ MongoError(r) \/ LoseRequest(r) \/ Crash(r)
        PROVE  troubles \subseteq troubles' /\ \A q \in Requests : forced[q] => forced'[q]
    <3>1. CASE OuterCheck(r) \/ CheckWallet(r) \/ CheckDailyLimit(r)
      BY <3>1 DEF OuterCheck, CheckWallet, CheckDailyLimit
    <3>2. CASE AcquireLock(r) \/ LockContention(r) \/ LockUnavailable(r)
      BY <3>2 DEF AcquireLock, LockContention, LockUnavailable
    <3>3. CASE StartAttempt(r) \/ LookupReceiver(r)
      BY <3>3 DEF StartAttempt, LookupReceiver
    <3>4. CASE EnsureSender(r) \/ EnsureReceiver(r)
      BY <3>4 DEF EnsureSender, EnsureReceiver
    <3>5. CASE Debit(r) \/ Credit(r) \/ FetchBalances(r)
      BY <3>5 DEF Debit, Credit, FetchBalances
    <3>6. CASE RecordPlain(r) \/ RecordTxn(r)
      BY <3>6 DEF RecordPlain, RecordTxn
    <3>7. CASE LedgerPlain(r) \/ LedgerTxn(r)
      BY <3>7 DEF LedgerPlain, LedgerTxn
    <3>8. CASE Commit(r) \/ ReleaseLock(r) \/ MongoError(r) \/ LoseRequest(r) \/ Crash(r)
      BY <3>8 DEF Commit, ReleaseLock, MongoError, LoseRequest, Crash
    <3> QED
      BY <2>1, <3>1, <3>2, <3>3, <3>4, <3>5, <3>6, <3>7, <3>8 DEF Step
  <2>2. CASE Elsewhere
    BY <2>2 DEF Elsewhere, ExpireLock, FreezeWallet, UnfreezeWallet, MoveHold, SetStatus, vars
  <2> QED
    BY <2>1, <2>2, WhoSteps
<1> QED
  BY <1>1 DEF Undisturbed, Calm, Transactional

\* Only the check inside the lock lets a request into an attempt.
LEMMA Enters ==
    ASSUME TypeOK, NEW r \in Requests,
           Step(r) \/ MongoError(r) \/ LoseRequest(r) \/ Crash(r),
           pc'[r] \in Attempting, pc[r] \notin Attempting
    PROVE  StartAttempt(r) /\ ~Replayed(r)
<1> USE Total DEF Goto, Reply, Leave, FallBack, Abort, Attempting, InMoney
<1>1. ~(OuterCheck(r) \/ CheckWallet(r) \/ CheckDailyLimit(r))
  BY DEF OuterCheck, CheckWallet, CheckDailyLimit
<1>2. ~(AcquireLock(r) \/ LockContention(r) \/ LockUnavailable(r))
  BY DEF AcquireLock, LockContention, LockUnavailable
<1>3. ~(LookupReceiver(r) \/ EnsureSender(r) \/ EnsureReceiver(r))
  BY DEF LookupReceiver, EnsureSender, EnsureReceiver
<1>4. ~(Debit(r) \/ Credit(r) \/ FetchBalances(r) \/ RecordPlain(r) \/ RecordTxn(r))
  BY DEF Debit, Credit, FetchBalances, RecordPlain, RecordTxn
<1>5. ~(LedgerPlain(r) \/ LedgerTxn(r) \/ Commit(r))
  BY DEF LedgerPlain, LedgerTxn, Commit
<1>6. ~(ReleaseLock(r) \/ MongoError(r) \/ LoseRequest(r) \/ Crash(r))
  BY DEF ReleaseLock, MongoError, LoseRequest, Crash
<1>7. StartAttempt(r)
  BY <1>1, <1>2, <1>3, <1>4, <1>5, <1>6 DEF Step
<1> QED
  BY <1>7 DEF StartAttempt

\* A request writes its document while it is inside an attempt.
LEMMA Records ==
    ASSUME TypeOK, TraceInv, NEW r \in Requests,
           Step(r) \/ MongoError(r) \/ LoseRequest(r) \/ Crash(r),
           r \in recorded', r \notin recorded
    PROVE  pc[r] \in {"record", "commit"}
<1> USE Total DEF Goto, Reply, Leave, FallBack, Abort
<1>1. ~(OuterCheck(r) \/ CheckWallet(r) \/ CheckDailyLimit(r))
  BY DEF OuterCheck, CheckWallet, CheckDailyLimit
<1>2. ~(AcquireLock(r) \/ LockContention(r) \/ LockUnavailable(r))
  BY DEF AcquireLock, LockContention, LockUnavailable
<1>3. ~(StartAttempt(r) \/ LookupReceiver(r) \/ EnsureSender(r) \/ EnsureReceiver(r))
  BY DEF StartAttempt, LookupReceiver, EnsureSender, EnsureReceiver
<1>4. ~(Debit(r) \/ Credit(r) \/ FetchBalances(r) \/ RecordTxn(r))
  BY DEF Debit, Credit, FetchBalances, RecordTxn
<1>5. ~(\/ LedgerPlain(r) \/ LedgerTxn(r) \/ ReleaseLock(r)
        \/ MongoError(r) \/ LoseRequest(r) \/ Crash(r))
  BY DEF LedgerPlain, LedgerTxn, ReleaseLock, MongoError, LoseRequest, Crash
<1> QED
  BY <1>1, <1>2, <1>3, <1>4, <1>5 DEF Step, RecordPlain, Commit

\* Keys stay what they are once the request has arrived.
LEMMA KeysSame ==
    ASSUME args' = args, NEW r, NEW q
    PROVE  (SameKey(r, q)' <=> SameKey(r, q)) /\ (Keyed(r)' <=> Keyed(r))
BY DEF SameKey, Keyed, From

\* r's own debit and answer.
LEMMA OwnKeyStep ==
    ASSUME TypeOK, MoneyInv, TraceInv, NEW r \in Requests,
           Step(r) \/ MongoError(r) \/ LoseRequest(r) \/ Crash(r),
           Undisturbed', NoOtherRecord(r), DebitIsRecorded(r), FailureIsTrue(r)
    PROVE  DebitIsRecorded(r)' /\ FailureIsTrue(r)'
<1> USE Total DEF Goto, Reply, Leave, FallBack, Abort, DebitIsRecorded, FailureIsTrue, Debited
<1>0. MovedByPoint(r) /\ TxnByPoint(r) /\ Trace(r)
  BY DEF MoneyInv, RequestInv, TraceInv
<1>1. CASE OuterCheck(r) \/ CheckWallet(r) \/ CheckDailyLimit(r)
  BY <1>0, <1>1 DEF OuterCheck, CheckWallet, CheckDailyLimit, MovedByPoint
<1>2. CASE AcquireLock(r) \/ LockContention(r) \/ LockUnavailable(r)
  BY <1>0, <1>2 DEF AcquireLock, LockContention, LockUnavailable, MovedByPoint, Trace,
                    WrittenByPoint
<1>3. CASE StartAttempt(r)
  BY <1>0, <1>3 DEF StartAttempt, MovedByPoint, Trace, WrittenByPoint
<1>4. CASE LookupReceiver(r)
  BY <1>0, <1>4 DEF LookupReceiver, MovedByPoint, Trace, WrittenByPoint
<1>5. CASE EnsureSender(r)
  BY <1>0, <1>5 DEF EnsureSender, MovedByPoint
<1>6. CASE EnsureReceiver(r)
  BY <1>0, <1>6 DEF EnsureReceiver, MovedByPoint
<1>7. CASE Debit(r)
  BY <1>0, <1>7 DEF Debit, MovedByPoint, Trace, WrittenByPoint
<1>8. CASE Credit(r)
  BY <1>0, <1>8 DEF Credit, MovedByPoint
<1>9. CASE FetchBalances(r)
  BY <1>0, <1>9 DEF FetchBalances, MovedByPoint
<1>10. CASE RecordPlain(r)
  <2>1. ~Duplicate(r)
    BY <1>0, <1>10 DEF RecordPlain, Duplicate, NoOtherRecord, Attempting, InMoney, Trace,
                       WrittenByPoint
  <2> QED
    BY <1>0, <1>10, <2>1 DEF RecordPlain, MovedByPoint
<1>11. CASE RecordTxn(r)
  BY <1>0, <1>11 DEF RecordTxn, MovedByPoint
<1>12. CASE LedgerPlain(r)
  BY <1>0, <1>12 DEF LedgerPlain, MovedByPoint, Trace, WrittenByPoint
<1>13. CASE LedgerTxn(r)
  BY <1>0, <1>13 DEF LedgerTxn, MovedByPoint
<1>14. CASE Commit(r)
  BY <1>0, <1>14 DEF Commit, MovedByPoint, TxnByPoint
<1>15. CASE ReleaseLock(r)
  BY <1>0, <1>15 DEF ReleaseLock
<1>16. CASE MongoError(r) \/ LoseRequest(r) \/ Crash(r)
  <2>1. troubles' # {} /\ forced' = forced /\ recorded' = recorded
    BY <1>16 DEF MongoError, LoseRequest, Crash
  <2>2. Mongo = "replica" /\ ~forced[r]
    BY <2>1 DEF Undisturbed, Transactional
  <2>3. CASE pc[r] \in Attempting
    BY <1>0, <1>16, <2>1, <2>2, <2>3 DEF MongoError, LoseRequest, Crash, Trace, WholeUnlessForced
  <2>4. CASE pc[r] \notin Attempting
    BY <1>0, <1>16, <2>1, <2>4 DEF MongoError, LoseRequest, Crash, Critical, MovedByPoint,
       Attempting,
       InMoney
  <2> QED
    BY <2>3, <2>4
<1> QED
  BY <1>1, <1>2, <1>3, <1>4, <1>5, <1>6, <1>7, <1>8, <1>9, <1>10, <1>11, <1>12, <1>13, <1>14,
     <1>15, <1>16 DEF Step

\* The others are kept apart from r by the lock.
LEMMA KeyStep ==
    ASSUME TypeOK, MoneyInv, TraceInv, KeyInv, OneTransferPerSender,
           NEW r \in Requests,
           Step(r) \/ MongoError(r) \/ LoseRequest(r) \/ Crash(r), Undisturbed, Undisturbed'
    PROVE  KeyInv'
<1>1. OnlyOf(r)
  BY StepIsOwn
<1>2. args' = args /\ recorded' \subseteq recorded \cup {r} /\ recorded \subseteq recorded'
      /\ recorded \subseteq Requests
  BY <1>1, Total DEF OnlyOf
<1>3. RecordIsUnique /\ \A q \in Requests :
        Keyed(q) => NoOtherRecord(q) /\ DebitIsRecorded(q) /\ FailureIsTrue(q)
  BY DEF KeyInv
<1>4. Calm
  BY DEF Undisturbed, Calm
<1>5. ASSUME r \in recorded', r \notin recorded
      PROVE  /\ pc[r] \in Attempting \cap Critical
             /\ Keyed(r) => \A q \in recorded : ~SameKey(q, r)
  <2>1. pc[r] \in Attempting \cap Critical
    BY <1>5, Records DEF Attempting, InMoney, Critical
  <2> QED
    BY <1>3, <1>5, <2>1 DEF NoOtherRecord
<1>6. RecordIsUnique'
  <2> SUFFICES ASSUME NEW p \in recorded', NEW q \in recorded', Keyed(p), SameKey(p, q), p # q
               PROVE  FALSE
    BY <1>2, KeysSame DEF RecordIsUnique
  <2>1. SameKey(q, p) /\ Keyed(q)
    BY DEF SameKey, Keyed
  <2>2. CASE p \in recorded /\ q \in recorded
    BY <1>3, <2>2 DEF RecordIsUnique
  <2>3. CASE ~(p \in recorded /\ q \in recorded)
    BY <1>2, <1>5, <2>1, <2>3
  <2> QED
    BY <2>2, <2>3
<1>7. ASSUME NEW q \in Requests, Keyed(q)
      PROVE  NoOtherRecord(q)' /\ DebitIsRecorded(q)' /\ FailureIsTrue(q)'
  <2>1. CASE q = r
    <3>1. DebitIsRecorded(q)' /\ FailureIsTrue(q)'
      BY <1>3, <1>7, <2>1, OwnKeyStep
    <3>2. NoOtherRecord(q)'
      <4> SUFFICES ASSUME pc'[r] \in Attempting, NEW p \in recorded', SameKey(p, r), p # r
                   PROVE  FALSE
        BY <1>2, <2>1, KeysSame DEF NoOtherRecord
      <4>1. p \in recorded
        BY <1>2
      <4>2. CASE pc[r] \in Attempting
        BY <1>3, <1>7, <2>1, <4>1, <4>2 DEF NoOtherRecord
      <4>3. CASE pc[r] \notin Attempting
        BY <1>7, <2>1, <4>1, <4>3, Enters DEF Replayed, Keyed
      <4> QED
        BY <4>2, <4>3
    <3> QED
      BY <3>1, <3>2
  <2>2. CASE q # r
    <3>1. /\ pc'[q] = pc[q] /\ txn'[q] = txn[q] /\ moved'[q] = moved[q] /\ out'[q] = out[q]
          /\ q \in recorded' <=> q \in recorded
      BY <1>1, <1>2, <2>2 DEF OnlyOf
    <3>2. DebitIsRecorded(q)'
      BY <1>3, <1>7, <3>1 DEF DebitIsRecorded, Debited
    <3>3. FailureIsTrue(q)'
      <4>1. troubles' = {} => troubles = {}
        BY FaultsStay DEF Next
      <4> QED
        BY <1>3, <1>7, <3>1, <4>1 DEF FailureIsTrue
    <3>4. NoOtherRecord(q)'
      <4> SUFFICES ASSUME pc[q] \in Attempting, NEW p \in recorded', SameKey(p, q), p # q
                   PROVE  FALSE
        BY <1>2, <3>1, KeysSame DEF NoOtherRecord
      <4>1. p = r /\ p \notin recorded
        BY <1>2, <1>3, <1>7 DEF NoOtherRecord
      <4>2. pc[r] \in Critical /\ pc[q] \in Critical
        BY <1>5, <4>1 DEF Attempting, InMoney, Critical
      <4>3. From(r) = From(q)
        BY <4>1 DEF SameKey
      <4> QED
        BY <1>4, <2>2, <4>2, <4>3 DEF OneTransferPerSender
    <3> QED
      BY <3>2, <3>3, <3>4
  <2> QED
    BY <2>1, <2>2
<1> QED
  BY <1>2, <1>6, <1>7, KeysSame DEF KeyInv

\* KeyInv is inductive, given that one transfer of a sender runs at a time.
LEMMA KeyInductive ==
    TypeOK /\ MoneyInv /\ TraceInv /\ OneTransferPerSender /\ KeyInv /\ [Next]_vars => KeyInv'
<1> SUFFICES ASSUME TypeOK, MoneyInv, TraceInv, OneTransferPerSender, KeyInv, [Next]_vars
             PROVE  KeyInv'
  OBVIOUS
<1>1. CASE ~Undisturbed'
  BY <1>1 DEF KeyInv
<1>2. CASE Undisturbed' /\ Elsewhere
  <2>1. UNCHANGED <<recorded, args, pc, out, txn, moved>>
    BY <1>2, ElsewhereKeepsTraces
  <2>2. Undisturbed /\ (troubles' = {} => troubles = {})
    BY <1>2, FaultsStay
  <2>3. RecordIsUnique /\ \A q \in Requests :
          Keyed(q) => NoOtherRecord(q) /\ DebitIsRecorded(q) /\ FailureIsTrue(q)
    BY <2>2 DEF KeyInv
  <2>4. RecordIsUnique'
    BY <2>1, <2>3, KeysSame DEF RecordIsUnique
  <2>5. ASSUME NEW q \in Requests, Keyed(q)'
        PROVE  NoOtherRecord(q)' /\ DebitIsRecorded(q)' /\ FailureIsTrue(q)'
    <3>1. Keyed(q) /\ \A p : SameKey(p, q)' <=> SameKey(p, q)
      BY <2>1, <2>5, KeysSame
    <3> QED
      BY <2>1, <2>2, <2>3, <3>1 DEF NoOtherRecord, DebitIsRecorded, FailureIsTrue, Debited
  <2> QED
    BY <2>4, <2>5 DEF KeyInv
<1>3. CASE /\ Undisturbed'
           /\ \E r \in Requests : Step(r) \/ MongoError(r) \/ LoseRequest(r) \/ Crash(r)
  BY <1>3, FaultsStay, KeyStep
<1> QED
  BY <1>1, <1>2, <1>3, WhoSteps

\* The check inside the lock, the lock and the commit make records and debits
\* of one key unique, until Redis fails or a fallback is interrupted.
THEOREM KeysAreKept == Spec => []KeyInv
<1>1. Init => KeyInv
  BY DEF Init, KeyInv, RecordIsUnique, NoOtherRecord, DebitIsRecorded, FailureIsTrue, Debited,
         Attempting, InMoney
<1> QED
  BY <1>1, KeyInductive, TypeCorrect, MoneyInvariant, TracesAgree, SenderIsExclusive, PTL
     DEF Spec

\* Two requests of one user with one key never both take money.
THEOREM OneDebitPerKey == Spec => []DebitOncePerKey
<1>1. KeyInv /\ OneTransferPerSender => DebitOncePerKey
  <2> SUFFICES ASSUME KeyInv, OneTransferPerSender, Undisturbed,
                      NEW r \in Requests, NEW q \in Requests,
                      r # q, Debited(r), Debited(q), SameKey(r, q), Keyed(r)
               PROVE  FALSE
    BY DEF DebitOncePerKey, Undisturbed, Keyed
  <2>1. Keyed(q) /\ SameKey(q, r) /\ From(q) = From(r) /\ Calm
    BY DEF SameKey, Keyed, Undisturbed, Calm
  <2>2. /\ RecordIsUnique /\ NoOtherRecord(r) /\ NoOtherRecord(q)
        /\ DebitIsRecorded(r) /\ DebitIsRecorded(q)
    BY <2>1 DEF KeyInv
  <2>3. \A p \in Requests : pc[p] \in {"credit", "fetch", "record"} =>
            pc[p] \in Attempting \cap Critical
    BY DEF Attempting, InMoney, Critical
  <2>4. CASE r \in recorded /\ q \in recorded
    BY <2>2, <2>4 DEF RecordIsUnique
  <2>5. CASE r \in recorded /\ q \notin recorded
    BY <2>2, <2>3, <2>5 DEF DebitIsRecorded, NoOtherRecord
  <2>6. CASE r \notin recorded /\ q \in recorded
    BY <2>1, <2>2, <2>3, <2>6 DEF DebitIsRecorded, NoOtherRecord
  <2>7. CASE r \notin recorded /\ q \notin recorded
    BY <2>1, <2>2, <2>3, <2>7 DEF DebitIsRecorded, OneTransferPerSender
  <2> QED
    BY <2>4, <2>5, <2>6, <2>7
<1> QED
  BY <1>1, KeysAreKept, SenderIsExclusive, PTL

\* Until something fails, a request with a key answers ok exactly when its
\* money moved and is recorded on both sides.
THEOREM AnswersMatchRecords == Spec => []KeyedAnswersAreTrue
<1>1. KeyInv /\ TraceInv => KeyedAnswersAreTrue
  BY DEF KeyedAnswersAreTrue, TruthfulAnswer, KeyInv, Undisturbed, Keyed, FailureIsTrue,
         TraceInv, Trace, OkIsTrue
<1> QED
  BY <1>1, KeysAreKept, TracesAgree, PTL

-----------------------------------------------------------------------------
(* The balance in the ledger *)

\* A visible debit stays visible.
LEMMA MoverStays ==
    ASSUME TypeOK, MoneyInv, NEW r \in Requests,
           Step(r) \/ MongoError(r) \/ LoseRequest(r) \/ Crash(r),
           NEW q \in Requests, OnlyMover(q)'
    PROVE  OnlyMover(q)
<1> SUFFICES ASSUME NEW p \in Requests \ {q}, Debited(p) PROVE Debited(p)'
  BY DEF OnlyMover
<1>1. CASE p = r
  BY <1>1, HowMoneyMoves
<1>2. CASE p # r
  BY <1>2, HowMoneyMoves DEF Debited
<1> QED
  BY <1>1, <1>2

\* While nobody else moves money, a balance is what the request has made of it.
LEMMA SoleBalanceStep ==
    ASSUME TypeOK, MoneyInv, NEW r \in Requests,
           Step(r) \/ MongoError(r) \/ LoseRequest(r) \/ Crash(r),
           NEW q \in Requests, SoleBalance(q)
    PROVE  SoleBalance(q)'
<1> SUFFICES ASSUME OnlyMover(q)'
             PROVE  (balance[From(q)] = InitBalance[From(q)]
                        - (IF Debited(q) THEN Amount(q) ELSE 0))'
  BY DEF SoleBalance
<1>1. args' = args /\ From(q)' = From(q) /\ Amount(q)' = Amount(q)
  BY HowMoneyMoves DEF From, Amount
<1>2. balance[From(q)] = InitBalance[From(q)] - (IF Debited(q) THEN Amount(q) ELSE 0)
  BY MoverStays DEF SoleBalance
<1>3. /\ From(q) \in Users /\ From(r) \in Users /\ Amount(q) \in Nat
      /\ balance \in [Users -> Int] /\ InitBalance[From(q)] \in Int
  BY PayloadType, TransferAssumption DEF TypeOK
<1>4. CASE q # r
  <2>1. Debited(q)' <=> Debited(q)
    BY <1>4, HowMoneyMoves DEF Debited
  <2>2. ~Debited(r)'
    BY <1>4 DEF OnlyMover
  <2>3. balance' = balance
    BY <2>2, HowMoneyMoves
  <2> QED
    BY <1>1, <1>2, <2>1, <2>3
<1>5. CASE q = r
  <2>1. CASE balance' = balance /\ (Debited(r)' <=> Debited(r))
    BY <1>1, <1>2, <1>5, <2>1
  <2>2. CASE /\ ~Debited(r) /\ Debited(r)'
             /\ balance' = [balance EXCEPT ![From(r)] = @ - Amount(r)]
    BY <1>1, <1>2, <1>3, <1>5, <2>2
  <2>3. CASE /\ Debited(r) /\ Debited(r)' /\ To(r) \in Users /\ Credit(r)
             /\ balance' = [balance EXCEPT ![To(r)] = @ + Amount(r)]
    <3>1. To(r) # From(r)
      BY <2>3 DEF Credit, MoneyInv, RequestInv, ReceiverChecked, InMoney
    <3> QED
      BY <1>1, <1>2, <1>3, <1>5, <2>3, <3>1
  <2>4. CASE /\ ~Debited(r) /\ Debited(r)' /\ To(r) \in Users /\ To(r) # From(r)
             /\ balance' = [balance EXCEPT ![From(r)] = @ - Amount(r),
                                           ![To(r)] = @ + Amount(r)]
    BY <1>1, <1>2, <1>3, <1>5, <2>4
  <2> QED
    BY <2>1, <2>2, <2>3, <2>4, HowMoneyMoves
<1> QED
  BY <1>4, <1>5

\* What a step does to the point, the record and the read of r.
LEMMA SightStep ==
    ASSUME TypeOK, MoneyInv, TraceInv, NEW r \in Requests,
           Step(r) \/ MongoError(r) \/ LoseRequest(r) \/ Crash(r),
           forced'[r], pc'[r] \in {"record", "ledger"} \/ r \in recorded'
    PROVE  \/ FetchBalances(r) /\ forced[r]
           \/ /\ forced[r] /\ seen'[r] = seen[r]
              /\ pc[r] \in {"record", "ledger"} \/ r \in recorded
<1> USE Total DEF Goto, Reply, Leave, FallBack, Abort
<1>0. Trace(r) /\ TxnByPoint(r)
  BY DEF TraceInv, MoneyInv, RequestInv
<1>1. CASE OuterCheck(r) \/ CheckWallet(r) \/ CheckDailyLimit(r)
  BY <1>1 DEF OuterCheck, CheckWallet, CheckDailyLimit
<1>2. CASE AcquireLock(r) \/ LockContention(r) \/ LockUnavailable(r)
  BY <1>2 DEF AcquireLock, LockContention, LockUnavailable
<1>3. CASE StartAttempt(r) \/ LookupReceiver(r)
  BY <1>3 DEF StartAttempt, LookupReceiver
<1>4. CASE EnsureSender(r) \/ EnsureReceiver(r)
  BY <1>0, <1>4 DEF EnsureSender, EnsureReceiver, Trace, WrittenByPoint
<1>5. CASE Debit(r) \/ Credit(r)
  BY <1>5 DEF Debit, Credit
<1>6. CASE FetchBalances(r)
  BY <1>6 DEF FetchBalances
<1>7. CASE RecordPlain(r) \/ RecordTxn(r)
  BY <1>0, <1>7 DEF RecordPlain, RecordTxn, Trace, WrittenByPoint
<1>8. CASE LedgerPlain(r) \/ LedgerTxn(r)
  BY <1>8 DEF LedgerPlain, LedgerTxn
<1>9. CASE Commit(r)
  BY <1>0, <1>9 DEF Commit, Trace, TxnByPoint
<1>10. CASE ReleaseLock(r) \/ MongoError(r) \/ LoseRequest(r) \/ Crash(r)
  BY <1>10 DEF ReleaseLock, MongoError, LoseRequest, Crash
<1> QED
  BY <1>1, <1>2, <1>3, <1>4, <1>5, <1>6, <1>7, <1>8, <1>9, <1>10 DEF Step

\* SightInv is inductive.
LEMMA SightInductive ==
    TypeOK /\ MoneyInv /\ TraceInv /\ SightInv /\ [Next]_vars => SightInv'
<1> SUFFICES ASSUME TypeOK, MoneyInv, TraceInv, SightInv, [Next]_vars, NEW q \in Requests
             PROVE  SoleBalance(q)' /\ SeenAfterDebit(q)'
  BY DEF SightInv
<1>0. SoleBalance(q) /\ SeenAfterDebit(q)
  BY DEF SightInv
<1>1. CASE Elsewhere
  BY <1>0, <1>1, ElsewhereKeepsTraces
     DEF SoleBalance, SeenAfterDebit, OnlyMover, Debited, From, Amount
<1>2. ASSUME NEW r \in Requests,
           Step(r) \/ MongoError(r) \/ LoseRequest(r) \/ Crash(r)
      PROVE  SoleBalance(q)' /\ SeenAfterDebit(q)'
  <2>1. SoleBalance(q)'
    BY <1>0, <1>2, SoleBalanceStep
  <2>2. SeenAfterDebit(q)'
    <3> SUFFICES ASSUME OnlyMover(q)', forced'[q],
                        pc'[q] \in {"record", "ledger"} \/ q \in recorded'
                 PROVE  seen'[q].from = InitBalance[From(q)] - Amount(q)
      <4>1. From(q)' = From(q) /\ Amount(q)' = Amount(q)
        BY <1>2, HowMoneyMoves DEF From, Amount
      <4> QED
        BY <4>1 DEF SeenAfterDebit
    <3>1. OnlyMover(q)
      BY <1>2, MoverStays
    <3>2. CASE q # r
      <4>1. /\ pc'[q] = pc[q] /\ forced'[q] = forced[q] /\ seen'[q] = seen[q]
            /\ q \in recorded' <=> q \in recorded
        BY <1>2, <3>2, StepIsOwn DEF OnlyOf
      <4> QED
        BY <1>0, <3>1, <4>1 DEF SeenAfterDebit
    <3>3. CASE q = r /\ ~(FetchBalances(r) /\ forced[r])
      BY <1>0, <1>2, <3>1, <3>3, SightStep DEF SeenAfterDebit
    <3>4. CASE q = r /\ FetchBalances(r) /\ forced[r]
      <4>1. ~txn[r] /\ moved[r] = "credited"
        BY <3>4 DEF FetchBalances, TraceInv, Trace, MoneyInv, RequestInv, MovedByPoint
      <4>2. balance[From(r)] = InitBalance[From(r)] - Amount(r)
        BY <1>0, <3>1, <3>4, <4>1 DEF SoleBalance, Debited
      <4>3. seen' = [seen EXCEPT ![r] = [from |-> balance[From(r)], to |-> balance[To(r)]]]
        BY <3>4 DEF FetchBalances
      <4>4. seen'[r].from = balance[From(r)]
        BY <4>3, Total
      <4> QED
        BY <3>4, <4>2, <4>4
    <3> QED
      BY <3>2, <3>3, <3>4
  <2> QED
    BY <2>1, <2>2
<1> QED
  BY <1>1, <1>2, WhoSteps

\* A transfer without a transaction writes the balance after its own debit.
THEOREM LedgerIsPostDebit == Spec => []PlainLedgerShowsPostDebit
<1>1. Init => SightInv
  BY PayloadType, TransferAssumption
     DEF Init, SightInv, SoleBalance, SeenAfterDebit, Debited, From, Amount
<1>2. TypeOK /\ MoneyInv /\ TraceInv /\ SightInv => PlainLedgerShowsPostDebit
  <2> SUFFICES ASSUME TypeOK, MoneyInv, TraceInv, SightInv, NEW r \in Requests, forced[r],
                      <<r, "DEBIT">> \in ledger, \A q \in Requests \ {r} : moved[q] = "no"
               PROVE  seen[r].from = InitBalance[From(r)] - Amount(r)
    BY DEF PlainLedgerShowsPostDebit, DebitEntryIsPostDebit
  <2>1. r \in recorded
    BY DEF TraceInv, Trace, WrittenByPoint, Sides
  <2>2. OnlyMover(r)
    BY DEF OnlyMover, Debited
  <2> QED
    BY <2>1, <2>2 DEF SightInv, SeenAfterDebit
<1> QED
  BY <1>1, <1>2, SightInductive, TypeCorrect, MoneyInvariant, TracesAgree, PTL DEF Spec
=============================================================================
