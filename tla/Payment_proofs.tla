--------------------------- MODULE Payment_proofs ---------------------------
(***************************************************************************)
(* Proofs about Payment, for every set of users, orders, verifications and *)
(* deliveries, and about AddMoney, where orders and mock credits start.    *)
(*                                                                         *)
(* OrderInv says that one session at a time holds an order, that it finds  *)
(* the status its snapshot showed or is marked as outdated, and that only  *)
(* captured orders come to be credited.  RaceInv adds that of an order     *)
(* still pending somebody is left to try.                                  *)
(***************************************************************************)
EXTENDS Payment, AddMoneyState, SumTheorems

\* The points with a transaction open, those that hold the order, and those
\* that are about to credit it.
SessionPoints == {"reject", "rejectCommit", "credit", "mark", "commit", "wcredit", "wcommit"}
OrderPoints == {"rejectCommit", "commit", "wcredit", "wcommit"}
CreditPoints == {"commit", "wcredit", "wcommit"}

SessionByPoint == \A h \in Handlers : txn[h] <=> pc[h] \in SessionPoints

AnsweredAtTheEnd == \A h \in Handlers : out[h] # "none" => pc[h] = "done"

\* A credit is for an order Razorpay has the money of.
CreditIsPaid ==
    /\ \A v \in Verifies : pc[v] \in {"credit", "mark", "commit"} => target[v] \in captured
    /\ \A w \in Deliveries : pc[w] # "idle" => target[w] \in captured

OrderHeldAlone ==
    \A h, q \in Handlers :
        pc[h] \in OrderPoints /\ pc[q] \in OrderPoints /\ target[h] = target[q] => h = q

\* Nobody changes the status of an order that is held.
HeldIsOpen ==
    \A h \in Handlers :
        /\ pc[h] \in CreditPoints => status[target[h]] = "PENDING"
        /\ pc[h] = "rejectCommit" => status[target[h]] # "SUCCESS"

\* A snapshot is what the order still says, or marked as outdated.
SnapshotHolds ==
    \A v \in Verifies :
        pc[v] \in SessionPoints =>
            /\ snap[v] # "SUCCESS"
            /\ <<v, "order">> \notin outdated => status[target[v]] = snap[v]

ProcessedIsCredited ==
    \A w \in Deliveries : pc[w] = "processed" => status[target[w]] = "SUCCESS"

OrderInv ==
    /\ TypeOK /\ SessionByPoint /\ AnsweredAtTheEnd /\ CreditIsPaid
    /\ OrderHeldAlone /\ HeldIsOpen /\ SnapshotHolds /\ ProcessedIsCredited

-----------------------------------------------------------------------------
(* Typing *)

\* A session that opens.
LEMMA OpenType ==
    ASSUME TypeOK, NEW h \in Handlers, OpenSession(h)
    PROVE  txn' \in [Handlers -> BOOLEAN] /\ outdated' \subseteq Handlers \X {"wallet", "order"}
  BY DEF TypeOK, OpenSession

\* A session that closes.
LEMMA CloseType ==
    ASSUME TypeOK, NEW h \in Handlers, CloseSession(h)
    PROVE  txn' \in [Handlers -> BOOLEAN]
  BY DEF TypeOK, CloseSession

\* Who has a session works on an order.
LEMMA SessionType ==
    ASSUME OrderInv, NEW h \in InSession PROVE h \in Handlers /\ target[h] \in Orders
  BY DEF OrderInv, TypeOK, SessionByPoint, InSession, SessionPoints

\* What a commit writes and overtakes.
LEMMA CommitType ==
    ASSUME OrderInv, NEW h \in Handlers, target[h] \in Orders
    PROVE  /\ OutdateWallet(h) \subseteq Handlers \X {"wallet"}
           /\ OutdateOrder(h) \subseteq Handlers \X {"order"}
           /\ Neighbours(h) \subseteq Orders
           /\ CommitCredit(h) =>
                /\ balance' \in [Users -> Nat] /\ status' \in [Orders -> Statuses]
                /\ outdated' \subseteq Handlers \X {"wallet", "order"}
                /\ txn' \in [Handlers -> BOOLEAN]
<1>1. /\ OutdateWallet(h) \subseteq Handlers \X {"wallet"}
      /\ OutdateOrder(h) \subseteq Handlers \X {"order"}
  BY DEF OutdateWallet, OutdateOrder, InSession
<1>2. Neighbours(h) \subseteq Orders
  BY SessionType DEF Neighbours
<1>3. ASSUME CommitCredit(h)
      PROVE  /\ balance' \in [Users -> Nat] /\ status' \in [Orders -> Statuses]
             /\ outdated' \subseteq Handlers \X {"wallet", "order"}
             /\ txn' \in [Handlers -> BOOLEAN]
  <2>1. balance' \in [Users -> Nat]
    <3>1. Value[target[h]] \in Nat
      BY PaymentAssumption
    <3>2. /\ balance \in [Users -> Nat]
          /\ balance' = [balance EXCEPT ![User(h)] = @ + Value[target[h]]]
      BY <1>3 DEF OrderInv, TypeOK, CommitCredit
    <3>3. ASSUME NEW u \in Users PROVE balance'[u] \in Nat
      <4>1. balance[u] \in Nat /\ balance[u] + Value[target[h]] \in Nat
        BY <3>1, <3>2
      <4> QED
        BY <3>2, <4>1
    <3> QED
      BY <3>2, <3>3
  <2>2. status' \in [Orders -> Statuses]
    BY <1>3 DEF OrderInv, TypeOK, CommitCredit, Statuses
  <2>3. outdated' \subseteq Handlers \X {"wallet", "order"}
    BY <1>1, <1>3 DEF OrderInv, TypeOK, CommitCredit
  <2> QED
    BY <1>3, <2>1, <2>2, <2>3, CloseType DEF CommitCredit, OrderInv
<1> QED
  BY <1>1, <1>2, <1>3

\* Every step keeps the types.
LEMMA TypeStep == ASSUME OrderInv, [Next]_vars PROVE TypeOK'
<1> USE PaymentAssumption, OpenType, CloseType DEF OrderInv, TypeOK, Goto, Reply, dataVars,
        sessionVars,
        Handlers, VerifyPoints, WebhookPoints, Answers, Statuses
<1>1. ASSUME NEW v \in Verifies, VerifyPayment(v) PROVE TypeOK'
  BY <1>1, SMTT(20) DEF VerifyPayment, VerifyLookup
<1>2. ASSUME NEW v \in Verifies, VerifyReject(v) PROVE TypeOK'
  BY <1>2, SMTT(20) DEF VerifyReject, Abort
<1>3. ASSUME NEW v \in Verifies, VerifyCommitReject(v) PROVE TypeOK'
  <2>1. target[v] \in Orders /\ OutdateOrder(v) \subseteq Handlers \X {"order"}
    BY <1>3, CommitType DEF VerifyCommitReject
  <2> QED
    BY <1>3, <2>1 DEF VerifyCommitReject
<1>4. ASSUME NEW v \in Verifies, VerifyCredit(v) PROVE TypeOK'
  BY <1>4, SMTT(20) DEF VerifyCredit, Abort
<1>5. ASSUME NEW v \in Verifies, VerifyMark(v) PROVE TypeOK'
  BY <1>5, SMTT(20) DEF VerifyMark, Abort
<1>6. ASSUME NEW v \in Verifies, VerifyCommit(v) PROVE TypeOK'
  <2>1. target[v] \in Orders /\ CommitCredit(v)
    BY <1>6 DEF VerifyCommit
  <2> QED
    BY <1>6, <2>1, CommitType DEF VerifyCommit
<1>7. ASSUME NEW w \in Deliveries, Receive(w) PROVE TypeOK'
  BY <1>7, SMTT(20) DEF Receive
<1>8. ASSUME NEW w \in Deliveries, MarkDuplicate(w) PROVE TypeOK'
  BY <1>8, SMTT(20) DEF MarkDuplicate, MarkEvent
<1>9. ASSUME NEW w \in Deliveries, FindOrder(w) PROVE TypeOK'
  BY <1>9, SMTT(20) DEF FindOrder
<1>10. ASSUME NEW w \in Deliveries, WebhookMark(w) PROVE TypeOK'
  BY <1>10, SMTT(20) DEF WebhookMark
<1>11. ASSUME NEW w \in Deliveries, WebhookCredit(w) PROVE TypeOK'
  BY <1>11, SMTT(20) DEF WebhookCredit, Abort
<1>12. ASSUME NEW w \in Deliveries, WebhookCommit(w) PROVE TypeOK'
  <2>1. target[w] \in Orders /\ CommitCredit(w)
    BY <1>12 DEF WebhookCommit
  <2> QED
    BY <1>12, <2>1, CommitType DEF WebhookCommit
<1>13. ASSUME NEW w \in Deliveries, MarkProcessed(w) PROVE TypeOK'
  BY <1>13, SMTT(20) DEF MarkProcessed, MarkEvent
<1>14. ASSUME NEW w \in Deliveries, MarkFailed(w) PROVE TypeOK'
  BY <1>14, SMTT(20) DEF MarkFailed, MarkEvent
<1>15. ASSUME NEW o \in Orders, Capture(o) PROVE TypeOK'
  BY <1>15, SMTT(20) DEF Capture
<1>16. ASSUME NEW u \in Busy, OtherTraffic(u) PROVE TypeOK'
  <2> DEFINE hit == {h \in InSession : User(h) = u}
  <2>1. hit \subseteq Handlers /\ {target[h] : h \in hit} \subseteq Orders
    BY SessionType
  <2>2. /\ outdated' = outdated \cup (hit \X {"wallet"})
        /\ disturbed' = disturbed \cup {target[h] : h \in hit}
        /\ UNCHANGED <<dataVars, captured, target, pc, out, txn, snap>>
    BY <1>16 DEF OtherTraffic
  <2> HIDE DEF hit
  <2> QED
    BY <2>1, <2>2
<1>17. ASSUME NEW h \in Handlers, Crash(h) PROVE TypeOK'
  BY <1>17, SMTT(20) DEF Crash, Abort, Active
<1>18. ASSUME NEW h \in Handlers, MongoError(h) PROVE TypeOK'
  BY <1>18, SMTT(20) DEF MongoError, Abort, Active
<1>19. ASSUME UNCHANGED vars PROVE TypeOK'
  BY <1>19 DEF vars
<1> HIDE DEF TypeOK, OrderInv
<1> QED
  BY <1>1, <1>2, <1>3, <1>4, <1>5, <1>6, <1>7, <1>8, <1>9, <1>10, <1>11, <1>12, <1>13, <1>14,
     <1>15, <1>16, <1>17, <1>18, <1>19 DEF Next

\* Every step keeps the parts of OrderInv.
LEMMA OrderStep ==
    ASSUME OrderInv, [Next]_vars
    PROVE  /\ SessionByPoint' /\ AnsweredAtTheEnd' /\ CreditIsPaid' /\ OrderHeldAlone'
           /\ HeldIsOpen' /\ SnapshotHolds' /\ ProcessedIsCredited'
<1> USE PaymentAssumption DEF OrderInv, TypeOK, Goto, Reply, dataVars, sessionVars,
        Handlers, VerifyPoints, WebhookPoints, Answers, Statuses, OpenSession, CloseSession,
        SessionPoints, OrderPoints, CreditPoints, InSession,
        SessionByPoint, AnsweredAtTheEnd, CreditIsPaid, OrderHeldAlone, HeldIsOpen,
        SnapshotHolds, ProcessedIsCredited
<1>1. ASSUME NEW v \in Verifies, VerifyPayment(v)
      PROVE  SessionByPoint' /\ AnsweredAtTheEnd' /\ CreditIsPaid' /\ OrderHeldAlone'
             /\ HeldIsOpen' /\ SnapshotHolds' /\ ProcessedIsCredited'
  BY <1>1, SMTT(30) DEF VerifyPayment, VerifyLookup
<1>2. ASSUME NEW v \in Verifies, VerifyReject(v)
      PROVE  SessionByPoint' /\ AnsweredAtTheEnd' /\ CreditIsPaid' /\ OrderHeldAlone'
             /\ HeldIsOpen' /\ SnapshotHolds' /\ ProcessedIsCredited'
  BY <1>2, SMTT(30) DEF VerifyReject, Abort, HoldsOrder
<1>3. ASSUME NEW v \in Verifies, VerifyCommitReject(v)
      PROVE  SessionByPoint' /\ AnsweredAtTheEnd' /\ CreditIsPaid' /\ OrderHeldAlone'
             /\ HeldIsOpen' /\ SnapshotHolds' /\ ProcessedIsCredited'
  BY <1>3, SMTT(30) DEF VerifyCommitReject, OutdateOrder
<1>4. ASSUME NEW v \in Verifies, VerifyCredit(v)
      PROVE  SessionByPoint' /\ AnsweredAtTheEnd' /\ CreditIsPaid' /\ OrderHeldAlone'
             /\ HeldIsOpen' /\ SnapshotHolds' /\ ProcessedIsCredited'
  BY <1>4, SMTT(30) DEF VerifyCredit, Abort
<1>5. ASSUME NEW v \in Verifies, VerifyMark(v)
      PROVE  SessionByPoint' /\ AnsweredAtTheEnd' /\ CreditIsPaid' /\ OrderHeldAlone'
             /\ HeldIsOpen' /\ SnapshotHolds' /\ ProcessedIsCredited'
  BY <1>5, SMTT(30) DEF VerifyMark, Abort, HoldsOrder
<1>6. ASSUME NEW v \in Verifies, VerifyCommit(v)
      PROVE  SessionByPoint' /\ AnsweredAtTheEnd' /\ CreditIsPaid' /\ OrderHeldAlone'
             /\ HeldIsOpen' /\ SnapshotHolds' /\ ProcessedIsCredited'
  BY <1>6, SMTT(30) DEF VerifyCommit, CommitCredit, OutdateOrder
<1>7. ASSUME NEW w \in Deliveries, Receive(w)
      PROVE  SessionByPoint' /\ AnsweredAtTheEnd' /\ CreditIsPaid' /\ OrderHeldAlone'
             /\ HeldIsOpen' /\ SnapshotHolds' /\ ProcessedIsCredited'
  BY <1>7, SMTT(30) DEF Receive
<1>8. ASSUME NEW w \in Deliveries, MarkDuplicate(w)
      PROVE  SessionByPoint' /\ AnsweredAtTheEnd' /\ CreditIsPaid' /\ OrderHeldAlone'
             /\ HeldIsOpen' /\ SnapshotHolds' /\ ProcessedIsCredited'
  BY <1>8, SMTT(30) DEF MarkDuplicate, MarkEvent
<1>9. ASSUME NEW w \in Deliveries, FindOrder(w)
      PROVE  SessionByPoint' /\ AnsweredAtTheEnd' /\ CreditIsPaid' /\ OrderHeldAlone'
             /\ HeldIsOpen' /\ SnapshotHolds' /\ ProcessedIsCredited'
  BY <1>9, SMTT(30) DEF FindOrder
<1>10. ASSUME NEW w \in Deliveries, WebhookMark(w)
      PROVE  SessionByPoint' /\ AnsweredAtTheEnd' /\ CreditIsPaid' /\ OrderHeldAlone'
             /\ HeldIsOpen' /\ SnapshotHolds' /\ ProcessedIsCredited'
  BY <1>10, SMTT(30) DEF WebhookMark, HoldsOrder
<1>11. ASSUME NEW w \in Deliveries, WebhookCredit(w)
      PROVE  SessionByPoint' /\ AnsweredAtTheEnd' /\ CreditIsPaid' /\ OrderHeldAlone'
             /\ HeldIsOpen' /\ SnapshotHolds' /\ ProcessedIsCredited'
  BY <1>11, SMTT(30) DEF WebhookCredit, Abort
<1>12. ASSUME NEW w \in Deliveries, WebhookCommit(w)
      PROVE  SessionByPoint' /\ AnsweredAtTheEnd' /\ CreditIsPaid' /\ OrderHeldAlone'
             /\ HeldIsOpen' /\ SnapshotHolds' /\ ProcessedIsCredited'
  BY <1>12, SMTT(30) DEF WebhookCommit, CommitCredit, OutdateOrder
<1>13. ASSUME NEW w \in Deliveries, MarkProcessed(w)
      PROVE  SessionByPoint' /\ AnsweredAtTheEnd' /\ CreditIsPaid' /\ OrderHeldAlone'
             /\ HeldIsOpen' /\ SnapshotHolds' /\ ProcessedIsCredited'
  BY <1>13, SMTT(30) DEF MarkProcessed, MarkEvent
<1>14. ASSUME NEW w \in Deliveries, MarkFailed(w)
      PROVE  SessionByPoint' /\ AnsweredAtTheEnd' /\ CreditIsPaid' /\ OrderHeldAlone'
             /\ HeldIsOpen' /\ SnapshotHolds' /\ ProcessedIsCredited'
  BY <1>14, SMTT(30) DEF MarkFailed, MarkEvent
<1>15. ASSUME NEW o \in Orders, Capture(o)
      PROVE  SessionByPoint' /\ AnsweredAtTheEnd' /\ CreditIsPaid' /\ OrderHeldAlone'
             /\ HeldIsOpen' /\ SnapshotHolds' /\ ProcessedIsCredited'
  BY <1>15, SMTT(30) DEF Capture
<1>16. ASSUME NEW u \in Busy, OtherTraffic(u)
      PROVE  SessionByPoint' /\ AnsweredAtTheEnd' /\ CreditIsPaid' /\ OrderHeldAlone'
             /\ HeldIsOpen' /\ SnapshotHolds' /\ ProcessedIsCredited'
  BY <1>16, SMTT(30) DEF OtherTraffic
<1>17. ASSUME NEW h \in Handlers, Crash(h)
      PROVE  SessionByPoint' /\ AnsweredAtTheEnd' /\ CreditIsPaid' /\ OrderHeldAlone'
             /\ HeldIsOpen' /\ SnapshotHolds' /\ ProcessedIsCredited'
  BY <1>17, SMTT(30) DEF Crash, Abort, Active
<1>18. ASSUME NEW h \in Handlers, MongoError(h)
      PROVE  SessionByPoint' /\ AnsweredAtTheEnd' /\ CreditIsPaid' /\ OrderHeldAlone'
             /\ HeldIsOpen' /\ SnapshotHolds' /\ ProcessedIsCredited'
  BY <1>18, SMTT(30) DEF MongoError, Abort, Active
<1>19. CASE UNCHANGED vars
  BY <1>19 DEF vars
<1> HIDE DEF OrderInv, SessionByPoint, AnsweredAtTheEnd, CreditIsPaid, OrderHeldAlone,
             HeldIsOpen, SnapshotHolds, ProcessedIsCredited
<1> QED
  BY <1>1, <1>2, <1>3, <1>4, <1>5, <1>6, <1>7, <1>8, <1>9, <1>10, <1>11, <1>12, <1>13, <1>14,
     <1>15, <1>16, <1>17, <1>18, <1>19 DEF Next

\* OrderInv is inductive.
LEMMA OrderInvStep == ASSUME OrderInv, [Next]_vars PROVE OrderInv'
  BY TypeStep, OrderStep DEF OrderInv

\* It holds at first.
LEMMA OrderInit == ASSUME Init PROVE OrderInv
<1> USE PaymentAssumption DEF Init, Handlers, VerifyPoints, WebhookPoints, Answers, Statuses,
        SessionPoints, OrderPoints, CreditPoints
<1>1. TypeOK
  BY DEF TypeOK
<1> QED
  BY <1>1 DEF OrderInv, SessionByPoint, AnsweredAtTheEnd, CreditIsPaid, OrderHeldAlone,
              HeldIsOpen, SnapshotHolds, ProcessedIsCredited

(* The state is always well typed, and an order is held by one session at  *)
(* a time, whatever the users, orders, requests and deliveries are.        *)
THEOREM OrderIsHeldByOne == Spec => [](TypeOK /\ OrderHeldAlone)
<1>1. OrderInv => TypeOK /\ OrderHeldAlone
  BY DEF OrderInv
<1> QED
  BY <1>1, OrderInit, OrderInvStep, PTL DEF Spec

-----------------------------------------------------------------------------
(* The money *)

CommitsCredit(h) ==
    /\ pc[h] \in CreditPoints /\ CommitCredit(h) /\ status[target[h]] = "PENDING"
    /\ target[h] \in captured

CommitsReject(v) ==
    /\ status' = [status EXCEPT ![target[v]] = "FAILED"]
    /\ status[target[v]] # "SUCCESS" /\ UNCHANGED balance

\* Only the end of a session writes the order and the wallet.
LEMMA MoneySteps ==
    ASSUME OrderInv, [Next]_vars
    PROVE  /\ captured \subseteq captured'
           /\ \/ UNCHANGED <<balance, status>>
              \/ \E h \in Handlers : CommitsCredit(h)
              \/ \E v \in Verifies : CommitsReject(v)
<1> USE DEF dataVars
<1>1. ASSUME NEW v \in Verifies, VerifyCommitReject(v)
      PROVE  CommitsReject(v) /\ UNCHANGED captured
  BY <1>1 DEF VerifyCommitReject, CommitsReject, OrderInv, HeldIsOpen, Handlers
<1>2. ASSUME NEW v \in Verifies, VerifyCommit(v) PROVE CommitsCredit(v) /\ UNCHANGED captured
  BY <1>2 DEF VerifyCommit, CommitsCredit, OrderInv, HeldIsOpen, CreditIsPaid, Handlers,
     CreditPoints
<1>3. ASSUME NEW w \in Deliveries, WebhookCommit(w) PROVE CommitsCredit(w) /\ UNCHANGED captured
  BY <1>3 DEF WebhookCommit, CommitsCredit, OrderInv, HeldIsOpen, CreditIsPaid, Handlers,
     CreditPoints
<1>4. ASSUME NEW v \in Verifies,
             VerifyPayment(v) \/ VerifyReject(v) \/ VerifyCredit(v) \/ VerifyMark(v)
      PROVE  UNCHANGED <<balance, status, captured>>
  BY <1>4 DEF VerifyPayment, VerifyReject, VerifyCredit, VerifyMark, Abort
<1>5. ASSUME NEW w \in Deliveries,
             \/ Receive(w) \/ MarkDuplicate(w) \/ FindOrder(w) \/ WebhookMark(w)
             \/ WebhookCredit(w) \/ MarkProcessed(w) \/ MarkFailed(w)
      PROVE  UNCHANGED <<balance, status, captured>>
  BY <1>5 DEF Receive, MarkDuplicate, FindOrder, WebhookMark, WebhookCredit, MarkProcessed,
              MarkFailed, MarkEvent, Abort
<1>6. ASSUME \/ \E o \in Orders : Capture(o)
             \/ \E u \in Busy : OtherTraffic(u)
             \/ \E h \in Handlers : Crash(h) \/ MongoError(h)
             \/ UNCHANGED vars
      PROVE  captured \subseteq captured' /\ UNCHANGED <<balance, status>>
  BY <1>6 DEF Capture, OtherTraffic, Crash, MongoError, Abort, vars
<1> QED
  BY <1>1, <1>2, <1>3, <1>4, <1>5, <1>6 DEF Next, Handlers

\* No step takes a SUCCESS back.
LEMMA FinalStep ==
    ASSUME OrderInv, [Next]_vars, NEW o \in Orders, status[o] = "SUCCESS"
    PROVE  status'[o] = "SUCCESS"
  BY MoneySteps DEF CommitsCredit, CommitsReject, CommitCredit, OrderInv, TypeOK

(* A credited order never becomes FAILED or PENDING again: a bad           *)
(* signature's write is refused as a conflict, by the snapshot.            *)
THEOREM CreditedForGood == Spec => SuccessIsFinal
<1>1. ASSUME OrderInv, [Next]_vars
      PROVE  [\A o \in Orders : status[o] = "SUCCESS" => status'[o] = "SUCCESS"]_vars
  BY <1>1, FinalStep
<1> QED
  BY <1>1, OrderInit, OrderInvStep, PTL DEF Spec, SuccessIsFinal

\* Razorpay takes the money of one order at a time, and nothing else then.
LEMMA CaptureSteps ==
    ASSUME [Next]_vars
    PROVE  \/ UNCHANGED captured
           \/ UNCHANGED status /\ \E o \in Orders \ captured : captured' = captured \cup {o}
<1>1. ASSUME NEW v \in Verifies,
             \/ VerifyPayment(v) \/ VerifyReject(v) \/ VerifyCommitReject(v)
             \/ VerifyCredit(v) \/ VerifyMark(v) \/ VerifyCommit(v)
      PROVE  UNCHANGED captured
  BY <1>1 DEF VerifyPayment, VerifyReject, VerifyCommitReject, VerifyCredit, VerifyMark,
     VerifyCommit
<1>2. ASSUME NEW w \in Deliveries,
             \/ Receive(w) \/ MarkDuplicate(w) \/ FindOrder(w) \/ WebhookMark(w)
             \/ WebhookCredit(w) \/ WebhookCommit(w) \/ MarkProcessed(w) \/ MarkFailed(w)
      PROVE  UNCHANGED captured
  BY <1>2 DEF Receive, MarkDuplicate, FindOrder, WebhookMark, WebhookCredit, WebhookCommit,
     MarkProcessed, MarkFailed, MarkEvent
<1>3. ASSUME NEW o \in Orders, Capture(o)
      PROVE  UNCHANGED status /\ o \notin captured /\ captured' = captured \cup {o}
  BY <1>3 DEF Capture, dataVars
<1>4. ASSUME \/ \E u \in Busy : OtherTraffic(u)
             \/ \E h \in Handlers : Crash(h) \/ MongoError(h)
             \/ UNCHANGED vars
      PROVE  UNCHANGED captured
  BY <1>4 DEF OtherTraffic, Crash, MongoError, vars
<1> QED
  BY <1>1, <1>2, <1>3, <1>4 DEF Next

\* A status that changes is that of one order, which was not SUCCESS, and
\* only a PENDING order whose money is there becomes SUCCESS.
LEMMA SettleSteps ==
    ASSUME OrderInv, [Next]_vars
    PROVE  \/ UNCHANGED status
           \/ /\ UNCHANGED captured
              /\ \E o \in Orders :
                    \/ /\ status[o] = "PENDING" /\ o \in captured
                       /\ status' = [status EXCEPT ![o] = "SUCCESS"]
                    \/ /\ status[o] \in {"PENDING", "FAILED"}
                       /\ status' = [status EXCEPT ![o] = "FAILED"]
<1>1. ASSUME NEW h \in Handlers, CommitsCredit(h)
      PROVE  \E o \in Orders : /\ status[o] = "PENDING" /\ o \in captured
                               /\ status' = [status EXCEPT ![o] = "SUCCESS"]
  BY <1>1 DEF CommitsCredit, CommitCredit, OrderInv, TypeOK
<1>2. ASSUME NEW v \in Verifies, CommitsReject(v), ~ UNCHANGED status
      PROVE  \E o \in Orders : /\ status[o] \in {"PENDING", "FAILED"}
                               /\ status' = [status EXCEPT ![o] = "FAILED"]
  <2>1. status \in [Orders -> {"PENDING", "SUCCESS", "FAILED"}]
    BY DEF OrderInv, TypeOK, Statuses
  <2>2. target[v] \in Orders
    BY <1>2, <2>1 DEF CommitsReject
  <2> QED
    BY <1>2, <2>1, <2>2 DEF CommitsReject
<1> QED
  BY <1>1, <1>2, MoneySteps, CaptureSteps

\* A step of Payment is a step of OrderBook, or none.
LEMMA BookStep ==
    ASSUME OrderInv, [Next]_vars
    PROVE  [Book!BookNext]_Book!orderVars
<1> USE DEF WithStatus
<1>1. CASE UNCHANGED <<status, captured>>
  BY <1>1 DEF Book!orderVars
<1>2. ASSUME UNCHANGED status, NEW o \in Orders \ captured, captured' = captured \cup {o}
      PROVE  Book!BookNext
  <2>1. o \in Book!OnRecord
    BY DEF Book!OnRecord, OrderInv, TypeOK, Statuses
  <2> QED
    BY <1>2, <2>1 DEF Book!BookNext, Book!Capture
<1>3. ASSUME UNCHANGED captured, NEW o \in Orders, status[o] = "PENDING", o \in captured,
             status' = [status EXCEPT ![o] = "SUCCESS"]
      PROVE  Book!Succeed(o) /\ o \in WithStatus("PENDING")
  BY <1>3 DEF Book!Succeed, Book!Settled, OrderInv, TypeOK
<1>4. ASSUME UNCHANGED captured, NEW o \in Orders, status[o] = "PENDING",
             status' = [status EXCEPT ![o] = "FAILED"]
      PROVE  Book!Reject(o) /\ o \in WithStatus("PENDING")
  BY <1>4 DEF Book!Reject, Book!Settled, OrderInv, TypeOK
<1>5. ASSUME UNCHANGED captured, NEW o \in Orders, status[o] = "FAILED",
             status' = [status EXCEPT ![o] = "FAILED"]
      PROVE  UNCHANGED <<status, captured>>
  BY <1>5 DEF OrderInv, TypeOK
<1> HIDE DEF WithStatus
<1> QED
  BY <1>1, <1>2, <1>3, <1>4, <1>5, SettleSteps, CaptureSteps DEF Book!BookNext

(* Verifications and webhooks take every order through OrderBook: it is    *)
(* settled at most once, as SUCCESS only with its money at Razorpay, and a *)
(* FAILED order stays so (paymentController.js: verifyPayment,             *)
(* handleWebhook).                                                         *)
THEOREM OrdersAreSettledOnce == Spec => OrdersFollowBook
<1>1. Init => Book!BookInit
  BY DEF Init, Book!BookInit, WithStatus
<1>2. OrderInv /\ [Next]_vars => [Book!BookNext]_Book!orderVars
  BY BookStep
<1> QED
  BY <1>1, <1>2, OrderInit, OrderInvStep, PTL DEF Spec, OrdersFollowBook, Book!BookSpec

Successes(u) == {o \in Orders : Owner[o] = u /\ status[o] = "SUCCESS"}

\* What a wallet should hold is a sum over a finite set.
LEMMA CreditedIsSum ==
    ASSUME NEW u
    PROVE  /\ Credited(u) = SumFunctionOnSet(Value, Successes(u))
           /\ IsFiniteSet(Successes(u)) /\ \A o \in Orders : Value[o] \in Int
  BY PaymentAssumption, FS_Subset DEF Credited, Successes

\* Every step keeps the wallets equal to their sums.
LEMMA MoneyStep ==
    ASSUME OrderInv, MoneyMatchesOrders, [Next]_vars
    PROVE  MoneyMatchesOrders'
<1>1. ASSUME UNCHANGED <<balance, status>> PROVE MoneyMatchesOrders'
  BY <1>1, MoneySteps DEF MoneyMatchesOrders, Credited
<1>2. ASSUME NEW v \in Verifies, CommitsReject(v) PROVE MoneyMatchesOrders'
  <2>1. \A o \in Orders : status'[o] = "SUCCESS" <=> status[o] = "SUCCESS"
    BY <1>2 DEF CommitsReject, OrderInv, TypeOK
  <2>2. \A u \in Users : Successes(u)' = Successes(u)
    BY <2>1 DEF Successes
  <2>3. \A u \in Users : Credited(u)' = Credited(u)
    BY <2>2 DEF Credited, Successes
  <2> QED
    BY <1>2, <2>1, <2>3, MoneySteps DEF MoneyMatchesOrders, CommitsReject
<1>3. ASSUME NEW h \in Handlers, CommitsCredit(h) PROVE MoneyMatchesOrders'
  <2>1. PICK t \in Orders :
           /\ t \in captured /\ status[t] = "PENDING"
           /\ status' = [status EXCEPT ![t] = "SUCCESS"]
           /\ balance' = [balance EXCEPT ![Owner[t]] = @ + Value[t]]
    BY <1>3 DEF CommitsCredit, CommitCredit, User, OrderInv, TypeOK
  <2>2. ASSUME NEW u \in Users, u # Owner[t] PROVE Credited(u)' = Credited(u)
    BY <2>1, <2>2 DEF Credited, OrderInv, TypeOK
  <2>3. Credited(Owner[t])' = Value[t] + Credited(Owner[t])
    <3>1. Successes(Owner[t])' = Successes(Owner[t]) \cup {t} /\ t \notin Successes(Owner[t])
      BY <2>1 DEF Successes, OrderInv, TypeOK
    <3>2. Credited(Owner[t])' = SumFunctionOnSet(Value, Successes(Owner[t])')
      BY DEF Credited, Successes
    <3>3. \A o \in Successes(Owner[t]) \cup {t} : Value[o] \in Int
      BY <2>1, CreditedIsSum DEF Successes
    <3> QED
      BY <3>1, <3>2, <3>3, CreditedIsSum, SumInsert
  <2>4. \A u \in Users : balance'[u] = Credited(u)'
    <3>1. /\ Owner[t] \in Users /\ balance \in [Users -> Nat] /\ Value[t] \in Nat
          /\ \A u \in Users : balance[u] = Credited(u)
      BY <2>1, PaymentAssumption DEF OrderInv, TypeOK, MoneyMatchesOrders
    <3>2. ASSUME NEW u \in Users PROVE balance'[u] = Credited(u)'
      <4>1. CASE u = Owner[t]
        <5>1. balance'[u] = balance[u] + Value[t] /\ balance[u] \in Nat
          BY <2>1, <3>1, <4>1
        <5> QED
          BY <2>3, <3>1, <4>1, <5>1
      <4>2. CASE u # Owner[t]
        BY <2>1, <2>2, <3>1, <4>2
      <4> QED
        BY <4>1, <4>2
    <3> QED
      BY <3>2
  <2> QED
    BY <2>1, <2>4, MoneySteps DEF MoneyMatchesOrders, OrderInv, TypeOK
<1> QED
  BY <1>1, <1>2, <1>3, MoneySteps

(* A wallet has received each captured payment once if its order is        *)
(* SUCCESS and not at all otherwise, for any number of verifications and   *)
(* deliveries, conflicts, crashes and lost commit answers.                 *)
THEOREM EachPaymentOnce == Spec => []MoneyMatchesOrders
<1>1. Init => MoneyMatchesOrders
  <2> SUFFICES ASSUME Init PROVE MoneyMatchesOrders
    OBVIOUS
  <2>1. \A u \in Users : Credited(u) = 0
    <3>1. \A u \in Users : {o \in Orders : Owner[o] = u /\ status[o] = "SUCCESS"} = {}
      BY DEF Init
    <3> QED
      BY <3>1, SumEmpty DEF Credited
  <2> QED
    BY <2>1 DEF Init, MoneyMatchesOrders
<1> QED
  BY <1>1, OrderInit, OrderInvStep, MoneyStep, PTL DEF Spec

-----------------------------------------------------------------------------
(* What is told *)

\* Every step keeps the answers true.
LEMMA ToldStep ==
    ASSUME OrderInv, SuccessIsTold, [Next]_vars
    PROVE  SuccessIsTold'
<1> USE PaymentAssumption, FinalStep DEF SuccessIsTold, OrderInv, TypeOK, AnsweredAtTheEnd,
        Goto,
        Reply, Abort, MarkEvent, dataVars, sessionVars, Handlers, Answers
<1>1. ASSUME NEW v \in Verifies, VerifyPayment(v) PROVE SuccessIsTold'
  BY <1>1 DEF VerifyPayment, VerifyLookup
<1>2. ASSUME NEW v \in Verifies, VerifyReject(v) PROVE SuccessIsTold'
  BY <1>2 DEF VerifyReject
<1>3. ASSUME NEW v \in Verifies, VerifyCommitReject(v) PROVE SuccessIsTold'
  BY <1>3 DEF VerifyCommitReject
<1>4. ASSUME NEW v \in Verifies, VerifyCredit(v) PROVE SuccessIsTold'
  BY <1>4 DEF VerifyCredit
<1>5. ASSUME NEW v \in Verifies, VerifyMark(v) PROVE SuccessIsTold'
  BY <1>5 DEF VerifyMark
<1>6. ASSUME NEW v \in Verifies, VerifyCommit(v) PROVE SuccessIsTold'
  BY <1>6 DEF VerifyCommit, CommitCredit
<1>7. ASSUME NEW w \in Deliveries, Receive(w) PROVE SuccessIsTold'
  BY <1>7 DEF Receive
<1>8. ASSUME NEW w \in Deliveries, MarkDuplicate(w) PROVE SuccessIsTold'
  BY <1>8 DEF MarkDuplicate
<1>9. ASSUME NEW w \in Deliveries, FindOrder(w) PROVE SuccessIsTold'
  BY <1>9 DEF FindOrder
<1>10. ASSUME NEW w \in Deliveries, WebhookMark(w) PROVE SuccessIsTold'
  BY <1>10 DEF WebhookMark
<1>11. ASSUME NEW w \in Deliveries, WebhookCredit(w) PROVE SuccessIsTold'
  BY <1>11 DEF WebhookCredit
<1>12. ASSUME NEW w \in Deliveries, WebhookCommit(w) PROVE SuccessIsTold'
  BY <1>12 DEF WebhookCommit, CommitCredit
<1>13. ASSUME NEW w \in Deliveries, MarkProcessed(w) PROVE SuccessIsTold'
  BY <1>13 DEF MarkProcessed, ProcessedIsCredited
<1>14. ASSUME NEW w \in Deliveries, MarkFailed(w) PROVE SuccessIsTold'
  BY <1>14 DEF MarkFailed
<1>15. ASSUME NEW o \in Orders, Capture(o) PROVE SuccessIsTold'
  BY <1>15 DEF Capture
<1>16. ASSUME NEW u \in Busy, OtherTraffic(u) PROVE SuccessIsTold'
  BY <1>16 DEF OtherTraffic
<1>17. ASSUME NEW h \in Handlers, Crash(h) PROVE SuccessIsTold'
  BY <1>17 DEF Crash, Active
<1>18. ASSUME NEW h \in Handlers, MongoError(h) PROVE SuccessIsTold'
  BY <1>18 DEF MongoError, Active
<1>19. CASE UNCHANGED vars
  BY <1>19 DEF vars
<1> HIDE DEF SuccessIsTold, OrderInv
<1> QED
  BY <1>1, <1>2, <1>3, <1>4, <1>5, <1>6, <1>7, <1>8, <1>9, <1>10, <1>11, <1>12, <1>13, <1>14,
     <1>15, <1>16, <1>17, <1>18, <1>19 DEF Next

(* Whoever is told of a success, and an event filed as PROCESSED, have the *)
(* credit behind them, now and later.                                      *)
THEOREM NoFalseSuccess == Spec => []SuccessIsTold
<1>1. Init => SuccessIsTold
  BY DEF Init, SuccessIsTold
<1> QED
  BY <1>1, OrderInit, OrderInvStep, ToldStep, PTL DEF Spec

-----------------------------------------------------------------------------
(* The race *)

\* The handlers that may still credit an order.
Trying(o) ==
    {h \in Handlers : /\ target[h] = o
                      /\ pc[h] \in {"credit", "mark", "commit", "find", "wmark",
                                   "wcredit", "wcommit"}}

FailedIsDisturbed ==
    /\ \A o \in Orders : status[o] = "FAILED" => o \in disturbed
    /\ \A v \in Verifies : pc[v] \in {"reject", "rejectCommit"} => target[v] \in disturbed
    /\ \A v \in Verifies :
        pc[v] \in SessionPoints /\ snap[v] = "FAILED" => target[v] \in disturbed

Overtaken(h) == <<h, "wallet">> \in outdated \/ <<h, "order">> \in outdated

\* What overtakes a session is a credit of its own order, or something else.
OvertakenIsKnown ==
    \A h \in Handlers :
        pc[h] \in SessionPoints /\ Overtaken(h)
            => target[h] \in disturbed \/ status[target[h]] = "SUCCESS"

EventIsDelivered ==
    \A o \in Orders :
        event[o] # "absent" => \E w \in Deliveries : target[w] = o /\ pc[w] # "idle"

SomeoneTries ==
    \A o \in Orders \ disturbed :
        (\E h \in Handlers : target[h] = o) => status[o] = "SUCCESS" \/ Trying(o) # {}

RaceInv == FailedIsDisturbed /\ OvertakenIsKnown /\ EventIsDelivered /\ SomeoneTries

\* Every step on a replica set keeps the parts of RaceInv.
LEMMA RaceStep ==
    ASSUME Mongo = "replica", OrderInv, RaceInv, [Next]_vars
    PROVE  FailedIsDisturbed' /\ OvertakenIsKnown' /\ EventIsDelivered' /\ SomeoneTries'
<1> USE PaymentAssumption, FinalStep DEF RaceInv, OrderInv, TypeOK, SessionByPoint, HeldIsOpen,
        SnapshotHolds, InSession, OpenSession, CloseSession, Goto, Reply, Abort, MarkEvent,
            User,
        dataVars, sessionVars, Handlers, Statuses, VerifyPoints, WebhookPoints, SessionPoints,
        OrderPoints, CreditPoints
<1>1. ASSUME NEW v \in Verifies, VerifyPayment(v)
      PROVE  FailedIsDisturbed' /\ OvertakenIsKnown' /\ EventIsDelivered' /\ SomeoneTries'
  BY <1>1, SMTT(30) DEF VerifyPayment, VerifyLookup, FailedIsDisturbed, OvertakenIsKnown,
                        Overtaken, EventIsDelivered, SomeoneTries, Trying
<1>2. ASSUME NEW v \in Verifies, VerifyReject(v)
      PROVE  FailedIsDisturbed' /\ OvertakenIsKnown' /\ EventIsDelivered' /\ SomeoneTries'
  BY <1>2, SMTT(30) DEF VerifyReject, HoldsOrder, FailedIsDisturbed, OvertakenIsKnown,
                        Overtaken, EventIsDelivered, SomeoneTries, Trying
<1>3. ASSUME NEW v \in Verifies, VerifyCommitReject(v)
      PROVE  FailedIsDisturbed' /\ OvertakenIsKnown' /\ EventIsDelivered' /\ SomeoneTries'
  BY <1>3, SMTT(30) DEF VerifyCommitReject, OutdateOrder, FailedIsDisturbed, OvertakenIsKnown,
                        Overtaken, EventIsDelivered, SomeoneTries, Trying
<1>4. ASSUME NEW v \in Verifies, VerifyCredit(v)
      PROVE  FailedIsDisturbed' /\ OvertakenIsKnown' /\ EventIsDelivered' /\ SomeoneTries'
  <2>1. FailedIsDisturbed'
    BY <1>4, SMTT(20) DEF VerifyCredit, HoldsWallet, FailedIsDisturbed
  <2>2. OvertakenIsKnown'
    BY <1>4, SMTT(20) DEF VerifyCredit, HoldsWallet, OvertakenIsKnown, Overtaken,
       FailedIsDisturbed
  <2>3. EventIsDelivered'
    BY <1>4, SMTT(20) DEF VerifyCredit, HoldsWallet, EventIsDelivered
  <2>4. SomeoneTries'
    <3> SUFFICES ASSUME NEW o \in Orders \ disturbed', NEW q \in Handlers, target'[q] = o,
                        status'[o] # "SUCCESS"
                 PROVE  Trying(o)' # {}
      BY DEF SomeoneTries
    <3>1. PICK p \in Trying(o) : TRUE
      BY <1>4 DEF VerifyCredit, SomeoneTries
    <3>2. CASE p # v
      <4>1. p \in Trying(o)'
        BY <1>4, <3>2 DEF VerifyCredit, Trying
      <4> QED
        BY <4>1
    <3>3. CASE p = v
      <4>1. /\ target[v] = o /\ o \notin disturbed /\ status[o] # "SUCCESS"
            /\ pc[v] \in SessionPoints /\ v \in Handlers
        BY <1>4, <3>3 DEF VerifyCredit, Trying
      <4>2. <<v, "wallet">> \notin outdated
        <5>1. ~Overtaken(v)
          BY <4>1 DEF OvertakenIsKnown
        <5> QED
          BY <5>1 DEF Overtaken
      <4>3. CASE HoldsWallet(User(v)) # {}
        <5>1. PICK r \in HoldsWallet(User(v)) : target[r] = o
          BY <1>4, <4>1, <4>2, <4>3 DEF VerifyCredit
        <5>2. r \in Trying(o)'
          BY <1>4, <5>1 DEF VerifyCredit, HoldsWallet, Trying
        <5> QED
          BY <5>2
      <4>4. CASE HoldsWallet(User(v)) = {}
        <5>1. v \in Trying(o)'
          BY <1>4, <4>1, <4>2, <4>4 DEF VerifyCredit, Trying
        <5> QED
          BY <5>1
      <4> QED
        BY <4>3, <4>4
    <3> QED
      BY <3>2, <3>3
  <2> QED
    BY <2>1, <2>2, <2>3, <2>4
<1>5. ASSUME NEW v \in Verifies, VerifyMark(v)
      PROVE  FailedIsDisturbed' /\ OvertakenIsKnown' /\ EventIsDelivered' /\ SomeoneTries'
  <2>1. FailedIsDisturbed'
    BY <1>5, SMTT(20) DEF VerifyMark, HoldsOrder, FailedIsDisturbed
  <2>2. OvertakenIsKnown'
    BY <1>5, SMTT(20) DEF VerifyMark, HoldsOrder, OvertakenIsKnown, Overtaken, FailedIsDisturbed
  <2>3. EventIsDelivered'
    BY <1>5, SMTT(20) DEF VerifyMark, HoldsOrder, EventIsDelivered
  <2>4. SomeoneTries'
    <3> SUFFICES ASSUME NEW o \in Orders \ disturbed', NEW q \in Handlers, target'[q] = o,
                        status'[o] # "SUCCESS"
                 PROVE  Trying(o)' # {}
      BY DEF SomeoneTries
    <3>1. PICK p \in Trying(o) : TRUE
      BY <1>5 DEF VerifyMark, SomeoneTries
    <3>2. CASE p # v
      <4>1. p \in Trying(o)'
        BY <1>5, <3>2 DEF VerifyMark, Trying
      <4> QED
        BY <4>1
    <3>3. CASE p = v
      <4>1. /\ target[v] = o /\ o \notin disturbed /\ status[o] # "SUCCESS"
            /\ pc[v] \in SessionPoints /\ v \in Handlers
        BY <1>5, <3>3 DEF VerifyMark, Trying
      <4>2. <<v, "order">> \notin outdated /\ snap[v] = "PENDING"
        <5>1. ~Overtaken(v)
          BY <4>1 DEF OvertakenIsKnown
        <5>2. snap[v] # "FAILED"
          BY <1>5, <4>1 DEF FailedIsDisturbed
        <5>3. snap[v] \in Statuses /\ snap[v] # "SUCCESS"
          BY <1>5, <4>1
        <5> QED
          BY <5>1, <5>2, <5>3 DEF Overtaken
      <4>3. CASE HoldsOrder(o) # {}
        <5>1. PICK r \in HoldsOrder(o) : r # v
          BY <1>5, <4>3 DEF VerifyMark, HoldsOrder
        <5>2. r \in Trying(o)'
          BY <1>5, <4>1, <5>1 DEF VerifyMark, HoldsOrder, Trying, FailedIsDisturbed
        <5> QED
          BY <5>2
      <4>4. CASE HoldsOrder(o) = {}
        <5>1. v \in Trying(o)'
          BY <1>5, <4>1, <4>2, <4>4 DEF VerifyMark, Trying
        <5> QED
          BY <5>1
      <4> QED
        BY <4>3, <4>4
    <3> QED
      BY <3>2, <3>3
  <2> QED
    BY <2>1, <2>2, <2>3, <2>4
<1>6. ASSUME NEW v \in Verifies, VerifyCommit(v)
      PROVE  FailedIsDisturbed' /\ OvertakenIsKnown' /\ EventIsDelivered' /\ SomeoneTries'
  BY <1>6, SMTT(30) DEF VerifyCommit, CommitCredit, OutdateOrder, OutdateWallet, Neighbours,
     FailedIsDisturbed, OvertakenIsKnown,
                        Overtaken, EventIsDelivered, SomeoneTries, Trying
<1>7. ASSUME NEW w \in Deliveries, Receive(w)
      PROVE  FailedIsDisturbed' /\ OvertakenIsKnown' /\ EventIsDelivered' /\ SomeoneTries'
  BY <1>7, SMTT(30) DEF Receive, FailedIsDisturbed, OvertakenIsKnown,
                        Overtaken, EventIsDelivered, SomeoneTries, Trying
<1>8. ASSUME NEW w \in Deliveries, MarkDuplicate(w)
      PROVE  FailedIsDisturbed' /\ OvertakenIsKnown' /\ EventIsDelivered' /\ SomeoneTries'
  BY <1>8, SMTT(30) DEF MarkDuplicate, FailedIsDisturbed, OvertakenIsKnown,
                        Overtaken, EventIsDelivered, SomeoneTries, Trying
<1>9. ASSUME NEW w \in Deliveries, FindOrder(w)
      PROVE  FailedIsDisturbed' /\ OvertakenIsKnown' /\ EventIsDelivered' /\ SomeoneTries'
  BY <1>9, SMTT(30) DEF FindOrder, FailedIsDisturbed, OvertakenIsKnown,
                        Overtaken, EventIsDelivered, SomeoneTries, Trying
<1>10. ASSUME NEW w \in Deliveries, WebhookMark(w)
      PROVE  FailedIsDisturbed' /\ OvertakenIsKnown' /\ EventIsDelivered' /\ SomeoneTries'
  BY <1>10, SMTT(30) DEF WebhookMark, HoldsOrder, FailedIsDisturbed, OvertakenIsKnown,
                        Overtaken, EventIsDelivered, SomeoneTries, Trying
<1>11. ASSUME NEW w \in Deliveries, WebhookCredit(w)
      PROVE  FailedIsDisturbed' /\ OvertakenIsKnown' /\ EventIsDelivered' /\ SomeoneTries'
  <2>1. FailedIsDisturbed'
    BY <1>11, SMTT(20) DEF WebhookCredit, HoldsWallet, FailedIsDisturbed
  <2>2. OvertakenIsKnown'
    BY <1>11, SMTT(20) DEF WebhookCredit, HoldsWallet, OvertakenIsKnown, Overtaken,
       FailedIsDisturbed
  <2>3. EventIsDelivered'
    BY <1>11, SMTT(20) DEF WebhookCredit, HoldsWallet, EventIsDelivered
  <2>4. SomeoneTries'
    <3> SUFFICES ASSUME NEW o \in Orders \ disturbed', NEW q \in Handlers, target'[q] = o,
                        status'[o] # "SUCCESS"
                 PROVE  Trying(o)' # {}
      BY DEF SomeoneTries
    <3>1. PICK p \in Trying(o) : TRUE
      BY <1>11 DEF WebhookCredit, SomeoneTries
    <3>2. CASE p # w
      <4>1. p \in Trying(o)'
        BY <1>11, <3>2 DEF WebhookCredit, Trying
      <4> QED
        BY <4>1
    <3>3. CASE p = w
      <4>1. /\ target[w] = o /\ o \notin disturbed /\ status[o] # "SUCCESS"
            /\ pc[w] \in SessionPoints /\ w \in Handlers
        BY <1>11, <3>3 DEF WebhookCredit, Trying
      <4>2. <<w, "wallet">> \notin outdated
        <5>1. ~Overtaken(w)
          BY <4>1 DEF OvertakenIsKnown
        <5> QED
          BY <5>1 DEF Overtaken
      <4>3. CASE HoldsWallet(User(w)) # {}
        <5>1. PICK r \in HoldsWallet(User(w)) : target[r] = o
          BY <1>11, <4>1, <4>2, <4>3 DEF WebhookCredit
        <5>2. r \in Trying(o)'
          BY <1>11, <5>1 DEF WebhookCredit, HoldsWallet, Trying
        <5> QED
          BY <5>2
      <4>4. CASE HoldsWallet(User(w)) = {}
        <5>1. w \in Trying(o)'
          BY <1>11, <4>1, <4>2, <4>4 DEF WebhookCredit, Trying
        <5> QED
          BY <5>1
      <4> QED
        BY <4>3, <4>4
    <3> QED
      BY <3>2, <3>3
  <2> QED
    BY <2>1, <2>2, <2>3, <2>4
<1>12. ASSUME NEW w \in Deliveries, WebhookCommit(w)
      PROVE  FailedIsDisturbed' /\ OvertakenIsKnown' /\ EventIsDelivered' /\ SomeoneTries'
  BY <1>12, SMTT(30) DEF WebhookCommit, CommitCredit, OutdateOrder, OutdateWallet, Neighbours,
     FailedIsDisturbed, OvertakenIsKnown,
                        Overtaken, EventIsDelivered, SomeoneTries, Trying
<1>13. ASSUME NEW w \in Deliveries, MarkProcessed(w)
      PROVE  FailedIsDisturbed' /\ OvertakenIsKnown' /\ EventIsDelivered' /\ SomeoneTries'
  BY <1>13, SMTT(30) DEF MarkProcessed, ProcessedIsCredited, FailedIsDisturbed,
     OvertakenIsKnown,
                        Overtaken, EventIsDelivered, SomeoneTries, Trying
<1>14. ASSUME NEW w \in Deliveries, MarkFailed(w)
      PROVE  FailedIsDisturbed' /\ OvertakenIsKnown' /\ EventIsDelivered' /\ SomeoneTries'
  BY <1>14, SMTT(30) DEF MarkFailed, FailedIsDisturbed, OvertakenIsKnown,
                        Overtaken, EventIsDelivered, SomeoneTries, Trying
<1>15. ASSUME NEW o \in Orders, Capture(o)
      PROVE  FailedIsDisturbed' /\ OvertakenIsKnown' /\ EventIsDelivered' /\ SomeoneTries'
  BY <1>15, SMTT(30) DEF Capture, FailedIsDisturbed, OvertakenIsKnown,
                        Overtaken, EventIsDelivered, SomeoneTries, Trying
<1>16. ASSUME NEW u \in Busy, OtherTraffic(u)
      PROVE  FailedIsDisturbed' /\ OvertakenIsKnown' /\ EventIsDelivered' /\ SomeoneTries'
  BY <1>16, SMTT(30) DEF OtherTraffic, FailedIsDisturbed, OvertakenIsKnown,
                        Overtaken, EventIsDelivered, SomeoneTries, Trying
<1>17. ASSUME NEW h \in Handlers, Crash(h)
      PROVE  FailedIsDisturbed' /\ OvertakenIsKnown' /\ EventIsDelivered' /\ SomeoneTries'
  BY <1>17, SMTT(30) DEF Crash, Active, FailedIsDisturbed, OvertakenIsKnown,
                        Overtaken, EventIsDelivered, SomeoneTries, Trying
<1>18. ASSUME NEW h \in Handlers, MongoError(h)
      PROVE  FailedIsDisturbed' /\ OvertakenIsKnown' /\ EventIsDelivered' /\ SomeoneTries'
  BY <1>18, SMTT(30) DEF MongoError, Active, FailedIsDisturbed, OvertakenIsKnown,
                        Overtaken, EventIsDelivered, SomeoneTries, Trying
<1>19. CASE UNCHANGED vars
  BY <1>19 DEF vars, FailedIsDisturbed, OvertakenIsKnown, Overtaken, EventIsDelivered,
     SomeoneTries, Trying
<1> HIDE DEF RaceInv, OrderInv
<1> QED
  BY <1>1, <1>2, <1>3, <1>4, <1>5, <1>6, <1>7, <1>8, <1>9, <1>10, <1>11, <1>12, <1>13, <1>14,
     <1>15, <1>16, <1>17, <1>18, <1>19 DEF Next

(* Verification and webhook never fail each other both: on a replica set,  *)
(* once every handler of a captured order is done and nothing but them     *)
(* touched its wallet, the order is credited.                              *)
THEOREM RaceIsWon == ASSUME Mongo = "replica" PROVE Spec => []RaceHasAWinner
<1>1. Init => RaceInv
  BY PaymentAssumption DEF Init, RaceInv, Handlers, SessionPoints, FailedIsDisturbed,
     OvertakenIsKnown, EventIsDelivered, SomeoneTries
<1>2. OrderInv /\ RaceInv => RaceHasAWinner
  BY DEF OrderInv, TypeOK, RaceInv, SomeoneTries, RaceHasAWinner, Settled, Trying
<1>3. OrderInv /\ RaceInv /\ [Next]_vars => RaceInv'
  BY RaceStep DEF RaceInv
<1> QED
  BY <1>1, <1>2, <1>3, OrderInit, OrderInvStep, PTL DEF Spec

-----------------------------------------------------------------------------
(* How orders, and mock credits, come about.  AddMoney is instantiated over *)
(* the state of AddMoneyState, with parameters of its own; what it assumes  *)
(* of them is an assumption of each theorem.                                *)

CONSTANTS Deployments, Configured, MaxMishaps

VARIABLE mishaps

AddMoney == INSTANCE AddMoney

\* Orders have been made, and whoever is about to show, to record or to pay
\* one has one.
OrdersInv ==
    /\ \A k \in AddMoney!Keys :
        /\ doc[k].order <= made
        /\ doc[k].status = "PENDING" => doc[k].order # AddMoney!NoOrder
    /\ \A r \in Requests :
        /\ order[r] <= made
        /\ point[r] = "recordOrder" \/ answer[r] = "order" => order[r] # AddMoney!NoOrder
        /\ point[r] = "checkout" => answer[r] = "order"

\* An answer is given once, and an order that is shown is on record.
AnswersInv ==
    /\ AddMoney!AnswersAreTrue
    /\ \A r \in Requests :
        /\ answer[r] # "none" => point[r] \in {"reply", "checkout", "verify", "over"}
        /\ answer[r] = "order" => AddMoney!Taken(key[r])

\* A transaction that has written its document holds the key, which nobody
\* has taken before it or takes beside it.
CommitInv ==
    \A r \in Requests : AddMoney!At(r, "commit") =>
        /\ r \notin plain /\ ~AddMoney!Taken(key[r])
        /\ \A q \in Requests : AddMoney!At(q, "commit") /\ key[q] = key[r] => q = r

\* Undisturbed, one request with a key at a time is past its findOne, and then
\* the key is free.
Past(r) == point[r] \in AddMoney!Handled \ {"find"}
AloneInv ==
    \A r \in Requests : Past(r) /\ key[r] \notin crossed =>
        /\ ~AddMoney!Taken(key[r])
        /\ \A q \in Requests : Past(q) /\ key[q] = key[r] => q = r

\* A credit without a record is that of an attempt without a transaction
\* that is about to make the record.
CreditInv ==
    /\ \A k \in AddMoney!Keys :
        /\ AddMoney!ByMock(k) => credits[k] >= 1
        /\ k \notin crossed =>
               credits[k] = (IF AddMoney!ByMock(k) \/ AddMoney!Unrecorded(k) # {} THEN 1 ELSE 0)
    /\ \A r \in plain : AddMoney!At(r, "record") => credits[key[r]] >= 1

\* The parts together.
AddMoneyInv ==
    /\ AddMoney!TypeOK /\ AddMoney!OneTopUpPerVisit
    /\ OrdersInv /\ AnswersInv /\ CommitInv /\ AloneInv /\ CreditInv

\* What the Transaction of a key may be.
Documents ==
    [status : AddMoney!Statuses, type : {"ADD_MONEY", "other"},
     order : AddMoney!Orders \cup {AddMoney!NoOrder}]

\* r's key gets a document.
Writes(r, s, o) ==
    /\ doc' \in [AddMoney!Keys -> Documents]
    /\ doc'[key[r]].status = s /\ doc'[key[r]].type = "ADD_MONEY" /\ doc'[key[r]].order = o
    /\ \A k \in AddMoney!Keys \ {key[r]} : doc'[k] = doc[k]

\* A fresh document is that of its key and of no other.
LEMMA Writing ==
    ASSUME AddMoney!TypeOK, NEW r \in Requests, NEW s \in AddMoney!Statuses,
           NEW o \in AddMoney!Orders \cup {AddMoney!NoOrder},
           doc' = AddMoney!Fresh(key[r], s, o)
    PROVE  Writes(r, s, o)
<1> DEFINE d == [status |-> s, type |-> "ADD_MONEY", order |-> o]
<1>1. /\ doc \in [AddMoney!Keys -> Documents] /\ key[r] \in AddMoney!Keys
      /\ doc' = [doc EXCEPT ![key[r]] = d]
  BY DEF AddMoney!TypeOK, Documents, AddMoney!Fresh
<1>2. d \in Documents /\ d.status = s /\ d.type = "ADD_MONEY" /\ d.order = o
  BY DEF Documents
<1> HIDE DEF d
<1> QED
  BY <1>1, <1>2 DEF Writes

\* What createPaymentOrder may answer.
TopUpAnswers == {"none", "added", "already", "order", "refused", "error"}

\* r goes on to p, with o for an answer.
Turn(r, p, o) == point' = [point EXCEPT ![r] = p] /\ answer' = [answer EXCEPT ![r] = o]

\* Going on without an answer keeps the one there is.
LEMMA Turning ==
    ASSUME AddMoney!TypeOK, NEW r \in Requests
    PROVE  /\ answer[r] \in TopUpAnswers
           /\ \A p : AddMoney!Goto(r, p) /\ answer' = answer => Turn(r, p, answer[r])
           /\ \A o : AddMoney!Reply(r, o) => Turn(r, "reply", o)
           /\ AddMoney!FallBack(r) => Turn(r, "begin", answer[r])
<1>1. answer \in [Requests -> TopUpAnswers]
  BY DEF AddMoney!TypeOK, TopUpAnswers
<1>2. answer = [answer EXCEPT ![r] = answer[r]]
  BY <1>1
<1> QED
  BY <1>1, <1>2 DEF Turn, AddMoney!Goto, AddMoney!Reply, AddMoney!FallBack

\* What findOne lets go on has no document, or one that findOne does not show.
FindEffect(r, p, o) ==
    /\ point[r] = "find" /\ Turn(r, p, o)
    /\ UNCHANGED <<mongo, doc, credits, made, collected, key, gateway, plain, overtaken, page,
                   methods, busy, dropped, left, mishaps>>
    /\ crossed' \in {crossed, crossed \cup {key[r]}}
    /\ key[r] \notin crossed' =>
           /\ ~AddMoney!Spent(key[r])
           /\ \A q \in Requests \ {r} : point[q] \in AddMoney!Handled => key[q] # key[r]
    /\ \/ /\ p \in {"begin", "order"} /\ o = answer[r] /\ UNCHANGED order
          /\ AddMoney!Taken(key[r]) => AddMoney!Spent(key[r])
       \/ p = "reply" /\ o = "refused" /\ UNCHANGED order
       \/ p = "reply" /\ o = "already" /\ UNCHANGED order /\ AddMoney!Status(r) = "SUCCESS"
       \/ /\ p = "reply" /\ o = "order" /\ AddMoney!Status(r) = "PENDING"
          /\ order' = [order EXCEPT ![r] = doc[key[r]].order]

\* Find has that effect.
LEMMA FindCases ==
    ASSUME AddMoney!AddMoneyAssumption, AddMoney!TypeOK, NEW r \in Requests, AddMoney!Find(r)
    PROVE  \E p \in AddMoney!Points, o \in TopUpAnswers : FindEffect(r, p, o)
<1>1. /\ point[r] = "find"
      /\ UNCHANGED <<mongo, doc, credits, made, collected, key, gateway, plain, overtaken, page,
                     methods, busy, dropped, left, mishaps>>
  BY DEF AddMoney!Find, AddMoney!At, AddMoney!dataVars, AddMoney!attemptVars, AddMoney!pageVars
<1>2. /\ crossed' \in {crossed, crossed \cup {key[r]}}
      /\ key[r] \notin crossed' =>
             /\ ~AddMoney!Spent(key[r])
             /\ \A q \in Requests \ {r} : point[q] \in AddMoney!Handled => key[q] # key[r]
  BY DEF AddMoney!Find
<1>3. AddMoney!Status(r) \in AddMoney!Statuses /\ gateway[r] \in AddMoney!Gateways
  BY DEF AddMoney!TypeOK, AddMoney!Status
<1>4. AddMoney!Route(r)
  BY DEF AddMoney!Find
<1>5. AddMoney!Existing(r) \notin {"SUCCESS", "PENDING"} /\ AddMoney!Taken(key[r]) =>
          AddMoney!Spent(key[r])
  BY <1>3 DEF AddMoney!Existing, AddMoney!Spent, AddMoney!Taken, AddMoney!Status,
     AddMoney!Statuses
<1>6. /\ AddMoney!Existing(r) = "SUCCESS" => AddMoney!Status(r) = "SUCCESS"
      /\ AddMoney!Existing(r) = "PENDING" => AddMoney!Status(r) = "PENDING"
  BY DEF AddMoney!Existing
<1>7. \/ /\ AddMoney!Goto(r, "begin") \/ AddMoney!Goto(r, "order")
         /\ UNCHANGED <<answer, order>> /\ AddMoney!Existing(r) \notin {"SUCCESS", "PENDING"}
      \/ AddMoney!Reply(r, "refused") /\ UNCHANGED order
      \/ AddMoney!Reply(r, "already") /\ UNCHANGED order /\ AddMoney!Existing(r) = "SUCCESS"
      \/ /\ AddMoney!Reply(r, "order") /\ AddMoney!Existing(r) = "PENDING"
         /\ order' = [order EXCEPT ![r] = doc[key[r]].order]
  <2>1. CASE AddMoney!Existing(r) = "SUCCESS"
    BY <1>4, <2>1 DEF AddMoney!Route
  <2>2. CASE AddMoney!Existing(r) # "SUCCESS" /\ gateway[r] = "MOCK"
    BY <1>4, <2>2 DEF AddMoney!Route
  <2>3. CASE AddMoney!Existing(r) # "SUCCESS" /\ gateway[r] = "RAZORPAY"
    BY <1>4, <2>3 DEF AddMoney!Route
  <2> QED
    BY <1>3, <2>1, <2>2, <2>3 DEF AddMoney!Gateways
<1>8. ASSUME NEW p \in AddMoney!Points, NEW o \in TopUpAnswers, Turn(r, p, o),
             \/ /\ p \in {"begin", "order"} /\ o = answer[r] /\ UNCHANGED order
                /\ AddMoney!Existing(r) \notin {"SUCCESS", "PENDING"}
             \/ p = "reply" /\ o = "refused" /\ UNCHANGED order
             \/ /\ p = "reply" /\ o = "already" /\ UNCHANGED order
                /\ AddMoney!Existing(r) = "SUCCESS"
             \/ /\ p = "reply" /\ o = "order" /\ AddMoney!Existing(r) = "PENDING"
                /\ order' = [order EXCEPT ![r] = doc[key[r]].order]
      PROVE  FindEffect(r, p, o)
  BY <1>1, <1>2, <1>5, <1>6, <1>8 DEF FindEffect
<1>9. /\ {"begin", "order", "reply"} \subseteq AddMoney!Points
      /\ {"refused", "already", "order"} \subseteq TopUpAnswers
  BY DEF AddMoney!Points, TopUpAnswers
<1> QED
  BY <1>7, <1>8, <1>9, Turning

\* A record is made where there is none, or the attempt ends, or begins again.
RecordEffect(r, p, o) ==
    /\ point[r] = "record" /\ AddMoney!HoldsKey(key[r]) = {} /\ Turn(r, p, o)
    /\ UNCHANGED <<mongo, credits, made, collected, key, gateway, order, page, methods, busy,
                   dropped, left, crossed, mishaps>>
    /\ \/ /\ AddMoney!Taken(key[r]) /\ r \notin plain
          /\ p = "begin" /\ o = answer[r] /\ UNCHANGED doc
          /\ plain' = plain \cup {r} /\ overtaken' = overtaken \ {r}
       \/ /\ AddMoney!Taken(key[r]) /\ r \in plain /\ p = "reply" /\ o = "error"
          /\ UNCHANGED <<doc, plain, overtaken>>
       \/ /\ ~AddMoney!Taken(key[r]) /\ r \in plain /\ p = "reply" /\ o = "added"
          /\ Writes(r, "SUCCESS", AddMoney!NoOrder) /\ UNCHANGED <<plain, overtaken>>
       \/ /\ ~AddMoney!Taken(key[r]) /\ r \notin plain
          /\ p = "commit" /\ o = answer[r] /\ UNCHANGED <<doc, plain, overtaken>>

\* Record has that effect.
LEMMA RecordCases ==
    ASSUME AddMoney!AddMoneyAssumption, AddMoney!TypeOK, NEW r \in Requests, AddMoney!Record(r)
    PROVE  \E p \in AddMoney!Points, o \in TopUpAnswers : RecordEffect(r, p, o)
<1>1. /\ point[r] = "record" /\ AddMoney!HoldsKey(key[r]) = {}
      /\ UNCHANGED <<mongo, credits, made, collected, key, gateway, order, page, methods, busy,
                     dropped, left, crossed, mishaps>>
  BY DEF AddMoney!Record, AddMoney!Mock, AddMoney!At, AddMoney!pageVars
<1>2. \/ AddMoney!Taken(key[r]) /\ r \notin plain /\ AddMoney!FallBack(r) /\ UNCHANGED doc
      \/ /\ AddMoney!Taken(key[r]) /\ r \in plain /\ AddMoney!Reply(r, "error")
         /\ UNCHANGED <<doc, AddMoney!attemptVars>>
      \/ /\ ~AddMoney!Taken(key[r]) /\ r \in plain /\ AddMoney!Reply(r, "added")
         /\ doc' = AddMoney!Fresh(key[r], "SUCCESS", AddMoney!NoOrder)
         /\ UNCHANGED AddMoney!attemptVars
      \/ /\ ~AddMoney!Taken(key[r]) /\ r \notin plain /\ AddMoney!Goto(r, "commit")
         /\ UNCHANGED <<doc, AddMoney!attemptVars, answer>>
  BY Zenon DEF AddMoney!Record
<1>3. doc' = AddMoney!Fresh(key[r], "SUCCESS", AddMoney!NoOrder) =>
          Writes(r, "SUCCESS", AddMoney!NoOrder)
  BY Writing DEF AddMoney!Statuses
<1>4. AddMoney!FallBack(r) => plain' = plain \cup {r} /\ overtaken' = overtaken \ {r}
  BY DEF AddMoney!FallBack
<1>5. /\ {"begin", "reply", "commit"} \subseteq AddMoney!Points
      /\ {"error", "added"} \subseteq TopUpAnswers
  BY DEF AddMoney!Points, TopUpAnswers
<1> QED
  BY <1>1, <1>2, <1>3, <1>4, <1>5, Turning DEF AddMoney!attemptVars, RecordEffect

\* An order is recorded as PENDING, or not at all.
OrderEffect(r, p, o) ==
    /\ point[r] = "recordOrder" /\ AddMoney!HoldsKey(key[r]) = {} /\ Turn(r, p, o) /\ p = "reply"
    /\ UNCHANGED <<mongo, credits, made, collected, key, gateway, plain, overtaken, order, page,
                   methods, busy, dropped, left, crossed, mishaps>>
    /\ \/ AddMoney!Taken(key[r]) /\ o = "error" /\ UNCHANGED doc
       \/ ~AddMoney!Taken(key[r]) /\ o = "order" /\ Writes(r, "PENDING", order[r])

\* RecordOrder has that effect.
LEMMA OrderCases ==
    ASSUME AddMoney!AddMoneyAssumption, AddMoney!TypeOK, NEW r \in Requests,
           AddMoney!RecordOrder(r)
    PROVE  \E p \in AddMoney!Points, o \in TopUpAnswers : OrderEffect(r, p, o)
<1>1. order[r] \in AddMoney!Orders \cup {AddMoney!NoOrder}
  BY DEF AddMoney!TypeOK
<1>2. doc' = AddMoney!Fresh(key[r], "PENDING", order[r]) => Writes(r, "PENDING", order[r])
  BY <1>1, Writing DEF AddMoney!Statuses
<1>3. "reply" \in AddMoney!Points /\ {"error", "order"} \subseteq TopUpAnswers
  BY DEF AddMoney!Points, TopUpAnswers
<1> QED
  BY <1>2, <1>3, Turning DEF AddMoney!RecordOrder, AddMoney!At, AddMoney!attemptVars,
     AddMoney!pageVars, OrderEffect

\* A commit writes credit and record at once; if nobody hears of it, its key
\* counts as disturbed.
CommitEffect(r, p, o) ==
    /\ point[r] = "commit" /\ Turn(r, p, o)
    /\ UNCHANGED <<mongo, made, collected, key, gateway, order, page, methods, busy, dropped,
                   left>>
    /\ credits' = [credits EXCEPT ![key[r]] = credits[key[r]] + 1]
    /\ Writes(r, "SUCCESS", AddMoney!NoOrder)
    /\ overtaken' \subseteq Requests /\ mishaps' \in 0 .. MaxMishaps
    /\ crossed \subseteq crossed' /\ crossed' \subseteq crossed \cup {key[r]}
    /\ \/ p = "reply" /\ o = "added" /\ UNCHANGED plain
       \/ key[r] \in crossed' /\ p = "reply" /\ o = "error" /\ UNCHANGED plain
       \/ key[r] \in crossed' /\ p = "begin" /\ o = answer[r] /\ plain' = plain \cup {r}

\* Commit and CommitUnheard have that effect.
LEMMA CommitCases ==
    ASSUME AddMoney!AddMoneyAssumption, AddMoney!TypeOK, NEW r \in Requests,
           AddMoney!Commit(r) \/ AddMoney!CommitUnheard(r)
    PROVE  \E p \in AddMoney!Points, o \in TopUpAnswers : CommitEffect(r, p, o)
<1>1. doc' = AddMoney!Fresh(key[r], "SUCCESS", AddMoney!NoOrder)
  BY DEF AddMoney!Commit, AddMoney!Commits, AddMoney!CommitUnheard
<1>2. Writes(r, "SUCCESS", AddMoney!NoOrder)
  BY <1>1, Writing DEF AddMoney!Statuses
<1>3. overtaken' \subseteq Requests /\ mishaps' \in 0 .. MaxMishaps
  BY DEF AddMoney!Commit, AddMoney!Commits, AddMoney!CommitUnheard, AddMoney!Mock,
     AddMoney!InSession, AddMoney!TypeOK, AddMoney!AddMoneyAssumption
<1>4. /\ point[r] = "commit"
      /\ UNCHANGED <<mongo, made, collected, key, gateway, order, page, methods, busy, dropped,
                     left>>
      /\ credits' = [credits EXCEPT ![key[r]] = credits[key[r]] + 1]
  BY DEF AddMoney!Commit, AddMoney!Commits, AddMoney!CommitUnheard, AddMoney!Mock, AddMoney!At,
     AddMoney!pageVars
<1>5. /\ crossed \subseteq crossed' /\ crossed' \subseteq crossed \cup {key[r]}
      /\ \/ AddMoney!Reply(r, "added") /\ UNCHANGED plain
         \/ key[r] \in crossed' /\ AddMoney!Reply(r, "error") /\ UNCHANGED plain
         \/ /\ key[r] \in crossed' /\ AddMoney!Goto(r, "begin") /\ UNCHANGED answer
            /\ plain' = plain \cup {r}
  BY DEF AddMoney!Commit, AddMoney!Commits, AddMoney!CommitUnheard, AddMoney!Cross
<1>6. {"begin", "reply"} \subseteq AddMoney!Points /\ {"error", "added"} \subseteq TopUpAnswers
  BY DEF AddMoney!Points, TopUpAnswers
<1> QED
  BY <1>2, <1>3, <1>4, <1>5, <1>6, Turning DEF CommitEffect

\* A credit is made without a transaction, or in one that goes on.
CreditEffect(r, p, o) ==
    /\ point[r] = "credit" /\ Turn(r, p, o) /\ o = answer[r]
    /\ UNCHANGED <<mongo, doc, made, collected, key, gateway, order, page, methods, busy,
                   dropped, left, crossed, mishaps>>
    /\ overtaken' \subseteq Requests
    /\ \/ /\ r \in plain /\ p = "record" /\ UNCHANGED plain
          /\ credits' = [credits EXCEPT ![key[r]] = credits[key[r]] + 1]
       \/ r \notin plain /\ p = "begin" /\ UNCHANGED credits /\ plain' = plain \cup {r}
       \/ r \notin plain /\ p = "record" /\ UNCHANGED <<credits, plain>>

\* Credit has that effect.
LEMMA CreditCases ==
    ASSUME AddMoney!AddMoneyAssumption, AddMoney!TypeOK, NEW r \in Requests, AddMoney!Credit(r)
    PROVE  \E p \in AddMoney!Points, o \in TopUpAnswers : CreditEffect(r, p, o)
<1>1. /\ point[r] = "credit"
      /\ UNCHANGED <<mongo, doc, made, collected, key, gateway, order, page, methods, busy,
                     dropped, left, crossed, mishaps>>
  BY DEF AddMoney!Credit, AddMoney!Mock, AddMoney!At, AddMoney!pageVars
<1>2. overtaken' \subseteq Requests
  BY DEF AddMoney!Credit, AddMoney!FallBack, AddMoney!attemptVars, AddMoney!InSession,
     AddMoney!TypeOK
<1>3. \/ /\ r \in plain /\ AddMoney!Goto(r, "record") /\ UNCHANGED <<answer, plain>>
         /\ credits' = [credits EXCEPT ![key[r]] = credits[key[r]] + 1]
      \/ r \notin plain /\ AddMoney!FallBack(r) /\ UNCHANGED credits /\ plain' = plain \cup {r}
      \/ r \notin plain /\ AddMoney!Goto(r, "record") /\ UNCHANGED <<answer, credits, plain>>
  BY DEF AddMoney!Credit, AddMoney!FallBack, AddMoney!attemptVars
<1>4. {"begin", "record"} \subseteq AddMoney!Points
  BY DEF AddMoney!Points
<1> QED
  BY <1>1, <1>2, <1>3, <1>4, Turning DEF CreditEffect

\* A turn of r is no one else's.
LEMMA Turned ==
    ASSUME AddMoney!TypeOK, NEW r \in Requests, NEW p \in AddMoney!Points,
           NEW o \in TopUpAnswers, Turn(r, p, o)
    PROVE  /\ point'[r] = p /\ answer'[r] = o
           /\ \A q \in Requests \ {r} : point'[q] = point[q] /\ answer'[q] = answer[q]
  BY DEF AddMoney!TypeOK, Turn

\* Every step keeps the types.
LEMMA AddMoneyTypeStep ==
    ASSUME AddMoney!AddMoneyAssumption, AddMoneyInv, [AddMoney!Next]_AddMoney!vars
    PROVE  AddMoney!TypeOK'
<1> USE DEF AddMoneyInv, AddMoney!TypeOK, AddMoney!UnderWay, AddMoney!Sent, AddMoney!InSession,
        AddMoney!Points, AddMoney!Orders, AddMoney!NoOrder, AddMoney!Gateways,
        AddMoney!Statuses,
        OrdersInv, Documents, AddMoney!AddMoneyAssumption, AddMoney!Keys, AddMoney!At,
        AddMoney!Goto, AddMoney!Backend, AddMoney!dataVars, AddMoney!attemptVars,
        AddMoney!pageVars
<1>1. ASSUME NEW r \in Requests, AddMoney!SendDirectly(r) PROVE AddMoney!TypeOK'
  BY <1>1 DEF AddMoney!SendDirectly, AddMoney!Send
<1>2. ASSUME NEW r \in Requests, AddMoney!Find(r) PROVE AddMoney!TypeOK'
  <2>1. PICK p \in AddMoney!Points, o \in TopUpAnswers : FindEffect(r, p, o)
    BY <1>2, FindCases
  <2>2. /\ point' \in [Requests -> AddMoney!Points]
        /\ answer' \in [Requests -> TopUpAnswers]
    BY <2>1 DEF FindEffect, Turn, TopUpAnswers
  <2>3. order' \in [Requests -> AddMoney!Orders \cup {AddMoney!NoOrder}]
    BY <2>1 DEF FindEffect
  <2>4. /\ crossed' \subseteq AddMoney!Keys
        /\ UNCHANGED <<mongo, doc, credits, made, collected, key, gateway, plain, overtaken,
                       page, methods, busy, dropped, left, mishaps>>
    BY <2>1 DEF FindEffect
  <2> QED
    BY <2>2, <2>3, <2>4 DEF TopUpAnswers
<1>3. ASSUME NEW r \in Requests, AddMoney!Begin(r) PROVE AddMoney!TypeOK'
  <2>1. \E p \in AddMoney!Points : point' = [point EXCEPT ![r] = p]
    BY <1>3 DEF AddMoney!Begin, AddMoney!FallBack
  <2>2. /\ plain' \subseteq Requests /\ overtaken' \subseteq Requests
        /\ UNCHANGED <<mongo, doc, credits, made, collected, key, gateway, order, answer, page,
                       methods, busy, dropped, left, crossed, mishaps>>
    BY <1>3 DEF AddMoney!Begin, AddMoney!Mock, AddMoney!FallBack
  <2> QED
    BY <2>1, <2>2
<1>4. ASSUME NEW r \in Requests, AddMoney!Credit(r) PROVE AddMoney!TypeOK'
  <2>1. PICK p \in AddMoney!Points, o \in TopUpAnswers : CreditEffect(r, p, o)
    BY <1>4, CreditCases
  <2> QED
    BY <2>1 DEF CreditEffect, Turn, Writes, TopUpAnswers
<1>5. ASSUME NEW r \in Requests, AddMoney!Record(r) PROVE AddMoney!TypeOK'
  <2>1. PICK p \in AddMoney!Points, o \in TopUpAnswers : RecordEffect(r, p, o)
    BY <1>5, RecordCases
  <2> QED
    BY <2>1 DEF RecordEffect, Turn, Writes, TopUpAnswers
<1>6. ASSUME NEW r \in Requests, AddMoney!Commit(r) PROVE AddMoney!TypeOK'
  <2>1. PICK p \in AddMoney!Points, o \in TopUpAnswers : CommitEffect(r, p, o)
    BY <1>6, CommitCases
  <2> QED
    BY <2>1 DEF CommitEffect, Turn, Writes, TopUpAnswers
<1>7. ASSUME NEW r \in Requests, AddMoney!CreateOrder(r) PROVE AddMoney!TypeOK'
  BY <1>7 DEF AddMoney!CreateOrder
<1>8. ASSUME NEW r \in Requests, AddMoney!RecordOrder(r) PROVE AddMoney!TypeOK'
  <2>1. PICK p \in AddMoney!Points, o \in TopUpAnswers : OrderEffect(r, p, o)
    BY <1>8, OrderCases
  <2> QED
    BY <2>1 DEF OrderEffect, Turn, Writes, TopUpAnswers
<1>9. ASSUME NEW r \in Requests, AddMoney!Fail(r) PROVE AddMoney!TypeOK'
  <2>1. \E p \in {"reply", "begin"} : point' = [point EXCEPT ![r] = p]
    BY <1>9 DEF AddMoney!Fail, AddMoney!FallBack, AddMoney!Reply
  <2>2. answer' = answer \/ answer' = [answer EXCEPT ![r] = "error"]
    BY <1>9 DEF AddMoney!Fail, AddMoney!FallBack, AddMoney!Reply
  <2>3. /\ UNCHANGED <<mongo, doc, credits, made, collected, key, gateway, order, page, methods,
                       busy, dropped, left>>
        /\ plain' \subseteq Requests /\ overtaken' \subseteq Requests
    BY <1>9 DEF AddMoney!Fail, AddMoney!FallBack
  <2>4. crossed' \subseteq AddMoney!Keys /\ mishaps' \in 0 .. MaxMishaps
    BY <1>9 DEF AddMoney!Fail, AddMoney!Cross
  <2> QED
    BY <2>1, <2>2, <2>3, <2>4
<1>10. ASSUME NEW r \in Requests, AddMoney!CommitUnheard(r) PROVE AddMoney!TypeOK'
  <2>1. PICK p \in AddMoney!Points, o \in TopUpAnswers : CommitEffect(r, p, o)
    BY <1>10, CommitCases
  <2> QED
    BY <2>1 DEF CommitEffect, Turn, Writes, TopUpAnswers
<1>11. ASSUME NEW r \in Requests, AddMoney!Submit(r) PROVE AddMoney!TypeOK'
  BY <1>11 DEF AddMoney!Submit, AddMoney!Send
<1>12. ASSUME NEW r \in Requests, AddMoney!OpenCheckout(r) PROVE AddMoney!TypeOK'
  BY <1>12 DEF AddMoney!OpenCheckout
<1>13. ASSUME NEW r \in Requests, AddMoney!ShowAdded(r) PROVE AddMoney!TypeOK'
  BY <1>13 DEF AddMoney!ShowAdded, AddMoney!ToDashboard
<1>14. ASSUME NEW r \in Requests, AddMoney!ShowError(r) PROVE AddMoney!TypeOK'
  BY <1>14 DEF AddMoney!ShowError, AddMoney!Enable
<1>23. ASSUME NEW r \in Requests, AddMoney!TimeOut(r) PROVE AddMoney!TypeOK'
  BY <1>23 DEF AddMoney!TimeOut, AddMoney!Enable
<1>15. ASSUME NEW r \in Requests, AddMoney!Pay(r) PROVE AddMoney!TypeOK'
  <2>1. order[r] \in Nat /\ order[r] # 0 /\ order[r] <= made
    BY <1>15 DEF AddMoney!Pay
  <2>2. made \in Nat /\ collected' = collected \cup {order[r]} /\ collected \subseteq 1 .. made
    BY <1>15 DEF AddMoney!Pay
  <2>3. order[r] \in 1 .. made
    BY <2>1, <2>2
  <2>4. collected' \subseteq 1 .. made
    BY <2>2, <2>3
  <2>5. /\ point' \in [Requests -> AddMoney!Points]
        /\ UNCHANGED <<mongo, doc, credits, made, key, gateway, plain, overtaken, order, answer,
                       page, methods, busy, dropped, left, crossed, mishaps>>
    BY <1>15 DEF AddMoney!Pay
  <2> QED
    BY <2>4, <2>5
<1>16. ASSUME NEW r \in Requests, AddMoney!Dismiss(r) PROVE AddMoney!TypeOK'
  BY <1>16 DEF AddMoney!Dismiss, AddMoney!Enable
<1>17. ASSUME NEW r \in Requests, AddMoney!Verified(r) PROVE AddMoney!TypeOK'
  BY <1>17 DEF AddMoney!Verified, AddMoney!Enable, AddMoney!ToDashboard
<1>18. ASSUME NEW k \in AddMoney!Keys, AddMoney!Settle(k) PROVE AddMoney!TypeOK'
  <2>1. PICK s \in AddMoney!Statuses : doc' = [doc EXCEPT ![k].status = s]
    BY <1>18 DEF AddMoney!Settle
  <2>2. doc' \in [AddMoney!Keys -> [status : AddMoney!Statuses, type : {"ADD_MONEY", "other"},
                     order : AddMoney!Orders \cup {AddMoney!NoOrder}]]
    <3>1. doc \in [AddMoney!Keys -> Documents]
      BY DEF Documents
    <3>2. [doc[k] EXCEPT !.status = s] \in Documents
      BY <3>1 DEF Documents
    <3> QED
      BY <2>1, <3>1, <3>2 DEF Documents
  <2>3. UNCHANGED <<mongo, credits, made, collected, key, gateway, point, plain, overtaken,
                    order, answer, page, methods, busy, dropped, left, crossed, mishaps>>
    BY <1>18 DEF AddMoney!Settle
  <2> QED
    BY <2>2, <2>3
<1>19. ASSUME AddMoney!Open PROVE AddMoney!TypeOK'
  BY <1>19 DEF AddMoney!Open
<1>20. ASSUME AddMoney!MethodsShown PROVE AddMoney!TypeOK'
  BY <1>20 DEF AddMoney!MethodsShown, AddMoney!Enabled
<1>21. ASSUME AddMoney!Leave PROVE AddMoney!TypeOK'
  BY <1>21 DEF AddMoney!Leave, AddMoney!Leaves
<1>22. CASE UNCHANGED AddMoney!vars
  BY <1>22 DEF AddMoney!vars
<1> HIDE DEF AddMoney!TypeOK, AddMoney!OneTopUpPerVisit, OrdersInv, AnswersInv, CommitInv,
        AloneInv, CreditInv, AddMoneyInv
<1> QED
  BY <1>1, <1>2, <1>3, <1>4, <1>5, <1>6, <1>7, <1>8, <1>9, <1>10, <1>11, <1>12, <1>13, <1>14,
     <1>15, <1>16, <1>17, <1>18, <1>19, <1>20, <1>21, <1>22, <1>23
     DEF AddMoney!Next, AddMoney!Step, AddMoney!Browse

\* Every step keeps orders among those that were made.
LEMMA OrdersStep ==
    ASSUME AddMoney!AddMoneyAssumption, AddMoneyInv, [AddMoney!Next]_AddMoney!vars
    PROVE  OrdersInv'
<1> USE DEF AddMoneyInv, AddMoney!TypeOK, AddMoney!Orders, AddMoney!NoOrder, OrdersInv,
        AddMoney!Taken, AddMoney!Status, AddMoney!Handled, AddMoney!Points,
        AddMoney!AddMoneyAssumption, AddMoney!Keys, AddMoney!At, AddMoney!Goto,
        AddMoney!Backend,
        AddMoney!dataVars, AddMoney!attemptVars, AddMoney!pageVars
<1>1. ASSUME NEW r \in Requests, AddMoney!SendDirectly(r) PROVE OrdersInv'
  BY <1>1 DEF AddMoney!SendDirectly, AddMoney!Send
<1>2. ASSUME NEW r \in Requests, AddMoney!Find(r) PROVE OrdersInv'
  <2>1. PICK p \in AddMoney!Points, o \in TopUpAnswers : FindEffect(r, p, o)
    BY <1>2, FindCases
  <2>2. /\ point'[r] = p /\ answer'[r] = o
        /\ \A q \in Requests \ {r} : point'[q] = point[q] /\ answer'[q] = answer[q]
    BY <2>1, Turned DEF FindEffect
  <2>3. key[r] \in AddMoney!Keys /\ UNCHANGED <<doc, made>>
    BY <2>1 DEF FindEffect
  <2>4. \A q \in Requests \ {r} : order'[q] = order[q]
    BY <2>1 DEF FindEffect
  <2>5. \/ /\ order'[r] = order[r] /\ p # "recordOrder" /\ p # "checkout"
           /\ (o = "order" => o = answer[r])
        \/ /\ order'[r] = doc[key[r]].order /\ doc[key[r]].status = "PENDING"
           /\ p = "reply"
    BY <2>1 DEF FindEffect
  <2>6. /\ order'[r] <= made
        /\ point'[r] = "recordOrder" \/ answer'[r] = "order" => order'[r] # AddMoney!NoOrder
        /\ point'[r] # "checkout"
    <3> HIDE DEF AddMoney!TypeOK
    <3>1. order[r] # AddMoney!NoOrder \/ answer[r] # "order"
      OBVIOUS
    <3>2. /\ doc[key[r]].order <= made /\ order[r] <= made
          /\ doc[key[r]].status = "PENDING" => doc[key[r]].order # AddMoney!NoOrder
      BY <2>3
    <3> HIDE DEF AddMoneyInv, OrdersInv
    <3> QED
      BY <2>2, <2>5, <3>1, <3>2
  <2>7. \A q \in Requests \ {r} :
            /\ order'[q] <= made
            /\ point'[q] = "recordOrder" \/ answer'[q] = "order" => order'[q] # AddMoney!NoOrder
            /\ point'[q] = "checkout" => answer'[q] = "order"
    BY <2>2, <2>4
  <2> QED
    BY <2>3, <2>6, <2>7
<1>3. ASSUME NEW r \in Requests, AddMoney!Begin(r) PROVE OrdersInv'
  BY <1>3 DEF AddMoney!Begin, AddMoney!Mock, AddMoney!FallBack
<1>4. ASSUME NEW r \in Requests, AddMoney!Credit(r) PROVE OrdersInv'
  <2>1. PICK p \in AddMoney!Points, o \in TopUpAnswers : CreditEffect(r, p, o)
    BY <1>4, CreditCases
  <2> QED
    BY <2>1 DEF CreditEffect, Turn, Writes, TopUpAnswers
<1>5. ASSUME NEW r \in Requests, AddMoney!Record(r) PROVE OrdersInv'
  <2>1. PICK p \in AddMoney!Points, o \in TopUpAnswers : RecordEffect(r, p, o)
    BY <1>5, RecordCases
  <2>2. /\ Turn(r, p, o) /\ p # "recordOrder" /\ p # "checkout"
        /\ o \in {"error", "added", answer[r]}
        /\ UNCHANGED <<made, order>>
        /\ UNCHANGED doc \/ Writes(r, "SUCCESS", AddMoney!NoOrder)
    BY <2>1 DEF RecordEffect
  <2>3. CASE UNCHANGED doc
    BY <2>2, <2>3 DEF Turn, TopUpAnswers
  <2>4. CASE Writes(r, "SUCCESS", AddMoney!NoOrder)
    BY <2>2, <2>4 DEF Turn, Writes, TopUpAnswers
  <2> QED
    BY <2>2, <2>3, <2>4
<1>6. ASSUME NEW r \in Requests, AddMoney!Commit(r) PROVE OrdersInv'
  <2>1. PICK p \in AddMoney!Points, o \in TopUpAnswers : CommitEffect(r, p, o)
    BY <1>6, CommitCases
  <2>2. /\ point'[r] = p /\ answer'[r] = o
        /\ \A q \in Requests \ {r} : point'[q] = point[q] /\ answer'[q] = answer[q]
    BY <2>1, Turned DEF CommitEffect
  <2>3. UNCHANGED <<made, order>> /\ p \in {"reply", "begin"} /\ (o = "order" => o = answer[r])
    BY <2>1 DEF CommitEffect
  <2>4. \A k \in AddMoney!Keys :
            /\ doc'[k].order <= made
            /\ doc'[k].status = "PENDING" => doc'[k].order # AddMoney!NoOrder
    <3>1. /\ doc'[key[r]].order = AddMoney!NoOrder /\ doc'[key[r]].status = "SUCCESS"
          /\ \A k \in AddMoney!Keys \ {key[r]} : doc'[k] = doc[k]
      BY <2>1 DEF CommitEffect, Writes
    <3>2. AddMoney!NoOrder <= made
      OBVIOUS
    <3> QED
      BY <3>1, <3>2
  <2> QED
    BY <2>2, <2>3, <2>4
<1>7. ASSUME NEW r \in Requests, AddMoney!CreateOrder(r) PROVE OrdersInv'
  BY <1>7 DEF AddMoney!CreateOrder
<1>8. ASSUME NEW r \in Requests, AddMoney!RecordOrder(r) PROVE OrdersInv'
  <2>1. PICK p \in AddMoney!Points, o \in TopUpAnswers : OrderEffect(r, p, o)
    BY <1>8, OrderCases
  <2> QED
    BY <2>1 DEF OrderEffect, Turn, Writes, TopUpAnswers
<1>9. ASSUME NEW r \in Requests, AddMoney!Fail(r) PROVE OrdersInv'
  BY <1>9 DEF AddMoney!Fail, AddMoney!FallBack, AddMoney!Reply, AddMoney!Cross
<1>10. ASSUME NEW r \in Requests, AddMoney!CommitUnheard(r) PROVE OrdersInv'
  <2>1. PICK p \in AddMoney!Points, o \in TopUpAnswers : CommitEffect(r, p, o)
    BY <1>10, CommitCases
  <2>2. /\ point'[r] = p /\ answer'[r] = o
        /\ \A q \in Requests \ {r} : point'[q] = point[q] /\ answer'[q] = answer[q]
    BY <2>1, Turned DEF CommitEffect
  <2>3. UNCHANGED <<made, order>> /\ p \in {"reply", "begin"} /\ (o = "order" => o = answer[r])
    BY <2>1 DEF CommitEffect
  <2>4. \A k \in AddMoney!Keys :
            /\ doc'[k].order <= made
            /\ doc'[k].status = "PENDING" => doc'[k].order # AddMoney!NoOrder
    <3>1. /\ doc'[key[r]].order = AddMoney!NoOrder /\ doc'[key[r]].status = "SUCCESS"
          /\ \A k \in AddMoney!Keys \ {key[r]} : doc'[k] = doc[k]
      BY <2>1 DEF CommitEffect, Writes
    <3>2. AddMoney!NoOrder <= made
      OBVIOUS
    <3> QED
      BY <3>1, <3>2
  <2> QED
    BY <2>2, <2>3, <2>4
<1>11. ASSUME NEW r \in Requests, AddMoney!Submit(r) PROVE OrdersInv'
  BY <1>11 DEF AddMoney!Submit, AddMoney!Send
<1>12. ASSUME NEW r \in Requests, AddMoney!OpenCheckout(r) PROVE OrdersInv'
  BY <1>12 DEF AddMoney!OpenCheckout
<1>13. ASSUME NEW r \in Requests, AddMoney!ShowAdded(r) PROVE OrdersInv'
  BY <1>13 DEF AddMoney!ShowAdded, AddMoney!ToDashboard
<1>14. ASSUME NEW r \in Requests, AddMoney!ShowError(r) PROVE OrdersInv'
  BY <1>14 DEF AddMoney!ShowError, AddMoney!Enable
<1>23. ASSUME NEW r \in Requests, AddMoney!TimeOut(r) PROVE OrdersInv'
  BY <1>23 DEF AddMoney!TimeOut, AddMoney!Enable
<1>15. ASSUME NEW r \in Requests, AddMoney!Pay(r) PROVE OrdersInv'
  BY <1>15 DEF AddMoney!Pay
<1>16. ASSUME NEW r \in Requests, AddMoney!Dismiss(r) PROVE OrdersInv'
  BY <1>16 DEF AddMoney!Dismiss, AddMoney!Enable
<1>17. ASSUME NEW r \in Requests, AddMoney!Verified(r) PROVE OrdersInv'
  BY <1>17 DEF AddMoney!Verified, AddMoney!Enable, AddMoney!ToDashboard
<1>18. ASSUME NEW k \in AddMoney!Keys, AddMoney!Settle(k) PROVE OrdersInv'
  BY <1>18 DEF AddMoney!Settle
<1>19. ASSUME AddMoney!Open PROVE OrdersInv'
  BY <1>19 DEF AddMoney!Open
<1>20. ASSUME AddMoney!MethodsShown PROVE OrdersInv'
  BY <1>20 DEF AddMoney!MethodsShown, AddMoney!Enabled
<1>21. ASSUME AddMoney!Leave PROVE OrdersInv'
  BY <1>21 DEF AddMoney!Leave, AddMoney!Leaves
<1>22. CASE UNCHANGED AddMoney!vars
  BY <1>22 DEF AddMoney!vars
<1> HIDE DEF AddMoney!TypeOK, AddMoney!OneTopUpPerVisit, OrdersInv, AnswersInv, CommitInv,
        AloneInv, CreditInv, AddMoneyInv
<1> QED
  BY <1>1, <1>2, <1>3, <1>4, <1>5, <1>6, <1>7, <1>8, <1>9, <1>10, <1>11, <1>12, <1>13, <1>14,
     <1>15, <1>16, <1>17, <1>18, <1>19, <1>20, <1>21, <1>22, <1>23
     DEF AddMoney!Next, AddMoney!Step, AddMoney!Browse

\* Every step keeps the answers true: a document that was answered from is
\* not written over.
LEMMA AnswersStep ==
    ASSUME AddMoney!AddMoneyAssumption, AddMoneyInv, [AddMoney!Next]_AddMoney!vars
    PROVE  AnswersInv'
<1> USE DEF AddMoneyInv, AddMoney!TypeOK, AnswersInv, OrdersInv, CommitInv,
        AddMoney!AnswersAreTrue, AddMoney!Taken, AddMoney!Status, AddMoney!HoldsKey,
        AddMoney!InSession, AddMoney!Handled, AddMoney!Points, AddMoney!AddMoneyAssumption,
        AddMoney!Keys, AddMoney!At, AddMoney!Goto, AddMoney!Backend, AddMoney!dataVars,
        AddMoney!attemptVars, AddMoney!pageVars
<1>1. ASSUME NEW r \in Requests, AddMoney!SendDirectly(r) PROVE AnswersInv'
  BY <1>1 DEF AddMoney!SendDirectly, AddMoney!Send
<1>2. ASSUME NEW r \in Requests, AddMoney!Find(r) PROVE AnswersInv'
  <2>1. PICK p \in AddMoney!Points, o \in TopUpAnswers : FindEffect(r, p, o)
    BY <1>2, FindCases
  <2> QED
    BY <2>1 DEF FindEffect, Turn, Writes, TopUpAnswers
<1>3. ASSUME NEW r \in Requests, AddMoney!Begin(r) PROVE AnswersInv'
  BY <1>3 DEF AddMoney!Begin, AddMoney!Mock, AddMoney!FallBack
<1>4. ASSUME NEW r \in Requests, AddMoney!Credit(r) PROVE AnswersInv'
  <2>1. PICK p \in AddMoney!Points, o \in TopUpAnswers : CreditEffect(r, p, o)
    BY <1>4, CreditCases
  <2> QED
    BY <2>1 DEF CreditEffect, Turn, Writes, TopUpAnswers
<1>5. ASSUME NEW r \in Requests, AddMoney!Record(r) PROVE AnswersInv'
  <2>1. PICK p \in AddMoney!Points, o \in TopUpAnswers : RecordEffect(r, p, o)
    BY <1>5, RecordCases
  <2>2. /\ point'[r] = p /\ answer'[r] = o
        /\ \A q \in Requests \ {r} : point'[q] = point[q] /\ answer'[q] = answer[q]
    BY <2>1, Turned DEF RecordEffect
  <2>3. /\ UNCHANGED <<key, order>> /\ p \in {"reply", "begin", "commit"} /\ answer[r] = "none"
        /\ (o \in {"added", "error"} /\ p = "reply") \/ o = "none"
    BY <2>1 DEF RecordEffect
  <2>4. CASE UNCHANGED doc /\ o # "added"
    BY <2>2, <2>3, <2>4
  <2>5. CASE ~AddMoney!Taken(key[r]) /\ Writes(r, "SUCCESS", AddMoney!NoOrder)
    <3>1. \A q \in Requests : key[q] = key[r] => answer[q] \notin {"added", "already", "order"}
      BY <2>5
    <3>2. doc'[key[r]].status = "SUCCESS" /\ \A k \in AddMoney!Keys \ {key[r]} : doc'[k] = doc[k]
      BY <2>5 DEF Writes
    <3>7. /\ answer'[r] = "added" => doc'[key[r]].status = "SUCCESS"
          /\ answer'[r] \notin {"already", "order"}
          /\ answer'[r] # "none" => point'[r] = "reply"
      BY <2>2, <2>3, <3>2
    <3>8. ASSUME NEW q \in Requests \ {r}
          PROVE  /\ answer'[q] \in {"added", "already"} => doc'[key[q]].status = "SUCCESS"
                 /\ answer'[q] = "order" => /\ doc'[key[q]].order = order[q]
                                            /\ doc'[key[q]].status # "absent"
                 /\ answer'[q] # "none" => point'[q] \in {"reply", "checkout", "verify", "over"}
      <4>1. CASE key[q] = key[r]
        BY <2>2, <3>1, <4>1
      <4>2. CASE key[q] # key[r]
        <5>1. key[q] \in AddMoney!Keys /\ doc'[key[q]] = doc[key[q]]
          BY <3>2, <4>2
        <5> QED
          BY <2>2, <5>1
      <4> QED
        BY <4>1, <4>2
    <3> QED
      BY <2>3, <3>7, <3>8
  <2> QED
    BY <2>1, <2>4, <2>5 DEF RecordEffect
<1>6. ASSUME NEW r \in Requests, AddMoney!Commit(r) PROVE AnswersInv'
  <2>1. PICK p \in AddMoney!Points, o \in TopUpAnswers : CommitEffect(r, p, o)
    BY <1>6, CommitCases
  <2>2. /\ point'[r] = p /\ answer'[r] = o
        /\ \A q \in Requests \ {r} : point'[q] = point[q] /\ answer'[q] = answer[q]
    BY <2>1, Turned DEF CommitEffect
  <2>3. /\ UNCHANGED <<key, order>> /\ p \in {"reply", "begin"}
        /\ (o \in {"added", "error"} /\ p = "reply") \/ (p = "begin" /\ o = answer[r])
    BY <2>1 DEF CommitEffect
  <2>4. /\ doc'[key[r]].status = "SUCCESS" /\ ~AddMoney!Taken(key[r])
        /\ \A k \in AddMoney!Keys \ {key[r]} : doc'[k] = doc[k]
    BY <2>1 DEF CommitEffect, Writes
  <2>5. answer[r] = "none"
    BY <2>1 DEF CommitEffect
  <2>6. \A q \in Requests : key[q] = key[r] => answer[q] \notin {"added", "already", "order"}
    BY <2>4
  <2>7. /\ answer'[r] = "added" => doc'[key[r]].status = "SUCCESS"
        /\ answer'[r] \notin {"already", "order"} /\ (answer'[r] # "none" => point'[r] = "reply")
    <3> HIDE DEF AddMoneyInv, AnswersInv, AddMoney!TypeOK
    <3> QED
      BY <2>2, <2>3, <2>4, <2>5
  <2>8. ASSUME NEW q \in Requests \ {r}
        PROVE  /\ answer'[q] \in {"added", "already"} => doc'[key[q]].status = "SUCCESS"
               /\ answer'[q] = "order" => /\ doc'[key[q]].order = order[q]
                                          /\ doc'[key[q]].status # "absent"
               /\ answer'[q] # "none" => point'[q] \in {"reply", "checkout", "verify", "over"}
    <3>1. CASE key[q] = key[r]
      BY <2>2, <2>6, <3>1
    <3>2. CASE key[q] # key[r]
      <4>1. key[q] \in AddMoney!Keys /\ doc'[key[q]] = doc[key[q]]
        BY <2>4, <3>2
      <4> QED
        BY <2>2, <4>1
    <3> QED
      BY <3>1, <3>2
  <2> QED
    BY <2>3, <2>7, <2>8
<1>7. ASSUME NEW r \in Requests, AddMoney!CreateOrder(r) PROVE AnswersInv'
  BY <1>7 DEF AddMoney!CreateOrder
<1>8. ASSUME NEW r \in Requests, AddMoney!RecordOrder(r) PROVE AnswersInv'
  <2>1. PICK p \in AddMoney!Points, o \in TopUpAnswers : OrderEffect(r, p, o)
    BY <1>8, OrderCases
  <2>2. /\ point'[r] = p /\ answer'[r] = o
        /\ \A q \in Requests \ {r} : point'[q] = point[q] /\ answer'[q] = answer[q]
    BY <2>1, Turned DEF OrderEffect
  <2>3. UNCHANGED <<key, order>> /\ p = "reply" /\ answer[r] = "none"
    BY <2>1 DEF OrderEffect
  <2>4. CASE UNCHANGED doc /\ o = "error"
    <3>1. answer'[r] = "error" /\ point'[r] = "reply"
      BY <2>2, <2>3, <2>4
    <3>2. \A q \in Requests \ {r} : /\ point'[q] = point[q] /\ answer'[q] = answer[q]
                                    /\ AddMoney!Status(q)' = AddMoney!Status(q)
      BY <2>2, <2>3, <2>4
    <3> QED
      BY <2>3, <2>4, <3>1, <3>2
  <2>5. CASE ~AddMoney!Taken(key[r]) /\ o = "order" /\ Writes(r, "PENDING", order[r])
    <3>1. \A q \in Requests : key[q] = key[r] => answer[q] \notin {"added", "already", "order"}
      BY <2>5
    <3>2. /\ doc'[key[r]].status = "PENDING" /\ doc'[key[r]].order = order[r]
          /\ \A k \in AddMoney!Keys \ {key[r]} : doc'[k] = doc[k]
      BY <2>5 DEF Writes
    <3>7. /\ answer'[r] = "added" => doc'[key[r]].status = "SUCCESS"
          /\ answer'[r] \notin {"already", "added"}
          /\ answer'[r] # "none" => point'[r] = "reply"
          /\ answer'[r] = "order" => /\ doc'[key[r]].order = order[r]
                                     /\ doc'[key[r]].status # "absent"
      BY <2>2, <2>3, <3>2, <2>5
    <3>8. ASSUME NEW q \in Requests \ {r}
          PROVE  /\ answer'[q] \in {"added", "already"} => doc'[key[q]].status = "SUCCESS"
                 /\ answer'[q] = "order" => /\ doc'[key[q]].order = order[q]
                                            /\ doc'[key[q]].status # "absent"
                 /\ answer'[q] # "none" => point'[q] \in {"reply", "checkout", "verify", "over"}
      <4>1. CASE key[q] = key[r]
        BY <2>2, <3>1, <4>1
      <4>2. CASE key[q] # key[r]
        <5>1. key[q] \in AddMoney!Keys /\ doc'[key[q]] = doc[key[q]]
          BY <3>2, <4>2
        <5> QED
          BY <2>2, <5>1
      <4> QED
        BY <4>1, <4>2
    <3> QED
      BY <2>3, <3>7, <3>8
  <2> QED
    BY <2>1, <2>4, <2>5 DEF OrderEffect
<1>9. ASSUME NEW r \in Requests, AddMoney!Fail(r) PROVE AnswersInv'
  BY <1>9 DEF AddMoney!Fail, AddMoney!FallBack, AddMoney!Reply, AddMoney!Cross
<1>10. ASSUME NEW r \in Requests, AddMoney!CommitUnheard(r) PROVE AnswersInv'
  <2>1. PICK p \in AddMoney!Points, o \in TopUpAnswers : CommitEffect(r, p, o)
    BY <1>10, CommitCases
  <2>2. /\ point'[r] = p /\ answer'[r] = o
        /\ \A q \in Requests \ {r} : point'[q] = point[q] /\ answer'[q] = answer[q]
    BY <2>1, Turned DEF CommitEffect
  <2>3. /\ UNCHANGED <<key, order>> /\ p \in {"reply", "begin"}
        /\ (o \in {"added", "error"} /\ p = "reply") \/ (p = "begin" /\ o = answer[r])
    BY <2>1 DEF CommitEffect
  <2>4. /\ doc'[key[r]].status = "SUCCESS" /\ ~AddMoney!Taken(key[r])
        /\ \A k \in AddMoney!Keys \ {key[r]} : doc'[k] = doc[k]
    BY <2>1 DEF CommitEffect, Writes
  <2>5. answer[r] = "none"
    BY <2>1 DEF CommitEffect
  <2>6. \A q \in Requests : key[q] = key[r] => answer[q] \notin {"added", "already", "order"}
    BY <2>4
  <2>7. /\ answer'[r] = "added" => doc'[key[r]].status = "SUCCESS"
        /\ answer'[r] \notin {"already", "order"} /\ (answer'[r] # "none" => point'[r] = "reply")
    <3> HIDE DEF AddMoneyInv, AnswersInv, AddMoney!TypeOK
    <3> QED
      BY <2>2, <2>3, <2>4, <2>5
  <2>8. ASSUME NEW q \in Requests \ {r}
        PROVE  /\ answer'[q] \in {"added", "already"} => doc'[key[q]].status = "SUCCESS"
               /\ answer'[q] = "order" => /\ doc'[key[q]].order = order[q]
                                          /\ doc'[key[q]].status # "absent"
               /\ answer'[q] # "none" => point'[q] \in {"reply", "checkout", "verify", "over"}
    <3>1. CASE key[q] = key[r]
      BY <2>2, <2>6, <3>1
    <3>2. CASE key[q] # key[r]
      <4>1. key[q] \in AddMoney!Keys /\ doc'[key[q]] = doc[key[q]]
        BY <2>4, <3>2
      <4> QED
        BY <2>2, <4>1
    <3> QED
      BY <3>1, <3>2
  <2> QED
    BY <2>3, <2>7, <2>8
<1>11. ASSUME NEW r \in Requests, AddMoney!Submit(r) PROVE AnswersInv'
  BY <1>11 DEF AddMoney!Submit, AddMoney!Send
<1>12. ASSUME NEW r \in Requests, AddMoney!OpenCheckout(r) PROVE AnswersInv'
  BY <1>12 DEF AddMoney!OpenCheckout
<1>13. ASSUME NEW r \in Requests, AddMoney!ShowAdded(r) PROVE AnswersInv'
  BY <1>13 DEF AddMoney!ShowAdded, AddMoney!ToDashboard
<1>14. ASSUME NEW r \in Requests, AddMoney!ShowError(r) PROVE AnswersInv'
  BY <1>14 DEF AddMoney!ShowError, AddMoney!Enable
<1>23. ASSUME NEW r \in Requests, AddMoney!TimeOut(r) PROVE AnswersInv'
  BY <1>23 DEF AddMoney!TimeOut, AddMoney!Enable
<1>15. ASSUME NEW r \in Requests, AddMoney!Pay(r) PROVE AnswersInv'
  BY <1>15 DEF AddMoney!Pay
<1>16. ASSUME NEW r \in Requests, AddMoney!Dismiss(r) PROVE AnswersInv'
  BY <1>16 DEF AddMoney!Dismiss, AddMoney!Enable
<1>17. ASSUME NEW r \in Requests, AddMoney!Verified(r) PROVE AnswersInv'
  BY <1>17 DEF AddMoney!Verified, AddMoney!Enable, AddMoney!ToDashboard
<1>18. ASSUME NEW k \in AddMoney!Keys, AddMoney!Settle(k) PROVE AnswersInv'
  BY <1>18 DEF AddMoney!Settle
<1>19. ASSUME AddMoney!Open PROVE AnswersInv'
  BY <1>19 DEF AddMoney!Open
<1>20. ASSUME AddMoney!MethodsShown PROVE AnswersInv'
  BY <1>20 DEF AddMoney!MethodsShown, AddMoney!Enabled
<1>21. ASSUME AddMoney!Leave PROVE AnswersInv'
  BY <1>21 DEF AddMoney!Leave, AddMoney!Leaves
<1>22. CASE UNCHANGED AddMoney!vars
  BY <1>22 DEF AddMoney!vars
<1> HIDE DEF AddMoney!TypeOK, AddMoney!OneTopUpPerVisit, OrdersInv, AnswersInv, CommitInv,
        AloneInv, CreditInv, AddMoneyInv
<1> QED
  BY <1>1, <1>2, <1>3, <1>4, <1>5, <1>6, <1>7, <1>8, <1>9, <1>10, <1>11, <1>12, <1>13, <1>14,
     <1>15, <1>16, <1>17, <1>18, <1>19, <1>20, <1>21, <1>22, <1>23
     DEF AddMoney!Next, AddMoney!Step, AddMoney!Browse

\* Every step keeps the keys of transactions that are about to commit.
LEMMA CommitStep ==
    ASSUME AddMoney!AddMoneyAssumption, AddMoneyInv, [AddMoney!Next]_AddMoney!vars
    PROVE  CommitInv'
<1> USE DEF AddMoneyInv, AddMoney!TypeOK, CommitInv, AddMoney!Taken, AddMoney!HoldsKey,
        AddMoney!InSession, AddMoney!Handled, AddMoney!Points, AddMoney!AddMoneyAssumption,
        AddMoney!Keys, AddMoney!At, AddMoney!Goto, AddMoney!Backend, AddMoney!dataVars,
        AddMoney!attemptVars, AddMoney!pageVars
<1>1. ASSUME NEW r \in Requests, AddMoney!SendDirectly(r) PROVE CommitInv'
  BY <1>1 DEF AddMoney!SendDirectly, AddMoney!Send
<1>2. ASSUME NEW r \in Requests, AddMoney!Find(r) PROVE CommitInv'
  <2>1. PICK p \in AddMoney!Points, o \in TopUpAnswers : FindEffect(r, p, o)
    BY <1>2, FindCases
  <2> QED
    BY <2>1 DEF FindEffect, Turn, Writes, TopUpAnswers
<1>3. ASSUME NEW r \in Requests, AddMoney!Begin(r) PROVE CommitInv'
  BY <1>3 DEF AddMoney!Begin, AddMoney!Mock, AddMoney!FallBack
<1>4. ASSUME NEW r \in Requests, AddMoney!Credit(r) PROVE CommitInv'
  <2>1. PICK p \in AddMoney!Points, o \in TopUpAnswers : CreditEffect(r, p, o)
    BY <1>4, CreditCases
  <2> QED
    BY <2>1 DEF CreditEffect, Turn, Writes, TopUpAnswers
<1>5. ASSUME NEW r \in Requests, AddMoney!Record(r) PROVE CommitInv'
  <2>1. PICK p \in AddMoney!Points, o \in TopUpAnswers : RecordEffect(r, p, o)
    BY <1>5, RecordCases
  <2>2. /\ point'[r] = p /\ answer'[r] = o
        /\ \A q \in Requests \ {r} : point'[q] = point[q] /\ answer'[q] = answer[q]
    BY <2>1, Turned DEF RecordEffect
  <2>3. UNCHANGED key
    BY <2>1 DEF RecordEffect
  <2>4. CASE UNCHANGED <<doc, plain>> /\ p # "commit"
    BY <2>2, <2>3, <2>4
  <2>5. CASE UNCHANGED doc /\ plain' = plain \cup {r} /\ p = "begin"
    BY <2>2, <2>3, <2>5
  <2>6. CASE /\ ~AddMoney!Taken(key[r]) /\ r \in plain /\ p = "reply"
             /\ Writes(r, "SUCCESS", AddMoney!NoOrder) /\ UNCHANGED plain
    <3>1. \A k \in AddMoney!Keys \ {key[r]} : doc'[k] = doc[k]
      BY <2>6 DEF Writes
    <3>2. ASSUME NEW q \in Requests, point'[q] = "commit"
          PROVE  q # r /\ key[q] # key[r]
      <4>1. q # r /\ point[q] = "commit"
        BY <2>2, <2>6, <3>2
      <4>2. q \notin plain
        BY <4>1
      <4>3. AddMoney!HoldsKey(key[r]) = {}
        BY <2>1 DEF RecordEffect
      <4> QED
        BY <4>1, <4>2, <4>3
    <3>3. \A q \in Requests : point'[q] = "commit" =>
              point[q] = "commit" /\ doc'[key[q]] = doc[key[q]]
      BY <2>2, <3>1, <3>2
    <3> QED
      BY <2>3, <2>6, <3>2, <3>3
  <2>7. CASE /\ ~AddMoney!Taken(key[r]) /\ r \notin plain
             /\ p = "commit" /\ UNCHANGED <<doc, plain>>
    <3>1. ASSUME NEW q \in Requests \ {r}, point[q] = "commit"
          PROVE  q \notin plain /\ key[q] # key[r]
      <4>1. q \notin plain
        BY <3>1
      <4>2. AddMoney!HoldsKey(key[r]) = {}
        BY <2>1 DEF RecordEffect
      <4> QED
        BY <3>1, <4>1, <4>2
    <3>2. \A q \in Requests \ {r} : point'[q] = "commit" => point[q] = "commit"
      BY <2>2
    <3>3. \A q \in Requests : point[q] = "commit" =>
              /\ q \notin plain /\ ~AddMoney!Taken(key[q])
              /\ \A u \in Requests : point[u] = "commit" /\ key[u] = key[q] => u = q
      OBVIOUS
    <3>4. ~AddMoney!Taken(key[r]) /\ r \notin plain /\ UNCHANGED <<doc, plain, key>>
      BY <2>3, <2>7
    <3> HIDE DEF AddMoneyInv, AddMoney!TypeOK, AddMoney!HoldsKey
    <3> QED
      BY <3>1, <3>2, <3>3, <3>4
  <2> QED
    BY <2>1, <2>4, <2>5, <2>6, <2>7 DEF RecordEffect
<1>6. ASSUME NEW r \in Requests, AddMoney!Commit(r) PROVE CommitInv'
  <2>1. PICK p \in AddMoney!Points, o \in TopUpAnswers : CommitEffect(r, p, o)
    BY <1>6, CommitCases
  <2> QED
    BY <2>1 DEF CommitEffect, Turn, Writes, TopUpAnswers
<1>7. ASSUME NEW r \in Requests, AddMoney!CreateOrder(r) PROVE CommitInv'
  BY <1>7 DEF AddMoney!CreateOrder
<1>8. ASSUME NEW r \in Requests, AddMoney!RecordOrder(r) PROVE CommitInv'
  <2>1. PICK p \in AddMoney!Points, o \in TopUpAnswers : OrderEffect(r, p, o)
    BY <1>8, OrderCases
  <2> QED
    BY <2>1 DEF OrderEffect, Turn, Writes, TopUpAnswers
<1>9. ASSUME NEW r \in Requests, AddMoney!Fail(r) PROVE CommitInv'
  BY <1>9 DEF AddMoney!Fail, AddMoney!FallBack, AddMoney!Reply, AddMoney!Cross
<1>10. ASSUME NEW r \in Requests, AddMoney!CommitUnheard(r) PROVE CommitInv'
  <2>1. PICK p \in AddMoney!Points, o \in TopUpAnswers : CommitEffect(r, p, o)
    BY <1>10, CommitCases
  <2> QED
    BY <2>1 DEF CommitEffect, Turn, Writes, TopUpAnswers
<1>11. ASSUME NEW r \in Requests, AddMoney!Submit(r) PROVE CommitInv'
  BY <1>11 DEF AddMoney!Submit, AddMoney!Send
<1>12. ASSUME NEW r \in Requests, AddMoney!OpenCheckout(r) PROVE CommitInv'
  BY <1>12 DEF AddMoney!OpenCheckout
<1>13. ASSUME NEW r \in Requests, AddMoney!ShowAdded(r) PROVE CommitInv'
  BY <1>13 DEF AddMoney!ShowAdded, AddMoney!ToDashboard
<1>14. ASSUME NEW r \in Requests, AddMoney!ShowError(r) PROVE CommitInv'
  BY <1>14 DEF AddMoney!ShowError, AddMoney!Enable
<1>23. ASSUME NEW r \in Requests, AddMoney!TimeOut(r) PROVE CommitInv'
  BY <1>23 DEF AddMoney!TimeOut, AddMoney!Enable
<1>15. ASSUME NEW r \in Requests, AddMoney!Pay(r) PROVE CommitInv'
  BY <1>15 DEF AddMoney!Pay
<1>16. ASSUME NEW r \in Requests, AddMoney!Dismiss(r) PROVE CommitInv'
  BY <1>16 DEF AddMoney!Dismiss, AddMoney!Enable
<1>17. ASSUME NEW r \in Requests, AddMoney!Verified(r) PROVE CommitInv'
  BY <1>17 DEF AddMoney!Verified, AddMoney!Enable, AddMoney!ToDashboard
<1>18. ASSUME NEW k \in AddMoney!Keys, AddMoney!Settle(k) PROVE CommitInv'
  BY <1>18 DEF AddMoney!Settle
<1>19. ASSUME AddMoney!Open PROVE CommitInv'
  BY <1>19 DEF AddMoney!Open
<1>20. ASSUME AddMoney!MethodsShown PROVE CommitInv'
  BY <1>20 DEF AddMoney!MethodsShown, AddMoney!Enabled
<1>21. ASSUME AddMoney!Leave PROVE CommitInv'
  BY <1>21 DEF AddMoney!Leave, AddMoney!Leaves
<1>22. CASE UNCHANGED AddMoney!vars
  BY <1>22 DEF AddMoney!vars
<1> HIDE DEF AddMoney!TypeOK, AddMoney!OneTopUpPerVisit, OrdersInv, AnswersInv, CommitInv,
        AloneInv, CreditInv, AddMoneyInv
<1> QED
  BY <1>1, <1>2, <1>3, <1>4, <1>5, <1>6, <1>7, <1>8, <1>9, <1>10, <1>11, <1>12, <1>13, <1>14,
     <1>15, <1>16, <1>17, <1>18, <1>19, <1>20, <1>21, <1>22, <1>23
     DEF AddMoney!Next, AddMoney!Step, AddMoney!Browse

\* Every step keeps a key for the one that is past its findOne.
LEMMA AloneStep ==
    ASSUME AddMoney!AddMoneyAssumption, AddMoneyInv, [AddMoney!Next]_AddMoney!vars
    PROVE  AloneInv'
<1> USE DEF AddMoneyInv, AddMoney!TypeOK, AloneInv, CommitInv, AddMoney!Taken, AddMoney!Spent,
        AddMoney!Status, Past, AddMoney!Handled, AddMoney!Points, AddMoney!AddMoneyAssumption,
        AddMoney!Keys, AddMoney!At, AddMoney!Goto, AddMoney!Backend, AddMoney!dataVars,
        AddMoney!attemptVars, AddMoney!pageVars
<1>1. ASSUME NEW r \in Requests, AddMoney!SendDirectly(r) PROVE AloneInv'
  BY <1>1 DEF AddMoney!SendDirectly, AddMoney!Send
<1>2. ASSUME NEW r \in Requests, AddMoney!Find(r) PROVE AloneInv'
  <2>1. PICK p \in AddMoney!Points, o \in TopUpAnswers : FindEffect(r, p, o)
    BY <1>2, FindCases
  <2> QED
    BY <2>1 DEF FindEffect, Turn, Writes, TopUpAnswers
<1>3. ASSUME NEW r \in Requests, AddMoney!Begin(r) PROVE AloneInv'
  BY <1>3 DEF AddMoney!Begin, AddMoney!Mock, AddMoney!FallBack
<1>4. ASSUME NEW r \in Requests, AddMoney!Credit(r) PROVE AloneInv'
  <2>1. PICK p \in AddMoney!Points, o \in TopUpAnswers : CreditEffect(r, p, o)
    BY <1>4, CreditCases
  <2> QED
    BY <2>1 DEF CreditEffect, Turn, Writes, TopUpAnswers
<1>5. ASSUME NEW r \in Requests, AddMoney!Record(r) PROVE AloneInv'
  <2>1. PICK p \in AddMoney!Points, o \in TopUpAnswers : RecordEffect(r, p, o)
    BY <1>5, RecordCases
  <2>2. /\ point'[r] = p /\ answer'[r] = o
        /\ \A q \in Requests \ {r} : point'[q] = point[q] /\ answer'[q] = answer[q]
    BY <2>1, Turned DEF RecordEffect
  <2>3. UNCHANGED <<key, crossed>> /\ Past(r)
    BY <2>1 DEF RecordEffect
  <2>4. CASE UNCHANGED doc
    <3>1. \A q \in Requests : Past(q)' => Past(q)
      BY <2>2, <2>3
    <3>2. \A q \in Requests : AddMoney!Taken(key[q])' <=> AddMoney!Taken(key[q])
      BY <2>3, <2>4
    <3> HIDE DEF Past, AddMoney!Taken
    <3> QED
      BY <2>3, <3>1, <3>2
  <2>5. CASE /\ ~AddMoney!Taken(key[r]) /\ r \in plain /\ p = "reply"
             /\ Writes(r, "SUCCESS", AddMoney!NoOrder)
    BY <2>2, <2>3, <2>5 DEF Writes
  <2> QED
    BY <2>1, <2>4, <2>5 DEF RecordEffect
<1>6. ASSUME NEW r \in Requests, AddMoney!Commit(r) PROVE AloneInv'
  <2>1. PICK p \in AddMoney!Points, o \in TopUpAnswers : CommitEffect(r, p, o)
    BY <1>6, CommitCases
  <2> QED
    BY <2>1 DEF CommitEffect, Turn, Writes, TopUpAnswers
<1>7. ASSUME NEW r \in Requests, AddMoney!CreateOrder(r) PROVE AloneInv'
  BY <1>7 DEF AddMoney!CreateOrder
<1>8. ASSUME NEW r \in Requests, AddMoney!RecordOrder(r) PROVE AloneInv'
  <2>1. PICK p \in AddMoney!Points, o \in TopUpAnswers : OrderEffect(r, p, o)
    BY <1>8, OrderCases
  <2> QED
    BY <2>1 DEF OrderEffect, Turn, Writes, TopUpAnswers
<1>9. ASSUME NEW r \in Requests, AddMoney!Fail(r) PROVE AloneInv'
  <2>1. \E p \in {"reply", "begin"} : point' = [point EXCEPT ![r] = p]
    BY <1>9 DEF AddMoney!Fail, AddMoney!FallBack, AddMoney!Reply
  <2>2. UNCHANGED <<doc, key>> /\ crossed \subseteq crossed' /\ (point'[r] = "begin" => Past(r))
    BY <1>9 DEF AddMoney!Fail, AddMoney!FallBack, AddMoney!Reply, AddMoney!Cross
  <2>3. \A q \in Requests : Past(q)' => Past(q)
    BY <2>1, <2>2
  <2> QED
    BY <2>2, <2>3
<1>10. ASSUME NEW r \in Requests, AddMoney!CommitUnheard(r) PROVE AloneInv'
  <2>1. PICK p \in AddMoney!Points, o \in TopUpAnswers : CommitEffect(r, p, o)
    BY <1>10, CommitCases
  <2> QED
    BY <2>1 DEF CommitEffect, Turn, Writes, TopUpAnswers
<1>11. ASSUME NEW r \in Requests, AddMoney!Submit(r) PROVE AloneInv'
  BY <1>11 DEF AddMoney!Submit, AddMoney!Send
<1>12. ASSUME NEW r \in Requests, AddMoney!OpenCheckout(r) PROVE AloneInv'
  BY <1>12 DEF AddMoney!OpenCheckout
<1>13. ASSUME NEW r \in Requests, AddMoney!ShowAdded(r) PROVE AloneInv'
  BY <1>13 DEF AddMoney!ShowAdded, AddMoney!ToDashboard
<1>14. ASSUME NEW r \in Requests, AddMoney!ShowError(r) PROVE AloneInv'
  BY <1>14 DEF AddMoney!ShowError, AddMoney!Enable
<1>23. ASSUME NEW r \in Requests, AddMoney!TimeOut(r) PROVE AloneInv'
  BY <1>23 DEF AddMoney!TimeOut, AddMoney!Enable
<1>15. ASSUME NEW r \in Requests, AddMoney!Pay(r) PROVE AloneInv'
  BY <1>15 DEF AddMoney!Pay
<1>16. ASSUME NEW r \in Requests, AddMoney!Dismiss(r) PROVE AloneInv'
  BY <1>16 DEF AddMoney!Dismiss, AddMoney!Enable
<1>17. ASSUME NEW r \in Requests, AddMoney!Verified(r) PROVE AloneInv'
  BY <1>17 DEF AddMoney!Verified, AddMoney!Enable, AddMoney!ToDashboard
<1>18. ASSUME NEW k \in AddMoney!Keys, AddMoney!Settle(k) PROVE AloneInv'
  BY <1>18 DEF AddMoney!Settle
<1>19. ASSUME AddMoney!Open PROVE AloneInv'
  BY <1>19 DEF AddMoney!Open
<1>20. ASSUME AddMoney!MethodsShown PROVE AloneInv'
  BY <1>20 DEF AddMoney!MethodsShown, AddMoney!Enabled
<1>21. ASSUME AddMoney!Leave PROVE AloneInv'
  BY <1>21 DEF AddMoney!Leave, AddMoney!Leaves
<1>22. CASE UNCHANGED AddMoney!vars
  BY <1>22 DEF AddMoney!vars
<1> HIDE DEF AddMoney!TypeOK, AddMoney!OneTopUpPerVisit, OrdersInv, AnswersInv, CommitInv,
        AloneInv, CreditInv, AddMoneyInv
<1> QED
  BY <1>1, <1>2, <1>3, <1>4, <1>5, <1>6, <1>7, <1>8, <1>9, <1>10, <1>11, <1>12, <1>13, <1>14,
     <1>15, <1>16, <1>17, <1>18, <1>19, <1>20, <1>21, <1>22, <1>23
     DEF AddMoney!Next, AddMoney!Step, AddMoney!Browse

\* Every step keeps credits and records together.
LEMMA CreditStep ==
    ASSUME AddMoney!AddMoneyAssumption, AddMoneyInv, [AddMoney!Next]_AddMoney!vars
    PROVE  CreditInv'
<1> USE DEF AddMoneyInv, AddMoney!TypeOK, CreditInv, AloneInv, CommitInv, OrdersInv,
        AddMoney!Taken, Past, AddMoney!ByMock, AddMoney!Unrecorded, AddMoney!NoOrder,
        AddMoney!Handled, AddMoney!Points, AddMoney!AddMoneyAssumption, AddMoney!Keys,
        AddMoney!At, AddMoney!Goto, AddMoney!Backend, AddMoney!dataVars, AddMoney!attemptVars,
        AddMoney!pageVars
<1>1. ASSUME NEW r \in Requests, AddMoney!SendDirectly(r) PROVE CreditInv'
  BY <1>1 DEF AddMoney!SendDirectly, AddMoney!Send
<1>2. ASSUME NEW r \in Requests, AddMoney!Find(r) PROVE CreditInv'
  <2>1. PICK p \in AddMoney!Points, o \in TopUpAnswers : FindEffect(r, p, o)
    BY <1>2, FindCases
  <2> QED
    BY <2>1 DEF FindEffect, Turn, Writes, TopUpAnswers
<1>3. ASSUME NEW r \in Requests, AddMoney!Begin(r) PROVE CreditInv'
  BY <1>3 DEF AddMoney!Begin, AddMoney!Mock, AddMoney!FallBack
<1>4. ASSUME NEW r \in Requests, AddMoney!Credit(r) PROVE CreditInv'
  <2>1. PICK p \in AddMoney!Points, o \in TopUpAnswers : CreditEffect(r, p, o)
    BY <1>4, CreditCases
  <2>2. /\ point'[r] = p /\ answer'[r] = o
        /\ \A q \in Requests \ {r} : point'[q] = point[q] /\ answer'[q] = answer[q]
    BY <2>1, Turned DEF CreditEffect
  <2>3. /\ UNCHANGED <<doc, key, crossed>> /\ Past(r) /\ point[r] = "credit"
        /\ key[r] \in AddMoney!Keys
        /\ plain \subseteq plain' /\ plain' \subseteq plain \cup {r}
    BY <2>1 DEF CreditEffect
  <2>4. ASSUME NEW q \in Requests \ {r}
        PROVE  q \in plain' /\ point'[q] = "record" <=> q \in plain /\ point[q] = "record"
    BY <2>2, <2>3
  <2>5. CASE /\ r \in plain /\ p = "record" /\ UNCHANGED plain
             /\ credits' = [credits EXCEPT ![key[r]] = credits[key[r]] + 1]
    <3>1. \A k \in AddMoney!Keys \ {key[r]} :
              credits'[k] = credits[k] /\ AddMoney!Unrecorded(k)' = AddMoney!Unrecorded(k)
      BY <2>2, <2>3, <2>4, <2>5
    <3>2. credits'[key[r]] = credits[key[r]] + 1 /\ credits[key[r]] \in Nat
      BY <2>3, <2>5
    <3>3. key[r] \notin crossed => credits[key[r]] = 0 /\ r \in AddMoney!Unrecorded(key[r])'
      <4>1. SUFFICES ASSUME key[r] \notin crossed
                     PROVE  credits[key[r]] = 0 /\ r \in AddMoney!Unrecorded(key[r])'
        OBVIOUS
      <4>2. ~AddMoney!Taken(key[r]) /\ \A q \in Requests : Past(q) /\ key[q] = key[r] => q = r
        BY <2>3, <4>1
      <4>3. AddMoney!Unrecorded(key[r]) = {}
        BY <2>3, <4>2
      <4>4. ~AddMoney!ByMock(key[r])
        BY <4>2
      <4>5. credits[key[r]] = 0
        BY <2>3, <4>1, <4>3, <4>4
      <4> QED
        BY <2>2, <2>3, <2>5, <4>5
    <3>4. \A q \in plain' : point'[q] = "record" /\ q # r => q \in plain /\ point[q] = "record"
      BY <2>4, <2>5
    <3> QED
      BY <2>3, <2>5, <3>1, <3>2, <3>3, <3>4
  <2>6. CASE /\ r \notin plain /\ UNCHANGED credits
             /\ p = "begin" \/ (p = "record" /\ UNCHANGED plain)
    <3>1. \A k \in AddMoney!Keys : AddMoney!Unrecorded(k)' = AddMoney!Unrecorded(k)
      BY <2>2, <2>3, <2>4, <2>6
    <3> QED
      BY <2>2, <2>3, <2>4, <2>6, <3>1
  <2> QED
    BY <2>1, <2>5, <2>6 DEF CreditEffect
<1>5. ASSUME NEW r \in Requests, AddMoney!Record(r) PROVE CreditInv'
  <2>1. PICK p \in AddMoney!Points, o \in TopUpAnswers : RecordEffect(r, p, o)
    BY <1>5, RecordCases
  <2>2. /\ point'[r] = p /\ answer'[r] = o
        /\ \A q \in Requests \ {r} : point'[q] = point[q] /\ answer'[q] = answer[q]
    BY <2>1, Turned DEF RecordEffect
  <2>3. /\ UNCHANGED <<credits, key, crossed>> /\ Past(r) /\ point[r] = "record" /\ p # "record"
        /\ plain \subseteq plain' /\ plain' \subseteq plain \cup {r} /\ key[r] \in AddMoney!Keys
    BY <2>1 DEF RecordEffect
  <2>4. \A k \in AddMoney!Keys : AddMoney!Unrecorded(k)' = AddMoney!Unrecorded(k) \ {r}
    BY <2>2, <2>3
  <2>5. \A q \in plain' : point'[q] = "record" => q \in plain /\ point[q] = "record"
    BY <2>2, <2>3
  <2>6. key[r] \notin crossed =>
            ~AddMoney!Taken(key[r]) /\ AddMoney!Unrecorded(key[r]) \subseteq {r}
    BY <2>3
  <2>7. CASE UNCHANGED doc /\ (r \in plain => AddMoney!Taken(key[r]))
    <3>1. CASE r \in plain
      <4>1. key[r] \in crossed
        BY <2>6, <2>7, <3>1
      <4>2. \A k \in AddMoney!Keys \ {key[r]} : AddMoney!Unrecorded(k)' = AddMoney!Unrecorded(k)
        BY <2>4
      <4> QED
        BY <2>3, <2>5, <2>7, <4>1, <4>2
    <3>2. CASE r \notin plain
      <4>1. \A k \in AddMoney!Keys : AddMoney!Unrecorded(k)' = AddMoney!Unrecorded(k)
        BY <2>4, <3>2
      <4> QED
        BY <2>3, <2>5, <2>7, <4>1
    <3> QED
      BY <3>1, <3>2
  <2>8. CASE /\ ~AddMoney!Taken(key[r]) /\ r \in plain
             /\ Writes(r, "SUCCESS", AddMoney!NoOrder)
    <3>1. \A k \in AddMoney!Keys \ {key[r]} :
              doc'[k] = doc[k] /\ AddMoney!Unrecorded(k)' = AddMoney!Unrecorded(k)
      BY <2>4, <2>8 DEF Writes
    <3>2. AddMoney!ByMock(key[r])' /\ r \in AddMoney!Unrecorded(key[r])
      BY <2>3, <2>8 DEF Writes
    <3> QED
      BY <2>3, <2>5, <2>8, <3>1, <3>2
  <2> QED
    BY <2>1, <2>7, <2>8 DEF RecordEffect
<1>6. ASSUME NEW r \in Requests, AddMoney!Commit(r) PROVE CreditInv'
  <2>1. PICK p \in AddMoney!Points, o \in TopUpAnswers : CommitEffect(r, p, o)
    BY <1>6, CommitCases
  <2>2. /\ point'[r] = p /\ answer'[r] = o
        /\ \A q \in Requests \ {r} : point'[q] = point[q] /\ answer'[q] = answer[q]
    BY <2>1, Turned DEF CommitEffect
  <2>3. /\ UNCHANGED key /\ Past(r) /\ point[r] = "commit" /\ p # "record" /\ r \notin plain
        /\ plain \subseteq plain' /\ plain' \subseteq plain \cup {r} /\ key[r] \in AddMoney!Keys
        /\ crossed \subseteq crossed' /\ ~AddMoney!Taken(key[r])
    BY <2>1 DEF CommitEffect
  <2>4. \A k \in AddMoney!Keys : AddMoney!Unrecorded(k)' = AddMoney!Unrecorded(k)
    BY <2>2, <2>3
  <2>5. \A q \in plain' : point'[q] = "record" => q \in plain /\ point[q] = "record"
    BY <2>2, <2>3
  <2>6. /\ credits'[key[r]] = credits[key[r]] + 1 /\ credits[key[r]] \in Nat
        /\ \A k \in AddMoney!Keys \ {key[r]} : credits'[k] = credits[k] /\ doc'[k] = doc[k]
        /\ AddMoney!ByMock(key[r])'
    BY <2>1 DEF CommitEffect, Writes
  <2>7. key[r] \notin crossed => credits[key[r]] = 0
    <3>1. key[r] \notin crossed => AddMoney!Unrecorded(key[r]) = {}
      BY <2>3
    <3> QED
      BY <2>3, <3>1
  <2>8. \A k \in AddMoney!Keys \ {key[r]} :
            /\ AddMoney!ByMock(k)' => credits'[k] >= 1
            /\ k \notin crossed' =>
                   credits'[k] =
                       (IF AddMoney!ByMock(k)' \/ AddMoney!Unrecorded(k)' # {} THEN 1 ELSE 0)
    BY <2>3, <2>4, <2>6
  <2>9. credits'[key[r]] >= 1 /\ (key[r] \notin crossed' => credits'[key[r]] = 1)
    BY <2>3, <2>6, <2>7
  <2>10. \A q \in plain' : point'[q] = "record" => credits'[key[q]] >= 1
    <3>1. ASSUME NEW q \in plain', point'[q] = "record"
          PROVE  credits[key[q]] >= 1 /\ key[q] \in AddMoney!Keys
      BY <2>5, <3>1
    <3> QED
      BY <2>6, <3>1
  <2> QED
    <3> HIDE DEF AddMoneyInv, AddMoney!TypeOK, AddMoney!ByMock, AddMoney!Unrecorded
    <3> QED
      BY <2>3, <2>6, <2>8, <2>9, <2>10
<1>7. ASSUME NEW r \in Requests, AddMoney!CreateOrder(r) PROVE CreditInv'
  BY <1>7 DEF AddMoney!CreateOrder
<1>8. ASSUME NEW r \in Requests, AddMoney!RecordOrder(r) PROVE CreditInv'
  <2>1. PICK p \in AddMoney!Points, o \in TopUpAnswers : OrderEffect(r, p, o)
    BY <1>8, OrderCases
  <2> QED
    BY <2>1 DEF OrderEffect, Turn, Writes, TopUpAnswers
<1>9. ASSUME NEW r \in Requests, AddMoney!Fail(r) PROVE CreditInv'
  BY <1>9 DEF AddMoney!Fail, AddMoney!FallBack, AddMoney!Reply, AddMoney!Cross
<1>10. ASSUME NEW r \in Requests, AddMoney!CommitUnheard(r) PROVE CreditInv'
  <2>1. PICK p \in AddMoney!Points, o \in TopUpAnswers : CommitEffect(r, p, o)
    BY <1>10, CommitCases
  <2>2. /\ point'[r] = p /\ answer'[r] = o
        /\ \A q \in Requests \ {r} : point'[q] = point[q] /\ answer'[q] = answer[q]
    BY <2>1, Turned DEF CommitEffect
  <2>3. /\ UNCHANGED key /\ Past(r) /\ point[r] = "commit" /\ p # "record" /\ r \notin plain
        /\ plain \subseteq plain' /\ plain' \subseteq plain \cup {r} /\ key[r] \in AddMoney!Keys
        /\ crossed \subseteq crossed' /\ ~AddMoney!Taken(key[r])
    BY <2>1 DEF CommitEffect
  <2>4. \A k \in AddMoney!Keys : AddMoney!Unrecorded(k)' = AddMoney!Unrecorded(k)
    BY <2>2, <2>3
  <2>5. \A q \in plain' : point'[q] = "record" => q \in plain /\ point[q] = "record"
    BY <2>2, <2>3
  <2>6. /\ credits'[key[r]] = credits[key[r]] + 1 /\ credits[key[r]] \in Nat
        /\ \A k \in AddMoney!Keys \ {key[r]} : credits'[k] = credits[k] /\ doc'[k] = doc[k]
        /\ AddMoney!ByMock(key[r])'
    BY <2>1 DEF CommitEffect, Writes
  <2>7. key[r] \notin crossed => credits[key[r]] = 0
    <3>1. key[r] \notin crossed => AddMoney!Unrecorded(key[r]) = {}
      BY <2>3
    <3> QED
      BY <2>3, <3>1
  <2>8. \A k \in AddMoney!Keys \ {key[r]} :
            /\ AddMoney!ByMock(k)' => credits'[k] >= 1
            /\ k \notin crossed' =>
                   credits'[k] =
                       (IF AddMoney!ByMock(k)' \/ AddMoney!Unrecorded(k)' # {} THEN 1 ELSE 0)
    BY <2>3, <2>4, <2>6
  <2>9. credits'[key[r]] >= 1 /\ (key[r] \notin crossed' => credits'[key[r]] = 1)
    BY <2>3, <2>6, <2>7
  <2>10. \A q \in plain' : point'[q] = "record" => credits'[key[q]] >= 1
    <3>1. ASSUME NEW q \in plain', point'[q] = "record"
          PROVE  credits[key[q]] >= 1 /\ key[q] \in AddMoney!Keys
      BY <2>5, <3>1
    <3> QED
      BY <2>6, <3>1
  <2> QED
    <3> HIDE DEF AddMoneyInv, AddMoney!TypeOK, AddMoney!ByMock, AddMoney!Unrecorded
    <3> QED
      BY <2>3, <2>6, <2>8, <2>9, <2>10
<1>11. ASSUME NEW r \in Requests, AddMoney!Submit(r) PROVE CreditInv'
  BY <1>11 DEF AddMoney!Submit, AddMoney!Send
<1>12. ASSUME NEW r \in Requests, AddMoney!OpenCheckout(r) PROVE CreditInv'
  BY <1>12 DEF AddMoney!OpenCheckout
<1>13. ASSUME NEW r \in Requests, AddMoney!ShowAdded(r) PROVE CreditInv'
  BY <1>13 DEF AddMoney!ShowAdded, AddMoney!ToDashboard
<1>14. ASSUME NEW r \in Requests, AddMoney!ShowError(r) PROVE CreditInv'
  BY <1>14 DEF AddMoney!ShowError, AddMoney!Enable
<1>23. ASSUME NEW r \in Requests, AddMoney!TimeOut(r) PROVE CreditInv'
  BY <1>23 DEF AddMoney!TimeOut, AddMoney!Enable
<1>15. ASSUME NEW r \in Requests, AddMoney!Pay(r) PROVE CreditInv'
  BY <1>15 DEF AddMoney!Pay
<1>16. ASSUME NEW r \in Requests, AddMoney!Dismiss(r) PROVE CreditInv'
  BY <1>16 DEF AddMoney!Dismiss, AddMoney!Enable
<1>17. ASSUME NEW r \in Requests, AddMoney!Verified(r) PROVE CreditInv'
  BY <1>17 DEF AddMoney!Verified, AddMoney!Enable, AddMoney!ToDashboard
<1>18. ASSUME NEW k \in AddMoney!Keys, AddMoney!Settle(k) PROVE CreditInv'
  BY <1>18 DEF AddMoney!Settle
<1>19. ASSUME AddMoney!Open PROVE CreditInv'
  BY <1>19 DEF AddMoney!Open
<1>20. ASSUME AddMoney!MethodsShown PROVE CreditInv'
  BY <1>20 DEF AddMoney!MethodsShown, AddMoney!Enabled
<1>21. ASSUME AddMoney!Leave PROVE CreditInv'
  BY <1>21 DEF AddMoney!Leave, AddMoney!Leaves
<1>22. CASE UNCHANGED AddMoney!vars
  BY <1>22 DEF AddMoney!vars
<1> HIDE DEF AddMoney!TypeOK, AddMoney!OneTopUpPerVisit, OrdersInv, AnswersInv, CommitInv,
        AloneInv, CreditInv, AddMoneyInv
<1> QED
  BY <1>1, <1>2, <1>3, <1>4, <1>5, <1>6, <1>7, <1>8, <1>9, <1>10, <1>11, <1>12, <1>13, <1>14,
     <1>15, <1>16, <1>17, <1>18, <1>19, <1>20, <1>21, <1>22, <1>23
     DEF AddMoney!Next, AddMoney!Step, AddMoney!Browse

\* Every step keeps the button for the submit that goes on.
LEMMA VisitStep ==
    ASSUME AddMoney!AddMoneyAssumption, AddMoneyInv, [AddMoney!Next]_AddMoney!vars
    PROVE  AddMoney!OneTopUpPerVisit'
<1> USE DEF AddMoneyInv, AddMoney!TypeOK, AddMoney!OneTopUpPerVisit, AddMoney!UnderWay,
        AddMoney!Sent, AddMoney!Handled, AddMoney!Points, AddMoney!AddMoneyAssumption,
        AddMoney!Keys, AddMoney!At, AddMoney!Goto, AddMoney!Backend, AddMoney!dataVars,
        AddMoney!attemptVars, AddMoney!pageVars
<1>1. ASSUME NEW r \in Requests, AddMoney!SendDirectly(r) PROVE AddMoney!OneTopUpPerVisit'
  BY <1>1 DEF AddMoney!SendDirectly, AddMoney!Send
<1>2. ASSUME NEW r \in Requests, AddMoney!Find(r) PROVE AddMoney!OneTopUpPerVisit'
  <2>1. PICK p \in AddMoney!Points, o \in TopUpAnswers : FindEffect(r, p, o)
    BY <1>2, FindCases
  <2> QED
    BY <2>1 DEF FindEffect, Turn, Writes, TopUpAnswers
<1>3. ASSUME NEW r \in Requests, AddMoney!Begin(r) PROVE AddMoney!OneTopUpPerVisit'
  BY <1>3 DEF AddMoney!Begin, AddMoney!Mock, AddMoney!FallBack
<1>4. ASSUME NEW r \in Requests, AddMoney!Credit(r) PROVE AddMoney!OneTopUpPerVisit'
  <2>1. PICK p \in AddMoney!Points, o \in TopUpAnswers : CreditEffect(r, p, o)
    BY <1>4, CreditCases
  <2> QED
    BY <2>1 DEF CreditEffect, Turn, Writes, TopUpAnswers
<1>5. ASSUME NEW r \in Requests, AddMoney!Record(r) PROVE AddMoney!OneTopUpPerVisit'
  <2>1. PICK p \in AddMoney!Points, o \in TopUpAnswers : RecordEffect(r, p, o)
    BY <1>5, RecordCases
  <2> QED
    BY <2>1 DEF RecordEffect, Turn, Writes, TopUpAnswers
<1>6. ASSUME NEW r \in Requests, AddMoney!Commit(r) PROVE AddMoney!OneTopUpPerVisit'
  <2>1. PICK p \in AddMoney!Points, o \in TopUpAnswers : CommitEffect(r, p, o)
    BY <1>6, CommitCases
  <2> QED
    BY <2>1 DEF CommitEffect, Turn, Writes, TopUpAnswers
<1>7. ASSUME NEW r \in Requests, AddMoney!CreateOrder(r) PROVE AddMoney!OneTopUpPerVisit'
  BY <1>7 DEF AddMoney!CreateOrder
<1>8. ASSUME NEW r \in Requests, AddMoney!RecordOrder(r) PROVE AddMoney!OneTopUpPerVisit'
  <2>1. PICK p \in AddMoney!Points, o \in TopUpAnswers : OrderEffect(r, p, o)
    BY <1>8, OrderCases
  <2> QED
    BY <2>1 DEF OrderEffect, Turn, Writes, TopUpAnswers
<1>9. ASSUME NEW r \in Requests, AddMoney!Fail(r) PROVE AddMoney!OneTopUpPerVisit'
  BY <1>9 DEF AddMoney!Fail, AddMoney!FallBack, AddMoney!Reply, AddMoney!Cross
<1>10. ASSUME NEW r \in Requests, AddMoney!CommitUnheard(r) PROVE AddMoney!OneTopUpPerVisit'
  <2>1. PICK p \in AddMoney!Points, o \in TopUpAnswers : CommitEffect(r, p, o)
    BY <1>10, CommitCases
  <2> QED
    BY <2>1 DEF CommitEffect, Turn, Writes, TopUpAnswers
<1>11. ASSUME NEW r \in Requests, AddMoney!Submit(r) PROVE AddMoney!OneTopUpPerVisit'
  BY <1>11 DEF AddMoney!Submit, AddMoney!Send
<1>12. ASSUME NEW r \in Requests, AddMoney!OpenCheckout(r) PROVE AddMoney!OneTopUpPerVisit'
  BY <1>12 DEF AddMoney!OpenCheckout
<1>13. ASSUME NEW r \in Requests, AddMoney!ShowAdded(r) PROVE AddMoney!OneTopUpPerVisit'
  BY <1>13 DEF AddMoney!ShowAdded, AddMoney!ToDashboard
<1>14. ASSUME NEW r \in Requests, AddMoney!ShowError(r) PROVE AddMoney!OneTopUpPerVisit'
  BY <1>14 DEF AddMoney!ShowError, AddMoney!Enable
<1>23. ASSUME NEW r \in Requests, AddMoney!TimeOut(r) PROVE AddMoney!OneTopUpPerVisit'
  BY <1>23 DEF AddMoney!TimeOut, AddMoney!Enable
<1>15. ASSUME NEW r \in Requests, AddMoney!Pay(r) PROVE AddMoney!OneTopUpPerVisit'
  BY <1>15 DEF AddMoney!Pay
<1>16. ASSUME NEW r \in Requests, AddMoney!Dismiss(r) PROVE AddMoney!OneTopUpPerVisit'
  BY <1>16 DEF AddMoney!Dismiss, AddMoney!Enable
<1>17. ASSUME NEW r \in Requests, AddMoney!Verified(r) PROVE AddMoney!OneTopUpPerVisit'
  BY <1>17 DEF AddMoney!Verified, AddMoney!Enable, AddMoney!ToDashboard
<1>18. ASSUME NEW k \in AddMoney!Keys, AddMoney!Settle(k) PROVE AddMoney!OneTopUpPerVisit'
  BY <1>18 DEF AddMoney!Settle
<1>19. ASSUME AddMoney!Open PROVE AddMoney!OneTopUpPerVisit'
  BY <1>19 DEF AddMoney!Open
<1>20. ASSUME AddMoney!MethodsShown PROVE AddMoney!OneTopUpPerVisit'
  BY <1>20 DEF AddMoney!MethodsShown, AddMoney!Enabled
<1>21. ASSUME AddMoney!Leave PROVE AddMoney!OneTopUpPerVisit'
  BY <1>21 DEF AddMoney!Leave, AddMoney!Leaves
<1>22. CASE UNCHANGED AddMoney!vars
  BY <1>22 DEF AddMoney!vars
<1> HIDE DEF AddMoney!TypeOK, AddMoney!OneTopUpPerVisit, OrdersInv, AnswersInv, CommitInv,
        AloneInv, CreditInv, AddMoneyInv
<1> QED
  BY <1>1, <1>2, <1>3, <1>4, <1>5, <1>6, <1>7, <1>8, <1>9, <1>10, <1>11, <1>12, <1>13, <1>14,
     <1>15, <1>16, <1>17, <1>18, <1>19, <1>20, <1>21, <1>22, <1>23
     DEF AddMoney!Next, AddMoney!Step, AddMoney!Browse

\* Nothing has been topped up to begin with.
LEMMA AddMoneyInit == ASSUME AddMoney!AddMoneyAssumption, AddMoney!Init PROVE AddMoneyInv
<1> USE DEF AddMoney!AddMoneyAssumption, AddMoney!Init, AddMoney!Keys, AddMoney!NoOrder
<1>1. AddMoney!TypeOK
  BY DEF AddMoney!TypeOK, AddMoney!Statuses, AddMoney!Gateways, AddMoney!Points, AddMoney!Orders
<1>2. AddMoney!OneTopUpPerVisit
  BY DEF AddMoney!OneTopUpPerVisit, AddMoney!UnderWay, AddMoney!Sent
<1>3. OrdersInv
  BY DEF OrdersInv
<1>4. AnswersInv
  BY DEF AnswersInv, AddMoney!AnswersAreTrue
<1>5. CommitInv
  BY DEF CommitInv, AddMoney!At
<1>6. AloneInv
  BY DEF AloneInv, Past, AddMoney!Handled
<1>7. CreditInv
  <2>1. \A k \in AddMoney!Keys : ~AddMoney!ByMock(k) /\ AddMoney!Unrecorded(k) = {}
    BY DEF AddMoney!ByMock, AddMoney!Unrecorded
  <2> QED
    BY <2>1 DEF CreditInv
<1> QED
  BY <1>1, <1>2, <1>3, <1>4, <1>5, <1>6, <1>7 DEF AddMoneyInv

\* AddMoneyInv is an invariant.
LEMMA AddMoneyInvariance ==
    ASSUME AddMoney!AddMoneyAssumption
    PROVE  AddMoney!Spec => []AddMoneyInv
<1>1. AddMoney!Init => AddMoneyInv
  BY AddMoneyInit
<1>2. AddMoneyInv /\ [AddMoney!Next]_AddMoney!vars => AddMoneyInv'
  <2> SUFFICES ASSUME AddMoneyInv, [AddMoney!Next]_AddMoney!vars PROVE AddMoneyInv'
    OBVIOUS
  <2>1. AddMoney!TypeOK' /\ OrdersInv' /\ AnswersInv'
    BY AddMoneyTypeStep, OrdersStep, AnswersStep
  <2>2. CommitInv' /\ AloneInv' /\ CreditInv' /\ AddMoney!OneTopUpPerVisit'
    BY CommitStep, AloneStep, CreditStep, VisitStep
  <2> QED
    BY <2>1, <2>2 DEF AddMoneyInv
<1> QED
  BY <1>1, <1>2, PTL DEF AddMoney!Spec

(* The state of AddMoney is that of Transactions, attempts and the page.   *)
THEOREM AddMoneyTypes ==
    ASSUME AddMoney!AddMoneyAssumption
    PROVE  AddMoney!Spec => []AddMoney!TypeOK
<1>1. AddMoneyInv => AddMoney!TypeOK
  BY DEF AddMoneyInv
<1> QED
  BY <1>1, AddMoneyInvariance, PTL

(* A mock payment that is recorded has been credited, and a key that was   *)
(* left undisturbed is credited once and only if it is recorded, however   *)
(* an attempt fails and falls back (paymentController.js:                  *)
(* createMockAddMoneyTransaction).                                         *)
THEOREM MockIsCreditedOnce ==
    ASSUME AddMoney!AddMoneyAssumption
    PROVE  AddMoney!Spec => []CreditMatchesRecord
<1>1. AddMoneyInv => CreditMatchesRecord
  <2>1. /\ AddMoney!Keys = Keys /\ AddMoney!NoOrder = NoOrder
        /\ \A k : (AddMoney!ByMock(k) <=> ByMock(k)) /\ AddMoney!Unrecorded(k) = Unrecorded(k)
    BY DEF AddMoney!Keys, Keys, AddMoney!NoOrder, NoOrder, AddMoney!ByMock, ByMock,
       AddMoney!Unrecorded, Unrecorded
  <2> QED
    BY <2>1 DEF AddMoneyInv, CreditInv, CreditMatchesRecord
<1> QED
  BY <1>1, AddMoneyInvariance, PTL

(* A client is told of success, and given an order to pay, only by the     *)
(* document its key has (paymentController.js: createPaymentOrder).        *)
THEOREM ClientsAreToldTheTruth ==
    ASSUME AddMoney!AddMoneyAssumption
    PROVE  AddMoney!Spec => []AnswersAreTrue
<1>1. AddMoneyInv => AnswersAreTrue
  BY DEF AddMoneyInv, AnswersInv, AnswersAreTrue, Status, AddMoney!AnswersAreTrue,
     AddMoney!Status
<1> QED
  BY <1>1, AddMoneyInvariance, PTL

(* The button stays disabled for the submit whose answer is awaited, and   *)
(* one that the page has given up is never shown (AddMoney.js).            *)
THEOREM OneOrderAtATime ==
    ASSUME AddMoney!AddMoneyAssumption
    PROVE  AddMoney!Spec => []OneTopUpPerVisit
<1>1. AddMoneyInv => OneTopUpPerVisit
  BY DEF AddMoneyInv, OneTopUpPerVisit, UnderWay, Sent, AddMoney!OneTopUpPerVisit,
     AddMoney!UnderWay, AddMoney!Sent
<1> QED
  BY <1>1, AddMoneyInvariance, PTL

\* An order is on at most one document, and one that is about to be recorded
\* is on none and nobody else's.
UniqueInv ==
    /\ \A k, l \in AddMoney!Keys :
        doc[k].order = doc[l].order /\ doc[k].order # AddMoney!NoOrder => k = l
    /\ \A r \in Requests : point[r] = "recordOrder" =>
        /\ \A k \in AddMoney!Keys : doc[k].order # order[r]
        /\ \A q \in Requests : point[q] = "recordOrder" /\ order[q] = order[r] => q = r

\* r has an order made for it.
Makes(r) ==
    /\ order' = [order EXCEPT ![r] = made + 1]
    /\ point' = [point EXCEPT ![r] = "recordOrder"]
    /\ UNCHANGED <<doc, collected>>

\* Nobody comes to record an order.
NoneIsMade ==
    \A q \in Requests :
        point'[q] = "recordOrder" => point[q] = "recordOrder" /\ order'[q] = order[q]

\* r's key gets the document of its order, or that of a mock payment.
Files(r) ==
    /\ point[r] = "recordOrder" /\ point'[r] # "recordOrder" /\ UNCHANGED collected
    /\ ~AddMoney!Taken(key[r]) /\ Writes(r, "PENDING", order[r])
FilesMock(r) ==
    /\ ~AddMoney!Taken(key[r]) /\ Writes(r, "SUCCESS", AddMoney!NoOrder)
    /\ UNCHANGED collected

\* r's order is paid.
IsPaid(r) ==
    /\ point[r] = "checkout" /\ UNCHANGED doc
    /\ collected' = collected \cup {order[r]}

\* All that happens to orders.
OrderMove ==
    \/ \E r \in Requests : Makes(r)
    \/ /\ NoneIsMade
       /\ \/ UNCHANGED <<doc, collected>>
          \/ \E r \in Requests : Files(r) \/ FilesMock(r) \/ IsPaid(r)
          \/ \E k \in AddMoney!Keys : AddMoney!Settle(k)

\* Every step is one of these.
LEMMA OrderMoves ==
    ASSUME AddMoney!AddMoneyAssumption, AddMoneyInv, [AddMoney!Next]_AddMoney!vars
    PROVE  OrderMove
<1> USE DEF AddMoney!At, AddMoney!Goto, AddMoney!Backend, AddMoney!dataVars, NoneIsMade,
        AddMoney!Points
<1> DEFINE Quiet == NoneIsMade /\ UNCHANGED <<doc, collected>>
<1>0. /\ AddMoney!TypeOK
      /\ point \in [Requests -> AddMoney!Points]
      /\ order \in [Requests -> AddMoney!Orders \cup {AddMoney!NoOrder}]
  BY DEF AddMoneyInv, AddMoney!TypeOK
<1>t. ASSUME NEW r \in Requests, NEW p, p # "recordOrder", point' = [point EXCEPT ![r] = p],
             \A q \in Requests \ {r} : order'[q] = order[q]
      PROVE  NoneIsMade
  BY <1>0, <1>t
<1> HIDE DEF NoneIsMade
<1>1. ASSUME NEW r \in Requests, AddMoney!SendDirectly(r) PROVE Quiet
  BY <1>1, <1>t DEF AddMoney!SendDirectly, AddMoney!Send
<1>2. ASSUME NEW r \in Requests, AddMoney!Find(r) PROVE Quiet
  <2>1. PICK p \in AddMoney!Points, o \in TopUpAnswers : FindEffect(r, p, o)
    BY <1>0, <1>2, FindCases
  <2>2. \A q \in Requests \ {r} : order'[q] = order[q]
    BY <1>0, <2>1 DEF FindEffect
  <2>3. UNCHANGED <<doc, collected>> /\ p # "recordOrder" /\ Turn(r, p, o)
    BY <2>1 DEF FindEffect
  <2> QED
    BY <1>t, <2>2, <2>3 DEF Turn
<1>3. ASSUME NEW r \in Requests, AddMoney!Begin(r) PROVE Quiet
  BY <1>3, <1>t DEF AddMoney!Begin, AddMoney!Mock, AddMoney!FallBack
<1>4. ASSUME NEW r \in Requests, AddMoney!Credit(r) PROVE Quiet
  <2>1. PICK p \in AddMoney!Points, o \in TopUpAnswers : CreditEffect(r, p, o)
    BY <1>0, <1>4, CreditCases
  <2> QED
    BY <1>t, <2>1 DEF CreditEffect, Turn
<1>5. ASSUME NEW r \in Requests, AddMoney!Record(r) PROVE NoneIsMade /\ (Quiet \/ FilesMock(r))
  <2>1. PICK p \in AddMoney!Points, o \in TopUpAnswers : RecordEffect(r, p, o)
    BY <1>0, <1>5, RecordCases
  <2> QED
    BY <1>t, <2>1 DEF RecordEffect, Turn, FilesMock
<1>6. ASSUME NEW r \in Requests, AddMoney!Commit(r) \/ AddMoney!CommitUnheard(r)
      PROVE  NoneIsMade /\ FilesMock(r)
  <2>1. PICK p \in AddMoney!Points, o \in TopUpAnswers : CommitEffect(r, p, o)
    BY <1>0, <1>6, CommitCases
  <2>2. ~AddMoney!Taken(key[r])
    BY <2>1 DEF CommitEffect, AddMoneyInv, CommitInv
  <2> QED
    BY <1>t, <2>1, <2>2 DEF CommitEffect, Turn, FilesMock
<1>7. ASSUME NEW r \in Requests, AddMoney!CreateOrder(r) PROVE Makes(r)
  BY <1>7 DEF AddMoney!CreateOrder, Makes
<1>8. ASSUME NEW r \in Requests, AddMoney!RecordOrder(r) PROVE NoneIsMade /\ (Quiet \/ Files(r))
  <2>1. PICK p \in AddMoney!Points, o \in TopUpAnswers : OrderEffect(r, p, o)
    BY <1>0, <1>8, OrderCases
  <2>2. point'[r] = "reply"
    BY <1>0, <2>1, Turned DEF OrderEffect
  <2> QED
    BY <1>t, <2>1, <2>2 DEF OrderEffect, Turn, Files
<1>9. ASSUME NEW r \in Requests, AddMoney!Fail(r) PROVE Quiet
  BY <1>9, <1>t DEF AddMoney!Fail, AddMoney!FallBack, AddMoney!Reply
<1>10. ASSUME NEW r \in Requests, AddMoney!Submit(r) PROVE Quiet
  BY <1>10, <1>t DEF AddMoney!Submit, AddMoney!Send
<1>11. ASSUME NEW r \in Requests,
              \/ AddMoney!OpenCheckout(r) \/ AddMoney!ShowAdded(r) \/ AddMoney!ShowError(r)
              \/ AddMoney!Dismiss(r) \/ AddMoney!Verified(r)
       PROVE  Quiet
  BY <1>11, <1>t DEF AddMoney!OpenCheckout, AddMoney!ShowAdded, AddMoney!ShowError,
     AddMoney!Dismiss, AddMoney!Verified
<1>16. ASSUME NEW r \in Requests, AddMoney!TimeOut(r) PROVE Quiet
  BY <1>16 DEF AddMoney!TimeOut, NoneIsMade
<1>12. ASSUME NEW r \in Requests, AddMoney!Pay(r) PROVE NoneIsMade /\ IsPaid(r)
  BY <1>12, <1>t DEF AddMoney!Pay, IsPaid
<1>13. ASSUME NEW k \in AddMoney!Keys, AddMoney!Settle(k) PROVE NoneIsMade
  BY <1>13 DEF AddMoney!Settle, NoneIsMade
<1>14. CASE AddMoney!Open \/ AddMoney!MethodsShown \/ AddMoney!Leave \/ UNCHANGED AddMoney!vars
  BY <1>14 DEF AddMoney!Open, AddMoney!MethodsShown, AddMoney!Leave, AddMoney!vars, OrderMove,
     NoneIsMade
<1>15. ASSUME Quiet PROVE OrderMove
  BY <1>15 DEF OrderMove
<1> HIDE DEF Quiet
<1> QED
  BY <1>1, <1>2, <1>3, <1>4, <1>5, <1>6, <1>7, <1>8, <1>9, <1>10, <1>11, <1>12, <1>13, <1>14,
     <1>15, <1>16 DEF OrderMove, AddMoney!Next, AddMoney!Step, AddMoney!Browse

\* No order gets on a second document.
LEMMA UniqueStep ==
    ASSUME AddMoney!AddMoneyAssumption, AddMoneyInv, UniqueInv, [AddMoney!Next]_AddMoney!vars
    PROVE  UniqueInv'
<1>1. /\ \A r \in Requests : key[r] \in AddMoney!Keys
      /\ \A k \in AddMoney!Keys : doc[k] \in Documents
      /\ doc \in [AddMoney!Keys -> Documents]
      /\ point \in [Requests -> AddMoney!Points]
      /\ order \in [Requests -> AddMoney!Orders \cup {AddMoney!NoOrder}]
      /\ made \in Nat
  BY DEF AddMoneyInv, AddMoney!TypeOK, Documents, AddMoney!Orders, AddMoney!NoOrder
<1>2. /\ \A k \in AddMoney!Keys : doc[k].order <= made
      /\ \A r \in Requests : order[r] <= made
  BY DEF AddMoneyInv, OrdersInv
<1>3. ASSUME NEW r \in Requests, Makes(r) PROVE UniqueInv'
  <2>1. /\ order'[r] = made + 1 /\ UNCHANGED doc
        /\ \A q \in Requests \ {r} : order'[q] = order[q] /\ point'[q] = point[q]
    BY <1>1, <1>3 DEF Makes
  <2>2. /\ \A k \in AddMoney!Keys : doc[k].order # order'[r]
        /\ \A q \in Requests \ {r} : order'[q] # order'[r]
    <3>1. \A k \in AddMoney!Keys : doc[k].order \in Nat
      BY <1>1 DEF Documents, AddMoney!Orders, AddMoney!NoOrder
    <3>2. \A q \in Requests : order[q] \in Nat
      BY <1>1 DEF AddMoney!Orders, AddMoney!NoOrder
    <3> QED
      BY <1>1, <1>2, <2>1, <3>1, <3>2
  <2> QED
    BY <2>1, <2>2 DEF UniqueInv
<1>4. CASE NoneIsMade /\ UNCHANGED doc
  BY <1>4 DEF NoneIsMade, UniqueInv
<1>5. ASSUME NoneIsMade, NEW r \in Requests, Files(r) PROVE UniqueInv'
  <2>1. /\ doc'[key[r]].order = order[r]
        /\ \A k \in AddMoney!Keys \ {key[r]} : doc'[k] = doc[k]
        /\ point[r] = "recordOrder" /\ point'[r] # "recordOrder"
    BY <1>5 DEF Files, Writes
  <2>2. /\ \A k \in AddMoney!Keys : doc[k].order # order[r]
        /\ \A q \in Requests : point[q] = "recordOrder" /\ order[q] = order[r] => q = r
    BY <2>1 DEF UniqueInv
  <2> QED
    BY <1>5, <2>1, <2>2 DEF NoneIsMade, UniqueInv
<1>6. ASSUME NoneIsMade, NEW r \in Requests, FilesMock(r) PROVE UniqueInv'
  <2>1. /\ doc'[key[r]].order = AddMoney!NoOrder
        /\ \A k \in AddMoney!Keys \ {key[r]} : doc'[k] = doc[k]
    BY <1>6 DEF FilesMock, Writes
  <2>2. \A q \in Requests : point[q] = "recordOrder" => order[q] # AddMoney!NoOrder
    BY DEF AddMoneyInv, OrdersInv
  <2> QED
    BY <1>6, <2>1, <2>2 DEF NoneIsMade, UniqueInv
<1>7. ASSUME NoneIsMade, NEW k \in AddMoney!Keys, AddMoney!Settle(k) PROVE UniqueInv'
  <2>1. \A l \in AddMoney!Keys : doc'[l].order = doc[l].order
    BY <1>1, <1>7 DEF AddMoney!Settle, Documents
  <2> QED
    BY <1>7, <2>1 DEF NoneIsMade, UniqueInv
<1> QED
  BY <1>3, <1>4, <1>5, <1>6, <1>7, OrderMoves DEF OrderMove, IsPaid

\* A step of AddMoney is a step of OrderBook, or none.
LEMMA TopUpBookStep ==
    ASSUME AddMoney!AddMoneyAssumption, AddMoneyInv, UniqueInv, [AddMoney!Next]_AddMoney!vars
    PROVE  [TopUps!BookNext]_TopUps!orderVars
<1>1. /\ AddMoney!Keys = Keys /\ AddMoney!NoOrder = NoOrder
      /\ doc \in [Keys -> Documents]
      /\ \A r \in Requests : key[r] \in Keys
  BY DEF AddMoneyInv, AddMoney!TypeOK, Documents, AddMoney!Keys, Keys, AddMoney!NoOrder, NoOrder
<1>2. \A o, s : o \in Filed(s) <=>
                    o # NoOrder /\ \E k \in Keys : doc[k].status = s /\ doc[k].order = o
  BY DEF Filed
<1>3. \A o, s : o \in Filed(s)' <=>
                    o # NoOrder /\ \E k \in Keys : doc'[k].status = s /\ doc'[k].order = o
  BY DEF Filed, Keys, NoOrder
<1>4. \A k, l \in Keys : doc[k].order = doc[l].order /\ doc[k].order # NoOrder => k = l
  BY <1>1 DEF UniqueInv
<1>5. ASSUME UNCHANGED <<doc, collected>> PROVE UNCHANGED TopUps!orderVars
  BY <1>5 DEF TopUps!orderVars, Filed, Keys, NoOrder
<1>6. ASSUME NEW r \in Requests, Files(r) PROVE TopUps!BookNext
  <2>1. /\ order[r] # NoOrder /\ \A k \in Keys : doc[k].order # order[r]
        /\ UNCHANGED collected /\ doc[key[r]].status = "absent"
        /\ doc'[key[r]].status = "PENDING" /\ doc'[key[r]].order = order[r]
        /\ \A k \in Keys \ {key[r]} : doc'[k] = doc[k]
    BY <1>1, <1>6 DEF Files, Writes, AddMoney!Taken, UniqueInv, AddMoneyInv, OrdersInv
  <2>2. Filed("PENDING")' = Filed("PENDING") \cup {order[r]}
    BY <1>1, <1>2, <1>3, <1>6, <2>1
  <2>3. ASSUME NEW s \in {"SUCCESS", "FAILED"} PROVE Filed(s)' = Filed(s)
    <3>1. \A o : \A k \in Keys : doc'[k].status = s /\ doc'[k].order = o <=>
                                  doc[k].status = s /\ doc[k].order = o
      BY <2>1
    <3> QED
      <4>1. \A x : x \in Filed(s)' <=> x \in Filed(s)
        BY <1>2, <1>3, <3>1
      <4> QED
        BY <4>1
  <2>4. order[r] \notin TopUps!OnRecord
    BY <1>2, <2>1 DEF TopUps!OnRecord
  <2> QED
    BY <2>1, <2>2, <2>3, <2>4 DEF TopUps!BookNext, TopUps!Open
<1>7. ASSUME NEW r \in Requests, FilesMock(r) PROVE UNCHANGED TopUps!orderVars
  <2>1. /\ UNCHANGED collected /\ doc[key[r]].status = "absent"
        /\ doc'[key[r]].status = "SUCCESS" /\ doc'[key[r]].order = NoOrder
        /\ \A k \in Keys \ {key[r]} : doc'[k] = doc[k]
    BY <1>1, <1>7 DEF FilesMock, Writes, AddMoney!Taken
  <2>2. ASSUME NEW s \in {"PENDING", "SUCCESS", "FAILED"} PROVE Filed(s)' = Filed(s)
    <3>1. \A o : \A k \in Keys : o # NoOrder =>
              (doc'[k].status = s /\ doc'[k].order = o <=>
                   doc[k].status = s /\ doc[k].order = o)
      BY <2>1
    <3> QED
      <4>1. \A x : x \in Filed(s)' <=> x \in Filed(s)
        BY <1>2, <1>3, <3>1
      <4> QED
        BY <4>1
  <2> QED
    BY <2>1, <2>2 DEF TopUps!orderVars
<1>8. ASSUME NEW r \in Requests, IsPaid(r) PROVE [TopUps!BookNext]_TopUps!orderVars
  <2>1. /\ order[r] # NoOrder /\ doc[key[r]].order = order[r]
        /\ doc[key[r]].status \in {"PENDING", "SUCCESS", "FAILED"}
    <3>1. answer[r] = "order" /\ order[r] # NoOrder
      BY <1>1, <1>8 DEF IsPaid, AddMoneyInv, OrdersInv
    <3>2. doc[key[r]].order = order[r] /\ doc[key[r]].status # "absent"
      BY <3>1 DEF AddMoneyInv, AnswersInv, AddMoney!AnswersAreTrue, AddMoney!Taken
    <3> QED
      BY <1>1, <3>1, <3>2 DEF Documents, AddMoney!Statuses
  <2>2. order[r] \in TopUps!OnRecord
    BY <1>1, <1>2, <2>1 DEF TopUps!OnRecord
  <2>3. \A s : Filed(s)' = Filed(s)
    BY <1>8 DEF IsPaid, Filed, Keys, NoOrder
  <2>4. CASE order[r] \in collected
    BY <1>8, <1>5, <2>4 DEF IsPaid
  <2>5. CASE order[r] \notin collected
    BY <1>8, <2>2, <2>3, <2>5 DEF IsPaid, TopUps!BookNext, TopUps!Capture
  <2> QED
    BY <2>4, <2>5
<1>9. ASSUME NEW k \in Keys, AddMoney!Settle(k) PROVE TopUps!BookNext
  <2> DEFINE o == doc[k].order
  <2>1. PICK s \in {"SUCCESS", "FAILED"} :
            /\ s = "SUCCESS" => o \in collected
            /\ doc[k].status = "PENDING" /\ doc' = [doc EXCEPT ![k].status = s]
            /\ UNCHANGED collected
    BY <1>9 DEF AddMoney!Settle
  <2>2. /\ doc'[k].status = s /\ doc'[k].order = o
        /\ \A l \in Keys \ {k} : doc'[l] = doc[l]
    BY <1>1, <2>1 DEF Documents
  <2>3. o # NoOrder /\ \A l \in Keys \ {k} : doc[l].order # o
    BY <1>1, <1>4, <2>1 DEF AddMoneyInv, OrdersInv
  <2> HIDE DEF o
  <2>4. doc[k].order = o
    BY DEF o
  <2>5. o \in Filed("PENDING") /\ Filed("PENDING")' = Filed("PENDING") \ {o}
    BY <1>2, <1>3, <2>1, <2>2, <2>3, <2>4
  <2>6. Filed(s)' = Filed(s) \cup {o}
    BY <1>2, <1>3, <2>1, <2>2, <2>3, <2>4
  <2>7. ASSUME NEW t \in {"SUCCESS", "FAILED"} \ {s} PROVE Filed(t)' = Filed(t)
    <3>1. \A p : \A l \in Keys : doc'[l].status = t /\ doc'[l].order = p <=>
                                  doc[l].status = t /\ doc[l].order = p
      BY <2>1, <2>2
    <3> QED
      <4>1. \A x : x \in Filed(t)' <=> x \in Filed(t)
        BY <1>2, <1>3, <3>1
      <4> QED
        BY <4>1
  <2>8. CASE s = "SUCCESS"
    BY <2>1, <2>5, <2>6, <2>7, <2>8 DEF TopUps!BookNext, TopUps!Succeed, TopUps!Settled
  <2>9. CASE s = "FAILED"
    BY <2>1, <2>5, <2>6, <2>7, <2>9 DEF TopUps!BookNext, TopUps!Reject, TopUps!Settled
  <2> QED
    BY <2>8, <2>9
<1> QED
  BY <1>1, <1>5, <1>6, <1>7, <1>8, <1>9, OrderMoves DEF OrderMove, Makes

(* Whoever makes, is shown, pays or settles an order of the page, it goes  *)
(* by OrderBook: no two Transactions have the same order, a client pays    *)
(* only what is on record, and no settled order is settled again           *)
(* (paymentController.js: createPaymentOrder).                             *)
THEOREM TopUpsGoByTheBook ==
    ASSUME AddMoney!AddMoneyAssumption
    PROVE  AddMoney!Spec => TopUpsFollowBook
<1>1. AddMoney!Init => UniqueInv
  BY DEF AddMoney!Init, UniqueInv, AddMoney!Keys
<1>2. AddMoney!Init => TopUps!BookInit
  BY DEF AddMoney!Init, AddMoney!Keys, Keys, AddMoney!NoOrder, NoOrder, TopUps!BookInit, Filed
<1>3. AddMoneyInv /\ UniqueInv /\ [AddMoney!Next]_AddMoney!vars => UniqueInv'
  BY UniqueStep
<1>4. AddMoneyInv /\ UniqueInv /\ [AddMoney!Next]_AddMoney!vars =>
          [TopUps!BookNext]_TopUps!orderVars
  BY TopUpBookStep
<1> QED
  BY <1>1, <1>2, <1>3, <1>4, AddMoneyInvariance, PTL
     DEF AddMoney!Spec, TopUpsFollowBook, TopUps!BookSpec
=============================================================================
