--------------------------- MODULE Dispute_proofs ---------------------------
(***************************************************************************)
(* Proofs about Dispute, for every set of users, transfers, requests and   *)
(* reviews.                                                                *)
(*                                                                         *)
(* DisputeInv says who works on what: a reversal belongs to one review,    *)
(* a verdict to one that ended, and outside the excepted disputes a        *)
(* released hold to the only review that ever let go of it.  With it every *)
(* step refunds, claws, holds or releases for one document, or leaves the  *)
(* wallets alone, and so balances and holds stay the sums over the         *)
(* documents.                                                              *)
(***************************************************************************)
EXTENDS Dispute, SumTheorems

\* A review works on a dispute that exists, a raise on a transaction.
WorkIsThere ==
    /\ \A a \in Reviews : pc[a] # "idle" => target[a] \in Exists
    /\ \A r \in Raises : pc[r] \in {"lookup", "create"} => target[r] \in Transactions

CreatedByItsRaise == \A r \in Raises : r \in Exists <=> pc[r] \in {"hold", "done"}

\* The one review of a dispute that has created its reversal.
PaysBack(a) == pc[a] \in {"refund", "claw", "resolve", "resolved"}
OneReversal ==
    /\ \A a \in Reviews : PaysBack(a) => target[a] \in reversals
    /\ \A a, b \in Reviews : PaysBack(a) /\ PaysBack(b) /\ target[a] = target[b] => a = b

\* A verdict on file is that of a review that ended with it.
VerdictIsGiven ==
    /\ \A d \in Exists : \A s \in {"resolved", "rejected"} :
          disputes[d].status = s => \E a \in Reviews : target[a] = d /\ pc[a] = s
    /\ \A a \in Reviews : pc[a] \in {"resolved", "rejected"} => ~Open(target[a])

\* Two reviews at work on one dispute make it overlapped.
AtWork(a) == a \notin dead /\ pc[a] \in Unfinished
OneAtWork ==
    \A a, b \in Reviews :
        AtWork(a) /\ AtWork(b) /\ target[a] = target[b] /\ target[a] \notin overlapped => a = b

\* ... and so nobody closes a dispute under one that is at work,
WorkIsOpen ==
    \A a \in Reviews : AtWork(a) /\ target[a] \notin overlapped => Open(target[a])

\* ... and the hold is released once, if no review follows one that stopped
\* between the release and the verdict.
LetsGo(a) == pc[a] \in HoldGone \cup {"resolved", "rejected"}
NoneFollows ==
    \A a, b \in Reviews :
        /\ AtWork(a) /\ b \in dead /\ pc[b] \in HoldGone
        /\ target[a] = target[b]
        => target[a] \in overlapped \cup retaken
OneRelease ==
    \A a, b \in Reviews :
        /\ LetsGo(a) /\ LetsGo(b) /\ target[a] = target[b]
        /\ target[a] \notin overlapped \cup retaken
        => a = b

WorkInv == WorkIsThere /\ CreatedByItsRaise /\ OneReversal /\ VerdictIsGiven
ReviewInv == OneAtWork /\ WorkIsOpen /\ NoneFollows /\ OneRelease
DisputeInv == TypeOK /\ WorkInv /\ ReviewInv

-----------------------------------------------------------------------------

\* A review at work that has not let go of the hold is the first that will,
\* unless its dispute is excepted.
LEMMA HoldGoneOnce ==
    ASSUME DisputeInv, NEW a \in Reviews, AtWork(a), ~LetsGo(a),
           target[a] \notin overlapped \cup retaken,
           NEW b \in Reviews, LetsGo(b), target[b] = target[a]
    PROVE  FALSE
<1>1. CASE pc[b] \in {"resolved", "rejected"}
  BY <1>1 DEF DisputeInv, WorkInv, ReviewInv, VerdictIsGiven, WorkIsOpen
<1>2. CASE pc[b] \in HoldGone
  BY <1>2 DEF DisputeInv, ReviewInv, OneAtWork, NoneFollows, AtWork, Unfinished, HoldGone
<1> QED
  BY <1>1, <1>2 DEF LetsGo

\* What a dispute may be about, an original transfer or a reversal.
LEMMA TransactionType ==
    ASSUME DisputeInv, NEW t \in Transactions
    PROVE  Transaction(t) \in [from : Users, to : Users, amount : Nat]
  BY DisputeAssumption, NoneIsNoDocument DEF DisputeInv, TypeOK, Transactions,
     Transaction,
     Documents

\* A document on file has its fields.
LEMMA DocumentType ==
    ASSUME DisputeInv, NEW d \in Exists
    PROVE  /\ d \in Raises /\ disputes[d] \in Documents /\ disputes[d].by \in Users
           /\ disputes[d].against \in Users /\ disputes[d].amount \in Nat
  BY DEF DisputeInv, TypeOK, Exists, Documents

\* A review under way works on a document on file.
LEMMA ReviewType ==
    ASSUME DisputeInv, NEW a \in Reviews, pc[a] # "idle"
    PROVE  target[a] \in Exists /\ By(a) \in Users /\ Against(a) \in Users /\ Amount(a) \in Nat
<1>1. target[a] \in Exists
  BY DEF DisputeInv, WorkInv, WorkIsThere
<1> QED
  BY <1>1, DocumentType DEF By, Against, Amount

\* An $inc of one entry, upwards.
LEMMA AddAt ==
    ASSUME NEW S, NEW f \in [S -> Int], NEW u \in S, NEW x \in Int, NEW g,
           g = [f EXCEPT ![u] = @ + x]
    PROVE  /\ g \in [S -> Int] /\ g[u] = f[u] + x /\ \A v \in S \ {u} : g[v] = f[v]
<1>1. f[u] \in Int /\ f[u] + x \in Int
  OBVIOUS
<1> QED
  BY <1>1

\* The same with a minus.
LEMMA TakeAt ==
    ASSUME NEW S, NEW f \in [S -> Int], NEW u \in S, NEW x \in Int, NEW g,
           g = [f EXCEPT ![u] = @ - x]
    PROVE  /\ g \in [S -> Int] /\ g[u] = f[u] - x /\ \A v \in S \ {u} : g[v] = f[v]
<1>1. f[u] \in Int /\ f[u] - x \in Int
  OBVIOUS
<1> QED
  BY <1>1

\* holdEscrow adds the amount to one hold.
LEMMA HoldType ==
    ASSUME DisputeInv, NEW r \in Raises, HoldEscrow(r)
    PROVE  /\ r \in Exists /\ disputes[r].by \in Users /\ disputes[r].amount \in Nat
           /\ escrowHeld' \in [Users -> Int]
           /\ escrowHeld'[disputes[r].by] = escrowHeld[disputes[r].by] + disputes[r].amount
           /\ \A u \in Users \ {disputes[r].by} : escrowHeld'[u] = escrowHeld[u]
<1>1. r \in Exists
  BY DEF HoldEscrow, DisputeInv, WorkInv, CreatedByItsRaise
<1>2. disputes[r].by \in Users /\ disputes[r].amount \in Int /\ disputes[r].amount \in Nat
  BY <1>1, DocumentType
<1>3. /\ escrowHeld \in [Users -> Int]
      /\ escrowHeld' = [escrowHeld EXCEPT ![disputes[r].by] = @ + disputes[r].amount]
  BY DEF HoldEscrow, DisputeInv, TypeOK
<1> QED
  BY <1>1, <1>2, <1>3, AddAt

\* The refund gives the amount back and takes it from the hold.
LEMMA RefundType ==
    ASSUME DisputeInv, NEW a \in Reviews, Refund(a)
    PROVE  /\ balance' \in [Users -> Int] /\ escrowHeld' \in [Users -> Int]
           /\ balance'[By(a)] = balance[By(a)] + Amount(a)
           /\ \A u \in Users \ {By(a)} : balance'[u] = balance[u]
           /\ escrowHeld'[By(a)] = escrowHeld[By(a)] - Amount(a)
           /\ \A u \in Users \ {By(a)} : escrowHeld'[u] = escrowHeld[u]
<1>1. By(a) \in Users /\ Amount(a) \in Int
  BY ReviewType DEF Refund
<1>2. /\ balance \in [Users -> Int] /\ escrowHeld \in [Users -> Int]
      /\ balance' = [balance EXCEPT ![By(a)] = @ + Amount(a)]
      /\ escrowHeld' = [escrowHeld EXCEPT ![By(a)] = @ - Amount(a)]
  BY DEF Refund, DisputeInv, TypeOK
<1> QED
  BY <1>1, <1>2, AddAt, TakeAt

\* The claw takes the amount from the other wallet.
LEMMA ClawType ==
    ASSUME DisputeInv, NEW a \in Reviews, Claw(a)
    PROVE  /\ balance' \in [Users -> Int]
           /\ balance'[Against(a)] = balance[Against(a)] - Amount(a)
           /\ \A u \in Users \ {Against(a)} : balance'[u] = balance[u]
<1>1. Against(a) \in Users /\ Amount(a) \in Int
  BY ReviewType DEF Claw
<1>2. balance \in [Users -> Int] /\ balance' = [balance EXCEPT ![Against(a)] = @ - Amount(a)]
  BY DEF Claw, DisputeInv, TypeOK
<1> QED
  BY <1>1, <1>2, TakeAt

\* A rejection takes the amount from the hold.
LEMMA ReleaseType ==
    ASSUME DisputeInv, NEW a \in Reviews, ReleaseEscrow(a)
    PROVE  /\ escrowHeld' \in [Users -> Int]
           /\ escrowHeld'[By(a)] = escrowHeld[By(a)] - Amount(a)
           /\ \A u \in Users \ {By(a)} : escrowHeld'[u] = escrowHeld[u]
<1>1. By(a) \in Users /\ Amount(a) \in Int
  BY ReviewType DEF ReleaseEscrow
<1>2. /\ escrowHeld \in [Users -> Int]
      /\ escrowHeld' = [escrowHeld EXCEPT ![By(a)] = @ - Amount(a)]
  BY DEF ReleaseEscrow, DisputeInv, TypeOK
<1> QED
  BY <1>1, <1>2, TakeAt

\* A verdict changes the status of one document and nothing else of it.
LEMMA CloseType ==
    ASSUME DisputeInv, NEW a \in Reviews, pc[a] # "idle",
           NEW s \in {"resolved", "rejected"}, Close(a, s)
    PROVE  /\ disputes' \in [Raises -> Documents \cup {None}]
           /\ target[a] \in Exists /\ Exists' = Exists
           /\ disputes'[target[a]].status = s
           /\ \A d \in Raises : d # target[a] => disputes'[d] = disputes[d]
           /\ \A d \in Exists : /\ disputes'[d] \in Documents
                                /\ disputes'[d].txn = disputes[d].txn
                                /\ disputes'[d].by = disputes[d].by
                                /\ disputes'[d].against = disputes[d].against
                                /\ disputes'[d].amount = disputes[d].amount
<1>1. target[a] \in Exists /\ disputes \in [Raises -> Documents \cup {None}]
  BY ReviewType DEF DisputeInv, TypeOK
<1>2. disputes' = [disputes EXCEPT ![target[a]] = [disputes[target[a]] EXCEPT !.status = s]]
  BY DEF Close
<1>3. ASSUME NEW D \in Documents
      PROVE  /\ [D EXCEPT !.status = s] \in Documents
             /\ [D EXCEPT !.status = s].status = s
             /\ [D EXCEPT !.status = s].txn = D.txn /\ [D EXCEPT !.status = s].by = D.by
             /\ [D EXCEPT !.status = s].against = D.against
             /\ [D EXCEPT !.status = s].amount = D.amount
  BY <1>3 DEF Documents, Statuses
<1>4. \A d \in Exists : d \in Raises /\ disputes[d] \in Documents
  BY DocumentType
<1> HIDE DEF Documents
<1>5. \A d \in Raises : disputes'[d] = None <=> disputes[d] = None
  BY <1>1, <1>2, <1>3, <1>4, NoneIsNoDocument DEF Exists
<1>6. Exists' = Exists
  BY <1>5 DEF Exists
<1> QED
  BY <1>1, <1>2, <1>3, <1>4, <1>6

\* A new document is pending and the others stay.
LEMMA CreateType ==
    ASSUME DisputeInv, NEW r \in Raises, CreateDispute(r)
    PROVE  /\ r \notin Exists
           /\ disputes'[r] \in Documents /\ disputes'[r].status = "pending"
           /\ \A d \in Raises : d # r => disputes'[d] = disputes[d]
           /\ disputes' \in [Raises -> Documents \cup {None}]
           /\ Exists' = Exists \cup {r}
<1> DEFINE t == Transaction(target[r])
           D == [txn |-> target[r], by |-> t.from, against |-> t.to,
                 amount |-> t.amount, status |-> "pending"]
<1>1. target[r] \in Transactions /\ r \notin Exists /\ target[r] \in Transfers \cup Raises
  BY DEF CreateDispute, DisputeInv, WorkInv, TypeOK, WorkIsThere, CreatedByItsRaise,
     Transactions
<1>2. t \in [from : Users, to : Users, amount : Nat]
  BY <1>1, TransactionType
<1>3. D \in Documents /\ D.status = "pending"
  BY <1>1, <1>2 DEF Documents, Statuses
<1>4. disputes' = [disputes EXCEPT ![r] = D] /\ disputes \in [Raises -> Documents \cup {None}]
  BY DEF CreateDispute, DisputeInv, TypeOK
<1> HIDE DEF D, Documents
<1> QED
  BY <1>1, <1>3, <1>4, NoneIsNoDocument DEF Exists

\* Every step keeps the types.
LEMMA TypeStep == ASSUME DisputeInv, [Next]_vars PROVE TypeOK'
<1> USE DisputeAssumption, NoneIsNoDocument DEF DisputeInv, WorkInv, TypeOK, Goto, walletVars,
        Handlers, history,
        RaisePoints, ReviewPoints
<1>1. ASSUME NEW r \in Raises, ReadTransaction(r) PROVE TypeOK'
  <2>1. PICK t \in Transfers \cup Raises : target' = [target EXCEPT ![r] = t]
    BY <1>1 DEF ReadTransaction, Transactions
  <2>2. PICK p \in {"lookup", "refused"} : pc' = [pc EXCEPT ![r] = p]
    BY <1>1 DEF ReadTransaction
  <2>3. UNCHANGED <<balance, escrowHeld, disputes, reversals, dead, overlapped, retaken>>
    BY <1>1 DEF ReadTransaction
  <2> QED
    BY <2>1, <2>2, <2>3
<1>2. ASSUME NEW r \in Raises, LookupExisting(r) PROVE TypeOK'
  BY <1>2 DEF LookupExisting
<1>3. ASSUME NEW r \in Raises, CreateDispute(r) PROVE TypeOK'
  <2> QED
    BY <1>3, CreateType DEF CreateDispute, Exists
<1>4. ASSUME NEW r \in Raises, HoldEscrow(r) PROVE TypeOK'
  BY <1>4, HoldType DEF HoldEscrow
<1>5. ASSUME NEW a \in Reviews, ReadDispute(a) PROVE TypeOK'
  BY <1>5 DEF ReadDispute, Meets, Exists
<1>6. ASSUME NEW a \in Reviews, CreateReversal(a) PROVE TypeOK'
  <2>1. target[a] \in {d \in Raises : disputes[d] # None}
    BY <1>6, ReviewType DEF CreateReversal, Exists
  <2> QED
    BY <1>6, <2>1 DEF CreateReversal
<1>7. ASSUME NEW a \in Reviews, Refund(a) PROVE TypeOK'
  BY <1>7, RefundType DEF Refund
<1>8. ASSUME NEW a \in Reviews, Claw(a) PROVE TypeOK'
  BY <1>8, ClawType DEF Claw
<1>9. ASSUME NEW a \in Reviews, CloseResolved(a) PROVE TypeOK'
  <2>1. Close(a, "resolved") /\ pc[a] # "idle"
    BY <1>9 DEF CloseResolved
  <2>2. disputes' \in [Raises -> Documents \cup {None}] /\ Exists' = Exists
    BY <2>1, CloseType
  <2>3. reversals' \subseteq {d \in Raises : disputes'[d] # None}
    BY <2>1, <2>2 DEF Close, Exists
  <2> QED
    BY <2>1, <2>2, <2>3 DEF Close
<1>10. ASSUME NEW a \in Reviews, ReleaseEscrow(a) PROVE TypeOK'
  BY <1>10, ReleaseType DEF ReleaseEscrow
<1>11. ASSUME NEW a \in Reviews, CloseRejected(a) PROVE TypeOK'
  <2>1. Close(a, "rejected") /\ pc[a] # "idle"
    BY <1>11 DEF CloseRejected
  <2>2. disputes' \in [Raises -> Documents \cup {None}] /\ Exists' = Exists
    BY <2>1, CloseType
  <2>3. reversals' \subseteq {d \in Raises : disputes'[d] # None}
    BY <2>1, <2>2 DEF Close, Exists
  <2> QED
    BY <2>1, <2>2, <2>3 DEF Close
<1>12. ASSUME NEW h \in Handlers, Stop(h) PROVE TypeOK'
  BY <1>12 DEF Stop
<1>13. CASE UNCHANGED vars
  BY <1>13 DEF vars
<1> HIDE DEF DisputeInv, WorkInv, TypeOK
<1> QED
  BY <1>1, <1>2, <1>3, <1>4, <1>5, <1>6, <1>7, <1>8, <1>9, <1>10, <1>11, <1>12, <1>13 DEF Next

\* Every step keeps the parts of DisputeInv.
LEMMA WorkStep ==
    ASSUME DisputeInv, [Next]_vars
    PROVE  WorkInv'
<1> USE DisputeAssumption, NoneIsNoDocument DEF DisputeInv, WorkInv, TypeOK, WorkIsThere,
        CreatedByItsRaise,
        OneReversal, VerdictIsGiven, PaysBack, Open, Goto, walletVars, Handlers,
        RaisePoints, ReviewPoints, Transactions
<1>1. ASSUME NEW r \in Raises, ReadTransaction(r) PROVE WorkInv'
  BY <1>1 DEF ReadTransaction, Exists
<1>2. ASSUME NEW r \in Raises, LookupExisting(r) PROVE WorkInv'
  BY <1>2 DEF LookupExisting, Exists
<1>3. ASSUME NEW r \in Raises, CreateDispute(r) PROVE WorkInv'
  <2>1. r \notin Exists /\ Exists' = Exists \cup {r}
    BY <1>3, CreateType
  <2>2. disputes'[r].status = "pending" /\ \A d \in Exists : d # r /\ disputes'[d] = disputes[d]
    BY <1>3, <2>1, CreateType DEF Exists
  <2> QED
    BY <1>3, <2>1, <2>2 DEF CreateDispute
<1>4. ASSUME NEW r \in Raises, HoldEscrow(r) PROVE WorkInv'
  BY <1>4 DEF HoldEscrow, Exists
<1>5. ASSUME NEW a \in Reviews, ReadDispute(a) PROVE WorkInv'
  BY <1>5 DEF ReadDispute, Exists
<1>6. ASSUME NEW a \in Reviews, CreateReversal(a) PROVE WorkInv'
  BY <1>6 DEF CreateReversal, Exists
<1>7. ASSUME NEW a \in Reviews, Refund(a) PROVE WorkInv'
  BY <1>7 DEF Refund, By, Amount, Exists
<1>8. ASSUME NEW a \in Reviews, Claw(a) PROVE WorkInv'
  BY <1>8 DEF Claw, Against, Amount, Exists
<1>9. ASSUME NEW a \in Reviews, CloseResolved(a) PROVE WorkInv'
  <2>1. Close(a, "resolved") /\ pc[a] # "idle"
    BY <1>9 DEF CloseResolved
  <2>2. /\ Exists' = Exists /\ disputes'[target[a]].status = "resolved"
        /\ \A d \in Exists : d # target[a] => disputes'[d] = disputes[d]
    BY <2>1, CloseType DEF Exists
  <2> QED
    BY <1>9, <2>1, <2>2 DEF CloseResolved, Close
<1>10. ASSUME NEW a \in Reviews, ReleaseEscrow(a) PROVE WorkInv'
  BY <1>10 DEF ReleaseEscrow, By, Amount, Exists
<1>11. ASSUME NEW a \in Reviews, CloseRejected(a) PROVE WorkInv'
  <2>1. Close(a, "rejected") /\ pc[a] # "idle"
    BY <1>11 DEF CloseRejected
  <2>2. /\ Exists' = Exists /\ disputes'[target[a]].status = "rejected"
        /\ \A d \in Exists : d # target[a] => disputes'[d] = disputes[d]
    BY <2>1, CloseType DEF Exists
  <2> QED
    BY <1>11, <2>1, <2>2 DEF CloseRejected, Close
<1>12. ASSUME NEW h \in Handlers, Stop(h) PROVE WorkInv'
  BY <1>12 DEF Stop, Exists
<1>13. CASE UNCHANGED vars
  BY <1>13 DEF vars, Exists
<1> HIDE DEF DisputeInv, WorkInv
<1> QED
  BY <1>1, <1>2, <1>3, <1>4, <1>5, <1>6, <1>7, <1>8, <1>9, <1>10, <1>11, <1>12, <1>13 DEF Next

\* Every step keeps what is said of the reviews at work.
LEMMA ReviewStep ==
    ASSUME DisputeInv, [Next]_vars
    PROVE  ReviewInv'
<1> USE DisputeAssumption DEF ReviewInv, OneAtWork, WorkIsOpen, NoneFollows, OneRelease, AtWork,
        LetsGo, Unfinished, HoldGone, Goto, Handlers, history
<1> DEFINE OpenStays == \A d \in Exists : Open(d)' <=> Open(d)
           Quiet == /\ \A a \in Reviews : pc'[a] = pc[a] /\ target'[a] = target[a]
                    /\ UNCHANGED <<dead, history>>
<1>1. /\ ReviewInv
      /\ pc \in [Handlers -> RaisePoints \cup ReviewPoints]
      /\ target \in [Handlers -> Transfers \cup Raises \cup {None}]
      /\ dead \subseteq Handlers
      /\ \A a \in Reviews : pc[a] # "idle" => target[a] \in Exists
  BY DEF DisputeInv, TypeOK, WorkInv, WorkIsThere
<1>2. ASSUME UNCHANGED disputes PROVE OpenStays
  BY <1>2 DEF Open
<1>3. ASSUME Quiet, OpenStays PROVE ReviewInv'
  BY <1>1, <1>3
<1>4. ASSUME NEW r \in Raises, ReadTransaction(r) PROVE Quiet /\ UNCHANGED disputes
  BY <1>1, <1>4 DEF ReadTransaction
<1>5. ASSUME NEW r \in Raises, LookupExisting(r) PROVE Quiet /\ UNCHANGED disputes
  BY <1>1, <1>5 DEF LookupExisting
<1>6. ASSUME NEW r \in Raises, CreateDispute(r) PROVE Quiet /\ OpenStays
  <2>1. \A d \in Exists : disputes'[d] = disputes[d]
    BY <1>6, CreateType DEF Exists
  <2> QED
    BY <1>1, <1>6, <2>1 DEF CreateDispute, Open
<1>7. ASSUME NEW r \in Raises, HoldEscrow(r) PROVE Quiet /\ UNCHANGED disputes
  BY <1>1, <1>7 DEF HoldEscrow
<1>8. ASSUME NEW a \in Reviews, ReadDispute(a) PROVE ReviewInv'
  <2>1. OpenStays
    BY <1>2, <1>8 DEF ReadDispute
  <2>2. PICK d \in Exists : /\ target' = [target EXCEPT ![a] = d]
                            /\ \/ /\ Open(d) /\ Meets(d)
                                  /\ Goto(a, "reverse") \/ Goto(a, "release")
                               \/ Goto(a, "refused") /\ UNCHANGED history
    BY <1>8 DEF ReadDispute
  <2>3. pc[a] = "idle" /\ UNCHANGED dead
    BY <1>8 DEF ReadDispute
  <2>4. target'[a] = d /\ \A b \in Reviews \ {a} : target'[b] = target[b]
    BY <1>1, <2>2
  <2>5. CASE Goto(a, "refused") /\ UNCHANGED history
    BY <1>1, <2>1, <2>3, <2>4, <2>5
  <2>6. CASE Open(d) /\ Meets(d) /\ (Goto(a, "reverse") \/ Goto(a, "release"))
    <3>1. /\ pc'[a] \in {"reverse", "release"}
          /\ \A b \in Reviews \ {a} : pc'[b] = pc[b]
      BY <1>1, <2>6
    <3>2. /\ \A b \in Reviews : AtWork(b) /\ target[b] = d => d \in overlapped'
          /\ \A b \in Reviews : /\ b \in dead /\ pc[b] \in HoldGone /\ target[b] = d
                               => d \in retaken'
          /\ overlapped \subseteq overlapped' /\ retaken \subseteq retaken'
      BY <2>6 DEF Meets, Reviewing
    <3>3. OneAtWork'
      BY <1>1, <2>3, <2>4, <3>1, <3>2
    <3>4. WorkIsOpen'
      BY <1>1, <2>1, <2>3, <2>4, <2>6, <3>1, <3>2
    <3>5. NoneFollows'
      BY <1>1, <2>3, <2>4, <3>1, <3>2
    <3>6. OneRelease'
      BY <1>1, <2>3, <2>4, <3>1, <3>2
    <3> QED
      BY <3>3, <3>4, <3>5, <3>6
  <2> QED
    BY <2>2, <2>5, <2>6
<1>9. ASSUME NEW a \in Reviews, CreateReversal(a) PROVE ReviewInv'
  <2>1. OpenStays /\ UNCHANGED <<target, dead, history>>
    BY <1>2, <1>9 DEF CreateReversal
  <2>2. /\ pc[a] = "reverse" /\ pc'[a] \in {"refund", "refused"} /\ a \notin dead
        /\ \A b \in Reviews \ {a} : pc'[b] = pc[b]
    BY <1>1, <1>9 DEF CreateReversal
  <2> QED
    BY <1>1, <2>1, <2>2
<1>10. ASSUME NEW a \in Reviews, Claw(a) PROVE ReviewInv'
  <2>1. OpenStays /\ UNCHANGED <<target, dead, history>>
    BY <1>2, <1>10 DEF Claw
  <2>2. /\ pc[a] = "claw" /\ pc'[a] = "resolve" /\ a \notin dead
        /\ \A b \in Reviews \ {a} : pc'[b] = pc[b]
    BY <1>1, <1>10 DEF Claw
  <2> QED
    BY <1>1, <2>1, <2>2
<1>11. ASSUME NEW a \in Reviews, Refund(a) \/ ReleaseEscrow(a) PROVE ReviewInv'
  <2>1. OpenStays /\ UNCHANGED <<target, dead, history>>
    BY <1>2, <1>11 DEF Refund, ReleaseEscrow
  <2>2. /\ pc[a] \in {"refund", "release"} /\ pc'[a] \in {"claw", "reject"} /\ a \notin dead
        /\ \A b \in Reviews \ {a} : pc'[b] = pc[b]
    BY <1>1, <1>11 DEF Refund, ReleaseEscrow
  <2>3. ASSUME NEW b \in Reviews, LetsGo(b), target[b] = target[a],
               target[a] \notin overlapped \cup retaken
        PROVE  FALSE
    BY <1>1, <2>2, <2>3, HoldGoneOnce
  <2> QED
    BY <1>1, <2>1, <2>2, <2>3
<1>12. ASSUME NEW a \in Reviews, CloseResolved(a) \/ CloseRejected(a) PROVE ReviewInv'
  <2>1. PICK s \in {"resolved", "rejected"} : pc[a] \in {"resolve", "reject"} /\ Close(a, s)
    BY <1>12 DEF CloseResolved, CloseRejected
  <2>2. UNCHANGED <<target, dead, history>> /\ target[a] \in Exists
    BY <1>1, <2>1 DEF Close
  <2>3. /\ pc'[a] = s /\ a \notin dead
        /\ \A b \in Reviews \ {a} : pc'[b] = pc[b]
    BY <1>1, <2>1 DEF Close
  <2>4. pc[a] # "idle"
    BY <2>1
  <2>5. \A d \in Exists : d # target[a] => disputes'[d] = disputes[d]
    BY <2>1, <2>4, CloseType DEF Exists
  <2>6. OneAtWork' /\ NoneFollows' /\ OneRelease'
    BY <1>1, <2>1, <2>2, <2>3
  <2>7. WorkIsOpen'
    BY <1>1, <2>1, <2>2, <2>3, <2>5 DEF Open
  <2> QED
    BY <2>6, <2>7
<1>13. ASSUME NEW h \in Handlers, Stop(h) PROVE ReviewInv'
  <2>1. OpenStays /\ UNCHANGED <<target, pc, history>> /\ dead' = dead \cup {h}
    BY <1>2, <1>13 DEF Stop
  <2> QED
    BY <1>1, <2>1
<1>14. CASE UNCHANGED vars
  BY <1>2, <1>3, <1>14 DEF vars
<1> HIDE DEF ReviewInv
<1> QED
  BY <1>2, <1>3, <1>4, <1>5, <1>6, <1>7, <1>8, <1>9, <1>10, <1>11, <1>12, <1>13, <1>14 DEF Next

\* DisputeInv is inductive.
LEMMA DisputeInvStep == ASSUME DisputeInv, [Next]_vars PROVE DisputeInv'
  BY TypeStep, WorkStep, ReviewStep DEF DisputeInv

\* It holds at first.
LEMMA DisputeInit == ASSUME Init PROVE DisputeInv
<1> USE DisputeAssumption, NoneIsNoDocument DEF Init, Handlers, RaisePoints, ReviewPoints,
        Exists
<1>1. TypeOK
  BY DEF TypeOK
<1> QED
  BY <1>1 DEF DisputeInv, WorkInv, WorkIsThere, CreatedByItsRaise, OneReversal, PaysBack,
     VerdictIsGiven, ReviewInv, OneAtWork, WorkIsOpen, NoneFollows, OneRelease, AtWork, LetsGo,
     Unfinished, HoldGone

(* The verdict on file is what happened to the money, for any number of    *)
(* admins and wherever they stop: a resolved dispute was refunded and      *)
(* clawed back; a rejected one was not, unless two admins worked on it at  *)
(* once or one followed a review that had stopped between the release of   *)
(* the hold and the verdict.                                               *)
THEOREM VerdictIsTrue == Spec => []VerdictMatchesMoney
<1>1. DisputeInv => VerdictMatchesMoney
  BY DEF DisputeInv, WorkInv, VerdictMatchesMoney, VerdictIsGiven, ReviewInv, OneRelease, LetsGo,
     HoldGone, Refunded, Clawed, Past
<1> QED
  BY <1>1, DisputeInit, DisputeInvStep, PTL DEF Spec

\* No document goes or changes its parties, and only a verdict changes it.
LEMMA DocumentsStay ==
    ASSUME DisputeInv, [Next]_vars
    PROVE  /\ Exists \subseteq Exists'
           /\ \A d \in Exists : /\ disputes'[d].by = disputes[d].by
                                /\ disputes'[d].against = disputes[d].against
                                /\ disputes'[d].amount = disputes[d].amount
           /\ \A d \in Exists : disputes'[d] # disputes[d] =>
                 \E a \in Reviews : /\ target[a] = d /\ pc[a] \in {"resolve", "reject"}
                                    /\ a \notin dead /\ pc'[a] \in {"resolved", "rejected"}
<1>1. ASSUME NEW r \in Raises, CreateDispute(r)
      PROVE  Exists \subseteq Exists' /\ \A d \in Exists : disputes'[d] = disputes[d]
  BY <1>1, CreateType DEF Exists
<1>2. ASSUME NEW a \in Reviews, NEW s \in {"resolved", "rejected"}, Close(a, s),
             pc[a] \in {"resolve", "reject"}
      PROVE  /\ Exists \subseteq Exists'
             /\ \A d \in Exists : /\ disputes'[d].by = disputes[d].by
                                  /\ disputes'[d].against = disputes[d].against
                                  /\ disputes'[d].amount = disputes[d].amount
                                  /\ disputes'[d] # disputes[d] => d = target[a]
             /\ pc'[a] = s /\ a \notin dead
  <2>1. pc[a] # "idle"
    BY <1>2
  <2>2. pc'[a] = s /\ a \notin dead
    BY <1>2 DEF Close, Goto, DisputeInv, TypeOK, Handlers
  <2>3. \A d \in Exists : d \in Raises
    BY DEF Exists
  <2> QED
    BY <1>2, <2>1, <2>2, <2>3, CloseType
<1>3. ASSUME \/ \E r \in Raises : ReadTransaction(r) \/ LookupExisting(r) \/ HoldEscrow(r)
             \/ \E a \in Reviews : \/ ReadDispute(a) \/ CreateReversal(a) \/ Refund(a)
                                   \/ Claw(a) \/ ReleaseEscrow(a)
             \/ \E h \in Handlers : Stop(h)
             \/ UNCHANGED vars
      PROVE  UNCHANGED disputes
  BY <1>3 DEF ReadTransaction, LookupExisting, HoldEscrow, ReadDispute, CreateReversal, Refund,
              Claw, ReleaseEscrow, Stop, vars
<1>4. ASSUME UNCHANGED disputes PROVE Exists' = Exists
  BY <1>4 DEF Exists
<1>5. ASSUME NEW a \in Reviews, CloseResolved(a) \/ CloseRejected(a)
      PROVE  pc[a] \in {"resolve", "reject"} /\ \E s \in {"resolved", "rejected"} : Close(a, s)
  BY <1>5 DEF CloseResolved, CloseRejected
<1> QED
  BY <1>1, <1>2, <1>3, <1>4, <1>5 DEF Next

(* A verdict never changes, unless two admins worked on the dispute at     *)
(* once: no other request writes a dispute that is not pending.            *)
THEOREM VerdictStays == Spec => VerdictIsFinal
<1>1. ASSUME DisputeInv, [Next]_vars
      PROVE  \A d \in Exists : ~Open(d) => d \in overlapped \/ disputes'[d] = disputes[d]
  <2> SUFFICES ASSUME NEW d \in Exists, ~Open(d), d \notin overlapped,
                      disputes'[d] # disputes[d]
               PROVE  FALSE
    OBVIOUS
  <2>1. PICK a \in Reviews : target[a] = d /\ pc[a] \in {"resolve", "reject"} /\ a \notin dead
    BY <1>1, DocumentsStay
  <2> QED
    BY <1>1, <2>1 DEF DisputeInv, ReviewInv, WorkIsOpen, AtWork, Unfinished
<1>2. DisputeInv /\ [Next]_vars =>
          [\A d \in Exists : ~Open(d) => d \in overlapped \/ disputes'[d] = disputes[d]]_vars
  BY <1>1
<1> QED
  BY <1>2, DisputeInit, DisputeInvStep, PTL DEF Spec, VerdictIsFinal

-----------------------------------------------------------------------------
(* Which disputes the reviews have paid back *)

QuietMoney ==
    /\ UNCHANGED balance
    /\ \A d \in Raises : (Refunded(d)' <=> Refunded(d)) /\ (Clawed(d)' <=> Clawed(d))

Refunds(a) ==
    /\ target[a] \in Exists /\ ~Refunded(target[a])
    /\ \A d \in Raises : Refunded(d)' <=> Refunded(d) \/ d = target[a]
    /\ \A d \in Raises : Clawed(d)' <=> Clawed(d)
    /\ balance'[By(a)] = balance[By(a)] + Amount(a)
    /\ \A u \in Users \ {By(a)} : balance'[u] = balance[u]

Claws(a) ==
    /\ target[a] \in Exists /\ ~Clawed(target[a])
    /\ \A d \in Raises : Refunded(d)' <=> Refunded(d)
    /\ \A d \in Raises : Clawed(d)' <=> Clawed(d) \/ d = target[a]
    /\ balance'[Against(a)] = balance[Against(a)] - Amount(a)
    /\ \A u \in Users \ {Against(a)} : balance'[u] = balance[u]

\* A step refunds, claws, or leaves wallets and reversals as they are.
LEMMA MoneySteps ==
    ASSUME DisputeInv, [Next]_vars
    PROVE  QuietMoney \/ \E a \in Reviews : Refunds(a) \/ Claws(a)
<1> USE DEF DisputeInv, WorkInv, TypeOK, WorkIsThere, Goto, walletVars, Handlers, RaisePoints,
        ReviewPoints
<1>1. ASSUME NEW r \in Raises, ReadTransaction(r) PROVE QuietMoney
  BY <1>1 DEF ReadTransaction, QuietMoney, Refunded, Clawed, Past
<1>2. ASSUME NEW r \in Raises, LookupExisting(r) PROVE QuietMoney
  BY <1>2 DEF LookupExisting, QuietMoney, Refunded, Clawed, Past
<1>3. ASSUME NEW r \in Raises, CreateDispute(r) PROVE QuietMoney
  BY <1>3 DEF CreateDispute, QuietMoney, Refunded, Clawed, Past
<1>4. ASSUME NEW r \in Raises, HoldEscrow(r) PROVE QuietMoney
  BY <1>4 DEF HoldEscrow, QuietMoney, Refunded, Clawed, Past
<1>5. ASSUME NEW a \in Reviews, ReadDispute(a) PROVE QuietMoney
  BY <1>5 DEF ReadDispute, QuietMoney, Refunded, Clawed, Past
<1>6. ASSUME NEW a \in Reviews, CreateReversal(a) PROVE QuietMoney
  BY <1>6 DEF CreateReversal, QuietMoney, Refunded, Clawed, Past
<1>7. ASSUME NEW a \in Reviews, Refund(a) PROVE Refunds(a)
  <2>1. target[a] \in Exists /\ target[a] \in Raises
    BY <1>7 DEF Refund, Exists
  <2>2. ~Refunded(target[a])
    BY <1>7 DEF Refund, OneReversal, PaysBack, Refunded, Past
  <2>3. \A d \in Raises : /\ Refunded(d)' <=> Refunded(d) \/ d = target[a]
                          /\ (Clawed(d)' <=> Clawed(d))
    BY <1>7, <2>1 DEF Refund, Refunded, Clawed, Past
  <2> QED
    BY <1>7, <2>1, <2>2, <2>3, RefundType DEF Refunds
<1>8. ASSUME NEW a \in Reviews, Claw(a) PROVE Claws(a)
  <2>1. target[a] \in Exists /\ target[a] \in Raises
    BY <1>8 DEF Claw, Exists
  <2>2. ~Clawed(target[a])
    BY <1>8 DEF Claw, OneReversal, PaysBack, Clawed, Past
  <2>3. \A d \in Raises : /\ Refunded(d)' <=> Refunded(d)
                          /\ (Clawed(d)' <=> Clawed(d) \/ d = target[a])
    BY <1>8, <2>1 DEF Claw, Refunded, Clawed, Past
  <2> QED
    BY <1>8, <2>1, <2>2, <2>3, ClawType DEF Claws
<1>9. ASSUME NEW a \in Reviews, CloseResolved(a) PROVE QuietMoney
  BY <1>9 DEF CloseResolved, Close, QuietMoney, Refunded, Clawed, Past
<1>10. ASSUME NEW a \in Reviews, ReleaseEscrow(a) PROVE QuietMoney
  BY <1>10 DEF ReleaseEscrow, By, Amount, QuietMoney, Refunded, Clawed, Past
<1>11. ASSUME NEW a \in Reviews, CloseRejected(a) PROVE QuietMoney
  BY <1>11 DEF CloseRejected, Close, QuietMoney, Refunded, Clawed, Past
<1>12. ASSUME NEW h \in Handlers, Stop(h) PROVE QuietMoney
  BY <1>12 DEF Stop, QuietMoney, Refunded, Clawed, Past
<1>13. CASE UNCHANGED vars
  BY <1>13 DEF vars, QuietMoney, Refunded, Clawed, Past
<1> HIDE DEF DisputeInv, WorkInv
<1> QED
  BY <1>1, <1>2, <1>3, <1>4, <1>5, <1>6, <1>7, <1>8, <1>9, <1>10, <1>11, <1>12, <1>13 DEF Next

Remembered == overlapped \subseteq overlapped' /\ retaken \subseteq retaken'
QuietEscrow ==
    /\ UNCHANGED escrowHeld
    /\ \A d \in Raises : (Held(d)' <=> Held(d)) /\ (Released(d)' <=> Released(d))

Holds(r) ==
    /\ r \in Exists /\ ~Held(r)
    /\ \A d \in Raises : (Held(d)' <=> Held(d) \/ d = r) /\ (Released(d)' <=> Released(d))
    /\ escrowHeld'[disputes[r].by] = escrowHeld[disputes[r].by] + disputes[r].amount
    /\ \A u \in Users \ {disputes[r].by} : escrowHeld'[u] = escrowHeld[u]

Releases(a) ==
    /\ target[a] \in Exists
    /\ target[a] \notin overlapped \cup retaken => ~Released(target[a])
    /\ \A d \in Raises : Held(d)' <=> Held(d)
    /\ \A d \in Raises : Released(d)' <=> Released(d) \/ d = target[a]
    /\ escrowHeld'[By(a)] = escrowHeld[By(a)] - Amount(a)
    /\ \A u \in Users \ {By(a)} : escrowHeld'[u] = escrowHeld[u]

\* A step holds for a dispute, releases one, or leaves the holds as they are.
LEMMA EscrowSteps ==
    ASSUME DisputeInv, [Next]_vars
    PROVE  /\ Remembered
           /\ \/ QuietEscrow
              \/ \E r \in Raises : Holds(r)
              \/ \E a \in Reviews : Releases(a)
<1> USE DEF DisputeInv, WorkInv, TypeOK, WorkIsThere, Goto, walletVars, Handlers, RaisePoints,
        ReviewPoints, Remembered, history
<1>1. ASSUME NEW r \in Raises, ReadTransaction(r)
      PROVE  Remembered /\ QuietEscrow
  BY <1>1 DEF ReadTransaction, QuietEscrow, Held, Exists, Released, Refunded, Past
<1>2. ASSUME NEW r \in Raises, LookupExisting(r)
      PROVE  Remembered /\ QuietEscrow
  BY <1>2 DEF LookupExisting, QuietEscrow, Held, Exists, Released, Refunded, Past
<1>3. ASSUME NEW r \in Raises, CreateDispute(r)
      PROVE  Remembered /\ QuietEscrow
  BY <1>3 DEF CreateDispute, QuietEscrow, Held, Exists, Released, Refunded, Past
<1>4. ASSUME NEW r \in Raises, HoldEscrow(r) PROVE Remembered /\ Holds(r)
  <2>1. ~Held(r) /\ r \in Exists
    BY <1>4, HoldType DEF HoldEscrow, Held
  <2>2. \A d \in Raises : (Held(d)' <=> Held(d) \/ d = r) /\ (Released(d)' <=> Released(d))
    BY <1>4, <2>1 DEF HoldEscrow, Held, Exists, Released, Refunded, Past
  <2> QED
    BY <1>4, <2>1, <2>2, HoldType DEF Holds, HoldEscrow
<1>5. ASSUME NEW a \in Reviews, ReadDispute(a)
      PROVE  Remembered /\ QuietEscrow
  BY <1>5 DEF ReadDispute, Meets, QuietEscrow, Held, Exists, Released, Refunded, Past
<1>6. ASSUME NEW a \in Reviews, CreateReversal(a)
      PROVE  Remembered /\ QuietEscrow
  BY <1>6 DEF CreateReversal, QuietEscrow, Held, Exists, Released, Refunded, Past
<1>7. ASSUME NEW a \in Reviews, Refund(a) PROVE Remembered /\ Releases(a)
  <2>1. target[a] \in Exists /\ target[a] \in Raises
    BY <1>7 DEF Refund, Exists
  <2>2. target[a] \notin overlapped \cup retaken => ~Released(target[a])
    BY <1>7, HoldGoneOnce DEF Refund, AtWork, LetsGo, Unfinished, HoldGone, Released, Refunded,
       Past
  <2>3. /\ \A d \in Raises : Held(d)' <=> Held(d)
        /\ \A d \in Raises : Released(d)' <=> Released(d) \/ d = target[a]
    BY <1>7, <2>1 DEF Refund, Held, Exists, Released, Refunded, Past
  <2> QED
    BY <1>7, <2>1, <2>2, <2>3, RefundType DEF Releases, Refund
<1>8. ASSUME NEW a \in Reviews, Claw(a) PROVE Remembered /\ QuietEscrow
  BY <1>8 DEF Claw, Against, Amount, QuietEscrow, Held, Exists, Released, Refunded, Past
<1>9. ASSUME NEW a \in Reviews, CloseResolved(a)
      PROVE  Remembered /\ QuietEscrow
  <2>1. Close(a, "resolved") /\ pc[a] # "idle"
    BY <1>9 DEF CloseResolved
  <2>2. Exists' = Exists
    BY <2>1, CloseType
  <2> QED
    BY <1>9, <2>1, <2>2 DEF CloseResolved, Close, QuietEscrow, Held, Released, Refunded, Past
<1>10. ASSUME NEW a \in Reviews, ReleaseEscrow(a) PROVE Remembered /\ Releases(a)
  <2>1. target[a] \in Exists /\ target[a] \in Raises
    BY <1>10 DEF ReleaseEscrow, Exists
  <2>2. target[a] \notin overlapped \cup retaken => ~Released(target[a])
    BY <1>10, HoldGoneOnce DEF ReleaseEscrow, AtWork, LetsGo, Unfinished, HoldGone, Released,
       Refunded, Past
  <2>3. /\ \A d \in Raises : Held(d)' <=> Held(d)
        /\ \A d \in Raises : Released(d)' <=> Released(d) \/ d = target[a]
    BY <1>10, <2>1 DEF ReleaseEscrow, Held, Exists, Released, Refunded, Past
  <2> QED
    BY <1>10, <2>1, <2>2, <2>3, ReleaseType DEF Releases, ReleaseEscrow
<1>11. ASSUME NEW a \in Reviews, CloseRejected(a)
       PROVE  Remembered /\ QuietEscrow
  <2>1. Close(a, "rejected") /\ pc[a] # "idle"
    BY <1>11 DEF CloseRejected
  <2>2. Exists' = Exists
    BY <2>1, CloseType
  <2> QED
    BY <1>11, <2>1, <2>2 DEF CloseRejected, Close, QuietEscrow, Held, Released, Refunded, Past
<1>12. ASSUME NEW h \in Handlers, Stop(h) PROVE Remembered /\ QuietEscrow
  BY <1>12 DEF Stop, QuietEscrow, Held, Exists, Released, Refunded, Past
<1>13. CASE UNCHANGED vars
  BY <1>13 DEF vars, QuietEscrow, Held, Exists, Released, Refunded, Past
<1> HIDE DEF DisputeInv, WorkInv
<1> QED
  BY <1>1, <1>2, <1>3, <1>4, <1>5, <1>6, <1>7, <1>8, <1>9, <1>10, <1>11, <1>12, <1>13 DEF Next

-----------------------------------------------------------------------------
(* The sums *)

\* The amounts are those on file.
LEMMA AmountsType ==
    ASSUME DisputeInv
    PROVE  /\ Amounts \in [Raises -> Nat]
           /\ \A d \in Exists : d \in Raises /\ Amounts[d] = disputes[d].amount
  BY DocumentType DEF Amounts, Exists

\* The amount of a document on file stays.
LEMMA AmountsStay ==
    ASSUME DisputeInv, [Next]_vars
    PROVE  \A d \in Exists : Amounts'[d] = Amounts[d]
<1>1. DisputeInv'
  BY DisputeInvStep
<1>2. Exists \subseteq Exists' /\ \A d \in Exists : disputes'[d].amount = disputes[d].amount
  BY DocumentsStay
<1> QED
  BY <1>1, <1>2 DEF Amounts, Exists

\* The sum over some documents is one over a finite set of integers.
LEMMA SumOfSome ==
    ASSUME DisputeInv, NEW ds, ds \subseteq Exists
    PROVE  IsFiniteSet(ds) /\ Sum(ds) \in Int /\ \A d \in ds : Amounts[d] \in Int
<1>1. ds \subseteq Raises /\ \A d \in ds : Amounts[d] \in Int
  BY AmountsType
<1>2. IsFiniteSet(ds)
  BY <1>1, DisputeAssumption, FS_Subset
<1> QED
  BY <1>1, <1>2, SumType DEF Sum

\* No step changes the sum of disputes that are there.
LEMMA SumStays ==
    ASSUME DisputeInv, [Next]_vars, NEW ds, ds \subseteq Exists
    PROVE  SumFunctionOnSet(Amounts', ds) = Sum(ds)
<1>1. IsFiniteSet(ds) /\ \A d \in ds : Amounts'[d] = Amounts[d]
  BY SumOfSome, AmountsStay
<1> QED
  BY <1>1, SumSame DEF Sum

\* One more dispute counts.
LEMMA SumGrows ==
    ASSUME DisputeInv, [Next]_vars, NEW ds, ds \subseteq Exists, NEW d \in Exists, d \notin ds
    PROVE  SumFunctionOnSet(Amounts', ds \cup {d}) = disputes[d].amount + Sum(ds)
<1>1. IsFiniteSet(ds) /\ \A x \in ds \cup {d} : Amounts[x] \in Int
  BY SumOfSome, AmountsType
<1>2. Sum(ds \cup {d}) = Amounts[d] + Sum(ds)
  BY <1>1, SumInsert DEF Sum
<1>3. SumFunctionOnSet(Amounts', ds \cup {d}) = Sum(ds \cup {d})
  BY SumStays
<1> QED
  BY <1>2, <1>3, AmountsType

RefundedBy(u) == {d \in RaisedBy(u) : Refunded(d)}
ClawedFrom(u) == {d \in RaisedAgainst(u) : Clawed(d)}
HeldBy(u) == {d \in RaisedBy(u) : Held(d)}
ReleasedBy(u) == {d \in RaisedBy(u) : Released(d)}

\* What is counted for or against a wallet is on file,
LEMMA CountedExist ==
    ASSUME DisputeInv
    PROVE  /\ \A d : Refunded(d) \/ Clawed(d) \/ Held(d) \/ Released(d) => d \in Exists
           /\ \A u : /\ RefundedBy(u) \subseteq Exists /\ ClawedFrom(u) \subseteq Exists
                     /\ HeldBy(u) \subseteq Exists /\ ReleasedBy(u) \subseteq Exists
<1>1. \A d : Refunded(d) \/ Clawed(d) \/ Held(d) \/ Released(d) => d \in Exists
  BY DEF DisputeInv, WorkInv, WorkIsThere, Refunded, Clawed, Held, Released, Past
<1> QED
  BY <1>1 DEF RefundedBy, ClawedFrom, HeldBy, ReleasedBy, RaisedBy, RaisedAgainst

\* ... and so it is after a step.
LEMMA CountedExistNext ==
    ASSUME DisputeInv, [Next]_vars
    PROVE  \A d : Refunded(d)' \/ Clawed(d)' \/ Held(d)' \/ Released(d)' => d \in Exists'
<1>1. DisputeInv'
  BY DisputeInvStep
<1> QED
  BY <1>1 DEF DisputeInv, WorkInv, WorkIsThere, Refunded, Clawed, Held, Released, Past

\* Parties stay the parties.
LEMMA PartiesStay ==
    ASSUME DisputeInv, [Next]_vars, NEW u
    PROVE  /\ \A d \in Exists : d \in RaisedBy(u)' <=> d \in RaisedBy(u)
           /\ \A d \in Exists : d \in RaisedAgainst(u)' <=> d \in RaisedAgainst(u)
  BY DocumentsStay DEF RaisedBy, RaisedAgainst

BalanceIs(u) == balance[u] = InitBalance[u] + Sum(RefundedBy(u)) - Sum(ClawedFrom(u))

\* Every step keeps a balance equal to its sum.
LEMMA BalanceStep ==
    ASSUME DisputeInv, [Next]_vars, NEW u \in Users, BalanceIs(u)
    PROVE  BalanceIs(u)'
<1> DEFINE NewRefunds == SumFunctionOnSet(Amounts', RefundedBy(u)')
           NewClaws == SumFunctionOnSet(Amounts', ClawedFrom(u)')
<1>1. BalanceIs(u)' <=> balance'[u] = InitBalance[u] + NewRefunds - NewClaws
  BY DEF BalanceIs, Sum
<1>2. /\ Sum(RefundedBy(u)) \in Int /\ Sum(ClawedFrom(u)) \in Int
      /\ balance[u] \in Int /\ InitBalance[u] \in Int
  BY CountedExist, SumOfSome, DisputeAssumption DEF DisputeInv, TypeOK
<1>3. /\ \A d : Refunded(d) \/ Clawed(d) => d \in Exists
      /\ \A d : Refunded(d)' \/ Clawed(d)' => d \in Exists'
      /\ RefundedBy(u) \subseteq Exists /\ ClawedFrom(u) \subseteq Exists
      /\ \A d \in Exists : d \in Raises
  BY CountedExist, CountedExistNext, DocumentType
<1>4. ASSUME \A d \in Raises : Refunded(d)' <=> Refunded(d)
      PROVE  NewRefunds = Sum(RefundedBy(u))
  <2>1. RefundedBy(u)' = RefundedBy(u)
    BY <1>3, <1>4, PartiesStay, DocumentsStay DEF RefundedBy, RaisedBy, Exists
  <2> QED
    BY <1>3, <2>1, SumStays
<1>5. ASSUME \A d \in Raises : Clawed(d)' <=> Clawed(d) PROVE NewClaws = Sum(ClawedFrom(u))
  <2>1. ClawedFrom(u)' = ClawedFrom(u)
    BY <1>3, <1>5, PartiesStay, DocumentsStay DEF ClawedFrom, RaisedAgainst, Exists
  <2> QED
    BY <1>3, <2>1, SumStays
<1>6. CASE QuietMoney
  BY <1>1, <1>4, <1>5, <1>6 DEF QuietMoney, BalanceIs
<1>7. ASSUME NEW a \in Reviews, Refunds(a) PROVE BalanceIs(u)'
  <2> PICK d \in Exists : d = target[a] /\ d \in Raises
    BY <1>3, <1>7 DEF Refunds
  <2>1. Amount(a) = disputes[d].amount /\ By(a) = disputes[d].by /\ Amount(a) \in Int
    BY DocumentType DEF Amount, By
  <2>2. NewClaws = Sum(ClawedFrom(u))
    BY <1>5, <1>7 DEF Refunds
  <2>3. CASE By(a) = u
    <3>1. RefundedBy(u)' = RefundedBy(u) \cup {d} /\ d \notin RefundedBy(u)
      <4>1. /\ \A x \in Raises : Refunded(x)' <=> Refunded(x) \/ x = d
            /\ ~Refunded(d) /\ d \in RaisedBy(u)
        BY <1>7, <2>1, <2>3 DEF Refunds, RaisedBy
      <4>2. /\ \A x \in Exists : x \in RaisedBy(u)' <=> x \in RaisedBy(u)
            /\ RaisedBy(u) \subseteq Exists /\ RaisedBy(u)' \subseteq Exists'
            /\ Exists \subseteq Exists' /\ Exists' \subseteq Raises
        BY PartiesStay, DocumentsStay DEF RaisedBy, Exists
      <4> QED
        BY <1>3, <4>1, <4>2 DEF RefundedBy
    <3>2. NewRefunds = disputes[d].amount + Sum(RefundedBy(u))
      BY <1>3, <3>1, SumGrows
    <3>3. balance'[u] = balance[u] + Amount(a)
      BY <1>7, <2>3 DEF Refunds
    <3> QED
      BY <1>1, <1>2, <2>1, <2>2, <3>2, <3>3 DEF BalanceIs
  <2>4. CASE By(a) # u
    <3>1. RefundedBy(u)' = RefundedBy(u)
      BY <1>3, <1>7, <2>1, <2>4, PartiesStay, DocumentsStay DEF Refunds, RefundedBy, RaisedBy,
         Exists
    <3>2. NewRefunds = Sum(RefundedBy(u))
      BY <1>3, <3>1, SumStays
    <3>3. balance'[u] = balance[u]
      BY <1>7, <2>4 DEF Refunds
    <3> QED
      BY <1>1, <2>2, <3>2, <3>3 DEF BalanceIs
  <2> QED
    BY <2>3, <2>4
<1>8. ASSUME NEW a \in Reviews, Claws(a) PROVE BalanceIs(u)'
  <2> PICK d \in Exists : d = target[a] /\ d \in Raises
    BY <1>3, <1>8 DEF Claws
  <2>1. Amount(a) = disputes[d].amount /\ Against(a) = disputes[d].against /\ Amount(a) \in Int
    BY DocumentType DEF Amount, Against
  <2>2. NewRefunds = Sum(RefundedBy(u))
    BY <1>4, <1>8 DEF Claws
  <2>3. CASE Against(a) = u
    <3>1. ClawedFrom(u)' = ClawedFrom(u) \cup {d} /\ d \notin ClawedFrom(u)
      <4>1. /\ \A x \in Raises : Clawed(x)' <=> Clawed(x) \/ x = d
            /\ ~Clawed(d) /\ d \in RaisedAgainst(u)
        BY <1>8, <2>1, <2>3 DEF Claws, RaisedAgainst
      <4>2. /\ \A x \in Exists : x \in RaisedAgainst(u)' <=> x \in RaisedAgainst(u)
            /\ RaisedAgainst(u) \subseteq Exists /\ RaisedAgainst(u)' \subseteq Exists'
            /\ Exists \subseteq Exists' /\ Exists' \subseteq Raises
        BY PartiesStay, DocumentsStay DEF RaisedAgainst, Exists
      <4> QED
        BY <1>3, <4>1, <4>2 DEF ClawedFrom
    <3>2. NewClaws = disputes[d].amount + Sum(ClawedFrom(u))
      BY <1>3, <3>1, SumGrows
    <3>3. balance'[u] = balance[u] - Amount(a)
      BY <1>8, <2>3 DEF Claws
    <3> QED
      BY <1>1, <1>2, <2>1, <2>2, <3>2, <3>3 DEF BalanceIs
  <2>4. CASE Against(a) # u
    <3>1. ClawedFrom(u)' = ClawedFrom(u)
      BY <1>3, <1>8, <2>1, <2>4, PartiesStay, DocumentsStay DEF Claws, ClawedFrom,
         RaisedAgainst, Exists
    <3>2. NewClaws = Sum(ClawedFrom(u))
      BY <1>3, <3>1, SumStays
    <3>3. balance'[u] = balance[u]
      BY <1>8, <2>4 DEF Claws
    <3> QED
      BY <1>1, <2>2, <3>2, <3>3 DEF BalanceIs
  <2> QED
    BY <2>3, <2>4
<1> QED
  BY <1>6, <1>7, <1>8, MoneySteps

(* However reviews interleave, repeat or stop, each dispute refunds once   *)
(* and claws once, and only with its reversal record: wallets hold exactly *)
(* what those moved, whatever the number of disputes.                      *)
THEOREM RefundedOnce == Spec => []MoneyMatchesReversals
<1> DEFINE Balances == \A u \in Users : BalanceIs(u)
<1>1. Init => Balances
  <2> SUFFICES ASSUME Init, NEW u \in Users PROVE BalanceIs(u)
    OBVIOUS
  <2>1. RefundedBy(u) = {} /\ ClawedFrom(u) = {}
    BY DEF Init, RefundedBy, ClawedFrom, RaisedBy, RaisedAgainst, Exists
  <2>2. Sum({}) = 0
    BY SumEmpty DEF Sum
  <2> QED
    BY <2>1, <2>2, DisputeAssumption DEF BalanceIs, Init
<1>2. DisputeInv /\ Balances /\ [Next]_vars => Balances'
  BY BalanceStep
<1>3. DisputeInv /\ Balances => MoneyMatchesReversals
  <2> SUFFICES ASSUME DisputeInv, Balances PROVE MoneyMatchesReversals
    OBVIOUS
  <2>1. \A d \in Raises : Refunded(d) => d \in reversals
    BY DEF DisputeInv, WorkInv, OneReversal, PaysBack, Refunded, Past
  <2> QED
    BY <2>1 DEF MoneyMatchesReversals, BalanceIs, RefundedBy, ClawedFrom
<1> QED
  BY <1>1, <1>2, <1>3, DisputeInit, DisputeInvStep, PTL DEF Spec

EscrowIs(u) ==
    RaisedBy(u) \cap (overlapped \cup retaken) = {} =>
        escrowHeld[u] = Sum(HeldBy(u)) - Sum(ReleasedBy(u))

\* Every step keeps a hold equal to its sum.
LEMMA EscrowStep ==
    ASSUME DisputeInv, [Next]_vars, NEW u \in Users, EscrowIs(u)
    PROVE  EscrowIs(u)'
<1> DEFINE NewHeld == SumFunctionOnSet(Amounts', HeldBy(u)')
           NewReleased == SumFunctionOnSet(Amounts', ReleasedBy(u)')
<1> SUFFICES ASSUME RaisedBy(u)' \cap (overlapped \cup retaken)' = {}
             PROVE  escrowHeld'[u] = NewHeld - NewReleased
  BY DEF EscrowIs, Sum
<1>1. /\ RaisedBy(u) \cap (overlapped \cup retaken) = {}
      /\ escrowHeld[u] = Sum(HeldBy(u)) - Sum(ReleasedBy(u))
  <2>1. RaisedBy(u) \subseteq RaisedBy(u)'
    BY PartiesStay DEF RaisedBy
  <2> QED
    BY <2>1, EscrowSteps DEF EscrowIs, Remembered
<1>2. Sum(HeldBy(u)) \in Int /\ Sum(ReleasedBy(u)) \in Int /\ escrowHeld[u] \in Int
  BY CountedExist, SumOfSome DEF DisputeInv, TypeOK
<1>3. /\ \A d : Held(d) \/ Released(d) => d \in Exists
      /\ \A d : Held(d)' \/ Released(d)' => d \in Exists'
      /\ HeldBy(u) \subseteq Exists /\ ReleasedBy(u) \subseteq Exists
      /\ \A d \in Exists : d \in Raises
  BY CountedExist, CountedExistNext, DocumentType
<1>4. ASSUME \A d \in Raises : Held(d)' <=> Held(d) PROVE NewHeld = Sum(HeldBy(u))
  <2>1. HeldBy(u)' = HeldBy(u)
    BY <1>3, <1>4, PartiesStay, DocumentsStay DEF HeldBy, RaisedBy, Exists
  <2> QED
    BY <1>3, <2>1, SumStays
<1>5. ASSUME \A d \in Raises : Released(d)' <=> Released(d)
      PROVE  NewReleased = Sum(ReleasedBy(u))
  <2>1. ReleasedBy(u)' = ReleasedBy(u)
    BY <1>3, <1>5, PartiesStay, DocumentsStay DEF ReleasedBy, RaisedBy, Exists
  <2> QED
    BY <1>3, <2>1, SumStays
<1>6. CASE QuietEscrow
  BY <1>1, <1>4, <1>5, <1>6 DEF QuietEscrow
<1>7. ASSUME NEW d \in Raises, Holds(d) PROVE escrowHeld'[u] = NewHeld - NewReleased
  <2>1. NewReleased = Sum(ReleasedBy(u)) /\ d \in Exists /\ disputes[d].amount \in Int
    BY <1>5, <1>7, DocumentType DEF Holds
  <2>2. CASE disputes[d].by = u
    <3>1. HeldBy(u)' = HeldBy(u) \cup {d} /\ d \notin HeldBy(u)
      BY <1>3, <1>7, <2>1, <2>2, PartiesStay, DocumentsStay DEF Holds, HeldBy, RaisedBy, Exists
    <3>2. NewHeld = disputes[d].amount + Sum(HeldBy(u))
      BY <1>3, <2>1, <3>1, SumGrows
    <3>3. escrowHeld'[u] = escrowHeld[u] + disputes[d].amount
      BY <1>7, <2>2 DEF Holds
    <3> QED
      BY <1>1, <1>2, <2>1, <3>2, <3>3
  <2>3. CASE disputes[d].by # u
    <3>1. HeldBy(u)' = HeldBy(u)
      BY <1>3, <1>7, <2>1, <2>3, PartiesStay, DocumentsStay DEF Holds, HeldBy, RaisedBy, Exists
    <3>2. NewHeld = Sum(HeldBy(u))
      BY <1>3, <3>1, SumStays
    <3>3. escrowHeld'[u] = escrowHeld[u]
      BY <1>7, <2>3 DEF Holds
    <3> QED
      BY <1>1, <2>1, <3>2, <3>3
  <2> QED
    BY <2>2, <2>3
<1>8. ASSUME NEW a \in Reviews, Releases(a) PROVE escrowHeld'[u] = NewHeld - NewReleased
  <2> PICK d \in Exists : d = target[a] /\ d \in Raises
    BY <1>3, <1>8 DEF Releases
  <2>1. Amount(a) = disputes[d].amount /\ By(a) = disputes[d].by /\ Amount(a) \in Int
    BY DocumentType DEF Amount, By
  <2>2. NewHeld = Sum(HeldBy(u))
    BY <1>4, <1>8 DEF Releases
  <2>3. CASE By(a) = u
    <3>1. d \notin overlapped \cup retaken
      BY <1>1, <2>1, <2>3 DEF RaisedBy
    <3>2. ReleasedBy(u)' = ReleasedBy(u) \cup {d} /\ d \notin ReleasedBy(u)
      <4>1. /\ \A x \in Raises : Released(x)' <=> Released(x) \/ x = d
            /\ ~Released(d) /\ d \in RaisedBy(u)
        BY <1>8, <2>1, <2>3, <3>1 DEF Releases, RaisedBy
      <4>2. /\ \A x \in Exists : x \in RaisedBy(u)' <=> x \in RaisedBy(u)
            /\ RaisedBy(u) \subseteq Exists /\ RaisedBy(u)' \subseteq Exists'
            /\ Exists \subseteq Exists' /\ Exists' \subseteq Raises
        BY PartiesStay, DocumentsStay DEF RaisedBy, Exists
      <4> QED
        BY <1>3, <4>1, <4>2 DEF ReleasedBy
    <3>3. NewReleased = disputes[d].amount + Sum(ReleasedBy(u))
      BY <1>3, <3>2, SumGrows
    <3>4. escrowHeld'[u] = escrowHeld[u] - Amount(a)
      BY <1>8, <2>3 DEF Releases
    <3> QED
      BY <1>1, <1>2, <2>1, <2>2, <3>3, <3>4
  <2>4. CASE By(a) # u
    <3>1. ReleasedBy(u)' = ReleasedBy(u)
      BY <1>3, <1>8, <2>1, <2>4, PartiesStay, DocumentsStay
         DEF Releases, ReleasedBy, RaisedBy, Exists
    <3>2. NewReleased = Sum(ReleasedBy(u))
      BY <1>3, <3>1, SumStays
    <3>3. escrowHeld'[u] = escrowHeld[u]
      BY <1>8, <2>4 DEF Releases
    <3> QED
      BY <1>1, <2>2, <3>2, <3>3
  <2> QED
    BY <2>3, <2>4
<1> QED
  BY <1>6, <1>7, <1>8, EscrowSteps

(* A wallet holds in escrow exactly the disputes still to be released,     *)
(* wherever requests stop and however often reviews are tried again, as    *)
(* long as no two admins worked on one of them at once and no review       *)
(* followed one that had stopped between release and verdict.              *)
THEOREM EscrowIsExact == Spec => []EscrowMatchesOpen
<1> DEFINE Escrows == \A u \in Users : EscrowIs(u)
<1>1. Init => Escrows
  <2> SUFFICES ASSUME Init, NEW u \in Users PROVE EscrowIs(u)
    OBVIOUS
  <2>1. HeldBy(u) = {} /\ ReleasedBy(u) = {}
    BY DEF Init, HeldBy, ReleasedBy, RaisedBy, Exists
  <2>2. Sum({}) = 0
    BY SumEmpty DEF Sum
  <2> QED
    BY <2>1, <2>2 DEF EscrowIs, Init
<1>2. DisputeInv /\ Escrows /\ [Next]_vars => Escrows'
  BY EscrowStep
<1>3. Escrows => EscrowMatchesOpen
  BY DEF EscrowMatchesOpen, EscrowIs, HeldBy, ReleasedBy
<1> QED
  BY <1>1, <1>2, <1>3, DisputeInit, DisputeInvStep, PTL DEF Spec
=============================================================================
