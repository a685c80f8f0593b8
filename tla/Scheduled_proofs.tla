-------------------------- MODULE Scheduled_proofs --------------------------
(***************************************************************************)
(* Proofs about Scheduled, for every set of users and schedules, every     *)
(* plan, and any number of jobs, tries and mishaps.                        *)
(*                                                                         *)
(* QueueInv says what BullMQ keeps: a job is active exactly while an       *)
(* attempt is under way, and has tries left while it waits.  On it rest    *)
(* the invariants of cancelled, processing and covered schedules and of    *)
(* the books, which every step moves in one of a few ways.                 *)
(***************************************************************************)
EXTENDS Scheduled, FiniteSetTheorems, TLAPS

JobsAreAdded ==
    /\ \A j \in Jobs : job[j] = "none" <=> of[j] = None
    /\ \A j \in marks : job[j] # "none"

ActiveByPoint == \A j \in Jobs : job[j] \in {"active", "stray"} <=> pc[j] # "idle"

\* A job has MaxTries attempts, and one more if it was given back.
TriesLeft ==
    \A j \in Jobs :
        /\ job[j] = "none" => tries[j] = 0
        /\ job[j] = "waiting" => tries[j] < Allowed(j)
        /\ job[j] = "active" => tries[j] <= Allowed(j)

QueueInv == TypeOK /\ JobsAreAdded /\ ActiveByPoint /\ TriesLeft

\* A job at work has a schedule with its parties and its amount.
LEMMA WorkType ==
    ASSUME QueueInv, NEW j \in Jobs, pc[j] # "idle" \/ j \in marks
    PROVE  /\ of[j] \in Schedules /\ From(j) \in Users /\ To(j) \in Users /\ From(j) # To(j)
           /\ Amount(j) \in Nat /\ Amount(j) > 0
           /\ seen[j] \in Nat /\ Execution(j) \in Schedules \X Nat
<1>1. of[j] \in Schedules /\ seen[j] \in Nat
  BY DEF QueueInv, TypeOK, JobsAreAdded, ActiveByPoint
<1>2. seen[j] + 1 \in Nat
  BY <1>1
<1> QED
  BY <1>1, <1>2, ScheduledAssumption DEF From, To, Amount, Execution

\* A write of a status changes one document, and not its count.
LEMMA WriteType ==
    ASSUME QueueInv, NEW s \in Schedules, NEW status \in Statuses, Write(s, status)
    PROVE  /\ docs' \in [Schedules -> Documents]
           /\ docs'[s].status = status /\ docs'[s].count = docs[s].count
           /\ \A z \in Schedules \ {s} : docs'[z] = docs[z]
<1>1. docs' = [docs EXCEPT ![s] = [docs[s] EXCEPT !.status = status]]
  BY DEF Write
<1>2. ASSUME NEW d \in Documents
      PROVE  /\ [d EXCEPT !.status = status] \in Documents
             /\ [d EXCEPT !.status = status].status = status
             /\ [d EXCEPT !.status = status].count = d.count
  BY DEF Documents
<1>3. docs \in [Schedules -> Documents]
  BY DEF QueueInv, TypeOK
<1> HIDE DEF Documents
<1> QED
  BY <1>1, <1>2, <1>3

\* A finished execution is counted once.
LEMMA FinishType ==
    ASSUME QueueInv, NEW j \in Jobs, Finish(j)
    PROVE  /\ docs' \in [Schedules -> Documents]
           /\ docs'[of[j]].count = docs[of[j]].count + 1
           /\ docs'[of[j]].status \in {"pending", "completed"}
           /\ \A z \in Schedules \ {of[j]} : docs'[z] = docs[z]
<1> DEFINE S == IF Plan[of[j]].recurring THEN "pending" ELSE "completed"
<1>1. docs' = [docs EXCEPT ![of[j]] = [[docs[of[j]] EXCEPT !.count = @ + 1] EXCEPT !.status = S]]
  BY DEF Finish, QueueInv, TypeOK
<1>2. S \in Statuses /\ S \in {"pending", "completed"}
  BY DEF Statuses
<1> HIDE DEF S
<1>3. ASSUME NEW d \in Documents
      PROVE  LET e == [[d EXCEPT !.count = @ + 1] EXCEPT !.status = S] IN
             e \in Documents /\ e.status = S /\ e.count = d.count + 1
  <2>1. d.count + 1 \in Nat
    BY DEF Documents
  <2> QED
    BY <1>2, <2>1 DEF Documents
<1>4. docs \in [Schedules -> Documents] /\ of[j] \in Schedules
  BY WorkType DEF QueueInv, TypeOK, Finish
<1> HIDE DEF Documents
<1> QED
  BY <1>1, <1>2, <1>3, <1>4

\* Mishaps stay within their bound.
LEMMA MishapType == ASSUME QueueInv, Mishap PROVE mishaps' \in 0 .. MaxMishaps
  BY ScheduledAssumption DEF QueueInv, TypeOK, Mishap

\* What a document consists of.
LEMMA DocumentType ==
    ASSUME QueueInv, NEW s \in Schedules
    PROVE  docs[s].count \in Nat /\ docs[s].status \in Statuses
  BY DEF QueueInv, TypeOK, Documents

\* The end of attempts keeps the types.
LEMMA EndType ==
    ASSUME QueueInv, NEW js, NEW again, js \subseteq Running,
           End(js, again)
    PROVE  /\ lock' \in [Users -> Jobs \cup {Free}] /\ job' \in [Jobs -> JobStates]
           /\ pc' \in [Jobs -> Points] /\ seen' \in [Jobs -> Nat]
           /\ late' \subseteq Schedules /\ drift' \in [Jobs -> Nat]
<1> USE DEF QueueInv, TypeOK, End
<1>1. lock' \in [Users -> Jobs \cup {Free}]
  BY DEF Unlock
<1>2. job' \in [Jobs -> JobStates] /\ pc' \in [Jobs -> Points] /\ drift' \in [Jobs -> Nat]
  BY DEF JobStates, Points
<1>3. seen' \in [Jobs -> Nat]
  BY DEF Forget
<1>4. \A j \in js : of[j] \in Schedules
  BY WorkType DEF ActiveByPoint, Running
<1>5. late' \subseteq Schedules
  BY <1>4
<1> QED
  BY <1>1, <1>2, <1>3, <1>5

\* Every step keeps the types.
LEMMA TypeStep == ASSUME QueueInv, [Next]_vars PROVE TypeOK'
<1> USE WorkType, WriteType, MishapType DEF QueueInv, TypeOK, Goto, Turn,
        walletVars, requestVars, queueVars, attemptVars, history, bounds, Statuses, Fronts,
        JobStates, Points
<1>1. ASSUME NEW s \in Schedules, CreateDocument(s) PROVE TypeOK'
  BY <1>1 DEF CreateDocument
<1>2. ASSUME NEW s \in Schedules, AddJob(s) PROVE TypeOK'
  BY <1>2 DEF AddJob, Add, NextId
<1>3. ASSUME NEW s \in Schedules, ReadPending(s) PROVE TypeOK'
  BY <1>3 DEF ReadPending
<1>4. ASSUME NEW s \in Schedules, RemoveJob(s) PROVE TypeOK'
  BY <1>4 DEF RemoveJob
<1>5. ASSUME NEW s \in Schedules, SetCancelled(s) PROVE TypeOK'
  BY <1>5 DEF SetCancelled
<1>6. ASSUME NEW s \in Schedules, StopRequest(s) PROVE TypeOK'
  BY <1>6 DEF StopRequest
<1>7. ASSUME NEW j \in Jobs, Start(j) PROVE TypeOK'
  <2>1. tries[j] + 1 \in 0 .. MaxTries + 1
    BY <1>7, ScheduledAssumption DEF Start, TriesLeft, Allowed
  <2> QED
    BY <1>7, <2>1 DEF Start
<1>8. ASSUME NEW j \in Jobs, Read(j) PROVE TypeOK'
  <2>1. docs[of[j]].count \in Nat
    BY <1>8, DocumentType DEF Read
  <2> QED
    BY <1>8, <2>1 DEF Read
<1>9. ASSUME NEW j \in Jobs, MarkProcessing(j) PROVE TypeOK'
  BY <1>9 DEF MarkProcessing
<1>10. ASSUME NEW j \in Jobs, Funds(j) PROVE TypeOK'
  BY <1>10 DEF Funds
<1>11. ASSUME NEW j \in Jobs, Refuse(j) PROVE TypeOK'
  BY <1>11 DEF Refuse
<1>12. ASSUME NEW j \in Jobs, Acquire(j) PROVE TypeOK'
  BY <1>12 DEF Acquire
<1>13. ASSUME NEW j \in Jobs, Debit(j) PROVE TypeOK'
  BY <1>13 DEF Debit, Gone
<1>14. ASSUME NEW j \in Jobs, Credit(j) PROVE TypeOK'
  BY <1>14 DEF Credit
<1>15. ASSUME NEW j \in Jobs, Record(j) PROVE TypeOK'
  BY <1>15 DEF Record
<1>16. ASSUME NEW j \in Jobs, Finish(j) PROVE TypeOK'
  <2>1. docs' \in [Schedules -> Documents]
    BY <1>16, FinishType
  <2> QED
    BY <1>16, <2>1 DEF Finish
<1>17. ASSUME NEW j \in Jobs, Readd(j) PROVE TypeOK'
  BY <1>17 DEF Readd, Add, NextId
<1>18. ASSUME NEW j \in Jobs, Relink(j) PROVE TypeOK'
  BY <1>18 DEF Relink
<1>19. ASSUME NEW j \in Jobs, Release(j) PROVE TypeOK'
  BY <1>19 DEF Release, Unlock, Forget
<1>20. ASSUME NEW j \in Jobs, Throw(j) PROVE TypeOK'
  <2>1. {j} \subseteq Running /\ \E again : End({j}, again)
    BY <1>20 DEF Throw, Running
  <2>2. /\ lock' \in [Users -> Jobs \cup {Free}] /\ job' \in [Jobs -> JobStates]
        /\ pc' \in [Jobs -> Points] /\ seen' \in [Jobs -> Nat]
        /\ late' \subseteq Schedules /\ drift' \in [Jobs -> Nat]
    BY <2>1, EndType
  <2>3. /\ UNCHANGED <<balance, held, front, records, of, tries, paid, given, quiet>>
        /\ UNCHANGED <<stalled, spends>> /\ marks' \subseteq Jobs
    BY <1>20 DEF Throw, Running, End
  <2>5. of[j] \in Schedules
    BY <1>20 DEF Throw, Running, ActiveByPoint
  <2>6. lost' \subseteq Schedules
    BY <1>20, <2>5 DEF Throw, End
  <2>4. docs' \in [Schedules -> Documents] /\ mishaps' \in 0 .. MaxMishaps
    BY <1>20 DEF Throw, Running, ActiveByPoint
  <2> QED
    BY <2>2, <2>3, <2>4, <2>6
<1>21. ASSUME NEW j \in Jobs, Mark(j) PROVE TypeOK'
  BY <1>21 DEF Mark
<1>22. ASSUME NEW u \in Users, Spend(u) PROVE TypeOK'
  <2>1. spends' \in 0 .. MaxSpends
    BY <1>22, ScheduledAssumption DEF Spend
  <2>2. balance' \in [Users -> Int]
    BY <1>22 DEF Spend
  <2> QED
    BY <1>22, <2>1, <2>2 DEF Spend, Gone
<1>23. ASSUME NEW u \in Users, Expire(u) PROVE TypeOK'
  BY <1>23 DEF Expire
<1>27. ASSUME NEW u \in Users, MoveHold(u) PROVE TypeOK'
  <2>1. spends' \in 0 .. MaxSpends
    BY <1>27, ScheduledAssumption DEF MoveHold
  <2>2. PICK h \in HoldLevels :
          /\ held' = [held EXCEPT ![u] = h]
          /\ drift' = IF h > held[u] THEN Gone(u, h - held[u]) ELSE drift
    BY <1>27 DEF MoveHold
  <2>3. h \in Int /\ held[u] \in Int
    BY ScheduledAssumption
  <2>4. h > held[u] => h - held[u] \in Nat
    BY <2>3
  <2>5. drift' \in [Jobs -> Nat]
    BY <2>2, <2>4 DEF Gone
  <2> QED
    BY <1>27, <2>1, <2>2, <2>3, <2>5 DEF MoveHold
<1>28. ASSUME NEW j \in Jobs, Lapse(j) PROVE TypeOK'
  BY <1>28 DEF Lapse, NextId
<1>24. ASSUME Die PROVE TypeOK'
  <2>1. \E again : End(Running, again)
    BY <1>24 DEF Die, Running
  <2>2. /\ lock' \in [Users -> Jobs \cup {Free}] /\ job' \in [Jobs -> JobStates]
        /\ pc' \in [Jobs -> Points] /\ seen' \in [Jobs -> Nat]
        /\ late' \subseteq Schedules /\ drift' \in [Jobs -> Nat]
    BY <2>1, EndType
  <2>3. /\ UNCHANGED <<balance, held, front, records, of, tries, paid, given, quiet>>
        /\ UNCHANGED <<docs, spends>> /\ mishaps' \in 0 .. MaxMishaps
        /\ stalled' \subseteq Jobs /\ marks' \subseteq Jobs
    BY <1>24 DEF Die, Running, End
  <2>4. \A j \in marks \cup Running : of[j] \in Schedules
    BY DEF Running, ActiveByPoint
  <2>5. lost' \subseteq Schedules
    BY <1>24, <2>4 DEF Die, Running
  <2> QED
    BY <2>2, <2>3, <2>5
<1>25. CASE UNCHANGED vars
  BY <1>25 DEF vars
<1> HIDE DEF QueueInv, TypeOK
<1>26. \A s \in Schedules : Plan[s].from \in Users
  BY ScheduledAssumption
<1> QED
  BY <1>26, <1>1, <1>2, <1>3, <1>4, <1>5, <1>6, <1>7, <1>8, <1>9, <1>10, <1>11, <1>12, <1>13,
     <1>14, <1>15, <1>16, <1>17, <1>18, <1>19, <1>20, <1>21, <1>22, <1>23, <1>24, <1>25,
     <1>27, <1>28
     DEF Next, Request, Work

QueueParts == JobsAreAdded /\ ActiveByPoint /\ TriesLeft

\* Every step keeps the parts of QueueInv.
LEMMA QueueStep == ASSUME QueueInv, [Next]_vars PROVE QueueParts'
<1> USE ScheduledAssumption DEF QueueInv, QueueParts, TypeOK, JobsAreAdded, ActiveByPoint,
        TriesLeft, Allowed,
        Goto, walletVars, requestVars, queueVars, attemptVars, history, bounds
<1>1. ASSUME NEW s \in Schedules, CreateDocument(s) PROVE QueueParts'
  BY <1>1 DEF CreateDocument
<1>2. ASSUME NEW s \in Schedules, AddJob(s) PROVE QueueParts'
  BY <1>2 DEF AddJob, Add, NextId
<1>3. ASSUME NEW s \in Schedules, ReadPending(s) PROVE QueueParts'
  BY <1>3 DEF ReadPending
<1>4. ASSUME NEW s \in Schedules, RemoveJob(s) PROVE QueueParts'
  BY <1>4 DEF RemoveJob
<1>5. ASSUME NEW s \in Schedules, SetCancelled(s) PROVE QueueParts'
  BY <1>5 DEF SetCancelled
<1>6. ASSUME NEW s \in Schedules, StopRequest(s) PROVE QueueParts'
  BY <1>6 DEF StopRequest
<1>7. ASSUME NEW j \in Jobs, Start(j) PROVE QueueParts'
  BY <1>7 DEF Start
<1>8. ASSUME NEW j \in Jobs, Read(j) PROVE QueueParts'
  BY <1>8 DEF Read
<1>9. ASSUME NEW j \in Jobs, MarkProcessing(j) PROVE QueueParts'
  BY <1>9 DEF MarkProcessing
<1>10. ASSUME NEW j \in Jobs, Funds(j) PROVE QueueParts'
  BY <1>10 DEF Funds
<1>11. ASSUME NEW j \in Jobs, Refuse(j) PROVE QueueParts'
  BY <1>11 DEF Refuse
<1>12. ASSUME NEW j \in Jobs, Acquire(j) PROVE QueueParts'
  BY <1>12 DEF Acquire
<1>13. ASSUME NEW j \in Jobs, Debit(j) PROVE QueueParts'
  BY <1>13 DEF Debit
<1>14. ASSUME NEW j \in Jobs, Credit(j) PROVE QueueParts'
  BY <1>14 DEF Credit
<1>15. ASSUME NEW j \in Jobs, Record(j) PROVE QueueParts'
  BY <1>15 DEF Record
<1>16. ASSUME NEW j \in Jobs, Finish(j) PROVE QueueParts'
  BY <1>16 DEF Finish
<1>17. ASSUME NEW j \in Jobs, Readd(j) PROVE QueueParts'
  BY <1>17 DEF Readd, Add, NextId
<1>18. ASSUME NEW j \in Jobs, Relink(j) PROVE QueueParts'
  BY <1>18 DEF Relink
<1>19. ASSUME NEW j \in Jobs, Release(j) PROVE QueueParts'
  BY <1>19 DEF Release, Unlock, Forget
<1>20. ASSUME NEW j \in Jobs, Throw(j) PROVE QueueParts'
  <2>1. CASE job[j] = "active"
    BY <1>20, <2>1 DEF Throw, End
  <2>2. CASE job[j] = "stray"
    BY <1>20, <2>2 DEF Throw, End
  <2> QED
    BY <1>20, <2>1, <2>2 DEF Throw, Running
<1>21. ASSUME NEW j \in Jobs, Mark(j) PROVE QueueParts'
  BY <1>21 DEF Mark
<1>22. ASSUME NEW u \in Users, Spend(u) PROVE QueueParts'
  BY <1>22 DEF Spend
<1>23. ASSUME NEW u \in Users, Expire(u) PROVE QueueParts'
  BY <1>23 DEF Expire
<1>27. ASSUME NEW u \in Users, MoveHold(u) PROVE QueueParts'
  BY <1>27 DEF MoveHold
<1>28. ASSUME NEW j \in Jobs, Lapse(j) PROVE QueueParts'
  BY <1>28 DEF Lapse, NextId
<1>24. ASSUME Die PROVE QueueParts'
  BY <1>24 DEF Die, Running, End
<1>25. CASE UNCHANGED vars
  BY <1>25 DEF vars
<1> HIDE DEF QueueInv, QueueParts
<1>26. \A s \in Schedules : Plan[s].from \in Users
  BY ScheduledAssumption
<1> QED
  BY <1>26, <1>1, <1>2, <1>3, <1>4, <1>5, <1>6, <1>7, <1>8, <1>9, <1>10, <1>11, <1>12, <1>13,
     <1>14, <1>15, <1>16, <1>17, <1>18, <1>19, <1>20, <1>21, <1>22, <1>23, <1>24, <1>25,
     <1>27, <1>28
     DEF Next, Request, Work

\* QueueInv is inductive.
LEMMA QueueInvStep == ASSUME QueueInv, [Next]_vars PROVE QueueInv'
  BY TypeStep, QueueStep DEF QueueInv, QueueParts

\* It holds at first.
LEMMA QueueInit == ASSUME Init PROVE QueueInv
<1> USE ScheduledAssumption DEF Init
<1>1. TypeOK
  BY DEF TypeOK, Statuses, Documents, Fronts, JobStates, Points
<1> QED
  BY <1>1 DEF QueueInv, JobsAreAdded, ActiveByPoint, TriesLeft, Allowed

-----------------------------------------------------------------------------
(* Cancellation *)

\* The attempts of a schedule cancelled in quiet have not got past the read.
QuietIsCancelled ==
    \A s \in quiet :
        /\ docs[s].status = "cancelled" /\ front[s] = "idle"
        /\ \A j \in JobsOf(s) : pc[j] \in {"idle", "read", "skip"}

\* Every step keeps a quiet schedule cancelled.
LEMMA QuietStep == ASSUME QueueInv, QuietIsCancelled, [Next]_vars PROVE QuietIsCancelled'
<1> USE ScheduledAssumption, WorkType, WriteType DEF QueueInv, TypeOK, JobsAreAdded,
        ActiveByPoint,
        QuietIsCancelled, Goto, Turn, Underway, Running, JobsOf, Statuses, walletVars,
        requestVars, queueVars, attemptVars, history, bounds
<1>1. ASSUME NEW s \in Schedules, CreateDocument(s) PROVE QuietIsCancelled'
  BY <1>1 DEF CreateDocument
<1>2. ASSUME NEW s \in Schedules, AddJob(s) PROVE QuietIsCancelled'
  BY <1>2 DEF AddJob, Add, NextId
<1>3. ASSUME NEW s \in Schedules, ReadPending(s) PROVE QuietIsCancelled'
  BY <1>3 DEF ReadPending
<1>4. ASSUME NEW s \in Schedules, RemoveJob(s) PROVE QuietIsCancelled'
  BY <1>4 DEF RemoveJob
<1>5. ASSUME NEW s \in Schedules, SetCancelled(s) PROVE QuietIsCancelled'
  BY <1>5 DEF SetCancelled
<1>6. ASSUME NEW s \in Schedules, StopRequest(s) PROVE QuietIsCancelled'
  BY <1>6 DEF StopRequest
<1>7. ASSUME NEW j \in Jobs, Start(j) PROVE QuietIsCancelled'
  BY <1>7 DEF Start
<1>8. ASSUME NEW j \in Jobs, Read(j) PROVE QuietIsCancelled'
  BY <1>8 DEF Read
<1>9. ASSUME NEW j \in Jobs, MarkProcessing(j) PROVE QuietIsCancelled'
  BY <1>9 DEF MarkProcessing
<1>10. ASSUME NEW j \in Jobs, Funds(j) PROVE QuietIsCancelled'
  BY <1>10 DEF Funds
<1>11. ASSUME NEW j \in Jobs, Refuse(j) PROVE QuietIsCancelled'
  BY <1>11 DEF Refuse
<1>12. ASSUME NEW j \in Jobs, Acquire(j) PROVE QuietIsCancelled'
  BY <1>12 DEF Acquire
<1>13. ASSUME NEW j \in Jobs, Debit(j) PROVE QuietIsCancelled'
  BY <1>13 DEF Debit
<1>14. ASSUME NEW j \in Jobs, Credit(j) PROVE QuietIsCancelled'
  BY <1>14 DEF Credit
<1>15. ASSUME NEW j \in Jobs, Record(j) PROVE QuietIsCancelled'
  BY <1>15 DEF Record
<1>16. ASSUME NEW j \in Jobs, Finish(j) PROVE QuietIsCancelled'
  <2>1. /\ docs'[of[j]].status \in {"pending", "completed"}
        /\ \A z \in Schedules \ {of[j]} : docs'[z] = docs[z]
    BY <1>16, FinishType
  <2>2. /\ pc[j] = "finish"
        /\ pc' = [pc EXCEPT ![j] = "readd"] \/ pc' = [pc EXCEPT ![j] = "release"]
        /\ UNCHANGED <<front, of, job, marks, lost, quiet>>
    BY <1>16 DEF Finish
  <2>3. of[j] \in Schedules \ quiet
    BY <1>16, <2>2, WorkType
  <2>4. \A s \in quiet : docs'[s] = docs[s] /\ \A k \in JobsOf(s) : k # j
    BY <2>1, <2>3
  <2>5. ASSUME NEW s \in quiet, NEW k \in JobsOf(s) PROVE pc'[k] = pc[k]
    BY <2>2, <2>4, <2>5
  <2> QED
    BY <2>2, <2>4, <2>5
<1>17. ASSUME NEW j \in Jobs, Readd(j) PROVE QuietIsCancelled'
  BY <1>17 DEF Readd, Add, NextId
<1>18. ASSUME NEW j \in Jobs, Relink(j) PROVE QuietIsCancelled'
  BY <1>18 DEF Relink
<1>19. ASSUME NEW j \in Jobs, Release(j) PROVE QuietIsCancelled'
  BY <1>19 DEF Release, Unlock, Forget
<1>20. ASSUME NEW j \in Jobs, Throw(j) PROVE QuietIsCancelled'
  BY <1>20 DEF Throw, Running, End
<1>21. ASSUME NEW j \in Jobs, Mark(j) PROVE QuietIsCancelled'
  BY <1>21 DEF Mark
<1>22. ASSUME NEW u \in Users, Spend(u) PROVE QuietIsCancelled'
  BY <1>22 DEF Spend
<1>23. ASSUME NEW u \in Users, Expire(u) PROVE QuietIsCancelled'
  BY <1>23 DEF Expire
<1>27. ASSUME NEW u \in Users, MoveHold(u) PROVE QuietIsCancelled'
  BY <1>27 DEF MoveHold
<1>28. ASSUME NEW j \in Jobs, Lapse(j) PROVE QuietIsCancelled'
  BY <1>28 DEF Lapse, NextId
<1>24. ASSUME Die PROVE QuietIsCancelled'
  BY <1>24 DEF Die, Running, End
<1>25. CASE UNCHANGED vars
  BY <1>25 DEF vars
<1> HIDE DEF QueueInv, QuietIsCancelled
<1>26. \A s \in Schedules : Plan[s].from \in Users
  BY ScheduledAssumption
<1> QED
  BY <1>26, <1>1, <1>2, <1>3, <1>4, <1>5, <1>6, <1>7, <1>8, <1>9, <1>10, <1>11, <1>12, <1>13,
     <1>14, <1>15, <1>16, <1>17, <1>18, <1>19, <1>20, <1>21, <1>22, <1>23, <1>24, <1>25,
     <1>27, <1>28
     DEF Next, Request, Work

(* Once a transfer has been cancelled with no attempt under way, no job of *)
(* it takes money, until a failed handler writes over the status.          *)
THEOREM CancelledStaysUnpaid == Spec => QuietCancelHolds
<1>1. Init => QuietIsCancelled
  BY DEF Init, QuietIsCancelled
<1>2. ASSUME QueueInv, QuietIsCancelled, [Next]_vars PROVE \A s \in quiet : paid'[s] = paid[s]
  <2>1. ASSUME NEW j \in Jobs, Debit(j) PROVE \A s \in quiet : paid'[s] = paid[s]
    BY <1>2, <2>1, WorkType DEF Debit, QuietIsCancelled, JobsOf, QueueInv, TypeOK
  <2>2. ASSUME \A j \in Jobs : ~Debit(j) PROVE UNCHANGED paid
    BY <1>2, <2>2 DEF Next, Request, Work, CreateDocument, AddJob, ReadPending, RemoveJob,
       SetCancelled, StopRequest, Start, Read, MarkProcessing, Funds, Refuse, Acquire, Credit,
       Record, Finish, Readd, Relink, Release, Throw, Lapse, Mark, Spend, MoveHold, Expire,
       Die, End, vars, history
  <2> QED
    BY <2>1, <2>2
<1>3. QueueInv /\ QuietIsCancelled /\ [Next]_vars => [\A s \in quiet : paid'[s] = paid[s]]_vars
  BY <1>2
<1> QED
  BY <1>1, <1>3, QuietStep, QueueInit, QueueInvStep, PTL DEF Spec, QuietCancelHolds

-----------------------------------------------------------------------------
(* Nothing stays "processing" *)

Working ==
    {"read", "mark", "funds", "refuse", "lock", "contend", "debit", "credit", "record", "finish"}

Attended(s) ==
    \/ \E j \in JobsOf(s) : job[j] = "waiting" \/ j \in marks \/ pc[j] \in Working
    \/ front[s] \in {"remove", "cancel"}
    \/ s \in lost

ProcessingAttended == \A s \in Schedules : docs[s].status = "processing" => Attended(s)

\* Every step leaves somebody to attend to a schedule in processing.
LEMMA AttendedStep == ASSUME QueueInv, ProcessingAttended, [Next]_vars PROVE ProcessingAttended'
<1> USE ScheduledAssumption DEF QueueInv, TypeOK, JobsAreAdded, ActiveByPoint,
        ProcessingAttended, Attended, Working, Goto, Turn, JobsOf, Statuses, walletVars,
            requestVars, queueVars, attemptVars, history, bounds
<1>1. ASSUME NEW s \in Schedules, CreateDocument(s) PROVE ProcessingAttended'
  BY <1>1, WorkType, WriteType DEF CreateDocument
<1>2. ASSUME NEW s \in Schedules, AddJob(s) PROVE ProcessingAttended'
  BY <1>2 DEF AddJob, Add, NextId
<1>3. ASSUME NEW s \in Schedules, ReadPending(s) PROVE ProcessingAttended'
  BY <1>3 DEF ReadPending
<1>4. ASSUME NEW s \in Schedules, RemoveJob(s) PROVE ProcessingAttended'
  BY <1>4 DEF RemoveJob
<1>5. ASSUME NEW s \in Schedules, SetCancelled(s) PROVE ProcessingAttended'
  BY <1>5, WorkType, WriteType DEF SetCancelled
<1>6. ASSUME NEW s \in Schedules, StopRequest(s) PROVE ProcessingAttended'
  BY <1>6 DEF StopRequest
<1>7. ASSUME NEW j \in Jobs, Start(j) PROVE ProcessingAttended'
  BY <1>7 DEF Start
<1>8. ASSUME NEW j \in Jobs, Read(j) PROVE ProcessingAttended'
  BY <1>8 DEF Read
<1>9. ASSUME NEW j \in Jobs, MarkProcessing(j) PROVE ProcessingAttended'
  BY <1>9, WorkType, WriteType DEF MarkProcessing
<1>10. ASSUME NEW j \in Jobs, Funds(j) PROVE ProcessingAttended'
  <2>1. /\ pc[j] = "funds"
        /\ pc' = [pc EXCEPT ![j] = "refuse"] \/ pc' = [pc EXCEPT ![j] = "lock"]
        /\ UNCHANGED <<docs, front, of, job, marks, lost>>
    BY <1>10 DEF Funds
  <2> QED
    BY <2>1
<1>11. ASSUME NEW j \in Jobs, Refuse(j) PROVE ProcessingAttended'
  <2>1. docs'[of[j]].status = "failed" /\ \A z \in Schedules \ {of[j]} : docs'[z] = docs[z]
    BY <1>11, WorkType, WriteType DEF Refuse
  <2>2. /\ pc[j] = "refuse" /\ pc' = [pc EXCEPT ![j] = "skip"]
        /\ UNCHANGED <<front, of, job, marks, lost>>
    BY <1>11 DEF Refuse
  <2> QED
    BY <2>1, <2>2
<1>12. ASSUME NEW j \in Jobs, Acquire(j) PROVE ProcessingAttended'
  BY <1>12 DEF Acquire
<1>13. ASSUME NEW j \in Jobs, Debit(j) PROVE ProcessingAttended'
  BY <1>13 DEF Debit
<1>14. ASSUME NEW j \in Jobs, Credit(j) PROVE ProcessingAttended'
  BY <1>14 DEF Credit
<1>15. ASSUME NEW j \in Jobs, Record(j) PROVE ProcessingAttended'
  BY <1>15 DEF Record
<1>16. ASSUME NEW j \in Jobs, Finish(j) PROVE ProcessingAttended'
  <2>1. /\ docs'[of[j]].status \in {"pending", "completed"}
        /\ \A z \in Schedules \ {of[j]} : docs'[z] = docs[z]
    BY <1>16, FinishType
  <2>2. /\ pc[j] = "finish"
        /\ pc' = [pc EXCEPT ![j] = "readd"] \/ pc' = [pc EXCEPT ![j] = "release"]
        /\ UNCHANGED <<front, of, job, marks, lost, quiet>>
    BY <1>16 DEF Finish
  <2> QED
    BY <2>1, <2>2
<1>17. ASSUME NEW j \in Jobs, Readd(j) PROVE ProcessingAttended'
  BY <1>17 DEF Readd, Add, NextId
<1>18. ASSUME NEW j \in Jobs, Relink(j) PROVE ProcessingAttended'
  BY <1>18 DEF Relink
<1>19. ASSUME NEW j \in Jobs, Release(j) PROVE ProcessingAttended'
  BY <1>19 DEF Release, Unlock, Forget
<1>20. ASSUME NEW j \in Jobs, Throw(j) PROVE ProcessingAttended'
  <2>1. CASE job[j] = "active"
    BY <1>20, <2>1, WorkType, WriteType DEF Throw, End
  <2>2. CASE job[j] = "stray"
    <3>1. /\ of[j] \in Schedules /\ lost' = lost \cup {of[j]} /\ UNCHANGED <<front, of, marks>>
          /\ \A k \in Jobs \ {j} : pc'[k] = pc[k] /\ job'[k] = job[k]
      BY <1>20, <2>2, WorkType DEF Throw, End
    <3>2. \A s \in Schedules \ {of[j]} : docs'[s] = docs[s]
      BY <1>20, <3>1, WriteType DEF Throw
    <3> QED
      BY <3>1, <3>2
  <2> QED
    BY <1>20, <2>1, <2>2 DEF Throw, Running
<1>21. ASSUME NEW j \in Jobs, Mark(j) PROVE ProcessingAttended'
  BY <1>21, WorkType, WriteType DEF Mark
<1>22. ASSUME NEW u \in Users, Spend(u) PROVE ProcessingAttended'
  BY <1>22 DEF Spend
<1>23. ASSUME NEW u \in Users, Expire(u) PROVE ProcessingAttended'
  BY <1>23 DEF Expire
<1>27. ASSUME NEW u \in Users, MoveHold(u) PROVE ProcessingAttended'
  BY <1>27 DEF MoveHold
<1>28. ASSUME NEW j \in Jobs, Lapse(j) PROVE ProcessingAttended'
  BY <1>28 DEF Lapse, NextId
<1>24. ASSUME Die PROVE ProcessingAttended'
  BY <1>24 DEF Die, Running, End
<1>25. CASE UNCHANGED vars
  BY <1>25 DEF vars
<1> HIDE DEF QueueInv, ProcessingAttended
<1>26. \A s \in Schedules : Plan[s].from \in Users
  BY ScheduledAssumption
<1> QED
  BY <1>26, <1>1, <1>2, <1>3, <1>4, <1>5, <1>6, <1>7, <1>8, <1>9, <1>10, <1>11, <1>12, <1>13,
     <1>14, <1>15, <1>16, <1>17, <1>18, <1>19, <1>20, <1>21, <1>22, <1>23, <1>24, <1>25,
     <1>27, <1>28
     DEF Next, Request, Work

(* No schedule is left "processing" with nobody to write over it, however  *)
(* its attempts fail, die and are given back.                              *)
THEOREM NoneIsLeftProcessing == Spec => []ProcessingIsAttended
<1>1. Init => ProcessingAttended
  BY DEF Init, ProcessingAttended
<1>2. QueueInv /\ ProcessingAttended => ProcessingIsAttended
  BY DEF QueueInv, ActiveByPoint, ProcessingAttended, Attended, Working, ProcessingIsAttended,
         Underway, Running, JobsOf
<1> QED
  BY <1>1, <1>2, AttendedStep, QueueInit, QueueInvStep, PTL DEF Spec

-----------------------------------------------------------------------------
(* The funds *)

\* What an attempt has read covers it, but for what was taken or held since.
CoverInv ==
    \A j \in Jobs : IF Checked(j) THEN Available(From(j)) + drift[j] >= Amount(j)
                                 ELSE drift[j] = 0

\* Every step keeps account of what has gone.
LEMMA CoverStep == ASSUME QueueInv, CoverInv, [Next]_vars PROVE CoverInv'
<1> USE ScheduledAssumption, WorkType DEF QueueInv, TypeOK, JobsAreAdded, ActiveByPoint,
        CoverInv, Available, Checked, From, To, Amount, Goto, Gone,
        walletVars, requestVars, queueVars, attemptVars, history, bounds
<1>1. ASSUME NEW s \in Schedules, CreateDocument(s) PROVE CoverInv'
  BY <1>1 DEF CreateDocument
<1>2. ASSUME NEW s \in Schedules, AddJob(s) PROVE CoverInv'
  BY <1>2 DEF AddJob, Add, NextId
<1>3. ASSUME NEW s \in Schedules, ReadPending(s) PROVE CoverInv'
  BY <1>3 DEF ReadPending
<1>4. ASSUME NEW s \in Schedules, RemoveJob(s) PROVE CoverInv'
  BY <1>4 DEF RemoveJob
<1>5. ASSUME NEW s \in Schedules, SetCancelled(s) PROVE CoverInv'
  BY <1>5 DEF SetCancelled
<1>6. ASSUME NEW s \in Schedules, StopRequest(s) PROVE CoverInv'
  BY <1>6 DEF StopRequest
<1>7. ASSUME NEW j \in Jobs, Start(j) PROVE CoverInv'
  BY <1>7 DEF Start
<1>8. ASSUME NEW j \in Jobs, Read(j) PROVE CoverInv'
  BY <1>8 DEF Read
<1>9. ASSUME NEW j \in Jobs, MarkProcessing(j) PROVE CoverInv'
  BY <1>9 DEF MarkProcessing
<1>10. ASSUME NEW j \in Jobs, Funds(j) PROVE CoverInv'
  BY <1>10 DEF Funds
<1>11. ASSUME NEW j \in Jobs, Refuse(j) PROVE CoverInv'
  BY <1>11 DEF Refuse
<1>12. ASSUME NEW j \in Jobs, Acquire(j) PROVE CoverInv'
  BY <1>12 DEF Acquire
<1>13. ASSUME NEW j \in Jobs, Debit(j) PROVE CoverInv'
  BY <1>13 DEF Debit
<1>14. ASSUME NEW j \in Jobs, Credit(j) PROVE CoverInv'
  BY <1>14 DEF Credit
<1>15. ASSUME NEW j \in Jobs, Record(j) PROVE CoverInv'
  BY <1>15 DEF Record
<1>16. ASSUME NEW j \in Jobs, Finish(j) PROVE CoverInv'
  BY <1>16 DEF Finish
<1>17. ASSUME NEW j \in Jobs, Readd(j) PROVE CoverInv'
  BY <1>17 DEF Readd, Add, NextId
<1>18. ASSUME NEW j \in Jobs, Relink(j) PROVE CoverInv'
  BY <1>18 DEF Relink
<1>19. ASSUME NEW j \in Jobs, Release(j) PROVE CoverInv'
  BY <1>19 DEF Release, Unlock, Forget
<1>20. ASSUME NEW j \in Jobs, Throw(j) PROVE CoverInv'
  BY <1>20 DEF Throw, Running, End
<1>21. ASSUME NEW j \in Jobs, Mark(j) PROVE CoverInv'
  BY <1>21 DEF Mark
<1>22. ASSUME NEW u \in Users, Spend(u) PROVE CoverInv'
  BY <1>22 DEF Spend
<1>23. ASSUME NEW u \in Users, Expire(u) PROVE CoverInv'
  BY <1>23 DEF Expire
<1>27. ASSUME NEW u \in Users, MoveHold(u) PROVE CoverInv'
  BY <1>27 DEF MoveHold
<1>28. ASSUME NEW j \in Jobs, Lapse(j) PROVE CoverInv'
  BY <1>28 DEF Lapse, NextId
<1>24. ASSUME Die PROVE CoverInv'
  BY <1>24 DEF Die, Running, End
<1>25. CASE UNCHANGED vars
  BY <1>25 DEF vars
<1> HIDE DEF QueueInv, CoverInv
<1>26. \A s \in Schedules : Plan[s].from \in Users
  BY ScheduledAssumption
<1> QED
  BY <1>26, <1>1, <1>2, <1>3, <1>4, <1>5, <1>6, <1>7, <1>8, <1>9, <1>10, <1>11, <1>12, <1>13,
     <1>14, <1>15, <1>16, <1>17, <1>18, <1>19, <1>20, <1>21, <1>22, <1>23, <1>24, <1>25,
     <1>27, <1>28
     DEF Next, Request, Work

(* A debit takes its sender below what disputes hold of it by no more than *)
(* others took or held since the attempt read the wallet.                  *)
THEOREM ShortfallIsOthers == Spec => ShortByWhatOthersTook
<1>1. Init => CoverInv
  BY DEF Init, CoverInv, Checked
<1>2. ASSUME QueueInv, CoverInv, [Next]_vars
      PROVE  \A j \in Jobs : pc[j] = "debit" /\ pc'[j] = "credit" =>
                balance'[From(j)] - held'[From(j)] >= - drift[j]
  <2> SUFFICES ASSUME NEW j \in Jobs, pc[j] = "debit", pc'[j] = "credit"
               PROVE  balance'[From(j)] - held'[From(j)] >= - drift[j]
    OBVIOUS
  <2>1. Debit(j)
    <3> USE <1>2 DEF QueueInv, TypeOK, JobsAreAdded, ActiveByPoint, Goto, attemptVars
    <3>1. CASE \E i \in Jobs : Lapse(i)
      BY <3>1 DEF Lapse, NextId
    <3>2. CASE \E i \in Jobs : Throw(i)
      BY <3>2 DEF Throw, End
    <3>3. CASE \E i \in Jobs : Work(i) /\ ~Lapse(i) /\ ~Throw(i)
      BY <3>3 DEF Work, Start, Read, MarkProcessing, Funds, Refuse, Acquire, Debit, Credit,
         Record, Finish, Readd, Relink, Release, Mark
    <3>4. CASE \E s \in Schedules : Request(s)
      BY <3>4 DEF Request, CreateDocument, AddJob, ReadPending, RemoveJob, SetCancelled,
         StopRequest
    <3>5. CASE \/ UNCHANGED vars \/ Die \/ \E u \in Users : Expire(u)
               \/ \E s \in Schedules : Spend(Plan[s].from) \/ MoveHold(Plan[s].from)
      BY <3>5 DEF vars, Die, End, Expire, Spend, MoveHold
    <3> QED
      BY <3>1, <3>2, <3>3, <3>4, <3>5 DEF Next
  <2>2. /\ Available(From(j)) + drift[j] >= Amount(j)
        /\ balance' = [balance EXCEPT ![From(j)] = @ - Amount(j)] /\ held' = held
    BY <1>2, <2>1 DEF Debit, CoverInv, Checked
  <2>3. /\ From(j) \in Users /\ Amount(j) \in Nat /\ drift[j] \in Nat
        /\ balance[From(j)] \in Int /\ held[From(j)] \in Int
    BY <1>2, WorkType DEF QueueInv, TypeOK
  <2> QED
    BY <1>2, <2>2, <2>3 DEF Available, QueueInv, TypeOK
<1>3. QueueInv /\ CoverInv /\ [Next]_vars =>
          [\A j \in Jobs : pc[j] = "debit" /\ pc'[j] = "credit" =>
              balance'[From(j)] - held'[From(j)] >= - drift[j]]_vars
  BY <1>2
<1> QED
  BY <1>1, <1>3, CoverStep, QueueInit, QueueInvStep, PTL DEF Spec, ShortByWhatOthersTook

-----------------------------------------------------------------------------
(* The books *)

Recorded(s) == {r \in records : r[1] = s}
At(s, p) == {j \in JobsOf(s) : pc[j] = p}
\* The jobs of s that may have paid: each pays once unless an attempt breaks off.
Payers(s) == {j \in JobsOf(s) : Debited(j) \/ job[j] = "completed"}

Same(s) ==
    /\ paid'[s] = paid[s] /\ given'[s] = given[s] /\ docs'[s].count = docs[s].count
    /\ Recorded(s)' = Recorded(s)
    /\ \A p \in {"credit", "record", "finish"} : At(s, p)' = At(s, p)
    /\ s \in late' <=> s \in late
    /\ Payers(s) \subseteq Payers(s)'

Debits(s, j) ==
    /\ pc[j] = "debit" /\ paid'[s] = paid[s] + 1
    /\ given'[s] = given[s] /\ docs'[s].count = docs[s].count
    /\ Recorded(s)' = Recorded(s)
    /\ At(s, "credit")' = At(s, "credit") \cup {j}
    /\ \A p \in {"record", "finish"} : At(s, p)' = At(s, p)
    /\ s \in late' <=> s \in late
    /\ j \notin Payers(s) /\ Payers(s)' = Payers(s) \cup {j}

Credits(s, j) ==
    /\ pc[j] = "credit" /\ given'[s] = given[s] + 1
    /\ paid'[s] = paid[s] /\ docs'[s].count = docs[s].count
    /\ Recorded(s)' = Recorded(s)
    /\ At(s, "credit")' = At(s, "credit") \ {j} /\ At(s, "record")' = At(s, "record") \cup {j}
    /\ At(s, "finish")' = At(s, "finish")
    /\ s \in late' <=> s \in late
    /\ Payers(s)' = Payers(s)

Records(s, j) ==
    /\ pc[j] = "record" /\ <<s, seen[j] + 1>> \notin records
    /\ records' = records \cup {<<s, seen[j] + 1>>}
    /\ paid'[s] = paid[s] /\ given'[s] = given[s] /\ docs'[s].count = docs[s].count
    /\ At(s, "credit")' = At(s, "credit") /\ At(s, "record")' = At(s, "record") \ {j}
    /\ At(s, "finish")' = At(s, "finish") \cup {j}
    /\ s \in late' <=> s \in late
    /\ Payers(s)' = Payers(s)

Finishes(s, j) ==
    /\ pc[j] = "finish" /\ docs'[s].count = docs[s].count + 1
    /\ paid'[s] = paid[s] /\ given'[s] = given[s]
    /\ Recorded(s)' = Recorded(s)
    /\ \A p \in {"credit", "record"} : At(s, p)' = At(s, p)
    /\ At(s, "finish")' = At(s, "finish") \ {j}
    /\ s \in late' <=> s \in late
    /\ Payers(s)' = Payers(s)

\* An attempt of s that breaks off takes no more part, and marks it late if
\* it had debited.
Breaks(s) ==
    /\ paid'[s] = paid[s] /\ given'[s] = given[s] /\ docs'[s].count = docs[s].count
    /\ Recorded(s)' = Recorded(s)
    /\ \A p \in {"credit", "record", "finish"} : At(s, p)' \subseteq At(s, p)
    /\ s \in late => s \in late'
    /\ s \in late' \/ /\ \A p \in {"credit", "record", "finish"} : At(s, p)' = At(s, p)
                      /\ Payers(s) \subseteq Payers(s)'

\* A stray k takes the place of the attempt of j.
Passed(set, j, k) == IF j \in set THEN (set \ {j}) \cup {k} ELSE set

Passes(s, j, k) ==
    /\ paid'[s] = paid[s] /\ given'[s] = given[s] /\ docs'[s].count = docs[s].count
    /\ Recorded(s)' = Recorded(s)
    /\ \A p \in {"credit", "record", "finish"} :
          k \notin At(s, p) /\ At(s, p)' = Passed(At(s, p), j, k)
    /\ s \in late' <=> s \in late
    /\ k \notin Payers(s) /\ Payers(s)' = Passed(Payers(s), j, k)

\* A set keeps its size.
LEMMA PassedSize ==
    ASSUME NEW set, NEW j, NEW k, IsFiniteSet(set), k \notin set
    PROVE  Cardinality(Passed(set, j, k)) = Cardinality(set)
<1>1. CASE j \in set
  <2>1. IsFiniteSet(set \ {j}) /\ Cardinality(set \ {j}) = Cardinality(set) - 1
    BY <1>1, FS_RemoveElement
  <2>2. Cardinality((set \ {j}) \cup {k}) = Cardinality(set \ {j}) + 1
    BY <2>1, FS_AddElement
  <2>3. Cardinality(set) \in Nat
    BY FS_CardinalityType
  <2> QED
    BY <1>1, <2>1, <2>2, <2>3 DEF Passed
<1>2. CASE j \notin set
  BY <1>2 DEF Passed
<1> QED
  BY <1>1, <1>2

Moves(s) ==
    \/ Same(s) \/ Breaks(s) \/ \E j, k \in Jobs : Passes(s, j, k)
    \/ \E j \in JobsOf(s) : Debits(s, j) \/ Credits(s, j) \/ Records(s, j) \/ Finishes(s, j)

\* The end of attempts moves no money and makes late whoever has debited.
LEMMA EndBreaks ==
    ASSUME QueueInv, NEW s \in Schedules, NEW js, NEW again, End(js, again),
           again \subseteq js, js \subseteq Running,
           docs'[s].count = docs[s].count
    PROVE  Breaks(s)
<1> USE DEF Recorded, At, Payers, Debited, JobsOf, Running
<1>1. /\ UNCHANGED <<records, of, paid, given>>
      /\ late' = late \cup {of[k] : k \in {z \in js : Debited(z)}}
      /\ \A k \in js : pc'[k] = "idle" /\ job'[k] # "completed" /\ k \in Running
      /\ \A k \in Jobs \ js : pc'[k] = pc[k] /\ job'[k] = job[k]
  BY DEF End
<1>2. /\ Recorded(s)' = Recorded(s) /\ late \subseteq late'
      /\ paid'[s] = paid[s] /\ given'[s] = given[s]
  BY <1>1
<1>3. \A p \in {"credit", "record", "finish"} : At(s, p)' \subseteq At(s, p)
  BY <1>1
<1>4. CASE \E k \in js : of[k] = s /\ Debited(k)
  <2>1. s \in late'
    BY <1>1, <1>4
  <2> HIDE DEF Recorded, At, Payers, Debited
  <2> QED
    BY <1>2, <1>3, <2>1 DEF Breaks
<1>5. CASE ~\E k \in js : of[k] = s /\ Debited(k)
  <2>1. \A p \in {"credit", "record", "finish"} : At(s, p)' = At(s, p)
    BY <1>1, <1>5
  <2>2. Payers(s) \subseteq Payers(s)'
    BY <1>1, <1>5
  <2> HIDE DEF Recorded, At, Payers, Debited
  <2> QED
    BY <1>2, <1>3, <2>1, <2>2 DEF Breaks
<1> QED
  BY <1>4, <1>5

\* Every step moves the books of a schedule in one of the named ways.
LEMMA BookSteps == ASSUME QueueInv, [Next]_vars, NEW s \in Schedules PROVE Moves(s)
<1> USE ScheduledAssumption, WriteType DEF QueueInv, TypeOK, JobsAreAdded, ActiveByPoint,
        Recorded, At, Payers,
        Debited, JobsOf, Goto, Turn, Statuses, walletVars, requestVars, queueVars, attemptVars,
            history, bounds
<1>1. ASSUME NEW r \in Schedules, CreateDocument(r) PROVE Same(s)
  BY <1>1 DEF CreateDocument, Same
<1>2. ASSUME NEW r \in Schedules, AddJob(r) PROVE Same(s)
  BY <1>2 DEF AddJob, Add, NextId, Same
<1>3. ASSUME NEW r \in Schedules, ReadPending(r) PROVE Same(s)
  BY <1>3 DEF ReadPending, Same
<1>4. ASSUME NEW r \in Schedules, RemoveJob(r) PROVE Same(s)
  BY <1>4 DEF RemoveJob, Same
<1>5. ASSUME NEW r \in Schedules, SetCancelled(r) PROVE Same(s)
  BY <1>5 DEF SetCancelled, Same
<1>6. ASSUME NEW r \in Schedules, StopRequest(r) PROVE Same(s)
  BY <1>6 DEF StopRequest, Same
<1>7. ASSUME NEW j \in Jobs, Start(j) PROVE Same(s)
  BY <1>7 DEF Start, Same
<1>8. ASSUME NEW j \in Jobs, Read(j) PROVE Same(s)
  BY <1>8 DEF Read, Same
<1>9. ASSUME NEW j \in Jobs, MarkProcessing(j) PROVE Same(s)
  <2>1. docs'[s].count = docs[s].count
    BY <1>9, WorkType DEF MarkProcessing
  <2>2. /\ pc[j] = "mark" /\ pc' = [pc EXCEPT ![j] = "funds"]
        /\ UNCHANGED <<records, of, job, paid, given, late>>
    BY <1>9 DEF MarkProcessing
  <2> QED
    BY <2>1, <2>2 DEF Same
<1>10. ASSUME NEW j \in Jobs, Funds(j) PROVE Same(s)
  BY <1>10 DEF Funds, Same
<1>11. ASSUME NEW j \in Jobs, Refuse(j) PROVE Same(s)
  <2>1. docs'[s].count = docs[s].count
    BY <1>11, WorkType DEF Refuse
  <2>2. /\ pc[j] = "refuse" /\ pc' = [pc EXCEPT ![j] = "skip"]
        /\ UNCHANGED <<records, of, job, paid, given, late>>
    BY <1>11 DEF Refuse
  <2> QED
    BY <2>1, <2>2 DEF Same
<1>12. ASSUME NEW j \in Jobs, Acquire(j) PROVE Same(s)
  BY <1>12 DEF Acquire, Same
<1>13. ASSUME NEW j \in Jobs, Debit(j) PROVE Moves(s)
  <2>1. of[j] \in Schedules
    BY <1>13, WorkType DEF Debit
  <2>2. CASE of[j] = s
    <3>1. /\ pc[j] = "debit" /\ pc' = [pc EXCEPT ![j] = "credit"] /\ job[j] # "completed"
          /\ UNCHANGED <<docs, records, of, job, given, late>> /\ paid'[s] = paid[s] + 1
      BY <1>13, <2>2 DEF Debit
    <3>2. /\ Recorded(s)' = Recorded(s) /\ At(s, "credit")' = At(s, "credit") \cup {j}
          /\ \A p \in {"record", "finish"} : At(s, p)' = At(s, p)
      BY <2>2, <3>1
    <3>3. j \notin Payers(s) /\ Payers(s)' = Payers(s) \cup {j}
      BY <2>2, <3>1
    <3>4. Debits(s, j)
      BY <3>1, <3>2, <3>3 DEF Debits
    <3> QED
      BY <2>2, <3>4 DEF Moves, JobsOf
  <2>3. CASE of[j] # s
    <3>1. Same(s)
      BY <1>13, <2>1, <2>3 DEF Debit, Same
    <3> QED
      BY <3>1 DEF Moves
  <2> QED
    BY <2>2, <2>3
<1>14. ASSUME NEW j \in Jobs, Credit(j) PROVE Moves(s)
  <2>1. of[j] \in Schedules
    BY <1>14, WorkType DEF Credit
  <2>2. CASE of[j] = s
    <3>1. Credits(s, j)
      BY <1>14, <2>1, <2>2 DEF Credit, Credits, Same
    <3> QED
      BY <2>2, <3>1 DEF Moves, JobsOf
  <2>3. CASE of[j] # s
    <3>1. Same(s)
      BY <1>14, <2>1, <2>3 DEF Credit, Same
    <3> QED
      BY <3>1 DEF Moves
  <2> QED
    BY <2>2, <2>3
<1>15. ASSUME NEW j \in Jobs, Record(j) PROVE Moves(s)
  <2>1. of[j] \in Schedules
    BY <1>15, WorkType DEF Record
  <2>2. CASE of[j] = s
    <3>1. Records(s, j)
      BY <1>15, <2>1, <2>2 DEF Record, Records, Execution
    <3> QED
      BY <2>2, <3>1 DEF Moves, JobsOf
  <2>3. CASE of[j] # s
    <3>1. Execution(j)[1] # s
      BY <2>3 DEF Execution
    <3>2. Recorded(s)' = Recorded(s)
      BY <1>15, <3>1 DEF Record
    <3>3. /\ pc[j] = "record" /\ pc' = [pc EXCEPT ![j] = "finish"]
          /\ UNCHANGED <<docs, of, job, paid, given, late>>
      BY <1>15 DEF Record
    <3>4. Same(s)
      BY <2>1, <2>3, <3>2, <3>3 DEF Same
    <3> QED
      BY <3>4 DEF Moves
  <2> QED
    BY <2>2, <2>3
<1>16. ASSUME NEW j \in Jobs, Finish(j) PROVE Moves(s)
  <2>1. /\ of[j] \in Schedules /\ docs'[of[j]].count = docs[of[j]].count + 1
        /\ \A z \in Schedules \ {of[j]} : docs'[z] = docs[z]
    BY <1>16, FinishType, WorkType DEF Finish
  <2>2. /\ pc[j] = "finish"
        /\ pc' = [pc EXCEPT ![j] = "readd"] \/ pc' = [pc EXCEPT ![j] = "release"]
        /\ UNCHANGED <<front, records, of, job, paid, given, late>>
    BY <1>16 DEF Finish
  <2>3. CASE of[j] = s
    <3>1. Finishes(s, j)
      BY <2>1, <2>2, <2>3 DEF Finishes
    <3> QED
      BY <2>3, <3>1 DEF Moves, JobsOf
  <2>4. CASE of[j] # s
    <3>1. Same(s)
      BY <2>1, <2>2, <2>4 DEF Same
    <3> QED
      BY <3>1 DEF Moves
  <2> QED
    BY <2>3, <2>4
<1>17. ASSUME NEW j \in Jobs, Readd(j) PROVE Same(s)
  BY <1>17 DEF Readd, Add, NextId, Same
<1>18. ASSUME NEW j \in Jobs, Relink(j) PROVE Same(s)
  BY <1>18 DEF Relink, Same
<1>19. ASSUME NEW j \in Jobs, Release(j) PROVE Same(s)
  BY <1>19 DEF Release, Unlock, Forget, Same
<1>20. ASSUME NEW j \in Jobs, Throw(j) PROVE Moves(s)
  <2>1. \E again : End({j}, again) /\ again \subseteq {j}
    BY <1>20 DEF Throw, Running
  <2>2. docs'[s].count = docs[s].count
    BY <1>20, WorkType DEF Throw, Running
  <2>3. PICK again : End({j}, again) /\ again \subseteq {j}
    BY <2>1
  <2>4. {j} \subseteq Running
    BY <1>20 DEF Throw, Running
  <2>5. QueueInv
    OBVIOUS
  <2> HIDE DEF QueueInv, TypeOK, JobsAreAdded, ActiveByPoint, Recorded, At, Payers, Debited
  <2>6. Breaks(s)
    BY <2>2, <2>3, <2>4, <2>5, EndBreaks
  <2> QED
    BY <2>6 DEF Moves
<1>21. ASSUME NEW j \in Jobs, Mark(j) PROVE Same(s)
  BY <1>21 DEF Mark, Same
<1>22. ASSUME NEW u \in Users, Spend(u) PROVE Same(s)
  BY <1>22 DEF Spend, Same
<1>23. ASSUME NEW u \in Users, Expire(u) PROVE Same(s)
  BY <1>23 DEF Expire, Same
<1>27. ASSUME NEW u \in Users, MoveHold(u) PROVE Same(s)
  BY <1>27 DEF MoveHold, Same
<1>28. ASSUME NEW j \in Jobs, Lapse(j) PROVE Moves(s)
  <2>1. PICK k \in Jobs :
          /\ job[k] = "none" /\ job[j] = "active"
          /\ of' = [of EXCEPT ![k] = of[j]]
          /\ job' = [job EXCEPT ![k] = "stray",
                                ![j] = IF j \in stalled THEN "failed" ELSE "waiting"]
          /\ pc' = [pc EXCEPT ![k] = pc[j], ![j] = "idle"]
    BY <1>28 DEF Lapse, NextId
  <2>2. /\ k # j /\ pc[k] = "idle" /\ of[k] = None /\ of[j] \in Schedules
        /\ pc'[k] = pc[j] /\ pc'[j] = "idle" /\ of'[k] = of[j] /\ of'[j] = of[j]
        /\ job'[k] = "stray" /\ job'[j] # "completed"
        /\ \A z \in Jobs \ {j, k} : pc'[z] = pc[z] /\ of'[z] = of[z] /\ job'[z] = job[z]
    BY <2>1
  <2>3. UNCHANGED <<docs, records, paid, given, late>>
    BY <1>28 DEF Lapse
  <2>4. CASE of[j] # s
    <3>1. \A p \in {"credit", "record", "finish"} : At(s, p)' = At(s, p)
      BY <2>2, <2>4
    <3>2. JobsOf(s)' = JobsOf(s) /\ j \notin JobsOf(s) /\ k \notin JobsOf(s)
      <4>1. of'[j] # s /\ of[j] # s /\ of'[k] # s /\ of[k] # s
        BY <2>2, <2>4
      <4>2. \A z \in Jobs : of'[z] = s <=> of[z] = s
        BY <2>2, <4>1
      <4> QED
        BY <4>1, <4>2 DEF JobsOf
    <3>3. \A z \in JobsOf(s) : pc'[z] = pc[z] /\ job'[z] = job[z]
      BY <2>2, <3>2
    <3>4. Payers(s)' = Payers(s)
      BY <3>2, <3>3
    <3> HIDE DEF Recorded, At, Payers, Debited, JobsOf
    <3>5. Recorded(s)' = Recorded(s)
      BY <2>3 DEF Recorded
    <3> QED
      BY <2>3, <3>1, <3>4, <3>5 DEF Same, Moves
  <2>5. CASE of[j] = s
    <3>1. \A p \in {"credit", "record", "finish"} : At(s, p)' = Passed(At(s, p), j, k)
      BY <2>2, <2>5 DEF Passed
    <3>2. Payers(s)' = Passed(Payers(s), j, k)
      <4>1. /\ JobsOf(s)' = JobsOf(s) \cup {k} /\ k \notin JobsOf(s) /\ j \in JobsOf(s)
            /\ \A z \in JobsOf(s) \ {j} : Debited(z)' = Debited(z) /\ job'[z] = job[z]
        BY <2>2, <2>5
      <4>2. /\ Debited(k)' = Debited(j) /\ ~Debited(j)'
            /\ job'[k] # "completed" /\ job'[j] # "completed" /\ job[j] # "completed"
        BY <2>1, <2>2
      <4> HIDE DEF Debited, JobsOf
      <4> QED
        BY <4>1, <4>2 DEF Passed
    <3>3. /\ \A p \in {"credit", "record", "finish"} : k \notin At(s, p)
          /\ k \notin Payers(s)
      BY <2>1, <2>2
    <3> HIDE DEF Recorded, At, Payers, Debited, JobsOf
    <3>4. Recorded(s)' = Recorded(s)
      BY <2>3 DEF Recorded
    <3>5. Passes(s, j, k)
      BY <2>3, <3>1, <3>2, <3>3, <3>4 DEF Passes
    <3> QED
      BY <3>5 DEF Moves
  <2> QED
    BY <2>4, <2>5
<1>24. ASSUME Die PROVE Moves(s)
  <2>1. \E again : End(Running, again) /\ again \subseteq Running
    <3> DEFINE js == {j \in Jobs : job[j] = "active"}
    <3>1. End(Running, js \ stalled)
      BY <1>24 DEF Die
    <3>2. js \ stalled \subseteq Running
      BY DEF Running
    <3> QED
      BY <3>1, <3>2
  <2>2. docs'[s].count = docs[s].count
    BY <1>24 DEF Die, Running
  <2> HIDE DEF QueueInv, TypeOK, JobsAreAdded, ActiveByPoint, Recorded, At, Payers, Debited
  <2>3. Breaks(s)
    BY <2>1, <2>2, EndBreaks
  <2> QED
    BY <2>3 DEF Moves
<1>25. CASE UNCHANGED vars
  <2>1. UNCHANGED <<docs, records, of, job, pc, paid, given, late>>
    BY <1>25 DEF vars
  <2>2. /\ Recorded(s)' = Recorded(s) /\ Payers(s)' = Payers(s)
        /\ \A p \in {"credit", "record", "finish"} : At(s, p)' = At(s, p)
    BY <2>1
  <2> HIDE DEF Recorded, At, Payers, Debited
  <2> QED
    BY <2>1, <2>2 DEF Same, Moves
<1> HIDE DEF QueueInv, TypeOK, JobsAreAdded, ActiveByPoint, Recorded, At, Payers, Debited, Goto,
        Turn,
        walletVars, requestVars, queueVars, attemptVars, history, bounds
<1>26. \A z \in Schedules : Plan[z].from \in Users
  BY ScheduledAssumption
<1> QED
  BY <1>26, <1>1, <1>2, <1>3, <1>4, <1>5, <1>6, <1>7, <1>8, <1>9, <1>10, <1>11, <1>12, <1>13,
     <1>14, <1>15, <1>16, <1>17, <1>18, <1>19, <1>20, <1>21, <1>22, <1>23, <1>24, <1>25,
     <1>27, <1>28
     DEF Moves, Next, Request, Work

\* Debits, credits, records and counts of s keep this order, and its records
\* are numbered without a gap.  As long as no attempt broke off after its
\* debit, what one is ahead of the next by stands at the await between them.
Books(s) ==
    LET count == docs[s].count
        executions == Cardinality(Recorded(s))
        coming(p) == Cardinality(At(s, p)) IN
    /\ IsFiniteSet(Recorded(s)) /\ Recorded(s) = {<<s, n>> : n \in 1 .. executions}
    /\ given[s] + coming("credit") <= paid[s]
    /\ executions + coming("record") <= given[s]
    /\ count + coming("finish") <= executions
    /\ executions <= count + 1
    /\ s \notin late =>
        /\ given[s] + coming("credit") = paid[s]
        /\ executions + coming("record") = given[s]
        /\ count + coming("finish") = executions
        /\ paid[s] <= Cardinality(Payers(s))

\* What an attempt has read of executionCount is not ahead of the document.
SeenIsBehind == \A j \in Jobs : pc[j] \notin {"idle", "read"} => seen[j] <= docs[of[j]].count

AllBooks == \A s \in Schedules : Books(s)

\* Every step keeps what attempts have seen behind what is on file.
LEMMA SeenStep == ASSUME QueueInv, SeenIsBehind, [Next]_vars PROVE SeenIsBehind'
<1> USE ScheduledAssumption, WorkType, WriteType, FinishType, DocumentType DEF QueueInv, TypeOK,
        JobsAreAdded, ActiveByPoint,
        SeenIsBehind, Goto, Turn, Statuses, walletVars, requestVars, queueVars, attemptVars,
            history, bounds
<1>1. ASSUME NEW s \in Schedules, CreateDocument(s) PROVE SeenIsBehind'
  BY <1>1 DEF CreateDocument
<1>2. ASSUME NEW s \in Schedules, AddJob(s) PROVE SeenIsBehind'
  BY <1>2 DEF AddJob, Add, NextId
<1>3. ASSUME NEW s \in Schedules, ReadPending(s) PROVE SeenIsBehind'
  BY <1>3 DEF ReadPending
<1>4. ASSUME NEW s \in Schedules, RemoveJob(s) PROVE SeenIsBehind'
  BY <1>4 DEF RemoveJob
<1>5. ASSUME NEW s \in Schedules, SetCancelled(s) PROVE SeenIsBehind'
  <2>1. \A z \in Schedules : docs'[z].count = docs[z].count
    BY <1>5 DEF SetCancelled
  <2>2. UNCHANGED <<pc, seen, of>>
    BY <1>5 DEF SetCancelled
  <2> QED
    BY <2>1, <2>2
<1>6. ASSUME NEW s \in Schedules, StopRequest(s) PROVE SeenIsBehind'
  BY <1>6 DEF StopRequest
<1>7. ASSUME NEW j \in Jobs, Start(j) PROVE SeenIsBehind'
  BY <1>7 DEF Start
<1>8. ASSUME NEW j \in Jobs, Read(j) PROVE SeenIsBehind'
  BY <1>8 DEF Read
<1>9. ASSUME NEW j \in Jobs, MarkProcessing(j) PROVE SeenIsBehind'
  <2>1. of[j] \in Schedules /\ pc[j] = "mark" /\ pc' = [pc EXCEPT ![j] = "funds"]
        /\ UNCHANGED <<seen, of>>
    BY <1>9 DEF MarkProcessing
  <2>2. \A z \in Schedules : docs'[z].count = docs[z].count
    <3>1. Write(of[j], "processing")
      BY <1>9 DEF MarkProcessing
    <3>2. QueueInv
      OBVIOUS
    <3> HIDE DEF QueueInv, TypeOK, JobsAreAdded, ActiveByPoint, SeenIsBehind
    <3>3. "processing" \in Statuses
      BY DEF Statuses
    <3>4. /\ docs'[of[j]].count = docs[of[j]].count
          /\ \A z \in Schedules \ {of[j]} : docs'[z] = docs[z]
      BY <2>1, <3>1, <3>2, <3>3, WriteType
    <3> QED
      BY <3>4
  <2> QED
    BY <2>1, <2>2
<1>10. ASSUME NEW j \in Jobs, Funds(j) PROVE SeenIsBehind'
  BY <1>10 DEF Funds
<1>11. ASSUME NEW j \in Jobs, Refuse(j) PROVE SeenIsBehind'
  <2>1. of[j] \in Schedules /\ pc[j] = "refuse" /\ pc' = [pc EXCEPT ![j] = "skip"]
        /\ UNCHANGED <<seen, of>>
    BY <1>11 DEF Refuse
  <2>2. \A z \in Schedules : docs'[z].count = docs[z].count
    <3>1. Write(of[j], "failed")
      BY <1>11 DEF Refuse
    <3>2. QueueInv
      OBVIOUS
    <3> HIDE DEF QueueInv, TypeOK, JobsAreAdded, ActiveByPoint, SeenIsBehind
    <3>3. "failed" \in Statuses
      BY DEF Statuses
    <3>4. /\ docs'[of[j]].count = docs[of[j]].count
          /\ \A z \in Schedules \ {of[j]} : docs'[z] = docs[z]
      BY <2>1, <3>1, <3>2, <3>3, WriteType
    <3> QED
      BY <3>4
  <2> QED
    BY <2>1, <2>2
<1>12. ASSUME NEW j \in Jobs, Acquire(j) PROVE SeenIsBehind'
  BY <1>12 DEF Acquire
<1>13. ASSUME NEW j \in Jobs, Debit(j) PROVE SeenIsBehind'
  BY <1>13 DEF Debit
<1>14. ASSUME NEW j \in Jobs, Credit(j) PROVE SeenIsBehind'
  BY <1>14 DEF Credit
<1>15. ASSUME NEW j \in Jobs, Record(j) PROVE SeenIsBehind'
  BY <1>15 DEF Record
<1>16. ASSUME NEW j \in Jobs, Finish(j) PROVE SeenIsBehind'
  <2>1. \A z \in Schedules : docs[z].count \in Nat
    BY DEF Documents
  <2>2. of[j] \in Schedules /\ \A k \in Jobs : seen[k] \in Nat
    BY <1>16 DEF Finish
  <2>3. /\ pc[j] = "finish" /\ UNCHANGED <<seen, of>>
        /\ \E p \in Points : pc' = [pc EXCEPT ![j] = p]
    BY <1>16 DEF Finish, Points
  <2>4. \A k \in Jobs : pc'[k] \notin {"idle", "read"} => pc[k] \notin {"idle", "read"}
    BY <2>3
  <2>5. \A k \in Jobs : pc[k] # "idle" => of[k] \in Schedules
    OBVIOUS
  <2>6. \A k \in Jobs : pc[k] \notin {"idle", "read"} => seen[k] <= docs[of[k]].count
    OBVIOUS
  <2>7. QueueInv
    OBVIOUS
  <2> HIDE DEF QueueInv, TypeOK, JobsAreAdded, ActiveByPoint, SeenIsBehind
  <2>8. /\ docs'[of[j]].count = docs[of[j]].count + 1
        /\ \A z \in Schedules \ {of[j]} : docs'[z] = docs[z]
    BY <1>16, <2>7, FinishType
  <2>9. \A z \in Schedules : docs'[z].count \in Nat /\ docs[z].count <= docs'[z].count
    BY <2>1, <2>2, <2>8
  <2> QED
    BY <2>1, <2>2, <2>3, <2>4, <2>5, <2>6, <2>9 DEF SeenIsBehind
<1>17. ASSUME NEW j \in Jobs, Readd(j) PROVE SeenIsBehind'
  BY <1>17 DEF Readd, Add, NextId
<1>18. ASSUME NEW j \in Jobs, Relink(j) PROVE SeenIsBehind'
  BY <1>18 DEF Relink
<1>19. ASSUME NEW j \in Jobs, Release(j) PROVE SeenIsBehind'
  BY <1>19 DEF Release, Unlock, Forget
<1>20. ASSUME NEW j \in Jobs, Throw(j) PROVE SeenIsBehind'
  <2>1. \A z \in Schedules : docs'[z].count = docs[z].count
    <3>1. CASE Write(of[j], "failed") /\ pc[j] = "contend"
      <4>1. of[j] \in Schedules
        BY <1>20, <3>1
      <4> HIDE DEF QueueInv, TypeOK, JobsAreAdded, ActiveByPoint, SeenIsBehind
      <4> QED
        BY <3>1, <4>1, WriteType DEF Statuses
    <3>2. CASE UNCHANGED docs
      BY <3>2
    <3> QED
      BY <1>20, <3>1, <3>2 DEF Throw, Running
  <2>2. \E again : End({j}, again)
    BY <1>20 DEF Throw, Running
  <2>3. /\ pc' = [k \in Jobs |-> IF k \in {j} THEN "idle" ELSE pc[k]]
        /\ seen' = [k \in Jobs |-> IF k \in {j} THEN 0 ELSE seen[k]] /\ UNCHANGED of
    BY <2>2 DEF End, Forget
  <2> QED
    BY <2>1, <2>3
<1>21. ASSUME NEW j \in Jobs, Mark(j) PROVE SeenIsBehind'
  BY <1>21 DEF Mark
<1>22. ASSUME NEW u \in Users, Spend(u) PROVE SeenIsBehind'
  BY <1>22 DEF Spend
<1>23. ASSUME NEW u \in Users, Expire(u) PROVE SeenIsBehind'
  BY <1>23 DEF Expire
<1>27. ASSUME NEW u \in Users, MoveHold(u) PROVE SeenIsBehind'
  BY <1>27 DEF MoveHold
<1>28. ASSUME NEW j \in Jobs, Lapse(j) PROVE SeenIsBehind'
  BY <1>28 DEF Lapse, NextId
<1>24. ASSUME Die PROVE SeenIsBehind'
  BY <1>24 DEF Die, Running, End
<1>25. CASE UNCHANGED vars
  BY <1>25 DEF vars
<1> HIDE DEF QueueInv, TypeOK, SeenIsBehind, JobsAreAdded, ActiveByPoint, Goto, Turn
<1>26. \A s \in Schedules : Plan[s].from \in Users
  BY ScheduledAssumption
<1> QED
  BY <1>26, <1>1, <1>2, <1>3, <1>4, <1>5, <1>6, <1>7, <1>8, <1>9, <1>10, <1>11, <1>12, <1>13,
     <1>14, <1>15, <1>16, <1>17, <1>18, <1>19, <1>20, <1>21, <1>22, <1>23, <1>24, <1>25,
     <1>27, <1>28
     DEF Next, Request, Work

Sizes ==
    \A s \in Schedules :
        /\ \A p \in Points : IsFiniteSet(At(s, p)) /\ Cardinality(At(s, p)) \in Nat
        /\ IsFiniteSet(Payers(s)) /\ Cardinality(Payers(s)) \in Nat
        /\ Cardinality(JobsOf(s)) \in Nat /\ Cardinality(Payers(s)) <= Cardinality(JobsOf(s))
        /\ paid[s] \in Nat /\ given[s] \in Nat /\ docs[s].count \in Nat
        /\ IsFiniteSet(Recorded(s)) => Cardinality(Recorded(s)) \in Nat

\* The counts in the books are numbers.
LEMMA BookSizes == QueueInv => Sizes
<1> SUFFICES ASSUME QueueInv, NEW s \in Schedules
             PROVE  /\ \A p \in Points : IsFiniteSet(At(s, p))
                    /\ IsFiniteSet(JobsOf(s)) /\ IsFiniteSet(Payers(s))
                    /\ Cardinality(Payers(s)) <= Cardinality(JobsOf(s))
                    /\ paid[s] \in Nat /\ given[s] \in Nat /\ docs[s].count \in Nat
  BY FS_CardinalityType DEF Sizes
<1>1. IsFiniteSet(Jobs)
  BY ScheduledAssumption, FS_Interval DEF Jobs
<1>2. /\ JobsOf(s) \subseteq Jobs /\ Payers(s) \subseteq JobsOf(s)
      /\ \A p \in Points : At(s, p) \subseteq JobsOf(s)
  BY DEF JobsOf, Payers, At
<1>3. IsFiniteSet(JobsOf(s))
  BY <1>1, <1>2, FS_Subset
<1>4. IsFiniteSet(Payers(s)) /\ Cardinality(Payers(s)) <= Cardinality(JobsOf(s))
  BY <1>2, <1>3, FS_Subset
<1>5. \A p \in Points : IsFiniteSet(At(s, p))
  BY <1>2, <1>3, FS_Subset
<1>6. paid[s] \in Nat /\ given[s] \in Nat /\ docs[s].count \in Nat
  BY DocumentType DEF QueueInv, TypeOK
<1> QED
  BY <1>3, <1>4, <1>5, <1>6

\* Each of the ways keeps the books.
LEMMA BookStep ==
    ASSUME QueueInv, QueueInv', AllBooks, SeenIsBehind, NEW s \in Schedules, Moves(s)
    PROVE  Books(s)'
<1> DEFINE P == {"credit", "record", "finish"}
           size(p) == Cardinality(At(s, p))
<1>1. Books(s)
  BY DEF AllBooks
<1>2. Sizes /\ Sizes'
  BY BookSizes, PTL
<1>3. /\ \A p \in P : IsFiniteSet(At(s, p)) /\ size(p) \in Nat
      /\ IsFiniteSet(Payers(s)) /\ Cardinality(Payers(s)) \in Nat
      /\ paid[s] \in Nat /\ given[s] \in Nat /\ docs[s].count \in Nat
      /\ IsFiniteSet(Recorded(s)) /\ Cardinality(Recorded(s)) \in Nat
  BY <1>1, <1>2 DEF Sizes, Points, Books
<1>4. /\ \A p \in P : IsFiniteSet(At(s, p)') /\ size(p)' \in Nat
      /\ IsFiniteSet(Payers(s)') /\ Cardinality(Payers(s)') \in Nat
      /\ paid'[s] \in Nat /\ given'[s] \in Nat /\ docs'[s].count \in Nat
      /\ IsFiniteSet(Recorded(s)') => Cardinality(Recorded(s)') \in Nat
  BY <1>2 DEF Sizes, Points
<1>5. Payers(s) \subseteq Payers(s)' => Cardinality(Payers(s)) <= Cardinality(Payers(s)')
  BY <1>4, FS_Subset
<1> HIDE DEF size
<1>6. CASE Same(s)
  <2>1. \A p \in P : size(p)' = size(p)
    BY <1>6 DEF Same, size
  <2>2. /\ size("credit")' = size("credit") /\ size("record")' = size("record")
        /\ size("finish")' = size("finish")
    BY <2>1
  <2>3. s \notin late => paid[s] <= Cardinality(Payers(s)')
    BY <1>1, <1>3, <1>4, <1>6, <1>5 DEF Same, Books
  <2>4. /\ paid'[s] = paid[s] /\ given'[s] = given[s] /\ docs'[s].count = docs[s].count
        /\ Recorded(s)' = Recorded(s) /\ (s \in late' <=> s \in late)
    BY <1>6 DEF Same
  <2> QED
    BY <1>1, <2>2, <2>3, <2>4 DEF Books, size
<1>7. CASE Breaks(s)
  <2>1. \A p \in P : size(p)' <= size(p)
    BY <1>3, <1>7, FS_Subset DEF Breaks, size
  <2>2. s \notin late' => \A p \in P : size(p)' = size(p)
    BY <1>7 DEF Breaks, size
  <2> QED
    BY <1>1, <1>3, <1>4, <1>5, <1>7, <2>1, <2>2 DEF Breaks, Books, size
<1>8. ASSUME NEW j \in JobsOf(s), Debits(s, j) PROVE Books(s)'
  <2>1. j \notin At(s, "credit")
    BY <1>8 DEF Debits, At
  <2>2. size("credit")' = size("credit") + 1
    BY <1>3, <1>8, <2>1, FS_AddElement DEF Debits, size
  <2>3. size("record")' = size("record") /\ size("finish")' = size("finish")
    BY <1>8 DEF Debits, size
  <2>4. Cardinality(Payers(s)') = Cardinality(Payers(s)) + 1
    <3>1. j \notin Payers(s) /\ Payers(s)' = Payers(s) \cup {j}
      BY <1>8 DEF Debits
    <3> QED
      BY <1>3, <3>1, FS_AddElement
  <2> QED
    BY <1>1, <1>3, <1>4, <1>8, <2>2, <2>3, <2>4 DEF Debits, Books, size
<1>9. ASSUME NEW j \in JobsOf(s), Credits(s, j) PROVE Books(s)'
  <2>1. j \in At(s, "credit") /\ j \notin At(s, "record")
    BY <1>9 DEF Credits, At
  <2>2. size("credit")' = size("credit") - 1 /\ size("record")' = size("record") + 1
    <3>1. At(s, "credit")' = At(s, "credit") \ {j} /\ At(s, "record")' = At(s, "record") \cup {j}
      BY <1>9 DEF Credits
    <3>2. size("credit")' = size("credit") - 1
      BY <1>3, <2>1, <3>1, FS_RemoveElement DEF size
    <3>3. size("record")' = size("record") + 1
      BY <1>3, <2>1, <3>1, FS_AddElement DEF size
    <3> QED
      BY <3>2, <3>3
  <2>3. size("finish")' = size("finish")
    BY <1>9 DEF Credits, size
  <2> QED
    BY <1>1, <1>3, <1>4, <1>9, <2>2, <2>3 DEF Credits, Books, size
<1>10. ASSUME NEW j \in JobsOf(s), Records(s, j) PROVE Books(s)'
  <2> DEFINE e == Cardinality(Recorded(s))
             new == <<s, seen[j] + 1>>
  <2>1. j \in At(s, "record") /\ j \notin At(s, "finish")
    BY <1>10 DEF Records, At
  <2>2. size("record")' = size("record") - 1 /\ size("finish")' = size("finish") + 1
    <3>1. At(s, "record")' = At(s, "record") \ {j} /\ At(s, "finish")' = At(s, "finish") \cup {j}
      BY <1>10 DEF Records
    <3>2. size("record")' = size("record") - 1
      BY <1>3, <2>1, <3>1, FS_RemoveElement DEF size
    <3>3. size("finish")' = size("finish") + 1
      BY <1>3, <2>1, <3>1, FS_AddElement DEF size
    <3> QED
      BY <3>2, <3>3
  <2>3. size("credit")' = size("credit")
    BY <1>10 DEF Records, size
  <2>4. new \notin Recorded(s) /\ Recorded(s)' = Recorded(s) \cup {new}
    BY <1>10 DEF Records, Recorded
  <2>5. IsFiniteSet(Recorded(s)') /\ Cardinality(Recorded(s)') = e + 1
    BY <1>1, <2>4, FS_AddElement DEF Books
  <2>6. seen[j] \in Nat /\ seen[j] <= docs[s].count /\ e \in Nat
    BY <1>1, <1>3, <1>10 DEF Records, JobsOf, SeenIsBehind, QueueInv, TypeOK, Books
  <2>7. seen[j] + 1 \notin 1 .. e
    BY <1>1, <2>4 DEF Books
  \* The numbers 1 .. e are taken, and nobody has seen more than e.
  <2>8. seen[j] = e /\ docs[s].count = e
    BY <1>1, <1>3, <2>6, <2>7 DEF Books, size
  <2>9. Recorded(s)' = {<<s, n>> : n \in 1 .. e + 1}
    <3>1. 1 .. e + 1 = (1 .. e) \cup {e + 1}
      BY <2>6
    <3>2. Recorded(s) = {<<s, n>> : n \in 1 .. e} /\ new = <<s, e + 1>>
      BY <1>1, <2>8 DEF Books
    <3> HIDE DEF e, new
    <3> QED
      BY <2>4, <3>1, <3>2
  <2> HIDE DEF new
  <2> QED
    BY <1>1, <1>3, <1>4, <1>10, <2>2, <2>3, <2>5, <2>8, <2>9 DEF Records, Books, size
<1>11. ASSUME NEW j \in JobsOf(s), Finishes(s, j) PROVE Books(s)'
  <2>1. j \in At(s, "finish")
    BY <1>11 DEF Finishes, At
  <2>2. size("finish")' = size("finish") - 1
    BY <1>3, <1>11, <2>1, FS_RemoveElement DEF Finishes, size
  <2>3. size("credit")' = size("credit") /\ size("record")' = size("record")
    BY <1>11 DEF Finishes, size
  <2> QED
    BY <1>1, <1>3, <1>4, <1>11, <2>2, <2>3 DEF Finishes, Books, size
<1>12. ASSUME NEW j \in Jobs, NEW k \in Jobs, Passes(s, j, k) PROVE Books(s)'
  <2>1. \A p \in P : size(p)' = size(p)
    <3> TAKE p \in P
    <3>1. k \notin At(s, p) /\ At(s, p)' = Passed(At(s, p), j, k)
      BY <1>12 DEF Passes
    <3> QED
      BY <1>3, <3>1, PassedSize DEF size
  <2>2. /\ size("credit")' = size("credit") /\ size("record")' = size("record")
        /\ size("finish")' = size("finish")
    BY <2>1
  <2>3. Cardinality(Payers(s)') = Cardinality(Payers(s))
    <3>1. k \notin Payers(s) /\ Payers(s)' = Passed(Payers(s), j, k)
      BY <1>12 DEF Passes
    <3> QED
      BY <1>3, <3>1, PassedSize
  <2>4. /\ paid'[s] = paid[s] /\ given'[s] = given[s] /\ docs'[s].count = docs[s].count
        /\ Recorded(s)' = Recorded(s) /\ (s \in late' <=> s \in late)
    BY <1>12 DEF Passes
  <2> QED
    BY <1>1, <2>2, <2>3, <2>4 DEF Books, size
<1> QED
  BY <1>6, <1>7, <1>8, <1>9, <1>10, <1>11, <1>12 DEF Moves

\* The books agree at first.
LEMMA BooksInit == ASSUME Init PROVE AllBooks /\ SeenIsBehind
<1>1. QueueInv
  BY QueueInit
<1>2. ASSUME NEW s \in Schedules PROVE Books(s)
  <2>1. Recorded(s) = {} /\ \A p \in {"credit", "record", "finish"} : At(s, p) = {}
    BY DEF Init, Recorded, At, JobsOf
  <2>2. paid[s] = 0 /\ given[s] = 0 /\ docs[s].count = 0
    BY DEF Init
  <2>3. Cardinality(Payers(s)) \in Nat
    BY <1>1, BookSizes DEF Sizes
  <2>4. /\ IsFiniteSet(Recorded(s)) /\ Cardinality(Recorded(s)) = 0
        /\ \A p \in {"credit", "record", "finish"} : Cardinality(At(s, p)) = 0
    BY <2>1, FS_EmptySet
  <2>5. Recorded(s) = {<<s, n>> : n \in 1 .. 0}
    BY <2>1
  <2> QED
    BY <2>2, <2>3, <2>4, <2>5 DEF Books
<1>3. SeenIsBehind
  BY DEF Init, SeenIsBehind
<1> QED
  BY <1>2, <1>3 DEF AllBooks

(* However attempts fail, die and are repeated, a schedule's executionCount *)
(* is its Transactions or one behind, and no more was given than taken; as  *)
(* long as none breaks off after its debit, every job pays once at most and *)
(* a schedule that rests has been debited, credited, recorded and counted   *)
(* alike.                                                                   *)
THEOREM ScheduledBooksAgree == Spec => []BooksAgree
<1>1. ASSUME QueueInv, AllBooks, SeenIsBehind, [Next]_vars PROVE AllBooks'
  <2>1. QueueInv'
    BY <1>1, QueueInvStep
  <2> QED
    BY <1>1, <2>1, BookSteps, BookStep DEF AllBooks
<1>2. ASSUME QueueInv, AllBooks PROVE BooksAgree
  <2>1. ASSUME NEW s \in Schedules
        PROVE  /\ docs[s].count <= Executions(s) /\ Executions(s) <= docs[s].count + 1
               /\ Executions(s) <= given[s] /\ given[s] <= paid[s]
               /\ s \notin late =>
                   /\ paid[s] <= Cardinality(JobsOf(s))
                   /\ Underway(s) = {} =>
                        /\ paid[s] = given[s] /\ given[s] = Executions(s)
                        /\ Executions(s) = docs[s].count
    <3>1. Executions(s) = Cardinality(Recorded(s))
      BY DEF Executions, Recorded
    <3>2. /\ \A p \in {"credit", "record", "finish"} : Cardinality(At(s, p)) \in Nat
          /\ Cardinality(Payers(s)) \in Nat /\ Cardinality(JobsOf(s)) \in Nat
          /\ Cardinality(Payers(s)) <= Cardinality(JobsOf(s))
          /\ paid[s] \in Nat /\ given[s] \in Nat /\ docs[s].count \in Nat
          /\ IsFiniteSet(Recorded(s)) => Cardinality(Recorded(s)) \in Nat
      BY <1>2, BookSizes DEF Sizes, Points
    <3>3. Underway(s) = {} =>
            \A p \in {"credit", "record", "finish"} : Cardinality(At(s, p)) = 0
      <4>1. Underway(s) = {} => \A p \in {"credit", "record", "finish"} : At(s, p) = {}
        BY <1>2 DEF QueueInv, ActiveByPoint, Underway, Running, At, JobsOf
      <4> QED
        BY <4>1, FS_EmptySet
    <3>4. Books(s)
      BY <1>2 DEF AllBooks
    <3> QED
      BY <3>1, <3>2, <3>3, <3>4 DEF Books
  <2> QED
    BY <2>1 DEF BooksAgree
<1> QED
  BY <1>1, <1>2, BooksInit, SeenStep, QueueInit, QueueInvStep, PTL DEF Spec
=============================================================================
