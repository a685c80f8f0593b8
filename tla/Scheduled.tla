------------------------------ MODULE Scheduled ------------------------------
(***************************************************************************)
(* Scheduled and recurring transfers: createScheduledTransfer and          *)
(* cancelScheduledTransfer (backend/controllers/scheduledController.js),   *)
(* the BullMQ queue of delayed jobs (backend/queues/scheduledQueue.js) and *)
(* the worker that runs them (backend/workers/scheduledWorker.js), three   *)
(* at a time, against wallets that other transfers spend from and disputes *)
(* hold money in.  One await of a handler or of an attempt is one step.    *)
(*                                                                         *)
(* BullMQ keeps a job's state: a job whose attempt throws waits for its    *)
(* next one until it has had MaxTries, one whose worker died or did not    *)
(* renew its lock on the job is given back once as stalled, and after a    *)
(* throw the worker's failed handler runs beside whatever comes next.  An  *)
(* attempt that has lost its job's lock goes on as a stray, under the next *)
(* free number, and is nothing to BullMQ any more.                         *)
(***************************************************************************)
EXTENDS Integers, FiniteSets, Functions

CONSTANTS
    Users,
    Schedules,     \* ScheduledTransfer documents users may create
    Plan,          \* [Schedules -> [from, to, amount, recurring, interval]]
    MaxJobs,       \* bound: ids of jobs and strays, 1, 2, ...
    None,
    Free,          \* a lock nobody holds
    InitBalance,   \* [Users -> Nat]
    HoldLevels,    \* what disputes change escrowHeld to
    MaxTries,      \* attempts of defaultJobOptions
    Concurrency,   \* of the worker
    MaxMishaps,    \* bound: failed calls, crashes, expired locks
    MaxSpends      \* bound: transfers by other means and changed holds

ASSUME ScheduledAssumption ==
    /\ Plan \in [Schedules -> [from : Users, to : Users, amount : Nat \ {0},
                              recurring : BOOLEAN, interval : BOOLEAN]]
    /\ \A s \in Schedules : Plan[s].from # Plan[s].to
    /\ None \notin Schedules /\ Free \notin Nat
    /\ InitBalance \in [Users -> Nat] /\ HoldLevels \subseteq Int
    /\ MaxJobs \in Nat /\ MaxTries \in Nat \ {0} /\ Concurrency \in Nat \ {0}
    /\ MaxMishaps \in Nat /\ MaxSpends \in Nat

VARIABLES
    balance,   \* Wallet.balance
    held,      \* Wallet.escrowHeld
    lock,      \* lock[u]: the job that holds lock:wallet:u
    docs,      \* the ScheduledTransfer documents
    records,   \* <<s, n>>: the Transaction with key scheduled-s-exec-n
    front,     \* where the owner's request on a schedule stands
    of,        \* of[j]: job.data.scheduledTransferId
    job,       \* a job's state in BullMQ, or that j is a stray
    tries,     \* attempts it has begun
    stalled,   \* jobs given back as stalled
    pc,        \* the await an attempt stands at
    seen,      \* the executionCount it has read
    marks,     \* jobs whose failed handler is due
    paid,      \* history: debits made for a schedule
    given,     \* history: credits made for it
    late,      \* history: schedules of attempts that ended by a throw or a
               \* crash after their debit
    drift,     \* history: what others took from the sender's wallet, or
               \* disputes held of it, since an attempt read it
    quiet,     \* history: schedules cancelled with no attempt under way, and
               \* not marked failed since
    lost,      \* history: schedules that lost a failed handler, or half of
               \* a cancellation
    mishaps, spends

walletVars == <<balance, held, lock>>
requestVars == <<docs, front>>
queueVars == <<of, job, tries, stalled, marks>>
attemptVars == <<pc, seen>>
history == <<paid, given, late, drift, quiet, lost>>
bounds == <<mishaps, spends>>
vars == <<walletVars, requestVars, records, queueVars, attemptVars, history, bounds>>

Jobs == 1 .. MaxJobs
Statuses == {"absent", "pending", "processing", "completed", "failed", "cancelled"}
Documents == [status : Statuses, count : Nat]
Fronts == {"none", "add", "idle", "remove", "cancel"}
JobStates == {"none", "waiting", "active", "completed", "failed", "removed", "stray"}
Points == {"idle", "read", "mark", "funds", "refuse", "lock", "contend", "debit",
           "credit", "record", "finish", "readd", "relink", "release", "skip"}

TypeOK ==
    /\ balance \in [Users -> Int] /\ held \in [Users -> Int]
    /\ lock \in [Users -> Jobs \cup {Free}]
    /\ docs \in [Schedules -> Documents]
    /\ records \subseteq Schedules \X Nat
    /\ front \in [Schedules -> Fronts]
    /\ of \in [Jobs -> Schedules \cup {None}]
    /\ job \in [Jobs -> JobStates]
    /\ tries \in [Jobs -> 0 .. MaxTries + 1]
    /\ stalled \subseteq Jobs /\ marks \subseteq Jobs
    /\ pc \in [Jobs -> Points]
    /\ seen \in [Jobs -> Nat]
    /\ paid \in [Schedules -> Nat] /\ given \in [Schedules -> Nat]
    /\ late \subseteq Schedules /\ quiet \subseteq Schedules
    /\ lost \subseteq Schedules
    /\ drift \in [Jobs -> Nat]
    /\ mishaps \in 0 .. MaxMishaps /\ spends \in 0 .. MaxSpends

Init ==
    /\ balance = InitBalance
    /\ held = [u \in Users |-> 0]
    /\ lock = [u \in Users |-> Free]
    /\ docs = [s \in Schedules |-> [status |-> "absent", count |-> 0]]
    /\ records = {}
    /\ front = [s \in Schedules |-> "none"]
    /\ of = [j \in Jobs |-> None]
    /\ job = [j \in Jobs |-> "none"]
    /\ tries = [j \in Jobs |-> 0]
    /\ stalled = {} /\ marks = {}
    /\ pc = [j \in Jobs |-> "idle"]
    /\ seen = [j \in Jobs |-> 0]
    /\ paid = [s \in Schedules |-> 0] /\ given = [s \in Schedules |-> 0]
    /\ late = {} /\ drift = [j \in Jobs |-> 0] /\ quiet = {} /\ lost = {}
    /\ mishaps = 0 /\ spends = 0

-----------------------------------------------------------------------------
(* Helpers *)

From(j) == Plan[of[j]].from
To(j) == Plan[of[j]].to
Amount(j) == Plan[of[j]].amount
JobsOf(s) == {j \in Jobs : of[j] = s}
Running == {j \in Jobs : job[j] \in {"active", "stray"}}
Underway(s) == {j \in JobsOf(s) : j \in Running \/ j \in marks}
Mishap == mishaps < MaxMishaps /\ mishaps' = mishaps + 1
Turn(s, p) == front' = [front EXCEPT ![s] = p]
Goto(j, p) == pc' = [pc EXCEPT ![j] = p]
Write(s, status) == docs' = [docs EXCEPT ![s].status = status]

NextId(j) == job[j] = "none" /\ \A k \in 1 .. j - 1 : job[k] # "none"

\* queue.add: a job of s under the next id.
Add(j, s) ==
    /\ NextId(j)
    /\ of' = [of EXCEPT ![j] = s]
    /\ job' = [job EXCEPT ![j] = "waiting"]
    /\ UNCHANGED <<tries, stalled, marks>>

\* releaseLock deletes a lock only of its own token and never throws.
Unlock(js) == lock' = [u \in Users |-> IF lock[u] \in js THEN Free ELSE lock[u]]

\* What an attempt had read goes with it.
Forget(js) == seen' = [j \in Jobs |-> IF j \in js THEN 0 ELSE seen[j]]

\* An attempt that has debited, and one that has read the wallet and has not.
Debited(j) == pc[j] \in {"credit", "record", "finish", "readd", "relink", "release"}
Checked(j) == pc[j] \in {"lock", "contend", "debit"}
Available(u) == balance[u] - held[u]

\* Of what those who have read u's wallet saw, a is gone.
Gone(u, a) ==
    [j \in Jobs |-> IF Checked(j) /\ From(j) = u THEN drift[j] + a ELSE drift[j]]

-----------------------------------------------------------------------------
(* The owner's requests *)

\* createScheduledTransfer: the request is checked and the document created.
CreateDocument(s) ==
    /\ front[s] = "none"
    /\ Write(s, "pending")
    /\ Turn(s, "add")
    /\ UNCHANGED <<walletVars, records, queueVars, attemptVars, history, bounds>>

\* scheduleTransferJob.  That the id is stored then matters to RemoveJob only.
AddJob(s) ==
    /\ front[s] = "add"
    /\ \E j \in Jobs : Add(j, s)
    /\ Turn(s, "idle")
    /\ UNCHANGED <<walletVars, docs, records, attemptVars, history, bounds>>

\* cancelScheduledTransfer reads a pending document; any other is refused.
ReadPending(s) ==
    /\ front[s] = "idle" /\ docs[s].status = "pending"
    /\ Turn(s, "remove")
    /\ UNCHANGED <<walletVars, docs, records, queueVars, attemptVars, history, bounds>>

\* cancelTransferJob removes the job whose id is stored if it waits.  Often
\* it does not: the id is not stored yet, or is that of an earlier job, or
\* the job is active, which throws and is swallowed, as an error of Redis is.
RemoveJob(s) ==
    /\ front[s] = "remove"
    /\ \/ \E j \in JobsOf(s) : /\ job[j] = "waiting"
                             /\ job' = [job EXCEPT ![j] = "removed"]
       \/ UNCHANGED job
    /\ Turn(s, "cancel")
    /\ UNCHANGED <<walletVars, docs, records, of, tries, stalled, marks, attemptVars, history,
                   bounds>>

\* The document becomes cancelled, whatever it has become meanwhile.
SetCancelled(s) ==
    /\ front[s] = "cancel"
    /\ Write(s, "cancelled")
    /\ Turn(s, "idle")
    /\ quiet' = IF Underway(s) = {} THEN quiet \cup {s} ELSE quiet
    /\ UNCHANGED <<walletVars, records, queueVars, attemptVars, paid, given, late, drift,
                   lost, bounds>>

\* A call of the request fails, or its server dies.
StopRequest(s) ==
    /\ front[s] \in {"add", "cancel"} /\ Mishap
    /\ Turn(s, "idle")
    /\ lost' = IF front[s] = "cancel" THEN lost \cup {s} ELSE lost
    /\ UNCHANGED <<walletVars, docs, records, queueVars, attemptVars, paid, given, late, drift,
                   quiet, spends>>

-----------------------------------------------------------------------------
(* An attempt *)

\* BullMQ hands a due job to the worker.
Start(j) ==
    /\ job[j] = "waiting"
    /\ Cardinality(Running) < Concurrency
    /\ job' = [job EXCEPT ![j] = "active"]
    /\ tries' = [tries EXCEPT ![j] = @ + 1]
    /\ Goto(j, "read")
    /\ UNCHANGED <<walletVars, requestVars, records, of, stalled, marks, seen, history, bounds>>

\* Mutant: a cancelled transfer is not skipped.
ReadCancelledToo(j) ==
    /\ pc[j] = "read"
    /\ Goto(j, "mark")
    /\ seen' = [seen EXCEPT ![j] = docs[of[j]].count]
    /\ UNCHANGED <<walletVars, requestVars, records, queueVars, history, bounds>>

\* findById; a cancelled transfer is skipped, and no other.
Read(j) ==
    /\ pc[j] = "read"
    /\ Goto(j, IF docs[of[j]].status = "cancelled" THEN "skip" ELSE "mark")
    /\ seen' = [seen EXCEPT ![j] = docs[of[j]].count]
    /\ UNCHANGED <<walletVars, requestVars, records, queueVars, history, bounds>>

MarkProcessing(j) ==
    /\ pc[j] = "mark"
    /\ Write(of[j], "processing")
    /\ Goto(j, "funds")
    /\ UNCHANGED <<walletVars, front, records, queueVars, seen, history, bounds>>

\* Mutant: the escrow is forgotten.
FundsWithEscrow(j) ==
    /\ pc[j] = "funds"
    /\ \/ Goto(j, "refuse")
       \/ balance[From(j)] >= Amount(j) /\ Goto(j, "lock")
    /\ UNCHANGED <<walletVars, requestVars, records, queueVars, seen, history, bounds>>

\* The receiver and both wallets are read: it is refused if the receiver is
\* no longer there or the funds not held in escrow do not suffice.
Funds(j) ==
    /\ pc[j] = "funds"
    /\ \/ Goto(j, "refuse")
       \/ Available(From(j)) >= Amount(j) /\ Goto(j, "lock")
    /\ UNCHANGED <<walletVars, requestVars, records, queueVars, seen, history, bounds>>

\* Mutant: only the owner is told.
RefuseUnwritten(j) ==
    /\ pc[j] = "refuse"
    /\ Goto(j, "skip")
    /\ UNCHANGED <<walletVars, requestVars, records, queueVars, seen, history, bounds>>

\* It becomes failed and the job returns: no retry.
Refuse(j) ==
    /\ pc[j] = "refuse"
    /\ Write(of[j], "failed")
    /\ Goto(j, "skip")
    /\ UNCHANGED <<walletVars, front, records, queueVars, seen, history, bounds>>

\* acquireLock, which gives up on a lock that stays taken or without Redis.
Acquire(j) ==
    /\ pc[j] = "lock"
    /\ \/ /\ lock[From(j)] = Free
          /\ lock' = [lock EXCEPT ![From(j)] = j]
          /\ Goto(j, "debit") /\ UNCHANGED mishaps
       \/ lock[From(j)] # Free /\ Goto(j, "contend") /\ UNCHANGED <<lock, mishaps>>
       \/ Mishap /\ Goto(j, "contend") /\ UNCHANGED lock
    /\ UNCHANGED <<balance, held, requestVars, records, queueVars, seen, history, spends>>

\* $inc with no condition on the balance.
Debit(j) ==
    /\ pc[j] = "debit"
    /\ balance' = [balance EXCEPT ![From(j)] = @ - Amount(j)]
    /\ paid' = [paid EXCEPT ![of[j]] = @ + 1]
    /\ drift' = [Gone(From(j), Amount(j)) EXCEPT ![j] = 0]
    /\ Goto(j, "credit")
    /\ UNCHANGED <<held, lock, requestVars, records, queueVars, seen, given, late, quiet, lost,
                   bounds>>

\* Mutant: the document is updated first and the record left for later.
CreditUnrecorded(j) ==
    /\ pc[j] = "credit"
    /\ balance' = [balance EXCEPT ![To(j)] = @ + Amount(j)]
    /\ given' = [given EXCEPT ![of[j]] = @ + 1]
    /\ Goto(j, "finish")
    /\ UNCHANGED <<held, lock, requestVars, records, queueVars, seen, paid, late, drift, quiet,
                   lost, bounds>>

Credit(j) ==
    /\ pc[j] = "credit"
    /\ balance' = [balance EXCEPT ![To(j)] = @ + Amount(j)]
    /\ given' = [given EXCEPT ![of[j]] = @ + 1]
    /\ Goto(j, "record")
    /\ UNCHANGED <<held, lock, requestVars, records, queueVars, seen, paid, late, drift, quiet,
                   lost, bounds>>

Execution(j) == <<of[j], seen[j] + 1>>

\* Transaction.create under a key the unique index takes once.
Record(j) ==
    /\ pc[j] = "record" /\ Execution(j) \notin records
    /\ records' = records \cup {Execution(j)}
    /\ Goto(j, "finish")
    /\ UNCHANGED <<walletVars, requestVars, queueVars, seen, history, bounds>>

Finish(j) ==
    /\ pc[j] = "finish"
    /\ LET plan == Plan[of[j]] IN
       /\ docs' = [docs EXCEPT
                     ![of[j]].count = @ + 1,
                     ![of[j]].status = IF plan.recurring THEN "pending" ELSE "completed"]
       /\ Goto(j, IF plan.recurring /\ plan.interval THEN "readd" ELSE "release")
    /\ UNCHANGED <<walletVars, front, records, queueVars, seen, history, bounds>>

\* The next run of a recurring transfer whose interval was given; one without
\* stays pending and has no job any more.
Readd(j) ==
    /\ pc[j] = "readd"
    /\ \E k \in Jobs : Add(k, of[j])
    /\ Goto(j, "relink")
    /\ UNCHANGED <<walletVars, requestVars, records, seen, history, bounds>>

\* Its id and date are stored.
Relink(j) ==
    /\ pc[j] = "relink"
    /\ Goto(j, "release")
    /\ UNCHANGED <<walletVars, requestVars, records, queueVars, seen, history, bounds>>

\* The attempt returns and BullMQ completes the job, if it is still its own.
Release(j) ==
    /\ pc[j] \in {"release", "skip"}
    /\ Unlock({j})
    /\ job' = [job EXCEPT ![j] = "completed"]
    /\ Goto(j, "idle")
    /\ Forget({j})
    /\ UNCHANGED <<balance, held, requestVars, records, of, tries, stalled, marks, history,
                   bounds>>

-----------------------------------------------------------------------------
(* What goes wrong *)

\* The attempts of js end; the jobs in again have another one.
End(js, again) ==
    /\ Unlock(js)
    /\ job' = [j \in Jobs |-> IF j \in again THEN "waiting"
                              ELSE IF j \in js THEN "failed" ELSE job[j]]
    /\ pc' = [j \in Jobs |-> IF j \in js THEN "idle" ELSE pc[j]]
    /\ late' = late \cup {of[j] : j \in {k \in js : Debited(k)}}
    /\ drift' = [j \in Jobs |-> IF j \in js THEN 0 ELSE drift[j]]
    /\ Forget(js)
    /\ UNCHANGED <<balance, held, front, records, of, tries, paid, given, quiet>>

\* An attempt that stalled is none of a job's tries.
Allowed(j) == IF j \in stalled THEN MaxTries + 1 ELSE MaxTries

\* An attempt throws: the record exists, the lock was not had, for which the
\* document becomes failed first, or a call fails at any await.  A stray's
\* failure is none of its job's, which gets neither a retry nor the handler.
Throw(j) ==
    /\ j \in Running
    /\ \/ /\ pc[j] = "record" /\ Execution(j) \in records
          /\ UNCHANGED <<docs, mishaps>>
       \/ pc[j] = "contend" /\ Write(of[j], "failed") /\ UNCHANGED mishaps
       \/ pc[j] \notin {"release", "skip"} /\ Mishap /\ UNCHANGED docs
    /\ \/ /\ job[j] = "active"
          /\ End({j}, IF tries[j] < Allowed(j) THEN {j} ELSE {})
          /\ marks' = marks \cup {j} /\ UNCHANGED lost
       \/ /\ job[j] = "stray"
          /\ End({j}, {})
          /\ lost' = lost \cup {of[j]} /\ UNCHANGED marks
    /\ UNCHANGED <<stalled, spends>>

\* The worker dies and is started again.  Its locks expire (5 seconds) before
\* its jobs count as stalled (30), which they may do once; handlers that were
\* due are lost.
Die ==
    /\ Mishap
    /\ Running # {}
    /\ LET js == {j \in Jobs : job[j] = "active"} IN
       /\ End(Running, js \ stalled)
       /\ stalled' = stalled \cup js
       /\ marks' = js \cap stalled
    /\ lost' = lost \cup {of[j] : j \in marks \cup (Running \ {k \in Jobs : job[k] = "active"})}
    /\ UNCHANGED <<docs, spends>>

\* A live worker does not renew its lock on a job for 30 seconds.  The job
\* counts as stalled and is given back, if for the first time, while the
\* attempt goes on as the stray k.
Lapse(j) ==
    /\ job[j] = "active" /\ Mishap
    /\ \E k \in Jobs :
        /\ NextId(k)
        /\ of' = [of EXCEPT ![k] = of[j]]
        /\ job' = [job EXCEPT ![k] = "stray",
                              ![j] = IF j \in stalled THEN "failed" ELSE "waiting"]
        /\ pc' = [pc EXCEPT ![k] = pc[j], ![j] = "idle"]
        /\ seen' = [seen EXCEPT ![k] = seen[j], ![j] = 0]
        /\ drift' = [drift EXCEPT ![k] = drift[j], ![j] = 0]
        /\ lock' = [u \in Users |-> IF lock[u] = j THEN k ELSE lock[u]]
    /\ stalled' = stalled \cup {j}
    /\ marks' = IF j \in stalled THEN marks \cup {j} ELSE marks
    /\ UNCHANGED <<balance, held, requestVars, records, tries, paid, given, late, quiet, lost,
                   spends>>

\* worker.on('failed'): the document becomes failed, though the job may have
\* attempts left.
Mark(j) ==
    /\ j \in marks
    /\ marks' = marks \ {j}
    /\ \/ Write(of[j], "failed") /\ quiet' = quiet \ {of[j]} /\ UNCHANGED <<lost, mishaps>>
       \/ Mishap /\ lost' = lost \cup {of[j]} /\ UNCHANGED <<docs, quiet>>
    /\ UNCHANGED <<walletVars, front, records, of, job, tries, stalled, attemptVars, paid, given,
                   late, drift, spends>>

\* An attempt takes longer than its lock lives.
Expire(u) ==
    /\ lock[u] # Free /\ Mishap
    /\ lock' = [lock EXCEPT ![u] = Free]
    /\ UNCHANGED <<balance, held, requestVars, records, queueVars, attemptVars, history, spends>>

\* A sender transfers one rupee to somebody else, under the lock and covered.
Spend(u) ==
    /\ spends < MaxSpends /\ spends' = spends + 1
    /\ lock[u] = Free /\ Available(u) >= 1
    /\ balance' = [balance EXCEPT ![u] = @ - 1]
    /\ drift' = Gone(u, 1)
    /\ UNCHANGED <<held, lock, requestVars, records, queueVars, attemptVars, paid, given, late,
                   quiet, lost, mishaps>>

\* raiseDispute or resolveDispute changes what is held of a wallet, with no
\* look at the lock or the balance.
MoveHold(u) ==
    /\ spends < MaxSpends /\ spends' = spends + 1
    /\ \E h \in HoldLevels \ {held[u]} :
        /\ held' = [held EXCEPT ![u] = h]
        /\ drift' = IF h > held[u] THEN Gone(u, h - held[u]) ELSE drift
    /\ UNCHANGED <<balance, lock, requestVars, records, queueVars, attemptVars, paid, given,
                   late, quiet, lost, mishaps>>

Request(s) ==
    \/ CreateDocument(s) \/ AddJob(s)
    \/ ReadPending(s) \/ RemoveJob(s) \/ SetCancelled(s) \/ StopRequest(s)

Work(j) ==
    \/ Start(j) \/ Read(j) \/ MarkProcessing(j) \/ Funds(j) \/ Refuse(j) \/ Acquire(j)
    \/ Debit(j) \/ Credit(j) \/ Record(j) \/ Finish(j) \/ Readd(j) \/ Relink(j)
    \/ Release(j) \/ Throw(j) \/ Lapse(j) \/ Mark(j)

Next ==
    \/ \E s \in Schedules : Request(s)
    \/ \E j \in Jobs : Work(j)
    \/ \E s \in Schedules : Spend(Plan[s].from) \/ MoveHold(Plan[s].from)
    \/ \E u \in Users : Expire(u)
    \/ Die

Spec == Init /\ [][Next]_vars

-----------------------------------------------------------------------------
(* What scheduled transfers promise *)

Executions(s) == Cardinality({r \in records : r[1] = s})

\* However attempts fail, die and are repeated, a schedule's executionCount
\* is its Transactions or one behind, a Transaction's money has reached the
\* receiver, and no more was given than taken.  "Failed jobs retry"
\* (README.md:382): what is tried again has not paid yet.  As long as no
\* attempt breaks off after its debit, every job pays once at most, not
\* counting strays, each of which may pay beside it, and a schedule that
\* rests has been debited, credited, recorded and counted alike.
BooksAgree ==
    /\ \A s \in Schedules :
        /\ docs[s].count <= Executions(s) /\ Executions(s) <= docs[s].count + 1
        /\ Executions(s) <= given[s] /\ given[s] <= paid[s]
    /\ \A s \in Schedules \ late :
        /\ paid[s] <= Cardinality(JobsOf(s))
        /\ Underway(s) = {} =>
            paid[s] = given[s] /\ given[s] = Executions(s) /\ Executions(s) = docs[s].count

\* "Atomic debit + credit - same pattern as the main transfer controller"
\* (scheduledWorker.js:94): the debit is not guarded, but it takes a sender
\* below what its disputes hold by no more than others took from the wallet,
\* or disputes held of it, between the attempt's check and its debit, however
\* many attempts, strays, transfers and disputes are at that wallet.
ShortByWhatOthersTook ==
    [][\A j \in Jobs : pc[j] = "debit" /\ pc'[j] = "credit" =>
          balance'[From(j)] - held'[From(j)] >= - drift[j]]_vars

\* Once a transfer has been cancelled with none of its attempts under way, no
\* job of it that was left in the queue takes money, unless an attempt fails
\* before it has read the document and its handler writes over the status.
QuietCancelHolds == [][\A s \in quiet : paid'[s] = paid[s]]_vars

\* No schedule is left "processing", which its owner cannot cancel: an
\* attempt, a retry, a failed handler or a cancellation that will write over
\* it is always to come, unless it was lost.
ProcessingIsAttended ==
    \A s \in Schedules : docs[s].status = "processing" =>
        \/ Underway(s) # {} \/ \E j \in JobsOf(s) : job[j] = "waiting"
        \/ front[s] \in {"remove", "cancel"}
        \/ s \in lost
=============================================================================
