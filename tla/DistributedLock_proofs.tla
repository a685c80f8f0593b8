----------------------- MODULE DistributedLock_proofs -----------------------
(* Proofs about DistributedLock for every number of requests, resources    *)
(* and retries.                                                            *)
EXTENDS DistributedLock, TLAPS

\* Every variable keeps its type, whatever fails.
THEOREM TypeCorrect == Spec => []TypeOK
<1> USE FreeAssumption, RetryAssumption DEF TypeOK, Phases
<1>1. Init => TypeOK
  BY DEF Init
<1>2. TypeOK /\ [Next]_vars => TypeOK'
  <2> SUFFICES ASSUME TypeOK, [Next]_vars PROVE TypeOK'
    OBVIOUS
  <2>1. ASSUME NEW r \in Requests, Call(r) PROVE TypeOK'
    BY <2>1 DEF Call
  <2>2. ASSUME NEW r \in Requests, SetNX(r) PROVE TypeOK'
    BY <2>2 DEF SetNX
  <2>3. ASSUME NEW r \in Requests, Busy(r) PROVE TypeOK'
    BY <2>3 DEF Busy
  <2>4. ASSUME NEW r \in Requests, Contention(r) PROVE TypeOK'
    BY <2>4 DEF Contention
  <2>5. ASSUME NEW r \in Requests, SetFails(r) PROVE TypeOK'
    <3>1. store' \in [Resources -> Requests \cup {Free}]
      BY <2>5 DEF SetFails
    <3>2. phase' \in [Requests -> Phases]
      BY <2>5 DEF SetFails
    <3> QED
      BY <2>5, <3>1, <3>2 DEF SetFails
  <2>6. ASSUME NEW r \in Requests, Release(r) PROVE TypeOK'
    BY <2>6 DEF Release
  <2>7. ASSUME NEW r \in Requests, ReleaseFails(r) PROVE TypeOK'
    BY <2>7 DEF ReleaseFails
  <2>8. ASSUME NEW r \in Requests, Crash(r) PROVE TypeOK'
    BY <2>8 DEF Crash
  <2>9. ASSUME NEW k \in Resources, Expire(k) PROVE TypeOK'
    BY <2>9 DEF Expire
  <2>10. CASE UNCHANGED vars
    BY <2>10 DEF vars
  <2> QED
    BY <2>1, <2>2, <2>3, <2>4, <2>5, <2>6, <2>7, <2>8, <2>9, <2>10 DEF Next, Step
<1> QED
  BY <1>1, <1>2, PTL DEF Spec

\* Until Redis fails or a holder outlives the TTL, a request in its critical
\* section owns the Redis entry.  The invariant is inductive
\* next to TypeOK: SetNX needs a free key, and the only steps that remove an
\* entry are its owner's release, which leaves the section, and the TTL.
THEOREM EntryOwned == Spec => []CriticalOwnsEntry
<1> USE FreeAssumption DEF CriticalOwnsEntry, Critical, TypeOK
<1>1. Init => CriticalOwnsEntry
  BY DEF Init
<1>2. TypeOK /\ CriticalOwnsEntry /\ [Next]_vars => CriticalOwnsEntry'
  <2> SUFFICES ASSUME TypeOK, CriticalOwnsEntry, [Next]_vars,
                      calm'
               PROVE  \A r \in Requests :
                         phase'[r] = "critical" => store'[want'[r]] = r /\ token'[r]
    BY DEF CriticalOwnsEntry
  <2>1. ASSUME NEW q \in Requests, Call(q) PROVE CriticalOwnsEntry'
    BY <2>1 DEF Call
  <2>2. ASSUME NEW q \in Requests, SetNX(q) PROVE CriticalOwnsEntry'
    BY <2>2 DEF SetNX
  <2>3. ASSUME NEW q \in Requests, Busy(q) PROVE CriticalOwnsEntry'
    BY <2>3 DEF Busy
  <2>4. ASSUME NEW q \in Requests, Contention(q) PROVE CriticalOwnsEntry'
    BY <2>4 DEF Contention
  <2>5. ASSUME NEW q \in Requests, SetFails(q) \/ ReleaseFails(q)
        PROVE CriticalOwnsEntry'
    BY <2>5 DEF SetFails, ReleaseFails
  <2>6. ASSUME NEW q \in Requests, Release(q) PROVE CriticalOwnsEntry'
    BY <2>6 DEF Release
  <2>7. ASSUME NEW q \in Requests, Crash(q) PROVE CriticalOwnsEntry'
    BY <2>7 DEF Crash
  <2>8. ASSUME NEW k \in Resources, Expire(k) PROVE CriticalOwnsEntry'
    BY <2>8 DEF Expire
  <2>9. CASE UNCHANGED vars
    BY <2>9 DEF vars
  <2> QED
    BY <2>1, <2>2, <2>3, <2>4, <2>5, <2>6, <2>7, <2>8, <2>9 DEF Next, Step
<1> QED
  BY <1>1, <1>2, TypeCorrect, PTL DEF Spec

\* At most one request is in the critical section of a resource until Redis
\* fails or a holder outlives the TTL: both would own the same entry.
THEOREM LockExcludes == Spec => []MutualExclusion
<1>1. CriticalOwnsEntry => MutualExclusion
  BY DEF CriticalOwnsEntry, MutualExclusion
<1> QED
  BY <1>1, EntryOwned, PTL

\* Only the owner or the TTL removes an entry, even when Redis fails and
\* requests outlive their locks.
THEOREM NobodyElseReleases == Spec => OnlyOwnerOrTTLRemoves
<1>1. TypeOK /\ [Next]_vars => [RemovedByOwnerOrTTL]_vars
  <2> SUFFICES ASSUME TypeOK, Next, NEW k \in Resources,
                      store[k] # Free, store'[k] # store[k]
               PROVE  Expire(k) \/ Release(store[k])
    BY DEF RemovedByOwnerOrTTL
  <2>1. ASSUME NEW q \in Requests, Call(q) \/ Step(q) \/ Crash(q)
        PROVE  Release(q) /\ q = store[k]
    <3>1. ~(Call(q) \/ Busy(q) \/ Contention(q) \/ ReleaseFails(q) \/ Crash(q))
      BY DEF Call, Busy, Contention, ReleaseFails, Crash
    <3>2. ~SetNX(q) /\ ~SetFails(q)
      BY DEF SetNX, SetFails, TypeOK
    <3>3. Release(q)
      BY <2>1, <3>1, <3>2 DEF Step
    <3> QED
      BY <3>3 DEF Release, TypeOK
  <2>2. ASSUME NEW j \in Resources, Expire(j)
        PROVE  j = k
    BY <2>2 DEF Expire, TypeOK
  <2> QED
    BY <2>1, <2>2 DEF Next
<1> QED
  BY <1>1, TypeCorrect, PTL DEF Spec, OnlyOwnerOrTTLRemoves
=============================================================================
