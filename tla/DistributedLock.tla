--------------------------- MODULE DistributedLock ---------------------------
(***************************************************************************)
(* backend/utils/distributedLock.js: a Redis lock taken with               *)
(* SET key token NX PX ttl and released by a Lua compare-and-delete.       *)
(*                                                                         *)
(* A request acquires at most one lock in its life and draws a fresh       *)
(* random token for it, so the request stands for its token.  What the     *)
(* caller does when Redis itself fails is the caller's choice: a transfer  *)
(* goes on without the lock, the scheduled worker gives up.                *)
(***************************************************************************)
EXTENDS Naturals

CONSTANTS
    Requests,       \* callers of acquireLock, each with its own token
    Resources,      \* resource keys ("wallet:<userId>")
    Free,           \* the Redis key does not exist
    RetryCount      \* RETRY_COUNT: SET attempts before LOCK_CONTENTION

ASSUME FreeAssumption == Free \notin Requests
ASSUME RetryAssumption == RetryCount \in Nat \ {0}

VARIABLES
    store,    \* store[k]: the token stored under lock:k, or Free
    phase,    \* where the caller stands
    want,     \* the resource it asked for
    attempt,  \* the SET attempt it is at
    token,    \* token[r]: acquireLock returned a token (lockToken # null)
    calm      \* history: no Redis failure, no holder outlived its TTL so far

vars == <<store, phase, want, attempt, token, calm>>

Phases == {"idle", "trying", "critical", "done"}

TypeOK ==
    /\ store \in [Resources -> Requests \cup {Free}]
    /\ phase \in [Requests -> Phases]
    /\ want \in [Requests -> Resources]
    /\ attempt \in [Requests -> 0 .. RetryCount]
    /\ token \in [Requests -> BOOLEAN]
    /\ calm \in BOOLEAN

Init ==
    /\ store = [k \in Resources |-> Free]
    /\ phase = [r \in Requests |-> "idle"]
    /\ want \in [Requests -> Resources]
    /\ attempt = [r \in Requests |-> 0]
    /\ token = [r \in Requests |-> FALSE]
    /\ calm = TRUE

-----------------------------------------------------------------------------
(* acquireLock *)

Call(r) ==
    /\ phase[r] = "idle"
    /\ phase' = [phase EXCEPT ![r] = "trying"]
    /\ attempt' = [attempt EXCEPT ![r] = 1]
    /\ UNCHANGED <<store, want, token, calm>>

\* Mutant: SET without NX.
SetAnyway(r) ==
    /\ phase[r] = "trying"
    /\ store' = [store EXCEPT ![want[r]] = r]
    /\ token' = [token EXCEPT ![r] = TRUE]
    /\ phase' = [phase EXCEPT ![r] = "critical"]
    /\ UNCHANGED <<want, attempt, calm>>

SetNX(r) ==
    /\ phase[r] = "trying"
    /\ store[want[r]] = Free
    /\ store' = [store EXCEPT ![want[r]] = r]
    /\ token' = [token EXCEPT ![r] = TRUE]
    /\ phase' = [phase EXCEPT ![r] = "critical"]
    /\ UNCHANGED <<want, attempt, calm>>

Busy(r) ==
    /\ phase[r] = "trying"
    /\ store[want[r]] # Free
    /\ attempt[r] < RetryCount
    /\ attempt' = [attempt EXCEPT ![r] = @ + 1]
    /\ UNCHANGED <<store, phase, want, token, calm>>

\* LOCK_CONTENTION after the last attempt: the caller answers 409.
Contention(r) ==
    /\ phase[r] = "trying"
    /\ store[want[r]] # Free
    /\ attempt[r] = RetryCount
    /\ phase' = [phase EXCEPT ![r] = "done"]
    /\ UNCHANGED <<store, want, attempt, token, calm>>

\* redisClient.set rejects; Redis may or may not have executed the SET.  No
\* token is returned, so an executed SET leaves an entry nobody will delete.
SetFails(r) ==
    /\ phase[r] = "trying"
    /\ \/ UNCHANGED store
       \/ store[want[r]] = Free /\ store' = [store EXCEPT ![want[r]] = r]
    /\ \E p \in {"critical", "done"} : phase' = [phase EXCEPT ![r] = p]
    /\ calm' = FALSE
    /\ UNCHANGED <<want, attempt, token>>

-----------------------------------------------------------------------------
(* releaseLock *)

\* Mutant: DEL without comparing the token.
ReleaseAny(r) ==
    /\ phase[r] = "critical"
    /\ store' = IF token[r] THEN [store EXCEPT ![want[r]] = Free] ELSE store
    /\ token' = [token EXCEPT ![r] = FALSE]
    /\ phase' = [phase EXCEPT ![r] = "done"]
    /\ UNCHANGED <<want, attempt, calm>>

\* RELEASE_SCRIPT deletes the entry only when it still holds r's token.
Release(r) ==
    /\ phase[r] = "critical"
    /\ store' = IF token[r] /\ store[want[r]] = r
                THEN [store EXCEPT ![want[r]] = Free] ELSE store
    /\ token' = [token EXCEPT ![r] = FALSE]
    /\ phase' = [phase EXCEPT ![r] = "done"]
    /\ UNCHANGED <<want, attempt, calm>>

\* The eval fails before the script runs and the error is swallowed.
ReleaseFails(r) ==
    /\ phase[r] = "critical"
    /\ token' = [token EXCEPT ![r] = FALSE]
    /\ phase' = [phase EXCEPT ![r] = "done"]
    /\ calm' = FALSE
    /\ UNCHANGED <<store, want, attempt>>

-----------------------------------------------------------------------------
(* The environment *)

\* The server process dies; Redis keeps the entry until its TTL.
Crash(r) ==
    /\ phase[r] \in {"trying", "critical"}
    /\ phase' = [phase EXCEPT ![r] = "done"]
    /\ token' = [token EXCEPT ![r] = FALSE]
    /\ UNCHANGED <<store, want, attempt, calm>>

\* Mutant: SET without PX.
ExpireNever(k) == FALSE

\* PX: the entry disappears after LOCK_TTL_MS, also under a slow holder.
Expire(k) ==
    /\ store[k] # Free
    /\ store' = [store EXCEPT ![k] = Free]
    /\ calm' = (calm /\ phase[store[k]] # "critical")
    /\ UNCHANGED <<phase, want, attempt, token>>

Step(r) ==
    \/ SetNX(r) \/ Busy(r) \/ Contention(r) \/ SetFails(r)
    \/ Release(r) \/ ReleaseFails(r)

Next ==
    \/ \E r \in Requests : Call(r) \/ Step(r) \/ Crash(r)
    \/ \E k \in Resources : Expire(k)

Spec == Init /\ [][Next]_vars

\* A called request runs on and a TTL fires; calls and crashes are free.
FairSpec ==
    /\ Spec
    /\ \A r \in Requests : WF_vars(Step(r))
    /\ \A k \in Resources : WF_vars(Expire(k))

-----------------------------------------------------------------------------
(* Properties *)

Critical(r) == phase[r] = "critical"

\* The inductive form of mutual exclusion: until Redis fails or a
\* holder outlives the TTL, whoever is in a critical section owns the entry.
CriticalOwnsEntry ==
    calm =>
        \A r \in Requests : Critical(r) => store[want[r]] = r /\ token[r]

\* "only one transfer can run for a given sender at a time"
\* (walletController.js:270): two critical sections never overlap on one
\* resource until Redis fails or a holder outlives the TTL.
MutualExclusion ==
    calm =>
        \A r, q \in Requests :
            Critical(r) /\ Critical(q) /\ want[r] = want[q] => r = q

RemovedByOwnerOrTTL ==
    \A k \in Resources :
        store[k] # Free /\ store'[k] # store[k] => Expire(k) \/ Release(store[k])

\* An entry leaves Redis by its TTL or by its owner's own release, never by
\* another request's: what the token comparison of RELEASE_SCRIPT is for.
OnlyOwnerOrTTLRemoves == [][RemovedByOwnerOrTTL]_vars

\* Neither a crashed holder nor a lost release blocks a wallet for ever: the
\* entry of one owner always goes away.
EntryAlwaysGoesAway ==
    \A k \in Resources, r \in Requests : store[k] = r ~> store[k] # r
=============================================================================
