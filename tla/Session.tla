------------------------------- MODULE Session -------------------------------
(***************************************************************************)
(* A signed-in browser and the backend that rotates its refresh token: the *)
(* response interceptor of every tab (frontend/src/utils/api.js) over one  *)
(* localStorage, and authenticateToken, login, refreshToken and logout     *)
(* (backend/controllers/authController.js) over one user document.         *)
(*                                                                         *)
(* jwt.sign stamps tokens in whole seconds and adds nothing random, so the *)
(* tokens of one user that are issued within a second are the same: a      *)
(* token is the second in which it was signed.  Refresh tokens live for    *)
(* seven days and do not expire here.                                      *)
(***************************************************************************)
EXTENDS Integers, FiniteSets

CONSTANTS
    Tabs,
    Requests,      \* API calls of the pages, each sent once by its tab
    TabOf,         \* [Requests -> Tabs]
    None,
    Life,          \* an access token is good for this many seconds
    LastSecond,    \* bound: the clock stops here
    MaxMishaps     \* bound: calls lost, failures of the database, reloads,
                   \* sign-outs and sign-ins on another device

ASSUME SessionAssumption ==
    /\ TabOf \in [Requests -> Tabs]
    /\ Life \in Nat \ {0} /\ LastSecond \in Nat
    /\ None \notin Nat \cup Requests
    /\ MaxMishaps \in Nat

VARIABLES
    now,
    hash,           \* user.refreshTokenHash: the token it belongs to
    access, refresh,\* localStorage
    signingOut,     \* the request logout of AuthContext waits for
    isRefreshing,   \* [Tabs -> BOOLEAN]
    subscribers,    \* refreshSubscribers of each tab
    state,          \* where a request stands
    bearer,         \* the access token a request carries
    retried,        \* originalRequest._retry
    call,           \* the request's refresh call, seen from both ends
    carried,        \* the refresh token that call carries
    grant,          \* the tokens it is answered with
    mishaps,        \* how many there were
    left,           \* requests whose page was left before they settled
    disturbed       \* history: two calls overlapped, one was lost or its
                    \* page left, or the user signed in or out meanwhile

storage == <<access, refresh>>
browser == <<storage, signingOut>>
tabVars == <<isRefreshing, subscribers>>
callVars == <<call, carried, grant, left>>
vars == <<now, hash, access, refresh, signingOut, isRefreshing, subscribers, state,
          bearer, retried, call, carried, grant, left, mishaps, disturbed>>
history == <<mishaps, disturbed>>

Seconds == 0 .. LastSecond
Token == Seconds \cup {None}
States == {"idle", "sent", "refused", "waiting", "refreshing", "ok", "failed"}
Calls == {"none", "sent", "checked", "granted", "denied", "over"}

TypeOK ==
    /\ now \in Seconds
    /\ hash \in Token /\ access \in Token /\ refresh \in Token
    /\ signingOut \in Requests \cup {None}
    /\ isRefreshing \in [Tabs -> BOOLEAN]
    /\ subscribers \in [Tabs -> SUBSET Requests]
    /\ state \in [Requests -> States]
    /\ bearer \in [Requests -> Token]
    /\ retried \in [Requests -> BOOLEAN]
    /\ call \in [Requests -> Calls]
    /\ carried \in [Requests -> Token]
    /\ grant \in [Requests -> Token]
    /\ left \subseteq Requests
    /\ mishaps \in 0 .. MaxMishaps
    /\ disturbed \in BOOLEAN

\* The user has just signed in.
Init ==
    /\ now = 0
    /\ hash = 0 /\ access = 0 /\ refresh = 0
    /\ signingOut = None
    /\ isRefreshing = [t \in Tabs |-> FALSE]
    /\ subscribers = [t \in Tabs |-> {}]
    /\ state = [q \in Requests |-> "idle"]
    /\ bearer = [q \in Requests |-> None]
    /\ retried = [q \in Requests |-> FALSE]
    /\ call = [q \in Requests |-> "none"]
    /\ carried = [q \in Requests |-> None]
    /\ grant = [q \in Requests |-> None]
    /\ left = {}
    /\ mishaps = 0
    /\ disturbed = FALSE

-----------------------------------------------------------------------------
(* The browser *)

Tab(q) == TabOf[q]
Become(q, s) == state' = [state EXCEPT ![q] = s]
Mishap == mishaps < MaxMishaps /\ mishaps' = mishaps + 1
InFlight == {q \in Requests : call[q] \in {"sent", "checked", "granted", "denied"}}

\* The request interceptor attaches the stored access token.
Attach(q) ==
    /\ state[q] = "idle" /\ access # None
    /\ bearer' = [bearer EXCEPT ![q] = access]
    /\ Become(q, "sent")

Send(q) ==
    /\ Attach(q)
    /\ UNCHANGED <<now, hash, browser, tabVars, retried, callVars, history>>

\* logout of AuthContext sends a request as any other: one that is refused is
\* refreshed and replayed.
SignOut(q) ==
    /\ Mishap
    /\ signingOut = None /\ signingOut' = q
    /\ Attach(q)
    /\ disturbed' = TRUE
    /\ UNCHANGED <<now, hash, storage, tabVars, retried, callVars>>

Expired(q) == now - bearer[q] >= Life

\* authenticateToken, then the handler.  A database error is answered with
\* 401 too, and a request that gets no answer fails.
Answer(q) ==
    /\ state[q] = "sent"
    /\ \/ q # signingOut /\ ~Expired(q) /\ Become(q, "ok") /\ UNCHANGED mishaps
       \/ Expired(q) /\ Become(q, "refused") /\ UNCHANGED mishaps
       \/ Mishap /\ \E s \in {"refused", "failed"} : Become(q, s)
    /\ UNCHANGED <<now, hash, browser, tabVars, bearer, retried, callVars, disturbed>>

\* Mutant: isRefreshing is not looked at.
StartRefreshAlways(q) ==
    /\ state[q] = "refused" /\ ~retried[q] /\ refresh # None
    /\ retried' = [retried EXCEPT ![q] = TRUE]
    /\ isRefreshing' = [isRefreshing EXCEPT ![Tab(q)] = TRUE]
    /\ call' = [call EXCEPT ![q] = "sent"]
    /\ carried' = [carried EXCEPT ![q] = refresh]
    /\ disturbed' = (disturbed \/ \E p \in InFlight : Tab(p) # Tab(q))
    /\ Become(q, "refreshing")
    /\ UNCHANGED <<now, hash, browser, subscribers, bearer, grant, left, mishaps>>

\* A 401 while no refresh is under way in this tab: refresh.
StartRefresh(q) ==
    /\ state[q] = "refused" /\ ~retried[q] /\ refresh # None
    /\ ~isRefreshing[Tab(q)]
    /\ retried' = [retried EXCEPT ![q] = TRUE]
    /\ isRefreshing' = [isRefreshing EXCEPT ![Tab(q)] = TRUE]
    /\ call' = [call EXCEPT ![q] = "sent"]
    /\ carried' = [carried EXCEPT ![q] = refresh]
    /\ disturbed' = (disturbed \/ InFlight # {})
    /\ Become(q, "refreshing")
    /\ UNCHANGED <<now, hash, browser, subscribers, bearer, grant, left, mishaps>>

\* A 401 while one is: wait for it.
Subscribe(q) ==
    /\ state[q] = "refused" /\ ~retried[q] /\ refresh # None
    /\ isRefreshing[Tab(q)]
    /\ subscribers' = [subscribers EXCEPT ![Tab(q)] = @ \cup {q}]
    /\ Become(q, "waiting")
    /\ UNCHANGED <<now, hash, browser, isRefreshing, bearer, retried, callVars, history>>

\* A 401 of a request that has been replayed, or without a refresh token.
GiveUp(q) ==
    /\ state[q] = "refused" /\ (retried[q] \/ refresh = None)
    /\ access' = IF retried[q] THEN access ELSE None
    /\ Become(q, "failed")
    /\ UNCHANGED <<now, hash, refresh, signingOut, tabVars, bearer, retried, callVars, history>>

\* The refresh succeeded: store the tokens, replay the request and all that
\* waited for it.
RefreshDone(q) ==
    /\ call[q] = "granted" /\ q \notin left
    /\ access' = grant[q] /\ refresh' = grant[q]
    /\ LET again == subscribers[Tab(q)] \cup {q} IN
       /\ state' = [p \in Requests |-> IF p \in again THEN "sent" ELSE state[p]]
       /\ bearer' = [p \in Requests |-> IF p \in again THEN grant[q] ELSE bearer[p]]
    /\ subscribers' = [subscribers EXCEPT ![Tab(q)] = {}]
    /\ isRefreshing' = [isRefreshing EXCEPT ![Tab(q)] = FALSE]
    /\ call' = [call EXCEPT ![q] = "over"]
    /\ UNCHANGED <<now, hash, signingOut, retried, carried, grant, left, history>>

\* Mutant: the queue is cleared before anybody is told.
RefreshFailedSilently(q) ==
    /\ call[q] = "denied" /\ q \notin left
    /\ access' = None /\ refresh' = None
    /\ Become(q, "failed")
    /\ subscribers' = [subscribers EXCEPT ![Tab(q)] = {}]
    /\ isRefreshing' = [isRefreshing EXCEPT ![Tab(q)] = FALSE]
    /\ call' = [call EXCEPT ![q] = "over"]
    /\ UNCHANGED <<now, hash, signingOut, bearer, retried, carried, grant, left, history>>

\* It failed: everybody who waited fails with it, and the browser signs out.
RefreshFailed(q) ==
    /\ call[q] = "denied" /\ q \notin left
    /\ access' = None /\ refresh' = None
    /\ LET gone == subscribers[Tab(q)] \cup {q} IN
       state' = [p \in Requests |-> IF p \in gone THEN "failed" ELSE state[p]]
    /\ subscribers' = [subscribers EXCEPT ![Tab(q)] = {}]
    /\ isRefreshing' = [isRefreshing EXCEPT ![Tab(q)] = FALSE]
    /\ call' = [call EXCEPT ![q] = "over"]
    /\ UNCHANGED <<now, hash, signingOut, bearer, retried, carried, grant, left, history>>

-----------------------------------------------------------------------------
(* The backend *)

\* refreshToken: findById, the comparison and the new tokens.
CheckRefresh(q) ==
    /\ call[q] = "sent"
    /\ IF hash = carried[q]
       THEN /\ call' = [call EXCEPT ![q] = "checked"]
            /\ grant' = [grant EXCEPT ![q] = now]
       ELSE call' = [call EXCEPT ![q] = "denied"] /\ UNCHANGED grant
    /\ UNCHANGED <<now, hash, browser, tabVars, state, bearer, retried, carried, left, history>>

\* Mutant: the new hash is not saved.
ForgetRefresh(q) ==
    /\ call[q] = "checked"
    /\ call' = [call EXCEPT ![q] = "granted"]
    /\ UNCHANGED <<now, hash, browser, tabVars, state, bearer, retried, carried, grant, left,
                   history>>

\* user.save(): no condition on what the hash has become.
SaveRefresh(q) ==
    /\ call[q] = "checked"
    /\ hash' = grant[q]
    /\ call' = [call EXCEPT ![q] = "granted"]
    /\ UNCHANGED <<now, browser, tabVars, state, bearer, retried, carried, grant, left, history>>

-----------------------------------------------------------------------------
(* The network, the clock and the user *)

\* The call is lost on its way, the database fails it (the catch answers
\* 401), or its answer is lost.
Lose(q) ==
    /\ Mishap
    /\ call[q] \in {"sent", "checked", "granted"}
    /\ call' = [call EXCEPT ![q] = "denied"]
    /\ disturbed' = TRUE
    /\ UNCHANGED <<now, hash, browser, tabVars, state, bearer, retried, carried, grant, left>>

Tick ==
    /\ now < LastSecond
    /\ now' = now + 1
    /\ UNCHANGED <<hash, browser, tabVars, state, bearer, retried, callVars, history>>

\* login here after a sign-out, which the page waits for, or on another
\* device: the document holds one hash.
Login(here) ==
    /\ IF here THEN /\ access = None /\ signingOut = None
                    /\ access' = now /\ refresh' = now /\ UNCHANGED mishaps
               ELSE Mishap /\ UNCHANGED storage
    /\ hash' = now
    /\ disturbed' = TRUE
    /\ UNCHANGED <<now, signingOut, tabVars, state, bearer, retried, callVars>>

\* logout, backend: the hash is removed, unless its save fails.
LogoutSave(q) ==
    /\ q = signingOut /\ state[q] = "sent" /\ ~Expired(q)
    /\ \/ hash' = None /\ Become(q, "ok")
       \/ hash' \in {hash, None} /\ Become(q, "failed")
    /\ UNCHANGED <<now, browser, tabVars, bearer, retried, callVars, history>>

\* logout, browser: the stored tokens are removed however the call went.
LogoutClear ==
    /\ signingOut # None /\ state[signingOut] \in {"ok", "failed"}
    /\ access' = None /\ refresh' = None
    /\ signingOut' = None
    /\ UNCHANGED <<now, hash, tabVars, state, bearer, retried, callVars, history>>

\* A tab loads a page anew: the user does it, or window.location.href.  What
\* was unsettled is abandoned, a refresh call that is out included, and the
\* module's variables start over; the backend goes on.
Reload(t) ==
    /\ Mishap
    /\ LET gone == {q \in Requests : Tab(q) = t /\ state[q] \notin {"idle", "ok", "failed"}} IN
       /\ gone # {}
       /\ state' = [q \in Requests |-> IF q \in gone THEN "failed" ELSE state[q]]
       /\ signingOut' = IF signingOut \in gone THEN None ELSE signingOut
       /\ left' = left \cup (gone \cap InFlight)
       /\ disturbed' = (disturbed \/ gone \cap InFlight # {})
    /\ isRefreshing' = [isRefreshing EXCEPT ![t] = FALSE]
    /\ subscribers' = [subscribers EXCEPT ![t] = {}]
    /\ UNCHANGED <<now, hash, storage, bearer, retried, call, carried, grant>>

React(q) ==
    \/ Answer(q) \/ StartRefresh(q) \/ Subscribe(q) \/ GiveUp(q)
    \/ RefreshDone(q) \/ RefreshFailed(q) \/ CheckRefresh(q) \/ SaveRefresh(q)
    \/ LogoutSave(q)

Next ==
    \/ \E q \in Requests : Send(q) \/ SignOut(q) \/ React(q) \/ Lose(q)
    \/ Tick \/ LogoutClear
    \/ \E here \in BOOLEAN : Login(here)
    \/ \E t \in Tabs : Reload(t)

Spec == Init /\ [][Next]_vars

\* Browser and backend react; the user, the clock and losses are free.
FairSpec == Spec /\ \A q \in Requests : WF_vars(React(q))

-----------------------------------------------------------------------------
(* What the session promises *)

\* "only ONE refresh call is made and all requests queue behind it"
\* (api.js:28): in each tab the flag is up exactly while one call is out, and
\* whoever waits, waits for that call.
OneRefreshPerTab ==
    \A t \in Tabs :
        /\ Cardinality({q \in InFlight \ left : Tab(q) = t}) = IF isRefreshing[t] THEN 1 ELSE 0
        /\ subscribers[t] = {q \in Requests : Tab(q) = t /\ state[q] = "waiting"}
        /\ subscribers[t] # {} => isRefreshing[t]

\* The silent refresh is silent: as long as refresh calls do not overlap and
\* none is lost, the stored token is the one the backend expects, and no
\* request is ever failed with a sign-out, whatever tab refreshes when.
StaysSignedIn ==
    ~disturbed =>
        /\ \A q \in Requests : call[q] # "denied"
        /\ InFlight = {} => refresh = hash

\* A page's request is not left hanging in the queue.
RequestsSettle ==
    \A q \in Requests : state[q] = "sent" ~> state[q] \in {"ok", "failed"}
=============================================================================
