--------------------------- MODULE Session_proofs ---------------------------
(***************************************************************************)
(* Proofs about what belongs to one user: OneRefreshPerTab and             *)
(* StaysSignedIn of Session for every number of tabs, requests, seconds    *)
(* and mishaps, and every lifetime of an access token; then what Account   *)
(* and Profile promise, for all their parameters.                          *)
(*                                                                         *)
(* The queue of a tab is right because a request that has a call out which *)
(* its page has not left is the one the tab's flag stands for; the user    *)
(* stays signed in because the one call that is out carries the token the  *)
(* backend expects, and brings the next one back.                          *)
(***************************************************************************)
EXTENDS Session, AccountState, ProfileState, FiniteSetTheorems, TLAPS

\* q's call is out and its page waits for it.
Awaited(q) == q \in InFlight /\ q \notin left

\* The flag of a tab is up exactly while one call is out, and that call's
\* request, alone in its tab, is refreshing.
FlagInv ==
    /\ \A q \in Requests : Awaited(q) => state[q] = "refreshing" /\ isRefreshing[Tab(q)]
    /\ \A p, q \in Requests : Awaited(p) /\ Awaited(q) /\ Tab(p) = Tab(q) => p = q
    /\ \A t \in Tabs : isRefreshing[t] => \E q \in Requests : Awaited(q) /\ Tab(q) = t
    /\ \A q \in left : state[q] = "failed"

\* Whoever waits is in the queue of its tab, whose flag is up.
QueueInv ==
    \A t \in Tabs :
        /\ subscribers[t] = {q \in Requests : Tab(q) = t /\ state[q] = "waiting"}
        /\ subscribers[t] # {} => isRefreshing[t]

\* Undisturbed, at most one call is out: until it is saved it carries the
\* token the backend expects, and from then on it brings that token back.
TokenInv ==
    ~disturbed =>
        /\ signingOut = None
        /\ \A p, q \in InFlight : p = q
        /\ \A q \in Requests :
            /\ call[q] \in {"sent", "checked"} => carried[q] = hash
            /\ call[q] = "granted" => grant[q] = hash
            /\ call[q] # "denied"
        /\ InFlight = {} => refresh = hash

IInv == TypeOK /\ FlagInv /\ QueueInv /\ TokenInv

-----------------------------------------------------------------------------

(* Every step keeps the types. *)
LEMMA TypeStep ==
    ASSUME TypeOK, [Next]_vars
    PROVE  TypeOK'
<1> USE SessionAssumption DEF TypeOK, Token, Seconds, States, Calls, Become, Mishap, Tab,
        browser, storage, tabVars, callVars, history
<1>1. ASSUME NEW q \in Requests, Send(q) PROVE TypeOK'
  BY <1>1 DEF Send, Attach
<1>2. ASSUME NEW q \in Requests, Answer(q) PROVE TypeOK'
  BY <1>2 DEF Answer
<1>3. ASSUME NEW q \in Requests, StartRefresh(q) PROVE TypeOK'
  BY <1>3 DEF StartRefresh
<1>4. ASSUME NEW q \in Requests, Subscribe(q) PROVE TypeOK'
  BY <1>4 DEF Subscribe
<1>5. ASSUME NEW q \in Requests, GiveUp(q) PROVE TypeOK'
  BY <1>5 DEF GiveUp
<1>6. ASSUME NEW q \in Requests, RefreshDone(q) PROVE TypeOK'
  BY <1>6 DEF RefreshDone
<1>7. ASSUME NEW q \in Requests, RefreshFailed(q) PROVE TypeOK'
  BY <1>7 DEF RefreshFailed
<1>8. ASSUME NEW q \in Requests, CheckRefresh(q) PROVE TypeOK'
  BY <1>8 DEF CheckRefresh
<1>9. ASSUME NEW q \in Requests, SaveRefresh(q) PROVE TypeOK'
  BY <1>9 DEF SaveRefresh
<1>10. ASSUME NEW q \in Requests, Lose(q) PROVE TypeOK'
  BY <1>10 DEF Lose
<1>11. ASSUME Tick PROVE TypeOK'
  BY <1>11 DEF Tick
<1>12. ASSUME NEW q \in Requests, LogoutSave(q) PROVE TypeOK'
  BY <1>12 DEF LogoutSave
<1>13. ASSUME LogoutClear PROVE TypeOK'
  BY <1>13 DEF LogoutClear
<1>14. ASSUME NEW here \in BOOLEAN, Login(here) PROVE TypeOK'
  BY <1>14 DEF Login
<1>15. ASSUME NEW t \in Tabs, Reload(t) PROVE TypeOK'
  BY <1>15 DEF Reload
<1>16. ASSUME NEW q \in Requests, SignOut(q) PROVE TypeOK'
  BY <1>16 DEF SignOut, Attach
<1>17. CASE UNCHANGED vars
  BY <1>17 DEF vars
<1> QED
  BY <1>1, <1>2, <1>3, <1>4, <1>5, <1>6, <1>7, <1>8, <1>9, <1>10, <1>11, <1>12, <1>13, <1>14,
     <1>15, <1>16, <1>17 DEF Next, React

(* Every step keeps the flags and the queues. *)
LEMMA FlagStep ==
    ASSUME TypeOK, FlagInv, QueueInv, [Next]_vars
    PROVE  FlagInv' /\ QueueInv'
<1> USE SessionAssumption DEF TypeOK, FlagInv, QueueInv, Awaited, InFlight, Tab, Become,
        browser, storage, tabVars, callVars, history
<1>1. ASSUME NEW q \in Requests, Send(q) PROVE FlagInv' /\ QueueInv'
  BY <1>1 DEF Send, Attach
<1>2. ASSUME NEW q \in Requests, Answer(q) PROVE FlagInv' /\ QueueInv'
  BY <1>2 DEF Answer
<1>3. ASSUME NEW q \in Requests, StartRefresh(q) PROVE FlagInv' /\ QueueInv'
  BY <1>3 DEF StartRefresh
<1>4. ASSUME NEW q \in Requests, Subscribe(q) PROVE FlagInv' /\ QueueInv'
  BY <1>4 DEF Subscribe
<1>5. ASSUME NEW q \in Requests, GiveUp(q) PROVE FlagInv' /\ QueueInv'
  BY <1>5 DEF GiveUp
<1>6. ASSUME NEW q \in Requests, RefreshDone(q) PROVE FlagInv' /\ QueueInv'
  BY <1>6 DEF RefreshDone
<1>7. ASSUME NEW q \in Requests, RefreshFailed(q) PROVE FlagInv' /\ QueueInv'
  BY <1>7 DEF RefreshFailed
<1>8. ASSUME NEW q \in Requests, CheckRefresh(q) PROVE FlagInv' /\ QueueInv'
  BY <1>8 DEF CheckRefresh
<1>9. ASSUME NEW q \in Requests, SaveRefresh(q) PROVE FlagInv' /\ QueueInv'
  BY <1>9 DEF SaveRefresh
<1>10. ASSUME NEW q \in Requests, Lose(q) PROVE FlagInv' /\ QueueInv'
  BY <1>10 DEF Lose
<1>11. ASSUME Tick PROVE FlagInv' /\ QueueInv'
  BY <1>11 DEF Tick
<1>12. ASSUME NEW q \in Requests, LogoutSave(q) PROVE FlagInv' /\ QueueInv'
  BY <1>12 DEF LogoutSave
<1>13. ASSUME LogoutClear PROVE FlagInv' /\ QueueInv'
  BY <1>13 DEF LogoutClear
<1>14. ASSUME NEW here \in BOOLEAN, Login(here) PROVE FlagInv' /\ QueueInv'
  BY <1>14 DEF Login
<1>15. ASSUME NEW t \in Tabs, Reload(t) PROVE FlagInv' /\ QueueInv'
  BY <1>15 DEF Reload
<1>16. ASSUME NEW q \in Requests, SignOut(q) PROVE FlagInv' /\ QueueInv'
  BY <1>16 DEF SignOut, Attach
<1>17. CASE UNCHANGED vars
  BY <1>17 DEF vars
<1> QED
  BY <1>1, <1>2, <1>3, <1>4, <1>5, <1>6, <1>7, <1>8, <1>9, <1>10, <1>11, <1>12, <1>13, <1>14,
     <1>15, <1>16, <1>17 DEF Next, React

(* Every step keeps the tokens. *)
LEMMA TokenStep ==
    ASSUME TypeOK, TokenInv, [Next]_vars
    PROVE  TokenInv'
<1> USE SessionAssumption DEF TypeOK, TokenInv, InFlight, browser, storage, tabVars, callVars,
        history
<1>1. ASSUME NEW q \in Requests, Send(q) PROVE TokenInv'
  BY <1>1 DEF Send, Attach
<1>2. ASSUME NEW q \in Requests, Answer(q) PROVE TokenInv'
  BY <1>2 DEF Answer
<1>3. ASSUME NEW q \in Requests, StartRefresh(q) PROVE TokenInv'
  BY <1>3 DEF StartRefresh
<1>4. ASSUME NEW q \in Requests, Subscribe(q) PROVE TokenInv'
  BY <1>4 DEF Subscribe
<1>5. ASSUME NEW q \in Requests, GiveUp(q) PROVE TokenInv'
  BY <1>5 DEF GiveUp
<1>6. ASSUME NEW q \in Requests, RefreshDone(q) PROVE TokenInv'
  BY <1>6 DEF RefreshDone
<1>7. ASSUME NEW q \in Requests, RefreshFailed(q) PROVE TokenInv'
  BY <1>7 DEF RefreshFailed
<1>8. ASSUME NEW q \in Requests, CheckRefresh(q) PROVE TokenInv'
  BY <1>8 DEF CheckRefresh
<1>9. ASSUME NEW q \in Requests, SaveRefresh(q) PROVE TokenInv'
  BY <1>9 DEF SaveRefresh
<1>10. ASSUME NEW q \in Requests, Lose(q) PROVE TokenInv'
  BY <1>10 DEF Lose
<1>11. ASSUME Tick PROVE TokenInv'
  BY <1>11 DEF Tick
<1>12. ASSUME NEW q \in Requests, LogoutSave(q) PROVE TokenInv'
  BY <1>12 DEF LogoutSave
<1>13. ASSUME LogoutClear PROVE TokenInv'
  BY <1>13 DEF LogoutClear
<1>14. ASSUME NEW here \in BOOLEAN, Login(here) PROVE TokenInv'
  BY <1>14 DEF Login
<1>15. ASSUME NEW t \in Tabs, Reload(t) PROVE TokenInv'
  BY <1>15 DEF Reload
<1>16. ASSUME NEW q \in Requests, SignOut(q) PROVE TokenInv'
  BY <1>16 DEF SignOut, Attach
<1>17. CASE UNCHANGED vars
  BY <1>17 DEF vars
<1> QED
  BY <1>1, <1>2, <1>3, <1>4, <1>5, <1>6, <1>7, <1>8, <1>9, <1>10, <1>11, <1>12, <1>13, <1>14,
     <1>15, <1>16, <1>17 DEF Next, React
-----------------------------------------------------------------------------
(* The three parts together hold of every state. *)
LEMMA Invariance == Spec => []IInv
<1>1. Init => IInv
  <2>1. Init => TypeOK
    <3>1. Init => now \in Seconds /\ hash \in Token /\ access \in Token /\ refresh \in Token
      BY SessionAssumption DEF Init, Token, Seconds
    <3>2. Init => mishaps \in 0 .. MaxMishaps
      BY SessionAssumption DEF Init
    <3> QED
      BY <3>1, <3>2 DEF Init, TypeOK, Token, States, Calls
  <2>2. Init => FlagInv /\ QueueInv
    BY SessionAssumption DEF Init, FlagInv, QueueInv, Awaited, InFlight, Tab
  <2>3. Init => TokenInv
    BY DEF Init, TokenInv, InFlight
  <2> QED
    BY <2>1, <2>2, <2>3 DEF IInv
<1>2. IInv /\ [Next]_vars => IInv'
  BY TypeStep, FlagStep, TokenStep DEF IInv
<1> QED
  BY <1>1, <1>2, PTL DEF Spec

(* The interceptor's variables, the stored tokens and the refresh calls    *)
(* keep their types (api.js, authController.js).                           *)
THEOREM SessionTypes == Spec => []TypeOK
<1>1. IInv => TypeOK
  BY DEF IInv
<1> QED
  BY <1>1, Invariance, PTL

(* However many requests of a tab are refused together, whatever is lost   *)
(* or reloaded between: its flag is up exactly while one refresh call is   *)
(* out, its queue holds exactly those who wait, and nobody waits for a     *)
(* refresh that is not under way (api.js: isRefreshing, subscribers).      *)
THEOREM OneCallPerTab == Spec => []OneRefreshPerTab
<1>1. IInv => OneRefreshPerTab
  <2> SUFFICES ASSUME IInv, NEW t \in Tabs
               PROVE  Cardinality({q \in InFlight \ left : Tab(q) = t})
                          = IF isRefreshing[t] THEN 1 ELSE 0
    BY DEF OneRefreshPerTab, IInv, QueueInv
  <2> DEFINE out == {q \in InFlight \ left : Tab(q) = t}
  <2>1. CASE isRefreshing[t]
    <3>1. PICK q \in Requests : Awaited(q) /\ Tab(q) = t
      BY <2>1 DEF IInv, FlagInv
    <3>2. \A p \in out : p = q
      BY <3>1 DEF IInv, FlagInv, Awaited, InFlight
    <3>3. q \in out
      BY <3>1 DEF Awaited
    <3>4. out = {q}
      BY <3>2, <3>3
    <3> HIDE DEF out
    <3>5. Cardinality(out) = 1
      BY <3>4, FS_Singleton
    <3> QED
      BY <3>5, <2>1 DEF out
  <2>2. CASE ~isRefreshing[t]
    <3>1. out = {}
      BY <2>2 DEF IInv, FlagInv, Awaited, InFlight
    <3> HIDE DEF out
    <3>2. Cardinality(out) = 0
      BY <3>1, FS_EmptySet
    <3> QED
      BY <3>2, <2>2 DEF out
  <2> QED
    BY <2>1, <2>2
<1> QED
  BY <1>1, Invariance, PTL

(* As long as refresh calls do not overlap, none is lost and nobody signs  *)
(* in or out, no refresh is denied, and between refreshes the stored token *)
(* is the one whose hash the user document has (api.js,                    *)
(* authController.js: refreshToken).                                       *)
THEOREM NobodyIsSignedOut == Spec => []StaysSignedIn
<1>1. IInv => StaysSignedIn
  BY DEF IInv, TokenInv, StaysSignedIn
<1> QED
  BY <1>1, Invariance, PTL

-----------------------------------------------------------------------------
(* The account the session is for.  Account is instantiated over the state *)
(* of AccountState; what it assumes of its parameters is an assumption of  *)
(* each theorem.                                                           *)

Account == INSTANCE Account

\* The page requests of a kind are made on.
PageOf(k) ==
    CASE k = "register" -> "signup" [] k = "login" -> "signin" [] k = "forgot" -> "forgot"
      [] k = "reset" -> "reset" [] OTHER -> "verify"

\* A page shows as under way only what was asked for on it.
WaitsInv == \A r \in waits : page = PageOf(kind[r])

\* A request that is past a check still has what it checked: nothing takes a
\* verification, a wallet or an account away.
ReadyInv ==
    /\ Account!SignedInIsReady
    /\ user.otp # Account!NoSecret => user.exists
    /\ \A r \in AuthRequests :
        /\ point[r] = "create" => kind[r] = "register"
        /\ point[r] \in {"issue", "sendCode"} =>
               user.exists /\ kind[r] \in {"register", "resend", "login"}
        /\ point[r] \in {"findWallet", "openWallet", "saveVerified"} =>
               user.exists /\ kind[r] = "verify"
        /\ point[r] = "saveVerified" => wallet
        /\ point[r] = "token" => user.verified /\ kind[r] = "login"
        /\ point[r] \in {"saveLink", "sendLink"} => kind[r] = "forgot"
        /\ point[r] = "savePassword" => kind[r] = "reset"
        /\ point[r] = "ok" /\ kind[r] \in {"login", "verify"} => user.verified

\* Whatever anybody holds has been made, and nothing else has been used.
SecretsInv ==
    /\ user.otp <= made /\ user.link <= made
    /\ \A r \in AuthRequests :
        /\ secret[r] <= made
        /\ point[r] \in {"sendCode", "sendLink", "savePassword"} => secret[r] # Account!NoSecret
    /\ \A m \in Account!Mails : inbox[m] <= made
    /\ \A s \in Account!Secrets : s > made => used[s] = 0

\* Undisturbed, a code that is being sent is the one the document expects, and
\* when none is, the one in the inbox is.
CodeInv ==
    "otp" \notin crossed /\ ~user.verified =>
        /\ \A r \in AuthRequests : point[r] = "sendCode" => secret[r] = user.otp
        /\ (\A r \in AuthRequests : point[r] # "sendCode") => inbox["otp"] = user.otp

\* Undisturbed, the link that is being sent or used is the document's, which
\* has not been used; when none is being sent, the inbox has it, or it had
\* been used.
LinkInv ==
    "link" \notin crossed =>
        /\ \A s \in Account!Secrets : used[s] <= 1
        /\ user.link # Account!NoSecret => used[user.link] = 0
        /\ \A r \in AuthRequests :
               point[r] \in {"sendLink", "savePassword"} => secret[r] = user.link
        /\ (\A r \in AuthRequests : point[r] # "sendLink") /\ inbox["link"] # Account!NoSecret =>
               user.link = (IF used[inbox["link"]] = 0 THEN inbox["link"] ELSE Account!NoSecret)

\* The parts together.
AccountInv ==
    Account!TypeOK /\ WaitsInv /\ ReadyInv /\ SecretsInv /\ CodeInv /\ LinkInv

\* What a user document may be.
UserDocuments ==
    [exists : BOOLEAN, verified : BOOLEAN,
     otp : Account!Secrets \cup {Account!NoSecret},
     link : Account!Secrets \cup {Account!NoSecret}]

\* Every step keeps the types.
LEMMA AccountTypeStep ==
    ASSUME Account!AccountAssumption, AccountInv, [Account!Next]_Account!vars
    PROVE  Account!TypeOK'
<1> USE DEF AccountInv, Account!TypeOK, Account!Points, Account!Pages, Account!Kinds, WaitsInv,
        PageOf, SecretsInv,
        Account!AccountAssumption, Account!Secrets, Account!NoSecret, Account!Mails, Account!At,
        Account!Goto, Account!Quiet, Account!document,
        Account!requestVars, Account!browser
<1>1. ASSUME NEW r \in AuthRequests, Account!SubmitSignup(r) PROVE Account!TypeOK'
  BY <1>1 DEF Account!SubmitSignup, Account!Submit
<1>2. ASSUME NEW r \in AuthRequests, Account!SubmitSignin(r) PROVE Account!TypeOK'
  BY <1>2 DEF Account!SubmitSignin, Account!Submit
<1>3. ASSUME NEW r \in AuthRequests, Account!SubmitForgot(r) PROVE Account!TypeOK'
  BY <1>3 DEF Account!SubmitForgot, Account!Submit
<1>4. ASSUME NEW r \in AuthRequests, Account!SubmitReset(r) PROVE Account!TypeOK'
  BY <1>4 DEF Account!SubmitReset, Account!Submit
<1>5. ASSUME NEW r \in AuthRequests, Account!SubmitCode(r) PROVE Account!TypeOK'
  <2>1. PICK s \in Account!Secrets \cup {Account!NoSecret} :
            Account!Submit(r, "verify", "verify", s)
    BY <1>5 DEF Account!SubmitCode
  <2>2. waits' = waits \cup {r} /\ point' = [point EXCEPT ![r] = "find"]
    BY <2>1 DEF Account!Submit
  <2>3. waits' \subseteq {q \in AuthRequests : point'[q] \notin {"idle", "over"}}
    BY <2>2
  <2>4. /\ kind' \in [AuthRequests -> Account!Kinds \cup {"none"}]
        /\ secret' \in [AuthRequests -> Account!Secrets \cup {Account!NoSecret}]
        /\ UNCHANGED <<user, wallet, made, inbox, expired, page, session, used, crossed,
                       mishaps>>
    BY <2>1 DEF Account!Submit
  <2> QED
    BY <2>2, <2>3, <2>4
<1>6. ASSUME NEW r \in AuthRequests, Account!AskAgain(r) PROVE Account!TypeOK'
  BY <1>6 DEF Account!AskAgain, Account!Submit
<1>7. ASSUME NEW r \in AuthRequests, Account!FindForRegister(r) PROVE Account!TypeOK'
  BY <1>7 DEF Account!FindForRegister, Account!Look
<1>8. ASSUME NEW r \in AuthRequests, Account!FindForResend(r) PROVE Account!TypeOK'
  BY <1>8 DEF Account!FindForResend, Account!Look
<1>9. ASSUME NEW r \in AuthRequests, Account!FindForLogin(r) PROVE Account!TypeOK'
  BY <1>9 DEF Account!FindForLogin, Account!Look
<1>10. ASSUME NEW r \in AuthRequests, Account!FindForVerify(r) PROVE Account!TypeOK'
  BY <1>10 DEF Account!FindForVerify, Account!Look, Account!Good
<1>11. ASSUME NEW r \in AuthRequests, Account!FindForForgot(r) PROVE Account!TypeOK'
  BY <1>11 DEF Account!FindForForgot, Account!Look
<1>12. ASSUME NEW r \in AuthRequests, Account!FindForReset(r) PROVE Account!TypeOK'
  BY <1>12 DEF Account!FindForReset, Account!Look, Account!Good
<1>13. ASSUME NEW r \in AuthRequests, Account!Create(r) PROVE Account!TypeOK'
  <2>1. user' \in {user, [user EXCEPT !.exists = TRUE]}
    BY <1>13 DEF Account!Create
  <2>3. user' \in UserDocuments
    <3>1. user \in UserDocuments
      BY DEF UserDocuments
    <3> HIDE DEF AccountInv, Account!TypeOK, WaitsInv, SecretsInv
    <3> QED
      BY <2>1, <3>1 DEF UserDocuments
  <2>4. UNCHANGED <<wallet, made, inbox, kind, secret, expired, page, session, waits, used,
                    crossed, mishaps>>
    BY <1>13 DEF Account!Create
  <2>5. point' \in [AuthRequests -> Account!Points]
    BY <1>13 DEF Account!Create
  <2>6. \A q \in waits : point'[q] \notin {"idle", "over"}
    BY <1>13 DEF Account!Create
  <2> QED
    BY <2>3, <2>4, <2>5, <2>6 DEF UserDocuments
<1>14. ASSUME NEW r \in AuthRequests, Account!Issue(r) PROVE Account!TypeOK'
  <2>1. user' \in {[user EXCEPT !.otp = made + 1]}
    BY <1>14 DEF Account!Issue, Account!Step, Account!New, Account!Others
  <2>2. made + 1 \in Account!Secrets
    BY <1>14 DEF Account!Issue, Account!Step, Account!New, Account!Others
  <2>3. user' \in UserDocuments
    <3>1. user \in UserDocuments
      BY DEF UserDocuments
    <3> HIDE DEF AccountInv, Account!TypeOK, WaitsInv, SecretsInv
    <3> QED
      BY <2>1, <2>2, <3>1 DEF UserDocuments
  <2>4. UNCHANGED <<wallet, inbox, kind, expired, page, session, waits, used, mishaps>>
    BY <1>14 DEF Account!Issue, Account!Step, Account!New, Account!Others
  <2>5. made' \in 0 .. MaxSecrets /\ crossed' \subseteq Account!Mails
    BY <1>14 DEF Account!Issue, Account!Step, Account!New, Account!Others
  <2>6. secret' \in [AuthRequests -> Account!Secrets \cup {Account!NoSecret}]
    BY <1>14 DEF Account!Issue, Account!Step, Account!New, Account!Others
  <2>7. point' \in [AuthRequests -> Account!Points]
    BY <1>14 DEF Account!Issue, Account!Step, Account!New, Account!Others
  <2>8. \A q \in waits : point'[q] \notin {"idle", "over"}
    BY <1>14 DEF Account!Issue, Account!Step, Account!New, Account!Others
  <2> QED
    BY <2>3, <2>4, <2>5, <2>6, <2>7, <2>8 DEF UserDocuments
<1>15. ASSUME NEW r \in AuthRequests, Account!SendCode(r) PROVE Account!TypeOK'
  BY <1>15 DEF Account!SendCode, Account!Step
<1>16. ASSUME NEW r \in AuthRequests, Account!FindWallet(r) PROVE Account!TypeOK'
  BY <1>16 DEF Account!FindWallet, Account!Step
<1>17. ASSUME NEW r \in AuthRequests, Account!OpenWallet(r) PROVE Account!TypeOK'
  BY <1>17 DEF Account!OpenWallet, Account!Step
<1>18. ASSUME NEW r \in AuthRequests, Account!SaveVerified(r) PROVE Account!TypeOK'
  BY <1>18 DEF Account!SaveVerified, Account!Step
<1>19. ASSUME NEW r \in AuthRequests, Account!IssueToken(r) PROVE Account!TypeOK'
  BY <1>19 DEF Account!IssueToken, Account!Step
<1>20. ASSUME NEW r \in AuthRequests, Account!SaveLink(r) PROVE Account!TypeOK'
  <2>1. user' \in {[user EXCEPT !.link = made + 1]}
    BY <1>20 DEF Account!SaveLink, Account!Step, Account!New, Account!Others
  <2>2. made + 1 \in Account!Secrets
    BY <1>20 DEF Account!SaveLink, Account!Step, Account!New, Account!Others
  <2>3. user' \in UserDocuments
    <3>1. user \in UserDocuments
      BY DEF UserDocuments
    <3> HIDE DEF AccountInv, Account!TypeOK, WaitsInv, SecretsInv
    <3> QED
      BY <2>1, <2>2, <3>1 DEF UserDocuments
  <2>4. UNCHANGED <<wallet, inbox, kind, expired, page, session, waits, used, mishaps>>
    BY <1>20 DEF Account!SaveLink, Account!Step, Account!New, Account!Others
  <2>5. made' \in 0 .. MaxSecrets /\ crossed' \subseteq Account!Mails
    BY <1>20 DEF Account!SaveLink, Account!Step, Account!New, Account!Others
  <2>6. secret' \in [AuthRequests -> Account!Secrets \cup {Account!NoSecret}]
    BY <1>20 DEF Account!SaveLink, Account!Step, Account!New, Account!Others
  <2>7. point' \in [AuthRequests -> Account!Points]
    BY <1>20 DEF Account!SaveLink, Account!Step, Account!New, Account!Others
  <2>8. \A q \in waits : point'[q] \notin {"idle", "over"}
    BY <1>20 DEF Account!SaveLink, Account!Step, Account!New, Account!Others
  <2> QED
    BY <2>3, <2>4, <2>5, <2>6, <2>7, <2>8 DEF UserDocuments
<1>21. ASSUME NEW r \in AuthRequests, Account!SendLink(r) PROVE Account!TypeOK'
  BY <1>21 DEF Account!SendLink, Account!Step
<1>22. ASSUME NEW r \in AuthRequests, Account!SavePassword(r) PROVE Account!TypeOK'
  <2>1. user' \in {[user EXCEPT !.link = Account!NoSecret]}
    BY <1>22 DEF Account!SavePassword, Account!Reset, Account!Step, Account!Others
  <2>3. user' \in UserDocuments
    <3>1. user \in UserDocuments
      BY DEF UserDocuments
    <3> HIDE DEF AccountInv, Account!TypeOK, WaitsInv, SecretsInv
    <3> QED
      BY <2>1, <3>1 DEF UserDocuments
  <2>4. UNCHANGED <<wallet, made, inbox, kind, secret, expired, page, session, waits, mishaps>>
    BY <1>22 DEF Account!SavePassword, Account!Reset, Account!Step, Account!Others
  <2>5. used' \in [Account!Secrets -> Nat] /\ crossed' \subseteq Account!Mails
    BY <1>22 DEF Account!SavePassword, Account!Reset, Account!Step, Account!Others
  <2>6. point' \in [AuthRequests -> Account!Points]
    BY <1>22 DEF Account!SavePassword, Account!Reset, Account!Step, Account!Others
  <2>7. \A q \in waits : point'[q] \notin {"idle", "over"}
    BY <1>22 DEF Account!SavePassword, Account!Reset, Account!Step, Account!Others
  <2> QED
    BY <2>3, <2>4, <2>5, <2>6, <2>7 DEF UserDocuments
<1>23. ASSUME NEW r \in AuthRequests, Account!Fail(r) PROVE Account!TypeOK'
  BY <1>23 DEF Account!Fail
<1>24. ASSUME NEW r \in AuthRequests, Account!AnswerRegister(r) PROVE Account!TypeOK'
  BY <1>24 DEF Account!AnswerRegister, Account!Answered, Account!Show
<1>25. ASSUME NEW r \in AuthRequests, Account!AnswerUnverified(r) PROVE Account!TypeOK'
  BY <1>25 DEF Account!AnswerUnverified, Account!Answered, Account!Show
<1>26. ASSUME NEW r \in AuthRequests, Account!AnswerLogin(r) PROVE Account!TypeOK'
  BY <1>26 DEF Account!AnswerLogin, Account!Answered, Account!Show
<1>27. ASSUME NEW r \in AuthRequests, Account!AnswerVerify(r) PROVE Account!TypeOK'
  BY <1>27 DEF Account!AnswerVerify, Account!Answered, Account!Show
<1>28. ASSUME NEW r \in AuthRequests, Account!AnswerResend(r) PROVE Account!TypeOK'
  BY <1>28 DEF Account!AnswerResend, Account!Answered, Account!Shown
<1>29. ASSUME NEW r \in AuthRequests, Account!AnswerForgot(r) PROVE Account!TypeOK'
  BY <1>29 DEF Account!AnswerForgot, Account!Answered, Account!Shown
<1>30. ASSUME NEW r \in AuthRequests, Account!AnswerReset(r) PROVE Account!TypeOK'
  BY <1>30 DEF Account!AnswerReset, Account!Answered, Account!Show
<1>31. ASSUME NEW r \in AuthRequests, Account!AnswerError(r) PROVE Account!TypeOK'
  BY <1>31 DEF Account!AnswerError, Account!Answered, Account!Shown
<1>32. ASSUME NEW p \in Account!Pages, Account!Go(p) PROVE Account!TypeOK'
  BY <1>32 DEF Account!Go, Account!Show, Account!Pages
<1>33. ASSUME NEW s \in Account!Secrets, Account!Expire(s) PROVE Account!TypeOK'
  BY <1>33 DEF Account!Expire
<1>34. CASE UNCHANGED Account!vars
  BY <1>34 DEF Account!vars
<1> HIDE DEF AccountInv, Account!TypeOK, WaitsInv, ReadyInv, SecretsInv, CodeInv, LinkInv
<1> QED
  BY <1>1, <1>2, <1>3, <1>4, <1>5, <1>6, <1>7, <1>8, <1>9, <1>10, <1>11, <1>12, <1>13, <1>14,
     <1>15, <1>16, <1>17, <1>18, <1>19, <1>20, <1>21, <1>22, <1>23, <1>24, <1>25, <1>26, <1>27,
     <1>28, <1>29, <1>30, <1>31, <1>32, <1>33, <1>34
     DEF Account!Next, Account!Ask, Account!Handle, Account!Answer

\* Every step keeps on a page only what was asked for there: whoever leaves a
\* page forgets its requests.
LEMMA WaitsStep ==
    ASSUME Account!AccountAssumption, AccountInv, [Account!Next]_Account!vars
    PROVE  WaitsInv'
<1> USE DEF AccountInv, Account!TypeOK, WaitsInv, PageOf, Account!AccountAssumption,
        Account!Secrets, Account!NoSecret,
        Account!Mails, Account!At, Account!Goto, Account!Quiet, Account!document,
        Account!requestVars, Account!browser
<1>1. ASSUME NEW r \in AuthRequests, Account!SubmitSignup(r) PROVE WaitsInv'
  BY <1>1 DEF Account!SubmitSignup, Account!Submit
<1>2. ASSUME NEW r \in AuthRequests, Account!SubmitSignin(r) PROVE WaitsInv'
  BY <1>2 DEF Account!SubmitSignin, Account!Submit
<1>3. ASSUME NEW r \in AuthRequests, Account!SubmitForgot(r) PROVE WaitsInv'
  BY <1>3 DEF Account!SubmitForgot, Account!Submit
<1>4. ASSUME NEW r \in AuthRequests, Account!SubmitReset(r) PROVE WaitsInv'
  BY <1>4 DEF Account!SubmitReset, Account!Submit
<1>5. ASSUME NEW r \in AuthRequests, Account!SubmitCode(r) PROVE WaitsInv'
  BY <1>5 DEF Account!SubmitCode, Account!Submit
<1>6. ASSUME NEW r \in AuthRequests, Account!AskAgain(r) PROVE WaitsInv'
  BY <1>6 DEF Account!AskAgain, Account!Submit
<1>7. ASSUME NEW r \in AuthRequests, Account!FindForRegister(r) PROVE WaitsInv'
  BY <1>7 DEF Account!FindForRegister, Account!Look
<1>8. ASSUME NEW r \in AuthRequests, Account!FindForResend(r) PROVE WaitsInv'
  BY <1>8 DEF Account!FindForResend, Account!Look
<1>9. ASSUME NEW r \in AuthRequests, Account!FindForLogin(r) PROVE WaitsInv'
  BY <1>9 DEF Account!FindForLogin, Account!Look
<1>10. ASSUME NEW r \in AuthRequests, Account!FindForVerify(r) PROVE WaitsInv'
  BY <1>10 DEF Account!FindForVerify, Account!Look, Account!Good
<1>11. ASSUME NEW r \in AuthRequests, Account!FindForForgot(r) PROVE WaitsInv'
  BY <1>11 DEF Account!FindForForgot, Account!Look
<1>12. ASSUME NEW r \in AuthRequests, Account!FindForReset(r) PROVE WaitsInv'
  BY <1>12 DEF Account!FindForReset, Account!Look, Account!Good
<1>13. ASSUME NEW r \in AuthRequests, Account!Create(r) PROVE WaitsInv'
  BY <1>13 DEF Account!Create
<1>14. ASSUME NEW r \in AuthRequests, Account!Issue(r) PROVE WaitsInv'
  BY <1>14 DEF Account!Issue, Account!Step, Account!New, Account!Others
<1>15. ASSUME NEW r \in AuthRequests, Account!SendCode(r) PROVE WaitsInv'
  BY <1>15 DEF Account!SendCode, Account!Step
<1>16. ASSUME NEW r \in AuthRequests, Account!FindWallet(r) PROVE WaitsInv'
  BY <1>16 DEF Account!FindWallet, Account!Step
<1>17. ASSUME NEW r \in AuthRequests, Account!OpenWallet(r) PROVE WaitsInv'
  BY <1>17 DEF Account!OpenWallet, Account!Step
<1>18. ASSUME NEW r \in AuthRequests, Account!SaveVerified(r) PROVE WaitsInv'
  BY <1>18 DEF Account!SaveVerified, Account!Step
<1>19. ASSUME NEW r \in AuthRequests, Account!IssueToken(r) PROVE WaitsInv'
  BY <1>19 DEF Account!IssueToken, Account!Step
<1>20. ASSUME NEW r \in AuthRequests, Account!SaveLink(r) PROVE WaitsInv'
  BY <1>20 DEF Account!SaveLink, Account!Step, Account!New, Account!Others
<1>21. ASSUME NEW r \in AuthRequests, Account!SendLink(r) PROVE WaitsInv'
  BY <1>21 DEF Account!SendLink, Account!Step
<1>22. ASSUME NEW r \in AuthRequests, Account!SavePassword(r) PROVE WaitsInv'
  BY <1>22 DEF Account!SavePassword, Account!Reset, Account!Step, Account!Others
<1>23. ASSUME NEW r \in AuthRequests, Account!Fail(r) PROVE WaitsInv'
  BY <1>23 DEF Account!Fail
<1>24. ASSUME NEW r \in AuthRequests, Account!AnswerRegister(r) PROVE WaitsInv'
  BY <1>24 DEF Account!AnswerRegister, Account!Answered, Account!Show
<1>25. ASSUME NEW r \in AuthRequests, Account!AnswerUnverified(r) PROVE WaitsInv'
  BY <1>25 DEF Account!AnswerUnverified, Account!Answered, Account!Show
<1>26. ASSUME NEW r \in AuthRequests, Account!AnswerLogin(r) PROVE WaitsInv'
  BY <1>26 DEF Account!AnswerLogin, Account!Answered, Account!Show
<1>27. ASSUME NEW r \in AuthRequests, Account!AnswerVerify(r) PROVE WaitsInv'
  BY <1>27 DEF Account!AnswerVerify, Account!Answered, Account!Show
<1>28. ASSUME NEW r \in AuthRequests, Account!AnswerResend(r) PROVE WaitsInv'
  BY <1>28 DEF Account!AnswerResend, Account!Answered, Account!Shown
<1>29. ASSUME NEW r \in AuthRequests, Account!AnswerForgot(r) PROVE WaitsInv'
  BY <1>29 DEF Account!AnswerForgot, Account!Answered, Account!Shown
<1>30. ASSUME NEW r \in AuthRequests, Account!AnswerReset(r) PROVE WaitsInv'
  BY <1>30 DEF Account!AnswerReset, Account!Answered, Account!Show
<1>31. ASSUME NEW r \in AuthRequests, Account!AnswerError(r) PROVE WaitsInv'
  BY <1>31 DEF Account!AnswerError, Account!Answered, Account!Shown
<1>32. ASSUME NEW p \in Account!Pages, Account!Go(p) PROVE WaitsInv'
  BY <1>32 DEF Account!Go, Account!Show, Account!Pages
<1>33. ASSUME NEW s \in Account!Secrets, Account!Expire(s) PROVE WaitsInv'
  BY <1>33 DEF Account!Expire
<1>34. CASE UNCHANGED Account!vars
  BY <1>34 DEF Account!vars
<1> HIDE DEF AccountInv, Account!TypeOK, WaitsInv, ReadyInv, SecretsInv, CodeInv, LinkInv
<1> QED
  BY <1>1, <1>2, <1>3, <1>4, <1>5, <1>6, <1>7, <1>8, <1>9, <1>10, <1>11, <1>12, <1>13, <1>14,
     <1>15, <1>16, <1>17, <1>18, <1>19, <1>20, <1>21, <1>22, <1>23, <1>24, <1>25, <1>26, <1>27,
     <1>28, <1>29, <1>30, <1>31, <1>32, <1>33, <1>34
     DEF Account!Next, Account!Ask, Account!Handle, Account!Answer

\* Every step keeps what a request has checked.
LEMMA ReadyStep ==
    ASSUME Account!AccountAssumption, AccountInv, [Account!Next]_Account!vars
    PROVE  ReadyInv'
<1> USE DEF AccountInv, Account!TypeOK, ReadyInv, Account!SignedInIsReady,
        Account!AccountAssumption, Account!Secrets,
        Account!NoSecret, Account!Mails, Account!At, Account!Goto, Account!Quiet,
        Account!document, Account!requestVars, Account!browser
<1>1. ASSUME NEW r \in AuthRequests, Account!SubmitSignup(r) PROVE ReadyInv'
  BY <1>1 DEF Account!SubmitSignup, Account!Submit
<1>2. ASSUME NEW r \in AuthRequests, Account!SubmitSignin(r) PROVE ReadyInv'
  BY <1>2 DEF Account!SubmitSignin, Account!Submit
<1>3. ASSUME NEW r \in AuthRequests, Account!SubmitForgot(r) PROVE ReadyInv'
  BY <1>3 DEF Account!SubmitForgot, Account!Submit
<1>4. ASSUME NEW r \in AuthRequests, Account!SubmitReset(r) PROVE ReadyInv'
  BY <1>4 DEF Account!SubmitReset, Account!Submit
<1>5. ASSUME NEW r \in AuthRequests, Account!SubmitCode(r) PROVE ReadyInv'
  BY <1>5 DEF Account!SubmitCode, Account!Submit
<1>6. ASSUME NEW r \in AuthRequests, Account!AskAgain(r) PROVE ReadyInv'
  BY <1>6 DEF Account!AskAgain, Account!Submit
<1>7. ASSUME NEW r \in AuthRequests, Account!FindForRegister(r) PROVE ReadyInv'
  BY <1>7 DEF Account!FindForRegister, Account!Look
<1>8. ASSUME NEW r \in AuthRequests, Account!FindForResend(r) PROVE ReadyInv'
  BY <1>8 DEF Account!FindForResend, Account!Look
<1>9. ASSUME NEW r \in AuthRequests, Account!FindForLogin(r) PROVE ReadyInv'
  BY <1>9 DEF Account!FindForLogin, Account!Look
<1>10. ASSUME NEW r \in AuthRequests, Account!FindForVerify(r) PROVE ReadyInv'
  BY <1>10 DEF Account!FindForVerify, Account!Look, Account!Good
<1>11. ASSUME NEW r \in AuthRequests, Account!FindForForgot(r) PROVE ReadyInv'
  BY <1>11 DEF Account!FindForForgot, Account!Look
<1>12. ASSUME NEW r \in AuthRequests, Account!FindForReset(r) PROVE ReadyInv'
  BY <1>12 DEF Account!FindForReset, Account!Look, Account!Good
<1>13. ASSUME NEW r \in AuthRequests, Account!Create(r) PROVE ReadyInv'
  BY <1>13 DEF Account!Create
<1>14. ASSUME NEW r \in AuthRequests, Account!Issue(r) PROVE ReadyInv'
  BY <1>14 DEF Account!Issue, Account!Step, Account!New, Account!Others
<1>15. ASSUME NEW r \in AuthRequests, Account!SendCode(r) PROVE ReadyInv'
  BY <1>15 DEF Account!SendCode, Account!Step
<1>16. ASSUME NEW r \in AuthRequests, Account!FindWallet(r) PROVE ReadyInv'
  BY <1>16 DEF Account!FindWallet, Account!Step
<1>17. ASSUME NEW r \in AuthRequests, Account!OpenWallet(r) PROVE ReadyInv'
  BY <1>17 DEF Account!OpenWallet, Account!Step
<1>18. ASSUME NEW r \in AuthRequests, Account!SaveVerified(r) PROVE ReadyInv'
  BY <1>18 DEF Account!SaveVerified, Account!Step
<1>19. ASSUME NEW r \in AuthRequests, Account!IssueToken(r) PROVE ReadyInv'
  BY <1>19 DEF Account!IssueToken, Account!Step
<1>20. ASSUME NEW r \in AuthRequests, Account!SaveLink(r) PROVE ReadyInv'
  BY <1>20 DEF Account!SaveLink, Account!Step, Account!New, Account!Others
<1>21. ASSUME NEW r \in AuthRequests, Account!SendLink(r) PROVE ReadyInv'
  BY <1>21 DEF Account!SendLink, Account!Step
<1>22. ASSUME NEW r \in AuthRequests, Account!SavePassword(r) PROVE ReadyInv'
  BY <1>22 DEF Account!SavePassword, Account!Reset, Account!Step, Account!Others
<1>23. ASSUME NEW r \in AuthRequests, Account!Fail(r) PROVE ReadyInv'
  BY <1>23 DEF Account!Fail
<1>24. ASSUME NEW r \in AuthRequests, Account!AnswerRegister(r) PROVE ReadyInv'
  BY <1>24 DEF Account!AnswerRegister, Account!Answered, Account!Show
<1>25. ASSUME NEW r \in AuthRequests, Account!AnswerUnverified(r) PROVE ReadyInv'
  BY <1>25 DEF Account!AnswerUnverified, Account!Answered, Account!Show
<1>26. ASSUME NEW r \in AuthRequests, Account!AnswerLogin(r) PROVE ReadyInv'
  BY <1>26 DEF Account!AnswerLogin, Account!Answered, Account!Show
<1>27. ASSUME NEW r \in AuthRequests, Account!AnswerVerify(r) PROVE ReadyInv'
  BY <1>27 DEF Account!AnswerVerify, Account!Answered, Account!Show
<1>28. ASSUME NEW r \in AuthRequests, Account!AnswerResend(r) PROVE ReadyInv'
  BY <1>28 DEF Account!AnswerResend, Account!Answered, Account!Shown
<1>29. ASSUME NEW r \in AuthRequests, Account!AnswerForgot(r) PROVE ReadyInv'
  BY <1>29 DEF Account!AnswerForgot, Account!Answered, Account!Shown
<1>30. ASSUME NEW r \in AuthRequests, Account!AnswerReset(r) PROVE ReadyInv'
  BY <1>30 DEF Account!AnswerReset, Account!Answered, Account!Show
<1>31. ASSUME NEW r \in AuthRequests, Account!AnswerError(r) PROVE ReadyInv'
  BY <1>31 DEF Account!AnswerError, Account!Answered, Account!Shown
<1>32. ASSUME NEW p \in Account!Pages, Account!Go(p) PROVE ReadyInv'
  BY <1>32 DEF Account!Go, Account!Show, Account!Pages
<1>33. ASSUME NEW s \in Account!Secrets, Account!Expire(s) PROVE ReadyInv'
  BY <1>33 DEF Account!Expire
<1>34. CASE UNCHANGED Account!vars
  BY <1>34 DEF Account!vars
<1> HIDE DEF AccountInv, Account!TypeOK, WaitsInv, ReadyInv, SecretsInv, CodeInv, LinkInv
<1> QED
  BY <1>1, <1>2, <1>3, <1>4, <1>5, <1>6, <1>7, <1>8, <1>9, <1>10, <1>11, <1>12, <1>13, <1>14,
     <1>15, <1>16, <1>17, <1>18, <1>19, <1>20, <1>21, <1>22, <1>23, <1>24, <1>25, <1>26, <1>27,
     <1>28, <1>29, <1>30, <1>31, <1>32, <1>33, <1>34
     DEF Account!Next, Account!Ask, Account!Handle, Account!Answer

\* Every step uses only secrets that have been made.
LEMMA SecretsStep ==
    ASSUME Account!AccountAssumption, AccountInv, [Account!Next]_Account!vars
    PROVE  SecretsInv'
<1> USE DEF AccountInv, Account!TypeOK, SecretsInv, Account!AccountAssumption, Account!Secrets,
        Account!NoSecret, Account!Mails,
        Account!At, Account!Goto, Account!Quiet, Account!document, Account!requestVars,
        Account!browser
<1>1. ASSUME NEW r \in AuthRequests, Account!SubmitSignup(r) PROVE SecretsInv'
  BY <1>1 DEF Account!SubmitSignup, Account!Submit
<1>2. ASSUME NEW r \in AuthRequests, Account!SubmitSignin(r) PROVE SecretsInv'
  BY <1>2 DEF Account!SubmitSignin, Account!Submit
<1>3. ASSUME NEW r \in AuthRequests, Account!SubmitForgot(r) PROVE SecretsInv'
  BY <1>3 DEF Account!SubmitForgot, Account!Submit
<1>4. ASSUME NEW r \in AuthRequests, Account!SubmitReset(r) PROVE SecretsInv'
  BY <1>4 DEF Account!SubmitReset, Account!Submit
<1>5. ASSUME NEW r \in AuthRequests, Account!SubmitCode(r) PROVE SecretsInv'
  BY <1>5 DEF Account!SubmitCode, Account!Submit
<1>6. ASSUME NEW r \in AuthRequests, Account!AskAgain(r) PROVE SecretsInv'
  BY <1>6 DEF Account!AskAgain, Account!Submit
<1>7. ASSUME NEW r \in AuthRequests, Account!FindForRegister(r) PROVE SecretsInv'
  BY <1>7 DEF Account!FindForRegister, Account!Look
<1>8. ASSUME NEW r \in AuthRequests, Account!FindForResend(r) PROVE SecretsInv'
  BY <1>8 DEF Account!FindForResend, Account!Look
<1>9. ASSUME NEW r \in AuthRequests, Account!FindForLogin(r) PROVE SecretsInv'
  BY <1>9 DEF Account!FindForLogin, Account!Look
<1>10. ASSUME NEW r \in AuthRequests, Account!FindForVerify(r) PROVE SecretsInv'
  BY <1>10 DEF Account!FindForVerify, Account!Look, Account!Good
<1>11. ASSUME NEW r \in AuthRequests, Account!FindForForgot(r) PROVE SecretsInv'
  BY <1>11 DEF Account!FindForForgot, Account!Look
<1>12. ASSUME NEW r \in AuthRequests, Account!FindForReset(r) PROVE SecretsInv'
  BY <1>12 DEF Account!FindForReset, Account!Look, Account!Good
<1>13. ASSUME NEW r \in AuthRequests, Account!Create(r) PROVE SecretsInv'
  BY <1>13 DEF Account!Create
<1>14. ASSUME NEW r \in AuthRequests, Account!Issue(r) PROVE SecretsInv'
  BY <1>14 DEF Account!Issue, Account!Step, Account!New, Account!Others
<1>15. ASSUME NEW r \in AuthRequests, Account!SendCode(r) PROVE SecretsInv'
  BY <1>15 DEF Account!SendCode, Account!Step
<1>16. ASSUME NEW r \in AuthRequests, Account!FindWallet(r) PROVE SecretsInv'
  BY <1>16 DEF Account!FindWallet, Account!Step
<1>17. ASSUME NEW r \in AuthRequests, Account!OpenWallet(r) PROVE SecretsInv'
  BY <1>17 DEF Account!OpenWallet, Account!Step
<1>18. ASSUME NEW r \in AuthRequests, Account!SaveVerified(r) PROVE SecretsInv'
  BY <1>18 DEF Account!SaveVerified, Account!Step
<1>19. ASSUME NEW r \in AuthRequests, Account!IssueToken(r) PROVE SecretsInv'
  BY <1>19 DEF Account!IssueToken, Account!Step
<1>20. ASSUME NEW r \in AuthRequests, Account!SaveLink(r) PROVE SecretsInv'
  BY <1>20 DEF Account!SaveLink, Account!Step, Account!New, Account!Others
<1>21. ASSUME NEW r \in AuthRequests, Account!SendLink(r) PROVE SecretsInv'
  BY <1>21 DEF Account!SendLink, Account!Step
<1>22. ASSUME NEW r \in AuthRequests, Account!SavePassword(r) PROVE SecretsInv'
  BY <1>22 DEF Account!SavePassword, Account!Reset, Account!Step, Account!Others
<1>23. ASSUME NEW r \in AuthRequests, Account!Fail(r) PROVE SecretsInv'
  BY <1>23 DEF Account!Fail
<1>24. ASSUME NEW r \in AuthRequests, Account!AnswerRegister(r) PROVE SecretsInv'
  BY <1>24 DEF Account!AnswerRegister, Account!Answered, Account!Show
<1>25. ASSUME NEW r \in AuthRequests, Account!AnswerUnverified(r) PROVE SecretsInv'
  BY <1>25 DEF Account!AnswerUnverified, Account!Answered, Account!Show
<1>26. ASSUME NEW r \in AuthRequests, Account!AnswerLogin(r) PROVE SecretsInv'
  BY <1>26 DEF Account!AnswerLogin, Account!Answered, Account!Show
<1>27. ASSUME NEW r \in AuthRequests, Account!AnswerVerify(r) PROVE SecretsInv'
  BY <1>27 DEF Account!AnswerVerify, Account!Answered, Account!Show
<1>28. ASSUME NEW r \in AuthRequests, Account!AnswerResend(r) PROVE SecretsInv'
  BY <1>28 DEF Account!AnswerResend, Account!Answered, Account!Shown
<1>29. ASSUME NEW r \in AuthRequests, Account!AnswerForgot(r) PROVE SecretsInv'
  BY <1>29 DEF Account!AnswerForgot, Account!Answered, Account!Shown
<1>30. ASSUME NEW r \in AuthRequests, Account!AnswerReset(r) PROVE SecretsInv'
  BY <1>30 DEF Account!AnswerReset, Account!Answered, Account!Show
<1>31. ASSUME NEW r \in AuthRequests, Account!AnswerError(r) PROVE SecretsInv'
  BY <1>31 DEF Account!AnswerError, Account!Answered, Account!Shown
<1>32. ASSUME NEW p \in Account!Pages, Account!Go(p) PROVE SecretsInv'
  BY <1>32 DEF Account!Go, Account!Show, Account!Pages
<1>33. ASSUME NEW s \in Account!Secrets, Account!Expire(s) PROVE SecretsInv'
  BY <1>33 DEF Account!Expire
<1>34. CASE UNCHANGED Account!vars
  BY <1>34 DEF Account!vars
<1> HIDE DEF AccountInv, Account!TypeOK, WaitsInv, ReadyInv, SecretsInv, CodeInv, LinkInv
<1> QED
  BY <1>1, <1>2, <1>3, <1>4, <1>5, <1>6, <1>7, <1>8, <1>9, <1>10, <1>11, <1>12, <1>13, <1>14,
     <1>15, <1>16, <1>17, <1>18, <1>19, <1>20, <1>21, <1>22, <1>23, <1>24, <1>25, <1>26, <1>27,
     <1>28, <1>29, <1>30, <1>31, <1>32, <1>33, <1>34
     DEF Account!Next, Account!Ask, Account!Handle, Account!Answer

\* Every step keeps the code in the inbox, or on its way there, the newest.
LEMMA CodeStep ==
    ASSUME Account!AccountAssumption, AccountInv, [Account!Next]_Account!vars
    PROVE  CodeInv'
<1> USE DEF AccountInv, Account!TypeOK, CodeInv, Account!AccountAssumption, Account!Secrets,
        Account!NoSecret, Account!Mails, Account!At,
        Account!Goto, Account!Quiet, Account!document, Account!requestVars, Account!browser
<1>1. ASSUME NEW r \in AuthRequests, Account!SubmitSignup(r) PROVE CodeInv'
  BY <1>1 DEF Account!SubmitSignup, Account!Submit
<1>2. ASSUME NEW r \in AuthRequests, Account!SubmitSignin(r) PROVE CodeInv'
  BY <1>2 DEF Account!SubmitSignin, Account!Submit
<1>3. ASSUME NEW r \in AuthRequests, Account!SubmitForgot(r) PROVE CodeInv'
  BY <1>3 DEF Account!SubmitForgot, Account!Submit
<1>4. ASSUME NEW r \in AuthRequests, Account!SubmitReset(r) PROVE CodeInv'
  BY <1>4 DEF Account!SubmitReset, Account!Submit
<1>5. ASSUME NEW r \in AuthRequests, Account!SubmitCode(r) PROVE CodeInv'
  BY <1>5 DEF Account!SubmitCode, Account!Submit
<1>6. ASSUME NEW r \in AuthRequests, Account!AskAgain(r) PROVE CodeInv'
  BY <1>6 DEF Account!AskAgain, Account!Submit
<1>7. ASSUME NEW r \in AuthRequests, Account!FindForRegister(r) PROVE CodeInv'
  BY <1>7 DEF Account!FindForRegister, Account!Look
<1>8. ASSUME NEW r \in AuthRequests, Account!FindForResend(r) PROVE CodeInv'
  BY <1>8 DEF Account!FindForResend, Account!Look
<1>9. ASSUME NEW r \in AuthRequests, Account!FindForLogin(r) PROVE CodeInv'
  BY <1>9 DEF Account!FindForLogin, Account!Look
<1>10. ASSUME NEW r \in AuthRequests, Account!FindForVerify(r) PROVE CodeInv'
  BY <1>10 DEF Account!FindForVerify, Account!Look, Account!Good
<1>11. ASSUME NEW r \in AuthRequests, Account!FindForForgot(r) PROVE CodeInv'
  BY <1>11 DEF Account!FindForForgot, Account!Look
<1>12. ASSUME NEW r \in AuthRequests, Account!FindForReset(r) PROVE CodeInv'
  BY <1>12 DEF Account!FindForReset, Account!Look, Account!Good
<1>13. ASSUME NEW r \in AuthRequests, Account!Create(r) PROVE CodeInv'
  BY <1>13 DEF Account!Create
<1>14. ASSUME NEW r \in AuthRequests, Account!Issue(r) PROVE CodeInv'
  BY <1>14 DEF Account!Issue, Account!Step, Account!New, Account!Others
<1>15. ASSUME NEW r \in AuthRequests, Account!SendCode(r) PROVE CodeInv'
  BY <1>15 DEF Account!SendCode, Account!Step
<1>16. ASSUME NEW r \in AuthRequests, Account!FindWallet(r) PROVE CodeInv'
  BY <1>16 DEF Account!FindWallet, Account!Step
<1>17. ASSUME NEW r \in AuthRequests, Account!OpenWallet(r) PROVE CodeInv'
  BY <1>17 DEF Account!OpenWallet, Account!Step
<1>18. ASSUME NEW r \in AuthRequests, Account!SaveVerified(r) PROVE CodeInv'
  BY <1>18 DEF Account!SaveVerified, Account!Step
<1>19. ASSUME NEW r \in AuthRequests, Account!IssueToken(r) PROVE CodeInv'
  BY <1>19 DEF Account!IssueToken, Account!Step
<1>20. ASSUME NEW r \in AuthRequests, Account!SaveLink(r) PROVE CodeInv'
  BY <1>20 DEF Account!SaveLink, Account!Step, Account!New, Account!Others
<1>21. ASSUME NEW r \in AuthRequests, Account!SendLink(r) PROVE CodeInv'
  BY <1>21 DEF Account!SendLink, Account!Step
<1>22. ASSUME NEW r \in AuthRequests, Account!SavePassword(r) PROVE CodeInv'
  BY <1>22 DEF Account!SavePassword, Account!Reset, Account!Step, Account!Others
<1>23. ASSUME NEW r \in AuthRequests, Account!Fail(r) PROVE CodeInv'
  BY <1>23 DEF Account!Fail
<1>24. ASSUME NEW r \in AuthRequests, Account!AnswerRegister(r) PROVE CodeInv'
  BY <1>24 DEF Account!AnswerRegister, Account!Answered, Account!Show
<1>25. ASSUME NEW r \in AuthRequests, Account!AnswerUnverified(r) PROVE CodeInv'
  BY <1>25 DEF Account!AnswerUnverified, Account!Answered, Account!Show
<1>26. ASSUME NEW r \in AuthRequests, Account!AnswerLogin(r) PROVE CodeInv'
  BY <1>26 DEF Account!AnswerLogin, Account!Answered, Account!Show
<1>27. ASSUME NEW r \in AuthRequests, Account!AnswerVerify(r) PROVE CodeInv'
  BY <1>27 DEF Account!AnswerVerify, Account!Answered, Account!Show
<1>28. ASSUME NEW r \in AuthRequests, Account!AnswerResend(r) PROVE CodeInv'
  BY <1>28 DEF Account!AnswerResend, Account!Answered, Account!Shown
<1>29. ASSUME NEW r \in AuthRequests, Account!AnswerForgot(r) PROVE CodeInv'
  BY <1>29 DEF Account!AnswerForgot, Account!Answered, Account!Shown
<1>30. ASSUME NEW r \in AuthRequests, Account!AnswerReset(r) PROVE CodeInv'
  BY <1>30 DEF Account!AnswerReset, Account!Answered, Account!Show
<1>31. ASSUME NEW r \in AuthRequests, Account!AnswerError(r) PROVE CodeInv'
  BY <1>31 DEF Account!AnswerError, Account!Answered, Account!Shown
<1>32. ASSUME NEW p \in Account!Pages, Account!Go(p) PROVE CodeInv'
  BY <1>32 DEF Account!Go, Account!Show, Account!Pages
<1>33. ASSUME NEW s \in Account!Secrets, Account!Expire(s) PROVE CodeInv'
  BY <1>33 DEF Account!Expire
<1>34. CASE UNCHANGED Account!vars
  BY <1>34 DEF Account!vars
<1> HIDE DEF AccountInv, Account!TypeOK, WaitsInv, ReadyInv, SecretsInv, CodeInv, LinkInv
<1> QED
  BY <1>1, <1>2, <1>3, <1>4, <1>5, <1>6, <1>7, <1>8, <1>9, <1>10, <1>11, <1>12, <1>13, <1>14,
     <1>15, <1>16, <1>17, <1>18, <1>19, <1>20, <1>21, <1>22, <1>23, <1>24, <1>25, <1>26, <1>27,
     <1>28, <1>29, <1>30, <1>31, <1>32, <1>33, <1>34
     DEF Account!Next, Account!Ask, Account!Handle, Account!Answer

\* Every step keeps the link in the inbox, or on its way there, the newest,
\* and uses it once.
LEMMA LinkStep ==
    ASSUME Account!AccountAssumption, AccountInv, [Account!Next]_Account!vars
    PROVE  LinkInv'
<1> USE DEF AccountInv, Account!TypeOK, SecretsInv, LinkInv, Account!AccountAssumption,
        Account!Secrets, Account!NoSecret,
        Account!Mails, Account!At, Account!Goto, Account!Quiet, Account!document,
        Account!requestVars, Account!browser
<1>1. ASSUME NEW r \in AuthRequests, Account!SubmitSignup(r) PROVE LinkInv'
  BY <1>1 DEF Account!SubmitSignup, Account!Submit
<1>2. ASSUME NEW r \in AuthRequests, Account!SubmitSignin(r) PROVE LinkInv'
  BY <1>2 DEF Account!SubmitSignin, Account!Submit
<1>3. ASSUME NEW r \in AuthRequests, Account!SubmitForgot(r) PROVE LinkInv'
  BY <1>3 DEF Account!SubmitForgot, Account!Submit
<1>4. ASSUME NEW r \in AuthRequests, Account!SubmitReset(r) PROVE LinkInv'
  BY <1>4 DEF Account!SubmitReset, Account!Submit
<1>5. ASSUME NEW r \in AuthRequests, Account!SubmitCode(r) PROVE LinkInv'
  BY <1>5 DEF Account!SubmitCode, Account!Submit
<1>6. ASSUME NEW r \in AuthRequests, Account!AskAgain(r) PROVE LinkInv'
  BY <1>6 DEF Account!AskAgain, Account!Submit
<1>7. ASSUME NEW r \in AuthRequests, Account!FindForRegister(r) PROVE LinkInv'
  BY <1>7 DEF Account!FindForRegister, Account!Look
<1>8. ASSUME NEW r \in AuthRequests, Account!FindForResend(r) PROVE LinkInv'
  BY <1>8 DEF Account!FindForResend, Account!Look
<1>9. ASSUME NEW r \in AuthRequests, Account!FindForLogin(r) PROVE LinkInv'
  BY <1>9 DEF Account!FindForLogin, Account!Look
<1>10. ASSUME NEW r \in AuthRequests, Account!FindForVerify(r) PROVE LinkInv'
  BY <1>10 DEF Account!FindForVerify, Account!Look, Account!Good
<1>11. ASSUME NEW r \in AuthRequests, Account!FindForForgot(r) PROVE LinkInv'
  BY <1>11 DEF Account!FindForForgot, Account!Look
<1>12. ASSUME NEW r \in AuthRequests, Account!FindForReset(r) PROVE LinkInv'
  BY <1>12 DEF Account!FindForReset, Account!Look, Account!Good
<1>13. ASSUME NEW r \in AuthRequests, Account!Create(r) PROVE LinkInv'
  BY <1>13 DEF Account!Create
<1>14. ASSUME NEW r \in AuthRequests, Account!Issue(r) PROVE LinkInv'
  BY <1>14 DEF Account!Issue, Account!Step, Account!New, Account!Others
<1>15. ASSUME NEW r \in AuthRequests, Account!SendCode(r) PROVE LinkInv'
  BY <1>15 DEF Account!SendCode, Account!Step
<1>16. ASSUME NEW r \in AuthRequests, Account!FindWallet(r) PROVE LinkInv'
  BY <1>16 DEF Account!FindWallet, Account!Step
<1>17. ASSUME NEW r \in AuthRequests, Account!OpenWallet(r) PROVE LinkInv'
  BY <1>17 DEF Account!OpenWallet, Account!Step
<1>18. ASSUME NEW r \in AuthRequests, Account!SaveVerified(r) PROVE LinkInv'
  BY <1>18 DEF Account!SaveVerified, Account!Step
<1>19. ASSUME NEW r \in AuthRequests, Account!IssueToken(r) PROVE LinkInv'
  BY <1>19 DEF Account!IssueToken, Account!Step
<1>20. ASSUME NEW r \in AuthRequests, Account!SaveLink(r) PROVE LinkInv'
  BY <1>20 DEF Account!SaveLink, Account!Step, Account!New, Account!Others
<1>21. ASSUME NEW r \in AuthRequests, Account!SendLink(r) PROVE LinkInv'
  BY <1>21 DEF Account!SendLink, Account!Step
<1>22. ASSUME NEW r \in AuthRequests, Account!SavePassword(r) PROVE LinkInv'
  BY <1>22 DEF Account!SavePassword, Account!Reset, Account!Step, Account!Others
<1>23. ASSUME NEW r \in AuthRequests, Account!Fail(r) PROVE LinkInv'
  BY <1>23 DEF Account!Fail
<1>24. ASSUME NEW r \in AuthRequests, Account!AnswerRegister(r) PROVE LinkInv'
  BY <1>24 DEF Account!AnswerRegister, Account!Answered, Account!Show
<1>25. ASSUME NEW r \in AuthRequests, Account!AnswerUnverified(r) PROVE LinkInv'
  BY <1>25 DEF Account!AnswerUnverified, Account!Answered, Account!Show
<1>26. ASSUME NEW r \in AuthRequests, Account!AnswerLogin(r) PROVE LinkInv'
  BY <1>26 DEF Account!AnswerLogin, Account!Answered, Account!Show
<1>27. ASSUME NEW r \in AuthRequests, Account!AnswerVerify(r) PROVE LinkInv'
  BY <1>27 DEF Account!AnswerVerify, Account!Answered, Account!Show
<1>28. ASSUME NEW r \in AuthRequests, Account!AnswerResend(r) PROVE LinkInv'
  BY <1>28 DEF Account!AnswerResend, Account!Answered, Account!Shown
<1>29. ASSUME NEW r \in AuthRequests, Account!AnswerForgot(r) PROVE LinkInv'
  BY <1>29 DEF Account!AnswerForgot, Account!Answered, Account!Shown
<1>30. ASSUME NEW r \in AuthRequests, Account!AnswerReset(r) PROVE LinkInv'
  BY <1>30 DEF Account!AnswerReset, Account!Answered, Account!Show
<1>31. ASSUME NEW r \in AuthRequests, Account!AnswerError(r) PROVE LinkInv'
  BY <1>31 DEF Account!AnswerError, Account!Answered, Account!Shown
<1>32. ASSUME NEW p \in Account!Pages, Account!Go(p) PROVE LinkInv'
  BY <1>32 DEF Account!Go, Account!Show, Account!Pages
<1>33. ASSUME NEW s \in Account!Secrets, Account!Expire(s) PROVE LinkInv'
  BY <1>33 DEF Account!Expire
<1>34. CASE UNCHANGED Account!vars
  BY <1>34 DEF Account!vars
<1> HIDE DEF AccountInv, Account!TypeOK, WaitsInv, ReadyInv, SecretsInv, CodeInv, LinkInv
<1> QED
  BY <1>1, <1>2, <1>3, <1>4, <1>5, <1>6, <1>7, <1>8, <1>9, <1>10, <1>11, <1>12, <1>13, <1>14,
     <1>15, <1>16, <1>17, <1>18, <1>19, <1>20, <1>21, <1>22, <1>23, <1>24, <1>25, <1>26, <1>27,
     <1>28, <1>29, <1>30, <1>31, <1>32, <1>33, <1>34
     DEF Account!Next, Account!Ask, Account!Handle, Account!Answer

\* AccountInv is an invariant.
LEMMA AccountInvariance ==
    ASSUME Account!AccountAssumption
    PROVE  Account!Spec => []AccountInv
<1>1. Account!Init => AccountInv
  <2> SUFFICES ASSUME Account!Init PROVE AccountInv
    OBVIOUS
  <2> USE DEF Account!Init, Account!AccountAssumption, Account!Secrets, Account!NoSecret,
        Account!Mails
  <2>1. Account!TypeOK
    BY DEF Account!TypeOK, Account!Points, Account!Pages
  <2>2. WaitsInv /\ SecretsInv /\ CodeInv /\ LinkInv
    BY DEF WaitsInv, SecretsInv, CodeInv, LinkInv
  <2>3. ReadyInv
    BY DEF ReadyInv, Account!SignedInIsReady
  <2> QED
    BY <2>1, <2>2, <2>3 DEF AccountInv
<1>2. AccountInv /\ [Account!Next]_Account!vars => AccountInv'
  <2> SUFFICES ASSUME AccountInv, [Account!Next]_Account!vars PROVE AccountInv'
    OBVIOUS
  <2> QED
    BY AccountTypeStep, WaitsStep, ReadyStep, SecretsStep, CodeStep, LinkStep DEF AccountInv
<1> QED
  BY <1>1, <1>2, PTL DEF Account!Spec

(* The types of Account. *)
THEOREM AccountTypes ==
    ASSUME Account!AccountAssumption
    PROVE  Account!Spec => []Account!TypeOK
<1>1. AccountInv => Account!TypeOK
  BY DEF AccountInv
<1> QED
  BY <1>1, AccountInvariance, PTL

(* Nobody is signed in whose account is not verified, and no account is    *)
(* verified without its wallet, though verifyOTP is no transaction and the *)
(* pages may be left while it runs (authController.js, AuthContext.js).    *)
THEOREM NobodyIsLetInEarly ==
    ASSUME Account!AccountAssumption
    PROVE  Account!Spec => []SignedInIsReady
<1>1. AccountInv => SignedInIsReady
  BY DEF AccountInv, ReadyInv, SignedInIsReady, Account!SignedInIsReady
<1> QED
  BY <1>1, AccountInvariance, PTL

(* The newest code, and the newest link until it has been used, is the one *)
(* that works, as long as requests for that mail do not overlap and every  *)
(* one is delivered (authController.js: issueVerificationOTP,              *)
(* forgotPassword, resetPassword).                                         *)
THEOREM MailIsNotOutdated ==
    ASSUME Account!AccountAssumption
    PROVE  Account!Spec => []NewestMailWorks
<1>1. AccountInv => NewestMailWorks
  BY DEF AccountInv, CodeInv, LinkInv, NewestMailWorks, Sending, NoSecret, Account!NoSecret
<1> QED
  BY <1>1, AccountInvariance, PTL

(* A reset link sets one password, unless requests for it overlap          *)
(* (authController.js: resetPassword).                                     *)
THEOREM NoLinkIsUsedTwice ==
    ASSUME Account!AccountAssumption
    PROVE  Account!Spec => []LinkIsUsedOnce
<1>1. AccountInv => LinkIsUsedOnce
  BY DEF AccountInv, LinkInv, LinkIsUsedOnce, Secrets, Account!Secrets
<1> QED
  BY <1>1, AccountInvariance, PTL

-----------------------------------------------------------------------------
(* What changes the user's document once the account is in use.  Profile is *)
(* instantiated over ProfileState, as Account is over AccountState; all the *)
(* specifications here are spoken of one at a time, so that what they have  *)
(* names in common for (mishaps) is no link between them.     *)

CONSTANT MaxCalls

VARIABLE calls

Profile == INSTANCE Profile

\* The documents a review has approved.
Approved == {d \in DOMAIN docs : docs[d].status = "approved"}

\* Whoever asks for a tier, or is about to give one, comes after somebody who
\* was given each tier below.
TierInv ==
    /\ \A t \in 1 .. tier : \E d \in granted : docs[d].target = t
    /\ \A s \in Submits : \A t \in 1 .. seen[s] : \E d \in granted : docs[d].target = t
    /\ \A d \in DOMAIN docs : \A t \in 1 .. docs[d].target - 1 :
           \E g \in granted : docs[g].target = t
    /\ \A s \in Submits : /\ pc[s] \in {"idle", "look", "create", "over"}
                          /\ pc[s] \in {"look", "create"} => seen[s] <= 1
    /\ \A a \in Admins : pc[a] \in {"find", "save", "tier"} => work[a].doc \in DOMAIN docs
    /\ \A a \in Profile!Granting : work[a].doc \in granted

\* While everything goes its regular course, one document at a time is pending
\* or being granted, it asks for the next tier, and the tier counts those that
\* were approved before.
CountInv ==
    irregular = {} =>
        /\ \A d, e \in Profile!Pending : d = e
        /\ \A d \in Profile!Pending : docs[d].target = tier + 1 /\ Profile!Granting = {}
        /\ \A a \in Admins : pc[a] = "save" => work[a].doc \in Profile!Pending
        /\ \A a, b \in Profile!Granting : a = b
        /\ \A a \in Profile!Granting : docs[work[a].doc].target = tier + 1
        /\ Cardinality(Approved) = tier + (IF Profile!Granting = {} THEN 0 ELSE 1)

\* A page that is not blind shows what is stored where nothing was clicked.
FormInv ==
    \A p \in Pages \ blind : pc[p] \in {"form", "save"} =>
        \A e \in Events \ touched[p] : form[p][e] = prefs[e]

\* One more mail may come of each stray that has not sent yet, and the stall it
\* stems from allows it.
Out(j, k) == IF stage[j][k] \in {"lookup", "send"} THEN 1 ELSE 0
Sent(j) == IF pc[j] = "completed" \/ stage[j][0] = "done" THEN 1 ELSE 0

\* What is said of one job.
JobInv(j) ==
    /\ mails[j] + Out(j, 1) + Out(j, 2) <= unheard[j] + stalls[j] + Sent(j)
    /\ pc[j] \in {"idle", "waiting", "active", "completed", "failed", "lost"}
    /\ stage[j][0] # "none" <=> pc[j] = "active"
    /\ (stage[j][1] # "none" => stalls[j] >= 1) /\ (stage[j][2] # "none" => stalls[j] = 2)
    /\ pc[j] = "idle" => tries[j] = 0 /\ stalls[j] = 0 /\ mails[j] = 0 /\ j \notin wanted
    /\ pc[j] = "waiting" => stalls[j] < 2 /\ tries[j] - stalls[j] < MaxTries
    /\ pc[j] = "active" => stalls[j] < 2 /\ tries[j] - stalls[j] <= MaxTries
    /\ pc[j] = "failed" => stalls[j] = 2 \/ tries[j] = MaxTries + stalls[j]
    /\ j \in muted =>
        /\ prefs[topic[j]].email = "off" /\ mails[j] = 0 /\ pc[j] # "idle"
        /\ "send" \notin {stage[j][0], stage[j][1], stage[j][2]}
    /\ j \in wanted =>
        /\ prefs[topic[j]].email # "off"
        /\ pc[j] = "completed" \/ stage[j][0] = "done" => mails[j] > 0

\* The mails sent or still to come are allowed for, and a job whose event has
\* been off never comes as far as sending.
MailInv == \A j \in Jobs : JobInv(j)

\* The parts together.
ProfileInv == Profile!TypeOK /\ TierInv /\ CountInv /\ FormInv /\ MailInv

\* Cardinality in Profile is Cardinality here.
LEMMA SameCardinality ==
    ASSUME NEW S PROVE Profile!Cardinality(S) = Cardinality(S)
  BY DEF Profile!Cardinality, Cardinality

\* Documents keep their type.
LEMMA DocumentAt ==
    ASSUME Profile!TypeOK, NEW d \in DOMAIN docs
    PROVE  docs[d] \in Profile!Documents /\ docs[d].target \in {1, 2}
<1>1. docs \in Seq(Profile!Documents)
  BY DEF Profile!TypeOK
<1>2. docs[d] \in Profile!Documents
  BY <1>1
<1> QED
  BY <1>2 DEF Profile!Documents

\* A new document is the last and changes no other.
LEMMA CreateDocs ==
    ASSUME Profile!ProfileAssumption, Profile!TypeOK, NEW s \in Submits, seen[s] <= 1,
           Profile!Create(s)
    PROVE  LET n == Len(docs) + 1 IN
           /\ docs' \in Seq(Profile!Documents)
           /\ DOMAIN docs' = DOMAIN docs \cup {n} /\ n \notin DOMAIN docs
           /\ \A d \in DOMAIN docs : docs'[d] = docs[d]
           /\ docs'[n].status = "pending" /\ docs'[n].target = seen[s] + 1
<1> DEFINE x == [status |-> "pending", target |-> seen[s] + 1]
<1>1. docs \in Seq(Profile!Documents) /\ docs' = Append(docs, x)
  BY DEF Profile!TypeOK, Profile!Create
<1>2. seen[s] + 1 \in {1, 2}
  <2>1. seen[s] \in 0 .. 2
    BY DEF Profile!TypeOK
  <2> QED
    BY <2>1
<1>3. x \in Profile!Documents /\ x.status = "pending" /\ x.target = seen[s] + 1
  BY <1>2 DEF Profile!Documents
<1> HIDE DEF x
<1> QED
  BY <1>1, <1>3

\* A verdict changes the status of one document.
LEMMA VerdictDocs ==
    ASSUME Profile!ProfileAssumption, Profile!TypeOK, NEW a \in Admins,
           work[a].doc \in DOMAIN docs,
           Profile!SaveVerdict(a)
    PROVE  /\ docs' \in Seq(Profile!Documents) /\ DOMAIN docs' = DOMAIN docs
           /\ \A d \in DOMAIN docs : docs'[d].target = docs[d].target
           /\ \A d \in DOMAIN docs \ {work[a].doc} : docs'[d] = docs[d]
           /\ docs'[work[a].doc].status = work[a].verdict
           /\ work[a].verdict \in {"approved", "rejected"}
<1> DEFINE d == work[a].doc
           v == work[a].verdict
<1>1. /\ docs \in Seq(Profile!Documents) /\ d \in DOMAIN docs /\ v \in {"approved", "rejected"}
      /\ docs' = [docs EXCEPT ![d] = [docs[d] EXCEPT !.status = v]]
  BY DEF Profile!TypeOK, Profile!SaveVerdict
<1>2. docs[d] \in Profile!Documents
  BY <1>1
<1>3. PICK x : x = [docs[d] EXCEPT !.status = v]
  OBVIOUS
<1>4. x \in Profile!Documents /\ x.status = v /\ x.target = docs[d].target
  BY <1>1, <1>2, <1>3 DEF Profile!Documents
<1>5. docs' = [docs EXCEPT ![d] = x]
  BY <1>1, <1>3
<1> HIDE DEF d, v
<1>6. /\ docs' \in Seq(Profile!Documents) /\ DOMAIN docs' = DOMAIN docs /\ docs'[d] = x
      /\ \A e \in DOMAIN docs \ {d} : docs'[e] = docs[e]
  BY <1>1, <1>4, <1>5
<1>7. \A e \in DOMAIN docs : docs'[e].target = docs[e].target
  BY <1>4, <1>6
<1> QED
  BY <1>1, <1>4, <1>6, <1>7 DEF d, v

\* What the notification queue and its worker do.
MailWork ==
    \/ \E j \in Jobs : Profile!Enqueue(j) \/ Profile!Start(j) \/ Profile!Lapse(j)
    \/ \E j \in Jobs, k \in Profile!Attempts :
           \/ Profile!Lookup(j, k) \/ Profile!Send(j, k)
           \/ Profile!Return(j, k) \/ Profile!Throw(j, k)
    \/ Profile!Die

\* It leaves everybody else where they are.
LEMMA MailWorkFrame ==
    ASSUME Profile!ProfileAssumption, Profile!TypeOK, MailWork
    PROVE  /\ UNCHANGED <<tier, prefs, docs, seen, work, form, touched, blind, topic, granted,
                          irregular>>
           /\ pc' \in [Profile!Actors -> Profile!Points]
           /\ \A a \in Submits \cup Admins \cup Pages : pc'[a] = pc[a]
<1> USE DEF Profile!TypeOK, Profile!Mail, Profile!kycVars, Profile!prefVars
<1>1. UNCHANGED <<tier, prefs, docs, seen, work, form, touched, blind, topic, granted,
                  irregular>>
  BY DEF MailWork, Profile!Enqueue, Profile!Start, Profile!Lookup, Profile!Send, Profile!Return,
     Profile!Throw, Profile!Lapse, Profile!Die, Profile!Stalled
<1> DEFINE One == \E j \in Jobs, to \in Profile!Points : pc' = [pc EXCEPT ![j] = to]
           Some == \E js \in SUBSET Jobs :
                       pc' = [a \in Profile!Actors |->
                                 IF a \notin js THEN pc[a]
                                 ELSE IF stalls[a] = 0 THEN "waiting" ELSE "failed"]
<1>2. pc' = pc \/ One \/ Some
  <2>1. ASSUME NEW j \in Jobs, Profile!Enqueue(j) PROVE One
    BY <2>1 DEF Profile!Enqueue, Profile!Step, Profile!Goto, Profile!Points
  <2>2. ASSUME NEW j \in Jobs, Profile!Start(j) PROVE One
    BY <2>2 DEF Profile!Start, Profile!Step, Profile!Goto, Profile!Points
  <2>3. ASSUME NEW j \in Jobs, NEW k \in Profile!Attempts, Profile!Lookup(j, k) PROVE pc' = pc
    BY <2>3 DEF Profile!Lookup
  <2>4. ASSUME NEW j \in Jobs, NEW k \in Profile!Attempts, Profile!Send(j, k) PROVE pc' = pc
    BY <2>4 DEF Profile!Send
  <2>5. ASSUME NEW j \in Jobs, NEW k \in Profile!Attempts, Profile!Return(j, k)
        PROVE  pc' = pc \/ One
    BY <2>5 DEF Profile!Return, Profile!Goto, Profile!Points
  <2>6. ASSUME NEW j \in Jobs, NEW k \in Profile!Attempts, Profile!Throw(j, k)
        PROVE  pc' = pc \/ One
    BY <2>6 DEF Profile!Throw, Profile!Goto, Profile!Points
  <2>7. ASSUME NEW j \in Jobs, Profile!Lapse(j) PROVE Some
    <3>1. {j} \in SUBSET Jobs
      OBVIOUS
    <3> QED
      BY <2>7, <3>1 DEF Profile!Lapse, Profile!Stalled
  <2>8. ASSUME Profile!Die PROVE Some
    <3>1. {j \in Jobs : Profile!At(j, "active")} \in SUBSET Jobs
      OBVIOUS
    <3> QED
      BY <2>8, <3>1, Zenon DEF Profile!Die, Profile!Stalled
  <2> HIDE DEF One, Some
  <2> QED
    BY <2>1, <2>2, <2>3, <2>4, <2>5, <2>6, <2>7, <2>8 DEF MailWork
<1>3. CASE pc' = pc
  BY <1>1, <1>3 DEF Profile!Actors
<1>4. ASSUME NEW j \in Jobs, NEW to \in Profile!Points, pc' = [pc EXCEPT ![j] = to]
      PROVE  /\ pc' \in [Profile!Actors -> Profile!Points]
             /\ \A a \in Submits \cup Admins \cup Pages : pc'[a] = pc[a]
  BY <1>4 DEF Profile!Actors, Profile!ProfileAssumption
<1>5. ASSUME NEW js \in SUBSET Jobs,
             pc' = [a \in Profile!Actors |-> IF a \notin js THEN pc[a]
                                  ELSE IF stalls[a] = 0 THEN "waiting" ELSE "failed"]
      PROVE  /\ pc' \in [Profile!Actors -> Profile!Points]
             /\ \A a \in Submits \cup Admins \cup Pages : pc'[a] = pc[a]
  BY <1>5 DEF Profile!Actors, Profile!ProfileAssumption, Profile!Points
<1> QED
  BY <1>1, <1>2, <1>3, <1>4, <1>5

\* What is known of one job.
LEMMA JobFacts ==
    ASSUME ProfileInv, NEW j \in Jobs
    PROVE  /\ JobInv(j) /\ tries[j] \in Nat /\ stalls[j] \in Nat
           /\ mails[j] \in Nat /\ unheard[j] \in Nat
           /\ stage[j] \in [Profile!Attempts -> Profile!Stages]
           /\ Profile!Attempts = {0, 1, 2}
BY DEF ProfileInv, MailInv, Profile!TypeOK, Profile!Attempts

\* Every step keeps the types.
LEMMA ProfileTypeStep ==
    ASSUME Profile!ProfileAssumption, ProfileInv, [Profile!Next]_Profile!vars
    PROVE  Profile!TypeOK'
<1> USE DEF ProfileInv, Profile!TypeOK, Profile!Points, Profile!Documents, Profile!Boxes,
        MailInv, TierInv, Profile!Pending, Profile!Granting, Profile!ProfileAssumption,
        Profile!Actors, Profile!At, Profile!Goto, Profile!Step, Profile!Called, Profile!Within,
        Profile!Mishap, Profile!Kyc, Profile!Prefs, Profile!Mail, Profile!heeded,
        Profile!kycVars,
        Profile!prefVars, Profile!jobVars,
        Profile!Attempts, Profile!Stages, Profile!Off
<1>1. ASSUME NEW s \in Submits, Profile!Submit(s) PROVE Profile!TypeOK'
    BY <1>1 DEF Profile!Submit
<1>2. ASSUME NEW s \in Submits, Profile!Look(s) PROVE Profile!TypeOK'
    BY <1>2 DEF Profile!Look
<1>3. ASSUME NEW s \in Submits, Profile!Create(s) PROVE Profile!TypeOK'
  <2>1. seen[s] <= 1
    BY <1>3 DEF Profile!Create
  <2>2. /\ docs' \in Seq(Profile!Documents) /\ DOMAIN docs \subseteq DOMAIN docs'
        /\ Len(docs) + 1 \in DOMAIN docs'
    BY <1>3, <2>1, CreateDocs
  <2>3. granted' \subseteq DOMAIN docs'
    BY <1>3, <2>2 DEF Profile!Create
  <2>4. irregular' \subseteq irregular \cup {Len(docs) + 1}
    BY <1>3 DEF Profile!Create
  <2>5. irregular' \subseteq DOMAIN docs'
    BY <2>2, <2>4
  <2>6. /\ pc' \in [Profile!Actors -> Profile!Points]
        /\ UNCHANGED <<tier, prefs, seen, work, form, touched, blind, topic, tries, stalls,
                       stage, mails, unheard, muted, wanted, calls, mishaps>>
    BY <1>3 DEF Profile!Create
  <2> QED
    BY <2>2, <2>3, <2>5, <2>6
<1>4. ASSUME NEW a \in Admins, Profile!Review(a) PROVE Profile!TypeOK'
    BY <1>4 DEF Profile!Review
<1>5. ASSUME NEW a \in Admins, Profile!Find(a) PROVE Profile!TypeOK'
    BY <1>5 DEF Profile!Find
<1>6. ASSUME NEW a \in Admins, Profile!SaveVerdict(a) PROVE Profile!TypeOK'
  <2>1. work[a].doc \in DOMAIN docs
    BY <1>6 DEF Profile!SaveVerdict
  <2>2. docs' \in Seq(Profile!Documents) /\ DOMAIN docs' = DOMAIN docs
    BY <1>6, <2>1, VerdictDocs
  <2>3. /\ granted' \subseteq granted \cup {work[a].doc}
        /\ irregular' \subseteq irregular \cup {work[a].doc}
    BY <1>6 DEF Profile!SaveVerdict
  <2>4. granted' \subseteq DOMAIN docs' /\ irregular' \subseteq DOMAIN docs'
    BY <2>1, <2>2, <2>3
  <2>5. /\ pc' \in [Profile!Actors -> Profile!Points]
        /\ UNCHANGED <<tier, prefs, seen, work, form, touched, blind, topic, tries, stalls,
                       stage, mails, unheard, muted, wanted, calls, mishaps>>
    BY <1>6 DEF Profile!SaveVerdict
  <2> QED
    BY <2>2, <2>4, <2>5
<1>7. ASSUME NEW a \in Admins, Profile!SaveTier(a) PROVE Profile!TypeOK'
  <2>1. docs[work[a].doc].target \in {1, 2}
    <3>1. work[a].doc \in DOMAIN docs
      BY <1>7 DEF Profile!SaveTier
    <3> QED
      BY <3>1, DocumentAt
  <2>2. tier' \in 0 .. 2
    BY <1>7, <2>1 DEF Profile!SaveTier
  <2>3. /\ pc' \in [Profile!Actors -> Profile!Points]
        /\ UNCHANGED <<docs, prefs, seen, work, form, touched, blind, topic, tries, stalls,
                       stage, mails, granted, irregular, unheard, muted, wanted, calls, mishaps>>
    BY <1>7 DEF Profile!SaveTier
  <2> QED
    BY <2>2, <2>3
<1>8. ASSUME NEW a \in Submits \cup Admins, Profile!FailKyc(a) PROVE Profile!TypeOK'
  <2>1. irregular' \subseteq DOMAIN docs
    <3>1. CASE pc[a] = "tier"
      <4>1. a \in Admins /\ work[a].doc \in DOMAIN docs
        BY <1>8, <3>1 DEF Profile!FailKyc
      <4> QED
        BY <1>8, <4>1 DEF Profile!FailKyc
    <3>2. CASE pc[a] # "tier"
      BY <1>8, <3>2 DEF Profile!FailKyc
    <3> QED
      BY <3>1, <3>2
  <2>2. /\ pc' \in [Profile!Actors -> Profile!Points] /\ mishaps' \in 0 .. MaxMishaps
        /\ UNCHANGED <<tier, docs, prefs, seen, work, form, touched, blind, topic, tries, stalls,
                       stage, mails, granted, unheard, muted, wanted, calls>>
    BY <1>8 DEF Profile!FailKyc
  <2> QED
    BY <2>1, <2>2
<1>9. ASSUME NEW p \in Pages, Profile!OpenPage(p) PROVE Profile!TypeOK'
    BY <1>9 DEF Profile!OpenPage
<1>10. ASSUME NEW p \in Pages, Profile!ShowStored(p) PROVE Profile!TypeOK'
    BY <1>10 DEF Profile!ShowStored, Profile!Show
<1>11. ASSUME NEW p \in Pages, Profile!ShowNothing(p) PROVE Profile!TypeOK'
    BY <1>11 DEF Profile!ShowNothing, Profile!Show, Profile!Unset
<1>12. ASSUME NEW p \in Pages, Profile!ClickBox(p) PROVE Profile!TypeOK'
  <2>1. PICK e \in Events, channel \in {"email", "inApp"} :
          /\ form' = [form EXCEPT ![p][e] = Profile!Click(form[p][e], channel)]
          /\ touched' = [touched EXCEPT ![p] = @ \cup {e}]
    BY <1>12 DEF Profile!ClickBox
  <2>2. form[p] \in [Events -> Profile!Boxes] /\ form[p][e] \in Profile!Boxes
    OBVIOUS
  <2>3. Profile!Click(form[p][e], channel) \in Profile!Boxes
    BY <2>2 DEF Profile!Click
  <2>4. form' \in [Pages -> [Events -> Profile!Boxes]]
    BY <2>1, <2>2, <2>3
  <2>5. touched' \in [Pages -> SUBSET Events]
    BY <2>1
  <2>6. /\ calls' \in 0 .. MaxCalls
        /\ UNCHANGED <<tier, docs, prefs, seen, work, pc, blind, topic, tries, stalls, stage,
                       mails, granted, irregular, unheard, muted, wanted, mishaps>>
    BY <1>12 DEF Profile!ClickBox
  <2> QED
    BY <2>4, <2>5, <2>6
<1>13. ASSUME NEW p \in Pages, Profile!Save(p) PROVE Profile!TypeOK'
    BY <1>13 DEF Profile!Save
<1>14. ASSUME NEW p \in Pages, Profile!Store(p) PROVE Profile!TypeOK'
  <2>1. form[p] \in [Events -> Profile!Boxes]
    OBVIOUS
  <2>2. /\ prefs' \in {prefs, form[p]} /\ blind' \subseteq Pages
        /\ muted' \subseteq muted /\ wanted' \subseteq wanted
        /\ form' \in {form, [form EXCEPT ![p] = form[p]]}
        /\ touched' \in {touched, [touched EXCEPT ![p] = {}]}
    BY <1>14 DEF Profile!Store, Profile!Show
  <2>3. /\ pc' \in [Profile!Actors -> Profile!Points]
        /\ UNCHANGED <<tier, docs, seen, work, topic, tries, stalls, stage, mails, granted,
                       irregular, unheard, calls, mishaps>>
    BY <1>14 DEF Profile!Store, Profile!Show
  <2>4. prefs' \in [Events -> Profile!Boxes] /\ form' \in [Pages -> [Events -> Profile!Boxes]]
    BY <2>1, <2>2
  <2>5. touched' \in [Pages -> SUBSET Events]
    BY <2>2
  <2> QED
    BY <2>2, <2>3, <2>4, <2>5
<1>15. ASSUME NEW p \in Pages, Profile!FailStore(p) PROVE Profile!TypeOK'
    BY <1>15 DEF Profile!FailStore
<1>16. ASSUME NEW j \in Jobs, Profile!Enqueue(j) PROVE Profile!TypeOK'
  <2>1. \E to \in Profile!Points : pc' = [pc EXCEPT ![j] = to]
    BY <1>16 DEF Profile!Enqueue
  <2>4. calls' \in 0 .. MaxCalls /\ mishaps' \in 0 .. MaxMishaps
    BY <1>16 DEF Profile!Enqueue
  <2>3. /\ muted' \subseteq Jobs /\ wanted' \subseteq Jobs
        /\ UNCHANGED <<tier, docs, prefs, seen, work, form, touched, blind, topic, tries, stalls,
                       stage, mails, granted, irregular, unheard>>
    BY <1>16 DEF Profile!Enqueue
  <2> QED
    BY <2>1, <2>3, <2>4
<1>17. ASSUME NEW j \in Jobs, Profile!Start(j) PROVE Profile!TypeOK'
  <2>1. pc' \in [Profile!Actors -> Profile!Points]
    BY <1>17, MailWorkFrame DEF MailWork
  <2>2. tries[j] <= MaxTries
    <3>1. pc[j] = "waiting" /\ JobInv(j) /\ tries[j] \in Nat /\ stalls[j] \in Nat
      BY <1>17, JobFacts DEF Profile!Start
    <3> QED
      BY <3>1 DEF JobInv
  <2>3. tries' \in [Jobs -> 0 .. MaxTries + 1]
    BY <1>17, <2>2 DEF Profile!Start
  <2>4. stage' \in [Jobs -> [Profile!Attempts -> Profile!Stages]]
    BY <1>17 DEF Profile!Start, Profile!Move
  <2>5. UNCHANGED <<tier, prefs, docs, seen, work, form, touched, blind, topic, granted,
                    irregular, stalls, mails, unheard, muted, wanted, calls, mishaps>>
    BY <1>17 DEF Profile!Start
  <2> QED
    BY <2>1, <2>3, <2>4, <2>5
<1>18. ASSUME NEW j \in Jobs, NEW k \in Profile!Attempts, Profile!Lookup(j, k)
       PROVE Profile!TypeOK'
    BY <1>18 DEF Profile!Lookup, Profile!Move
<1>19. ASSUME NEW j \in Jobs, NEW k \in Profile!Attempts, Profile!Send(j, k)
       PROVE Profile!TypeOK'
    BY <1>19 DEF Profile!Send, Profile!Move
<1>20. ASSUME NEW j \in Jobs, NEW k \in Profile!Attempts, Profile!Return(j, k)
       PROVE Profile!TypeOK'
  <2>1. pc' \in [Profile!Actors -> Profile!Points]
    BY <1>20, MailWorkFrame DEF MailWork
  <2>2. stage' \in [Jobs -> [Profile!Attempts -> Profile!Stages]]
    BY <1>20 DEF Profile!Return, Profile!Move
  <2>3. UNCHANGED <<tier, prefs, docs, seen, work, form, touched, blind, topic, granted,
                    irregular, tries, stalls, mails, unheard, muted, wanted, calls, mishaps>>
    BY <1>20 DEF Profile!Return
  <2> QED
    BY <2>1, <2>2, <2>3
<1>21. ASSUME NEW j \in Jobs, NEW k \in Profile!Attempts, Profile!Throw(j, k)
       PROVE Profile!TypeOK'
  <2>1. pc' \in [Profile!Actors -> Profile!Points]
    BY <1>21, MailWorkFrame DEF MailWork
  <2>2. /\ stage' \in [Jobs -> [Profile!Attempts -> Profile!Stages]]
    BY <1>21 DEF Profile!Throw
  <2>4. mails' \in [Jobs -> Nat] /\ unheard' \in [Jobs -> Nat]
    <3>1. mails' \in {mails, [mails EXCEPT ![j] = @ + 1]}
      BY <1>21 DEF Profile!Throw
    <3>2. unheard' \in {unheard, [unheard EXCEPT ![j] = @ + 1]}
      BY <1>21 DEF Profile!Throw
    <3>3. \A f \in [Jobs -> Nat] : [f EXCEPT ![j] = @ + 1] \in [Jobs -> Nat]
      OBVIOUS
    <3>4. mails \in [Jobs -> Nat] /\ unheard \in [Jobs -> Nat]
      OBVIOUS
    <3> HIDE DEF ProfileInv, Profile!TypeOK
    <3> QED
      BY <3>1, <3>2, <3>3, <3>4
  <2>3. UNCHANGED <<tier, prefs, docs, seen, work, form, touched, blind, topic, granted,
                    irregular, tries, stalls, muted, wanted, calls, mishaps>>
    BY <1>21 DEF Profile!Throw
  <2> QED
    BY <2>1, <2>2, <2>3, <2>4
<1>22. ASSUME NEW j \in Jobs, Profile!Lapse(j) PROVE Profile!TypeOK'
  <2>1. pc' \in [Profile!Actors -> Profile!Points]
    BY <1>22, MailWorkFrame DEF MailWork
  <2>2. stalls' \in [Jobs -> 0 .. 2]
    <3>1. \A i \in Jobs : pc[i] = "active" => stalls[i] < 2
      BY DEF JobInv
    <3> QED
      BY <1>22, <3>1 DEF Profile!Lapse, Profile!Stalled
  <2>3. stage' \in [Jobs -> [Profile!Attempts -> Profile!Stages]]
    <3>1. pc[j] = "active" /\ stalls[j] + 1 \in Profile!Attempts
      BY <1>22 DEF Profile!Lapse, JobInv
    <3>2. stage[j][0] \in Profile!Stages
      OBVIOUS
    <3> QED
      BY <1>22, <3>1, <3>2 DEF Profile!Lapse
  <2>4. UNCHANGED <<tier, prefs, docs, seen, work, form, touched, blind, topic, granted,
                    irregular, tries, mails, unheard, muted, wanted, calls, mishaps>>
    BY <1>22 DEF Profile!Lapse, Profile!Stalled
  <2> QED
    BY <2>1, <2>2, <2>3, <2>4
<1>23. ASSUME Profile!Die PROVE Profile!TypeOK'
  <2>1. pc' \in [Profile!Actors -> Profile!Points]
    BY <1>23, MailWorkFrame DEF MailWork
  <2>2. stalls' \in [Jobs -> 0 .. 2]
    <3>1. \A i \in Jobs : pc[i] = "active" => stalls[i] < 2
      BY DEF JobInv
    <3> QED
      BY <1>23, <3>1 DEF Profile!Die, Profile!Stalled
  <2>3. stage' \in [Jobs -> [Profile!Attempts -> Profile!Stages]]
    BY <1>23 DEF Profile!Die
  <2>4. UNCHANGED <<tier, prefs, docs, seen, work, form, touched, blind, topic, granted,
                    irregular, tries, mails, unheard, muted, wanted, calls, mishaps>>
    BY <1>23 DEF Profile!Die, Profile!Stalled
  <2> QED
    BY <2>1, <2>2, <2>3, <2>4
<1>24. CASE UNCHANGED Profile!vars
  BY <1>24 DEF Profile!vars, Profile!heeded
<1> HIDE DEF Profile!TypeOK, CountInv, FormInv, MailInv, ProfileInv, TierInv
<1> QED
    BY <1>1, <1>2, <1>3, <1>4, <1>5, <1>6, <1>7, <1>8, <1>9, <1>10, <1>11, <1>12, <1>13, <1>14,
     <1>15, <1>16, <1>17, <1>18, <1>19, <1>20, <1>21, <1>22, <1>23, <1>24
     DEF Profile!Next

\* Every step keeps the tiers without a gap: a verdict is never forgotten.
LEMMA TierStep ==
    ASSUME Profile!ProfileAssumption, ProfileInv, [Profile!Next]_Profile!vars
    PROVE  TierInv'
<1> USE DEF ProfileInv, Profile!TypeOK, Profile!Points, Profile!Documents, TierInv,
        Profile!Pending, Profile!Granting, Profile!ProfileAssumption, Profile!Actors,
        Profile!At,
        Profile!Goto, Profile!Step, Profile!Called, Profile!Within, Profile!Mishap, Profile!Kyc,
        Profile!Prefs, Profile!Mail, Profile!heeded, Profile!kycVars, Profile!prefVars,
        Profile!jobVars
<1>1. ASSUME NEW s \in Submits, Profile!Submit(s) PROVE TierInv'
  <2>1. /\ seen' = [seen EXCEPT ![s] = tier] /\ UNCHANGED <<tier, docs, work, granted>>
        /\ pc' = [pc EXCEPT ![s] = IF tier >= 2 THEN "over" ELSE "look"]
    BY <1>1 DEF Profile!Submit
  <2>2. s \notin Admins
    OBVIOUS
  <2>3. \A z \in Submits : seen'[z] = (IF z = s THEN tier ELSE seen[z])
    BY <2>1
  <2>4. \A z \in Submits :
            pc'[z] = (IF z # s THEN pc[z] ELSE IF tier >= 2 THEN "over" ELSE "look")
    BY <2>1
  <2>5. \A a \in Admins : pc'[a] = pc[a]
    BY <2>1, <2>2
  <2>7. \A z \in Submits : \A t \in 1 .. seen'[z] : \E d \in granted' : docs'[d].target = t
    BY <2>1, <2>3
  <2>6. /\ \A z \in Submits : /\ pc[z] \in {"idle", "look", "create", "over"}
                              /\ pc[z] \in {"look", "create"} => seen[z] <= 1
        /\ tier \in 0 .. 2
    OBVIOUS
  <2>8. \A z \in Submits : /\ pc'[z] \in {"idle", "look", "create", "over"}
                           /\ pc'[z] \in {"look", "create"} => seen'[z] <= 1
    <3> HIDE DEF ProfileInv, TierInv, Profile!TypeOK
    <3> TAKE z \in Submits
    <3>1. CASE z = s
      BY <2>3, <2>4, <2>6, <3>1
    <3>2. CASE z # s
      BY <2>3, <2>4, <2>6, <3>2
    <3> QED
      BY <3>1, <3>2
  <2>9. /\ \A a \in Admins : pc'[a] \in {"find", "save", "tier"} =>
               work'[a].doc \in DOMAIN docs'
        /\ \A a \in Profile!Granting' : work'[a].doc \in granted'
    BY <2>1, <2>5
  <2>10. /\ \A t \in 1 .. tier' : \E d \in granted' : docs'[d].target = t
         /\ \A d \in DOMAIN docs' : \A t \in 1 .. docs'[d].target - 1 :
                \E g \in granted' : docs'[g].target = t
    BY <2>1
  <2> QED
    BY <2>7, <2>8, <2>9, <2>10
<1>2. ASSUME NEW s \in Submits, Profile!Look(s) PROVE TierInv'
    BY <1>2 DEF Profile!Look
<1>3. ASSUME NEW s \in Submits, Profile!Create(s) PROVE TierInv'
  <2> DEFINE n == Len(docs) + 1
  <2>1. pc[s] = "create" /\ seen[s] \in 0 .. 1
    BY <1>3 DEF Profile!Create
  <2>2. /\ DOMAIN docs' = DOMAIN docs \cup {n} /\ n \notin DOMAIN docs
        /\ \A d \in DOMAIN docs : docs'[d] = docs[d]
        /\ docs'[n].target = seen[s] + 1
    BY <1>3, <2>1, CreateDocs
  <2> HIDE DEF n
  <2>3. UNCHANGED <<tier, seen, work, granted>> /\ granted \subseteq DOMAIN docs
    BY <1>3 DEF Profile!Create
  <2>4. /\ \A z \in Submits : pc'[z] = IF z = s THEN "over" ELSE pc[z]
        /\ \A a \in Admins : pc'[a] = pc[a]
    BY <1>3 DEF Profile!Create
  <2>5. \A d \in granted : docs'[d] = docs[d]
    BY <2>2, <2>3
  <2>6. \A t \in 1 .. tier' : \E d \in granted' : docs'[d].target = t
    BY <2>3, <2>5
  <2>7. \A z \in Submits : \A t \in 1 .. seen'[z] : \E d \in granted' : docs'[d].target = t
    BY <2>3, <2>5
  <2>8. ASSUME NEW d \in DOMAIN docs', NEW t \in 1 .. docs'[d].target - 1
        PROVE  \E g \in granted' : docs'[g].target = t
    <3>1. CASE d = n
      BY <2>1, <2>2, <2>3, <2>7, <3>1
    <3>2. CASE d # n
      <4>1. d \in DOMAIN docs /\ t \in 1 .. docs[d].target - 1
        BY <2>2, <3>2
      <4>2. PICK g \in granted : docs[g].target = t
        BY <4>1
      <4> QED
        BY <2>3, <2>5, <4>2
    <3> QED
      BY <3>1, <3>2
  <2>9. /\ \A z \in Submits : /\ pc'[z] \in {"idle", "look", "create", "over"}
                              /\ pc'[z] \in {"look", "create"} => seen'[z] <= 1
        /\ \A a \in Admins : pc'[a] \in {"find", "save", "tier"} =>
               work'[a].doc \in DOMAIN docs'
        /\ \A a \in Profile!Granting' : work'[a].doc \in granted'
    BY <2>2, <2>3, <2>4
  <2> QED
    BY <2>6, <2>7, <2>8, <2>9
<1>4. ASSUME NEW a \in Admins, Profile!Review(a) PROVE TierInv'
    BY <1>4 DEF Profile!Review
<1>5. ASSUME NEW a \in Admins, Profile!Find(a) PROVE TierInv'
    BY <1>5 DEF Profile!Find
<1>6. ASSUME NEW a \in Admins, Profile!SaveVerdict(a) PROVE TierInv'
  <2>1. work[a].doc \in DOMAIN docs /\ a \notin Submits
    BY <1>6 DEF Profile!SaveVerdict
  <2>2. /\ DOMAIN docs' = DOMAIN docs
        /\ \A d \in DOMAIN docs : docs'[d].target = docs[d].target
    BY <1>6, <2>1, VerdictDocs
  <2>3. /\ UNCHANGED <<tier, seen, work>> /\ granted \subseteq granted'
        /\ work[a].verdict = "approved" => work[a].doc \in granted'
        /\ pc' = [pc EXCEPT ![a] = IF work[a].verdict = "approved" THEN "tier" ELSE "idle"]
    BY <1>6 DEF Profile!SaveVerdict
  <2>4. \A d \in granted : d \in granted' /\ docs'[d].target = docs[d].target
    BY <2>2, <2>3
  <2>5. \A t \in 1 .. tier' : \E d \in granted' : docs'[d].target = t
    BY <2>3, <2>4
  <2>6. \A s \in Submits : \A t \in 1 .. seen'[s] : \E d \in granted' : docs'[d].target = t
    BY <2>3, <2>4
  <2>7. \A d \in DOMAIN docs' : \A t \in 1 .. docs'[d].target - 1 :
            \E g \in granted' : docs'[g].target = t
    BY <2>2, <2>4
  <2>8. \A s \in Submits : /\ pc'[s] \in {"idle", "look", "create", "over"}
                           /\ pc'[s] \in {"look", "create"} => seen'[s] <= 1
    BY <2>1, <2>3
  <2>9. /\ \A b \in Admins : pc'[b] \in {"find", "save", "tier"} =>
               work'[b].doc \in DOMAIN docs'
        /\ \A b \in Profile!Granting' : work'[b].doc \in granted'
    BY <2>1, <2>2, <2>3
  <2> QED
    BY <2>5, <2>6, <2>7, <2>8, <2>9
<1>7. ASSUME NEW a \in Admins, Profile!SaveTier(a) PROVE TierInv'
  <2>1. /\ pc[a] = "tier" /\ pc' = [pc EXCEPT ![a] = "idle"]
        /\ tier' = docs[work[a].doc].target /\ UNCHANGED <<docs, seen, work, granted>>
    BY <1>7 DEF Profile!SaveTier
  <2>2. work[a].doc \in granted /\ work[a].doc \in DOMAIN docs
    BY <2>1
  <2>3. docs[work[a].doc].target \in {1, 2}
    BY <2>2, DocumentAt
  <2>4. \A t \in 1 .. tier' : \E d \in granted' : docs'[d].target = t
    <3> TAKE t \in 1 .. tier'
    <3>1. CASE t = tier'
      BY <2>1, <2>2, <3>1
    <3>2. CASE t # tier'
      <4>1. t \in 1 .. docs[work[a].doc].target - 1
        BY <2>1, <2>3, <3>2
      <4> QED
        BY <2>1, <2>2, <4>1
    <3> QED
      BY <3>1, <3>2
  <2>5. \A b \in Profile!Actors : pc'[b] \in Profile!Points /\ pc'[b] # "idle" => pc'[b] = pc[b]
    BY <2>1
  <2> QED
    BY <2>1, <2>4, <2>5
<1>8. ASSUME NEW a \in Submits \cup Admins, Profile!FailKyc(a) PROVE TierInv'
    BY <1>8 DEF Profile!FailKyc
<1>9. ASSUME NEW p \in Pages, Profile!OpenPage(p) PROVE TierInv'
    BY <1>9 DEF Profile!OpenPage
<1>10. ASSUME NEW p \in Pages, Profile!ShowStored(p) PROVE TierInv'
    BY <1>10 DEF Profile!ShowStored, Profile!Show
<1>11. ASSUME NEW p \in Pages, Profile!ShowNothing(p) PROVE TierInv'
    BY <1>11 DEF Profile!ShowNothing, Profile!Show, Profile!Unset
<1>12. ASSUME NEW p \in Pages, Profile!ClickBox(p) PROVE TierInv'
    BY <1>12 DEF Profile!ClickBox, Profile!Click
<1>13. ASSUME NEW p \in Pages, Profile!Save(p) PROVE TierInv'
  <2>1. UNCHANGED <<tier, docs, seen, work, granted>> /\ pc' = [pc EXCEPT ![p] = "save"]
    BY <1>13 DEF Profile!Save
  <2>2. p \notin Submits /\ p \notin Admins
    OBVIOUS
  <2> QED
    BY <2>1, <2>2
<1>14. ASSUME NEW p \in Pages, Profile!Store(p) PROVE TierInv'
    BY <1>14 DEF Profile!Store, Profile!Show, Profile!Valid
<1>15. ASSUME NEW p \in Pages, Profile!FailStore(p) PROVE TierInv'
    BY <1>15 DEF Profile!FailStore
<1>16. ASSUME MailWork PROVE TierInv'
    BY <1>16, MailWorkFrame DEF Profile!Actors
<1>17. CASE UNCHANGED Profile!vars
  BY <1>17 DEF Profile!vars
<1> HIDE DEF Profile!TypeOK, CountInv, FormInv, MailInv, ProfileInv, TierInv
<1> QED
    BY <1>1, <1>2, <1>3, <1>4, <1>5, <1>6, <1>7, <1>8, <1>9, <1>10, <1>11, <1>12, <1>13, <1>14,
     <1>15, <1>16, <1>17
     DEF Profile!Next, MailWork

\* Every step keeps the count, or leaves the regular course.
LEMMA CountStep ==
    ASSUME Profile!ProfileAssumption, ProfileInv, [Profile!Next]_Profile!vars
    PROVE  CountInv'
<1> USE DEF ProfileInv, Profile!TypeOK, Profile!Points, Profile!Documents, TierInv, CountInv,
        Profile!Pending, Profile!Granting, Approved, Profile!ProfileAssumption, Profile!Actors,
        Profile!At, Profile!Goto, Profile!Step, Profile!Called, Profile!Within, Profile!Mishap,
        Profile!Kyc, Profile!Prefs, Profile!Mail, Profile!heeded, Profile!kycVars,
        Profile!prefVars,
        Profile!jobVars
<1>1. ASSUME NEW s \in Submits, Profile!Submit(s) PROVE CountInv'
    BY <1>1 DEF Profile!Submit
<1>2. ASSUME NEW s \in Submits, Profile!Look(s) PROVE CountInv'
    BY <1>2 DEF Profile!Look
<1>3. ASSUME NEW s \in Submits, Profile!Create(s) PROVE CountInv'
  <2> DEFINE n == Len(docs) + 1
  <2>1. SUFFICES ASSUME irregular' = {} PROVE CountInv'
    OBVIOUS
  <2>2. pc[s] = "create" /\ seen[s] \in 0 .. 1 /\ UNCHANGED <<tier, work>>
    BY <1>3 DEF Profile!Create
  <2>3. irregular = {} /\ seen[s] = tier /\ Profile!Pending = {} /\ Profile!Granting = {}
    <3>1. irregular' = irregular \cup
              {d \in {Len(docs) + 1} :
                   seen[s] # tier \/ Profile!Pending # {} \/ Profile!Granting # {}}
      BY <1>3 DEF Profile!Create
    <3> HIDE DEF Profile!Pending, Profile!Granting
    <3> QED
      BY <2>1, <3>1
  <2>4. /\ DOMAIN docs' = DOMAIN docs \cup {n} /\ n \notin DOMAIN docs
        /\ \A d \in DOMAIN docs : docs'[d] = docs[d]
        /\ docs'[n].status = "pending" /\ docs'[n].target = seen[s] + 1
    BY <1>3, <2>2, CreateDocs
  <2> HIDE DEF n
  <2>5. Profile!Pending' = {n}
    BY <2>3, <2>4
  <2>6. Approved' = Approved
    BY <2>4
  <2>7. \A a \in Admins : pc'[a] = pc[a]
    BY <1>3 DEF Profile!Create
  <2>8. Profile!Granting' = {}
    BY <2>3, <2>7
  <2>9. \A a \in Admins : pc'[a] # "save"
    BY <2>3, <2>7
  <2>10. Cardinality(Approved) = tier
    BY <2>3
  <2> HIDE DEF Profile!Pending, Profile!Granting, Approved
  <2> QED
    BY <2>2, <2>3, <2>4, <2>5, <2>6, <2>8, <2>9, <2>10
<1>4. ASSUME NEW a \in Admins, Profile!Review(a) PROVE CountInv'
    BY <1>4 DEF Profile!Review
<1>5. ASSUME NEW a \in Admins, Profile!Find(a) PROVE CountInv'
    BY <1>5 DEF Profile!Find
<1>6. ASSUME NEW a \in Admins, Profile!SaveVerdict(a) PROVE CountInv'
  <2> DEFINE d == work[a].doc
  <2>1. SUFFICES ASSUME irregular' = {} PROVE CountInv'
    OBVIOUS
  <2>2. /\ pc[a] = "save" /\ UNCHANGED <<tier, work>>
        /\ pc' = [pc EXCEPT ![a] = IF work[a].verdict = "approved" THEN "tier" ELSE "idle"]
    BY <1>6 DEF Profile!SaveVerdict
  <2>3. irregular = {} /\ \A b \in Admins \ {a} : pc[b] \in {"save", "tier"} => work[b].doc # d
    BY <1>6, <2>1 DEF Profile!SaveVerdict
  <2>4. d \in Profile!Pending /\ docs[d].target = tier + 1 /\ Profile!Granting = {}
    BY <2>2, <2>3
  <2>5. Profile!Pending = {d} /\ d \in DOMAIN docs /\ d \notin Approved
    BY <2>3, <2>4
  <2>6. /\ DOMAIN docs' = DOMAIN docs
        /\ docs'[d].target = docs[d].target /\ docs'[d].status = work[a].verdict
        /\ \A e \in DOMAIN docs \ {d} : docs'[e] = docs[e]
        /\ work[a].verdict \in {"approved", "rejected"}
    BY <1>6, <2>5, VerdictDocs
  <2>7. \A b \in Admins : pc'[b] # "save"
    BY <2>2, <2>3, <2>5
  <2>8. Cardinality(Approved) = tier /\ tier \in Nat
    BY <2>3, <2>4
  <2>9. IsFiniteSet(Approved)
    <3>1. Approved \subseteq 1 .. Len(docs) /\ 1 \in Int /\ Len(docs) \in Int
      OBVIOUS
    <3> HIDE DEF Approved
    <3> QED
      BY <3>1, FS_Interval, FS_Subset
  <2> HIDE DEF d
  <2>10. Profile!Pending' = {}
    <3> SUFFICES ASSUME NEW e \in DOMAIN docs, docs'[e].status = "pending" PROVE FALSE
      BY <2>6
    <3>1. CASE e = d
      BY <2>6, <3>1
    <3>2. CASE e # d
      BY <2>5, <2>6, <3>2
    <3> QED
      BY <3>1, <3>2
  <2>11. CASE work[a].verdict = "approved"
    <3>1. Approved' = Approved \cup {d}
      BY <2>5, <2>6, <2>11
    <3>2. Profile!Granting' = {a} /\ work'[a].doc = d
      BY <2>2, <2>4, <2>11 DEF d
    <3> HIDE DEF Profile!Pending, Profile!Granting, Approved
    <3>3. Cardinality(Approved') = tier + 1
      BY <2>5, <2>8, <2>9, <3>1, FS_AddElement
    <3> QED
      BY <2>2, <2>4, <2>6, <2>7, <2>10, <3>2, <3>3
  <2>12. CASE work[a].verdict = "rejected"
    <3>1. \A e \in DOMAIN docs : docs'[e].status = "approved" <=> docs[e].status = "approved"
      <4>1. docs[d].status = "pending" /\ docs'[d].status = "rejected"
        BY <2>5, <2>6, <2>12
      <4> QED
        BY <2>5, <2>6, <4>1
    <3>4. Approved' = Approved
      BY <2>6, <3>1
    <3>2. Profile!Granting' = {}
      BY <2>2, <2>4, <2>12
    <3> HIDE DEF Profile!Pending, Profile!Granting, Approved
    <3> QED
      BY <2>2, <2>7, <2>8, <2>10, <3>2, <3>4
  <2> QED
    BY <2>6, <2>11, <2>12
<1>7. ASSUME NEW a \in Admins, Profile!SaveTier(a) PROVE CountInv'
    BY <1>7 DEF Profile!SaveTier
<1>8. ASSUME NEW a \in Submits \cup Admins, Profile!FailKyc(a) PROVE CountInv'
  <2>1. SUFFICES ASSUME irregular' = {} PROVE CountInv'
    OBVIOUS
  <2>2. pc[a] # "tier" /\ irregular = {}
    BY <1>8, <2>1 DEF Profile!FailKyc
  <2>3. /\ UNCHANGED <<tier, docs, work>>
        /\ pc' = [pc EXCEPT ![a] = IF a \in Submits THEN "over" ELSE "idle"]
    BY <1>8 DEF Profile!FailKyc
  <2>4. /\ Profile!Granting' = Profile!Granting /\ Profile!Pending' = Profile!Pending
        /\ Approved' = Approved
    BY <2>2, <2>3
  <2>5. \A b \in Admins : pc'[b] = "save" => pc[b] = "save"
    BY <2>3
  <2> HIDE DEF Profile!Pending, Profile!Granting, Approved
  <2> QED
    BY <2>2, <2>3, <2>4, <2>5
<1>9. ASSUME NEW p \in Pages, Profile!OpenPage(p) PROVE CountInv'
    BY <1>9 DEF Profile!OpenPage
<1>10. ASSUME NEW p \in Pages, Profile!ShowStored(p) PROVE CountInv'
    BY <1>10 DEF Profile!ShowStored, Profile!Show
<1>11. ASSUME NEW p \in Pages, Profile!ShowNothing(p) PROVE CountInv'
    BY <1>11 DEF Profile!ShowNothing, Profile!Show, Profile!Unset
<1>12. ASSUME NEW p \in Pages, Profile!ClickBox(p) PROVE CountInv'
    BY <1>12 DEF Profile!ClickBox, Profile!Click
<1>13. ASSUME NEW p \in Pages, Profile!Save(p) PROVE CountInv'
    BY <1>13 DEF Profile!Save
<1>14. ASSUME NEW p \in Pages, Profile!Store(p) PROVE CountInv'
    BY <1>14 DEF Profile!Store, Profile!Show, Profile!Valid
<1>15. ASSUME NEW p \in Pages, Profile!FailStore(p) PROVE CountInv'
    BY <1>15 DEF Profile!FailStore
<1>16. ASSUME MailWork PROVE CountInv'
  <2>1. /\ UNCHANGED <<tier, docs, work, irregular>>
        /\ \A a \in Admins : pc'[a] = pc[a]
    BY <1>16, MailWorkFrame
  <2>2. /\ Profile!Pending' = Profile!Pending /\ Profile!Granting' = Profile!Granting
        /\ Approved' = Approved
    BY <2>1
  <2> HIDE DEF Profile!Pending, Profile!Granting, Approved
  <2> QED
    BY <2>1, <2>2
<1>17. CASE UNCHANGED Profile!vars
  BY <1>17 DEF Profile!vars
<1> HIDE DEF Profile!TypeOK, CountInv, FormInv, MailInv, ProfileInv, TierInv
<1> QED
    BY <1>1, <1>2, <1>3, <1>4, <1>5, <1>6, <1>7, <1>8, <1>9, <1>10, <1>11, <1>12, <1>13, <1>14,
     <1>15, <1>16, <1>17
     DEF Profile!Next, MailWork

\* Every step keeps what the pages show.
LEMMA FormStep ==
    ASSUME Profile!ProfileAssumption, ProfileInv, [Profile!Next]_Profile!vars
    PROVE  FormInv'
<1> USE DEF ProfileInv, Profile!TypeOK, Profile!Points, Profile!Boxes, FormInv,
        Profile!ProfileAssumption, Profile!Actors, Profile!At, Profile!Goto, Profile!Step,
        Profile!Called, Profile!Within, Profile!Mishap, Profile!Kyc, Profile!Prefs,
        Profile!Mail, Profile!heeded,
        Profile!kycVars, Profile!prefVars, Profile!jobVars
<1>1. ASSUME NEW s \in Submits, Profile!Submit(s) PROVE FormInv'
    BY <1>1 DEF Profile!Submit
<1>2. ASSUME NEW s \in Submits, Profile!Look(s) PROVE FormInv'
    BY <1>2 DEF Profile!Look
<1>3. ASSUME NEW s \in Submits, Profile!Create(s) PROVE FormInv'
    BY <1>3 DEF Profile!Create
<1>4. ASSUME NEW a \in Admins, Profile!Review(a) PROVE FormInv'
    BY <1>4 DEF Profile!Review
<1>5. ASSUME NEW a \in Admins, Profile!Find(a) PROVE FormInv'
    BY <1>5 DEF Profile!Find
<1>6. ASSUME NEW a \in Admins, Profile!SaveVerdict(a) PROVE FormInv'
    BY <1>6 DEF Profile!SaveVerdict
<1>7. ASSUME NEW a \in Admins, Profile!SaveTier(a) PROVE FormInv'
    BY <1>7 DEF Profile!SaveTier
<1>8. ASSUME NEW a \in Submits \cup Admins, Profile!FailKyc(a) PROVE FormInv'
    BY <1>8 DEF Profile!FailKyc
<1>9. ASSUME NEW p \in Pages, Profile!OpenPage(p) PROVE FormInv'
    BY <1>9 DEF Profile!OpenPage
<1>10. ASSUME NEW p \in Pages, Profile!ShowStored(p) PROVE FormInv'
    BY <1>10 DEF Profile!ShowStored, Profile!Show
<1>11. ASSUME NEW p \in Pages, Profile!ShowNothing(p) PROVE FormInv'
    BY <1>11 DEF Profile!ShowNothing, Profile!Show, Profile!Unset
<1>12. ASSUME NEW p \in Pages, Profile!ClickBox(p) PROVE FormInv'
    BY <1>12 DEF Profile!ClickBox, Profile!Click
<1>13. ASSUME NEW p \in Pages, Profile!Save(p) PROVE FormInv'
    BY <1>13 DEF Profile!Save
<1>14. ASSUME NEW p \in Pages, Profile!Store(p) PROVE FormInv'
    BY <1>14 DEF Profile!Store, Profile!Show, Profile!Valid
<1>15. ASSUME NEW p \in Pages, Profile!FailStore(p) PROVE FormInv'
    BY <1>15 DEF Profile!FailStore
<1>16. ASSUME MailWork PROVE FormInv'
    BY <1>16, MailWorkFrame DEF Profile!Actors
<1>17. CASE UNCHANGED Profile!vars
  BY <1>17 DEF Profile!vars
<1> HIDE DEF Profile!TypeOK, CountInv, FormInv, MailInv, ProfileInv, TierInv
<1> QED
    BY <1>1, <1>2, <1>3, <1>4, <1>5, <1>6, <1>7, <1>8, <1>9, <1>10, <1>11, <1>12, <1>13, <1>14,
     <1>15, <1>16, <1>17
     DEF Profile!Next, MailWork

\* Nothing of a job has changed that is said of it.
LEMMA JobFrame ==
    ASSUME NEW j \in Jobs, JobInv(j),
           UNCHANGED <<stage[j], pc[j], tries[j], stalls[j], mails[j], unheard[j]>>,
           UNCHANGED topic,
           j \in muted' => j \in muted /\ prefs'[topic[j]].email = "off",
           j \in wanted' => j \in wanted /\ prefs'[topic[j]].email # "off"
    PROVE  JobInv(j)'
BY DEF JobInv, Out, Sent

\* No step of a request or a page does but for the preferences it stores.
LEMMA OtherWork ==
    ASSUME Profile!ProfileAssumption, ProfileInv, Profile!Next, ~ MailWork
    PROVE  MailInv'
<1> USE DEF ProfileInv, Profile!TypeOK, Profile!ProfileAssumption, Profile!Actors, Profile!Step,
        Profile!Goto, Profile!At, Profile!Kyc, Profile!Prefs, Profile!jobVars, Profile!heeded
<1> DEFINE JobsStay == /\ UNCHANGED <<topic, tries, stalls, stage, mails, unheard>>
                       /\ \A j \in Jobs : pc'[j] = pc[j]
<1>1. JobsStay
  <2>1. ASSUME NEW s \in Submits, Profile!Submit(s) PROVE JobsStay
    BY <2>1 DEF Profile!Submit
  <2>2. ASSUME NEW s \in Submits, Profile!Look(s) PROVE JobsStay
    BY <2>2 DEF Profile!Look
  <2>3. ASSUME NEW s \in Submits, Profile!Create(s) PROVE JobsStay
    BY <2>3 DEF Profile!Create
  <2>4. ASSUME NEW a \in Admins, Profile!Review(a) PROVE JobsStay
    BY <2>4 DEF Profile!Review
  <2>5. ASSUME NEW a \in Admins, Profile!Find(a) PROVE JobsStay
    BY <2>5 DEF Profile!Find
  <2>6. ASSUME NEW a \in Admins, Profile!SaveVerdict(a) PROVE JobsStay
    BY <2>6 DEF Profile!SaveVerdict
  <2>7. ASSUME NEW a \in Admins, Profile!SaveTier(a) PROVE JobsStay
    BY <2>7 DEF Profile!SaveTier
  <2>8. ASSUME NEW a \in Submits \cup Admins, Profile!FailKyc(a) PROVE JobsStay
    BY <2>8 DEF Profile!FailKyc
  <2>9. ASSUME NEW p \in Pages, Profile!OpenPage(p) PROVE JobsStay
    BY <2>9 DEF Profile!OpenPage
  <2>10. ASSUME NEW p \in Pages, Profile!ShowStored(p) PROVE JobsStay
    BY <2>10 DEF Profile!ShowStored
  <2>11. ASSUME NEW p \in Pages, Profile!ShowNothing(p) PROVE JobsStay
    BY <2>11 DEF Profile!ShowNothing
  <2>12. ASSUME NEW p \in Pages, Profile!ClickBox(p) PROVE JobsStay
    BY <2>12 DEF Profile!ClickBox
  <2>13. ASSUME NEW p \in Pages, Profile!Save(p) PROVE JobsStay
    BY <2>13 DEF Profile!Save
  <2>14. ASSUME NEW p \in Pages, Profile!FailStore(p) PROVE JobsStay
    BY <2>14 DEF Profile!FailStore
  <2>15. ASSUME NEW p \in Pages, Profile!Store(p) PROVE JobsStay
    BY <2>15 DEF Profile!Store
  <2> QED
    BY <2>1, <2>2, <2>3, <2>4, <2>5, <2>6, <2>7, <2>8, <2>9, <2>10, <2>11, <2>12, <2>13, <2>14,
       <2>15 DEF Profile!Next, MailWork
<1>2. \A j \in Jobs : /\ j \in muted' => j \in muted /\ prefs'[topic[j]].email = "off"
                      /\ j \in wanted' => j \in wanted /\ prefs'[topic[j]].email # "off"
  <2>1. CASE UNCHANGED <<prefs, muted, wanted>>
    BY <2>1 DEF MailInv, JobInv
  <2>2. ASSUME NEW p \in Pages, Profile!Store(p), ~ UNCHANGED <<prefs, muted, wanted>>
        PROVE  /\ prefs' = form[p]
               /\ muted' = {j \in muted : form[p][topic[j]].email = "off"}
               /\ wanted' = {j \in wanted : form[p][topic[j]].email # "off"}
    BY <2>2 DEF Profile!Store, Profile!prefVars
  <2>3. UNCHANGED <<prefs, muted, wanted>> \/ \E p \in Pages : Profile!Store(p)
    BY Zenon DEF Profile!Next, MailWork, Profile!prefVars, Profile!Kyc, Profile!heeded,
       Profile!Prefs, Profile!Submit, Profile!Look, Profile!Create, Profile!Review, Profile!Find,
       Profile!SaveVerdict, Profile!SaveTier, Profile!FailKyc, Profile!OpenPage,
       Profile!ShowStored, Profile!ShowNothing, Profile!ClickBox, Profile!Save, Profile!FailStore
  <2> QED
    BY <2>1, <2>2, <2>3
<1>3. \A j \in Jobs : JobInv(j)
  BY DEF MailInv
<1> HIDE DEF ProfileInv, Profile!TypeOK
<1> SUFFICES ASSUME NEW j \in Jobs PROVE JobInv(j)'
  BY DEF MailInv
<1>4. UNCHANGED <<stage[j], pc[j], tries[j], stalls[j], mails[j], unheard[j]>> /\ UNCHANGED topic
  BY <1>1
<1>5. /\ j \in muted' => j \in muted /\ prefs'[topic[j]].email = "off"
      /\ j \in wanted' => j \in wanted /\ prefs'[topic[j]].email # "off"
  BY <1>2
<1> QED
  BY <1>3, <1>4, <1>5 DEF JobInv, Out, Sent

\* Every step keeps what the jobs have mailed.
LEMMA MailStep ==
    ASSUME Profile!ProfileAssumption, ProfileInv, [Profile!Next]_Profile!vars
    PROVE  MailInv'
<1> USE DEF Profile!Step, Profile!Goto, Profile!At, Profile!Mail, Profile!prefVars,
        Profile!heeded, Profile!Stages
<1>1. /\ pc \in [Profile!Actors -> Profile!Points]
      /\ tries \in [Jobs -> 0 .. MaxTries + 1] /\ stalls \in [Jobs -> 0 .. 2]
      /\ stage \in [Jobs -> [Profile!Attempts -> Profile!Stages]]
      /\ mails \in [Jobs -> Nat] /\ unheard \in [Jobs -> Nat]
      /\ Jobs \subseteq Profile!Actors /\ MaxTries \in Nat \ {0}
  BY DEF ProfileInv, Profile!TypeOK, Profile!Actors, Profile!ProfileAssumption
<1>2. ASSUME NEW j \in Jobs, Profile!Enqueue(j), NEW i \in Jobs
      PROVE JobInv(i)'
  <2>1. UNCHANGED <<prefs, topic>>
    BY <1>2 DEF Profile!Enqueue
  <2>2. CASE i # j
    <3>1. UNCHANGED <<stage[i], pc[i], tries[i], stalls[i], mails[i], unheard[i]>>
      BY <1>1, <1>2, <2>2 DEF Profile!Enqueue
    <3> QED
      BY <1>2, <2>1, <2>2, <3>1, JobFacts, JobFrame DEF JobInv, Profile!Enqueue
  <2>3. CASE i = j
    <3>1. /\ pc[j] = "idle" /\ pc'[j] \in {"waiting", "lost"}
          /\ UNCHANGED <<tries, stalls, stage, mails, unheard>>
          /\ j \in muted' => j \in muted \/ prefs[topic[j]].email = "off"
          /\ j \in wanted' => j \in wanted \/ prefs[topic[j]].email # "off"
      BY <1>1, <1>2 DEF Profile!Enqueue, Profile!Off
    <3>8. mails'[j] + Out(j, 1)' + Out(j, 2)' <= unheard'[j] + stalls'[j] + Sent(j)'
      BY <1>1, <2>1, <2>3, <3>1, JobFacts DEF JobInv, Out, Sent
    <3>9. JobInv(j)'
      BY <1>1, <2>1, <3>1, <3>8, JobFacts DEF JobInv
    <3> QED
      BY <2>3, <3>9
  <2> QED
    BY <2>2, <2>3
<1>3. ASSUME NEW j \in Jobs, Profile!Start(j), NEW i \in Jobs
      PROVE JobInv(i)'
  <2>1. UNCHANGED <<prefs, topic, muted, wanted>>
    BY <1>3 DEF Profile!Start, Profile!Move
  <2>2. CASE i # j
    <3>1. UNCHANGED <<stage[i], pc[i], tries[i], stalls[i], mails[i], unheard[i]>>
      BY <1>1, <1>3, <2>2 DEF Profile!Start, Profile!Move
    <3> QED
      BY <2>1, <3>1, JobFacts, JobFrame DEF JobInv
  <2>3. CASE i = j
    <3>1. /\ pc[j] = "waiting" /\ pc'[j] = "active"
          /\ stage'[j][0] = "lookup"
          /\ \A a \in {1, 2} : stage'[j][a] = stage[j][a]
          /\ tries'[j] = tries[j] + 1 /\ UNCHANGED <<stalls, mails, unheard>>
      BY <1>1, <1>3, JobFacts DEF Profile!Start, Profile!Move
    <3>8. mails'[j] + Out(j, 1)' + Out(j, 2)' <= unheard'[j] + stalls'[j] + Sent(j)'
      BY <1>1, <2>1, <2>3, <3>1, JobFacts DEF JobInv, Out, Sent
    <3>9. JobInv(j)'
      BY <1>1, <2>1, <3>1, <3>8, JobFacts DEF JobInv
    <3> QED
      BY <2>3, <3>9
  <2> QED
    BY <2>2, <2>3
<1>4. ASSUME NEW j \in Jobs, NEW k \in Profile!Attempts, Profile!Lookup(j, k), NEW i \in Jobs
      PROVE JobInv(i)'
  <2>1. UNCHANGED <<prefs, topic, muted, wanted>>
    BY <1>4 DEF Profile!Lookup, Profile!Move
  <2>2. CASE i # j
    <3>1. UNCHANGED <<stage[i], pc[i], tries[i], stalls[i], mails[i], unheard[i]>>
      BY <1>1, <1>4, <2>2 DEF Profile!Lookup, Profile!Move
    <3> QED
      BY <2>1, <3>1, JobFacts, JobFrame DEF JobInv
  <2>3. CASE i = j
    <3>1. /\ k \in {0, 1, 2} /\ stage[j][k] = "lookup"
          /\ \A a \in {0, 1, 2} : stage'[j][a] =
                 IF a # k THEN stage[j][a]
                 ELSE IF prefs[topic[j]].email = "off" THEN "done" ELSE "send"
          /\ UNCHANGED <<pc, tries, stalls, mails, unheard>>
      BY <1>1, <1>4, JobFacts DEF Profile!Lookup, Profile!Move, Profile!Off
    <3>8. mails'[j] + Out(j, 1)' + Out(j, 2)' <= unheard'[j] + stalls'[j] + Sent(j)'
      BY <1>1, <2>1, <2>3, <3>1, JobFacts DEF JobInv, Out, Sent
    <3>9. JobInv(j)'
      BY <1>1, <2>1, <3>1, <3>8, JobFacts DEF JobInv
    <3> QED
      BY <2>3, <3>9
  <2> QED
    BY <2>2, <2>3
<1>5. ASSUME NEW j \in Jobs, NEW k \in Profile!Attempts, Profile!Send(j, k), NEW i \in Jobs
      PROVE JobInv(i)'
  <2>1. UNCHANGED <<prefs, topic, muted, wanted>>
    BY <1>5 DEF Profile!Send, Profile!Move
  <2>2. CASE i # j
    <3>1. UNCHANGED <<stage[i], pc[i], tries[i], stalls[i], mails[i], unheard[i]>>
      BY <1>1, <1>5, <2>2 DEF Profile!Send, Profile!Move
    <3> QED
      BY <2>1, <3>1, JobFacts, JobFrame DEF JobInv
  <2>3. CASE i = j
    <3>1. /\ k \in {0, 1, 2} /\ stage[j][k] = "send"
          /\ \A a \in {0, 1, 2} : stage'[j][a] = IF a # k THEN stage[j][a] ELSE "done"
          /\ mails'[j] = mails[j] + 1 /\ UNCHANGED <<pc, tries, stalls, unheard>>
      BY <1>1, <1>5, JobFacts DEF Profile!Send, Profile!Move
    <3>8. mails'[j] + Out(j, 1)' + Out(j, 2)' <= unheard'[j] + stalls'[j] + Sent(j)'
      BY <1>1, <2>1, <2>3, <3>1, JobFacts DEF JobInv, Out, Sent
    <3>5. j \notin muted \/ stage[j][k] # "send"
      BY <3>1, JobFacts DEF JobInv
    <3>9. JobInv(j)'
      BY <1>1, <2>1, <3>1, <3>5, <3>8, JobFacts DEF JobInv
    <3> QED
      BY <2>3, <3>9
  <2> QED
    BY <2>2, <2>3
<1>6. ASSUME NEW j \in Jobs, NEW k \in Profile!Attempts, Profile!Return(j, k), NEW i \in Jobs
      PROVE JobInv(i)'
  <2>1. UNCHANGED <<prefs, topic, muted, wanted>>
    BY <1>6 DEF Profile!Return, Profile!Move
  <2>2. CASE i # j
    <3>1. UNCHANGED <<stage[i], pc[i], tries[i], stalls[i], mails[i], unheard[i]>>
      BY <1>1, <1>6, <2>2 DEF Profile!Return, Profile!Move
    <3> QED
      BY <2>1, <3>1, JobFacts, JobFrame DEF JobInv
  <2>3. CASE i = j
    <3>1. /\ k \in {0, 1, 2} /\ stage[j][k] = "done"
          /\ \A a \in {0, 1, 2} : stage'[j][a] = IF a # k THEN stage[j][a] ELSE "none"
          /\ pc'[j] = IF k = 0 THEN "completed" ELSE pc[j]
          /\ UNCHANGED <<tries, stalls, mails, unheard>>
      BY <1>1, <1>6, JobFacts DEF Profile!Return, Profile!Move
    <3>8. mails'[j] + Out(j, 1)' + Out(j, 2)' <= unheard'[j] + stalls'[j] + Sent(j)'
      BY <1>1, <2>1, <2>3, <3>1, JobFacts DEF JobInv, Out, Sent
    <3>9. JobInv(j)'
      BY <1>1, <2>1, <3>1, <3>8, JobFacts DEF JobInv
    <3> QED
      BY <2>3, <3>9
  <2> QED
    BY <2>2, <2>3
<1>7. ASSUME NEW j \in Jobs, NEW k \in Profile!Attempts, Profile!Throw(j, k), NEW i \in Jobs
      PROVE JobInv(i)'
  <2>1. UNCHANGED <<prefs, topic, muted, wanted>>
    BY <1>7 DEF Profile!Throw
  <2>2. CASE i # j
    <3>1. UNCHANGED <<stage[i], pc[i], tries[i], stalls[i], mails[i], unheard[i]>>
      BY <1>1, <1>7, <2>2 DEF Profile!Throw
    <3> QED
      BY <2>1, <3>1, JobFacts, JobFrame DEF JobInv
  <2>3. CASE i = j
    <3>1. /\ k \in {0, 1, 2} /\ stage[j][k] \in {"lookup", "send"}
          /\ \A a \in {0, 1, 2} : stage'[j][a] = IF a # k THEN stage[j][a] ELSE "none"
          /\ \/ mails'[j] = mails[j] /\ unheard'[j] = unheard[j]
             \/ /\ stage[j][k] = "send"
                /\ mails'[j] = mails[j] + 1 /\ unheard'[j] = unheard[j] + 1
          /\ UNCHANGED <<tries, stalls>>
      BY <1>1, <1>7, JobFacts DEF Profile!Throw
    <3>2. pc'[j] = IF k # 0 THEN pc[j]
                   ELSE IF tries[j] - stalls[j] < MaxTries THEN "waiting" ELSE "failed"
      BY <1>1, <1>7 DEF Profile!Throw
    <3>8. mails'[j] + Out(j, 1)' + Out(j, 2)' <= unheard'[j] + stalls'[j] + Sent(j)'
      BY <1>1, <2>1, <2>3, <3>1, <3>2, JobFacts DEF JobInv, Out, Sent
    <3>5. j \notin muted \/ stage[j][k] # "send"
      BY <3>1, JobFacts DEF JobInv
    <3>9. JobInv(j)'
      BY <1>1, <2>1, <3>1, <3>2, <3>5, <3>8, JobFacts DEF JobInv
    <3> QED
      BY <2>3, <3>9
  <2> QED
    BY <2>2, <2>3
<1>8. ASSUME NEW j \in Jobs, Profile!Lapse(j), NEW i \in Jobs
      PROVE JobInv(i)'
  <2>1. UNCHANGED <<prefs, topic, muted, wanted>>
    BY <1>8 DEF Profile!Lapse, Profile!Stalled
  <2>2. CASE i # j
    <3>1. UNCHANGED <<stage[i], pc[i], tries[i], stalls[i], mails[i], unheard[i]>>
      BY <1>1, <1>8, <2>2 DEF Profile!Lapse, Profile!Stalled
    <3> QED
      BY <2>1, <3>1, JobFacts, JobFrame DEF JobInv
  <2>3. CASE i = j
    <3>1. /\ pc[j] = "active" /\ stalls[j] \in {0, 1}
          /\ stage'[j][0] = "none"
          /\ \A a \in {1, 2} : stage'[j][a] = IF a = stalls[j] + 1 THEN stage[j][0]
                                            ELSE stage[j][a]
          /\ pc'[j] = IF stalls[j] = 0 THEN "waiting" ELSE "failed"
          /\ stalls'[j] = stalls[j] + 1 /\ UNCHANGED <<tries, mails, unheard>>
      BY <1>1, <1>8, JobFacts DEF Profile!Lapse, Profile!Stalled, JobInv
    <3>8. mails'[j] + Out(j, 1)' + Out(j, 2)' <= unheard'[j] + stalls'[j] + Sent(j)'
      BY <1>1, <2>1, <2>3, <3>1, JobFacts DEF JobInv, Out, Sent
    <3>9. JobInv(j)'
      BY <1>1, <2>1, <3>1, <3>8, JobFacts DEF JobInv
    <3> QED
      BY <2>3, <3>9
  <2> QED
    BY <2>2, <2>3
<1>9. ASSUME Profile!Die, NEW i \in Jobs PROVE JobInv(i)'
  <2>1. UNCHANGED <<prefs, topic, tries, mails, unheard, muted, wanted>>
    BY <1>9 DEF Profile!Die, Profile!Stalled
  <2>2. \A a \in Profile!Attempts : stage'[i][a] = "none"
    BY <1>9 DEF Profile!Die
  <2>3. CASE pc[i] = "active"
    <3>1. /\ pc'[i] = IF stalls[i] = 0 THEN "waiting" ELSE "failed"
          /\ stalls'[i] = stalls[i] + 1
      BY <1>1, <1>9, <2>3 DEF Profile!Die, Profile!Stalled
    <3> QED
      BY <1>1, <2>1, <2>2, <2>3, <3>1, JobFacts DEF JobInv, Out, Sent
  <2>4. CASE pc[i] # "active"
    <3>1. pc'[i] = pc[i] /\ stalls'[i] = stalls[i]
      BY <1>1, <1>9, <2>4 DEF Profile!Die, Profile!Stalled
    <3>8. mails'[i] + Out(i, 1)' + Out(i, 2)' <= unheard'[i] + stalls'[i] + Sent(i)'
      BY <1>1, <2>1, <2>2, <2>4, <3>1, JobFacts DEF JobInv, Out, Sent
    <3> QED
      BY <1>1, <2>1, <2>2, <2>4, <3>1, <3>8, JobFacts DEF JobInv
  <2> QED
    BY <2>3, <2>4
<1>10. CASE UNCHANGED Profile!vars
  BY <1>10, JobFacts, JobFrame DEF Profile!vars, Profile!jobVars, MailInv, JobInv
<1>11. CASE MailWork
  BY <1>2, <1>3, <1>4, <1>5, <1>6, <1>7, <1>8, <1>9, <1>11 DEF MailWork, MailInv
<1> QED
  BY <1>10, <1>11, OtherWork

\* ProfileInv is an invariant.
LEMMA ProfileInvariance ==
    ASSUME Profile!ProfileAssumption
    PROVE  Profile!Spec => []ProfileInv
<1>1. Profile!Init => ProfileInv
  <2> SUFFICES ASSUME Profile!Init PROVE ProfileInv
    OBVIOUS
  <2> USE DEF Profile!Init, Profile!ProfileAssumption
  <2>1. Profile!TypeOK
    BY DEF Profile!TypeOK, Profile!Points, Profile!Boxes, Profile!On, Profile!Actors,
       Profile!Stages
  <2>2. \A a \in Profile!Actors : pc[a] = "idle"
    OBVIOUS
  <2>3. DOMAIN docs = {} /\ Profile!Granting = {}
    BY <2>2 DEF Profile!Granting, Profile!Actors, Profile!At
  <2>4. TierInv
    BY <2>2, <2>3 DEF TierInv, Profile!Actors
  <2>5. CountInv
    <3>1. Profile!Pending = {} /\ Approved = {}
      BY <2>3 DEF Profile!Pending, Approved
    <3>2. \A a \in Admins : pc[a] # "save"
      BY <2>2 DEF Profile!Actors
    <3> QED
      BY <2>3, <3>1, <3>2, FS_EmptySet DEF CountInv
  <2>6. FormInv /\ MailInv
    BY <2>2 DEF FormInv, MailInv, JobInv, Out, Sent, Profile!Actors, Profile!Attempts
  <2> QED
    BY <2>1, <2>4, <2>5, <2>6 DEF ProfileInv
<1>2. ProfileInv /\ [Profile!Next]_Profile!vars => ProfileInv'
  <2> SUFFICES ASSUME ProfileInv, [Profile!Next]_Profile!vars PROVE ProfileInv'
    OBVIOUS
  <2> QED
    BY ProfileTypeStep, TierStep, CountStep, FormStep, MailStep DEF ProfileInv
<1> QED
  BY <1>1, <1>2, PTL DEF Profile!Spec

(* The types of Profile. *)
THEOREM ProfileTypes ==
    ASSUME Profile!ProfileAssumption
    PROVE  Profile!Spec => []Profile!TypeOK
<1>1. ProfileInv => Profile!TypeOK
  BY DEF ProfileInv
<1> QED
  BY <1>1, ProfileInvariance, PTL

(* No tier is skipped, however submits and reviews race, and the tier is   *)
(* the number of approved documents as long as none overlaps and no review *)
(* stops half way (authController.js: submitKYC, adminController.js:       *)
(* reviewKYC).                                                             *)
THEOREM NoTierIsSkipped ==
    ASSUME Profile!ProfileAssumption
    PROVE  Profile!Spec => []TierMatchesVerdicts
<1>1. ProfileInv => TierMatchesVerdicts
  <2> SUFFICES ASSUME ProfileInv PROVE TierMatchesVerdicts
    OBVIOUS
  <2>1. irregular = {} /\ Granting = {} => tier = Cardinality(Approved)
    BY DEF ProfileInv, CountInv, Granting, Profile!Granting, Profile!TypeOK
  <2>2. \A t \in 1 .. tier : \E d \in granted : docs[d].target = t
    BY DEF ProfileInv, TierInv
  <2> QED
    BY <2>1, <2>2, Zenon DEF Approved, TierMatchesVerdicts
<1> QED
  BY <1>1, ProfileInvariance, PTL

(* A job sends one mail, and one more at most for each whose sending failed *)
(* and for each stall; none about an event that has been off since before  *)
(* it happened, and it is not completed without one if that has been on    *)
(* (notificationWorker.js, notificationQueue.js).                          *)
THEOREM NobodyIsMailedTwice ==
    ASSUME Profile!ProfileAssumption
    PROVE  Profile!Spec => []MailedOnce
<1>1. ProfileInv => MailedOnce
  <2> SUFFICES ASSUME ProfileInv, NEW j \in Jobs
               PROVE  /\ mails[j] <= 1 + unheard[j] + stalls[j]
                      /\ j \in muted => mails[j] = 0
                      /\ pc[j] = "completed" /\ j \in wanted => mails[j] > 0
                      /\ pc[j] = "failed" => stalls[j] = 2 \/ tries[j] = MaxTries + stalls[j]
    BY DEF MailedOnce
  <2>1. Out(j, 1) \in {0, 1} /\ Out(j, 2) \in {0, 1} /\ Sent(j) \in {0, 1}
    BY DEF Out, Sent
  <2> QED
    BY <2>1, JobFacts DEF JobInv
<1> QED
  BY <1>1, ProfileInvariance, PTL

\* Only a save changes what is stored, to what its page shows.
LEMMA OnlyStoreChanges ==
    ASSUME Profile!ProfileAssumption, ProfileInv, [Profile!Next]_Profile!vars, prefs' # prefs
    PROVE  \E p \in Pages : pc[p] = "save" /\ pc'[p] = "form" /\ prefs' = form[p]
<1>1. \E p \in Pages : Profile!Store(p)
  BY Zenon DEF Profile!Next, Profile!vars, Profile!kycVars, Profile!prefVars, Profile!jobVars,
     Profile!Kyc, Profile!Prefs, Profile!Mail, Profile!Submit, Profile!Look,
     Profile!Create, Profile!Review, Profile!Find, Profile!SaveVerdict, Profile!SaveTier,
     Profile!FailKyc, Profile!OpenPage, Profile!ShowStored,
     Profile!ShowNothing, Profile!ClickBox, Profile!Save, Profile!FailStore, Profile!Enqueue,
     Profile!Start, Profile!Lookup, Profile!Send, Profile!Return, Profile!Throw, Profile!Lapse,
     Profile!Die, Profile!Stalled
<1>2. PICK p \in Pages : Profile!Store(p)
  BY <1>1
<1>3. pc[p] = "save" /\ pc'[p] = "form" /\ prefs' = form[p]
  BY <1>2 DEF Profile!Store, Profile!Step, Profile!At, Profile!Goto, Profile!Prefs, ProfileInv,
     Profile!TypeOK, Profile!Actors, Profile!prefVars
<1> QED
  BY <1>3

(* A save changes the preferences of no event whose boxes the user has     *)
(* left alone, unless the page shows something else than what is stored    *)
(* (NotificationPreferences.js, authController.js:                         *)
(* updateNotificationPreferences).                                         *)
THEOREM NothingElseIsSaved ==
    ASSUME Profile!ProfileAssumption
    PROVE  Profile!Spec => OnlyClickedChanges
<1> DEFINE Clicked ==
      \A e \in Events : prefs'[e] # prefs[e] =>
          \E p \in Pages : /\ pc[p] = "save" /\ pc'[p] = "form"
                           /\ e \in touched[p] \/ p \in blind
<1>1. ProfileInv /\ [Profile!Next]_Profile!vars => [Clicked]_<<prefs, pc>>
  <2> SUFFICES ASSUME ProfileInv, [Profile!Next]_Profile!vars, NEW e \in Events,
                      prefs'[e] # prefs[e]
               PROVE  \E p \in Pages : /\ pc[p] = "save" /\ pc'[p] = "form"
                                       /\ e \in touched[p] \/ p \in blind
    OBVIOUS
  <2>1. PICK p \in Pages : pc[p] = "save" /\ pc'[p] = "form" /\ prefs' = form[p]
    BY OnlyStoreChanges
  <2>2. p \notin blind => e \in touched[p]
    BY <2>1 DEF ProfileInv, FormInv
  <2> QED
    BY <2>1, <2>2
<1> QED
  BY <1>1, ProfileInvariance, PTL DEF Profile!Spec, OnlyClickedChanges
=============================================================================
