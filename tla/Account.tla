------------------------------- MODULE Account -------------------------------
(***************************************************************************)
(* How an account comes to be used: register, verifyOTP, resendOTP, login, *)
(* forgotPassword and resetPassword (backend/controllers/authController.js)*)
(* on one user document, each a read, a check and a save of the paths it   *)
(* changed, and the browser of its owner: the pages Register, VerifyOTP,   *)
(* Login, ForgotPassword and ResetPassword, AuthContext's reducer and      *)
(* ProtectedRoute.  A page may be left before its request is answered.     *)
(*                                                                         *)
(* One-time codes and reset links are numbered in the order they are made. *)
(* The state and the promises are in AccountState; tokens are the matter   *)
(* of Session.                                                             *)
(***************************************************************************)
EXTENDS AccountState, FiniteSets

CONSTANT MaxMishaps    \* bound: calls that fail, mail included

ASSUME AccountAssumption ==
    MaxSecrets \in Nat /\ MaxMishaps \in Nat

VARIABLE mishaps

document == <<user, wallet, made, inbox>>
requestVars == <<kind, secret, point>>
browser == <<page, session, waits>>
vars == <<document, expired, requestVars, browser, used, crossed, mishaps>>

Mails == {"otp", "link"}
Kinds == {"register", "resend", "login", "verify", "forgot", "reset"}
Pages == {"signup", "signin", "verify", "forgot", "reset", "dashboard"}
Points == {"idle", "find", "create", "issue", "sendCode", "findWallet", "openWallet",
           "saveVerified", "token", "saveLink", "sendLink", "savePassword",
           "ok", "pending", "refused", "over"}

TypeOK ==
    /\ user \in [exists : BOOLEAN, verified : BOOLEAN,
                 otp : Secrets \cup {NoSecret}, link : Secrets \cup {NoSecret}]
    /\ wallet \in BOOLEAN
    /\ made \in 0 .. MaxSecrets /\ expired \subseteq Secrets
    /\ inbox \in [Mails -> Secrets \cup {NoSecret}]
    /\ kind \in [AuthRequests -> Kinds \cup {"none"}]
    /\ secret \in [AuthRequests -> Secrets \cup {NoSecret}]
    /\ point \in [AuthRequests -> Points]
    /\ page \in Pages /\ session \in {"none", "pending", "signedIn"}
    /\ waits \subseteq {r \in AuthRequests : point[r] \notin {"idle", "over"}}
    /\ used \in [Secrets -> Nat]
    /\ crossed \subseteq Mails
    /\ mishaps \in 0 .. MaxMishaps

\* A visitor, or somebody who has registered before, and perhaps verified.
Init ==
    /\ \E exists, verified \in BOOLEAN :
        /\ verified => exists
        /\ user = [exists |-> exists, verified |-> verified, otp |-> NoSecret, link |-> NoSecret]
        /\ wallet = verified
    /\ made = 0 /\ expired = {}
    /\ inbox = [m \in Mails |-> NoSecret]
    /\ kind = [r \in AuthRequests |-> "none"]
    /\ secret = [r \in AuthRequests |-> NoSecret]
    /\ point = [r \in AuthRequests |-> "idle"]
    /\ page = "signup" /\ session = "none" /\ waits = {}
    /\ used = [s \in Secrets |-> 0]
    /\ crossed = {} /\ mishaps = 0

-----------------------------------------------------------------------------
(* Helpers *)

At(r, p) == point[r] = p
Goto(r, p) == point' = [point EXCEPT ![r] = p]
Others(r, points) == {q \in AuthRequests \ {r} : point[q] \in points}
\* A one-time code that verifyOTP, a link that resetPassword accepts.
Good(s) == s # NoSecret /\ s \notin expired

\* The browser goes to a page: the requests of the page it leaves go on
\* without it.
Show(p) ==
    /\ page' = p
    /\ waits' = IF p = page THEN waits ELSE {}

-----------------------------------------------------------------------------
(* The pages *)

\* A form is submitted; its button is disabled until the answer.
Submit(r, k, p, s) ==
    /\ point[r] = "idle" /\ page = p
    /\ ~ \E q \in waits : kind[q] = k
    /\ kind' = [kind EXCEPT ![r] = k]
    /\ secret' = [secret EXCEPT ![r] = s]
    /\ Goto(r, "find")
    /\ waits' = waits \cup {r}
    /\ UNCHANGED <<document, expired, page, session, used, crossed, mishaps>>

SubmitSignup(r) == Submit(r, "register", "signup", NoSecret)
SubmitSignin(r) == session # "signedIn" /\ Submit(r, "login", "signin", NoSecret)
SubmitForgot(r) == Submit(r, "forgot", "forgot", NoSecret)
\* The link in a mail leads to ResetPassword, the code is typed in.
SubmitReset(r) == Submit(r, "reset", "reset", inbox["link"])
SubmitCode(r) ==
    /\ inbox["otp"] # NoSecret
    /\ Submit(r, "verify", "verify", inbox["otp"])
\* Its countdown of a minute, which starts with the page and with a new code,
\* is left out: any time may be late enough.
AskAgain(r) == Submit(r, "resend", "verify", NoSecret)

\* The user goes to another page; ProtectedRoute lets nobody on who is not
\* signed in, and Register, Login and VerifyOTP send on whoever is.
Guard(p) ==
    IF p = "dashboard" THEN session = "signedIn"
    ELSE p \in {"signup", "signin", "verify"} => session # "signedIn"

Go(p) ==
    /\ p # page /\ Guard(p)
    /\ Show(p)
    /\ UNCHANGED <<document, expired, requestVars, session, used, crossed, mishaps>>

-----------------------------------------------------------------------------
(* The handlers *)

Quiet == UNCHANGED <<expired, browser, used, crossed, mishaps>>
Step(r, from, to) == At(r, from) /\ Goto(r, to) /\ UNCHANGED kind

\* findOne and the checks of a handler, which lead on or to a refusal.
Look(r, k, next) ==
    /\ kind[r] = k /\ At(r, "find")
    /\ Goto(r, next)
    /\ UNCHANGED <<document, kind, secret>> /\ Quiet

FindForRegister(r) == Look(r, "register", IF user.exists THEN "refused" ELSE "create")

FindForResend(r) ==
    Look(r, "resend", IF user.exists /\ ~user.verified THEN "issue" ELSE "refused")

\* A login may also be refused for its password.
FindForLogin(r) ==
    \/ Look(r, "login", "refused")
    \/ user.exists /\ Look(r, "login", IF user.verified THEN "token" ELSE "issue")

FindForVerify(r) ==
    Look(r, "verify", IF ~user.verified /\ Good(user.otp) /\ user.otp = secret[r]
                      THEN "findWallet" ELSE "refused")

FindForForgot(r) == Look(r, "forgot", IF user.exists THEN "saveLink" ELSE "refused")

FindForReset(r) ==
    Look(r, "reset", IF Good(user.link) /\ user.link = secret[r]
                     THEN "savePassword" ELSE "refused")

\* register: the user is saved, unless one with this email has been, which
\* the unique index refuses, and saved again with its QR code.
Create(r) ==
    /\ At(r, "create")
    /\ IF user.exists THEN Goto(r, "refused") /\ UNCHANGED user
       ELSE Goto(r, "issue") /\ user' = [user EXCEPT !.exists = TRUE]
    /\ UNCHANGED <<wallet, made, inbox, kind, secret>> /\ Quiet

New(r) ==
    /\ made < MaxSecrets /\ made' = made + 1
    /\ secret' = [secret EXCEPT ![r] = made + 1]

\* Mutant: the code is sent and not saved.
IssueUnsaved(r) ==
    /\ Step(r, "issue", "sendCode") /\ New(r)
    /\ UNCHANGED <<user, wallet, inbox, expired, browser, used, crossed, mishaps>>

\* issueVerificationOTP saves the new code over the old one ...
Issue(r) ==
    /\ Step(r, "issue", "sendCode") /\ New(r)
    /\ user' = [user EXCEPT !.otp = made + 1]
    /\ crossed' = IF Others(r, {"issue", "sendCode"}) # {} THEN crossed \cup {"otp"} ELSE crossed
    /\ UNCHANGED <<wallet, inbox, expired, browser, used, mishaps>>

\* ... and sends it.
SendCode(r) ==
    /\ Step(r, "sendCode", IF kind[r] = "login" THEN "pending" ELSE "ok")
    /\ inbox' = [inbox EXCEPT !["otp"] = secret[r]]
    /\ UNCHANGED <<user, wallet, made, secret>> /\ Quiet

\* verifyOTP: the wallet, which a unique index keeps single, comes first.
FindWallet(r) ==
    /\ Step(r, "findWallet", IF wallet THEN "saveVerified" ELSE "openWallet")
    /\ UNCHANGED <<document, secret>> /\ Quiet

OpenWallet(r) ==
    /\ Step(r, "openWallet", IF wallet THEN "refused" ELSE "saveVerified")
    /\ wallet' = TRUE
    /\ UNCHANGED <<user, made, inbox, secret>> /\ Quiet

SaveVerified(r) ==
    /\ Step(r, "saveVerified", "ok")
    /\ user' = [user EXCEPT !.verified = TRUE, !.otp = NoSecret]
    /\ UNCHANGED <<wallet, made, inbox, secret>> /\ Quiet

\* login of a verified user.
IssueToken(r) ==
    /\ Step(r, "token", "ok")
    /\ UNCHANGED <<document, secret>> /\ Quiet

\* forgotPassword saves the link's hash and sends the link.
SaveLink(r) ==
    /\ Step(r, "saveLink", "sendLink") /\ New(r)
    /\ user' = [user EXCEPT !.link = made + 1]
    /\ crossed' = IF Others(r, {"saveLink", "sendLink", "savePassword"}) # {}
                  THEN crossed \cup {"link"} ELSE crossed
    /\ UNCHANGED <<wallet, inbox, expired, browser, used, mishaps>>

SendLink(r) ==
    /\ Step(r, "sendLink", "ok")
    /\ inbox' = [inbox EXCEPT !["link"] = secret[r]]
    /\ UNCHANGED <<user, wallet, made, secret>> /\ Quiet

Reset(r, link) ==
    /\ Step(r, "savePassword", "ok")
    /\ user' = [user EXCEPT !.link = link]
    /\ used' = [used EXCEPT ![secret[r]] = @ + 1]
    /\ crossed' = IF Others(r, {"savePassword", "sendLink"}) # {}
                  THEN crossed \cup {"link"} ELSE crossed
    /\ UNCHANGED <<wallet, made, inbox, secret, expired, browser, mishaps>>

\* Mutant: the link stays good.
SavePasswordOnly(r) == Reset(r, user.link)

\* resetPassword: the new password, and no link.
SavePassword(r) == Reset(r, NoSecret)

\* A code's ten minutes, or a link's fifteen, are over.
Expire(s) ==
    /\ s \in {user.otp, user.link} /\ s \notin expired
    /\ expired' = expired \cup {s}
    /\ UNCHANGED <<document, requestVars, browser, used, crossed, mishaps>>

\* A database call or the mail fails, at any await, or the answer is lost.
Fail(r) ==
    /\ mishaps < MaxMishaps /\ mishaps' = mishaps + 1
    /\ point[r] \notin {"idle", "refused", "over"}
    /\ crossed' = crossed \cup (IF At(r, "sendCode") THEN {"otp"}
                                ELSE IF At(r, "sendLink") THEN {"link"} ELSE {})
    /\ Goto(r, "refused")
    /\ UNCHANGED <<document, kind, secret, expired, browser, used>>

-----------------------------------------------------------------------------
(* The answers, which AuthContext takes though the page may be gone *)

Answered(r, k, p) ==
    /\ kind[r] = k /\ At(r, p)
    /\ Goto(r, "over")
    /\ kind' = [kind EXCEPT ![r] = "none"]
    /\ secret' = [secret EXCEPT ![r] = NoSecret]
    /\ UNCHANGED <<document, expired, used, crossed, mishaps>>

Shown(r) == waits' = waits \ {r} /\ UNCHANGED page

AnswerRegister(r) ==
    Answered(r, "register", "ok") /\ Show("verify") /\ UNCHANGED session

\* Mutant: whoever signs in is let in.
AdmitUnverified(r) ==
    Answered(r, "login", "pending") /\ session' = "signedIn" /\ Show("dashboard")

\* REQUIRES_VERIFICATION: the stored tokens are removed.
AnswerUnverified(r) ==
    Answered(r, "login", "pending") /\ session' = "pending" /\ Show("verify")

\* LOGIN_SUCCESS.
AnswerLogin(r) ==
    Answered(r, "login", "ok") /\ session' = "signedIn" /\ Show("dashboard")

AnswerVerify(r) ==
    Answered(r, "verify", "ok") /\ session' = "signedIn" /\ Show("dashboard")

AnswerResend(r) == Answered(r, "resend", "ok") /\ Shown(r) /\ UNCHANGED session
AnswerForgot(r) == Answered(r, "forgot", "ok") /\ Shown(r) /\ UNCHANGED session
AnswerReset(r) == Answered(r, "reset", "ok") /\ Show("signin") /\ UNCHANGED session
AnswerError(r) == Answered(r, kind[r], "refused") /\ Shown(r) /\ UNCHANGED session

Ask(r) ==
    \/ SubmitSignup(r) \/ SubmitSignin(r) \/ SubmitForgot(r)
    \/ SubmitReset(r) \/ SubmitCode(r) \/ AskAgain(r)

Handle(r) ==
    \/ FindForRegister(r) \/ FindForResend(r) \/ FindForLogin(r)
    \/ FindForVerify(r) \/ FindForForgot(r) \/ FindForReset(r)
    \/ Create(r) \/ Issue(r) \/ SendCode(r) \/ FindWallet(r)
    \/ OpenWallet(r) \/ SaveVerified(r) \/ IssueToken(r) \/ SaveLink(r) \/ SendLink(r)
    \/ SavePassword(r) \/ Fail(r)

Answer(r) ==
    \/ AnswerRegister(r) \/ AnswerUnverified(r) \/ AnswerLogin(r) \/ AnswerVerify(r)
    \/ AnswerResend(r) \/ AnswerForgot(r) \/ AnswerReset(r) \/ AnswerError(r)

Next ==
    \/ \E r \in AuthRequests : Ask(r) \/ Handle(r) \/ Answer(r)
    \/ \E p \in Pages : Go(p)
    \/ \E s \in Secrets : Expire(s)

Spec == Init /\ [][Next]_vars
=============================================================================
