---------------------------- MODULE AccountState ----------------------------
(***************************************************************************)
(* One account, with the mail and the browser of its owner, and what the   *)
(* handlers and pages of Account promise about it.                         *)
(***************************************************************************)
EXTENDS Integers

CONSTANTS
    AuthRequests,
    MaxSecrets    \* bound: codes and links made

VARIABLES
    user,        \* the User document
    wallet,      \* does its Wallet document exist?
    made,        \* codes and links made so far
    expired,     \* those whose time is over
    inbox,       \* the newest code and the newest link delivered
    kind,        \* what a request asks for
    secret,      \* the code or link it presents or has made
    point,       \* the await it stands at
    page,        \* the page the browser shows
    session,     \* what AuthContext and localStorage know
    waits,       \* requests whose page still shows them as under way
    used,        \* history: times a link has reset the password
    crossed      \* history: kinds of mail whose requests overlapped or whose
                 \* delivery failed

Secrets == 1 .. MaxSecrets
NoSecret == 0

-----------------------------------------------------------------------------
(* What the account promises *)

\* "checks the OTP against its SHA-256 hash and expiry timestamp, then
\* creates the wallet and issues the first token pair atomically"
\* (README.md:357): it is no transaction, and still nobody is signed in whose
\* account is not verified, and no account is verified without its wallet.
SignedInIsReady ==
    /\ session = "signedIn" => user.verified
    /\ user.verified => user.exists /\ wallet

Sending(m) == {r \in AuthRequests :
                   point[r] \in IF m = "otp" THEN {"sendCode"}
                                ELSE {"saveLink", "sendLink", "savePassword"}}

\* As long as the requests for a kind of mail do not overlap and none fails
\* to be delivered, the newest mail is the one that works: an unverified user
\* holds the code the document expects, whatever page asked for it, and a
\* link works until it has been used.
NewestMailWorks ==
    /\ "otp" \notin crossed /\ Sending("otp") = {} /\ ~user.verified => inbox["otp"] = user.otp
    /\ "link" \notin crossed /\ Sending("link") = {} /\ inbox["link"] # NoSecret =>
           user.link = (IF used[inbox["link"]] = 0 THEN inbox["link"] ELSE NoSecret)

\* A link sets a password once, unless requests for it overlap.
LinkIsUsedOnce == "link" \notin crossed => \A s \in Secrets : used[s] <= 1
=============================================================================
