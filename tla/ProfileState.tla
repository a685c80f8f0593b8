---------------------------- MODULE ProfileState ----------------------------
(***************************************************************************)
(* One user's document once the account is in use, with its submissions,   *)
(* its preferences and its mails, and what everybody in Profile promises   *)
(* about them.                                                             *)
(***************************************************************************)
EXTENDS Integers, Sequences, FiniteSets

CONSTANTS
    Submits,      \* requests of submitKYC
    Admins,       \* admins with the page KYCQueue open
    Pages,        \* tabs with the page NotificationPreferences
    Jobs,         \* notification jobs
    Events,       \* notification types
    MaxTries      \* attempts of a job

VARIABLES
    tier,        \* User.kycTier
    prefs,       \* User.notificationPreferences
    docs,        \* the user's KYCDocuments, oldest first
    pc,          \* the await a request, a page or an attempt stands at
    seen,        \* the tier a submit has read
    work,        \* the document an admin reviews, and the verdict
    form,        \* the preferences a page shows
    touched,     \* history: events whose boxes it has clicked since it showed
                 \* what is stored
    blind,       \* history: pages that show something else: the load failed,
                 \* or another page has saved since
    topic,       \* a job's event
    tries,       \* attempts it has begun
    stalls,      \* times it has counted as stalled
    stage,       \* where its attempts stand: number 0 has the lock on it,
                 \* number n has lost that lock when the job stalled the nth time
    mails,       \* mails sent for it
    granted,     \* history: documents that were ever approved
    irregular,   \* history: documents created or reviewed beside another
                 \* submit or review, or approved by one that stopped half way
    unheard,     \* history: mails of a job whose sending failed all the same
    muted,       \* history: jobs whose event has been off since it happened
    wanted       \* history: jobs whose event has been on since it happened

\* The reviews that have saved an approval, and not yet its tier.
Granting == {a \in Admins : pc[a] = "tier"}

-----------------------------------------------------------------------------
(* What is promised *)

\* "Admin approves or rejects" and the tier follows (README.md:429).  However
\* submits and reviews race, no tier is skipped: each up to the user's has
\* been granted for a document that asked for it.  As long as none was
\* created or reviewed beside another, or approved by a review that stopped
\* half way, the tier is the number of approved documents.
TierMatchesVerdicts ==
    /\ \A t \in 1 .. tier : \E d \in granted : docs[d].target = t
    /\ irregular = {} /\ Granting = {} =>
           tier = Cardinality({d \in DOMAIN docs : docs[d].status = "approved"})

\* A save changes the preferences of no event whose boxes the user has left
\* alone, unless the page shows something else than what is stored.
OnlyClickedChanges ==
    [][\A e \in Events : prefs'[e] # prefs[e] =>
           \E p \in Pages : /\ pc[p] = "save" /\ pc'[p] = "form"
                            /\ e \in touched[p] \/ p \in blind]_<<prefs, pc>>

\* "Failed jobs retry ... After 3 failures" they are given up (README.md:779).
\* A job sends one mail, and at most one more for each whose sending failed
\* though it was out and for each time it counted as stalled, dead, slow and
\* repeated attempts together.  It sends none about an event that has been off
\* since before it happened, and is not completed without one if the event has
\* been on; it fails only after all of its tries, or the second stall.
MailedOnce ==
    \A j \in Jobs :
        /\ mails[j] <= 1 + unheard[j] + stalls[j]
        /\ j \in muted => mails[j] = 0
        /\ pc[j] = "completed" /\ j \in wanted => mails[j] > 0
        /\ pc[j] = "failed" => stalls[j] = 2 \/ tries[j] = MaxTries + stalls[j]
=============================================================================
