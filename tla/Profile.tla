------------------------------- MODULE Profile -------------------------------
(***************************************************************************)
(* What changes one user's document once the account is in use, and who    *)
(* acts on it: the KYC tier, which submitKYC                               *)
(* (backend/controllers/authController.js), the admins' page KYCQueue and  *)
(* reviewKYC (backend/controllers/adminController.js) raise, and the       *)
(* notification preferences, which the page NotificationPreferences saves  *)
(* and the worker of the notification queue                                *)
(* (backend/workers/notificationWorker.js) reads before it sends a mail.   *)
(*                                                                         *)
(* A preference that is not stored counts as on, and its box is shown so.  *)
(* The state and the promises are in ProfileState.                         *)
(***************************************************************************)
EXTENDS ProfileState

CONSTANTS
    MaxCalls,     \* bound: submits, reviews, clicks, saves and events
    MaxMishaps    \* bound: failed calls, but those of an attempt

ASSUME ProfileAssumption ==
    /\ Submits \cap (Admins \cup Pages \cup Jobs) = {}
    /\ Admins \cap (Pages \cup Jobs) = {} /\ Pages \cap Jobs = {}
    /\ MaxTries \in Nat \ {0} /\ MaxCalls \in Nat /\ MaxMishaps \in Nat

VARIABLES calls, mishaps

kycVars == <<tier, docs, seen, work, granted, irregular>>
prefVars == <<prefs, form, touched, blind>>
jobVars == <<topic, tries, stalls, stage, mails, unheard>>
heeded == <<muted, wanted>>
vars == <<kycVars, prefVars, jobVars, heeded, pc, calls, mishaps>>

Actors == Submits \cup Admins \cup Pages \cup Jobs
Documents == [status : {"pending", "approved", "rejected"}, target : {1, 2}]
\* Nothing reads the value of inApp: is it set at all?
Boxes == [email : {"unset", "on", "off"}, inApp : BOOLEAN]
Points == {"idle", "look", "create", "over", "find", "save", "tier", "loading", "form",
           "waiting", "active", "completed", "failed", "lost"}
Attempts == 0 .. 2
Stages == {"none", "lookup", "send", "done"}

TypeOK ==
    /\ tier \in 0 .. 2
    /\ prefs \in [Events -> Boxes]
    /\ docs \in Seq(Documents)
    /\ pc \in [Actors -> Points]
    /\ seen \in [Submits -> 0 .. 2]
    /\ work \in [Admins -> [doc : Nat, verdict : {"approved", "rejected"}]]
    /\ form \in [Pages -> [Events -> Boxes]]
    /\ touched \in [Pages -> SUBSET Events] /\ blind \subseteq Pages
    /\ topic \in [Jobs -> Events]
    /\ tries \in [Jobs -> 0 .. MaxTries + 1] /\ stalls \in [Jobs -> 0 .. 2]
    /\ stage \in [Jobs -> [Attempts -> Stages]]
    /\ mails \in [Jobs -> Nat] /\ unheard \in [Jobs -> Nat]
    /\ granted \subseteq DOMAIN docs /\ irregular \subseteq DOMAIN docs
    /\ muted \subseteq Jobs /\ wanted \subseteq Jobs
    /\ calls \in 0 .. MaxCalls /\ mishaps \in 0 .. MaxMishaps

On == [email |-> "on", inApp |-> TRUE]
Unset == [email |-> "unset", inApp |-> FALSE]

Init ==
    /\ tier = 0 /\ docs = <<>>
    /\ prefs = [e \in Events |-> On]
    /\ pc = [a \in Actors |-> "idle"]
    /\ seen = [s \in Submits |-> 0]
    /\ work = [a \in Admins |-> [doc |-> 0, verdict |-> "rejected"]]
    /\ form = [p \in Pages |-> prefs] /\ touched = [p \in Pages |-> {}] /\ blind = {}
    /\ topic \in [Jobs -> Events]
    /\ tries = [j \in Jobs |-> 0] /\ stalls = [j \in Jobs |-> 0]
    /\ stage = [j \in Jobs |-> [k \in Attempts |-> "none"]]
    /\ mails = [j \in Jobs |-> 0] /\ unheard = [j \in Jobs |-> 0]
    /\ granted = {} /\ irregular = {} /\ muted = {} /\ wanted = {}
    /\ calls = 0 /\ mishaps = 0

-----------------------------------------------------------------------------
(* Helpers *)

At(a, p) == pc[a] = p
Goto(a, p) == pc' = [pc EXCEPT ![a] = p]
Step(a, from, to) == At(a, from) /\ Goto(a, to)

Called == calls < MaxCalls /\ calls' = calls + 1 /\ UNCHANGED mishaps
Within == UNCHANGED <<calls, mishaps>>
Mishap == mishaps < MaxMishaps /\ mishaps' = mishaps + 1 /\ UNCHANGED calls

Pending == {d \in DOMAIN docs : docs[d].status = "pending"}

-----------------------------------------------------------------------------
(* KYC *)

Kyc == UNCHANGED <<prefVars, jobVars, heeded>>

\* handleKycSubmit; authenticateToken reads the user.
Submit(s) ==
    /\ Step(s, "idle", IF tier >= 2 THEN "over" ELSE "look") /\ Called
    /\ seen' = [seen EXCEPT ![s] = tier]
    /\ UNCHANGED <<tier, docs, work, granted, irregular>> /\ Kyc

Look(s) ==
    /\ Step(s, "look", IF Pending # {} THEN "over" ELSE "create") /\ Within
    /\ UNCHANGED kycVars /\ Kyc

Create(s) ==
    /\ Step(s, "create", "over") /\ Within
    /\ docs' = Append(docs, [status |-> "pending", target |-> seen[s] + 1])
    /\ irregular' = irregular \cup
           {d \in {Len(docs) + 1} : seen[s] # tier \/ Pending # {} \/ Granting # {}}
    /\ UNCHANGED <<tier, seen, work, granted>> /\ Kyc

\* approve or submitReject of a submission that getKYCQueue has listed, be it
\* long ago.
Review(a) ==
    /\ Step(a, "idle", "find") /\ Called
    /\ \E d \in DOMAIN docs, v \in {"approved", "rejected"} :
        work' = [work EXCEPT ![a] = [doc |-> d, verdict |-> v]]
    /\ UNCHANGED <<tier, docs, seen, granted, irregular>> /\ Kyc

\* A document that is not pending is refused.
Find(a) ==
    /\ Step(a, "find", IF work[a].doc \in Pending THEN "save" ELSE "idle") /\ Within
    /\ UNCHANGED kycVars /\ Kyc

\* doc.save() writes the verdict over whatever the status is by now.
SaveVerdict(a) ==
    LET d == work[a].doc
        v == work[a].verdict
        others == {b \in Admins \ {a} : pc[b] \in {"save", "tier"} /\ work[b].doc = d}
    IN
    /\ Step(a, "save", IF v = "approved" THEN "tier" ELSE "idle") /\ Within
    /\ docs' = [docs EXCEPT ![d].status = v]
    /\ granted' = IF v = "approved" THEN granted \cup {d} ELSE granted
    /\ irregular' = IF others # {} THEN irregular \cup {d} ELSE irregular
    /\ UNCHANGED <<tier, seen, work>> /\ Kyc

\* Mutant: the tier is incremented.
RaiseByOne(a) ==
    /\ Step(a, "tier", "idle") /\ Within
    /\ tier' = IF tier < 2 THEN tier + 1 ELSE tier
    /\ UNCHANGED <<docs, seen, work, granted, irregular>> /\ Kyc

SaveTier(a) ==
    /\ Step(a, "tier", "idle") /\ Within
    /\ tier' = docs[work[a].doc].target
    /\ UNCHANGED <<docs, seen, work, granted, irregular>> /\ Kyc

\* A call fails; after the verdict was saved nobody can repeat the rest.
FailKyc(a) ==
    /\ pc[a] \in {"look", "create", "find", "save", "tier"} /\ Mishap
    /\ Goto(a, IF a \in Submits THEN "over" ELSE "idle")
    /\ irregular' = IF At(a, "tier") THEN irregular \cup {work[a].doc} ELSE irregular
    /\ UNCHANGED <<tier, docs, seen, work, granted>> /\ Kyc

-----------------------------------------------------------------------------
(* NotificationPreferences *)

Prefs == UNCHANGED <<kycVars, jobVars>>
Show(p, f) ==
    /\ form' = [form EXCEPT ![p] = f]
    /\ touched' = [touched EXCEPT ![p] = {}]

OpenPage(p) ==
    /\ Step(p, "idle", "loading") /\ Within
    /\ UNCHANGED <<prefVars, heeded>> /\ Prefs

\* Mutant: the page does not wait for what is stored.
ShowDefaults(p) ==
    /\ Step(p, "loading", "form") /\ Within
    /\ Show(p, [e \in Events |-> On]) /\ blind' = blind \ {p}
    /\ UNCHANGED <<prefs, heeded>> /\ Prefs

ShowStored(p) ==
    /\ Step(p, "loading", "form") /\ Within
    /\ Show(p, prefs) /\ blind' = blind \ {p}
    /\ UNCHANGED <<prefs, heeded>> /\ Prefs

\* fetchPreferences fails: the form is shown all the same, with nothing set.
ShowNothing(p) ==
    /\ Step(p, "loading", "form") /\ Mishap
    /\ Show(p, [e \in Events |-> Unset]) /\ blind' = blind \cup {p}
    /\ UNCHANGED <<prefs, heeded>> /\ Prefs

\* A click on a box negates what is set, and what is not set was shown as on.
Click(box, channel) ==
    IF channel = "inApp" THEN [box EXCEPT !.inApp = TRUE]
    ELSE [box EXCEPT !.email = IF @ = "on" THEN "off" ELSE "on"]

ClickBox(p) ==
    /\ At(p, "form") /\ Called /\ UNCHANGED pc
    /\ \E e \in Events, channel \in {"email", "inApp"} :
        /\ form' = [form EXCEPT ![p][e] = Click(@, channel)]
        /\ touched' = [touched EXCEPT ![p] = @ \cup {e}]
    /\ UNCHANGED <<prefs, blind, heeded>> /\ Prefs

Save(p) ==
    /\ Step(p, "form", "save") /\ Called
    /\ UNCHANGED <<prefVars, heeded>> /\ Prefs

\* validateNotificationPreferences: some event, and both channels of each.
Valid(f) ==
    /\ \E e \in Events : f[e] # Unset
    /\ \A e \in Events : f[e] # Unset => f[e].email # "unset" /\ f[e].inApp

\* updateNotificationPreferences replaces the whole, and the page shows it.
Store(p) ==
    /\ Step(p, "save", "form") /\ Within
    /\ IF Valid(form[p])
       THEN /\ prefs' = form[p] /\ Show(p, form[p])
            /\ blind' = (blind \cup Pages) \ {p}
            /\ muted' = {j \in muted : form[p][topic[j]].email = "off"}
            /\ wanted' = {j \in wanted : form[p][topic[j]].email # "off"}
       ELSE UNCHANGED <<prefVars, heeded>>
    /\ Prefs

\* The call fails; or it is only its answer.
FailStore(p) ==
    /\ Step(p, "save", "form") /\ Mishap
    /\ UNCHANGED <<prefVars, heeded>> /\ Prefs

-----------------------------------------------------------------------------
(* The notification queue and its worker *)

Mail == UNCHANGED <<kycVars, prefVars, topic>>
Off(j) == prefs[topic[j]].email = "off"
Move(j, k, from, to) ==
    /\ stage[j][k] = from
    /\ stage' = [stage EXCEPT ![j][k] = to]

\* enqueueNotification: an event happens; a queue that fails is ignored, and
\* there is no job then.
Enqueue(j) ==
    /\ \/ Step(j, "idle", "waiting") /\ Called
       \/ Step(j, "idle", "lost") /\ calls < MaxCalls /\ Mishap
    /\ muted' = IF Off(j) THEN muted \cup {j} ELSE muted
    /\ wanted' = IF Off(j) THEN wanted ELSE wanted \cup {j}
    /\ UNCHANGED <<tries, stalls, stage, mails, unheard>> /\ Mail

Start(j) ==
    /\ Step(j, "waiting", "active") /\ Within
    /\ tries' = [tries EXCEPT ![j] = @ + 1]
    /\ Move(j, 0, "none", "lookup")
    /\ UNCHANGED <<stalls, mails, unheard, heeded>> /\ Mail

\* Mutant: the handler asks for no preference, like PAYMENT_SUCCESS.
LookupUngated(j, k) ==
    /\ Move(j, k, "lookup", "send") /\ UNCHANGED pc /\ Within
    /\ UNCHANGED <<tries, stalls, mails, unheard, heeded>> /\ Mail

\* isEmailEnabled: off, and the handler returns.
Lookup(j, k) ==
    /\ Move(j, k, "lookup", IF Off(j) THEN "done" ELSE "send") /\ UNCHANGED pc /\ Within
    /\ UNCHANGED <<tries, stalls, mails, unheard, heeded>> /\ Mail

Send(j, k) ==
    /\ Move(j, k, "send", "done") /\ UNCHANGED pc /\ Within
    /\ mails' = [mails EXCEPT ![j] = @ + 1]
    /\ UNCHANGED <<tries, stalls, unheard, heeded>> /\ Mail

\* Only an attempt with the lock on its job moves it on.
Return(j, k) ==
    /\ Move(j, k, "done", "none") /\ Within
    /\ IF k = 0 THEN Goto(j, "completed") ELSE UNCHANGED pc
    /\ UNCHANGED <<tries, stalls, mails, unheard, heeded>> /\ Mail

\* The lookup or the sending fails, be it after the mail was out: the error is
\* thrown on to BullMQ, which does not count stalled attempts as tries.
Throw(j, k) ==
    /\ \/ stage[j][k] \in {"lookup", "send"} /\ UNCHANGED <<mails, unheard>>
       \/ /\ stage[j][k] = "send"
          /\ mails' = [mails EXCEPT ![j] = @ + 1]
          /\ unheard' = [unheard EXCEPT ![j] = @ + 1]
    /\ stage' = [stage EXCEPT ![j][k] = "none"] /\ Within
    /\ IF k = 0
       THEN Goto(j, IF tries[j] - stalls[j] < MaxTries THEN "waiting" ELSE "failed")
       ELSE UNCHANGED pc
    /\ UNCHANGED <<tries, stalls, heeded>> /\ Mail

\* A job counts as stalled: given back, and the second time failed.
Stalled(js) ==
    /\ js # {}
    /\ stalls' = [j \in Jobs |-> IF j \in js THEN stalls[j] + 1 ELSE stalls[j]]
    /\ pc' = [a \in Actors |-> IF a \notin js THEN pc[a]
                               ELSE IF stalls[a] = 0 THEN "waiting" ELSE "failed"]
    /\ Within
    /\ UNCHANGED <<tries, mails, unheard, heeded>> /\ Mail

\* The worker dies, before, between or after its mails, and is started again.
Die ==
    /\ Stalled({j \in Jobs : At(j, "active")})
    /\ stage' = [j \in Jobs |-> [k \in Attempts |-> "none"]]

\* A live worker does not renew its lock on a job for 30 seconds: the attempt
\* goes on without it.
Lapse(j) ==
    /\ At(j, "active") /\ Stalled({j})
    /\ stage' = [stage EXCEPT ![j][stalls[j] + 1] = stage[j][0], ![j][0] = "none"]

Next ==
    \/ \E s \in Submits : Submit(s) \/ Look(s) \/ Create(s)
    \/ \E a \in Admins : Review(a) \/ Find(a) \/ SaveVerdict(a) \/ SaveTier(a)
    \/ \E a \in Submits \cup Admins : FailKyc(a)
    \/ \E p \in Pages : \/ OpenPage(p) \/ ShowStored(p) \/ ShowNothing(p) \/ ClickBox(p)
                        \/ Save(p) \/ Store(p) \/ FailStore(p)
    \/ \E j \in Jobs : Enqueue(j) \/ Start(j) \/ Lapse(j)
    \/ \E j \in Jobs, k \in Attempts :
           Lookup(j, k) \/ Send(j, k) \/ Return(j, k) \/ Throw(j, k)
    \/ Die

Spec == Init /\ [][Next]_vars
=============================================================================
