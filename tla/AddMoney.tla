------------------------------- MODULE AddMoney -------------------------------
(***************************************************************************)
(* Topping up one user's wallet: the page AddMoney                         *)
(* (frontend/src/pages/AddMoney.js) and createPaymentOrder                 *)
(* (backend/controllers/paymentController.js), which credits a mock        *)
(* payment at once, in a MongoDB transaction or without one, and opens an  *)
(* order for a Razorpay payment.  What becomes of a paid order is the      *)
(* matter of Payment; the state and the promises are in AddMoneyState.     *)
(*                                                                         *)
(* The page makes an idempotency key for every submit; other clients share *)
(* one, or send none, and every document without a key has the same entry  *)
(* in the unique index on {idempotencyUserId, idempotencyKey}.             *)
(***************************************************************************)
EXTENDS AddMoneyState

CONSTANTS
    Deployments,   \* of MongoDB: which of "replica", "standalone" it may be
    Configured,    \* does the server have Razorpay keys?
    MaxMishaps     \* bound: failed calls and lost answers

ASSUME AddMoneyAssumption ==
    /\ Shared \notin Requests /\ NoKey \notin Requests /\ Shared # NoKey
    /\ Nobody \notin Requests
    /\ Deployments \subseteq {"replica", "standalone"} /\ Configured \in BOOLEAN
    /\ MaxMishaps \in Nat

VARIABLE mishaps

dataVars == <<mongo, doc, credits, made, collected>>
attemptVars == <<plain, overtaken>>
pageVars == <<page, methods, busy, dropped, left>>
vars == <<dataVars, key, gateway, point, attemptVars, order, answer, pageVars, crossed, mishaps>>

Orders == Nat \ {0}
\* Any other gateway is refused and touches nothing.
Gateways == {"MOCK", "RAZORPAY"}
Statuses == {"absent", "PENDING", "SUCCESS", "FAILED"}
Points == {"idle", "find", "begin", "credit", "record", "commit", "order", "recordOrder",
           "reply", "checkout", "verify", "over"}

TypeOK ==
    /\ mongo \in Deployments
    /\ doc \in [Keys -> [status : Statuses, type : {"ADD_MONEY", "other"},
                         order : Orders \cup {NoOrder}]]
    /\ credits \in [Keys -> Nat]
    /\ made \in {NoOrder} \cup Orders /\ collected \subseteq 1 .. made
    /\ key \in [Requests -> Keys] /\ gateway \in [Requests -> Gateways]
    /\ point \in [Requests -> Points]
    /\ plain \subseteq Requests /\ overtaken \subseteq Requests
    /\ order \in [Requests -> Orders \cup {NoOrder}]
    /\ answer \in [Requests -> {"none", "added", "already", "order", "refused", "error"}]
    /\ page \in {"away", "loading", "form"} /\ methods \subseteq Gateways
    /\ busy \in Requests \cup {Nobody}
    /\ dropped \subseteq Requests /\ left \subseteq Requests
    /\ crossed \subseteq Keys /\ mishaps \in 0 .. MaxMishaps

\* The shared key may be that of a transfer the user has made.
Init ==
    /\ \E t \in {"ADD_MONEY", "other"} :
        doc = [k \in Keys |->
                   IF k = Shared /\ t = "other"
                   THEN [status |-> "SUCCESS", type |-> t, order |-> NoOrder]
                   ELSE [status |-> "absent", type |-> "ADD_MONEY", order |-> NoOrder]]
    /\ mongo \in Deployments
    /\ credits = [k \in Keys |-> 0]
    /\ made = NoOrder /\ collected = {}
    /\ key = [r \in Requests |-> NoKey] /\ gateway = [r \in Requests |-> "MOCK"]
    /\ point = [r \in Requests |-> "idle"]
    /\ plain = {} /\ overtaken = {}
    /\ order = [r \in Requests |-> NoOrder]
    /\ answer = [r \in Requests |-> "none"]
    /\ page = "away" /\ methods = {} /\ busy = Nobody /\ dropped = {} /\ left = {}
    /\ crossed = {} /\ mishaps = 0

-----------------------------------------------------------------------------
(* Helpers *)

At(r, p) == point[r] = p
Goto(r, p) == point' = [point EXCEPT ![r] = p]
Reply(r, o) == Goto(r, "reply") /\ answer' = [answer EXCEPT ![r] = o]

Taken(k) == doc[k].status # "absent"

Handled == Points \ {"idle", "reply", "checkout", "verify", "over"}
InSession == {r \in Requests \ plain : point[r] \in {"credit", "record", "commit"}}
\* Transactions that have written the wallet, or a document with a key, keep
\* it until they end.
HoldsWallet == {r \in InSession : point[r] \in {"record", "commit"}}
HoldsKey(k) == {r \in InSession : At(r, "commit") /\ key[r] = k}

\* Is this key lost to a top-up, though findOne does not show it?
Spent(k) ==
    \/ Taken(k) /\ (doc[k].type = "other" \/ k = NoKey)
    \/ doc[k].status = "FAILED"
Cross(k) == crossed' = crossed \cup {k}

Fresh(k, s, o) == [doc EXCEPT ![k] = [status |-> s, type |-> "ADD_MONEY", order |-> o]]

-----------------------------------------------------------------------------
(* createPaymentOrder *)

Send(r, k, g) ==
    /\ At(r, "idle") /\ Goto(r, "find")
    /\ key' = [key EXCEPT ![r] = k]
    /\ gateway' = [gateway EXCEPT ![r] = g]
    /\ UNCHANGED <<dataVars, attemptVars, order, answer, crossed, mishaps>>

\* A client other than the page.
SendDirectly(r) ==
    /\ \E k \in {Shared, NoKey}, g \in Gateways : Send(r, k, g)
    /\ UNCHANGED pageVars

\* Mutant: only an unfinished payment is looked for.
ExistingPending(r) ==
    IF key[r] = NoKey \/ Status(r) # "PENDING" THEN "absent" ELSE "PENDING"

\* The ADD_MONEY document with this key, if it has a key, and what it says.
Existing(r) ==
    IF key[r] = NoKey \/ doc[key[r]].type = "other" THEN "absent" ELSE Status(r)

Route(r) ==
    CASE Existing(r) = "SUCCESS" -> Reply(r, "already") /\ UNCHANGED order
      [] gateway[r] = "MOCK" /\ Existing(r) # "SUCCESS" ->
            /\ IF Existing(r) = "PENDING" THEN Reply(r, "refused")
               ELSE Goto(r, "begin") /\ UNCHANGED answer
            /\ UNCHANGED order
      [] gateway[r] = "RAZORPAY" /\ Configured /\ Existing(r) # "SUCCESS" ->
            IF Existing(r) = "PENDING"
            THEN Reply(r, "order") /\ order' = [order EXCEPT ![r] = doc[key[r]].order]
            ELSE Goto(r, "order") /\ UNCHANGED <<answer, order>>
      [] OTHER -> Reply(r, "refused") /\ UNCHANGED order

Find(r) ==
    /\ At(r, "find") /\ Route(r)
    /\ crossed' = IF \/ Spent(key[r])
                     \/ \E q \in Requests \ {r} : point[q] \in Handled /\ key[q] = key[r]
                  THEN crossed \cup {key[r]} ELSE crossed
    /\ UNCHANGED <<dataVars, key, gateway, attemptVars, pageVars, mishaps>>

\* createMockAddMoneyTransaction begins again without a transaction.
FallBack(r) ==
    /\ Goto(r, "begin")
    /\ plain' = plain \cup {r} /\ overtaken' = overtaken \ {r}
    /\ UNCHANGED answer

Mock(r) == UNCHANGED <<mongo, made, collected, key, gateway, order, pageVars, mishaps>>

\* ensureWalletExists, which a standalone server refuses in a transaction.
Begin(r) ==
    /\ At(r, "begin")
    /\ IF mongo = "standalone" /\ r \notin plain THEN FallBack(r)
       ELSE /\ Goto(r, "credit") /\ overtaken' = overtaken \ {r}
            /\ UNCHANGED <<plain, answer>>
    /\ UNCHANGED <<doc, credits, crossed>> /\ Mock(r)

\* $inc of the balance, and the read of it: a transaction fails on a wallet
\* that others hold or have written, a plain write waits for it.
Credit(r) ==
    /\ At(r, "credit")
    /\ IF r \in plain
       THEN /\ HoldsWallet = {}
            /\ credits' = [credits EXCEPT ![key[r]] = @ + 1]
            /\ overtaken' = overtaken \cup InSession
            /\ Goto(r, "record") /\ UNCHANGED <<plain, answer>>
       ELSE /\ IF HoldsWallet # {} \/ r \in overtaken THEN FallBack(r)
               ELSE Goto(r, "record") /\ UNCHANGED <<attemptVars, answer>>
            /\ UNCHANGED credits
    /\ UNCHANGED <<doc, crossed>> /\ Mock(r)

\* Mutant: after a duplicate key the order is shown all the same.
RecordOrderAnyway(r) ==
    /\ At(r, "recordOrder") /\ HoldsKey(key[r]) = {}
    /\ Reply(r, "order")
    /\ doc' = IF Taken(key[r]) THEN doc ELSE Fresh(key[r], "PENDING", order[r])
    /\ UNCHANGED <<mongo, credits, made, collected, key, gateway, attemptVars, order,
                   pageVars, crossed, mishaps>>

\* Transaction.create.  A duplicate key, whose error names the collection
\* "transactions", ends the transaction and sends the attempt on without one;
\* without one it leaves the credit behind.
Record(r) ==
    /\ At(r, "record") /\ HoldsKey(key[r]) = {}
    /\ CASE Taken(key[r]) /\ r \notin plain -> FallBack(r) /\ UNCHANGED doc
         [] Taken(key[r]) /\ r \in plain ->
                Reply(r, "error") /\ UNCHANGED <<doc, attemptVars>>
         [] ~Taken(key[r]) /\ r \in plain ->
                /\ doc' = Fresh(key[r], "SUCCESS", NoOrder)
                /\ Reply(r, "added") /\ UNCHANGED attemptVars
         [] OTHER -> Goto(r, "commit") /\ UNCHANGED <<doc, attemptVars, answer>>
    /\ UNCHANGED <<credits, crossed>> /\ Mock(r)

Commits(r) ==
    /\ credits' = [credits EXCEPT ![key[r]] = @ + 1]
    /\ doc' = Fresh(key[r], "SUCCESS", NoOrder)
    /\ overtaken' = (overtaken \cup InSession) \ {r}
    /\ UNCHANGED plain

Commit(r) ==
    /\ At(r, "commit") /\ Commits(r) /\ Reply(r, "added")
    /\ UNCHANGED crossed /\ Mock(r)

\* razorpayClient.orders.create ...
CreateOrder(r) ==
    /\ At(r, "order") /\ Goto(r, "recordOrder")
    /\ made' = made + 1 /\ order' = [order EXCEPT ![r] = made + 1]
    /\ UNCHANGED <<mongo, doc, credits, collected, key, gateway, attemptVars, answer, pageVars,
                   crossed, mishaps>>

\* ... and its PENDING Transaction.
RecordOrder(r) ==
    /\ At(r, "recordOrder") /\ HoldsKey(key[r]) = {}
    /\ IF Taken(key[r]) THEN Reply(r, "error") /\ UNCHANGED doc
       ELSE Reply(r, "order") /\ doc' = Fresh(key[r], "PENDING", order[r])
    /\ UNCHANGED <<mongo, credits, made, collected, key, gateway, attemptVars, order,
                   pageVars, crossed, mishaps>>

\* Any call fails; a transaction is undone, and tried again without one if
\* the message has the word in it.
Fail(r) ==
    /\ mishaps < MaxMishaps /\ mishaps' = mishaps + 1
    /\ point[r] \in Handled
    /\ \/ Reply(r, "error") /\ UNCHANGED attemptVars
       \/ r \notin plain /\ point[r] \in {"begin", "credit", "record", "commit"} /\ FallBack(r)
    /\ IF At(r, "record") /\ r \in plain THEN Cross(key[r]) ELSE UNCHANGED crossed
    /\ UNCHANGED <<dataVars, key, gateway, order, pageVars>>

\* The commit is made and its answer is lost.
CommitUnheard(r) ==
    /\ mishaps < MaxMishaps /\ mishaps' = mishaps + 1
    /\ At(r, "commit") /\ Cross(key[r])
    /\ credits' = [credits EXCEPT ![key[r]] = @ + 1]
    /\ doc' = Fresh(key[r], "SUCCESS", NoOrder)
    /\ \/ Reply(r, "error") /\ UNCHANGED plain /\ overtaken' = (overtaken \cup InSession) \ {r}
       \/ /\ Goto(r, "begin") /\ UNCHANGED answer
          /\ plain' = plain \cup {r} /\ overtaken' = (overtaken \cup InSession) \ {r}
    /\ UNCHANGED <<mongo, made, collected, key, gateway, order, pageVars>>

\* Mutant: the update asks for the order whatever its status.
SettleAny(k) ==
    /\ doc[k].order # NoOrder
    /\ \E s \in {"SUCCESS", "FAILED"} :
        /\ s = "SUCCESS" => doc[k].order \in collected
        /\ doc' = [doc EXCEPT ![k].status = s]
    /\ UNCHANGED <<mongo, credits, made, collected, key, gateway, point, attemptVars, order,
                   answer, pageVars, crossed, mishaps>>

\* verifyPayment or the webhook settles the order.
Settle(k) ==
    /\ doc[k].status = "PENDING"
    /\ \E s \in {"SUCCESS", "FAILED"} :
        /\ s = "SUCCESS" => doc[k].order \in collected
        /\ doc' = [doc EXCEPT ![k].status = s]
    /\ UNCHANGED <<mongo, credits, made, collected, key, gateway, point, attemptVars, order,
                   answer, pageVars, crossed, mishaps>>

-----------------------------------------------------------------------------
(* The page *)

Backend ==
    UNCHANGED <<mongo, doc, credits, made, key, gateway, attemptVars, order, answer, crossed>>

Open ==
    /\ page = "away" /\ page' = "loading"
    /\ UNCHANGED <<collected, point, methods, busy, dropped, left, mishaps>> /\ Backend

\* getPaymentMethods.
Enabled == {"MOCK"} \cup {g \in {"RAZORPAY"} : Configured}

\* fetchPaymentMethods, which offers none if it fails.
MethodsShown ==
    /\ page = "loading" /\ page' = "form"
    /\ \/ methods' = Enabled /\ UNCHANGED mishaps
       \/ methods' = {} /\ mishaps < MaxMishaps /\ mishaps' = mishaps + 1
    /\ UNCHANGED <<collected, point, busy, dropped, left>> /\ Backend

\* What the page holds goes with it.
Leaves == page' = "away" /\ methods' = {} /\ busy' = Nobody /\ left' = left \cup UnderWay

Leave ==
    /\ page # "away" /\ Leaves
    /\ UNCHANGED <<collected, point, dropped, mishaps>> /\ Backend

\* handleSubmit makes a key and disables the button.
Submit(r) ==
    /\ page = "form" /\ busy = Nobody
    /\ \E g \in methods : Send(r, r, g)
    /\ busy' = r
    /\ UNCHANGED <<page, methods, dropped, left>>

\* setIsLoading(false) of the mount the submit belongs to.
Enable(r) ==
    /\ busy' = IF busy = r THEN Nobody ELSE busy
    /\ left' = left \ {r}
    /\ UNCHANGED <<page, methods>>

\* navigate('/dashboard'), wherever the user is by now.
ToDashboard(r) ==
    /\ page' = "away" /\ methods' = {} /\ busy' = Nobody
    /\ left' = (left \cup UnderWay) \ {r}
    /\ UNCHANGED dropped

\* Mutant: a finally enables the button once the checkout is open.
OpenCheckoutEnabled(r) ==
    /\ r \in UnderWay /\ At(r, "reply") /\ answer[r] = "order" /\ Goto(r, "checkout")
    /\ Enable(r) /\ UNCHANGED <<collected, dropped, mishaps>> /\ Backend

\* The answer to the submit: an order opens the checkout, ...
OpenCheckout(r) ==
    /\ r \in UnderWay /\ At(r, "reply") /\ answer[r] = "order" /\ Goto(r, "checkout")
    /\ UNCHANGED <<collected, pageVars, mishaps>> /\ Backend

\* ... a mock payment leads to the dashboard, ...
ShowAdded(r) ==
    /\ r \in UnderWay /\ At(r, "reply") /\ answer[r] = "added"
    /\ Goto(r, "over") /\ ToDashboard(r)
    /\ UNCHANGED <<collected, mishaps>> /\ Backend

\* ... and an error, a lost answer or a script that does not load enables
\* the button.
ShowError(r) ==
    /\ r \in UnderWay /\ At(r, "reply")
    /\ \/ answer[r] \in {"refused", "error"} /\ UNCHANGED mishaps
       \/ mishaps < MaxMishaps /\ mishaps' = mishaps + 1
    /\ Goto(r, "over") /\ Enable(r)
    /\ UNCHANGED <<collected, dropped>> /\ Backend

\* axios gives a request up after 15 seconds, and the server does not know.
TimeOut(r) ==
    /\ r \in UnderWay /\ point[r] \in Handled
    /\ mishaps < MaxMishaps /\ mishaps' = mishaps + 1
    /\ dropped' = dropped \cup {r} /\ Enable(r)
    /\ UNCHANGED <<collected, point>> /\ Backend

\* The user pays, and the checkout's handler verifies, ...
Pay(r) ==
    /\ At(r, "checkout") /\ Goto(r, "verify")
    /\ collected' = collected \cup {order[r]}
    /\ UNCHANGED <<pageVars, mishaps>> /\ Backend

\* ... or closes the checkout.
Dismiss(r) ==
    /\ At(r, "checkout") /\ Goto(r, "over") /\ Enable(r)
    /\ UNCHANGED <<collected, dropped, mishaps>> /\ Backend

\* A verified payment leads to the dashboard, an error back to the form.
Verified(r) ==
    /\ At(r, "verify") /\ Goto(r, "over")
    /\ \/ Enable(r) /\ UNCHANGED dropped
       \/ Status(r) = "SUCCESS" /\ ToDashboard(r)
    /\ UNCHANGED <<collected, mishaps>> /\ Backend

Step(r) ==
    \/ SendDirectly(r) \/ Find(r) \/ Begin(r) \/ Credit(r) \/ Record(r) \/ Commit(r)
    \/ CreateOrder(r) \/ RecordOrder(r) \/ Fail(r) \/ CommitUnheard(r)

Browse(r) ==
    \/ Submit(r) \/ OpenCheckout(r) \/ ShowAdded(r) \/ ShowError(r) \/ TimeOut(r)
    \/ Pay(r) \/ Dismiss(r) \/ Verified(r)

Next ==
    \/ \E r \in Requests : Step(r) \/ Browse(r)
    \/ \E k \in Keys : Settle(k)
    \/ Open \/ MethodsShown \/ Leave

Spec == Init /\ [][Next]_vars
=============================================================================
