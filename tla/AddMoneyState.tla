---------------------------- MODULE AddMoneyState ----------------------------
(***************************************************************************)
(* The top-ups of one user's wallet: the Transactions in the unique index, *)
(* the requests of createPaymentOrder, Razorpay and the page, and what     *)
(* AddMoney promises about them.                                           *)
(***************************************************************************)
EXTENDS Integers

CONSTANTS
    Requests,
    Shared,        \* a key other clients use more than once
    NoKey,         \* no key at all
    Nobody         \* no request

VARIABLES
    mongo,      \* the deployment
    doc,        \* the Transaction a key has in the unique index
    credits,    \* mock credits of the wallet made for a key
    made,       \* orders made at Razorpay
    collected,  \* those whose money Razorpay has
    key,        \* a request's key, its own name if the page has made it
    gateway,
    point,      \* the await it stands at
    plain,      \* its attempt runs without a transaction
    overtaken,  \* the wallet was written since its transaction began
    order,      \* the order it has made or found
    answer,     \* the answer it gets
    page,       \* what the browser shows
    methods,    \* the payment methods AddMoney offers
    busy,       \* the submit that has set isLoading
    dropped,    \* requests the page has given up before their answer
    left,       \* history: requests that go on and whose page was left
    crossed     \* history: keys used by requests at once, or by something
                \* else, or struck by a fault half way

Keys == Requests \cup {Shared, NoKey}
NoOrder == 0

Status(r) == doc[key[r]].status

\* The page's requests, and those of them that go on and will be shown.
Sent == {r \in Requests : key[r] = r}
UnderWay == {r \in Sent \ dropped : point[r] \notin {"idle", "over"}}

\* The orders on record with a status; a mock payment has none.
Filed(s) == {doc[k].order : k \in {l \in Keys : doc[l].status = s}} \ {NoOrder}

-----------------------------------------------------------------------------
(* What a top-up promises *)

ByMock(k) == doc[k].status = "SUCCESS" /\ doc[k].type = "ADD_MONEY" /\ doc[k].order = NoOrder
Unrecorded(k) == {r \in plain : point[r] = "record" /\ key[r] = k}

\* A mock payment credits the wallet and records it, and the fallback of
\* createMockAddMoneyTransaction does neither twice: a recorded one has been
\* credited, and it is credited once and only if it is recorded, unless
\* requests with its key overlap, the key belongs to something that findOne
\* does not show, or a fault strikes half way.
CreditMatchesRecord ==
    \A k \in Keys :
        /\ ByMock(k) => credits[k] >= 1
        /\ k \notin crossed /\ Unrecorded(k) = {} =>
               credits[k] = (IF ByMock(k) THEN 1 ELSE 0)

\* However requests with one key race, be they mock payments or orders, an
\* answer speaks of the one document the key has: a client that is told of
\* success finds it SUCCESS, and a client is never given an order to pay that
\* verifyPayment and the webhook would not find, or a second one.
AnswersAreTrue ==
    \A r \in Requests :
        /\ answer[r] \in {"added", "already"} => Status(r) = "SUCCESS"
        /\ answer[r] = "order" => doc[key[r]].order = order[r]

\* The button is disabled by the one submit whose answer, checkout or
\* verification is awaited, so that a visit of the page pays one order at a
\* time, beside what a page left behind.  A request given up after 15 seconds
\* (api.js:9) enables the button while the server still works on it: a mock
\* credit or an order of it comes beside what the next submit makes, but is
\* shown to nobody and the order never paid.
OneTopUpPerVisit ==
    /\ \A r \in UnderWay \ left : busy = r
    /\ busy # Nobody => busy \in UnderWay
    /\ \A r \in dropped : point[r] \notin {"idle", "checkout", "verify", "over"}

TopUps == INSTANCE OrderBook WITH
    opened <- Filed("PENDING"), paid <- Filed("SUCCESS"), failed <- Filed("FAILED"),
    captured <- collected

\* Whoever makes, is shown, pays or settles an order, it goes by OrderBook:
\* no two Transactions have the same order, a client pays only what is on
\* record, and no settled order is settled again.
TopUpsFollowBook == TopUps!BookSpec
=============================================================================
