-------------------------------- MODULE Views --------------------------------
(***************************************************************************)
(* How one user's wallet reaches the screen: the balance cache             *)
(* (backend/utils/balanceCache.js) that getWalletBalance fills and the     *)
(* writers of the wallet empty, the socket events of SocketContext, and    *)
(* the pages Dashboard, Transactions and SendMoney, whose requests answer  *)
(* in any order (backend/controllers/walletController.js).                 *)
(*                                                                         *)
(* The wallet is its Transactions, numbered from 1: a balance is the       *)
(* number of those it accounts for.  A transfer empties the cache and      *)
(* emits its event, a payment only emits, a scheduled transfer only        *)
(* empties.                                                                *)
(***************************************************************************)
EXTENDS Integers, Sequences, FiniteSets

CONSTANTS
    Fetches,      \* bound: requests the pages send, each used once
    MaxChanges,   \* bound: transactions of the user
    Received,     \* those of them that are received
    Filters,      \* bound: filters that are chosen
    Queries,      \* bound: what is searched for
    MaxPage,      \* bound: page numbers that are asked for
    PageSize,     \* limit
    None,
    MaxMishaps    \* bound: failed calls and lost connections

ASSUME ViewsAssumption ==
    /\ MaxChanges \in Nat /\ Received \subseteq 1 .. MaxChanges
    /\ "all" \in Filters /\ Filters \subseteq {"all", "sent", "received"}
    /\ MaxPage \in Nat \ {0} /\ PageSize \in Nat \ {0} /\ MaxMishaps \in Nat
    /\ None \notin Fetches \cup Queries \cup Nat

VARIABLES
    version,       \* the user's Transactions so far, and the wallet's balance
    cache,         \* balance:<userId> in Redis
    toInvalidate,  \* transactions whose writer has yet to empty the cache,
    toEmit,        \* ... or whose event has yet to arrive
    ask,           \* what a request asks for
    balancePart,   \* where its GET /wallet/balance stands
    listPart,      \* where its list or search stands
    got,           \* the balance and the list it has read so far
    page,
    want,          \* the filter, page number, inputs or query of the page
    inputs,        \* have dates or amounts been typed in?
    timer,         \* is the search's debounce running?
    loading,
    refreshing,    \* is the refresh button spinning?
    shown,         \* what the page shows
    latest,        \* history: the request the page sent last,
    by,            \* ... and the one whose answer it shows
    told,          \* history: the newest event this visit has received
    raced,         \* history: the cache was filled behind a writer, or not
                   \* emptied by one
    misled,        \* history: requests answered from such a cache
    vain,          \* history: has a click chosen what was chosen already?
    mishaps

writerVars == <<version, toInvalidate, toEmit>>
requestVars == <<ask, balancePart, listPart, got>>
pageVars == <<page, want, inputs, timer, loading, refreshing, shown, latest, by, told,
              vain>>
vars == <<writerVars, cache, requestVars, pageVars, raced, misled, mishaps>>

Versions == 0 .. MaxChanges
Asks == [filter : Filters, page : 0 .. MaxPage, inputs : BOOLEAN,
         query : Queries \cup {None}]
Readings == [balance : Versions \cup {None}, list : Versions \cup {None}, total : Versions]
Screens == [ask : Asks, balance : Versions \cup {None}, list : Versions \cup {None},
            total : Versions]
Nothing == [filter |-> "all", page |-> 1, inputs |-> FALSE, query |-> None]
Unread == [balance |-> None, list |-> None, total |-> 0]
Blank == [ask |-> Nothing, balance |-> None, list |-> None, total |-> 0]

TypeOK ==
    /\ version \in Versions
    /\ cache \in Versions \cup {None}
    /\ toInvalidate \subseteq 1 .. version /\ toEmit \subseteq 1 .. version
    /\ ask \in [Fetches -> Asks]
    /\ balancePart \in [Fetches -> {"idle", "cache", "db", "fill", "got"}]
    /\ listPart \in [Fetches -> {"idle", "find", "count", "got", "over"}]
    /\ got \in [Fetches -> Readings]
    /\ page \in {"away", "dashboard", "transactions", "send"}
    /\ want \in Asks /\ inputs \in BOOLEAN /\ timer \in BOOLEAN /\ loading \in BOOLEAN
    /\ refreshing \in BOOLEAN
    /\ shown \in Screens
    /\ latest \in Fetches \cup {None} /\ by \in Fetches \cup {None}
    /\ told \in Versions /\ raced \in BOOLEAN /\ vain \in BOOLEAN
    /\ misled \subseteq Fetches /\ mishaps \in 0 .. MaxMishaps

Init ==
    /\ version = 0 /\ cache = None /\ toInvalidate = {} /\ toEmit = {}
    /\ ask = [f \in Fetches |-> Nothing]
    /\ balancePart = [f \in Fetches |-> "idle"]
    /\ listPart = [f \in Fetches |-> "idle"]
    /\ got = [f \in Fetches |-> Unread]
    /\ page = "away" /\ want = Nothing /\ inputs = FALSE /\ timer = FALSE /\ loading = FALSE
    /\ refreshing = FALSE /\ shown = Blank /\ latest = None /\ by = None /\ told = 0
    /\ raced = FALSE /\ misled = {} /\ vain = FALSE /\ mishaps = 0

-----------------------------------------------------------------------------
(* The writers of the wallet *)

Writer == UNCHANGED <<requestVars, pageVars, misled>>

\* Mutant: the worker of scheduled transfers leaves the cache alone.
ChangeUnseen(kind) ==
    /\ version < MaxChanges /\ version' = version + 1
    /\ toInvalidate' = toInvalidate \cup {i \in {version'} : kind = "transfer"}
    /\ toEmit' = toEmit \cup {i \in {version'} : kind # "scheduled"}
    /\ raced' = (raced \/ (kind = "payment" /\ cache # None))
    /\ UNCHANGED <<cache, mishaps>> /\ Writer

\* A transaction is committed.
Change(kind) ==
    /\ version < MaxChanges /\ version' = version + 1
    /\ toInvalidate' = toInvalidate \cup {i \in {version'} : kind # "payment"}
    /\ toEmit' = toEmit \cup {i \in {version'} : kind # "scheduled"}
    /\ raced' = (raced \/ (kind = "payment" /\ cache # None))
    /\ UNCHANGED <<cache, mishaps>> /\ Writer

\* invalidateMany; a Redis error is logged and ignored.
Invalidate(i) ==
    /\ i \in toInvalidate /\ toInvalidate' = toInvalidate \ {i}
    /\ \/ cache' = None /\ raced' = FALSE /\ UNCHANGED mishaps
       \/ /\ mishaps < MaxMishaps /\ mishaps' = mishaps + 1
          /\ raced' = (cache # None) /\ UNCHANGED cache
    /\ UNCHANGED <<version, toEmit>> /\ Writer

\* The 30 seconds of a cached balance are over.
Expire ==
    /\ cache # None /\ cache' = None /\ raced' = FALSE
    /\ UNCHANGED <<writerVars, mishaps>> /\ Writer

-----------------------------------------------------------------------------
(* The requests *)

Server == UNCHANGED <<writerVars, pageVars, ask>>
Move(part, f, from, to) == part[f] = from /\ part' = [part EXCEPT ![f] = to]

\* getBalance: a hit answers, a miss or an error of Redis reads the wallet.
ReadCache(f) ==
    /\ \/ /\ cache # None /\ Move(balancePart, f, "cache", "got")
          /\ got' = [got EXCEPT ![f].balance = cache]
          /\ misled' = IF raced THEN misled \cup {f} ELSE misled
          /\ UNCHANGED mishaps
       \/ /\ Move(balancePart, f, "cache", "db")
          /\ IF cache = None THEN UNCHANGED mishaps
             ELSE mishaps < MaxMishaps /\ mishaps' = mishaps + 1
          /\ UNCHANGED <<got, misled>>
    /\ UNCHANGED <<cache, listPart, raced>> /\ Server

ReadWallet(f) ==
    /\ Move(balancePart, f, "db", "fill")
    /\ got' = [got EXCEPT ![f].balance = version]
    /\ UNCHANGED <<cache, listPart, raced, misled, mishaps>> /\ Server

\* setBalance, whatever has happened since the wallet was read; an error of
\* Redis is ignored.
Fill(f) ==
    /\ Move(balancePart, f, "fill", "got")
    /\ \/ /\ cache' = got[f].balance
          /\ raced' = (\E i \in got[f].balance + 1 .. version : i \notin toInvalidate)
          /\ UNCHANGED mishaps
       \/ /\ mishaps < MaxMishaps /\ mishaps' = mishaps + 1
          /\ UNCHANGED <<cache, raced>>
    /\ UNCHANGED <<listPart, got, misled>> /\ Server

\* The transactions the query of getTransactionHistory matches.
Matching(a, v) ==
    {i \in 1 .. v : /\ a.filter = "sent" => i \notin Received
                    /\ a.filter = "received" => i \in Received}

Total(a, v) == Cardinality(Matching(a, v))

\* skip and limit.
Skipped(a) == (a.page - 1) * PageSize
Rows(a, v) ==
    LET rest == Total(a, v) - Skipped(a)
    IN  IF rest < 0 THEN 0 ELSE IF rest > PageSize THEN PageSize ELSE rest

\* A list with dates or amounts always fails: fetchTransactions sends each of
\* them twice, and find casts none of the arrays the server makes of them.
\* Page 0 is refused by validatePagination.
Refused(a) == a.inputs \/ a.page = 0

\* find, and searchUsers.
ReadList(f) ==
    /\ ~Refused(ask[f])
    /\ Move(listPart, f, "find", IF ask[f].query = None THEN "count" ELSE "got")
    /\ got' = [got EXCEPT ![f].list = version]
    /\ UNCHANGED <<cache, balancePart, raced, misled, mishaps>> /\ Server

\* countDocuments, in a read of its own.
Count(f) ==
    /\ Move(listPart, f, "count", "got")
    /\ got' = [got EXCEPT ![f].total = Total(ask[f], version)]
    /\ UNCHANGED <<cache, balancePart, raced, misled, mishaps>> /\ Server

-----------------------------------------------------------------------------
(* The pages *)

Browser == UNCHANGED <<writerVars, cache, raced, misled>>

\* A request is sent with what the page asks for by now: the dashboard asks
\* for the balance and a list, SendMoney for a balance and for names.
Send(f, a, balance, list) ==
    /\ balancePart[f] = "idle" /\ listPart[f] = "idle"
    /\ ask' = [ask EXCEPT ![f] = a]
    /\ balancePart' = [balancePart EXCEPT ![f] = IF balance THEN "cache" ELSE "got"]
    /\ listPart' = [listPart EXCEPT ![f] = IF list THEN "find" ELSE "got"]
    /\ latest' = f
    /\ UNCHANGED got

NoSend == UNCHANGED <<requestVars, latest>>
Fetch(f) == Send(f, want', page = "dashboard", TRUE)
Rest == UNCHANGED <<page, shown, by, told, mishaps>> /\ Browser

\* The requests whose answer the page takes are those of this visit.
Current(f) == balancePart[f] # "idle" /\ listPart[f] # "over"
InFlight == {f \in Fetches : Current(f)}

\* The whole screen is a spinner while a page with no rows loads.
Hidden == loading /\ (shown.list = None \/ Rows(shown.ask, shown.list) = 0)

\* The effect of a page that has been opened.  What the page before it has
\* asked for goes on, and its answers go nowhere.
Open(f, p) ==
    /\ page' = p /\ p # page
    /\ want' = Nothing /\ inputs' = FALSE /\ timer' = FALSE
    /\ shown' = Blank /\ by' = None /\ told' = 0 /\ vain' = FALSE
    /\ loading' = (p # "send") /\ refreshing' = FALSE
    /\ balancePart[f] = "idle" /\ listPart[f] = "idle" /\ latest' = f
    /\ ask' = [ask EXCEPT ![f] = Nothing]
    /\ balancePart' = [balancePart EXCEPT ![f] = IF p = "transactions" THEN "got" ELSE "cache"]
    /\ listPart' = [g \in Fetches |->
           IF g = f THEN IF p = "send" THEN "got" ELSE "find"
           ELSE IF Current(g) THEN "over" ELSE listPart[g]]
    /\ UNCHANGED <<got, mishaps>> /\ Browser

\* Mutant: the effect depends on the filter alone.
ChooseByFilter(f, k, n) ==
    /\ want' = [want EXCEPT !.filter = k, !.page = n, !.inputs = inputs]
    /\ IF k = want.filter THEN vain' = TRUE /\ NoSend
       ELSE Fetch(f) /\ UNCHANGED vain
    /\ loading' = TRUE
    /\ UNCHANGED <<inputs, timer, refreshing>> /\ Rest

\* A click sends a request if the page number or the filter is another one.
Choose(f, k, n) ==
    /\ IF <<k, n>> = <<want.filter, want.page>>
       THEN vain' = TRUE /\ want' = want /\ NoSend
       ELSE /\ want' = [want EXCEPT !.filter = k, !.page = n, !.inputs = inputs]
            /\ Fetch(f) /\ UNCHANGED vain
    /\ loading' = TRUE
    /\ UNCHANGED <<inputs, timer, refreshing>> /\ Rest

\* handleFilterChange.
ChooseFilter(f) ==
    /\ page = "transactions" /\ ~Hidden
    /\ \E k \in Filters : Choose(f, k, 1)

\* hasPrevPage, hasNextPage and the numbers of pages, as last answered.
PageButtons ==
    {n \in {want.page - 1} : shown.ask.page > 1}
    \cup {n \in {want.page + 1} : Skipped(shown.ask) + Rows(shown.ask, shown.list) < shown.total}
    \cup {n \in 1 .. MaxPage : (n - 1) * PageSize < shown.total}

\* handlePageChange.
ChoosePage(f) ==
    /\ page = "transactions" /\ ~loading /\ shown.list # None /\ shown.total > PageSize
    /\ \E n \in PageButtons \cap 0 .. MaxPage : Choose(f, want.filter, n)

\* Dates and amounts are typed into the advanced filters.
Type ==
    /\ page = "transactions" /\ ~Hidden /\ ~inputs /\ inputs' = TRUE
    /\ NoSend /\ UNCHANGED <<want, timer, loading, refreshing, vain>> /\ Rest

\* handleApplyFilters goes to the first page or fetches it again.
Apply(f) ==
    /\ page = "transactions" /\ ~Hidden
    /\ want' = [want EXCEPT !.page = 1, !.inputs = inputs]
    /\ Fetch(f)
    /\ UNCHANGED <<inputs, timer, loading, refreshing, vain>> /\ Rest

\* handleClearFilters.
Clear(f) ==
    /\ page = "transactions" /\ ~Hidden
    /\ inputs' = FALSE
    /\ want' = [want EXCEPT !.page = 1, !.inputs = FALSE]
    /\ Fetch(f)
    /\ loading' = (loading \/ want.page = 1)
    /\ UNCHANGED <<timer, refreshing, vain>> /\ Rest

\* handleRefresh of Dashboard and Transactions.
Refresh(f) ==
    /\ page = "dashboard" \/ (page = "transactions" /\ ~Hidden)
    /\ ~refreshing /\ refreshing' = TRUE
    /\ want' = [want EXCEPT !.inputs = inputs]
    /\ Fetch(f)
    /\ UNCHANGED <<inputs, timer, loading, vain>> /\ Rest

\* A query is typed: a short one shows no names, another waits for 300 ms.
TypeQuery ==
    /\ page = "send"
    /\ \E q \in (Queries \cup {None}) \ {want.query} :
        /\ want' = [want EXCEPT !.query = q]
        /\ timer' = (q # None)
        /\ IF q = None THEN shown' = [shown EXCEPT !.ask = Nothing] ELSE UNCHANGED shown
    /\ latest' = None /\ by' = None
    /\ UNCHANGED <<requestVars, page, inputs, loading, refreshing, told, vain,
                   mishaps>>
    /\ Browser

Search(f) ==
    /\ timer /\ timer' = FALSE
    /\ want' = want /\ Send(f, want, FALSE, TRUE)
    /\ loading' = TRUE
    /\ UNCHANGED <<inputs, refreshing, vain>> /\ Rest

IsSearch(f) == ask[f].query # None

\* What an answered request has read is forgotten.
Ends(f) ==
    /\ listPart' = [listPart EXCEPT ![f] = "over"]
    /\ ask' = [ask EXCEPT ![f] = Nothing]
    /\ got' = [got EXCEPT ![f] = Unread]
    /\ loading' = (loading /\ page = "send" /\ ~IsSearch(f)) /\ refreshing' = FALSE
    /\ UNCHANGED <<balancePart, page, want, inputs, timer, latest, told, vain>>
    /\ Browser

IsRead(f) == balancePart[f] = "got" /\ listPart[f] = "got"
Kept(new, old) == IF new = None THEN old ELSE new

\* The answer is shown, though a later request may have been answered.
Answer(f) ==
    /\ IsRead(f) /\ Ends(f) /\ by' = f
    /\ shown' = [ask |-> IF page = "send" /\ ~IsSearch(f) THEN shown.ask ELSE ask[f],
                 balance |-> Kept(got[f].balance, shown.balance),
                 list |-> Kept(got[f].list, shown.list),
                 total |-> got[f].total]
    /\ UNCHANGED mishaps

\* A request fails: the page keeps what it shows.
AnswerError(f) ==
    /\ \/ IsRead(f) /\ mishaps < MaxMishaps /\ mishaps' = mishaps + 1
       \/ /\ Refused(ask[f]) /\ balancePart[f] = "got" /\ listPart[f] = "find"
          /\ UNCHANGED mishaps
    /\ Ends(f) /\ UNCHANGED <<shown, by>>

\* SocketContext hands an event on as walletUpdate: the dashboard shows its
\* balance, which transferMoney has read outside the transaction, be it before
\* its commit, and fetches everything.
Arrives(f, i) ==
    /\ i \in toEmit /\ toEmit' = toEmit \ {i}
    /\ IF page = "dashboard"
       THEN /\ \E b \in 0 .. i : shown' = [shown EXCEPT !.balance = b]
            /\ told' = IF i > told THEN i ELSE told
            /\ Send(f, want, TRUE, TRUE)
       ELSE UNCHANGED <<shown, told>> /\ NoSend
    /\ UNCHANGED <<version, toInvalidate, cache, raced, misled, by, page, want, inputs, timer,
                   loading, refreshing, vain, mishaps>>

\* Mutant: the event is emitted before the cache is emptied.
DeliverEarly(f, i) == Arrives(f, i)

\* The event is emitted when the cache has been emptied.
Deliver(f, i) == i \notin toInvalidate /\ Arrives(f, i)

\* No event is kept for a socket that is not connected.
Lose(i) ==
    /\ i \in toEmit \ toInvalidate /\ toEmit' = toEmit \ {i}
    /\ mishaps < MaxMishaps /\ mishaps' = mishaps + 1
    /\ UNCHANGED <<version, toInvalidate, cache, raced, misled, requestVars, pageVars>>

Next ==
    \/ \E k \in {"transfer", "payment", "scheduled"} : Change(k)
    \/ \E i \in 1 .. MaxChanges : Invalidate(i) \/ Lose(i)
    \/ \E f \in Fetches :
        \/ ReadCache(f) \/ ReadWallet(f) \/ Fill(f) \/ ReadList(f) \/ Count(f)
        \/ \E p \in {"dashboard", "transactions", "send"} : Open(f, p)
        \/ ChooseFilter(f) \/ ChoosePage(f) \/ Apply(f) \/ Clear(f) \/ Refresh(f)
        \/ Search(f) \/ Answer(f) \/ AnswerError(f)
        \/ \E i \in 1 .. MaxChanges : Deliver(f, i)
    \/ Expire \/ Type \/ TypeQuery

Spec == Init /\ [][Next]_vars

-----------------------------------------------------------------------------
(* What is shown *)

\* "Called after every debit/credit so next read always hits MongoDB"
\* (balanceCache.js:44): the cached balance is the present one or is about to
\* be emptied, unless it was filled by a reader that a writer overtook, a
\* payment came, which empties nothing, or Redis failed; and what such a
\* reader leaves behind does not outlive the next writer.
CacheIsFresh == cache # None /\ ~raced => cache = version \/ toInvalidate # {}

\* After an event the dashboard comes to show what the event was about: the
\* answer to its latest request has a list and a balance no older than any
\* event of this visit, unless the balance came from a cache that had missed
\* its writer.
EventsAreShown ==
    page = "dashboard" /\ by # None /\ by = latest /\ listPart[by] = "over" =>
        /\ shown.list >= told
        /\ by \in misled \/ shown.balance >= told

\* Whatever order filters, page numbers and queries are chosen in and answers
\* come in, what is shown of the latest request answers what is chosen, be a
\* choice refused in between; and a page that loads waits for a request,
\* unless the click was in vain.  (A range that is typed in is always refused,
\* and leaves what was shown before it.)
LatestIsChosen ==
    /\ by # None /\ by = latest /\ page \in {"transactions", "send"} => shown.ask = want
    /\ loading => vain \/ InFlight # {}
=============================================================================
