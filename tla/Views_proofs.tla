---------------------------- MODULE Views_proofs ----------------------------
(***************************************************************************)
(* The invariants of Views for every number of requests, transactions,     *)
(* filters, pages, queries and mishaps.                                    *)
(*                                                                         *)
(* A cache that nobody has raced misses only transactions whose writers    *)
(* are about to empty it, and an event arrives after its writer has        *)
(* emptied it: so what the latest request of the dashboard reads is as new *)
(* as the events.  On the other pages the latest request that is out asks  *)
(* for what is chosen, and a search is never overtaken by the page's first *)
(* request.                                                                *)
(***************************************************************************)
EXTENDS Views, FiniteSetTheorems, TLAPS

\* What is cached, or read by whoever is about to cache it, is a balance the
\* wallet has had; and unless the cache has been raced, each transaction it
\* misses has a writer that is about to empty it.
CacheInv ==
    /\ cache # None =>
        /\ cache <= version
        /\ raced \/ cache + 1 .. version \subseteq toInvalidate
    /\ \A f \in Fetches : balancePart[f] = "fill" => got[f].balance \in 0 .. version

\* The writer of an event this visit has received has emptied the cache.
ToldInv == told <= version /\ told \notin toInvalidate

\* On the dashboard every request that is out reads both a balance and a
\* list, and what the latest one has read is as new as the events.
DashboardInv ==
    /\ by # None => listPart[by] = "over"
    /\ page = "dashboard" =>
        /\ \A f \in InFlight :
            /\ balancePart[f] \in {"fill", "got"} => got[f].balance # None
            /\ listPart[f] \in {"count", "got"} => got[f].list # None
        /\ latest \in InFlight =>
            /\ balancePart[latest] \in {"fill", "got"} =>
                   latest \in misled \/ got[latest].balance >= told
            /\ listPart[latest] \in {"count", "got"} => got[latest].list >= told
        /\ by # None /\ by = latest =>
            /\ shown.list # None /\ shown.list >= told
            /\ by \in misled \/ (shown.balance # None /\ shown.balance >= told)

\* The latest request of a page asks for what is chosen there; that of
\* SendMoney's first request is nothing, and no search is out with it.
ChoiceInv ==
    /\ page \in {"transactions", "send"} /\ latest \in InFlight => ask[latest] = want
    /\ page = "send" /\ latest # None /\ want.query = None =>
           shown.ask = want /\ InFlight \subseteq {latest}
    /\ by # None /\ by = latest /\ page \in {"transactions", "send"} => shown.ask = want
    /\ timer => page = "send" /\ want.query # None

\* A page that loads waits for a request, SendMoney for a search.
LoadingInv ==
    /\ loading => vain \/ InFlight # {}
    /\ page = "send" => ~vain
    /\ page = "send" /\ loading => \E f \in InFlight : IsSearch(f)

IInv == TypeOK /\ CacheInv /\ ToldInv /\ DashboardInv /\ ChoiceInv /\ LoadingInv

-----------------------------------------------------------------------------
(* The number of matching transactions is at most that of all. *)
LEMMA TotalType == ASSUME NEW a, NEW v \in Versions PROVE Total(a, v) \in Versions
<1>1. IsFiniteSet(1 .. v) /\ Cardinality(1 .. v) = v
  BY FS_Interval, ViewsAssumption DEF Versions
<1>2. Matching(a, v) \subseteq 1 .. v
  BY DEF Matching
<1>3. Cardinality(Matching(a, v)) \in Nat /\ Cardinality(Matching(a, v)) <= v
  BY <1>1, <1>2, FS_Subset, FS_CardinalityType
<1> QED
  BY <1>3, ViewsAssumption DEF Total, Versions

(* Nothing has been asked, read or shown. *)
LEMMA EmptyTypes == Nothing \in Asks /\ Unread \in Readings /\ Blank \in Screens
<1>1. Nothing \in Asks
  BY ViewsAssumption DEF Asks, Nothing
<1>2. Unread \in Readings
  BY ViewsAssumption DEF Readings, Unread, Versions
<1>3. Blank \in Screens
  BY <1>1, ViewsAssumption DEF Screens, Blank, Versions
<1> QED
  BY <1>1, <1>2, <1>3

\* The variables of the requests have their types.
RequestTypes ==
    /\ ask \in [Fetches -> Asks]
    /\ balancePart \in [Fetches -> {"idle", "cache", "db", "fill", "got"}]
    /\ listPart \in [Fetches -> {"idle", "find", "count", "got", "over"}]
    /\ got \in [Fetches -> Readings]
    /\ latest \in Fetches \cup {None}

(* A request that is sent for something has its types. *)
LEMMA SendTypes ==
    ASSUME TypeOK, NEW f \in Fetches, NEW a \in Asks, NEW balance \in BOOLEAN,
           NEW list \in BOOLEAN, Send(f, a, balance, list)
    PROVE  RequestTypes'
  BY DEF TypeOK, Send, RequestTypes

(* Every step keeps the types. *)
LEMMA TypeStep ==
    ASSUME TypeOK, [Next]_vars
    PROVE  TypeOK'
<1> USE DEF Writer, Server, Browser, Rest, writerVars, requestVars, pageVars
<1> DEFINE WriterOK == /\ version \in Versions /\ cache \in Versions \cup {None}
                       /\ toInvalidate \subseteq 1 .. version /\ toEmit \subseteq 1 .. version
                       /\ raced \in BOOLEAN /\ misled \subseteq Fetches
                       /\ mishaps \in 0 .. MaxMishaps
           PageOK == /\ page \in {"away", "dashboard", "transactions", "send"}
                     /\ want \in Asks /\ inputs \in BOOLEAN /\ timer \in BOOLEAN
                     /\ loading \in BOOLEAN /\ refreshing \in BOOLEAN /\ shown \in Screens
                     /\ by \in Fetches \cup {None} /\ told \in Versions /\ vain \in BOOLEAN
<1>a. WriterOK /\ RequestTypes /\ PageOK
  BY DEF TypeOK, RequestTypes
<1>b. SUFFICES WriterOK' /\ RequestTypes' /\ PageOK'
  BY DEF TypeOK, RequestTypes
<1>1. ASSUME NEW k \in {"transfer", "payment", "scheduled"}, Change(k)
      PROVE  WriterOK' /\ RequestTypes' /\ PageOK'
  <2>1. version' = version + 1 /\ version' \in Versions
    BY <1>1, <1>a, ViewsAssumption DEF Change, Versions
  <2>2. toInvalidate' \subseteq 1 .. version' /\ toEmit' \subseteq 1 .. version'
    <3>1. /\ toInvalidate' \subseteq toInvalidate \cup {version'}
          /\ toEmit' \subseteq toEmit \cup {version'}
      BY <1>1 DEF Change
    <3>2. 1 .. version \subseteq 1 .. version' /\ version' \in 1 .. version'
      BY <1>a, <2>1 DEF Versions
    <3> QED
      BY <1>a, <3>1, <3>2
  <2>3. raced' \in BOOLEAN
    BY <1>1 DEF Change
  <2>4. RequestTypes' /\ PageOK' /\ UNCHANGED <<cache, misled, mishaps>>
    BY <1>1, <1>a DEF Change, RequestTypes
  <2> QED
    BY <1>a, <2>1, <2>2, <2>3, <2>4
<1>2. ASSUME NEW i \in 1 .. MaxChanges, Invalidate(i) \/ Lose(i)
      PROVE  WriterOK' /\ RequestTypes' /\ PageOK'
  <2>1. raced' \in BOOLEAN
    BY <1>2, <1>a DEF Invalidate, Lose
  <2>2. /\ RequestTypes' /\ PageOK' /\ UNCHANGED <<version, misled>>
        /\ cache' \in {cache, None}
        /\ toInvalidate' \subseteq toInvalidate /\ toEmit' \subseteq toEmit
    BY <1>2, <1>a DEF Invalidate, Lose, RequestTypes
  <2>3. mishaps' \in 0 .. MaxMishaps
    BY <1>2, <1>a, ViewsAssumption DEF Invalidate, Lose
  <2> QED
    BY <1>a, <2>1, <2>2, <2>3
<1>3. ASSUME NEW f \in Fetches,
             ReadCache(f) \/ ReadWallet(f) \/ Fill(f) \/ ReadList(f) \/ Count(f)
      PROVE  WriterOK' /\ RequestTypes' /\ PageOK'
  <2>1. \A v \in Versions : /\ [got[f] EXCEPT !.balance = v] \in Readings
                            /\ [got[f] EXCEPT !.list = v] \in Readings
                            /\ [got[f] EXCEPT !.total = v] \in Readings
    BY <1>a DEF Readings, RequestTypes
  <2>2. Total(ask[f], version) \in Versions
    BY <1>a, TotalType
  <2>3. got' \in [Fetches -> Readings]
    <3> USE <1>a DEF RequestTypes
    <3>1. CASE ReadCache(f)
      <4>1. got' = got \/ (cache \in Versions /\ got' = [got EXCEPT ![f].balance = cache])
        BY <3>1 DEF ReadCache
      <4> QED
        BY <4>1, <2>1
    <3>2. CASE ReadWallet(f)
      <4>1. got' = [got EXCEPT ![f].balance = version]
        BY <3>2 DEF ReadWallet
      <4> QED
        BY <4>1, <2>1
    <3>3. CASE Fill(f)
      BY <3>3 DEF Fill
    <3>4. CASE ReadList(f)
      <4>1. got' = [got EXCEPT ![f].list = version]
        BY <3>4 DEF ReadList
      <4> QED
        BY <4>1, <2>1
    <3>5. CASE Count(f)
      <4>1. got' = [got EXCEPT ![f].total = Total(ask[f], version)]
        BY <3>5 DEF Count
      <4> QED
        BY <4>1, <2>1, <2>2
    <3> QED
      BY <1>3, <3>1, <3>2, <3>3, <3>4, <3>5
  <2>4. /\ balancePart' \in [Fetches -> {"idle", "cache", "db", "fill", "got"}]
        /\ listPart' \in [Fetches -> {"idle", "find", "count", "got", "over"}]
        /\ UNCHANGED <<ask, latest>>
    BY <1>3, <1>a DEF ReadCache, ReadWallet, Fill, ReadList, Count, Move, RequestTypes
  <2>5. raced' \in BOOLEAN
    BY <1>3, <1>a DEF ReadCache, ReadWallet, Fill, ReadList, Count
  <2>6. /\ PageOK' /\ UNCHANGED writerVars
        /\ cache' = cache \/ cache' = got[f].balance
        /\ misled' = misled \/ misled' = misled \cup {f}
    <3>1. PageOK' /\ UNCHANGED writerVars
      BY <1>3, <1>a DEF ReadCache, ReadWallet, Fill, ReadList, Count
    <3>2. cache' = cache \/ cache' = got[f].balance
      BY <1>3 DEF ReadCache, ReadWallet, Fill, ReadList, Count
    <3>3. misled' = misled \/ misled' = misled \cup {f}
      BY <1>3 DEF ReadCache, ReadWallet, Fill, ReadList, Count
    <3> QED
      BY <3>1, <3>2, <3>3
  <2>8. mishaps' \in 0 .. MaxMishaps
    <3>1. mishaps' = mishaps \/ (mishaps < MaxMishaps /\ mishaps' = mishaps + 1)
      BY <1>3 DEF ReadCache, ReadWallet, Fill, ReadList, Count
    <3> QED
      BY <1>a, <3>1, ViewsAssumption
  <2>7. got[f].balance \in Versions \cup {None}
    BY <1>a DEF Readings, RequestTypes
  <2> QED
    BY <1>a, <2>3, <2>4, <2>5, <2>6, <2>7, <2>8 DEF RequestTypes
<1>4. ASSUME NEW f \in Fetches, NEW p \in {"dashboard", "transactions", "send"}, Open(f, p)
      PROVE  WriterOK' /\ RequestTypes' /\ PageOK'
  <2>1. /\ balancePart' \in [Fetches -> {"idle", "cache", "db", "fill", "got"}]
        /\ listPart' \in [Fetches -> {"idle", "find", "count", "got", "over"}]
        /\ ask' \in [Fetches -> Asks] /\ got' = got /\ latest' = f
    BY <1>4, <1>a, EmptyTypes DEF Open, RequestTypes
  <2>2. WriterOK' /\ UNCHANGED mishaps
    BY <1>4, <1>a DEF Open
  <2>3. PageOK'
    <3>1. /\ want' \in Asks /\ shown' \in Screens /\ loading' \in BOOLEAN
          /\ by' = None /\ told' = 0 /\ page' = p
          /\ inputs' = FALSE /\ timer' = FALSE /\ refreshing' = FALSE /\ vain' = FALSE
      BY <1>4, EmptyTypes DEF Open
    <3>2. 0 \in Versions
      BY ViewsAssumption DEF Versions
    <3> QED
      BY <3>1, <3>2
  <2> QED
    BY <1>a, <2>1, <2>2, <2>3 DEF RequestTypes
<1>5. ASSUME NEW f \in Fetches, NEW k \in Filters, NEW n \in 0 .. MaxPage, Choose(f, k, n)
      PROVE  WriterOK' /\ RequestTypes' /\ PageOK'
  <2>1. want' = want \/ want' = [want EXCEPT !.filter = k, !.page = n, !.inputs = inputs]
    BY <1>5 DEF Choose
  <2>2. want' \in Asks
    BY <1>a, <2>1 DEF Asks
  <2>3. NoSend \/ Send(f, want', page = "dashboard", TRUE)
    BY <1>5 DEF Choose, Fetch
  <2>4. RequestTypes'
    BY <1>a, <2>2, <2>3, SendTypes DEF NoSend, RequestTypes
  <2>5. WriterOK' /\ PageOK'
    BY <1>5, <1>a, <2>2 DEF Choose
  <2> QED
    BY <2>4, <2>5
<1>6. ASSUME NEW f \in Fetches, ChooseFilter(f) \/ ChoosePage(f)
      PROVE  WriterOK' /\ RequestTypes' /\ PageOK'
  <2>1. want.filter \in Filters /\ 1 \in 0 .. MaxPage
    BY <1>a, ViewsAssumption DEF Asks
  <2> QED
    BY <1>5, <1>6, <2>1 DEF ChooseFilter, ChoosePage
<1>7. ASSUME NEW f \in Fetches, Apply(f) \/ Clear(f) \/ Refresh(f)
      PROVE  WriterOK' /\ RequestTypes' /\ PageOK'
  <2>1. want' \in Asks
    <3>1. \/ want' = [want EXCEPT !.page = 1, !.inputs = inputs]
          \/ want' = [want EXCEPT !.page = 1, !.inputs = FALSE]
          \/ want' = [want EXCEPT !.inputs = inputs]
      BY <1>7 DEF Apply, Clear, Refresh
    <3>2. 1 \in 0 .. MaxPage
      BY ViewsAssumption
    <3> QED
      BY <3>1, <3>2, <1>a DEF Asks
  <2>2. Send(f, want', page = "dashboard", TRUE)
    BY <1>7 DEF Apply, Clear, Refresh, Fetch
  <2>3. RequestTypes'
    BY <2>1, <2>2, SendTypes
  <2>4. WriterOK' /\ PageOK'
    BY <1>7, <1>a, <2>1 DEF Apply, Clear, Refresh
  <2> QED
    BY <2>3, <2>4
<1>8. ASSUME NEW f \in Fetches, Search(f)
      PROVE  WriterOK' /\ RequestTypes' /\ PageOK'
  <2>1. RequestTypes'
    BY <1>8, <1>a, SendTypes DEF Search
  <2> QED
    BY <1>8, <1>a, <2>1 DEF Search
<1>9. ASSUME NEW f \in Fetches, Answer(f) \/ AnswerError(f)
      PROVE  WriterOK' /\ RequestTypes' /\ PageOK'
  <2>1. RequestTypes'
    BY <1>9, <1>a, EmptyTypes DEF Answer, AnswerError, Ends, RequestTypes
  <2>2. shown' \in Screens
    BY <1>9, <1>a DEF Answer, AnswerError, Kept, RequestTypes, Readings, Screens
  <2>3. WriterOK'
    BY <1>9, <1>a, ViewsAssumption DEF Answer, AnswerError, Ends
  <2>4. /\ loading' \in BOOLEAN /\ refreshing' \in BOOLEAN /\ by' \in Fetches \cup {None}
        /\ UNCHANGED <<page, want, inputs, timer, told, vain>>
    BY <1>9, <1>a DEF Answer, AnswerError, Ends
  <2> QED
    BY <1>a, <2>1, <2>2, <2>3, <2>4
<1>10. ASSUME NEW f \in Fetches, NEW i \in 1 .. MaxChanges, Deliver(f, i)
       PROVE  WriterOK' /\ RequestTypes' /\ PageOK'
  <2>1. i \in toEmit /\ i \in Versions /\ toEmit' = toEmit \ {i}
    BY <1>10, ViewsAssumption DEF Deliver, Arrives, Versions
  <2>2. shown' \in Screens /\ told' \in Versions
    <3>1. /\ shown' = shown \/ \E b \in 0 .. i : shown' = [shown EXCEPT !.balance = b]
          /\ told' = told \/ told' = i
      BY <1>10 DEF Deliver, Arrives
    <3>2. 0 .. i \subseteq Versions
      BY <2>1, ViewsAssumption DEF Versions
    <3> QED
      BY <1>a, <2>1, <3>1, <3>2 DEF Screens
  <2>3. RequestTypes'
    BY <1>10, <1>a, SendTypes DEF Deliver, Arrives, NoSend, RequestTypes
  <2> QED
    BY <1>10, <1>a, <2>1, <2>2, <2>3 DEF Deliver, Arrives
<1>11. ASSUME Type \/ TypeQuery
       PROVE  WriterOK' /\ RequestTypes' /\ PageOK'
  <2>1. want' \in Asks
    <3>1. want' = want \/ \E q \in Queries \cup {None} : want' = [want EXCEPT !.query = q]
      BY <1>11 DEF Type, TypeQuery
    <3> QED
      BY <3>1, <1>a DEF Asks
  <2>2. shown' \in Screens
    BY <1>11, <1>a, EmptyTypes DEF Type, TypeQuery, Screens
  <2>3. RequestTypes'
    BY <1>11, <1>a DEF Type, TypeQuery, NoSend, RequestTypes
  <2>4. timer' \in BOOLEAN /\ inputs' \in BOOLEAN /\ by' \in Fetches \cup {None}
    BY <1>11, <1>a DEF Type, TypeQuery
  <2> QED
    BY <1>11, <1>a, <2>1, <2>2, <2>3, <2>4 DEF Type, TypeQuery
<1>12. CASE Expire
  BY <1>12, <1>a DEF Expire, RequestTypes
<1>13. CASE UNCHANGED vars
  BY <1>13, <1>a DEF vars, RequestTypes
<1> QED
  BY <1>1, <1>2, <1>3, <1>4, <1>6, <1>7, <1>8, <1>9, <1>10, <1>11, <1>12, <1>13
  DEF Next

(* Every step keeps the cache covered by the writers. *)
LEMMA CacheStep ==
    ASSUME TypeOK, CacheInv, [Next]_vars
    PROVE  CacheInv'
<1> USE ViewsAssumption, TotalType DEF TypeOK, CacheInv, Versions, Unread, Writer, Server,
        Browser, Rest, NoSend, Fetch, Send, Move, writerVars, requestVars, pageVars
<1>1. ASSUME NEW k \in {"transfer", "payment", "scheduled"}, Change(k) PROVE CacheInv'
  <2>1. /\ version' = version + 1 /\ cache' = cache /\ balancePart' = balancePart /\ got' = got
        /\ toInvalidate \subseteq toInvalidate'
        /\ k # "payment" => version' \in toInvalidate'
        /\ raced' = (raced \/ (k = "payment" /\ cache # None))
    BY <1>1 DEF Change
  <2>2. \A f \in Fetches : balancePart'[f] = "fill" => got'[f].balance \in 0 .. version'
    BY <2>1
  <2>3. ASSUME cache' # None, ~raced' PROVE cache' + 1 .. version' \subseteq toInvalidate'
    <3>1. k # "payment" /\ cache + 1 .. version \subseteq toInvalidate
      BY <2>1, <2>3
    <3>2. cache' + 1 .. version' \subseteq (cache + 1 .. version) \cup {version'}
      BY <2>1, <2>3
    <3> QED
      BY <2>1, <3>1, <3>2
  <2>4. cache' # None => cache' <= version'
    BY <2>1
  <2> QED
    BY <2>2, <2>3, <2>4
<1>2. ASSUME NEW i \in 1 .. MaxChanges, Invalidate(i) PROVE CacheInv'
  BY <1>2 DEF Invalidate
<1>3. ASSUME NEW i \in 1 .. MaxChanges, Lose(i) PROVE CacheInv'
  BY <1>3 DEF Lose
<1>4. ASSUME Expire PROVE CacheInv'
  BY <1>4 DEF Expire
<1>5. ASSUME NEW f \in Fetches, ReadCache(f) PROVE CacheInv'
  BY <1>5 DEF ReadCache
<1>6. ASSUME NEW f \in Fetches, ReadWallet(f) PROVE CacheInv'
  BY <1>6 DEF ReadWallet
<1>7. ASSUME NEW f \in Fetches, Fill(f) PROVE CacheInv'
  <2>1. /\ version' = version /\ toInvalidate' = toInvalidate /\ got' = got
        /\ balancePart[f] = "fill" /\ balancePart' = [balancePart EXCEPT ![f] = "got"]
    BY <1>7 DEF Fill
  <2>2. got[f].balance \in 0 .. version
    BY <2>1
  <2>3. CASE UNCHANGED <<cache, raced>>
    BY <2>1, <2>3
  <2>4. CASE /\ cache' = got[f].balance
             /\ raced' = (\E i \in got[f].balance + 1 .. version : i \notin toInvalidate)
    <3>1. raced' \/ cache' + 1 .. version' \subseteq toInvalidate'
      BY <2>1, <2>4
    <3> QED
      BY <2>1, <2>2, <2>4, <3>1
  <2> QED
    BY <1>7, <2>3, <2>4 DEF Fill
<1>8. ASSUME NEW f \in Fetches, ReadList(f) PROVE CacheInv'
  BY <1>8 DEF ReadList
<1>9. ASSUME NEW f \in Fetches, Count(f) PROVE CacheInv'
  BY <1>9 DEF Count
<1>10. ASSUME NEW f \in Fetches, NEW p \in {"dashboard", "transactions", "send"}, Open(f, p)
       PROVE  CacheInv'
  BY <1>10 DEF Open
<1>11. ASSUME NEW f \in Fetches, ChooseFilter(f) PROVE CacheInv'
  BY <1>11 DEF ChooseFilter, Choose
<1>12. ASSUME NEW f \in Fetches, ChoosePage(f) PROVE CacheInv'
  BY <1>12 DEF ChoosePage, Choose
<1>13. ASSUME NEW f \in Fetches, Apply(f) PROVE CacheInv'
  BY <1>13 DEF Apply
<1>14. ASSUME NEW f \in Fetches, Clear(f) PROVE CacheInv'
  BY <1>14 DEF Clear
<1>15. ASSUME NEW f \in Fetches, Refresh(f) PROVE CacheInv'
  BY <1>15 DEF Refresh
<1>16. ASSUME NEW f \in Fetches, Search(f) PROVE CacheInv'
  BY <1>16 DEF Search
<1>17. ASSUME NEW f \in Fetches, Answer(f) PROVE CacheInv'
  BY <1>17 DEF Answer, Ends, IsRead, Kept
<1>18. ASSUME NEW f \in Fetches, AnswerError(f) PROVE CacheInv'
  BY <1>18 DEF AnswerError, Ends, IsRead
<1>19. ASSUME NEW f \in Fetches, NEW i \in 1 .. MaxChanges, Deliver(f, i) PROVE CacheInv'
  BY <1>19 DEF Deliver, Arrives
<1>20. ASSUME Type PROVE CacheInv'
  BY <1>20 DEF Type
<1>21. ASSUME TypeQuery PROVE CacheInv'
  BY <1>21 DEF TypeQuery
<1>22. CASE UNCHANGED vars
  BY <1>22 DEF vars
<1> QED
  BY <1>1, <1>2, <1>3, <1>4, <1>5, <1>6, <1>7, <1>8, <1>9, <1>10, <1>11, <1>12, <1>13, <1>14,
     <1>15, <1>16, <1>17, <1>18, <1>19, <1>20, <1>21, <1>22 DEF Next

(* An event comes after its writer has emptied the cache. *)
LEMMA ToldStep ==
    ASSUME TypeOK, ToldInv, [Next]_vars
    PROVE  ToldInv'
<1> USE ViewsAssumption DEF TypeOK, ToldInv, Versions, Writer, Server, Browser, Rest, NoSend,
        Fetch, Send, Move, writerVars, requestVars, pageVars
<1>1. ASSUME NEW k \in {"transfer", "payment", "scheduled"}, Change(k) PROVE ToldInv'
  BY <1>1 DEF Change
<1>2. ASSUME NEW i \in 1 .. MaxChanges, Invalidate(i) PROVE ToldInv'
  BY <1>2 DEF Invalidate
<1>3. ASSUME NEW i \in 1 .. MaxChanges, Lose(i) PROVE ToldInv'
  BY <1>3 DEF Lose
<1>4. ASSUME Expire PROVE ToldInv'
  BY <1>4 DEF Expire
<1>5. ASSUME NEW f \in Fetches, ReadCache(f) PROVE ToldInv'
  BY <1>5 DEF ReadCache
<1>6. ASSUME NEW f \in Fetches, ReadWallet(f) PROVE ToldInv'
  BY <1>6 DEF ReadWallet
<1>7. ASSUME NEW f \in Fetches, Fill(f) PROVE ToldInv'
  BY <1>7 DEF Fill
<1>8. ASSUME NEW f \in Fetches, ReadList(f) PROVE ToldInv'
  BY <1>8 DEF ReadList
<1>9. ASSUME NEW f \in Fetches, Count(f) PROVE ToldInv'
  BY <1>9 DEF Count
<1>10. ASSUME NEW f \in Fetches, NEW p \in {"dashboard", "transactions", "send"}, Open(f, p)
       PROVE  ToldInv'
  BY <1>10 DEF Open
<1>11. ASSUME NEW f \in Fetches, ChooseFilter(f) PROVE ToldInv'
  BY <1>11 DEF ChooseFilter, Choose
<1>12. ASSUME NEW f \in Fetches, ChoosePage(f) PROVE ToldInv'
  BY <1>12 DEF ChoosePage, Choose
<1>13. ASSUME NEW f \in Fetches, Apply(f) PROVE ToldInv'
  BY <1>13 DEF Apply
<1>14. ASSUME NEW f \in Fetches, Clear(f) PROVE ToldInv'
  BY <1>14 DEF Clear
<1>15. ASSUME NEW f \in Fetches, Refresh(f) PROVE ToldInv'
  BY <1>15 DEF Refresh
<1>16. ASSUME NEW f \in Fetches, Search(f) PROVE ToldInv'
  BY <1>16 DEF Search
<1>17. ASSUME NEW f \in Fetches, Answer(f) PROVE ToldInv'
  BY <1>17 DEF Answer, Ends, IsRead, Kept
<1>18. ASSUME NEW f \in Fetches, AnswerError(f) PROVE ToldInv'
  BY <1>18 DEF AnswerError, Ends, IsRead
<1>19. ASSUME NEW f \in Fetches, NEW i \in 1 .. MaxChanges, Deliver(f, i) PROVE ToldInv'
  BY <1>19 DEF Deliver, Arrives
<1>20. ASSUME Type PROVE ToldInv'
  BY <1>20 DEF Type
<1>21. ASSUME TypeQuery PROVE ToldInv'
  BY <1>21 DEF TypeQuery
<1>22. CASE UNCHANGED vars
  BY <1>22 DEF vars
<1> QED
  BY <1>1, <1>2, <1>3, <1>4, <1>5, <1>6, <1>7, <1>8, <1>9, <1>10, <1>11, <1>12, <1>13, <1>14,
     <1>15, <1>16, <1>17, <1>18, <1>19, <1>20, <1>21, <1>22 DEF Next

(* Every step keeps the dashboard as new as its events. *)
LEMMA DashboardStep ==
    ASSUME TypeOK, CacheInv, ToldInv, DashboardInv, ChoiceInv, [Next]_vars
    PROVE  DashboardInv'
<1> USE ViewsAssumption, TotalType DEF TypeOK, CacheInv, ToldInv, DashboardInv, ChoiceInv,
        Versions, InFlight, Current, Blank, Nothing, Unread, Writer, Server, Browser, Rest,
        NoSend, Fetch, Send, Move, writerVars, requestVars, pageVars
<1>1. ASSUME NEW k \in {"transfer", "payment", "scheduled"}, Change(k) PROVE DashboardInv'
  BY <1>1 DEF Change
<1>2. ASSUME NEW i \in 1 .. MaxChanges, Invalidate(i) PROVE DashboardInv'
  BY <1>2 DEF Invalidate
<1>3. ASSUME NEW i \in 1 .. MaxChanges, Lose(i) PROVE DashboardInv'
  BY <1>3 DEF Lose
<1>4. ASSUME Expire PROVE DashboardInv'
  BY <1>4 DEF Expire
<1>5. ASSUME NEW f \in Fetches, ReadCache(f) PROVE DashboardInv'
  <2>1. /\ UNCHANGED <<page, by, latest, told, shown, listPart>>
        /\ balancePart[f] = "cache"
        /\ balancePart' \in [Fetches -> {"idle", "cache", "db", "fill", "got"}]
        /\ \A g \in Fetches \ {f} : balancePart'[g] = balancePart[g] /\ got'[g] = got[g]
        /\ misled \subseteq misled'
    BY <1>5 DEF ReadCache
  <2>2. got'[f].list = got[f].list
    BY <1>5 DEF ReadCache, Readings
  <2>3. CASE balancePart' = [balancePart EXCEPT ![f] = "db"]
    BY <2>1, <2>2, <2>3
  <2>4. CASE /\ balancePart' = [balancePart EXCEPT ![f] = "got"] /\ cache # None
             /\ got' = [got EXCEPT ![f].balance = cache]
             /\ misled' = IF raced THEN misled \cup {f} ELSE misled
    <3>1. got'[f].balance = cache
      BY <2>4 DEF Readings
    <3>2. raced \/ cache >= told
      BY <2>4, ViewsAssumption
    <3>3. f \in misled' \/ ~raced
      BY <2>4
    <3> QED
      BY <2>1, <2>2, <2>4, <3>1, <3>2, <3>3
  <2> QED
    BY <1>5, <2>3, <2>4 DEF ReadCache
<1>6. ASSUME NEW f \in Fetches, ReadWallet(f) PROVE DashboardInv'
  BY <1>6 DEF ReadWallet
<1>7. ASSUME NEW f \in Fetches, Fill(f) PROVE DashboardInv'
  BY <1>7 DEF Fill
<1>8. ASSUME NEW f \in Fetches, ReadList(f) PROVE DashboardInv'
  BY <1>8 DEF ReadList
<1>9. ASSUME NEW f \in Fetches, Count(f) PROVE DashboardInv'
  BY <1>9 DEF Count
<1>10. ASSUME NEW f \in Fetches, NEW p \in {"dashboard", "transactions", "send"}, Open(f, p)
       PROVE  DashboardInv'
  BY <1>10 DEF Open
<1>11. ASSUME NEW f \in Fetches, ChooseFilter(f) PROVE DashboardInv'
  BY <1>11 DEF ChooseFilter, Choose
<1>12. ASSUME NEW f \in Fetches, ChoosePage(f) PROVE DashboardInv'
  BY <1>12 DEF ChoosePage, Choose
<1>13. ASSUME NEW f \in Fetches, Apply(f) PROVE DashboardInv'
  BY <1>13 DEF Apply
<1>14. ASSUME NEW f \in Fetches, Clear(f) PROVE DashboardInv'
  BY <1>14 DEF Clear
<1>15. ASSUME NEW f \in Fetches, Refresh(f) PROVE DashboardInv'
  BY <1>15 DEF Refresh
<1>16. ASSUME NEW f \in Fetches, Search(f) PROVE DashboardInv'
  BY <1>16 DEF Search
<1>17. ASSUME NEW f \in Fetches, Answer(f) PROVE DashboardInv'
  BY <1>17 DEF Answer, Ends, IsRead, Kept
<1>18. ASSUME NEW f \in Fetches, AnswerError(f) PROVE DashboardInv'
  BY <1>18 DEF AnswerError, Ends, IsRead
<1>19. ASSUME NEW f \in Fetches, NEW i \in 1 .. MaxChanges, Deliver(f, i) PROVE DashboardInv'
  BY <1>19 DEF Deliver, Arrives
<1>20. ASSUME Type PROVE DashboardInv'
  BY <1>20 DEF Type
<1>21. ASSUME TypeQuery PROVE DashboardInv'
  BY <1>21 DEF TypeQuery
<1>22. CASE UNCHANGED vars
  BY <1>22 DEF vars
<1> QED
  BY <1>1, <1>2, <1>3, <1>4, <1>5, <1>6, <1>7, <1>8, <1>9, <1>10, <1>11, <1>12, <1>13, <1>14,
     <1>15, <1>16, <1>17, <1>18, <1>19, <1>20, <1>21, <1>22 DEF Next

(* Every step keeps the latest request to what is chosen. *)
LEMMA ChoiceStep ==
    ASSUME TypeOK, DashboardInv, ChoiceInv, [Next]_vars
    PROVE  ChoiceInv'
<1> USE ViewsAssumption, TotalType DEF TypeOK, DashboardInv, ChoiceInv, Versions, InFlight,
        Current, IsSearch, Blank, Nothing, Writer, Server, Browser, Rest, NoSend, Fetch, Send,
        Move, writerVars, requestVars, pageVars
<1>1. ASSUME NEW k \in {"transfer", "payment", "scheduled"}, Change(k) PROVE ChoiceInv'
  BY <1>1 DEF Change
<1>2. ASSUME NEW i \in 1 .. MaxChanges, Invalidate(i) PROVE ChoiceInv'
  BY <1>2 DEF Invalidate
<1>3. ASSUME NEW i \in 1 .. MaxChanges, Lose(i) PROVE ChoiceInv'
  BY <1>3 DEF Lose
<1>4. ASSUME Expire PROVE ChoiceInv'
  BY <1>4 DEF Expire
<1>5. ASSUME NEW f \in Fetches, ReadCache(f) PROVE ChoiceInv'
  BY <1>5 DEF ReadCache
<1>6. ASSUME NEW f \in Fetches, ReadWallet(f) PROVE ChoiceInv'
  BY <1>6 DEF ReadWallet
<1>7. ASSUME NEW f \in Fetches, Fill(f) PROVE ChoiceInv'
  BY <1>7 DEF Fill
<1>8. ASSUME NEW f \in Fetches, ReadList(f) PROVE ChoiceInv'
  BY <1>8 DEF ReadList
<1>9. ASSUME NEW f \in Fetches, Count(f) PROVE ChoiceInv'
  BY <1>9 DEF Count
<1>10. ASSUME NEW f \in Fetches, NEW p \in {"dashboard", "transactions", "send"}, Open(f, p)
       PROVE  ChoiceInv'
  BY <1>10 DEF Open
<1>11. ASSUME NEW f \in Fetches, ChooseFilter(f) PROVE ChoiceInv'
  BY <1>11 DEF ChooseFilter, Choose
<1>12. ASSUME NEW f \in Fetches, ChoosePage(f) PROVE ChoiceInv'
  BY <1>12 DEF ChoosePage, Choose
<1>13. ASSUME NEW f \in Fetches, Apply(f) PROVE ChoiceInv'
  BY <1>13 DEF Apply
<1>14. ASSUME NEW f \in Fetches, Clear(f) PROVE ChoiceInv'
  BY <1>14 DEF Clear
<1>15. ASSUME NEW f \in Fetches, Refresh(f) PROVE ChoiceInv'
  BY <1>15 DEF Refresh
<1>16. ASSUME NEW f \in Fetches, Search(f) PROVE ChoiceInv'
  BY <1>16 DEF Search
<1>17. ASSUME NEW f \in Fetches, Answer(f) PROVE ChoiceInv'
  <2>1. /\ UNCHANGED <<page, want, timer, latest>> /\ by' = f /\ f \in InFlight
        /\ InFlight' = InFlight \ {f} /\ ask' = [ask EXCEPT ![f] = Nothing]
        /\ shown'.ask = IF page = "send" /\ ~IsSearch(f) THEN shown.ask ELSE ask[f]
    BY <1>17 DEF Answer, Ends, IsRead
  <2> QED
    BY <2>1
<1>18. ASSUME NEW f \in Fetches, AnswerError(f) PROVE ChoiceInv'
  BY <1>18 DEF AnswerError, Ends, IsRead
<1>19. ASSUME NEW f \in Fetches, NEW i \in 1 .. MaxChanges, Deliver(f, i) PROVE ChoiceInv'
  BY <1>19 DEF Deliver, Arrives
<1>20. ASSUME Type PROVE ChoiceInv'
  BY <1>20 DEF Type
<1>21. ASSUME TypeQuery PROVE ChoiceInv'
  <2>1. /\ page = "send" /\ page' = page /\ latest' = None /\ by' = None
        /\ UNCHANGED <<ask, balancePart, listPart>>
    BY <1>21 DEF TypeQuery
  <2>2. timer' => want'.query # None
    BY <1>21 DEF TypeQuery, Asks
  <2>3. None \notin InFlight'
    BY ViewsAssumption
  <2> QED
    BY <2>1, <2>2, <2>3
<1>22. CASE UNCHANGED vars
  BY <1>22 DEF vars
<1> QED
  BY <1>1, <1>2, <1>3, <1>4, <1>5, <1>6, <1>7, <1>8, <1>9, <1>10, <1>11, <1>12, <1>13, <1>14,
     <1>15, <1>16, <1>17, <1>18, <1>19, <1>20, <1>21, <1>22 DEF Next

(* Every step keeps a request out for a page that loads. *)
LEMMA LoadingStep ==
    ASSUME TypeOK, LoadingInv, ChoiceInv, [Next]_vars
    PROVE  LoadingInv'
<1> USE ViewsAssumption DEF TypeOK, LoadingInv, ChoiceInv, InFlight, Current, IsSearch, Writer,
        Server, Browser, Rest, NoSend, Fetch, Send, Move, writerVars, requestVars, pageVars
<1>1. ASSUME NEW k \in {"transfer", "payment", "scheduled"}, Change(k) PROVE LoadingInv'
  BY <1>1 DEF Change
<1>2. ASSUME NEW i \in 1 .. MaxChanges, Invalidate(i) PROVE LoadingInv'
  BY <1>2 DEF Invalidate
<1>3. ASSUME NEW i \in 1 .. MaxChanges, Lose(i) PROVE LoadingInv'
  BY <1>3 DEF Lose
<1>4. ASSUME Expire PROVE LoadingInv'
  BY <1>4 DEF Expire
<1>5. ASSUME NEW f \in Fetches, ReadCache(f) PROVE LoadingInv'
  BY <1>5 DEF ReadCache
<1>6. ASSUME NEW f \in Fetches, ReadWallet(f) PROVE LoadingInv'
  BY <1>6 DEF ReadWallet
<1>7. ASSUME NEW f \in Fetches, Fill(f) PROVE LoadingInv'
  BY <1>7 DEF Fill
<1>8. ASSUME NEW f \in Fetches, ReadList(f) PROVE LoadingInv'
  BY <1>8 DEF ReadList
<1>9. ASSUME NEW f \in Fetches, Count(f) PROVE LoadingInv'
  BY <1>9 DEF Count
<1>10. ASSUME NEW f \in Fetches, NEW p \in {"dashboard", "transactions", "send"}, Open(f, p)
       PROVE  LoadingInv'
  BY <1>10 DEF Open
<1>11. ASSUME NEW f \in Fetches, ChooseFilter(f) PROVE LoadingInv'
  BY <1>11 DEF ChooseFilter, Choose
<1>12. ASSUME NEW f \in Fetches, ChoosePage(f) PROVE LoadingInv'
  BY <1>12 DEF ChoosePage, Choose
<1>13. ASSUME NEW f \in Fetches, Apply(f) PROVE LoadingInv'
  BY <1>13 DEF Apply
<1>14. ASSUME NEW f \in Fetches, Clear(f) PROVE LoadingInv'
  BY <1>14 DEF Clear
<1>15. ASSUME NEW f \in Fetches, Refresh(f) PROVE LoadingInv'
  BY <1>15 DEF Refresh
<1>16. ASSUME NEW f \in Fetches, Search(f) PROVE LoadingInv'
  BY <1>16 DEF Search
<1>17. ASSUME NEW f \in Fetches, Answer(f) PROVE LoadingInv'
  BY <1>17 DEF Answer, Ends, IsRead, Kept
<1>18. ASSUME NEW f \in Fetches, AnswerError(f) PROVE LoadingInv'
  BY <1>18 DEF AnswerError, Ends, IsRead
<1>19. ASSUME NEW f \in Fetches, NEW i \in 1 .. MaxChanges, Deliver(f, i) PROVE LoadingInv'
  BY <1>19 DEF Deliver, Arrives
<1>20. ASSUME Type PROVE LoadingInv'
  BY <1>20 DEF Type
<1>21. ASSUME TypeQuery PROVE LoadingInv'
  BY <1>21 DEF TypeQuery
<1>22. CASE UNCHANGED vars
  BY <1>22 DEF vars
<1> QED
  BY <1>1, <1>2, <1>3, <1>4, <1>5, <1>6, <1>7, <1>8, <1>9, <1>10, <1>11, <1>12, <1>13, <1>14,
     <1>15, <1>16, <1>17, <1>18, <1>19, <1>20, <1>21, <1>22 DEF Next

-----------------------------------------------------------------------------
(* The parts together hold of every state. *)
LEMMA Invariance == Spec => []IInv
<1>1. Init => IInv
  <2> SUFFICES ASSUME Init PROVE IInv
    OBVIOUS
  <2>1. TypeOK
    <3>1. 0 \in Versions /\ 0 \in 0 .. MaxMishaps
      BY ViewsAssumption DEF Versions
    <3> QED
      BY <3>1, EmptyTypes DEF Init, TypeOK
  <2>2. InFlight = {} /\ by = None /\ page = "away"
    BY DEF Init, InFlight, Current
  <2>3. CacheInv /\ ToldInv
    BY DEF Init, CacheInv, ToldInv
  <2>4. DashboardInv /\ ChoiceInv /\ LoadingInv
    BY <2>2 DEF Init, DashboardInv, ChoiceInv, LoadingInv
  <2> QED
    BY <2>1, <2>3, <2>4 DEF IInv
<1>2. IInv /\ [Next]_vars => IInv'
  BY TypeStep, CacheStep, ToldStep, DashboardStep, ChoiceStep, LoadingStep DEF IInv
<1> QED
  BY <1>1, <1>2, PTL DEF Spec

(* The cache, the requests and the pages keep their types                  *)
(* (balanceCache.js, walletController.js, Dashboard, Transactions and      *)
(* SendMoney).                                                             *)
THEOREM ViewsTypes == Spec => []TypeOK
<1>1. IInv => TypeOK
  BY DEF IInv
<1> QED
  BY <1>1, Invariance, PTL

(* A cached balance is the wallet's present one or is about to be emptied, *)
(* unless a reader filled the cache behind a writer, a payment came or     *)
(* Redis failed, for every number of requests and writers                  *)
(* (balanceCache.js: setBalance, invalidateMany).                          *)
THEOREM CacheStaysFresh == Spec => []CacheIsFresh
<1>1. IInv => CacheIsFresh
  <2> SUFFICES ASSUME IInv, cache # None, ~raced, cache # version
               PROVE  toInvalidate # {}
    BY DEF CacheIsFresh
  <2>1. cache \in Nat /\ version \in Nat /\ cache <= version
    BY ViewsAssumption DEF IInv, TypeOK, CacheInv, Versions
  <2>2. version \in cache + 1 .. version
    BY <2>1
  <2> QED
    BY <2>2 DEF IInv, CacheInv
<1> QED
  BY <1>1, Invariance, PTL

(* The answer to the dashboard's latest request shows every event the      *)
(* visit has received, its balance too unless it came from a cache that    *)
(* had missed its writer, however requests, events and writers interleave  *)
(* (SocketContext: walletUpdate, Dashboard.js: fetchData).                 *)
THEOREM EventsShow == Spec => []EventsAreShown
<1>1. IInv => EventsAreShown
  BY DEF IInv, DashboardInv, EventsAreShown
<1> QED
  BY <1>1, Invariance, PTL

(* In whatever order answers come back, that to the latest request is an   *)
(* answer to what is chosen on Transactions and SendMoney, and a page that *)
(* loads waits for a request, unless the click was in vain                 *)
(* (Transactions.js: fetchTransactions, SendMoney.js: searchUsers).        *)
THEOREM LatestIsShown == Spec => []LatestIsChosen
<1>1. IInv => LatestIsChosen
  BY DEF IInv, ChoiceInv, LoadingInv, LatestIsChosen
<1> QED
  BY <1>1, Invariance, PTL
=============================================================================
