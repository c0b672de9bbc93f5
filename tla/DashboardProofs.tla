--------------------------- MODULE DashboardProofs ---------------------------
(***************************************************************************)
(* Theorems about the page, for any airports, any number of requests and   *)
(* polls under way and any number of clicks.  What the page shows follows  *)
(* from who the latest request was for and what its answer may still       *)
(* change: that is IndInv.                                                 *)
(***************************************************************************)
EXTENDS Dashboard, TLAPS

USE AirportsAssumption, BoundsAssumption, NamesAssumption

\* The airport the page shows, or will once the transition is rendered.
Target == IF chosen # None THEN chosen ELSE sel

IsLatest(r) == r \in DOMAIN requests /\ requests[r].latest
NoLatest == \A r \in DOMAIN requests : ~requests[r].latest

\* Only one request is the latest.
OneLatest == \A q, r \in DOMAIN requests : requests[q].latest /\ requests[r].latest => q = r

\* Until the bootstrap request is answered nothing else is under way; after that no
\* other one is sent.
Opening ==
  /\ sel = None =>
       /\ chosen = None /\ items.version = 0 /\ collecting = "no" /\ DOMAIN polls = {}
       /\ \A r \in DOMAIN requests : requests[r].by = "boot" /\ requests[r].latest
  /\ \A r \in DOMAIN requests : requests[r].by = "boot" => sel = None

\* The latest request has been, or will be, answered with data no older than those
\* shown.
LatestIsNewer ==
  /\ items.version <= backend
  /\ \A r \in DOMAIN requests :
       requests[r].latest /\ requests[r].version # Waiting =>
         items.version <= requests[r].version /\ requests[r].version <= backend

\* The latest request is for the airport shown, or else its answer was that and is
\* shown; the clicked-for airport of a manual collection is the exception.
LatestForTarget ==
  prompt /\ sel # None =>
    /\ \A r \in DOMAIN requests :
         requests[r].latest => requests[r].by = "collect" \/ requests[r].for = Target
    /\ \A p \in DOMAIN polls : polls[p].active => polls[p].for = sel
    /\ NoLatest => failed \/ items.clicked \/ items.for \in {All, Target}

\* Unless an answer is awaited or failed, the analytics are, or are to be, the
\* airport's own.
AnalyticsForTarget ==
  prompt /\ sel # None /\ NoLatest /\ ~failed =>
    fetching = Target \/ (fetching = None /\ (analyticsError \/ analytics = Target))

\* The placeholder waits for the latest request, unless a silent one overtook it.
LatestShows ==
  loading /\ ~overtaken /\ sel # None =>
    \E r \in DOMAIN requests : requests[r].latest /\ requests[r].show

\* The cookie holds the last selection, and localStorage where it can be used.
Remembered == cookie = last /\ (storageWorks => stored = last)

IndInv ==
  /\ OneLatest /\ Opening /\ LatestIsNewer /\ LatestForTarget
  /\ AnalyticsForTarget /\ LatestShows /\ Remembered
-----------------------------------------------------------------------------
(* Slots: what is under way after something was sent or has come back.      *)

\* A slot that is freed is empty; the other slots stay as they are.
LEMMA FreedFacts ==
  ASSUME NEW f, NEW s
  PROVE  /\ DOMAIN Freed(f, s) = DOMAIN f \ {s}
         /\ \A t \in DOMAIN f \ {s} : Freed(f, s)[t] = f[t]
  BY DEF Freed, Restrict

\* A slot that is picked is free.
LEMMA FreeSlotFacts ==
  ASSUME NEW slots, NEW f, slots \ DOMAIN f # {}
  PROVE  FreeSlot(slots, f) \in slots \ DOMAIN f
<1>1. \E s \in slots : s \notin DOMAIN f
  OBVIOUS
<1> QED  BY <1>1 DEF FreeSlot

\* What is under way is well-typed when each slot is.
LEMMA SlotsTyped ==
  ASSUME NEW f, NEW T
  PROVE  Range(f) \subseteq T <=> \A s \in DOMAIN f : f[s] \in T
  BY DEF Range

\* A request that is sent is the latest one, and waits; the others stay what they
\* are, but the latest.
LEMMA SendFacts ==
  ASSUME TypeOK, NEW airport \in Airports, NEW show \in BOOLEAN,
         NEW by \in {"user", "poll", "collect"}, Send(airport, show, by)
  PROVE  \E s \in Requests \ DOMAIN requests :
           /\ DOMAIN requests' = DOMAIN requests \cup {s}
           /\ requests'[s] = Fresh(airport, show, by)
           /\ \A q \in DOMAIN requests :
                requests'[q] = [requests[q] EXCEPT !.latest = FALSE]
<1> DEFINE s == FreeSlot(Requests, requests)
           old == [q \in DOMAIN requests |-> [requests[q] EXCEPT !.latest = FALSE]]
<1>1. s \in Requests \ DOMAIN requests
  BY FreeSlotFacts DEF Send
<1>2. requests' = Put(old, s, Fresh(airport, show, by))
  BY DEF Send
<1>3. DOMAIN old = DOMAIN requests
  OBVIOUS
<1> HIDE DEF s, old
<1>4. \A q \in DOMAIN requests : requests'[q] = old[q]
  BY <1>1, <1>2, <1>3 DEF Put
<1>5. \A q \in DOMAIN requests : old[q] = [requests[q] EXCEPT !.latest = FALSE]
  BY DEF old
<1>6. DOMAIN requests' = DOMAIN requests \cup {s} /\ requests'[s] = Fresh(airport, show, by)
  BY <1>2, <1>3 DEF Put
<1> QED  BY <1>1, <1>4, <1>5, <1>6

\* The page opens with one request, the bootstrap's.
LEMMA BootstrapFacts ==
  \E s \in Requests : DOMAIN Bootstrap = {s} /\ Bootstrap[s] = Fresh(All, TRUE, "boot")
<1>1. DOMAIN <<>> = {}
  OBVIOUS
<1>2. FreeSlot(Requests, <<>>) \in Requests
  BY <1>1, FreeSlotFacts
<1> DEFINE s == FreeSlot(Requests, <<>>)
<1> HIDE DEF s
<1>3. DOMAIN Bootstrap = {s} /\ Bootstrap[s] = Fresh(All, TRUE, "boot")
  BY <1>1 DEF Bootstrap, Put, s
<1>4. s \in Requests
  BY <1>2 DEF s
<1> QED  BY <1>3, <1>4
-----------------------------------------------------------------------------
(* Types.                                                                   *)

\* Sending keeps the slots typed.
LEMMA SendTyped ==
  ASSUME TypeOK, NEW airport \in Airports, NEW show \in BOOLEAN,
         NEW by \in {"user", "poll", "collect"}, Send(airport, show, by)
  PROVE  DOMAIN requests' \subseteq Requests /\ Range(requests') \subseteq Request
<1>1. PICK s \in Requests \ DOMAIN requests :
           /\ DOMAIN requests' = DOMAIN requests \cup {s}
           /\ requests'[s] = Fresh(airport, show, by)
           /\ \A q \in DOMAIN requests :
                requests'[q] = [requests[q] EXCEPT !.latest = FALSE]
  BY ONLY TypeOK, airport \in Airports, show \in BOOLEAN, by \in {"user", "poll", "collect"},
          Send(airport, show, by), SendFacts
<1>2. \A q \in DOMAIN requests : requests[q] \in Request
  BY SlotsTyped DEF TypeOK
<1>3. \A q \in DOMAIN requests : requests'[q] \in Request
  <2>1. \A q \in Request : [q EXCEPT !.latest = FALSE] \in Request
    BY DEF Request
  <2> QED  BY <1>1, <1>2, <2>1
<1>4. Fresh(airport, show, by) \in Request
  BY DEF Fresh, Request, Waiting
<1>5. \A q \in DOMAIN requests' : requests'[q] \in Request
  BY <1>1, <1>3, <1>4
<1> QED  BY <1>1, <1>5, SlotsTyped DEF TypeOK

\* So does freeing a slot.
LEMMA FreedTyped ==
  ASSUME NEW f, NEW s, NEW S, NEW T, DOMAIN f \subseteq S, Range(f) \subseteq T
  PROVE  DOMAIN Freed(f, s) \subseteq S /\ Range(Freed(f, s)) \subseteq T
<1>1. \A t \in DOMAIN f : f[t] \in T
  BY SlotsTyped
<1>2. \A t \in DOMAIN Freed(f, s) : Freed(f, s)[t] \in T
  BY <1>1 DEF Freed, Restrict
<1>3. DOMAIN Freed(f, s) \subseteq S
  BY FreedFacts
<1> QED  BY <1>2, <1>3, SlotsTyped

\* The bootstrap request is one.
LEMMA BootstrapTyped == DOMAIN Bootstrap \subseteq Requests /\ Range(Bootstrap) \subseteq Request
<1>1. PICK s \in Requests : DOMAIN Bootstrap = {s} /\ Bootstrap[s] = Fresh(All, TRUE, "boot")
  BY BootstrapFacts
<1>2. Fresh(All, TRUE, "boot") \in Request
  BY DEF Fresh, Request, Waiting
<1>3. DOMAIN Bootstrap \subseteq Requests /\ \A q \in DOMAIN Bootstrap : Bootstrap[q] \in Request
  BY ONLY <1>1, <1>2
<1> QED  BY ONLY <1>3, SlotsTyped

\* A selection read back is an airport or none.
LEMMA ReadSelectionTyped ==
  ASSUME TypeOK
  PROVE  ReadSelection \in Airports \cup {None}
  BY DEF ReadSelection, TypeOK

\* What the page does when an answer arrives keeps the types.
LEMMA AnswerTyped ==
  ASSUME TypeOK, NEW r \in Requests,
         BootstrapOk(r) \/ BootstrapFails(r) \/ LoadOk(r) \/ LoadFails(r) \/ LoadStale(r)
  PROVE  TypeOK'
<1>1. r \in DOMAIN requests /\ requests[r] \in Request
  BY SlotsTyped DEF BootstrapOk, BootstrapFails, LoadOk, LoadFails, LoadStale, Answered, TypeOK
<1>2. requests' = Freed(requests, r)
  BY DEF BootstrapOk, BootstrapFails, LoadOk, LoadFails, LoadStale, Returned
<1>3. DOMAIN requests' \subseteq Requests /\ Range(requests') \subseteq Request
  BY <1>2, FreedTyped DEF TypeOK
<1> DEFINE Items == [for : Airports \cup {All, None}, version : 0..MaxVersion, clicked : BOOLEAN]
<1>0. /\ requests[r].version \in 0..MaxVersion /\ requests[r].for \in Airports \cup {All}
      /\ [for |-> All, version |-> requests[r].version, clicked |-> FALSE] \in Items
      /\ Shown(r) \in Items
  BY <1>1 DEF Request, Waiting, Shown
<1>4. CASE BootstrapOk(r)
  BY <1>0, <1>3, <1>4 DEF BootstrapOk, TypeOK, FetchAnalytics, WriteSelection, rigid
<1>5. CASE BootstrapFails(r)
  BY <1>3, <1>5 DEF BootstrapFails, TypeOK, hook, storage, rigid
<1>6. CASE LoadOk(r)
  <2>1. items' \in Items /\ marker' \in 0..MaxVersion
    BY <1>0, <1>6 DEF LoadOk
  <2>2. /\ {loading', error', failed', overtaken', inFlight', analyticsError'} \subseteq BOOLEAN
        /\ collecting' \in {"no", "loading"} \cup Airports
        /\ {analytics', fetching', stored', cookie', last'} \subseteq Airports \cup {None}
    <3>1. /\ failed' = FALSE /\ analyticsError' = FALSE
          /\ loading' \in BOOLEAN /\ inFlight' \in BOOLEAN
          /\ overtaken' = overtaken /\ error' = error
      BY <1>6 DEF LoadOk, Returned, FetchAnalytics
    <3>2. collecting' \in {"no", collecting}
      BY <1>6 DEF LoadOk, Returned
    <3>3. /\ fetching' = sel /\ analytics' = analytics
          /\ stored' = stored /\ cookie' = cookie /\ last' = last
      BY <1>6 DEF LoadOk, FetchAnalytics, storage
    <3> QED
      BY <3>1, <3>2, <3>3 DEF TypeOK
  <2>3. /\ backend' \in 1..MaxVersion /\ clicks' \in 0..MaxClicks
        /\ sel' \in Airports \cup {None} /\ chosen' \in Airports \cup {None}
        /\ {manual', prompt', slow', storageWorks'} \subseteq BOOLEAN
    BY <1>6 DEF LoadOk, TypeOK, storage, rigid
  <2>4. DOMAIN polls' \subseteq Polls /\ Range(polls') \subseteq Poll
    BY <1>6 DEF LoadOk, TypeOK
  <2> QED
    BY ONLY <1>3, <2>1, <2>2, <2>3, <2>4 DEF TypeOK
<1>7. CASE LoadFails(r)
  BY <1>3, <1>7 DEF LoadFails, TypeOK, Returned, hook, storage, rigid
<1>8. CASE LoadStale(r)
  BY <1>3, <1>8 DEF LoadStale, TypeOK, Returned, hook, storage, rigid
<1> QED  BY <1>4, <1>5, <1>6, <1>7, <1>8

\* So does the rest of what the backend does, and what a status answer brings.
LEMMA PollTyped ==
  ASSUME TypeOK,
         \/ CollectorStores
         \/ \E r \in Requests : AnswerRequest(r)
         \/ \E p \in Polls : AnswerPoll(p) \/ PollOk(p) \/ PollFails(p)
         \/ StartPoll
  PROVE  TypeOK'
<1>1. CASE CollectorStores
  BY <1>1 DEF CollectorStores, TypeOK, hook, storage, rigid
<1>2. ASSUME NEW r \in Requests, AnswerRequest(r)
      PROVE  TypeOK'
  <2>1. \A q \in DOMAIN requests : requests[q] \in Request
    BY SlotsTyped DEF TypeOK
  <2>2. \A q \in DOMAIN requests' : requests'[q] \in Request
    <3>1. \A q \in Request : [q EXCEPT !.version = backend] \in Request
      BY DEF Request, Waiting, TypeOK
    <3> QED  BY <1>2, <2>1, <3>1 DEF AnswerRequest
  <2>3. DOMAIN requests' = DOMAIN requests
    BY <1>2 DEF AnswerRequest
  <2> QED  BY <1>2, <2>2, <2>3, SlotsTyped DEF AnswerRequest, TypeOK, hook, storage, rigid
<1>3. ASSUME NEW p \in Polls, AnswerPoll(p)
      PROVE  TypeOK'
  <2>1. \A q \in DOMAIN polls : polls[q] \in Poll
    BY SlotsTyped DEF TypeOK
  <2>2. \A q \in DOMAIN polls' : polls'[q] \in Poll
    <3>1. \A q \in Poll : [q EXCEPT !.version = backend] \in Poll
      BY DEF Poll, Waiting, TypeOK
    <3> QED  BY <1>3, <2>1, <3>1 DEF AnswerPoll
  <2>3. DOMAIN polls' = DOMAIN polls
    BY <1>3 DEF AnswerPoll
  <2> QED  BY <1>3, <2>2, <2>3, SlotsTyped DEF AnswerPoll, TypeOK, hook, storage, rigid
<1>4. ASSUME NEW p \in Polls, PollOk(p)
      PROVE  TypeOK'
  <2>1. DOMAIN polls' \subseteq Polls /\ Range(polls') \subseteq Poll
    BY <1>4, FreedTyped DEF PollOk, PollReturns, TypeOK
  <2>2. polls[p] \in Poll
    BY <1>4, SlotsTyped DEF PollOk, TypeOK
  <2>3. CASE Send(polls[p].for, FALSE, "poll")
    <3>1. DOMAIN requests' \subseteq Requests /\ Range(requests') \subseteq Request
      BY <2>2, <2>3, SendTyped DEF Poll
    <3>2. loading' = loading /\ overtaken' = loading /\ error' = FALSE
      BY <2>3 DEF Send, TypeOK
    <3> QED  BY <1>4, <2>1, <3>1, <3>2 DEF PollOk, TypeOK, hook, storage, rigid
  <2>4. CASE UNCHANGED <<requests, loading, error, overtaken>>
    BY <1>4, <2>1, <2>4 DEF PollOk, TypeOK, hook, storage, rigid
  <2> QED  BY <1>4, <2>3, <2>4 DEF PollOk
<1>5. ASSUME NEW p \in Polls, PollFails(p)
      PROVE  TypeOK'
  <2>1. DOMAIN polls' \subseteq Polls /\ Range(polls') \subseteq Poll
    BY <1>5, FreedTyped DEF PollFails, PollReturns, TypeOK
  <2> QED  BY <1>5, <2>1 DEF PollFails, TypeOK, hook, storage, rigid
<1>6. CASE StartPoll
  <2> DEFINE s == FreeSlot(Polls, polls)
             x == [for |-> sel, active |-> TRUE, version |-> Waiting]
  <2>1. s \in Polls /\ x \in Poll
    BY <1>6, FreeSlotFacts DEF StartPoll, Poll, Waiting, TypeOK
  <2>2. polls' = Put(polls, s, x)
    BY <1>6 DEF StartPoll
  <2> HIDE DEF s, x
  <2>3. \A q \in DOMAIN polls : polls[q] \in Poll
    BY SlotsTyped DEF TypeOK
  <2>4. \A q \in DOMAIN polls' : polls'[q] \in Poll
    BY <2>1, <2>2, <2>3 DEF Put
  <2>5. DOMAIN polls' \subseteq Polls
    BY <2>1, <2>2 DEF Put, TypeOK
  <2> QED  BY <1>6, <2>4, <2>5, SlotsTyped DEF StartPoll, TypeOK, hook, storage, rigid
<1> QED  BY <1>1, <1>2, <1>3, <1>4, <1>5, <1>6

\* And what the user does, analytics answers, collections and transitions.
LEMMA ClickTyped ==
  ASSUME TypeOK,
         CommitTransition \/ AnalyticsOk \/ AnalyticsFails \/ CollectDone \/ CollectFails
         \/ (\E airport \in Airports : ChooseAirport(airport)) \/ Refresh \/ Collect \/ Reload
  PROVE  TypeOK'
<1>0. clicks < MaxClicks /\ clicks' = clicks + 1 => clicks' \in 0..MaxClicks
  BY DEF TypeOK
<1>1. CASE CommitTransition
  <2>1. \A q \in DOMAIN polls : polls[q] \in Poll
    BY SlotsTyped DEF TypeOK
  <2>2. \A q \in Poll : [q EXCEPT !.active = FALSE] \in Poll
    BY DEF Poll
  <2>3. DOMAIN polls' = DOMAIN polls /\ \A q \in DOMAIN polls' : polls'[q] \in Poll
    BY <1>1, <2>1, <2>2 DEF CommitTransition
  <2> QED  BY <1>1, <2>3, SlotsTyped DEF CommitTransition, WriteSelection, TypeOK, hook, rigid
<1>2. CASE AnalyticsOk \/ AnalyticsFails
  BY <1>2 DEF AnalyticsOk, AnalyticsFails, TypeOK, data, storage, rigid
<1>3. CASE CollectDone
  <2>1. DOMAIN requests' \subseteq Requests /\ Range(requests') \subseteq Request
    BY <1>3, SendTyped DEF CollectDone
  <2>2. loading' = TRUE /\ overtaken' = FALSE /\ error' = FALSE
    BY <1>3 DEF CollectDone, Send, TypeOK
  <2> QED  BY <1>3, <2>1, <2>2 DEF CollectDone, TypeOK, hook, storage, rigid
<1>4. CASE CollectFails
  BY <1>4 DEF CollectFails, TypeOK, hook, storage, rigid
<1>5. ASSUME NEW airport \in Airports, ChooseAirport(airport)
      PROVE  TypeOK'
  <2>1. DOMAIN requests' \subseteq Requests /\ Range(requests') \subseteq Request
    BY <1>5, SendTyped DEF ChooseAirport
  <2>2. loading' = TRUE /\ overtaken' = FALSE /\ error' = FALSE
    BY <1>5 DEF ChooseAirport, Send, TypeOK
  <2> QED  BY <1>0, <1>5, <2>1, <2>2 DEF ChooseAirport, Click, TypeOK, hook, storage, rigid
<1>6. CASE Refresh
  <2>1. DOMAIN requests' \subseteq Requests /\ Range(requests') \subseteq Request
    BY <1>6, SendTyped DEF Refresh, Click, TypeOK
  <2>2. loading' = TRUE /\ overtaken' = FALSE /\ error' = FALSE
    BY <1>6 DEF Refresh, Send, TypeOK
  <2> QED  BY <1>0, <1>6, <2>1, <2>2 DEF Refresh, Click, TypeOK, hook, storage, rigid
<1>7. CASE Collect
  BY <1>0, <1>7 DEF Collect, Click, TypeOK, hook, storage, rigid
<1>8. CASE Reload
  <2>1. requests' = Bootstrap /\ polls' = <<>>
    BY <1>8 DEF Reload, OpenPage
  <2>2. DOMAIN requests' \subseteq Requests /\ Range(requests') \subseteq Request
    BY <2>1, BootstrapTyped
  <2>3. DOMAIN polls' \subseteq Polls /\ Range(polls') \subseteq Poll
    <3>1. DOMAIN polls' = {}
      BY <2>1
    <3> QED  BY <3>1, SlotsTyped
  <2>4. /\ items' \in [for : Airports \cup {All, None}, version : 0..MaxVersion, clicked : BOOLEAN]
        /\ marker' \in 0..MaxVersion
    BY <1>8 DEF Reload, OpenPage
  <2>5. {loading, error, failed, overtaken, inFlight, analyticsError}' \subseteq BOOLEAN
    BY <1>8 DEF Reload, OpenPage
  <2>6. {analytics, fetching, stored, cookie, last}' \subseteq Airports \cup {None}
    BY <1>8 DEF Reload, OpenPage, storage, TypeOK
  <2> QED  BY <1>0, <1>8, <2>2, <2>3, <2>4, <2>5, <2>6 DEF Reload, OpenPage, TypeOK, storage, rigid
<1> QED  BY <1>1, <1>2, <1>3, <1>4, <1>5, <1>6, <1>7, <1>8
-----------------------------------------------------------------------------
(* The inductive invariant.                                                 *)

\* Sending a request for the airport shown, or one after a collection, makes it the
\* latest; what an earlier one may still bring no longer counts.
LEMMA SendKeepsIndInv ==
  ASSUME TypeOK, IndInv, sel # None,
         NEW airport \in Airports, NEW show \in BOOLEAN, NEW by \in {"user", "poll", "collect"},
         Send(airport, show, by), prompt => by = "collect" \/ airport = Target',
         UNCHANGED <<sel, items, storage>>, backend' \in Nat, backend <= backend',
         DOMAIN polls' \subseteq DOMAIN polls, \A p \in DOMAIN polls' : polls'[p] = polls[p]
  PROVE  IndInv'
<1>1. PICK s \in Requests \ DOMAIN requests :
           /\ DOMAIN requests' = DOMAIN requests \cup {s}
           /\ requests'[s] = Fresh(airport, show, by)
           /\ \A q \in DOMAIN requests :
                requests'[q] = [requests[q] EXCEPT !.latest = FALSE]
  BY ONLY TypeOK, airport \in Airports, show \in BOOLEAN, by \in {"user", "poll", "collect"},
          Send(airport, show, by), SendFacts
<1>2. \A q \in DOMAIN requests : requests[q] \in Request
  BY SlotsTyped DEF TypeOK
<1>3. \A q \in DOMAIN requests : ~requests'[q].latest /\ requests'[q].by = requests[q].by
  BY <1>1, <1>2 DEF Request
<1>4. /\ requests'[s].latest /\ requests'[s].by = by /\ requests'[s].for = airport
      /\ requests'[s].show = show /\ requests'[s].version = Waiting
  BY <1>1 DEF Fresh
<1>5. OneLatest'
  BY <1>1, <1>3 DEF OneLatest
<1>6. Opening'
  BY <1>1, <1>3, <1>4 DEF IndInv, Opening
<1>7. LatestIsNewer'
  <2>1. items.version \in Nat /\ backend \in Nat
    BY DEF TypeOK
  <2> QED  BY <1>1, <1>3, <1>4, <2>1 DEF IndInv, LatestIsNewer
<1>8. ~NoLatest'
  BY <1>1, <1>4 DEF NoLatest
<1>9. LatestForTarget'
  BY <1>1, <1>3, <1>4, <1>8 DEF IndInv, LatestForTarget, storage, rigid
<1>10. AnalyticsForTarget'
  BY <1>8 DEF AnalyticsForTarget
<1>11. LatestShows'
  BY <1>1, <1>4 DEF Send, LatestShows
<1>12. Remembered'
  BY DEF IndInv, Remembered, storage, rigid
<1> QED  BY <1>5, <1>6, <1>7, <1>9, <1>10, <1>11, <1>12 DEF IndInv

\* A step that leaves the requests and what is shown alone keeps it.
LEMMA StayKeepsIndInv ==
  ASSUME TypeOK, IndInv,
         UNCHANGED <<requests, sel, chosen, items, storage, failed, overtaken, loading>>,
         backend' \in Nat, backend <= backend',
         sel = None => DOMAIN polls' = {} /\ collecting' = "no",
         \A p \in DOMAIN polls' : polls'[p].active =>
           \/ polls'[p].for = sel
           \/ p \in DOMAIN polls /\ polls[p].active /\ polls'[p].for = polls[p].for,
         AnalyticsForTarget'
  PROVE  IndInv'
<1>1. OneLatest' /\ LatestShows' /\ Remembered'
  BY DEF IndInv, OneLatest, LatestShows, Remembered, storage, rigid
<1>2. Opening'
  BY DEF IndInv, Opening
<1>3. LatestIsNewer'
  <2>1. items.version \in Nat /\ backend \in Nat
    BY DEF TypeOK
  <2>2. \A r \in DOMAIN requests : requests[r].version \in Nat
    <3>1. \A r \in DOMAIN requests : requests[r] \in Request
      BY SlotsTyped DEF TypeOK
    <3> QED  BY <3>1 DEF Request, Waiting
  <2> QED  BY <2>1, <2>2 DEF IndInv, LatestIsNewer
<1>4. LatestForTarget'
  BY DEF IndInv, LatestForTarget, Target, NoLatest, storage, rigid
<1> QED  BY <1>1, <1>2, <1>3, <1>4 DEF IndInv

\* An answer of the backend is of its current data.
LEMMA AnswerRequestKeepsIndInv ==
  ASSUME TypeOK, IndInv, NEW r \in Requests, AnswerRequest(r)
  PROVE  IndInv'
<1>1. /\ DOMAIN requests' = DOMAIN requests
      /\ \A q \in DOMAIN requests :
           /\ requests'[q].latest = requests[q].latest /\ requests'[q].by = requests[q].by
           /\ requests'[q].for = requests[q].for /\ requests'[q].show = requests[q].show
           /\ requests'[q].version = requests[q].version \/ requests'[q].version = backend
  <2>1. \A q \in DOMAIN requests : requests[q] \in Request
    BY SlotsTyped DEF TypeOK
  <2>2. \A q \in Request : LET n == [q EXCEPT !.version = backend]
                           IN  /\ n.latest = q.latest /\ n.by = q.by /\ n.for = q.for
                               /\ n.show = q.show /\ n.version = backend
    BY DEF Request
  <2> QED  BY <2>1, <2>2 DEF AnswerRequest
<1>2. UNCHANGED <<backend, sel, chosen, items, storage, failed, overtaken, loading, polls,
                  collecting, hook>>
  BY DEF AnswerRequest
<1>3. OneLatest' /\ LatestShows' /\ Remembered'
  BY <1>1, <1>2 DEF IndInv, OneLatest, LatestShows, Remembered, storage, rigid
<1>4. Opening'
  BY <1>1, <1>2 DEF IndInv, Opening
<1>5. LatestIsNewer'
  <2>1. backend \in Nat
    BY DEF TypeOK
  <2> QED  BY <1>1, <1>2, <2>1 DEF IndInv, LatestIsNewer
<1>6. NoLatest' <=> NoLatest
  BY <1>1 DEF NoLatest
<1>7. LatestForTarget' /\ AnalyticsForTarget'
  BY <1>1, <1>2, <1>6 DEF IndInv, LatestForTarget, AnalyticsForTarget, Target, storage, rigid, hook
<1> QED  BY <1>3, <1>4, <1>5, <1>7 DEF IndInv

\* An answer that is no longer the latest changes nothing that is shown.
LEMMA LoadStaleKeepsIndInv ==
  ASSUME TypeOK, IndInv, NEW r \in Requests, LoadStale(r)
  PROVE  IndInv'
<1>1. /\ ~requests[r].latest /\ requests[r].by # "boot" /\ r \in DOMAIN requests
      /\ DOMAIN requests' = DOMAIN requests \ {r}
      /\ \A q \in DOMAIN requests \ {r} : requests'[q] = requests[q]
  BY FreedFacts DEF LoadStale, Returned, Answered
<1>2. UNCHANGED <<backend, sel, chosen, items, storage, failed, overtaken, loading, polls, hook>>
  BY DEF LoadStale
<1>3. sel # None
  BY <1>1 DEF IndInv, Opening
<1>4. OneLatest' /\ LatestShows' /\ Remembered'
  BY <1>1, <1>2 DEF IndInv, OneLatest, LatestShows, Remembered, storage, rigid
<1>5. Opening'
  BY <1>1, <1>2, <1>3 DEF IndInv, Opening
<1>6. LatestIsNewer'
  BY <1>1, <1>2 DEF IndInv, LatestIsNewer
<1>7. NoLatest' <=> NoLatest
  BY <1>1 DEF NoLatest
<1>8. LatestForTarget' /\ AnalyticsForTarget'
  BY <1>1, <1>2, <1>7 DEF IndInv, LatestForTarget, AnalyticsForTarget, Target, storage, rigid, hook
<1> QED  BY <1>4, <1>5, <1>6, <1>8 DEF IndInv

\* The latest answer is shown, or its error is; either way the placeholder goes if
\* the request put it up, and there is no latest request any more.
LEMMA LoadKeepsIndInv ==
  ASSUME TypeOK, IndInv, Rendered, NEW r \in Requests, LoadOk(r) \/ LoadFails(r)
  PROVE  IndInv'
<1>1. /\ requests[r].latest /\ requests[r].by # "boot" /\ r \in DOMAIN requests
      /\ requests[r].version # Waiting /\ requests[r] \in Request
      /\ DOMAIN requests' = DOMAIN requests \ {r}
      /\ \A q \in DOMAIN requests \ {r} : requests'[q] = requests[q]
  <2>1. requests' = Freed(requests, r) /\ requests[r].latest /\ Answered(r, {"user", "poll", "collect"})
    BY DEF LoadOk, LoadFails, Returned
  <2>2. requests[r] \in Request
    BY <2>1, SlotsTyped DEF Answered, TypeOK
  <2> QED  BY <2>1, <2>2, FreedFacts DEF Answered
<1>2. UNCHANGED <<backend, sel, chosen, storage, overtaken, polls>>
      /\ loading' = (loading /\ ~requests[r].show)
  BY DEF LoadOk, LoadFails
<1>3. sel # None
  BY <1>1 DEF IndInv, Opening
<1>4. \A q \in DOMAIN requests' : ~requests'[q].latest
  BY <1>1 DEF IndInv, OneLatest
<1>5. OneLatest' /\ Remembered'
  BY <1>2, <1>4 DEF IndInv, OneLatest, Remembered, storage, rigid
<1>6. Opening'
  BY <1>1, <1>2, <1>3 DEF IndInv, Opening
<1>7. LatestIsNewer'
  <2>1. items'.version <= backend'
    <3>1. CASE LoadOk(r)
      BY <1>1, <3>1 DEF LoadOk, Shown, TypeOK, Request, IndInv, LatestIsNewer
    <3>2. CASE LoadFails(r)
      BY <3>2 DEF LoadFails, IndInv, LatestIsNewer
    <3> QED  BY <3>1, <3>2
  <2> QED  BY <1>4, <2>1 DEF LatestIsNewer
<1>8. chosen = None \/ ~prompt
  BY DEF Rendered
<1>9. LatestForTarget'
  <2>1. CASE LoadOk(r)
    <3>1. items' = Shown(r)
      BY <2>1 DEF LoadOk
    <3>2. prompt => requests[r].by = "collect" \/ requests[r].for = sel
      BY <1>1, <1>3, <1>8 DEF IndInv, LatestForTarget, Target
    <3>3. prompt => items'.clicked \/ items'.for = Target'
      BY <1>2, <1>8, <3>1, <3>2 DEF Shown, Target
    <3> QED  BY <1>1, <1>2, <1>3, <1>4, <3>3 DEF IndInv, LatestForTarget, storage, rigid
  <2>2. CASE LoadFails(r)
    <3>1. failed'
      BY <2>2 DEF LoadFails
    <3> QED  BY <1>1, <1>2, <1>3, <1>4, <3>1 DEF IndInv, LatestForTarget, storage, rigid
  <2> QED  BY <2>1, <2>2
<1>10. AnalyticsForTarget'
  BY <1>2, <1>8 DEF LoadOk, LoadFails, FetchAnalytics, AnalyticsForTarget, Target, storage, rigid
<1>11. LatestShows'
  BY <1>1, <1>2, <1>3 DEF IndInv, LatestShows, OneLatest
<1> QED  BY <1>5, <1>6, <1>7, <1>9, <1>10, <1>11 DEF IndInv

\* The bootstrap's answer is the first the page shows, or its error.
LEMMA BootstrapKeepsIndInv ==
  ASSUME TypeOK, IndInv, NEW r \in Requests, BootstrapOk(r) \/ BootstrapFails(r)
  PROVE  IndInv'
<1>1. /\ requests[r].by = "boot" /\ r \in DOMAIN requests
      /\ requests[r].version # Waiting /\ requests[r] \in Request
      /\ DOMAIN requests' = DOMAIN requests \ {r}
  BY FreedFacts, SlotsTyped DEF BootstrapOk, BootstrapFails, Answered, TypeOK
<1>2. sel = None /\ chosen = None /\ items.version = 0 /\ DOMAIN polls = {} /\ collecting = "no"
      /\ \A q \in DOMAIN requests : requests[q].latest
  BY <1>1 DEF IndInv, Opening
<1>3. DOMAIN requests' = {}
  BY <1>1, <1>2 DEF IndInv, OneLatest
<1>4. requests[r].version \in Nat /\ requests[r].version <= backend /\ requests[r].latest
  BY <1>1, <1>2 DEF IndInv, LatestIsNewer, Request
<1>5. UNCHANGED <<backend, chosen, polls, collecting, rigid, overtaken>> /\ loading' = FALSE
  BY DEF BootstrapOk, BootstrapFails, storage
<1>6. OneLatest' /\ LatestShows'
  BY <1>3, <1>5 DEF OneLatest, LatestShows
<1>7. CASE BootstrapOk(r)
  <2>1. PICK airport \in Airports : sel' = airport /\ WriteSelection(airport) /\ FetchAnalytics(airport)
    BY <1>7 DEF BootstrapOk
  <2>2. items' = [for |-> All, version |-> requests[r].version, clicked |-> FALSE]
    BY <1>7 DEF BootstrapOk
  <2>3. sel' # None
    BY <2>1
  <2>4. Opening'
    BY <1>3, <2>3 DEF Opening
  <2>5. LatestIsNewer'
    BY <1>3, <1>4, <1>5, <2>2 DEF LatestIsNewer
  <2>6. LatestForTarget'
    BY <1>2, <1>3, <1>5, <2>2 DEF LatestForTarget
  <2>7. Target' = sel'
    BY <1>2, <1>5 DEF Target
  <2>8. AnalyticsForTarget'
    BY <2>1, <2>7 DEF AnalyticsForTarget, FetchAnalytics
  <2>9. Remembered'
    BY <1>5, <2>1 DEF Remembered, WriteSelection, rigid
  <2> QED  BY <1>6, <2>4, <2>5, <2>6, <2>8, <2>9 DEF IndInv
<1>8. CASE BootstrapFails(r)
  <2>1. UNCHANGED <<sel, items, storage>>
    BY <1>8 DEF BootstrapFails
  <2>2. Opening'
    BY <1>2, <1>3, <1>5, <2>1 DEF Opening
  <2>3. LatestIsNewer' /\ LatestForTarget' /\ AnalyticsForTarget' /\ Remembered'
    BY <1>2, <1>3, <1>5, <2>1
       DEF IndInv, LatestIsNewer, LatestForTarget, AnalyticsForTarget, Remembered, storage, rigid
  <2> QED  BY <1>6, <2>2, <2>3 DEF IndInv
<1> QED  BY <1>7, <1>8

\* A transition that is rendered shows what the latest request is for.
LEMMA CommitKeepsIndInv ==
  ASSUME TypeOK, IndInv, CommitTransition
  PROVE  IndInv'
<1>1. /\ chosen # None /\ sel' = chosen /\ chosen' = None /\ sel # None /\ sel' # None
      /\ Target' = Target
  BY DEF CommitTransition, Target, IndInv, Opening
<1>2. UNCHANGED <<backend, failed, overtaken, items, loading, requests, hook, rigid>>
  BY DEF CommitTransition
<1>3. \A p \in DOMAIN polls' : ~polls'[p].active
  <2>1. \A p \in DOMAIN polls : polls[p] \in Poll
    BY SlotsTyped DEF TypeOK
  <2>2. \A p \in Poll : ~[p EXCEPT !.active = FALSE].active
    BY DEF Poll
  <2> QED  BY <2>1, <2>2 DEF CommitTransition
<1>4. OneLatest' /\ LatestIsNewer' /\ LatestShows'
  BY <1>1, <1>2 DEF IndInv, OneLatest, LatestIsNewer, LatestShows
<1>5. Opening'
  BY <1>1, <1>2 DEF IndInv, Opening
<1>6. NoLatest' <=> NoLatest
  BY <1>2 DEF NoLatest
<1>7. LatestForTarget' /\ AnalyticsForTarget'
  BY <1>1, <1>2, <1>3, <1>6 DEF IndInv, LatestForTarget, AnalyticsForTarget, rigid, hook
<1>8. Remembered'
  BY <1>2 DEF CommitTransition, WriteSelection, Remembered, rigid
<1> QED  BY <1>4, <1>5, <1>7, <1>8 DEF IndInv

\* A page that is opened has shown nothing yet.
LEMMA OpenPageKeepsIndInv ==
  ASSUME TypeOK, OpenPage, UNCHANGED <<backend, storage>>, Remembered
  PROVE  IndInv'
<1>1. PICK s \in Requests : DOMAIN requests' = {s} /\ requests'[s] = Fresh(All, TRUE, "boot")
  BY BootstrapFacts DEF OpenPage
<1>2. requests'[s].latest /\ requests'[s].by = "boot" /\ requests'[s].version = Waiting
  BY <1>1 DEF Fresh
<1>3. DOMAIN polls' = {}
  <2>1. polls' = <<>>
    BY DEF OpenPage
  <2> QED  BY <2>1
<1>4. sel' = None /\ chosen' = None /\ items'.version = 0 /\ collecting' = "no"
  BY DEF OpenPage
<1>5. OneLatest' /\ LatestShows' /\ Opening'
  BY <1>1, <1>2, <1>3, <1>4 DEF OneLatest, LatestShows, Opening
<1>6. LatestIsNewer'
  <2>1. 0 <= backend'
    BY DEF TypeOK
  <2> QED  BY <1>1, <1>2, <1>4, <2>1 DEF LatestIsNewer
<1>7. LatestForTarget' /\ AnalyticsForTarget' /\ Remembered'
  BY <1>4 DEF LatestForTarget, AnalyticsForTarget, Remembered, storage, rigid
<1> QED  BY <1>5, <1>6, <1>7 DEF IndInv

\* What comes back from a poll, an analytics request or a collection sends the next
\* request, or none.
LEMMA OtherAnswersKeepIndInv ==
  ASSUME TypeOK, IndInv, Rendered,
         \/ CollectorStores \/ StartPoll \/ AnalyticsOk \/ AnalyticsFails
         \/ CollectDone \/ CollectFails \/ Collect
         \/ \E p \in Polls : AnswerPoll(p) \/ PollOk(p) \/ PollFails(p)
  PROVE  IndInv'
<1>0. AnalyticsForTarget /\ backend \in Nat /\ backend <= backend
      /\ (sel = None => DOMAIN polls = {} /\ collecting = "no")
  BY DEF IndInv, Opening, TypeOK
<1>1. CASE CollectorStores \/ AnalyticsOk \/ AnalyticsFails \/ CollectFails \/ Collect
  <2>1. /\ UNCHANGED <<requests, sel, chosen, items, storage, failed, overtaken, loading, polls>>
        /\ backend' \in Nat /\ backend <= backend'
    BY <1>0, <1>1
       DEF CollectorStores, AnalyticsOk, AnalyticsFails, CollectFails, Collect, Click, data
  <2>2. sel = None => collecting' = "no"
    BY <1>0, <1>1, NamesAssumption
       DEF CollectorStores, AnalyticsOk, AnalyticsFails, CollectFails, Collect, Click, data
  <2>3. AnalyticsForTarget'
    <3>1. CASE UNCHANGED hook
      BY <1>0, <2>1, <3>1 DEF AnalyticsForTarget, Target, NoLatest, hook, storage, rigid
    <3>2. CASE AnalyticsOk \/ AnalyticsFails
      BY <1>0, <2>1, <3>2
         DEF AnalyticsOk, AnalyticsFails, AnalyticsForTarget, Target, NoLatest, storage, rigid
    <3> QED  BY <1>1, <3>1, <3>2 DEF CollectorStores, CollectFails, Collect
  <2> QED  BY <1>0, <2>1, <2>2, <2>3, StayKeepsIndInv
<1>2. CASE CollectDone
  <2>1. sel # None
    BY <1>0, <1>2, NamesAssumption DEF CollectDone
  <2>2. backend' \in Nat /\ backend <= backend'
    BY <1>0, <1>2 DEF CollectDone
  <2>3. /\ collecting \in Airports /\ Send(collecting, TRUE, "collect")
        /\ UNCHANGED <<sel, items, storage, polls>>
    BY <1>2 DEF CollectDone
  <2> QED  BY <2>1, <2>2, <2>3, SendKeepsIndInv
<1>3. ASSUME UNCHANGED <<requests, sel, chosen, items, storage, failed, overtaken, loading, backend,
                         hook, collecting>>,
             sel = None => DOMAIN polls' = {},
             \A q \in DOMAIN polls' : polls'[q].active =>
               \/ polls'[q].for = sel
               \/ q \in DOMAIN polls /\ polls[q].active /\ polls'[q].for = polls[q].for
      PROVE  IndInv'
  <2>1. AnalyticsForTarget'
    BY <1>0, <1>3 DEF AnalyticsForTarget, Target, NoLatest, hook, storage, rigid
  <2> QED  BY <1>0, <1>3, <2>1, StayKeepsIndInv
<1>4. CASE StartPoll
  <2>1. \A q \in DOMAIN polls' : polls'[q].for = sel \/ (q \in DOMAIN polls /\ polls'[q] = polls[q])
    BY <1>4 DEF StartPoll, Put
  <2> QED  BY <1>3, <1>4, <2>1 DEF StartPoll
<1>5. ASSUME NEW p \in Polls, AnswerPoll(p)
      PROVE  IndInv'
  <2>1. \A q \in DOMAIN polls : polls[q] \in Poll
    BY SlotsTyped DEF TypeOK
  <2>2. \A q \in Poll : LET n == [q EXCEPT !.version = backend]
                        IN  n.active = q.active /\ n.for = q.for
    BY DEF Poll
  <2>3. /\ DOMAIN polls' = DOMAIN polls
        /\ \A q \in DOMAIN polls' : polls'[q].active = polls[q].active /\ polls'[q].for = polls[q].for
    BY <1>5, <2>1, <2>2 DEF AnswerPoll
  <2> QED  BY <1>0, <1>3, <1>5, <2>3 DEF AnswerPoll
<1>6. ASSUME NEW p \in Polls, PollOk(p) \/ PollFails(p)
      PROVE  IndInv'
  <2>1. /\ p \in DOMAIN polls
        /\ DOMAIN polls' \subseteq DOMAIN polls
        /\ \A q \in DOMAIN polls' : polls'[q] = polls[q]
    <3>1. p \in DOMAIN polls /\ polls' = Freed(polls, p)
      BY <1>6 DEF PollOk, PollFails, PollReturns
    <3> QED  BY <3>1, FreedFacts
  <2>2. sel # None
    BY <1>0, <2>1
  <2>3. CASE UNCHANGED <<requests, loading, error, overtaken>>
    BY <1>3, <1>6, <2>1, <2>2, <2>3 DEF PollOk, PollFails
  <2>4. CASE PollOk(p) /\ polls[p].active /\ Send(polls[p].for, FALSE, "poll")
    <3>1. UNCHANGED <<sel, chosen, items, storage, backend, prompt>>
      BY <2>4 DEF PollOk, storage, rigid
    <3>2. prompt => polls[p].for = Target'
      BY <2>1, <2>2, <2>4, <3>1 DEF IndInv, LatestForTarget, Target, Rendered
    <3>3. polls[p].for \in Airports
      BY <2>1, SlotsTyped DEF TypeOK, Poll
    <3> QED  BY <1>0, <2>1, <2>2, <2>4, <3>1, <3>2, <3>3, SendKeepsIndInv
  <2> QED  BY <1>6, <2>3, <2>4 DEF PollOk, PollFails
<1> QED  BY <1>1, <1>2, <1>4, <1>5, <1>6

\* So does what the user does; opening the page again starts over.
LEMMA ClicksKeepIndInv ==
  ASSUME TypeOK, IndInv, Rendered,
         (\E airport \in Airports : ChooseAirport(airport)) \/ Refresh \/ Reload
  PROVE  IndInv'
<1>0. backend \in Nat /\ backend <= backend
  BY DEF TypeOK
<1>1. ASSUME NEW airport \in Airports, ChooseAirport(airport)
      PROVE  IndInv'
  <2>1. /\ sel # None /\ Send(airport, TRUE, "user") /\ chosen' = airport
        /\ UNCHANGED <<backend, sel, items, storage, polls>>
    BY <1>1 DEF ChooseAirport, Click
  <2>2. Target' = airport
    BY <2>1, NamesAssumption DEF Target
  <2> QED  BY <1>0, <2>1, <2>2, SendKeepsIndInv
<1>2. CASE Refresh
  <2>1. /\ sel # None /\ sel \in Airports /\ Send(sel, TRUE, "user")
        /\ UNCHANGED <<backend, sel, chosen, items, storage, polls>>
    BY <1>2 DEF Refresh, Click, TypeOK
  <2>2. prompt => sel = Target'
    BY <2>1 DEF Target, Rendered
  <2> QED  BY <1>0, <2>1, <2>2, SendKeepsIndInv
<1>3. CASE Reload
  BY <1>3, OpenPageKeepsIndInv DEF Reload, IndInv
<1> QED  BY <1>1, <1>2, <1>3
-----------------------------------------------------------------------------
(* The theorems.                                                            *)

\* The first page is opened before anything is stored.
LEMMA InitEstablishes ==
  ASSUME Init
  PROVE  TypeOK /\ IndInv
<1>1. PICK s \in Requests : DOMAIN requests = {s} /\ requests[s] = Fresh(All, TRUE, "boot")
  BY BootstrapFacts DEF Init
<1>2. requests[s].latest /\ requests[s].by = "boot" /\ requests[s].version = Waiting
  BY <1>1 DEF Fresh
<1>3. DOMAIN polls = {}
  <2>1. polls = <<>>
    BY DEF Init
  <2> QED  BY <2>1
<1>4. sel = None /\ chosen = None /\ items.version = 0 /\ collecting = "no" /\ backend = 1
  BY DEF Init
<1>5. OneLatest /\ LatestShows /\ Opening /\ LatestIsNewer
  <2>1. OneLatest /\ LatestShows /\ Opening
    BY <1>1, <1>2, <1>3, <1>4 DEF OneLatest, LatestShows, Opening
  <2>2. LatestIsNewer
    <3>1. items.version <= backend
      BY <1>4
    <3>2. \A r \in DOMAIN requests : requests[r].version = Waiting
      BY <1>1, <1>2
    <3> QED  BY <3>1, <3>2 DEF LatestIsNewer
  <2> QED  BY <2>1, <2>2
<1>6. LatestForTarget /\ AnalyticsForTarget /\ Remembered
  BY <1>4 DEF Init, LatestForTarget, AnalyticsForTarget, Remembered
<1>7. DOMAIN requests \subseteq Requests /\ Range(requests) \subseteq Request
  BY BootstrapTyped DEF Init
<1>8. DOMAIN polls \subseteq Polls /\ Range(polls) \subseteq Poll
  BY <1>3, SlotsTyped
<1>9. /\ items \in [for : Airports \cup {All, None}, version : 0..MaxVersion, clicked : BOOLEAN]
      /\ marker \in 0..MaxVersion /\ backend \in 1..MaxVersion /\ clicks \in 0..MaxClicks
  BY DEF Init
<1>10. /\ {loading, error, failed, overtaken, inFlight, analyticsError} \subseteq BOOLEAN
       /\ {manual, prompt, slow, storageWorks} \subseteq BOOLEAN
  BY DEF Init
<1>11. TypeOK
  BY <1>7, <1>8, <1>9, <1>10 DEF Init, TypeOK
<1> QED  BY <1>5, <1>6, <1>11 DEF IndInv

\* Every step keeps the types and the inductive invariant.
LEMMA NextKeepsIndInv ==
  ASSUME TypeOK, IndInv, [Next]_vars
  PROVE  TypeOK' /\ IndInv'
<1>1. CASE UNCHANGED vars
  <2>1. UNCHANGED <<backend, sel, chosen, items, marker, loading, error, failed, overtaken,
                    collecting, inFlight, requests, polls, analytics, fetching, analyticsError,
                    manual, prompt, slow, storageWorks, stored, cookie, last, clicks>>
    BY <1>1 DEF vars, data, hook, storage, rigid
  <2>2. TypeOK'
    BY <2>1 DEF TypeOK
  <2>3. IndInv'
    BY <2>1 DEF IndInv, OneLatest, Opening, LatestIsNewer, LatestForTarget, AnalyticsForTarget,
                LatestShows, Remembered, Target, NoLatest
  <2> QED  BY <2>2, <2>3
<1>2. CASE Next
  <2>1. TypeOK'
    BY <1>2, AnswerTyped, PollTyped, ClickTyped DEF Next
  <2>2. IndInv'
    BY <1>2, CommitKeepsIndInv, AnswerRequestKeepsIndInv, LoadStaleKeepsIndInv, LoadKeepsIndInv,
       BootstrapKeepsIndInv, OtherAnswersKeepIndInv, ClicksKeepIndInv DEF Next
  <2> QED  BY <2>1, <2>2
<1> QED  BY <1>1, <1>2

\* Of any number of requests under way one is the latest, and what it brings is what
\* the page is waiting for.
THEOREM Invariance == Spec => [](TypeOK /\ IndInv)
  BY InitEstablishes, NextKeepsIndInv, PTL DEF Spec

\* A page with nothing under way has no request to wait for.
LEMMA NothingUnderWay ==
  ASSUME requests = <<>>
  PROVE  DOMAIN requests = {} /\ NoLatest
<1>1. DOMAIN requests = {}
  OBVIOUS
<1> QED  BY <1>1 DEF NoLatest

\* When all is settled the items are those of the airport shown (loadAirportData with
\* its latestRequestRef).
THEOREM ItemsOfSelection == Spec => []SelectionShown
<1>1. IndInv => SelectionShown
  BY NothingUnderWay DEF IndInv, LatestForTarget, SelectionShown, Settled, Target
<1> QED  BY <1>1, Invariance, PTL

\* And so are the analytics, although the effect that fetches them watches the data
\* version only (use-analytics-data.ts).
THEOREM AnalyticsShown == Spec => []AnalyticsOfSelection
<1>1. IndInv => AnalyticsOfSelection
  BY NothingUnderWay DEF IndInv, AnalyticsForTarget, AnalyticsOfSelection, Settled, Target
<1> QED  BY <1>1, Invariance, PTL

\* With nothing under way the placeholder is gone.
THEOREM PlaceholderRemoved == Spec => []PlaceholderGone
<1>1. IndInv => PlaceholderGone
  BY NothingUnderWay DEF IndInv, LatestShows, PlaceholderGone
<1> QED  BY <1>1, Invariance, PTL

\* The items shown never get older, however answers overtake each other.
THEOREM ItemsNeverOlder == Spec => NeverOlder
<1>1. TypeOK /\ IndInv /\ [Next]_vars => [items'.version >= items.version \/ items'.for = None]_vars
  <2> SUFFICES ASSUME TypeOK, IndInv, Next
               PROVE  items'.version >= items.version \/ items'.for = None
    BY DEF vars
  <2>1. items.version \in Nat /\ items.version >= items.version
    BY DEF TypeOK
  <2>2. ASSUME NEW r \in Requests, BootstrapOk(r)
        PROVE  items'.version >= items.version
    <3>1. items.version = 0
      BY <2>2 DEF BootstrapOk, Answered, IndInv, Opening
    <3>2. items'.version = requests[r].version /\ requests[r] \in Request
      BY <2>2, SlotsTyped DEF BootstrapOk, Answered, TypeOK
    <3> QED  BY <3>1, <3>2 DEF Request, Waiting
  <2>3. ASSUME NEW r \in Requests, LoadOk(r)
        PROVE  items'.version >= items.version
    <3>1. items'.version = requests[r].version /\ requests[r] \in Request
      BY <2>3, SlotsTyped DEF LoadOk, Shown, Answered, TypeOK
    <3>2. items.version <= requests[r].version
      BY <2>3 DEF LoadOk, Answered, IndInv, LatestIsNewer
    <3> QED  BY <2>1, <3>1, <3>2 DEF Request, Waiting
  <2>4. CASE Reload
    BY <2>4 DEF Reload, OpenPage
  <2>5. CASE UNCHANGED items
    BY <2>1, <2>5
  <2> QED
    BY <2>2, <2>3, <2>4, <2>5
       DEF Next, CommitTransition, CollectorStores, AnswerRequest, BootstrapFails, LoadFails,
           LoadStale, StartPoll, AnswerPoll, PollOk, PollFails, AnalyticsOk, AnalyticsFails, data,
           CollectDone, CollectFails, ChooseAirport, Refresh, Collect
<1> QED  BY <1>1, Invariance, PTL DEF Spec, NeverOlder

\* A page that is opened starts with the selection last made, with and without
\* localStorage (dashboard-preferences.ts).
THEOREM SelectionSurvives == Spec => SelectionRestored
<1>1. TypeOK /\ IndInv /\ [Next]_vars =>
        [sel = None /\ sel' # None => last \in {None, sel'}]_vars
  <2> SUFFICES ASSUME TypeOK, IndInv, Next, sel = None, sel' # None
               PROVE  last \in {None, sel'}
    BY DEF vars
  <2>1. ASSUME NEW r \in Requests, BootstrapOk(r)
        PROVE  last \in {None, sel'}
    BY <2>1 DEF BootstrapOk, ReadSelection, IndInv, Remembered
  <2>2. ~CommitTransition
    BY DEF CommitTransition, IndInv, Opening
  <2>3. ~Reload
    BY DEF Reload, OpenPage
  <2>4. sel' # sel
    OBVIOUS
  <2> QED
    BY <2>1, <2>2, <2>3, <2>4
       DEF Next, CollectorStores, AnswerRequest, BootstrapFails, LoadOk, LoadFails,
           LoadStale, StartPoll, AnswerPoll, PollOk, PollFails, AnalyticsOk, AnalyticsFails,
           CollectDone, CollectFails, ChooseAirport, Refresh, Collect
<1> QED  BY <1>1, Invariance, PTL DEF Spec, SelectionRestored
=============================================================================
