----------------------------- MODULE Dashboard -----------------------------
(***************************************************************************)
(* The dashboard page (frontend/src/lib/dashboard-context.tsx) with its    *)
(* analytics hook (hooks/use-analytics-data.ts) and its stored selection   *)
(* (lib/dashboard-preferences.ts).  A page asks the backend for bundles of *)
(* data, of which only the answer to the latest request may be shown, and  *)
(* polls the collector's status to refresh itself when there is newer      *)
(* data.  Answers arrive late, out of order, or not at all.                *)
(*                                                                         *)
(* A request id is only ever compared with the latest one, so a request    *)
(* carries the result of that comparison, latest.  The backend's data is a *)
(* version number; the update marker of a status is that number.  An       *)
(* airport is chosen in a React transition: the page goes on with the old  *)
(* one until the transition is committed.                                  *)
(***************************************************************************)
EXTENDS Integers, FiniteSets, Functions

CONSTANTS
  Airports,        \* the airports of the selector
  Requests,        \* bound of the model: slots for outstanding bundle requests
  Polls,           \* bound of the model: slots for outstanding status requests
  MaxVersion,      \* bound of the model: versions of the backend's data
  MaxClicks        \* bound of the model: what the user does

ASSUME AirportsAssumption == Airports # {} /\ IsFiniteSet(Airports)
ASSUME BoundsAssumption == MaxVersion \in Nat \ {0} /\ MaxClicks \in Nat /\ Requests # {}

All == "all airports"       \* what the bootstrap request without a code returns
None == "no airport"        \* "" and null
ASSUME NamesAssumption == {All, None, "no", "loading"} \cap Airports = {}
Waiting == 0                \* version of an answer the backend has not made yet

VARIABLES
  backend,     \* version of the data stored by the backend
  sel,         \* selectedAirportCode
  chosen,      \* airport of the transition under way, or None
  items,       \* currentItems: [for, version]; clicked, history: by the load after a collection
  marker,      \* latestBackendUpdateMarkerRef, 0 for null
  loading, error,
  collecting,  \* "no"; the airport it was clicked for while the collection runs; then "loading"
  inFlight,    \* backendRefreshInFlightRef
  requests,    \* bundle requests under way, by slot
  polls,       \* status requests under way, by slot
  analytics,   \* airport of the analytics shown, or None
  fetching,    \* airport of the active analytics request, or None
  analyticsError,
  manual,        \* settings.manual_collect_enabled: the collect button is there; does not change
  prompt,        \* transitions are rendered before anything else happens; does not change
  slow,          \* bundles may take longer than the poll interval; does not change
  storageWorks,  \* localStorage can be used in this browser; does not change
  stored,      \* selection in localStorage
  cookie,      \* selection in the cookie
  failed,      \* history: the latest bundle request ended in an error
  overtaken,   \* history: a silent request was sent while the placeholder was waiting for its own
  last,        \* history: the last selectedAirportCode
  clicks       \* what the user has done so far

data == <<backend, items, marker, loading, error, failed, overtaken, collecting, inFlight, requests, polls>>
hook == <<analytics, fetching, analyticsError>>
rigid == <<manual, prompt, slow, storageWorks>>
storage == <<rigid, stored, cookie, last>>
vars == <<data, sel, chosen, hook, storage, clicks>>

Request ==
  [for : Airports \cup {All}, show : BOOLEAN, by : {"boot", "user", "poll", "collect"},
   latest : BOOLEAN, version : Waiting..MaxVersion]
Poll == [for : Airports, active : BOOLEAN, version : Waiting..MaxVersion]

TypeOK ==
  /\ backend \in 1..MaxVersion
  /\ sel \in Airports \cup {None} /\ chosen \in Airports \cup {None}
  /\ items \in [for : Airports \cup {All, None}, version : 0..MaxVersion, clicked : BOOLEAN]
  /\ marker \in 0..MaxVersion
  /\ {loading, error, failed, overtaken, inFlight, analyticsError} \subseteq BOOLEAN
  /\ {manual, prompt, slow, storageWorks} \subseteq BOOLEAN
  /\ collecting \in {"no", "loading"} \cup Airports
  /\ DOMAIN requests \subseteq Requests /\ Range(requests) \subseteq Request
  /\ DOMAIN polls \subseteq Polls /\ Range(polls) \subseteq Poll
  /\ {analytics, fetching, stored, cookie, last} \subseteq Airports \cup {None}
  /\ clicks \in 0..MaxClicks

Fresh(for, show, by) ==
  [for |-> for, show |-> show, by |-> by, latest |-> TRUE, version |-> Waiting]

FreeSlot(slots, f) == CHOOSE s \in slots : s \notin DOMAIN f
Put(f, s, x) == [t \in DOMAIN f \cup {s} |-> IF t = s THEN x ELSE f[t]]
Freed(f, s) == Restrict(f, DOMAIN f \ {s})
Bootstrap == Put(<<>>, FreeSlot(Requests, <<>>), Fresh(All, TRUE, "boot"))

\* A page that has just been opened: the effects have sent the bootstrap request.
OpenPage ==
  /\ sel' = None /\ chosen' = None
  /\ items' = [for |-> None, version |-> 0, clicked |-> FALSE] /\ marker' = 0
  /\ loading' = TRUE /\ error' = FALSE /\ collecting' = "no" /\ inFlight' = FALSE
  /\ failed' = FALSE /\ overtaken' = FALSE
  /\ requests' = Bootstrap /\ polls' = <<>>
  /\ analytics' = None /\ fetching' = None /\ analyticsError' = FALSE

Init ==
  /\ backend = 1
  /\ sel = None /\ chosen = None
  /\ items = [for |-> None, version |-> 0, clicked |-> FALSE] /\ marker = 0
  /\ loading = TRUE /\ error = FALSE /\ collecting = "no" /\ inFlight = FALSE
  /\ failed = FALSE /\ overtaken = FALSE
  /\ requests = Bootstrap /\ polls = <<>>
  /\ analytics = None /\ fetching = None /\ analyticsError = FALSE
  /\ manual \in BOOLEAN /\ slow \in BOOLEAN /\ prompt \in BOOLEAN /\ storageWorks \in BOOLEAN
  /\ ~(manual /\ slow)                \* bound of the model: one of the three at a time
  /\ prompt \/ ~(manual \/ slow)
  /\ stored = None /\ cookie = None /\ last = None
  /\ clicks = 0
-----------------------------------------------------------------------------
(* loadAirportData, its request part. *)
Send(airport, show, by) ==
  /\ Requests \ DOMAIN requests # {}
  /\ requests' = Put([q \in DOMAIN requests |-> [requests[q] EXCEPT !.latest = FALSE]],
                     FreeSlot(Requests, requests), Fresh(airport, show, by))
  /\ loading' = (loading \/ show)
  /\ overtaken' = (loading /\ ~show)
  /\ error' = FALSE

FetchNothing(airport) == UNCHANGED hook   \* mutant of FetchAnalytics: the version is not bumped
-----------------------------------------------------------------------------
(* The backend collects, and answers. *)
CollectorStores ==
  /\ backend < MaxVersion
  /\ backend' = backend + 1
  /\ UNCHANGED <<failed, overtaken, sel, chosen, items, marker, loading, error, collecting, inFlight,
                 requests, polls, hook, storage, clicks>>

\* The effect of useAnalyticsData, run by a new dataVersion: an older request is
\* no longer active.
FetchAnalytics(airport) ==
  /\ fetching' = airport
  /\ analyticsError' = FALSE
  /\ UNCHANGED analytics

AnswerRequest(r) ==
  /\ r \in DOMAIN requests /\ requests[r].version = Waiting
  /\ requests' = [requests EXCEPT ![r].version = backend]
  /\ UNCHANGED <<backend, failed, overtaken, sel, chosen, items, marker, loading, error, collecting, inFlight,
                 polls, hook, storage, clicks>>

AnswerPoll(p) ==
  /\ p \in DOMAIN polls /\ polls[p].version = Waiting
  /\ polls' = [polls EXCEPT ![p].version = backend]
  /\ UNCHANGED <<backend, failed, overtaken, sel, chosen, items, marker, loading, error, collecting, inFlight,
                 requests, hook, storage, clicks>>
-----------------------------------------------------------------------------
(* The page receives answers. *)
Answered(r, by) == /\ r \in DOMAIN requests
                   /\ requests[r].version # Waiting
                   /\ requests[r].by \in by

Shown(r) == [for |-> requests[r].for, version |-> requests[r].version,
             clicked |-> requests[r].by = "collect"]

WriteSelectionToStorage(airport) ==   \* mutant of WriteSelection: no cookie
  /\ stored' = IF storageWorks THEN airport ELSE stored
  /\ last' = airport
  /\ UNCHANGED cookie

\* Storing the selection is tried in localStorage and always in the cookie.
WriteSelection(airport) ==
  /\ stored' = IF storageWorks THEN airport ELSE stored
  /\ cookie' = airport
  /\ last' = airport

\* localStorage goes first, then the cookie.
ReadSelection == IF storageWorks /\ stored # None THEN stored ELSE cookie

\* The answer to bootstrap(): the stored airport, or else the first one.
BootstrapOk(r) ==
  /\ Answered(r, {"boot"})
  /\ \E airport \in Airports :
       /\ ReadSelection # None => airport = ReadSelection
       /\ sel' = airport
       /\ WriteSelection(airport)
       /\ FetchAnalytics(airport)
  /\ items' = [for |-> All, version |-> requests[r].version, clicked |-> FALSE]
  /\ marker' = requests[r].version
  /\ loading' = FALSE
  /\ requests' = Freed(requests, r)
  /\ UNCHANGED <<backend, failed, overtaken, chosen, error, collecting, inFlight, polls, rigid, clicks>>

BootstrapFails(r) ==
  /\ Answered(r, {"boot"})
  /\ error' = TRUE /\ loading' = FALSE
  /\ requests' = Freed(requests, r)
  /\ UNCHANGED <<backend, failed, overtaken, sel, chosen, items, marker, collecting, inFlight, polls, hook, storage, clicks>>

\* What runs after loadAirportData has returned: the poll's finally block, and
\* the manual collection's.
Returned(r) ==
  /\ requests' = Freed(requests, r)
  /\ inFlight' = (inFlight /\ requests[r].by # "poll")
  /\ collecting' = IF requests[r].by = "collect" THEN "no" ELSE collecting

LoadOk(r) ==
  /\ Answered(r, {"user", "poll", "collect"})
  /\ requests[r].latest
  /\ items' = Shown(r)
  /\ marker' = requests[r].version /\ failed' = FALSE
  /\ FetchAnalytics(sel)
  /\ loading' = (loading /\ ~requests[r].show)
  /\ Returned(r)
  /\ UNCHANGED <<backend, overtaken, sel, chosen, error, polls, storage, clicks>>

\* mutant of LoadFails: only a success removes the placeholder
LoadFailsLoading(r) ==
  /\ Answered(r, {"user", "poll", "collect"})
  /\ requests[r].latest
  /\ error' = TRUE /\ failed' = TRUE
  /\ Returned(r)
  /\ UNCHANGED <<backend, overtaken, sel, chosen, items, marker, loading, polls, hook, storage, clicks>>

LoadFails(r) ==
  /\ Answered(r, {"user", "poll", "collect"})
  /\ requests[r].latest
  /\ error' = TRUE /\ failed' = TRUE
  /\ loading' = (loading /\ ~requests[r].show)
  /\ Returned(r)
  /\ UNCHANGED <<backend, overtaken, sel, chosen, items, marker, polls, hook, storage, clicks>>


LoadStaleShown(r) ==   \* mutant of LoadStale: the request id is not compared
  /\ Answered(r, {"user", "poll", "collect"})
  /\ ~requests[r].latest
  /\ items' = Shown(r)
  /\ marker' = requests[r].version
  /\ FetchAnalytics(sel)
  /\ loading' = (loading /\ ~requests[r].show)
  /\ Returned(r)
  /\ UNCHANGED <<backend, failed, overtaken, sel, chosen, error, polls, storage, clicks>>

\* An answer that is no longer the latest changes nothing, loading included.
LoadStale(r) ==
  /\ Answered(r, {"user", "poll", "collect"})
  /\ ~requests[r].latest
  /\ Returned(r)
  /\ UNCHANGED <<backend, failed, overtaken, sel, chosen, items, marker, loading, error, polls, hook, storage, clicks>>

PollReturns(p) == polls' = Freed(polls, p)

PollOkMarking(p) ==   \* mutant of PollOk: the new marker is remembered before the load
  /\ p \in DOMAIN polls /\ polls[p].version # Waiting
  /\ PollReturns(p)
  /\ LET refresh == /\ polls[p].active
                    /\ polls[p].version # marker
                    /\ ~inFlight
     IN /\ inFlight' = refresh
        /\ marker' = IF refresh THEN polls[p].version ELSE marker
        /\ IF refresh THEN Send(polls[p].for, FALSE, "poll")
                      ELSE UNCHANGED <<requests, loading, error, overtaken>>
  /\ UNCHANGED <<backend, failed, sel, chosen, items, collecting, hook, storage, clicks>>

\* refreshVisibleDashboard with the status it asked for.  A poll that has nothing
\* to do still runs the finally block.
PollOk(p) ==
  /\ p \in DOMAIN polls /\ polls[p].version # Waiting
  /\ PollReturns(p)
  /\ LET refresh == /\ polls[p].active
                    /\ polls[p].version # marker
                    /\ ~inFlight
     IN /\ inFlight' = refresh
        /\ IF refresh THEN Send(polls[p].for, FALSE, "poll")
                      ELSE UNCHANGED <<requests, loading, error, overtaken>>
  /\ UNCHANGED <<backend, failed, sel, chosen, items, marker, collecting, hook, storage, clicks>>

PollFails(p) ==
  /\ p \in DOMAIN polls /\ polls[p].version # Waiting
  /\ PollReturns(p)
  /\ inFlight' = FALSE
  /\ UNCHANGED <<backend, failed, overtaken, sel, chosen, items, marker, loading, error, collecting, requests,
                 hook, storage, clicks>>

AnalyticsOk ==
  /\ fetching # None
  /\ analytics' = fetching /\ fetching' = None /\ analyticsError' = FALSE
  /\ UNCHANGED <<data, sel, chosen, storage, clicks>>

AnalyticsFails ==
  /\ fetching # None
  /\ analyticsError' = TRUE /\ fetching' = None
  /\ UNCHANGED <<analytics, data, sel, chosen, storage, clicks>>

CollectDone ==
  /\ collecting \in Airports
  /\ backend' \in {backend, backend + 1} \cap 1..MaxVersion
  /\ Send(collecting, TRUE, "collect")
  /\ collecting' = "loading"
  /\ UNCHANGED <<failed, sel, chosen, items, marker, inFlight, polls, hook, storage, clicks>>

CollectFails ==
  /\ collecting \in Airports
  /\ collecting' = "no"
  /\ UNCHANGED <<backend, failed, overtaken, sel, chosen, items, marker, loading, error, inFlight, requests, polls,
                 hook, storage, clicks>>
-----------------------------------------------------------------------------
(* The timer, and the user. *)
StartPoll ==
  /\ sel # None /\ Polls \ DOMAIN polls # {}
  /\ slow \/ requests = <<>>
  /\ polls' = Put(polls, FreeSlot(Polls, polls), [for |-> sel, active |-> TRUE, version |-> Waiting])
  /\ UNCHANGED <<backend, failed, overtaken, sel, chosen, items, marker, loading, error, collecting, inFlight,
                 requests, hook, storage, clicks>>

Click == sel # None /\ clicks < MaxClicks /\ clicks' = clicks + 1

ChooseAirport(airport) ==
  /\ Click /\ airport # sel
  /\ chosen' = airport
  /\ Send(airport, TRUE, "user")
  /\ UNCHANGED <<backend, failed, sel, items, marker, collecting, inFlight, polls, hook, storage>>

\* The transition is rendered: the effects of the old selection are cleaned up,
\* and the new one is stored.
CommitTransition ==
  /\ chosen # None
  /\ sel' = chosen /\ chosen' = None
  /\ polls' = [p \in DOMAIN polls |-> [polls[p] EXCEPT !.active = FALSE]]
  /\ WriteSelection(chosen)
  /\ UNCHANGED <<backend, failed, overtaken, items, marker, loading, error, collecting, inFlight, requests, hook,
                 rigid, clicks>>

\* The refresh button; choosing a lot of the same airport sends the same request.
Refresh ==
  /\ Click
  /\ Send(sel, TRUE, "user")
  /\ UNCHANGED <<backend, failed, sel, chosen, items, marker, collecting, inFlight, polls, hook, storage>>

\* The collect button, refused during the cooldown.
Collect ==
  /\ manual /\ Click /\ collecting = "no"
  /\ error' = FALSE
  /\ collecting' \in {"no", sel}
  /\ UNCHANGED <<backend, failed, overtaken, sel, chosen, items, marker, loading, inFlight, requests, polls, hook, storage>>

\* The page is opened again: answers to the old page reach nobody.
Reload ==
  /\ clicks < MaxClicks /\ clicks' = clicks + 1
  /\ OpenPage
  /\ UNCHANGED <<backend, storage>>
-----------------------------------------------------------------------------
Rendered == prompt => chosen = None

Next ==
  \/ CommitTransition
  \/ /\ Rendered
     /\ \/ CollectorStores
        \/ \E r \in Requests :
             \/ AnswerRequest(r)
             \/ BootstrapOk(r) \/ BootstrapFails(r)
             \/ LoadOk(r) \/ LoadFails(r) \/ LoadStale(r)
        \/ StartPoll
        \/ \E p \in Polls : AnswerPoll(p) \/ PollOk(p) \/ PollFails(p)
        \/ AnalyticsOk \/ AnalyticsFails
        \/ CollectDone \/ CollectFails
        \/ \E airport \in Airports : ChooseAirport(airport)
        \/ Refresh \/ Collect \/ Reload

Spec == Init /\ [][Next]_vars

\* Every request is answered and not every answer is an error; the timer fires;
\* transitions are rendered.
Fairness ==
  /\ WF_vars(CommitTransition)
  /\ WF_vars(\E r \in Requests : AnswerRequest(r))
  /\ WF_vars(\E r \in Requests : BootstrapOk(r) \/ BootstrapFails(r) \/ LoadStale(r))
  /\ SF_vars(\E r \in Requests : LoadOk(r))
  /\ WF_vars(StartPoll \/ \E p \in Polls : AnswerPoll(p))
  /\ SF_vars(\E p \in Polls : PollOk(p))
  /\ WF_vars(CollectDone \/ CollectFails)

FairSpec == Spec /\ Fairness
-----------------------------------------------------------------------------
(* Properties *)

Settled ==
  /\ sel # None /\ chosen = None /\ collecting = "no" /\ ~failed
  /\ requests = <<>>

\* An answer that arrives late never replaces newer data: until the page is
\* opened again, the items shown only get newer.
NeverOlder == [][items'.version >= items.version \/ items'.for = None]_vars

\* When nothing is under way and the last load did not fail, the items are those of the
\* selected airport: scopeItems does not filter them all away.  The one exception is the
\* load after a manual collection, which is for the airport it was clicked for; and where
\* answers arrive between a choice and its rendering, one for the airport left.
SelectionShown == Settled /\ prompt /\ ~items.clicked => items.for \in {All, sel}

\* use-analytics-data.ts keys its effect on dataVersion alone, because every change
\* of the selection bumps it: the analytics shown are the selection's own, unless
\* data arrived between a choice and its rendering.
AnalyticsOfSelection ==
  Settled /\ prompt /\ fetching = None /\ ~analyticsError => analytics = sel

\* The selection last made is the one a new page starts with, whether or not
\* localStorage can be used.
SelectionRestored == [][sel = None /\ sel' # None => last \in {None, sel'}]_vars

\* Once the backend's data and the user rest, polling brings the page up to date,
\* provided a bundle is answered before the next poll; slower ones may overtake each
\* other for ever.
FreshDataShown == slow \/ <>[](sel = None \/ items.version = backend)

\* When nothing is under way, the placeholder is gone: each load that puts it up, or one
\* that may show it again, removes it, whatever overtakes whatever, except that a silent
\* load that overtakes the placeholder's own leaves it, the data having arrived.
PlaceholderGone == requests = <<>> /\ sel # None /\ ~overtaken => ~loading
=============================================================================
