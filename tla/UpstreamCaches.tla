--------------------------- MODULE UpstreamCaches ---------------------------
(***************************************************************************)
(* What the backend fetches when a page is viewed and keeps in memory:     *)
(* flight status by airport and day (services/flight_status.py) and public *)
(* holidays by month (services/holidays.py).  A page view that finds no    *)
(* valid entry calls the upstream itself; views that overlap call it each. *)
(* For Incheon it makes two calls, one after the other.                    *)
(* An entry expires a lifetime after the call for it was begun; which      *)
(* lifetime depends on what FlightBoard and Holidays make of the answer.   *)
(*                                                                         *)
(* The flight API's rate limit is external: all airports share the quota   *)
(* of one service key, and a call made while the quota is exhausted        *)
(* renews the time until it comes back (flight_status.py:248-252).         *)
(* Times count down to 0.                                                  *)
(***************************************************************************)
EXTENDS FlightBoard, Holidays, FiniteSetsExt

CONSTANTS
  Flights,     \* keys of FlightStatusService._cache: (airport, day)
  TwoCalls,    \* those of them that take two upstream calls: Incheon's
  Months,      \* keys of HolidayService._cache
  Viewers,     \* page views at a time
  FlightTtl,   \* settings.flight_status_cache_seconds
  Backoff,     \* settings.upstream_rate_limit_backoff_seconds
  HolidayTtl,  \* settings.holiday_cache_seconds
  Timeout,     \* settings.api_timeout_seconds
  Window,      \* external: how long the quota stays exhausted
  FlightAnswers, MonthAnswers,  \* bound of the model: what the two upstreams may answer
  MaxExhausted \* bound of the model: how often the quota runs out by itself

ASSUME TimesAssumption == {FlightTtl, Backoff, HolidayTtl} \subseteq Nat
ASSUME TimeoutAssumption == Timeout \in Nat \ {0}
\* The documented purpose of the backoff is to outlast the limit, here also the limit
\* renewed by the second call of a view that began while the answered one was waiting.
ASSUME BackoffAssumption == Window \in Nat /\ Backoff >= Window + 3 * Timeout
ASSUME ExhaustedAssumption == MaxExhausted \in Nat

Keys == Flights \cup Months
NoKey == "no key"

ASSUME KeysAssumption ==
  TwoCalls \subseteq Flights /\ Flights \cap Months = {} /\ NoKey \notin Keys

VARIABLES
  cache,      \* per key: what the last call answered, and how long it is valid
  call,       \* per page view: the fetch it waits for, or NoCall; `limited` says that its
              \* latest upstream call met the limit, `more` that the second is to come
  quota,      \* time until the flight quota is back, 0 if it is not exhausted
  exhausted,  \* history: how often it ran out by itself
  quiet       \* history, per key: time for which an answer that no other call could
              \* overwrite rules out calls

vars == <<cache, call, quota, exhausted, quiet>>

NoCall == [key |-> NoKey, age |-> 0, limited |-> FALSE, more |-> FALSE]
Statuses == {"none", "success", "error", "limited"}
Longest == Max({FlightTtl, Backoff, HolidayTtl})

TypeOK ==
  /\ cache \in [Keys -> [status : Statuses, left : 0..Longest]]
  /\ call \in [Viewers -> [key : Keys \cup {NoKey}, age : 0..2 * Timeout,
                           limited : BOOLEAN, more : BOOLEAN]]
  /\ quota \in 0..Window
  /\ exhausted \in 0..MaxExhausted
  /\ quiet \in [Keys -> 0..Longest]

Init ==
  /\ cache = [k \in Keys |-> [status |-> "none", left |-> 0]]
  /\ call = [v \in Viewers |-> NoCall]
  /\ quota = 0 /\ exhausted = 0
  /\ quiet = [k \in Keys |-> 0]
-----------------------------------------------------------------------------
Less(n, m) == Max({0, n - m})

LifetimeShort(k, status) ==   \* mutant of Lifetime: a limit is kept as short as a success
  IF k \in Months THEN HolidayTtl ELSE IF status = "error" THEN 0 ELSE FlightTtl

LifetimeAsError(k, status) ==   \* mutant of Lifetime: a limit is an error like any other
  IF k \in Months THEN HolidayTtl ELSE IF status = "success" THEN FlightTtl ELSE 0

\* Holidays are kept whatever the answer was; a flight answer is not kept when it is
\* an error, and longer than others when it is the rate limit.
Lifetime(k, status) ==
  CASE k \in Months         -> HolidayTtl
    [] status = "success"   -> FlightTtl
    [] status = "limited"   -> Backoff
    [] OTHER                -> 0

\* An upstream call for key k meets the limit, and renews it.
Limited(k) == k \in Flights /\ quota > 0
AfterCall(k) == IF Limited(k) THEN Window ELSE quota

CallUnlessFailed(v, k) ==   \* mutant of Call: an entry that holds an error is final
  /\ call[v] = NoCall
  /\ cache[k].left = 0 /\ cache[k].status # "error"
  /\ call' = [call EXCEPT ![v] = [key |-> k, age |-> 0, limited |-> Limited(k), more |-> k \in TwoCalls]]
  /\ quota' = AfterCall(k)
  /\ UNCHANGED <<cache, exhausted, quiet>>

\* A valid entry answers the view at once and nothing changes.  Otherwise the
\* upstream is called.
Call(v, k) ==
  /\ call[v] = NoCall
  /\ cache[k].left = 0
  /\ call' = [call EXCEPT ![v] = [key |-> k, age |-> 0, limited |-> Limited(k), more |-> k \in TwoCalls]]
  /\ quota' = AfterCall(k)
  /\ UNCHANGED <<cache, exhausted, quiet>>

\* The departures of Incheon have come, and its arrivals are asked for.
SecondCall(v) ==
  /\ call[v].more /\ ~call[v].limited
  /\ call' = [call EXCEPT ![v].limited = Limited(call[v].key), ![v].more = FALSE]
  /\ quota' = AfterCall(call[v].key)
  /\ UNCHANGED <<cache, exhausted, quiet>>

\* A call during the limit ends with it or with an error of another kind; the first
\* of two calls ends the fetch only with an error.
Possible(c) ==
  IF c.key \in Months THEN {IF Failed(a) THEN "error" ELSE "success" : a \in MonthAnswers}
  ELSE {FlightStatus(a) : a \in {x \in FlightAnswers :
          CASE c.limited             -> x.raised # "no"
            [] ~c.limited /\ c.more  -> x.raised = "other"
            [] ~c.limited /\ ~c.more -> x.raised # "limited"}}

\* The answer is stored with the time the fetch was begun, over whatever an
\* overlapping call has stored in the meantime.
Answer(v, status) ==
  LET k == call[v].key
      left == Less(Lifetime(k, status), call[v].age)
      alone == \A w \in Viewers \ {v} : call[w].key # k
  IN /\ call[v] # NoCall
     /\ status \in Possible(call[v])
     /\ cache' = IF k \in Flights /\ status = "error" THEN cache
                 ELSE [cache EXCEPT ![k] = [status |-> status, left |-> left]]
     /\ quiet' = IF alone /\ (status = "success" \/ k \in Months)
                 THEN [quiet EXCEPT ![k] = left]
                 ELSE IF alone /\ status = "limited"
                 THEN [quiet EXCEPT ![k] = Less(Backoff, call[v].age)] ELSE quiet
     /\ call' = [call EXCEPT ![v] = NoCall]
     /\ UNCHANGED <<quota, exhausted>>

Exhaust ==
  /\ Window > 0 /\ exhausted < MaxExhausted
  /\ exhausted' = exhausted + 1
  /\ quota' = Window
  /\ UNCHANGED <<cache, call, quiet>>

\* The client's timeout is one of each upstream call.
Patience(c) == IF c.key \in TwoCalls /\ ~c.more THEN 2 * Timeout ELSE Timeout

Tick ==
  /\ \A v \in Viewers : call[v].age < Patience(call[v])
  /\ cache' = [k \in Keys |-> [cache[k] EXCEPT !.left = Less(@, 1)]]
  /\ call' = [v \in Viewers |-> IF call[v] = NoCall THEN NoCall ELSE [call[v] EXCEPT !.age = @ + 1]]
  /\ quota' = Less(quota, 1)
  /\ quiet' = [k \in Keys |-> Less(quiet[k], 1)]
  /\ UNCHANGED exhausted

Next ==
  \/ \E v \in Viewers :
       \/ \E k \in Keys : Call(v, k)
       \/ SecondCall(v)
       \/ \E status \in Statuses : Answer(v, status)
  \/ Exhaust
  \/ Tick

Spec == Init /\ [][Next]_vars

\* Time passes, holidays are looked at again and again (flights need not be), a fetch
\* goes on to its second call, and not every answer is an error.
FairSpec ==
  /\ Spec
  /\ WF_vars(Tick)
  /\ \A k \in Months : SF_vars(\E v \in Viewers : Call(v, k))
  /\ \A k \in TwoCalls : SF_vars(\E v \in Viewers : call[v].key = k /\ SecondCall(v))
  /\ \A k \in Keys :
       SF_vars(\E v \in Viewers : call[v].key = k /\ \E s \in {"success", "limited"} : Answer(v, s))
-----------------------------------------------------------------------------
Called(k) == \E v \in Viewers : call[v].key # k /\ call'[v].key = k

\* An answer keeps its upstream from being called for its whole lifetime - five
\* minutes for flights, the backoff after a rate limit, a day for a month's holidays -
\* unless a call that overlapped the answered one overwrites it.
QuietAfterAnswer == [][\A k \in Keys : Called(k) => quiet[k] = 0]_vars

\* Page views of one airport and day do not renew the rate limit for ever: if from some
\* time on no other flights are fetched, the quota comes back for good.  Of views of
\* several airports nothing of the kind is true: their fetches can take turns in
\* renewing a limit that each of them remembers for itself (flight_status.py:238).
QuotaComesBack ==
  \A f \in Flights :
    []<><<\E g \in Flights \ {f} : Called(g)>>_vars \/ <>[](quota = 0)

\* Holidays that could not be fetched are fetched again.
HolidaysRecover == \A k \in Months : []<>(cache[k].status = "success")
=============================================================================
