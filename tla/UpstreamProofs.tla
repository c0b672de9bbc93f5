--------------------------- MODULE UpstreamProofs ---------------------------
(***************************************************************************)
(* What is asked of the providers: flights and holidays when a page is     *)
(* viewed, how long they are kept, and the special days that are found     *)
(* with the holidays; and how long a rate limit keeps the collector from   *)
(* asking, for every interval, backoff and duration of a run.              *)
(***************************************************************************)
EXTENDS UpstreamCaches, UpstreamBackoff, Patterns, FiniteSetTheorems, TLAPS

-----------------------------------------------------------------------------
(* The markers of every answer about flights.                               *)

\* Joining codeshares loses no flight, shows none twice and invents none: each
\* flight has exactly one marker of its direction, time and route, which lists its
\* number, and each number of a marker is that of such a flight
\* (_deduplicate_codeshare_flights).
THEOREM BoardExact ==
  ASSUME NEW flights
  PROVE  /\ \A f \in flights : \E m \in Board(flights) :
              /\ m.key = KeyOf(f) /\ f.number \in m.numbers
              /\ \A n \in Board(flights) : n.key = KeyOf(f) => n = m
         /\ \A m \in Board(flights) : \A number \in m.numbers :
              \E f \in flights : KeyOf(f) = m.key /\ f.number = number
<1>1. \A m \in Board(flights) : m = Marker(flights, m.key)
  BY DEF Board, Marker
<1>2. ASSUME NEW f \in flights
      PROVE  \E m \in Board(flights) :
              /\ m.key = KeyOf(f) /\ f.number \in m.numbers
              /\ \A n \in Board(flights) : n.key = KeyOf(f) => n = m
  <2>1. Marker(flights, KeyOf(f)) \in Board(flights)
    BY DEF Board
  <2>2. Marker(flights, KeyOf(f)).key = KeyOf(f)
    BY DEF Marker
  <2>3. f.number \in Marker(flights, KeyOf(f)).numbers
    BY DEF Marker
  <2> QED  BY <1>1, <2>1, <2>2, <2>3
<1>3. ASSUME NEW m \in Board(flights), NEW number \in m.numbers
      PROVE  \E f \in flights : KeyOf(f) = m.key /\ f.number = number
  <2>1. number \in Marker(flights, m.key).numbers
    BY <1>1
  <2> QED  BY <2>1 DEF Marker
<1> QED  BY <1>2, <1>3

\* Both sections of an Incheon answer are on the board, or the one that is there if
\* the other failed: no departure is taken for an arrival of the same time and route.
THEOREM IncheonDirections ==
  ASSUME NEW answer, NEW localDate
  PROVE  /\ \A raw \in SectionItems(answer.departures) : Usable(raw) =>
              \E m \in IncheonBoard(answer, localDate) :
                 m.key[1] = "departure" /\ raw.number \in m.numbers
         /\ \A m \in IncheonBoard(answer, localDate) : m.key[1] = "departure" =>
              \A number \in m.numbers :
                \E raw \in SectionItems(answer.departures) : Usable(raw) /\ raw.number = number
<1> DEFINE Of(section, direction) ==
             {IncheonFlight(raw, direction, localDate) :
                raw \in {r \in SectionItems(section) : Usable(r)}}
           flights == Of(answer.departures, "departure") \cup Of(answer.arrivals, "arrival")
<1>1. IncheonBoard(answer, localDate) = Board(flights)
  BY DEF IncheonBoard
<1>2. \A raw, direction : /\ IncheonFlight(raw, direction, localDate).direction = direction
                          /\ IncheonFlight(raw, direction, localDate).number = raw.number
  BY DEF IncheonFlight, Flight
<1>3. \A f : KeyOf(f)[1] = f.direction
  BY DEF KeyOf
<1>4. \A f \in flights : f.direction = "departure" =>
        \E raw \in SectionItems(answer.departures) : Usable(raw) /\ raw.number = f.number
  BY <1>2
<1>5. \A raw \in SectionItems(answer.departures) : Usable(raw) =>
        \E f \in flights : f.direction = "departure" /\ f.number = raw.number
  BY <1>2
<1> HIDE DEF flights
<1>6. /\ \A f \in flights : \E m \in Board(flights) : m.key = KeyOf(f) /\ f.number \in m.numbers
      /\ \A m \in Board(flights) : \A number \in m.numbers :
           \E f \in flights : KeyOf(f) = m.key /\ f.number = number
  BY BoardExact
<1>7. \A raw \in SectionItems(answer.departures) : Usable(raw) =>
        \E m \in Board(flights) : m.key[1] = "departure" /\ raw.number \in m.numbers
  BY ONLY <1>3, <1>5, <1>6
<1>8. \A m \in Board(flights) : m.key[1] = "departure" =>
        \A number \in m.numbers :
          \E raw \in SectionItems(answer.departures) : Usable(raw) /\ raw.number = number
  BY ONLY <1>3, <1>4, <1>6
<1> QED  BY ONLY <1>1, <1>7, <1>8

\* A KAC marker lies on the flight's own date whatever its new time is: a delay past
\* midnight moves it back by almost a day (_combine_local_time gets the date of the
\* schedule for both times).
THEOREM KacMarkerOnFlightDate ==
  ASSUME NEW raw, NEW airport, NEW localDate \in Nat,
         raw.date \in Nat \cup {Blank}, raw.std \in 0..(MinutesPerDay - 1),
         raw.etd \in 0..(MinutesPerDay - 1) \cup {Blank}
  PROVE  LET date == FirstOf(raw.date, localDate)
         IN KacFlight(raw, airport, localDate).marker \in At(date, 0)..At(date, MinutesPerDay - 1)
<1> DEFINE date == FirstOf(raw.date, localDate)
<1>1. date \in Nat
  BY BlankAssumption DEF FirstOf
<1>2. \A minute \in 0..(MinutesPerDay - 1) :
        At(date, minute) \in Int /\ At(date, minute) \in At(date, 0)..At(date, MinutesPerDay - 1)
  <2> HIDE DEF date
  <2> QED  BY <1>1 DEF At, MinutesPerDay
<1>3. \A minute \in 0..(MinutesPerDay - 1) :
        At(date, minute) \in At(date, 0)..At(date, MinutesPerDay - 1) /\ At(date, minute) # Blank
  BY <1>2, BlankAssumption
<1>4. KacFlight(raw, airport, localDate).marker =
        IF raw.etd = Blank THEN At(date, raw.std) ELSE At(date, raw.etd)
  BY <1>3, BlankAssumption DEF KacFlight, Flight, FirstOf
<1> QED  BY <1>3, <1>4

-----------------------------------------------------------------------------
(* The special-day chart asks for the holidays of a bounded past and then    *)
(* walks back day by day until it has found `limit` special days             *)
(* (main.py:560-598 and _build_recent_special_days).  The walk has no bound   *)
(* of its own; the weekends give it one, and it lies within what was asked    *)
(* for.  What was asked for comes through holidays.py.                        *)

\* The k-th Saturday before a day, k = 0 being the last one up to that day.
Saturday(today, k) == today - ((today + 2) % 7) - 7 * k

\* It is a Saturday, and no more than 7 * k + 6 days before the day.
LEMMA SaturdaysBefore ==
  ASSUME NEW today \in Nat, NEW k \in Nat, Saturday(today, k) >= 0
  PROVE  /\ Saturday(today, k) \in 0..today
         /\ Saturday(today, k) % 7 = 5
         /\ Saturday(today, k) >= today - 7 * k - 6
<1>1. PICK q \in Int, r \in 0..6 : today + 2 = 7 * q + r /\ r = (today + 2) % 7
  BY SMT
<1>2. Saturday(today, k) = 7 * (q - k - 1) + 5
  BY <1>1 DEF Saturday
<1>3. (7 * (q - k - 1) + 5) % 7 = 5
  BY <1>1, SMT
<1> QED  BY <1>1, <1>2, <1>3 DEF Saturday

\* After a day `limit` weeks back or more come `limit` special days, whatever the
\* holidays are.
LEMMA SpecialDaysAfter ==
  ASSUME NEW today \in Nat, NEW limit \in Nat \ {0}, NEW holidays,
         NEW d \in Nat, d <= today - 7 * limit
  PROVE  ~(Cardinality({e \in (d + 1)..today : IsSpecial(holidays, e)}) < limit)
<1> DEFINE E == {e \in (d + 1)..today : IsSpecial(holidays, e)}
           K == 0..(limit - 1)
           f == [k \in K |-> Saturday(today, k)]
<1>1. IsFiniteSet(E)
  <2>1. IsFiniteSet((d + 1)..today) /\ E \in SUBSET ((d + 1)..today)
    BY FS_Interval
  <2> QED  BY <2>1, FS_Subset
<1>2. Cardinality(K) = limit
  BY FS_Interval
<1>3. \A k \in K : Saturday(today, k) \in E
  <2> SUFFICES ASSUME NEW k \in K
               PROVE  Saturday(today, k) \in E
    OBVIOUS
  <2>1. (today + 2) % 7 \in 0..6
    BY SMT
  <2>2. Saturday(today, k) >= d + 1
    BY <2>1 DEF Saturday
  <2>3. Saturday(today, k) \in Int /\ Saturday(today, k) >= 0 /\ k \in Nat
    BY <2>1, <2>2 DEF Saturday
  <2>4. Saturday(today, k) \in 0..today /\ Saturday(today, k) % 7 = 5
    BY <2>3, SaturdaysBefore
  <2> QED  BY <2>2, <2>4 DEF IsSpecial
<1>4. \A j, k \in K : Saturday(today, j) = Saturday(today, k) => j = k
  <2>1. (today + 2) % 7 \in 0..6
    BY SMT
  <2> QED  BY <2>1 DEF Saturday
<1>5. f \in Injection(K, E)
  BY <1>3, <1>4 DEF Injection, IsInjective
<1> HIDE DEF f, K, E
<1>6. Cardinality(K) <= Cardinality(E)
  BY <1>1, <1>5, FS_Injection
<1>7. Cardinality(E) \in Nat
  BY <1>1, FS_CardinalityType
<1> QED  BY <1>2, <1>6, <1>7 DEF E

\* The walk never leaves the days it has holidays for: it finds the same special
\* days as if it knew every holiday there ever was.  (main.py:569-572 asks for
\* max(90, limit * 14) days; the walk itself does not look at that number.)
THEOREM LookbackSuffices ==
  ASSUME NEW today \in Nat, NEW limit \in Nat \ {0}, NEW holidays
  PROVE  LET known == holidays \cap ((today - Lookback(limit))..today)
         IN RecentSpecialDays(today, known, limit) = RecentSpecialDays(today, holidays, limit)
<1> DEFINE known == holidays \cap ((today - Lookback(limit))..today)
           After(h, d) == {e \in (d + 1)..today : IsSpecial(h, e)}
           From == today - 7 * limit
<1>1. Lookback(limit) \in Int /\ Lookback(limit) >= 7 * limit
  <2>1. PICK m \in {90, limit * 14} : \A n \in {90, limit * 14} : m >= n
    <3>1. CASE limit * 14 >= 90
      BY <3>1
    <3>2. CASE limit * 14 < 90
      BY <3>2
    <3> QED  BY <3>1, <3>2
  <2> QED  BY <2>1 DEF Lookback, Max
<1> HIDE DEF known, After, From
<1>2. \A e \in Nat : e \in From..today => (IsSpecial(known, e) <=> IsSpecial(holidays, e))
  BY <1>1 DEF IsSpecial, known, From
<1>3. \A d \in 0..today : \A h : d \in RecentSpecialDays(today, h, limit) => d > From
  <2> SUFFICES ASSUME NEW d \in 0..today, NEW h, ~(d > From)
               PROVE  ~(Cardinality({e \in (d + 1)..today : IsSpecial(h, e)}) < limit)
    BY DEF RecentSpecialDays
  <2>1. d \in Nat /\ d <= today - 7 * limit
    BY DEF From
  <2> QED  BY <2>1, SpecialDaysAfter
<1>4. \A d \in 0..today : d > From => After(known, d) = After(holidays, d)
  <2> SUFFICES ASSUME NEW d \in 0..today, d > From, NEW e \in (d + 1)..today
               PROVE  IsSpecial(known, e) <=> IsSpecial(holidays, e)
    BY DEF After
  <2>1. e \in Nat /\ e \in From..today
    BY DEF From
  <2> QED  BY <2>1, <1>2
<1>5. \A d, h : d \in RecentSpecialDays(today, h, limit) <=>
                /\ d \in 0..today /\ IsSpecial(h, d) /\ Cardinality(After(h, d)) < limit
  BY DEF RecentSpecialDays, After
<1>6. \A d \in 0..today : d > From => (IsSpecial(known, d) <=> IsSpecial(holidays, d))
  BY <1>2 DEF From
<1>7. \A d : d \in RecentSpecialDays(today, known, limit) <=>
              d \in RecentSpecialDays(today, holidays, limit)
  BY <1>3, <1>4, <1>5, <1>6
<1> QED  BY <1>7 DEF RecentSpecialDays, known
-----------------------------------------------------------------------------
(* The holidays the walk is given come month by month through holidays.py. *)

Announced(answer) == {Parsed(raw) : raw \in {x \in answer.items : Readable(x)}}

\* What the holiday service is expected to answer: each item is dated in the month
\* asked for, and of a date and a name only one thing is said.
Coherent(answers) ==
  \A m \in Nat :
    /\ ~Failed(answers[m])
    /\ \A h \in Announced(answers[m]) : MonthOf[h.date] = m
    /\ \A g, h \in Announced(answers[m]) : g.date = h.date /\ g.name = h.name => g = h

\* Whatever holidays there are: the dates of all that any month announces.
Announcements(answers) ==
  {h.date : h \in {x \in UNION {Announced(answers[m]) : m \in Nat} : x.isHoliday}}

\* Every holiday of a range of days is found, and nothing else is: the months of
\* the range cover it, and no item is lost where lists are joined.
THEOREM HolidaysFound ==
  ASSUME NEW answers, Coherent(answers), NEW start \in Dates, NEW end \in Dates
  PROVE  DOMAIN Collapsed(GetHolidays(answers, start, end)) =
           Announcements(answers) \cap (start..end)
<1>1. \A m \in Nat : MonthItems(answers[m]) = Announced(answers[m])
  BY DEF Coherent, MonthItems, Deduplicated, FirstLike, Announced
<1>2. \A m \in Nat : \A h \in Announced(answers[m]) : h.date \in Dates
  BY DEF Announced, Readable, Parsed
<1>3. \A d \in Dates : d \in start..end => MonthOf[d] \in MonthsBetween(start, end)
  BY MonthsAssumption DEF MonthsBetween, Dates
<1>4. MonthsBetween(start, end) \subseteq Nat
  BY MonthsAssumption DEF MonthsBetween
<1>5. \A d : d \in DOMAIN Collapsed(GetHolidays(answers, start, end)) <=>
              \E m \in MonthsBetween(start, end) : \E h \in MonthItems(answers[m]) :
                 h.isHoliday /\ h.date \in start..end /\ h.date = d
  BY DEF Collapsed, GetHolidays
<1>6. \A d : d \in Announcements(answers) <=>
              \E m \in Nat : \E h \in Announced(answers[m]) : h.isHoliday /\ h.date = d
  BY DEF Announcements
<1>7. \A m \in Nat : \A h \in Announced(answers[m]) :
        h.date \in start..end => m \in MonthsBetween(start, end)
  BY <1>2, <1>3 DEF Coherent
<1>8. \A d : d \in DOMAIN Collapsed(GetHolidays(answers, start, end)) <=>
              d \in Announcements(answers) /\ d \in start..end
  <2> SUFFICES ASSUME NEW d
               PROVE  (\E m \in MonthsBetween(start, end) : \E h \in Announced(answers[m]) :
                         h.isHoliday /\ h.date \in start..end /\ h.date = d) <=>
                      /\ \E m \in Nat : \E h \in Announced(answers[m]) :
                           h.isHoliday /\ h.date = d
                      /\ d \in start..end
    BY <1>1, <1>4, <1>5, <1>6
  <2> QED  BY <1>4, <1>7
<1> QED  BY <1>8

\* The special-day chart knows every holiday it walks past: asked for the holidays
\* of its lookback, the service gives the walk the same days as a list of all the
\* holidays there ever were.
THEOREM SpecialDaysComplete ==
  ASSUME NEW answers, Coherent(answers), NEW limit \in Nat \ {0},
         NEW today \in Dates, today - Lookback(limit) \in Dates
  PROVE  LET found == Collapsed(GetHolidays(answers, today - Lookback(limit), today))
         IN RecentSpecialDays(today, DOMAIN found, limit) =
              RecentSpecialDays(today, Announcements(answers), limit)
<1>1. DOMAIN Collapsed(GetHolidays(answers, today - Lookback(limit), today)) =
        Announcements(answers) \cap ((today - Lookback(limit))..today)
  BY HolidaysFound
<1>2. today \in Nat
  BY DEF Dates
<1> QED  BY <1>1, <1>2, LookbackSuffices
-----------------------------------------------------------------------------
(* The caches, for any number of views, airports, days and months.          *)

\* Counting down stops at zero.
LEMMA LessFacts ==
  ASSUME NEW n \in Nat, NEW m \in Nat
  PROVE  /\ Less(n, m) \in Nat /\ Less(n, m) <= n
         /\ Less(n, m) = IF n > m THEN n - m ELSE 0
<1>1. CASE n > m
  <2>1. Max({0, n - m}) = n - m
    BY <1>1 DEF Max
  <2> QED  BY <1>1, <2>1 DEF Less
<1>2. CASE ~(n > m)
  <2>1. Max({0, n - m}) = 0
    BY <1>2 DEF Max
  <2> QED  BY <1>2, <2>1 DEF Less
<1> QED  BY <1>1, <1>2

\* No lifetime is longer than the longest.
LEMMA LongestFacts ==
  /\ Longest \in Nat
  /\ FlightTtl \in 0..Longest /\ Backoff \in 0..Longest /\ HolidayTtl \in 0..Longest
<1> DEFINE S == {FlightTtl, Backoff, HolidayTtl}
<1>1. S \subseteq Nat
  BY TimesAssumption
<1>2. \E x \in S : \A y \in S : x >= y
  BY <1>1
<1>3. Max(S) \in S /\ \A y \in S : Max(S) >= y
  BY <1>2 DEF Max
<1> QED  BY <1>1, <1>3 DEF Longest

\* An answer is kept for no longer than the longest lifetime.
LEMMA LifetimeType ==
  ASSUME NEW k, NEW status
  PROVE  Lifetime(k, status) \in 0..Longest
  BY LongestFacts DEF Lifetime

CallType == [key : Keys \cup {NoKey}, age : 0..2 * Timeout, limited : BOOLEAN, more : BOOLEAN]

\* Every step keeps the types.
LEMMA CacheStepType ==
  ASSUME TypeOK, [Next]_vars
  PROVE  TypeOK'
<1> USE TimeoutAssumption, BackoffAssumption, ExhaustedAssumption
<1>0. NoCall \in CallType
  BY DEF NoCall, CallType
<1>1. ASSUME NEW v \in Viewers, NEW k \in Keys, Call(v, k)
      PROVE  TypeOK'
  <2>1. Limited(k) \in BOOLEAN /\ AfterCall(k) \in 0..Window
    BY DEF Limited, AfterCall, TypeOK
  <2>2. [key |-> k, age |-> 0, limited |-> Limited(k), more |-> k \in TwoCalls] \in CallType
    BY <2>1 DEF CallType
  <2>3. call' \in [Viewers -> CallType]
    BY <1>1, <2>2 DEF Call, TypeOK, CallType
  <2> QED  BY <1>1, <2>1, <2>3 DEF Call, TypeOK, CallType
<1>6. ASSUME NEW v \in Viewers, SecondCall(v)
      PROVE  TypeOK'
  <2> DEFINE limited == Limited(call[v].key)
  <2>1. limited \in BOOLEAN /\ quota' \in 0..Window
    BY <1>6 DEF SecondCall, Limited, AfterCall, TypeOK
  <2>2. call[v] \in CallType
    BY DEF TypeOK, CallType
  <2>3. call' = [call EXCEPT ![v] = [call[v] EXCEPT !.limited = limited, !.more = FALSE]]
    BY <1>6 DEF SecondCall, TypeOK
  <2> HIDE DEF limited
  <2>4. [call[v] EXCEPT !.limited = limited, !.more = FALSE] \in CallType
    BY <2>1, <2>2 DEF CallType
  <2>5. call' \in [Viewers -> CallType]
    BY <2>3, <2>4 DEF TypeOK, CallType
  <2> QED  BY <1>6, <2>1, <2>5 DEF SecondCall, TypeOK, CallType
<1>2. ASSUME NEW v \in Viewers, NEW status \in Statuses, Answer(v, status)
      PROVE  TypeOK'
  <2> DEFINE k == call[v].key
             left == Less(Lifetime(k, status), call[v].age)
  <2>1. call[v] \in CallType
    BY DEF TypeOK, CallType
  <2>2. call[v].age \in Nat /\ Longest \in Nat
    BY <2>1, LongestFacts DEF CallType
  <2>3. ASSUME NEW n \in 0..Longest
        PROVE  Less(n, call[v].age) \in 0..Longest
    <3>1. n \in Nat /\ n <= Longest
      BY <2>2
    <3>2. Less(n, call[v].age) \in Nat /\ Less(n, call[v].age) <= n
      BY <2>2, <3>1, LessFacts
    <3> QED  BY <2>2, <3>1, <3>2
  <2>4. left \in 0..Longest /\ Less(Backoff, call[v].age) \in 0..Longest
    BY <2>3, LifetimeType, LongestFacts
  <2>5. [status |-> status, left |-> left] \in [status : Statuses, left : 0..Longest]
    BY <2>4
  <2>6. cache' \in [Keys -> [status : Statuses, left : 0..Longest]]
    BY <1>2, <2>5 DEF Answer, TypeOK
  <2>7. quiet' \in [Keys -> 0..Longest]
    BY <1>2, <2>4 DEF Answer, TypeOK
  <2>8. call' \in [Viewers -> CallType]
    BY <1>0, <1>2 DEF Answer, TypeOK, CallType
  <2> QED  BY <1>2, <2>6, <2>7, <2>8 DEF Answer, TypeOK, CallType
<1>3. CASE Exhaust
  BY <1>3 DEF Exhaust, TypeOK
<1>4. CASE Tick
  <2>1. \A n \in 0..Longest : Less(n, 1) \in 0..Longest
    BY LongestFacts, LessFacts
  <2>2. \A k \in Keys : [cache[k] EXCEPT !.left = Less(@, 1)] \in [status : Statuses, left : 0..Longest]
    BY <2>1 DEF TypeOK
  <2>3. \A v \in Viewers : call[v] # NoCall => [call[v] EXCEPT !.age = @ + 1] \in CallType
    <3> SUFFICES ASSUME NEW v \in Viewers PROVE [call[v] EXCEPT !.age = @ + 1] \in CallType
      OBVIOUS
    <3>1. call[v] \in CallType /\ call[v].age \in 0..2 * Timeout /\ call[v].age < 2 * Timeout
      BY <1>4 DEF Tick, Patience, TypeOK, CallType
    <3>2. call[v].age + 1 \in 0..2 * Timeout
      BY <3>1
    <3> QED  BY <3>1, <3>2 DEF CallType
  <2>4. call' \in [Viewers -> CallType]
    BY <1>0, <1>4, <2>3 DEF Tick
  <2>5. quota' \in 0..Window
    BY <1>4, LessFacts DEF Tick, TypeOK
  <2> QED  BY <1>4, <2>1, <2>2, <2>4, <2>5 DEF Tick, TypeOK, CallType
<1>5. CASE UNCHANGED vars
  BY <1>5 DEF vars, TypeOK
<1> QED  BY <1>1, <1>2, <1>3, <1>4, <1>5, <1>6 DEF Next

\* While an answer that no other call could overwrite rules out calls, its entry is
\* valid and no call for it is under way.
QuietInv ==
  \A k \in Keys :
    /\ quiet[k] <= cache[k].left
    /\ quiet[k] > 0 => \A v \in Viewers : call[v].key # k

\* Every step keeps it so.
LEMMA QuietKept ==
  ASSUME TypeOK, QuietInv, [Next]_vars
  PROVE  QuietInv'
<1> SUFFICES ASSUME NEW k \in Keys
             PROVE  /\ quiet'[k] <= cache'[k].left
                    /\ quiet'[k] > 0 => \A v \in Viewers : call'[v].key # k
  BY DEF QuietInv
<1>0. quiet[k] \in Nat /\ cache[k].left \in Nat
  BY LongestFacts DEF TypeOK
<1>1. ASSUME NEW v \in Viewers, NEW l \in Keys, Call(v, l)
      PROVE  /\ quiet'[k] <= cache'[k].left
             /\ quiet'[k] > 0 => \A w \in Viewers : call'[w].key # k
  <2>1. quiet[k] > 0 => l # k
    BY <1>0, <1>1 DEF Call, QuietInv
  <2> QED  BY <1>1, <2>1 DEF Call, QuietInv, TypeOK
<1>2. ASSUME NEW v \in Viewers, NEW status \in Statuses, Answer(v, status)
      PROVE  /\ quiet'[k] <= cache'[k].left
             /\ quiet'[k] > 0 => \A w \in Viewers : call'[w].key # k
  <2> DEFINE l == call[v].key
             left == Less(Lifetime(l, status), call[v].age)
             alone == \A w \in Viewers \ {v} : call[w].key # l
  <2>1. call'[v].key # k /\ \A w \in Viewers \ {v} : call'[w] = call[w]
    BY <1>2, KeysAssumption DEF Answer, TypeOK, NoCall
  <2>2. CASE k # l
    BY <1>2, <2>1, <2>2 DEF Answer, QuietInv, TypeOK
  <2>3. CASE k = l
    <3>1. quiet[k] = 0
      BY <1>0, <2>3 DEF QuietInv
    <3>2. left \in Nat
      <4>1. call[v].age \in Nat
        BY TimeoutAssumption DEF TypeOK
      <4>2. Lifetime(l, status) \in Nat
        BY LifetimeType, LongestFacts
      <4> QED  BY <4>1, <4>2, LessFacts
    <3>3. CASE quiet'[k] = quiet[k]
      <4>1. cache'[k].left \in Nat
        BY <1>0, <1>2, <2>3, <3>2 DEF Answer, TypeOK
      <4> QED  BY <3>1, <3>3, <4>1
    <3>4. CASE alone /\ quiet'[k] = left /\ cache'[k].left = left
      BY <2>1, <2>3, <3>2, <3>4
    <3>5. \/ quiet'[k] = quiet[k]
          \/ alone /\ quiet'[k] = left /\ cache'[k].left = left
      <4>1. CASE alone /\ (status = "success" \/ l \in Months)
        BY <1>2, <2>3, <4>1, KeysAssumption DEF Answer, TypeOK
      <4>2. CASE alone /\ status = "limited" /\ l \notin Months
        <5>1. Lifetime(l, status) = Backoff
          BY <4>2 DEF Lifetime
        <5> QED  BY <1>2, <2>3, <4>2, <5>1 DEF Answer, TypeOK
      <4>3. CASE ~alone \/ (status \notin {"success", "limited"} /\ l \notin Months)
        BY <1>2, <4>3 DEF Answer
      <4> QED  BY <4>1, <4>2, <4>3
    <3> QED  BY <3>3, <3>4, <3>5
  <2> QED  BY <2>2, <2>3
<1>3. CASE Exhaust \/ UNCHANGED vars
  BY <1>3 DEF Exhaust, vars, QuietInv
<1>4. CASE Tick
  <2>1. quiet'[k] = Less(quiet[k], 1) /\ cache'[k].left = Less(cache[k].left, 1)
    BY <1>4 DEF Tick, TypeOK
  <2>2. \A v \in Viewers : call'[v].key = call[v].key
    BY <1>4 DEF Tick, TypeOK
  <2>3. /\ quiet'[k] = IF quiet[k] > 1 THEN quiet[k] - 1 ELSE 0
        /\ cache'[k].left = IF cache[k].left > 1 THEN cache[k].left - 1 ELSE 0
    BY <1>0, <2>1, LessFacts
  <2> QED  BY <1>0, <2>2, <2>3 DEF QuietInv
<1>5. ASSUME NEW v \in Viewers, SecondCall(v)
      PROVE  /\ quiet'[k] <= cache'[k].left
             /\ quiet'[k] > 0 => \A w \in Viewers : call'[w].key # k
  <2>1. \A w \in Viewers : call'[w].key = call[w].key
    BY <1>5 DEF SecondCall, TypeOK
  <2> QED  BY <1>5, <2>1 DEF SecondCall, QuietInv
<1> QED  BY <1>1, <1>2, <1>3, <1>4, <1>5 DEF Next

\* The keys, times and statuses of the two caches and of the calls under way are
\* what their types say; no entry outlives the longest lifetime and no fetch its timeouts.
THEOREM CachesTypeCorrect == Spec => []TypeOK
<1>1. Init => TypeOK
  BY LongestFacts, TimeoutAssumption, BackoffAssumption, ExhaustedAssumption
     DEF Init, TypeOK, NoCall, Statuses
<1> QED  BY <1>1, CacheStepType, PTL DEF Spec

\* An answer keeps its upstream from being called for its whole lifetime, unless a
\* call that overlapped the answered one overwrites it (get_airport_flight_status,
\* _get_month).
THEOREM Quiet == Spec => QuietAfterAnswer
<1>1. Init => QuietInv
  BY DEF Init, QuietInv
<1>2. TypeOK /\ QuietInv /\ [Next]_vars => [\A k \in Keys : Called(k) => quiet[k] = 0]_vars
  <2> SUFFICES ASSUME TypeOK, QuietInv, Next, NEW k \in Keys, Called(k)
               PROVE  quiet[k] = 0
    BY DEF vars
  <2>0. quiet[k] \in Nat /\ cache[k].left \in Nat
    BY LongestFacts DEF TypeOK
  <2>1. PICK v \in Viewers : call[v].key # k /\ call'[v].key = k
    BY DEF Called
  <2>2. ASSUME NEW w \in Viewers, NEW l \in Keys, Call(w, l)
        PROVE  quiet[k] = 0
    <3>1. w = v /\ l = k
      BY <2>1, <2>2 DEF Call, TypeOK
    <3> QED  BY <2>0, <2>2, <3>1 DEF Call, QuietInv
  <2>3. ASSUME NEW w \in Viewers, NEW status \in Statuses, Answer(w, status)
        PROVE  FALSE
    BY <2>1, <2>3, KeysAssumption DEF Answer, TypeOK, NoCall
  <2>4. CASE Exhaust
    BY <2>1, <2>4 DEF Exhaust
  <2>5. CASE Tick
    BY <2>1, <2>5 DEF Tick, TypeOK
  <2>6. ASSUME NEW w \in Viewers, SecondCall(w)
        PROVE  FALSE
    BY <2>1, <2>6 DEF SecondCall, TypeOK
  <2> QED  BY <2>2, <2>3, <2>4, <2>5, <2>6 DEF Next
<1> QED  BY <1>1, <1>2, CachesTypeCorrect, QuietKept, PTL DEF Spec, QuietAfterAnswer

-----------------------------------------------------------------------------
(* The rate limit of KAC and the scheduler's deadlines.                     *)

\* The scheduler's turn has begun a run that has not ended.
InTurn == phase # "asleep" /\ run.by = "scheduler"

\* The deadline is never before the last turn that was over when it was set, and once
\* the turn that follows is over too, an interval after it.  An age that has reached
\* Interval is no longer counted.
DeadlineInv ==
  /\ InTurn => /\ due <= 0
               /\ starts.before = Interval \/ starts.before + due >= 0
  /\ ~InTurn => /\ starts.last = Interval \/ starts.last + due >= 0
                /\ starts.before = Interval \/ starts.before + due >= Interval

\* Without another source no run is made while KAC is blocked.
UnblockedInv == phase # "asleep" => ~RateLimited

\* Every step keeps the types; a turn is begun when it is due, so that its next deadline
\* is at most an interval ahead.
LEMMA TypesKept == BackoffTypeOK /\ DeadlineInv /\ [BackoffNext]_backoffVars => BackoffTypeOK'
<1> SUFFICES ASSUME BackoffTypeOK, DeadlineInv, [BackoffNext]_backoffVars PROVE BackoffTypeOK'
  OBVIOUS
<1> USE BackoffTimesAssumption
<1>1. CASE ScheduledRun
  BY <1>1 DEF ScheduledRun, Begin, Turn, BackoffTypeOK, RateLimited
<1>2. CASE ManualRun
  BY <1>2 DEF ManualRun, Begin, BackoffTypeOK, RateLimited
<1>3. CASE Skip
  BY <1>3 DEF Skip, Turn, NextDue, BackoffTypeOK
<1>4. CASE AskKac
  <2>1. (~accepting) \in BOOLEAN
    BY DEF BackoffTypeOK
  <2>2. run' \in [by : {"scheduler", "manual"}, age : 0..Duration, marked : BOOLEAN]
    <3> DEFINE m == ~accepting
    <3>1. run' = [run EXCEPT !.marked = m] /\ m \in BOOLEAN
      BY <1>4, <2>1 DEF AskKac
    <3> HIDE DEF m
    <3> QED
      BY <3>1, Zenon DEF BackoffTypeOK
  <2> QED
    BY <1>4, <2>2 DEF AskKac, BackoffTypeOK
<1>5. ASSUME NEW marked \in BOOLEAN, phase = "others", Commit(marked)
      PROVE  BackoffTypeOK'
  <2>1. latest' \in [age : Ages, marked : BOOLEAN]
    BY <1>5 DEF Commit, BackoffTypeOK, Ages
  <2>2. due' \in -(Interval + 1)..Interval
    BY <1>5 DEF Commit, BackoffTypeOK, NextDue, DeadlineInv, InTurn
  <2> QED
    BY <1>5, <2>1, <2>2 DEF Commit, BackoffTypeOK, NoRun
<1>6. CASE Finish
  <2>1. \A limited \in BOOLEAN : (run.marked \/ limited) \in BOOLEAN
    OBVIOUS
  <2> QED
    BY <1>5, <1>6, <2>1 DEF Finish
<1>7. CASE Raise
  BY <1>5, <1>7 DEF Raise
<1>8. CASE TimePasses
  BY <1>8 DEF TimePasses, BackoffTypeOK, Ages
<1>9. CASE QuotaChanges
  BY <1>9 DEF QuotaChanges, BackoffTypeOK
<1>10. CASE UNCHANGED backoffVars
  BY <1>10 DEF backoffVars, BackoffTypeOK
<1> QED
  BY <1>1, <1>2, <1>3, <1>4, <1>6, <1>7, <1>8, <1>9, <1>10 DEF BackoffNext

\* What the deadline is worth is kept by every step.
LEMMA DeadlineKept == BackoffTypeOK /\ DeadlineInv /\ [BackoffNext]_backoffVars => DeadlineInv'
<1> SUFFICES ASSUME BackoffTypeOK, DeadlineInv, [BackoffNext]_backoffVars
             PROVE  DeadlineInv'
  OBVIOUS
<1> USE BackoffTimesAssumption
<1>1. CASE ScheduledRun
  BY <1>1 DEF ScheduledRun, Begin, Turn, BackoffTypeOK, DeadlineInv, InTurn
<1>2. CASE ManualRun
  BY <1>2 DEF ManualRun, Begin, BackoffTypeOK, DeadlineInv, InTurn
<1>3. CASE Skip
  BY <1>3 DEF Skip, Turn, NextDue, BackoffTypeOK, DeadlineInv, InTurn
<1>4. CASE AskKac
  BY <1>4 DEF AskKac, BackoffTypeOK, DeadlineInv, InTurn
<1>5. ASSUME NEW marked, phase = "others", Commit(marked)
      PROVE  DeadlineInv'
  <2>1. CASE run.by = "scheduler"
    <3>1. due' = NextDue /\ starts' = starts /\ phase' = "asleep"
      BY <1>5, <2>1 DEF Commit
    <3>2. starts.before = Interval \/ starts.before + due >= 0
      BY <1>5, <2>1 DEF DeadlineInv, InTurn
    <3> QED
      BY <3>1, <3>2 DEF BackoffTypeOK, NextDue, DeadlineInv, InTurn
  <2>2. CASE run.by # "scheduler"
    BY <1>5, <2>2 DEF Commit, BackoffTypeOK, DeadlineInv, InTurn
  <2> QED
    BY <2>1, <2>2
<1>6. CASE Finish
  BY <1>5, <1>6 DEF Finish
<1>7. CASE Raise
  BY <1>5, <1>7 DEF Raise
<1>8. CASE TimePasses
  <2>1. InTurn' = InTurn
    BY <1>8 DEF TimePasses, InTurn, BackoffTypeOK
  <2>2. /\ starts'.last = IF starts.last < Interval THEN starts.last + 1 ELSE Interval
        /\ starts'.before = IF starts.before < Interval THEN starts.before + 1 ELSE Interval
    BY <1>8 DEF TimePasses, BackoffTypeOK
  <2>3. due' \in {due, due - 1}
    BY <1>8 DEF TimePasses, BackoffTypeOK
  <2> QED
    BY <2>1, <2>2, <2>3 DEF BackoffTypeOK, DeadlineInv
<1>9. CASE QuotaChanges
  BY <1>9 DEF QuotaChanges, DeadlineInv, InTurn
<1>10. CASE UNCHANGED backoffVars
  BY <1>10 DEF backoffVars, DeadlineInv, InTurn
<1> QED
  BY <1>1, <1>2, <1>3, <1>4, <1>6, <1>7, <1>8, <1>9, <1>10 DEF BackoffNext

\* Every variable of the backoff keeps its type, the lateness of the scheduler and the
\* age of a run included, and what the deadline is worth is kept (main.py:1157).
THEOREM BackoffTypeCorrect == BackoffSpec => [](BackoffTypeOK /\ DeadlineInv)
<1>1. BackoffInit => BackoffTypeOK /\ DeadlineInv
  BY BackoffTimesAssumption DEF BackoffInit, BackoffTypeOK, Ages, NoRun, DeadlineInv, InTurn
<1> QED
  BY <1>1, TypesKept, DeadlineKept, PTL DEF BackoffSpec

\* The scheduler does not make up for missed deadlines: of three turns in a row the
\* first and the last are an interval apart, however long runs take (main.py:1157).
THEOREM NoBurstOfRuns == BackoffSpec => NoBurst
<1>1. BackoffTypeOK /\ DeadlineInv /\ [BackoffNext]_backoffVars
        => [ScheduledRun \/ Skip => starts.before = Interval]_backoffVars
  BY BackoffTimesAssumption DEF BackoffTypeOK, DeadlineInv, InTurn, ScheduledRun, Skip, Turn
<1> QED
  BY <1>1, BackoffTypeCorrect, PTL DEF BackoffSpec, NoBurst

\* Where KAC is the only source, a block ends a backoff after the answer that started
\* it: neither a skipped run nor any other moves its end (collection.py:390).
THEOREM BlockEndsInTime ==
  ASSUME ~WithIncheon
  PROVE  BackoffSpec => BlockNotExtended
<1>1. BackoffInit => UnblockedInv
  BY DEF BackoffInit, UnblockedInv
<1>2. BackoffTypeOK /\ UnblockedInv /\ [BackoffNext]_backoffVars => UnblockedInv'
  <2> SUFFICES ASSUME BackoffTypeOK, UnblockedInv, [BackoffNext]_backoffVars PROVE UnblockedInv'
    OBVIOUS
  <2>1. CASE ScheduledRun \/ ManualRun
    BY <2>1 DEF ScheduledRun, ManualRun, Begin, UnblockedInv, RateLimited
  <2>2. CASE TimePasses
    BY <2>2, BackoffTimesAssumption DEF TimePasses, BackoffTypeOK, Ages, UnblockedInv, RateLimited
  <2>3. CASE Skip \/ AskKac \/ QuotaChanges \/ UNCHANGED backoffVars
    BY <2>3 DEF Skip, AskKac, QuotaChanges, backoffVars, UnblockedInv, RateLimited
  <2>4. CASE Finish \/ Raise
    BY <2>4 DEF Finish, Raise, Commit, UnblockedInv
  <2> QED
    BY <2>1, <2>2, <2>3, <2>4 DEF BackoffNext
<1>3. BackoffTypeOK /\ UnblockedInv /\ [BackoffNext]_backoffVars
        => [RateLimited /\ RateLimited' => latest'.age >= latest.age]_backoffVars
  <2> SUFFICES ASSUME BackoffTypeOK, UnblockedInv, BackoffNext, RateLimited
               PROVE  latest'.age >= latest.age
    OBVIOUS
  <2>1. phase = "asleep"
    BY DEF UnblockedInv
  <2>2. latest.age \in Ages
    BY DEF BackoffTypeOK
  <2>3. CASE TimePasses
    BY <2>2, <2>3, BackoffTimesAssumption DEF TimePasses, Ages, BackoffTypeOK
  <2>4. latest' = latest \/ TimePasses
    BY <2>1 DEF BackoffNext, ScheduledRun, ManualRun, Begin, Skip, AskKac, Finish, Raise, QuotaChanges
  <2> QED
    BY <2>2, <2>3, <2>4, BackoffTimesAssumption DEF Ages
<1> QED
  BY <1>1, <1>2, <1>3, BackoffTypeCorrect, PTL DEF BackoffSpec, BlockNotExtended
=============================================================================
