------------------------------ MODULE Patterns ------------------------------
(***************************************************************************)
(* The charts of the analytics pages (backend/app/services/analytics.py    *)
(* and the endpoints of main.py that load their rows): averages by hour,   *)
(* by weekday, by hour of a weekday and of a special day, and the          *)
(* airport's crossings of a threshold.                                     *)
(*                                                                         *)
(* An average is kept as the sum and the number it is made of; rounding    *)
(* and labels are left out.  Instants are minutes of local time, day 0 is  *)
(* a Monday.                                                               *)
(***************************************************************************)
EXTENDS Readings

CONSTANT HoursOfDay     \* 24

ASSUME ClockAssumption == HoursOfDay \in Nat \ {0}

DayMinutes == HourMinutes * HoursOfDay
HourOf(t) == (t \div HourMinutes) % HoursOfDay
DateOf(t) == t \div DayMinutes
WeekdayOf(t) == DateOf(t) % 7
MinuteOfDay(t) == t % DayMinutes
-----------------------------------------------------------------------------
(* Loading the rows of an airport, or of some of its lots.                 *)

LoadedSince(rows, ids, cutoff) == Shown({r \in rows : r.lot \in ids /\ r.at >= cutoff})

\* Mutant of LoadedBetween: the rows as they are stored.
LoadedBetweenAll(rows, ids, from, to) ==
  {r \in rows : r.lot \in ids /\ DateOf(r.at) \in from..to}

LoadedBetween(rows, ids, from, to) ==
  Shown({r \in rows : r.lot \in ids /\ DateOf(r.at) \in from..to})
-----------------------------------------------------------------------------
(* Averages.                                                               *)

NoStats == [sum |-> 0, low |-> 0, high |-> 0, n |-> 0]

Stats(value) ==
  LET values == {value[k] : k \in DOMAIN value}
  IN IF values = {} THEN NoStats
     ELSE [sum |-> SumFunction(value), low |-> Min(values),
           high |-> Max(values), n |-> Cardinality(DOMAIN value)]

StatsOf(readings) == Stats([r \in readings |-> r.free])

HourlyBuckets(loaded) ==
  [h \in {HourOf(r.at) : r \in loaded} |-> StatsOf({r \in loaded : HourOf(r.at) = h})]

WeekdayBuckets(loaded) ==
  [w \in {WeekdayOf(r.at) : r \in loaded} |-> StatsOf({r \in loaded : WeekdayOf(r.at) = w})]

WeekdayHourPatterns(loaded) ==
  [w \in {WeekdayOf(r.at) : r \in loaded} |->
     LET on == {r \in loaded : WeekdayOf(r.at) = w}
     IN [day |-> StatsOf(on),
         hours |-> [h \in 0..(HoursOfDay - 1) |-> StatsOf({r \in on : HourOf(r.at) = h})]]]

\* Of a special day, lots are added up instant by instant before the average.
SpecialDayPattern(loaded, date) ==
  LET at(t) == {r \in loaded : r.at = t}
      instants == {r.at : r \in {x \in loaded : DateOf(x.at) = date}}
      total(ts) == [t \in ts |-> SumFunction([r \in at(t) |-> r.free])]
  IN [day |-> Stats(total(instants)),
      hours |-> [h \in 0..(HoursOfDay - 1) |-> Stats(total({t \in instants : HourOf(t) = h}))]]

IsSpecial(holidays, date) == date \in holidays \/ date % 7 \in {5, 6}

\* The last `limit` holidays, Saturdays and Sundays up to today.
RecentSpecialDays(today, holidays, limit) ==
  {d \in 0..today : /\ IsSpecial(holidays, d)
                    /\ Cardinality({e \in (d + 1)..today : IsSpecial(holidays, e)}) < limit}

\* How many days back GET /parking/analytics/holiday-patterns asks for holidays.
Lookback(limit) == Max({90, limit * 14})
-----------------------------------------------------------------------------
(* GET /parking/analytics/timeseries, /history and /threshold-events.      *)

\* A range of days is refused when it is backwards or too long.
RangeAccepted(from, to, longest) == from <= to /\ to - from + 1 <= longest

\* Mutant of RangeEnd: the series ends with the last observation.
RangeEndObserved(loaded, to) ==
  IF loaded = {} THEN (to + 1) * DayMinutes - Width ELSE LastAt(loaded)

\* The last bucket is the last one of the last day asked for, whatever was observed.
RangeEnd(loaded, to) == (to + 1) * DayMinutes - Width

\* The series of explicit days, of which there are as many as Buckets make up.
RangeSeries(rows, ids, from, to) ==
  LET loaded == LoadedBetween(rows, ids, from, to)
  IN IF loaded = {} THEN <<>> ELSE TimeSeries(loaded, RangeEnd(loaded, to), TRUE)

History(rows, lot, cutoff) == InOrder(LoadedSince(rows, {lot}, cutoff))

\* The crossings of all lots.
Events(rows, ids, cutoff) ==
  LET seq(id) == History(rows, id, cutoff)
  IN UNION {{[lot |-> id, at |-> seq(id)[c.reading].at, crossing |-> c] :
               c \in Crossings(seq(id))} : id \in ids}

\* The newest come first.
Before(f, e) ==
  \/ f.at > e.at
  \/ f.at = e.at /\ f.lot < e.lot
  \/ f.at = e.at /\ f.lot = e.lot /\ f.crossing.threshold < e.crossing.threshold

\* The first `limit` of them.
ThresholdEvents(rows, ids, cutoff, limit) ==
  LET events == Events(rows, ids, cutoff)
  IN {e \in events : Cardinality({f \in events : Before(f, e)}) < limit}
-----------------------------------------------------------------------------
(* GET /parking/analytics/threshold-insights.                              *)

\* Mutant of InsightPoints: the chart's series, which ends in the future.
InsightPointsFuture(loaded) == TimeSeries(loaded, LastAt(loaded), FALSE)

\* The series of the airport without future buckets.
InsightPoints(loaded) == SubSeq(TimeSeries(loaded, LastAt(loaded), FALSE), 1, Buckets)

PointAt(end, i) == IF i = Buckets THEN end ELSE Bucket(end, i)

\* The first downward crossing of each threshold on each day.
HistoryItems(points, end) ==
  LET down == {c \in Crossings(points) : c.direction = "down"}
      Preceded(c) ==
        \E d \in down : /\ d.threshold = c.threshold /\ d.reading < c.reading
                       /\ DateOf(PointAt(end, d.reading)) = DateOf(PointAt(end, c.reading))
  IN {c \in down : ~Preceded(c)}

\* The times of day a weekday's typical time is the median of, by date.
WeekdayItem(items, end, threshold, weekday) ==
  LET of == {c \in items : c.threshold = threshold /\ WeekdayOf(PointAt(end, c.reading)) = weekday}
  IN [date \in {DateOf(PointAt(end, c.reading)) : c \in of} |->
        LET c == CHOOSE x \in of : DateOf(PointAt(end, x.reading)) = date
        IN MinuteOfDay(PointAt(end, c.reading))]
=============================================================================
