------------------------------ MODULE Readings ------------------------------
(***************************************************************************)
(* What the API computes from rows of parking_snapshots                    *)
(* (backend/app/services/analytics.py and GET /parking/current): one       *)
(* reading per lot and instant, the airport's time series, the crossings   *)
(* of a threshold, and the current value of each lot.                      *)
(*                                                                         *)
(* A row is [id, lot, source, at, free]: `at` is observed_at in minutes,   *)
(* `free` is available_spaces.  Two rows of one lot, instant and source    *)
(* cannot exist (uq_parking_snapshot) and an airport has one live source,  *)
(* so the collected_at of the preference key never decides and is left     *)
(* out.  Every lot has Capacity spaces.                                    *)
(***************************************************************************)
EXTENDS Integers, Sequences, FiniteSetsExt, SequencesExt

CONSTANTS
  HourMinutes,  \* 60
  Width,        \* interval_minutes
  Buckets,      \* history_bucket_count
  Future,       \* future_bucket_count
  Capacity      \* total_spaces of a lot

ASSUME SeriesAssumption ==
  HourMinutes \in Nat \ {0} /\ Width \in 1..HourMinutes /\ Buckets \in Nat \ {0} /\ Future \in Nat /\ Capacity \in Nat

Thresholds == {10, 50}
-----------------------------------------------------------------------------
(* One reading per lot and instant.                                        *)

IsMigration(r) == r.source = "migration_http"

\* _snapshot_preference_key of r is not above that of s.
Preferred(r, s) ==
  \/ IsMigration(s) /\ ~IsMigration(r)
  \/ (IsMigration(r) <=> IsMigration(s)) /\ r.id >= s.id

Shown(rows) ==
  {r \in rows : \A s \in rows : s.lot = r.lot /\ s.at = r.at => Preferred(r, s)}

LotsIn(rows) == {r.lot : r \in rows}

\* Readings of different instants in the order of these.
InOrder(readings) ==
  [i \in 1..Cardinality(readings) |->
     CHOOSE r \in readings : Cardinality({s \in readings : s.at < r.at}) = i - 1]

ReadingsOf(rows, lot) == InOrder({r \in Shown(rows) : r.lot = lot})

\* The row GET /parking/current shows for a lot: no preference of sources.
Current(rows, lot) ==
  CHOOSE r \in rows : /\ r.lot = lot
                      /\ \A s \in rows : s.lot = lot =>
                           s.at < r.at \/ (s.at = r.at /\ s.id <= r.id)
-----------------------------------------------------------------------------
(* build_time_series.  `end` is anchor_at, or the last instant observed.   *)

LastAt(rows) == Max({r.at : r \in rows})

\* align_to_interval goes back to the last multiple of the width within the hour.
Aligned(t) == t - ((t % HourMinutes) % Width)

Bucket(end, i) == Aligned(end) - Width * (Buckets - i)

Point(lots, readings) ==
  [free |-> SumFunction([l \in lots |-> readings[l].free]), lots |-> Cardinality(lots)]

\* The walk of one lot along the buckets: how many of its readings are behind
\* bucket i.  A bucket after `end` is passed over.
Walk(seq, end) ==
  LET behind[i \in 0..(Buckets + Future)] ==
        IF i = 0 THEN 0
        ELSE IF Bucket(end, i) > end THEN behind[i - 1]
        ELSE Max({behind[i - 1]} \cup
                 {j \in behind[i - 1]..Len(seq) :
                    \A k \in (behind[i - 1] + 1)..j : seq[k].at <= Bucket(end, i)})
  IN behind

\* Mutant of Stamped: an anchored series is stamped as well.
StampedAlways(i, anchored) == i = Buckets /\ anchored \in BOOLEAN

\* The last history bucket of an unanchored series is the latest of every lot.
Stamped(i, anchored) == i = Buckets /\ ~anchored

TimeSeries(rows, end, anchored) ==
  LET lots == LotsIn(rows)
      seqs == [l \in lots |-> ReadingsOf(rows, l)]
      behind == [l \in lots |-> Walk(seqs[l], end)]
      Counted(i) == {l \in lots : Bucket(end, i) <= end /\ behind[l][i] > 0}
  IN [i \in 1..(Buckets + Future) |->
        IF Stamped(i, anchored)
        THEN Point(lots, [l \in lots |-> Last(seqs[l])])
        ELSE Point(Counted(i), [l \in Counted(i) |-> seqs[l][behind[l][i]]])]
-----------------------------------------------------------------------------
(* Levels and crossings.                                                   *)

StatusLevel(free) ==
  CASE free <= 0            -> "full"
    [] free \in 1..9        -> "critical"
    [] free \in 10..49      -> "warning"
    [] free >= 50 /\ 4 * free < Capacity -> "busy"
    [] OTHER                -> "stable"

\* Mutant of Crosses: reaching a threshold from above counts as falling below it.
CrossesAtThreshold(from, to, threshold, direction) ==
  \/ direction = "down" /\ from > threshold /\ threshold >= to
  \/ direction = "up" /\ from < threshold /\ threshold <= to

Crosses(from, to, threshold, direction) ==
  \/ direction = "down" /\ from >= threshold /\ threshold > to
  \/ direction = "up" /\ from < threshold /\ threshold <= to

\* detect_threshold_events for one lot, before the newest `limit` are kept; a
\* crossing names the later of the two readings.
Crossings(seq) ==
  {c \in [threshold : Thresholds, direction : {"down", "up"}, reading : 2..Len(seq)] :
     Crosses(seq[c.reading - 1].free, seq[c.reading].free, c.threshold, c.direction)}
=============================================================================
