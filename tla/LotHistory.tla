----------------------------- MODULE LotHistory -----------------------------
(***************************************************************************)
(* Whose history is it, and whose price?  parking_lots, parking_snapshots  *)
(* and parking_fee_rules of one airport as three programs change them: the *)
(* live collector (CollectionService._store_observations and               *)
(* _store_fee_rules), the import of the old server's history over HTTP     *)
(* (scripts/migrate_http_history.py) and the merge of same-name lots       *)
(* (scripts/reconcile_parking_lots.py).                                    *)
(*                                                                         *)
(* Each is one transaction, and the migration runbook keeps them apart:    *)
(* the scheduler is off while the scripts run.  A transaction that raises  *)
(* changes nothing, so a refusal is not a step.  A lot is known by the     *)
(* provider's slug, which is a function of its name, or by the number it   *)
(* has on the old server.                                                  *)
(***************************************************************************)
EXTENDS Patterns, Fees

CONSTANTS
  Names,        \* the names the provider reports, in the order of its answer
  OldLots,      \* numbers of the old server's lots, in the order of its answer
  OldName,      \* their names
  Incheon,      \* whether the airport is ICN, whose fee rules name a prefix
  StartsWith,   \* the names of lots that start with a fee rule's name
  Times, Frees, \* bounds of the model: instants and free spaces
  FeeAnswers,   \* bound of the model: what the fee source may answer
  MaxRows,      \* bound of the model: rows stored
  EventLimit    \* highest limit of GET /parking/analytics/threshold-events

None == "none"

\* A slug is never one of the old server's numbers.
ASSUME NamesAssumption ==
  /\ Names \in Seq(Range(Names)) /\ OldLots \in Seq(Range(OldLots))
  /\ DOMAIN OldName = Range(OldLots) /\ None \notin Range(OldLots)
  /\ Range(Names) \cap Range(OldLots) = {}

ASSUME NumbersAssumption ==
  /\ Times \subseteq Nat /\ IsFiniteSet(Times) /\ Frees \subseteq Nat
  /\ MaxRows \in Nat /\ EventLimit \in Nat \ {0}

\* A sequence of ParsedFeeRule of one vehicle size: the lot's name, the kind of
\* day, and what the rule says (the time of its publication included).
FeeRule == [name : DOMAIN StartsWith, day : DayTypes, tariff : Tariff]

ASSUME FeeAssumption ==
  Incheon \in BOOLEAN /\ FeeAnswers \subseteq Seq(FeeRule)

VARIABLES lots, rows, rules

vars == <<lots, rows, rules>>

Slug(name) == name

Lot == [id : Nat \ {0}, source : Range(Names) \cup Range(OldLots),
        legacy : Range(OldLots) \cup {None}, name : Range(Names) \cup Range(OldName)]
Row == [id : Nat \ {0}, lot : Nat, source : {"live", "migration_http"},
        at : Times, free : Frees]
Rule == [lot : Nat, day : DayTypes, tariff : Tariff]

TypeOK ==
  /\ lots \subseteq Lot
  /\ rows \subseteq Row
  /\ \A l, m \in lots : l.id = m.id \/ l.source = m.source => l = m
  /\ \A l, m \in lots : l.legacy = m.legacy /\ l.legacy # None => l = m
  /\ \A r, s \in rows : r.lot = s.lot /\ r.at = s.at /\ r.source = s.source => r = s
  /\ LotsIn(rows) \subseteq {l.id : l \in lots}
  /\ rules \subseteq Rule
  /\ \A r, s \in rules : r.lot = s.lot /\ r.day = s.day => r = s
  /\ {r.lot : r \in rules} \subseteq {Generic} \cup {l.id : l \in lots}

Named(ls, name) == {l \in ls : l.name = name}

\* A later row has a higher id.  Rows of one transaction share one: they belong
\* to different lots or instants, and ids are compared within those only.
NextId(records) == Max({r.id : r \in records} \cup {0}) + 1

InitLots ==
  \/ lots = {} /\ rows = {}
  \/ \E name \in Range(Names), old \in Range(OldLots), t, u \in Times, f, g \in Frees :
       /\ OldName[old] = name
       /\ \E legacy \in {None, old} :
            lots = {[id |-> 1, source |-> Slug(name), legacy |-> None, name |-> name],
                    [id |-> 2, source |-> old, legacy |-> legacy, name |-> name]}
       /\ rows = {[id |-> 1, lot |-> 1, source |-> "live", at |-> t, free |-> f],
                  [id |-> 2, lot |-> 2, source |-> "live", at |-> u, free |-> f],
                  [id |-> 3, lot |-> 2, source |-> "migration_http", at |-> u, free |-> g]}

\* An empty database, or one in which both paths have run already, when neither
\* yet looked for a lot of the same name: each has a lot of its own, live readings
\* may have gone to both, and the imported one may be older than the column legacy.
Init == InitLots /\ rules = {}
-----------------------------------------------------------------------------
(* A collection run: observations are stored one after the other, then the *)
(* fee rules.                                                              *)

\* Mutant of Identified: the slug alone identifies a lot.
IdentifiedBySlug(ls, name) == {l \in ls : l.source = Slug(name)}

Identified(ls, name) ==
  LET bySlug == {l \in ls : l.source = Slug(name)}
  IN IF bySlug # {} THEN bySlug ELSE Named(ls, name)

\* _get_or_create_lot; the caller has excluded the ambiguous case.
GetOrCreateLot(ls, name) ==
  IF Identified(ls, name) # {} THEN ls
  ELSE ls \cup {[id |-> NextId(ls), source |-> Slug(name), legacy |-> None, name |-> name]}

StoreObservation(st, o) ==
  LET ls == GetOrCreateLot(st.lots, o.name)
      lot == (CHOOSE l \in Identified(ls, o.name) : TRUE).id
      new == [id |-> st.id, lot |-> lot, source |-> "live", at |-> o.at, free |-> o.free]
      known == \E r \in st.rows : r.lot = lot /\ r.at = o.at /\ r.source = "live"
  IN [st EXCEPT !.lots = ls, !.rows = IF known THEN @ ELSE @ \cup {new}]

\* The lots a fee rule is for: one of its name (the query has no order: `newest`
\* stands for which), or at ICN those whose names start with it, or none.
LotsOfRule(ls, name, newest) ==
  LET exact == {l.id : l \in Named(ls, name)}
      prefixed == {l.id : l \in {x \in ls : x.name \in StartsWith[name]}}
  IN CASE exact # {}                               -> {IF newest THEN Max(exact) ELSE Min(exact)}
       [] exact = {} /\ Incheon /\ prefixed # {} -> prefixed
       [] OTHER                                    -> {Generic}

StoreFeeRules(ls, stored, answer, newest) ==
  LET store(rs, rule) ==
        LET ids == LotsOfRule(ls, rule.name, newest)
        IN {r \in rs : r.lot \notin ids \/ r.day # rule.day} \cup
           {[lot |-> id, day |-> rule.day, tariff |-> rule.tariff] : id \in ids}
  IN FoldLeft(store, stored, answer)

\* Some of the provider's lots, all observed at one instant, and the fees.
Collect(t, free, fees, newest) ==
  LET store(st, n) ==
        IF n \notin DOMAIN free THEN st
        ELSE StoreObservation(st, [name |-> n, at |-> t, free |-> free[n]])
      end == FoldLeft(store, [lots |-> lots, rows |-> rows, id |-> NextId(rows)], Names)
  IN /\ \A n \in DOMAIN free : Cardinality(Identified(lots, n)) <= 1
     /\ lots' = end.lots
     /\ rows' = end.rows
     /\ rules' = StoreFeeRules(end.lots, rules, fees, newest)
-----------------------------------------------------------------------------
(* The import: lots first, then their history, then the clean-up.          *)

\* upsert_reference_data for one lot.  It refuses a number it does not know with
\* a name it does, and a lot that has another number already.
UpsertLot(st, old) ==
  LET known == {l \in st.lots : old \in {l.source, l.legacy}}
  IN CASE known = {} /\ Named(st.lots, OldName[old]) # {} -> [st EXCEPT !.refused = TRUE]
       [] known = {} /\ Named(st.lots, OldName[old]) = {} ->
            [st EXCEPT !.lots = @ \cup {[id |-> NextId(@), source |-> old, legacy |-> old,
                                         name |-> OldName[old]]}]
       [] known # {} /\ \E l \in known : l.legacy \notin {None, old} ->
            [st EXCEPT !.refused = TRUE]
       [] OTHER ->
            [st EXCEPT !.lots = (@ \ known) \cup
                                {[l EXCEPT !.legacy = old, !.name = OldName[old]] : l \in known}]

\* The rows of the old server's items, over those an earlier import stored.
Upserted(ls, items) ==
  LET lotOf(old) == (CHOOSE l \in ls : l.legacy = old).id
      stored(i) == {r \in rows : r.lot = lotOf(i.old) /\ r.at = i.at /\ IsMigration(r)}
      idOf(i) == IF stored(i) = {} THEN NextId(rows) ELSE (CHOOSE r \in stored(i) : TRUE).id
  IN (rows \ UNION {stored(i) : i \in items}) \cup
     {[id |-> idOf(i), lot |-> lotOf(i.old), source |-> "migration_http",
       at |-> i.at, free |-> i.free] : i \in items}

\* Mutant of CleanedUp: imported rows stay beside the live ones they repeat.
CleanedUpNever(stored) == stored

\* Mutant of CleanedUp: of a pair, the live row is taken for the repetition.
CleanedUpLive(stored) ==
  {r \in stored : IsMigration(r) \/
     ~\E s \in stored : s.lot = r.lot /\ s.at = r.at /\ IsMigration(s)}

CleanedUp(stored) ==
  {r \in stored : ~(IsMigration(r) /\
     \E s \in stored : s.lot = r.lot /\ s.at = r.at /\ ~IsMigration(s))}

\* The old server lists some of its lots, and the instants `ts` of each; what it
\* says of an instant may have changed since the last import.
Import(listed, ts, free) ==
  LET upsert(st, old) == IF old \notin listed THEN st ELSE UpsertLot(st, old)
      end == FoldLeft(upsert, [lots |-> lots, refused |-> FALSE], OldLots)
      items == [old : listed, at : ts, free : {free}]
  IN /\ ~end.refused
     /\ lots' = end.lots
     /\ rows' = CleanedUp(Upserted(end.lots, items))
     /\ UNCHANGED rules
-----------------------------------------------------------------------------
(* The merge of same-name lots, each pair of which has been approved.       *)

RowsOf(stored, l) == {r \in stored : r.lot = l.id}

\* The lot with the most rows, and of those the oldest.
Canonical(name) ==
  LET count(l) == Cardinality(RowsOf(rows, l))
  IN CHOOSE l \in Named(lots, name) : \A m \in Named(lots, name) :
       count(l) > count(m) \/ (count(l) = count(m) /\ l.id <= m.id)

Repeats(r, s) == r.at = s.at /\ r.source = s.source

\* A row that repeats one of the canonical lot goes, the others change their lot.
Moved(stored, canonical, duplicate) ==
  (stored \ RowsOf(stored, duplicate)) \cup
  {[r EXCEPT !.lot = canonical.id] :
     r \in {x \in RowsOf(stored, duplicate) :
             ~\E s \in RowsOf(stored, canonical) : Repeats(x, s)}}

\* Mutant of MovedRules: the duplicate's rules go with it.
MovedRulesNever(stored, canonical, duplicate) ==
  {r \in stored : r.lot # duplicate.id /\ canonical.id # duplicate.id}

\* Rules the canonical lot has as well go, the others change their lot.
MovedRules(stored, canonical, duplicate) ==
  {r \in stored : r.lot # duplicate.id} \cup
  {[r EXCEPT !.lot = canonical.id] :
     r \in {x \in RulesOfLot(stored, duplicate.id) :
             \A s \in RulesOfLot(stored, canonical.id) : s.day # x.day}}

\* merge_lot: it refuses repetitions that differ, rows or rules, and two numbers
\* for one lot.  Nor can the canonical lot take over a number: the statement that gives
\* it goes out before the one that deletes the duplicate, and uq_parking_lot_legacy_source
\* refuses it.
MergeLot(st, canonical, duplicate) ==
  LET differ == \E r \in RowsOf(st.rows, duplicate), s \in RowsOf(st.rows, canonical) :
                  Repeats(r, s) /\ r.free # s.free
      disagree == \E r \in RulesOfLot(st.rules, duplicate.id),
                     s \in RulesOfLot(st.rules, canonical.id) :
                    r.day = s.day /\ r.tariff # s.tariff
      numbered == duplicate.legacy # None
  IN IF st.refused \/ differ \/ disagree \/ numbered THEN [st EXCEPT !.refused = TRUE]
     ELSE [st EXCEPT !.rows = Moved(@, canonical, duplicate),
                     !.rules = MovedRules(@, canonical, duplicate),
                     !.lots = @ \ {duplicate}]

\* The lot with the highest id comes last.
Newest(ls) == CHOOSE l \in ls : \A m \in ls : m.id <= l.id

MergeName(st, name) ==
  LET canonical == Canonical(name)
  IN MapThenFoldSet(LAMBDA d, s : MergeLot(s, canonical, d), st, LAMBDA d : d, Newest,
                    Named(lots, name) \ {canonical})

Reconcile ==
  LET split == {l.name : l \in {m \in lots : Named(lots, m.name) # {m}}}
      end == FoldSet(LAMBDA name, st : MergeName(st, name),
                     [lots |-> lots, rows |-> rows, rules |-> rules, refused |-> FALSE], split)
  IN /\ split # {}
     /\ ~end.refused
     /\ lots' = end.lots
     /\ rows' = end.rows
     /\ rules' = end.rules
-----------------------------------------------------------------------------
ImportHistory ==
  \E listed \in SUBSET Range(OldLots), ts \in SUBSET Times, free \in Frees :
    Import(listed, ts, free)

CollectLive ==
  \E reported \in SUBSET Range(Names), t \in Times, fees \in FeeAnswers, newest \in BOOLEAN :
    \E free \in [reported -> Frees] : Collect(t, free, fees, newest)

Next ==
  /\ CollectLive \/ ImportHistory \/ Reconcile
  /\ Cardinality(rows') <= MaxRows

Spec == Init /\ [][Next]_vars
-----------------------------------------------------------------------------
(* Properties.                                                             *)

NameOf(ls, r) == (CHOOSE l \in ls : l.id = r.lot).name

\* Neither program loses what was observed: a live reading keeps its lot's name,
\* instant and value whatever is imported or merged, and an instant of which the
\* history of a name had a reading has one afterwards.
ReadingsKept ==
  [][\A r \in rows : \E s \in rows' :
       /\ NameOf(lots', s) = NameOf(lots, r) /\ s.at = r.at
       /\ ~IsMigration(r) => s.free = r.free /\ ~IsMigration(s)]_vars

\* No program splits a history (collection.py:630): the lots of a name never
\* become more than one, or more than they were, and so a collection is never
\* stopped by a name that stands for two unidentified lots.
NoNewSplit ==
  /\ [][\A name \in Range(Names) \cup Range(OldName) :
          Cardinality(Named(lots', name)) <= Max({1, Cardinality(Named(lots, name))})]_vars
  /\ [](\A name \in Range(Names) : Cardinality(Identified(lots, name)) <= 1)

\* The cards of the dashboard (GET /parking/current, latest row by instant and
\* id) and the end of its time series (preference of sources) are two queries.
Agree == \A l \in LotsIn(rows) : Current(rows, l).free = Last(ReadingsOf(rows, l)).free

\* They show the same free spaces (analytics.md): a collection keeps it so, and
\* an import makes it so, whatever merges left behind.
AgreementKept == [][~Agree' => ~ImportHistory /\ ~(Agree /\ CollectLive)]_vars

\* The instant whose latest readings a bucket holds; after the end there is none.
UptoInstant(loaded, i, end, anchored) ==
  CASE i = Buckets /\ ~anchored -> LastAt(loaded)
    [] Bucket(end, i) > end     -> 0 - 1
    [] OTHER                    -> Bucket(end, i)

Seen(loaded, l, t) == {r \in Shown(loaded) : r.lot = l /\ r.at <= t}
LotsSeen(loaded, t) == {l \in LotsIn(loaded) : Seen(loaded, l, t) # {}}
LatestOf(seen) == CHOOSE r \in seen : \A s \in seen : s.at <= r.at

Meant(loaded, t) ==
  Point(LotsSeen(loaded, t), [l \in LotsSeen(loaded, t) |-> LatestOf(Seen(loaded, l, t))])

Matches(series, loaded, end, anchored) ==
  \A i \in 1..(Buckets + Future) : series[i] = Meant(loaded, UptoInstant(loaded, i, end, anchored))

\* The series computed by walking along the buckets is what analytics.md says:
\* a bucket holds, of each lot, the latest reading up to its instant (of the
\* last history bucket of a series without an anchor, the latest of all), and
\* what lies after the end of the series holds nothing.  The series of a range of
\* days stays where it was asked for, from its first midnight on, although nothing
\* was observed at its end (the comment at analytics.py:193), if its width divides the hour.
SeriesMeansLatest ==
  /\ rows # {} => Matches(TimeSeries(rows, LastAt(rows), FALSE), rows, LastAt(rows), FALSE)
  /\ \A date \in {DateOf(t) : t \in Times} :
       LET ofDay == {r \in rows : DateOf(r.at) = date}
           midnight == date * DayMinutes
           last == midnight + DayMinutes - Width
       IN /\ ofDay # {} => Matches(RangeSeries(rows, LotsIn(rows), date, date), ofDay, last, TRUE)
          /\ Buckets * Width = DayMinutes /\ HourMinutes % Width = 0 =>
               Bucket(RangeEnd(ofDay, date), 1) = midnight

LevelsBelow(threshold) ==
  IF threshold = 10 THEN {"full", "critical"} ELSE {"full", "critical", "warning"}

TellsLevel(limit) ==
  \A l \in LotsIn(rows), t \in Thresholds :
    LET seq == History(rows, l, 0)
        events == ThresholdEvents(rows, LotsIn(rows), 0, limit)
        listed == {e.crossing : e \in {x \in events : x.lot = l /\ x.crossing.threshold = t}}
        isBelow(i) == StatusLevel(seq[i].free) \in LevelsBelow(t)
    IN /\ listed = {} /\ Cardinality(events) < limit => (isBelow(1) <=> isBelow(Len(seq)))
       /\ \A c \in listed : (\A d \in listed : d.reading <= c.reading) =>
            (c.direction = "down" <=> isBelow(Len(seq)))

\* The list of crossings, of any length asked for, tells the same story as the
\* level shown for the lot: the last crossing of a threshold was downward exactly
\* if the lot is below it now, and if none is listed and the list is not cut it is
\* where it was in the beginning.
CrossingsTellLevel == \A limit \in 1..EventLimit : TellsLevel(limit)

\* Every chart counts every reading once, the live and the imported row of an
\* instant as one, and the charts agree: a weekday's bar is the sum of its row of
\* the hourly pattern, the special day of one lot is that row, and of several lots
\* no instant has more free spaces than their fullest readings of the day add to.
EachReadingOnce ==
  LET ids == LotsIn(rows)
      count(buckets) == SumFunction([k \in DOMAIN buckets |-> buckets[k].n])
      today == DateOf(Max(Times))
      dates == RecentSpecialDays(today, 0..today, 8)  \* were every day a holiday
  IN /\ \A cutoff \in Times :
          LET loaded == LoadedSince(rows, ids, cutoff)
              grid == WeekdayHourPatterns(loaded)
          IN /\ count(HourlyBuckets(loaded)) =
                  Cardinality({<<r.lot, r.at>> : r \in {x \in rows : x.at >= cutoff}})
             /\ WeekdayBuckets(loaded) = [w \in DOMAIN grid |-> grid[w].day]
             /\ \A w \in DOMAIN grid : grid[w].day.n = count(grid[w].hours)
     /\ \A date \in dates :
          LET loaded == LoadedBetween(rows, ids, date, date)
              highest(id) == Max({0} \cup {r.free : r \in {x \in loaded : x.lot = id}})
          IN SpecialDayPattern(loaded, date).day.high <= SumFunction([id \in ids |-> highest(id)])
     /\ \A date \in dates, id \in ids :
          LET loaded == LoadedBetween(rows, {id}, date, date)
          IN loaded # {} => SpecialDayPattern(loaded, date) =
                              WeekdayHourPatterns(loaded)[date % 7]

\* What the threshold history calls a fall of the airport below a threshold is
\* one: since the point before, a reading of one of its lots fell.  Lots that come
\* or stop reporting, and buckets in which nothing was observed, cause none.  The
\* typical time of a weekday is taken from these falls, each counted once.
DownCrossingsReal ==
  \A cutoff \in Times :
    LET loaded == LoadedSince(rows, LotsIn(rows), cutoff)
        end == LastAt(loaded)
        items == HistoryItems(InsightPoints(loaded), end)
        times(pair) == Cardinality(DOMAIN WeekdayItem(items, end, pair[1], pair[2]))
    IN loaded # {} =>
         /\ \A c \in items :
              \E r, s \in loaded : /\ r.lot = s.lot /\ r.at < s.at /\ s.free < r.free
                                  /\ PointAt(end, c.reading - 1) < s.at
         /\ SumFunction([pair \in Thresholds \X (0..6) |-> times(pair)]) = Cardinality(items)

\* A weekday morning and a night into the weekend.
Stays == {<<9 * 3600, 11 * 3600>>, <<4 * Day + 22 * 3600, 5 * Day + 2 * 3600>>}

\* calculate_fees for a lot; without a rule for each kind of day there is no fee.
Quote(rs, lot, stay) ==
  LET applied == RulesFor(rs, lot)
  IN IF Complete(applied) THEN TotalFee(applied, stay[1], stay[2]) ELSE 0 - 1

\* What a stay costs in the lots of a name that have rules of their own.
OwnPrices(ls, rs, name, stay) ==
  {Quote(rs, l.id, stay) : l \in {x \in Named(ls, name) : RulesOfLot(rs, x.id) # {}}}

\* The kinds of day a lot has rules of its own for.
OwnDays(rs, l) == {r.day : r \in RulesOfLot(rs, l.id)}

OwnTariffs(ls, rs, name, day) ==
  {r.tariff : r \in {x \in rs : x.day = day /\ \E l \in Named(ls, name) : l.id = x.lot}}

\* Of two lots one always has rules for every kind of day the other has them for.
Nested(rs, ls) ==
  \A l, m \in ls : OwnDays(rs, l) \subseteq OwnDays(rs, m) \/ OwnDays(rs, m) \subseteq OwnDays(rs, l)

SamePrices(name) ==
  /\ \A day \in DayTypes :
       LET before == OwnTariffs(lots, rules, name, day)
           after == OwnTariffs(lots', rules', name, day)
       IN after \subseteq before /\ (before = {} <=> after = {})
  /\ Nested(rules, Named(lots, name)) =>
       \A stay \in Stays :
         OwnPrices(lots', rules', name, stay) \subseteq OwnPrices(lots, rules, name, stay)

\* Neither an import nor a merge changes a price or loses it: the tariff a lot has of its
\* own for a kind of day afterwards it had before in a lot of that name, and if the name
\* had one it has one still (reconcile_parking_lots.py refuses to delete a rule that
\* differs).  So with whole stays, unless two lots of the name had shared out the kinds of
\* day between them: their rules are then used together for the first time.
PricesKept == [][(\A name \in Range(Names) : SamePrices(name)) \/ CollectLive]_vars
=============================================================================
