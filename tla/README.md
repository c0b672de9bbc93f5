# kor-travel-airport: TLA+ models, checks and proofs

kor-travel-airport collects the occupancy of airport parking lots from the public
data APIs of KAC (Korea Airports Corporation) and Incheon Airport, keeps the history
in PostgreSQL, and shows it on a dashboard with charts, fee quotes, flights and
holidays. One FastAPI process (one asyncio event loop) runs the collection scheduler
and all HTTP handlers; a Next.js server renders the dashboard and relays its calls;
a few scripts moved the service from an old server to a new one.

This directory models the parts in which something can go wrong that a unit test
would hardly reach, checks them with TLC, and proves what matters most with TLAPS.
Line numbers are those of the repository; `PROJECT.json` maps every definition to
the lines it stands for and lists the hazards each property is there for.

## 1. The parts of the system

| Part | State | Operations | What is hard | What makes it correct |
|---|---|---|---|---|
| Collector (`services/collection.py`, `_run_scheduler` and `POST /admin/collect` in `main.py`) | `collection_runs`, `parking_snapshots`, `operation_lock`, the scheduler's deadline | scheduled and manual collection: ask the enabled sources in order, store in one transaction | interleaving at every await, a source that raises half-way, process death, checks made before the lock and used after it | runs take turns, an observation is stored once, every row belongs to a run that says it stored data, the rate limit is honoured, every request is answered |
| Rate-limit backoff (same file) | the error message and start of the latest run that was not skipped | block KAC after "limited", ask again after the backoff | a run made during the block may renew it; runs that raise lose the marker | a block ends when it was announced to, KAC is asked again |
| Analytics cache (`services/analytics_cache.py`) | rows of `analytics_caches`, one per lot and metric | refresh of all rows after a collection, outside the lock | refreshes overlap; row locks; insert conflicts; lost refreshes | no circular wait, the last refresh is whole, the cache catches up |
| Maintenance (`main.py`, `db/session.py`) | the queue of `operation_lock`, the pool, PostgreSQL's table locks | collections, backups, restores, readers | three resources taken in different orders | a restore discards nothing its own dump lacks, everybody is answered |
| Backup store (`services/backup_restore.py`) | files of the backup directory, staging files | dump, rename, prune, make room, upload, restore; list and sweep | each step may fail or be the last before a crash; deletion before success; several requests and listings over one directory | limit and retention hold, the pre-restore dump survives, a failed backup costs nothing, no staging file in use is swept |
| Dashboard page (`dashboard-context.tsx`, `use-analytics-data.ts`, `dashboard-preferences.ts`) | selection, items, update marker, loading/in-flight flags, stored selection | bootstrap, load, poll, choose, refresh, collect, reload | answers late, lost, reordered; React transitions; stale closures | items never get older, items and analytics are the selection's, the page becomes current, the selection survives |
| Flights and holidays (`services/flight_status.py`, `services/holidays.py`) | in-process caches, the upstream quota | page views, fetch, parse, group codeshares, filter holidays | two misses together; limits and errors cached like successes or not | quiet after an answer, holidays recover, views of one airport do not keep its quota away, no flight lost or invented, every holiday of a range found |
| Lots and history (`_get_or_create_lot`, `_store_observations`, `_store_fee_rules`, `migrate_http_history.py`, `reconcile_parking_lots.py`) | `parking_lots`, `parking_snapshots`, `parking_fee_rules` | live collection, import of the old server's history, merge of duplicate lots | three programs, two identities of a lot, deletion of rows and lots | no observation and no price is lost, no history is split, the two "current value" queries agree |
| Charts and fees (`services/analytics.py`, `services/fee_calculator.py`, endpoints of `main.py`) | none | de-duplication, series, averages, crossings, quotes | boundaries of buckets, thresholds, midnights; rows counted twice | the series means the latest reading, crossings tell the level, each reading counts once, stays are cut without gap |
| Cutover gate (`scripts/verify_cutover.py`, `observe_cutover.py`) | none | compare two servers, seven times | a green gate over a server that has stopped or lags | lots pair one to one, nothing the old server knew is missing |
| Answers and start-up (`services/parsers.py`, `services/sample_data.py`, the lifespan of `main.py`) | lots, snapshots, raw responses over restarts | parse and store an answer, seed samples | numbers, times and names that cannot be read; constraints in another file than the parsers; samples beside live readings | nothing collected is lost, a lot has one identity, one bad value does not cost a run |
| Not modelled | | see section 7 | | |

How they interact: the scheduler and the manual request both call
`CollectionService.collect` under `operation_lock`; backups and restores take the same
lock. After a collection with new snapshots, its caller refreshes the analytics
cache in a second transaction without the lock. The dashboard learns of new data by polling
`/admin/collector-status` and then loads a bundle; the analytics hook follows the
bundle's version. Scripts talk to the database (merge, import) or to the two HTTP
APIs (gate) while the runbook keeps the scheduler off.

## 2. The modules

| Module | Models | Uses |
|---|---|---|
| `RunLog` | abstract: each collection appears in one step, with all its rows, after every earlier one | |
| `Collection` | the collector in detail; `ImplementsRunLog` is the refinement | `RunLog` |
| `UpstreamBackoff` | the same collector seen only as a rate-limit state machine, with ages instead of a clock, for liveness | |
| `AnalyticsCache` | overlapping refreshes | |
| `Maintenance` | the queue, the pool and the table locks; what a turn does is in `Collection` and `BackupStore` | |
| `BackupStore` | abstract: the listed files, one request at a time | |
| `BackupRequests` | the endpoints: several requests, the lock, staging files, listings; `ImplementsBackupStore` is the refinement | `BackupStore` |
| `Dashboard` | one page and the backend's data as a version number | |
| `FlightBoard`, `Holidays` | pure: from upstream answers to flights, markers, holidays | |
| `UpstreamCaches` | the two caches and the quota; statuses are computed by `FlightBoard` and `Holidays` | both |
| `Readings` | pure: one reading per lot and instant, time series, crossings, current row | |
| `Patterns` | pure: the averages, special days, threshold history, range queries | `Readings` |
| `Fees` | pure: choice of rules, split of a stay, fee of a day | |
| `LotHistory` | lots, rows and rules under collection, import and merge; its properties are stated with `Patterns` and `Fees` | both |
| `Answers` | pure: what an item of an answer becomes, and which values the tables take | |
| `Ingestion` | a deployment over its restarts: seeding and collections over lots, rows and answers | `Answers` |
| `CutoverGate` | pure: what one verification and one observation require | |
| `MCCollection`, `MCUpstreamCaches`, `MCLotHistory`, `MCIngestion` | instances for TLC | |
| `CollectionProofs`, `AnalyticsCacheProofs`, `MaintenanceProofs`, `BackupProofs`, `DashboardProofs` | theorems about the module of that name (`BackupProofs`: `BackupRequests` and its refinement) | |
| `HistoryProofs` | theorems about `LotHistory` and, over its rows, `Readings`, `Patterns` and `Fees` | |
| `UpstreamProofs` | theorems about `UpstreamCaches`, `FlightBoard`, `Holidays`, `Patterns` and `UpstreamBackoff` | |
| `CalculationProofs` | theorems about `Fees`, `CutoverGate`, `Answers` and `Ingestion` | |

### How state and actions correspond to the code

* `Collection`. `queue` is `asyncio.Lock`, which is first come first served. `job[p]`
  holds the local variables and the uncommitted session of a run; `FinishRun`,
  `RunRaises` and `StoreRateLimitSkip` are its three commits. An action ends where the
  code awaits something another task can overtake. Fetching a source, parsing it and
  flushing its rows is one action, because all of it is invisible until the commit.
  `Restart` may happen between any two steps and keeps only what was committed.
  `enabled` is the set of enabled sources, which `Restart` may change, as an operator who
  edits the settings does.
  `limitedAt` and `restarts` are history variables; no guard of a code step reads
  them except the bound on restarts.
* `UpstreamBackoff`. `latest.age` replaces "now - started_at" and stops at `BackoffTime`,
  `due` replaces "deadline - now", so behaviours are infinite and `[]<>` can be
  stated. `quota` is KAC's own state and changes at will. `starts` is history: the ages of
  the scheduler's last two turns, for `NoBurst`.
* `AnalyticsCache`. A payload is "fresh" if computed from all committed snapshots; every
  collection turns fresh into stale. `Compute` loads the snapshots, `LookUp` is the SELECT of a
  row, apart from its INSERT or UPDATE. `manual` is a setting chosen in `Init` and never changed. `settled` is
  history: the rows the refresh of the last collection was to write, once it has committed.
* `Maintenance`. `conns` is the pool, `sharing` the transactions that have read a
  table. A collection gives its connection back when it commits; its process is `reconnecting`
  until it has one for the refresh. `pg_restore --clean` waits in `TakeTables` until nobody shares.
* `BackupStore` and `BackupRequests`. A file is an id in order of modification time and a
  size. In `BackupRequests` `queue` is `operation_lock`, `staged` the age of each request's
  staging file since it was last written, `leftover` those that a dead process left. Every listing
  sweeps, with the lock or without it. `Fail` is every error path of the code; `Crash`
  forgets the requests and leaves the files. The refinement mapping takes the state of the
  request that holds the lock, and forgets waiting and staging files.
* `Dashboard`. A request id is only ever compared with the latest, so a request carries
  `latest`. `failed`, `overtaken`, `last` and the field `clicked` are history. Cleaning up an effect is setting `active` of its polls to FALSE.
* `UpstreamCaches`. `call[v]` is the outstanding fetch of a page view: one upstream call, or
  for Incheon's flights (`TwoCalls`) departures and then arrivals (`SecondCall`), each with the
  client's timeout. `left` is the rest of an entry's lifetime. The store after the answer uses the time the
  call was begun, as the code does.
* `Answers` and `Ingestion`. A field of an item is the number, time or name its text can be
  read as, or `Garbled`, or `Absent`, or `Endless`, which `float()` takes for infinity. `named`
  and `kept` say whether its names fit `String(120)`, and whether it fits `raw_item_json`;
  `MaxInteger` is the largest number of an Integer column. A start and a run are each one transaction, so each
  is one step; a run goes through its answers in the order of the code and raises at the first
  thing it cannot parse or store. `untraced` says that what the last run was told is not in
  `raw_api_responses`; `refusable` is history. Starts begin with an empty database or with a
  lot that an older version left under a former id or name.
* `LotHistory`. Each program's transaction is one action, as they never overlap (see
  assumptions); inside it the rows are computed by folds that follow the loops: an answer in
  its order, the lots of a name by their ids, the items of an import in any order.

## 3. The runs

| Run | Shows | Instance |
|---|---|---|
| `collection_settings` | turns, uniqueness, rows and runs agree, a limit is honoured over restarts, refinement of `RunLog`, a request ends | scheduler and one request, KAC with or without Incheon, 2 runs, 1 restart that may change the sources, fairness |
| `collection_cooldown` (violation) | the manual cooldown is not enforced after waiting for the lock | KAC alone, 2 runs |
| `backoff_kac_only` | missed turns are not made up for; a block is not extended by runs made in it; KAC is asked again | interval 2, backoff 5, calls up to 3 |
| `backoff_with_incheon` (violation) | with an Incheon source, blocked runs renew the block for ever | the same with Incheon |
| `cache_overlap` | overlapping refreshes leave at most the first row behind the data; no circular wait; last refresh whole; cache catches up | scheduler and one request, three rows, one crash |
| `maintenance_turns` | restores lose nothing; everybody is answered | one of each, two restores, one reader, pool of 1 |
| `backup_requests` | limit, retention, pre-restore dump, cost of failure, staging files in use spared; refinement of `BackupStore` | two requests, sizes 2 and 3, limit 5, retention 0 or 2, five dumps, ages up to 3 |
| `dashboard_page` | never older, selection and analytics agree, restored selection, placeholder removed, fresh data shown | two airports, two request slots, one poll slot, two versions, two clicks |
| `upstream_caches` | quiet after an answer; views of one airport do not renew the limit for ever; holidays recover | flights of a KAC airport and of Incheon (two calls), a month, two viewers, answers of every kind |
| `lot_history` | nothing lost or split; answers agree; charts count once; prices kept | one name known under two old numbers, two instants, three rows, fees for one kind of day or both, a list of one crossing |
| `ingestion_restarts` | one history per lot; which answers make a run raise | a KAC lot with two spellings and a former name, an Incheon lot and a floor, two instants, answers of every kind, each cause of a failed run among them |
| `overfull_lot` (violation) | the answers of a run are lost when a lot is over-full | the same with well-formed answers only |

Every property of a passing run has at least one mutant in `PROJECT.json`: a plausible
bug of a mapped definition with which TLC finds the property violated in the same run.

### Bounds, and why they are enough

* `Collection`: `MaxTime`, `MaxRuns`, `MaxRestarts`. Each property relates at most two
  runs and a restart, and a rate limit, a cooldown and an interval fit into three units.
  A third process behaves like the second, since all of them pass the same queue. The
  theorems of section 5 hold without these bounds.
* `BackupRequests`: `MaxDumps`. Five files are two requests and the restore's upload: enough for
  one that finds retention and storage limit both reached. Sizes 2 and 3 under limit 5 give
  every case: fits at once, after a deletion, not at all. The one assumption is that the
  timeouts of pg_dump and upload are shorter than the hour after which staging files are swept;
  the defaults are (120 s and 600 s), but no setting is checked against it.
* `Ingestion`: `MaxTime` 1 gives an instant before, at and after the clock. The old lot has the
  former id of a sample, with its former name or its present one. `MaxInteger` is a number no good
  answer reaches, and one odd answer of each source is a number above it. The seeds' fee
  rules are left out.
* `Dashboard`: two requests and a poll are what one race needs; clicks and versions
  make the page's next data differ from the shown. The four
  switches that do not change (`manual`, `prompt`, `slow`, `storageWorks`) are chosen in
  `Init`, at most one of the first three unusual at a time.
* `UpstreamCaches`: lifetimes are small numbers in the order the code's constants have
  (flights shorter than backoff, calls shorter than both), and the backoff is the shortest that
  `BackoffAssumption` allows. Two flight keys are one that takes one call and one that takes two,
  and the fewest that can renew each other's limit.
* `LotHistory`: `MaxRows`, two instants and two values on both sides of both
  thresholds; an hour of 4 minutes and a day of 2 hours put the instants into different buckets,
  hours and days. Two old numbers for one name are what a split and a merge need. A list of
  crossings is asked for with every limit up to `EventLimit`: 1 cuts it where there are two.
* `CHECK_DEADLOCK FALSE` stands where a bound ends behaviours, or where the system may
  rest (`BackupRequests`, `Dashboard`, `LotHistory`, `Ingestion`); elsewhere deadlock is checked.

### Fairness

* `Collection`, `UpstreamBackoff`, `AnalyticsCache`: weak fairness of each task. A
  task whose await has completed is run by the event loop, and each upstream call ends
  by `api_timeout_seconds`. Nothing makes a user send requests. In `UpstreamBackoff`
  time passes. In `AnalyticsCache` the scheduler goes on collecting, which is what it
  is for; a manual process gets no such promise.
* `Maintenance`: weak fairness of every step, where the timeouts of the tools and of
  the pool are steps; strong fairness of `Read` and `Refresh`, because PostgreSQL grants
  table locks in order of arrival and later restores cannot overtake a waiting reader.
* `Dashboard`: requests are answered (weak), not all with errors (strong fairness of
  `LoadOk` and `PollOk`), the timer fires. `FreshDataShown` is claimed where bundles are
  answered within the poll interval. `FreshDataShown` is of the form `<>[]`: it
  speaks of behaviours in which data and user come to rest.
* `UpstreamCaches`: time passes and a fetch goes on to its second call. Views of holidays
  recur for each month (strong; views of flights need not), and not every answer is an error
  (strong). Without the last nothing could recover.

## 4. Disagreements found

1. Manual cooldown (`collection_cooldown`). `docs/architecture/collection.md:75` says
   the backend enforces the same limit; it is checked before `operation_lock`
   and not again, so a request that waited behind a collection collects right after it.
2. Backoff with Incheon (`backoff_with_incheon`). `README.md:184` says KAC is retried after
   a short backoff. With an Incheon source enabled, a blocked run carries the marker with a
   new start, and with an interval shorter than the backoff KAC is never asked again.
3. Over-full lot (`overfull_lot`). `docs/architecture/architecture.md:33` says the original
   answers are stored, and `data-sources.md:157` that this is to trace errors. A KAC lot with
   more cars than spaces has a ratio above 100, which `ck_snapshot_congestion_ratio` refuses:
   the run is rolled back with every other lot's reading and all the answers, although
   `collection.py:700` provides for such lots. `OnlyTheseRaise` lists what else does this,
   of answers that are lists of records of texts.

Further observations made while modelling, for which no run is kept:

* With Incheon enabled, a run in which KAC said "limited" and a later source raised is
  committed with the exception alone (collection.py:457), and the next run asks KAC
  again within the backoff. In the run that learns of the limit, the KAC fee call is
  still made (collection.py:432).
* The page. The load after a manual collection uses the airport of the click, so a
  user who chooses another one meanwhile sees no items (the exception of `SelectionShown`;
  the Next.js proxy does not relay that call). A silent load that overtakes the user's
  leaves the loading flag set for good, although the data have arrived and
  `docs/architecture/performance.md:22` promises them (the exception of `PlaceholderGone`). An answer that arrives
  between a choice and its rendering belongs to the airport left (`SelectionShown` and
  `AnalyticsOfSelection` hold where transitions are rendered promptly). While bundles
  take longer than the poll interval, silent loads may overtake each other for ever, and the page
  stays old (`FreshDataShown` holds where they do not).
* The comment at `flight_status.py:248` says that the backoff stops page views from renewing the
  rate limit. It does so for the views of one airport and day, and that is what
  `QuotaComesBack` says: if from some time on only one key is fetched, the quota comes back for
  good. The limit belongs to the service key, the cache entry to an airport and day. So with
  two or more keys, as every deployment has, fetches of one can end the wait of the other: TLC
  finds the unrestricted property, `<>[](quota = 0)`, violated by the two keys of
  `upstream_caches` taking turns. Entries of the flight cache are never removed.
* A number that `float()` takes for infinity ("inf", 1e400) makes `int()` raise
  `OverflowError`, which `_safe_int` does not catch (`parsers.py:133-136` catches only
  `ValueError`), so one such text costs the run. So does a number beyond the Integer columns
  (`models.py:153-155`, `models.py:235-240`), a name or id longer than its `String(120)`
  (`models.py:67-69`), and an item that JSONB cannot hold.
* KAC flights: the estimated time is combined with the flight's own date, so a delay past
  midnight is drawn almost a day early (`KacMarkerOnFlightDate`). Codeshares are grouped by marker
  time, so two flights of a route estimated for the same minute become one marker. An
  Incheon answer with one failed section shows the other one's items, as an error,
  and is not cached.
* Holidays are de-duplicated by date and name before non-holidays are filtered out;
  `HolidaysFound` assumes a provider that does not list the same name both ways.
* `align_to_interval` aligns within the hour, so an interval that does not divide 60
  shifts the window of a date range. Upward crossings of an airport may come from a
  lot's first reading, as a bucket without data counts 0; downward ones cannot
  (`DownCrossingsReal`). Special-day charts sum lots per instant, so lots observed at
  different instants give partial sums.
* Start-up. The samples' ids of Incheon lots differ from those the collector makes of the
  names, and seeding looks a lot up by its ids only, unless it has former names: on
  a database collected first and seeded later, an Incheon lot gets a second identity, after
  which a reading of its name is stored under the first (`OneHistory` speaks of KAC). Where
  a former lot and its successor both exist, seeding violates `uq_parking_lot_source`
  and the application does not start. A seeded lot that bears the prefix of a fee rule as
  its name takes the rule from all other lots of that prefix (`data-sources.md:49`
  means them all). A seeded KAC row has the key of a live reading of the same instant, which
  is then not stored.
* Fees: `parse_kac_fee` does not normalise names as `parse_kac_parking` does, so rules of
  unmatched lots share the generic rule, and generic rules are never removed. Public
  holidays are charged as weekdays. A missing kind of day makes the endpoint answer
  500. A fee item without basic minutes rolls the whole run back.
* Merges. Two rules that differ only in `source_updated_at` are refused, which KAC rules
  practically always do. A merge may change the airport-wide quote while it keeps every
  lot's own prices; and where two lots of a name had shared out the kinds of day, their rules
  are used together for the first time, so a stay may cost what it cost in neither
  (`PricesKept` speaks of the others).
* A merge whose duplicate has a number of the old server cannot succeed.
  `reconcile_parking_lots.py:137` gives the number to the canonical lot, and the next statement
  flushes that while the duplicate still has it, which `uq_parking_lot_legacy_source`
  (`models.py:55`) refuses. The docstring of the script promises that the lot with
  most observations is kept and the duplicate removed; as live lots have the most and imported
  ones the number, that is the usual case. `MergeLot` refuses it as the database does.
* An older Incheon lot that has a sample's name, but an id the sample does not list, would
  make every run after a seeding start raise, as the name would then stand for two lots and the
  collector knows neither id. `SamplesAssumption` excludes it.
* The rows that a merge leaves may disagree between "current" and the series until the
  next import; `AgreementKept` says which programs keep or restore agreement.
* The empty-lot allowlist of the gate applies to lots without an observation in the last
  `--days` days, not to lots that never had one.
* The fee form resets its lot to the first one on every render with two or more lots, and its
  default range is UTC in a local field; the backup panel shares one busy flag between
  overlapping operations; the proxy answers 504 after 900 s while a backup goes on.

## 5. What is proved

TLAPS checks the following for all values of the constants, from the ASSUMEs of the
modules (which TLC evaluates in the runs). The assumptions say that times and bounds are
natural numbers, sets that must not be empty are not, and names that stand for "none"
are no process, key or airport; some say more. `BackupRequests.TimeoutAssumption`: a write
ends before its file is old enough to be swept. `UpstreamCaches.BackoffAssumption`: the
backoff outlasts the provider's window and three calls. Neither is checked by the code; the
defaults satisfy both. `LotHistory.NamesAssumption`: no name is an old number.
`Ingestion.IdsAssumption`, `SamplesAssumption` and `AnswersAssumption`: the ids and names in
`sample_data.py` and the tables of `parsers.py` fit together as they do today (ids of
two airports differ, a KAC sample has the id the collector would give it, a former id is nobody's
present one), and an item has the fields its parser reads, each a number, a time, garbled, absent or
endless.

An invariant is hardly ever inductive as it stands, because the reason for it lies in
steps that are under way. Each proof module states the strengthening (`IndInv`, or the
invariant named below), proves one lemma per action that could break a part of it, and
derives the theorems.

* `CollectionProofs`: `TypeCorrect`, `CollectionsTakeTurns`, `StoredOnce`,
  `RowsHaveTheirRun`, `BackoffKept`, and `Refinement` (`Spec => LogSpec`), for any number
  of requests, sources and lots, any settings and any bounds. That a pending row repeats no
  committed one holds only because nobody else can commit while it is pending.
  `QueueInv`: the queue has no repetition, holds exactly the processes that are queued or
  collecting, and a process that collects is its head. `PendingInv`: only the head has
  pending rows, each carries the number of the run that will be committed next and was
  taken since that run's start, no two of them and none with a committed row are the same
  observation, and the run starts after every committed one has ended. `DataInv`: the
  committed tables. The refinement mapping is the identity on the two tables; each commit
  is one `LogNext`, all else stutters. `BackoffKept` needs `LimitInv`, which carries the
  marker from run to run: while the backoff lasts the latest run that was not skipped has
  the marker, and the run under way either began after it or has noted the limit, so its
  own row will have it too. A skipped run is no attempt, and a run that raises ends the
  obligation (`limitedAt` is reset), which is the exception the property names.
* `AnalyticsCacheProofs`: `NeverCircular`, `LatestWhole`, `OnlyFirstRowStale`, for any number
  of refreshes and rows. `InOrder`: a refresh holds exactly the rows it has stored, all
  smaller than those to come. So the process of a circle that waits for the greatest row
  waits for nobody: its holder would have to hold a greater one. `OneOwner`: no row is
  written by two. `NewestInv` is about the refresh of the last collection: it has computed
  everything since; and once it is committed, every other one has held no row before that, as
  the first row is where they queue up, so that only its own first payload may be older.
* `MaintenanceProofs`: `NothingLost` and `OneAtATime`, for any pool and any number of
  requests. The queue as above, with sessions beside it that time out on the pool before they
  have queued, or at their turn; `DumpCurrent`: since the dump of a restore at its turn nothing was
  committed; and who reads has a connection.
* `BackupProofs`: `Refinement` (`BackupRequests` implements `BackupStore`), and from it and
  the invariants `TypeCorrect`, `NeverAboveLimit`, `RetentionKept`, `PreRestoreDumpStays`,
  `FailureCostsNothing`; `WritersSpared`. The argument has two halves. `StoreInv` is about the
  listed files and one request, and each action of `BackupStore` keeps it: ids are unique
  and none is above the last one given, the files fit into the limit (`Catalog`), what has
  been received is the youngest file, the pre-restore dump is listed from the moment it
  is kept, and the files that would remain if the request failed now honour the
  retention (`Lasting`: a dump just put in place and an upload will go again). `RequestInv` is
  about several requests: at most the head of the queue has begun, who has not begun has made
  nothing, and a file that is being written is younger than its timeout. With it, each
  step of one request is a step of `BackupStore` for the current one, and arriving, waiting,
  listing and the clock are stutters. The lemmas on `Size` (a larger set takes more, a file
  adds its own size, equal to the number of bytes) rest on no induction theorem: the fold that
  defines it is solved by hand, with a smallest counterexample.
* `DashboardProofs`: `ItemsOfSelection`, `AnalyticsShown`, `PlaceholderRemoved`,
  `ItemsNeverOlder`, `SelectionSurvives`, for any airports, request slots and polls. The
  properties speak of a page at rest; the invariant says what must be true of what is
  under way: one request at most is the latest (`OneLatest`), it is for the airport shown
  or chosen, with the exceptions of the properties (`LatestForTarget`), its data are no older
  than those shown (`LatestIsNewer`), a placeholder waits for it unless overtaken
  (`LatestShows`), the analytics are those of the airport, being fetched, or failed, as soon as
  none is awaited (`AnalyticsForTarget`), and before the bootstrap answer nothing else is
  under way (`Opening`).
* `UpstreamProofs`: `CachesTypeCorrect` and `Quiet` about the caches, for any keys and
  viewers (`QuietInv`: while an answer rules out calls its entry is valid and no call for
  it is under way, a call that overlaps the answer being the exception). `BoardExact`, `IncheonDirections`,
  `KacMarkerOnFlightDate` about flights. `HolidaysFound`, `LookbackSuffices`,
  `SpecialDaysComplete` about days. The argument of the second: a day `limit` weeks back has
  `limit` Saturdays after it, an injection of `0..limit-1` into the special days counted, so
  the walk never leaves the `max(90, 14 * limit)` days for which holidays were asked.
  `BackoffTypeCorrect`, `NoBurstOfRuns` and `BlockEndsInTime` about the backoff. `NoBurst` is not
  inductive: `DeadlineInv` adds that a deadline is never before the last turn that was over when it
  was set, and, once the turn it was for is over, the next one an interval after that turn's
  predecessor. For the last (KAC alone), `UnblockedInv`: no run is under way while KAC is blocked.
* `CalculationProofs`: `DayFeeMonotone`, `DayFeeCapped`, `SplitCoversStay`, `OwnRuleWins` about
  fees. `LotsPaired`, `NothingOldMissing` about the gate: six pauses of 50 s are the 300 s an
  observation may be old, so what passes the last sample was observed after the first one
  ended. `IncheonFeesFit` and `KacReadingFits`, where the parsers agree with the
  columns and constraints of the tables: for every answer whose numbers the columns take, the
  second where there are no more cars than spaces, of which `overfull_lot` shows the other
  side.
* `CalculationProofs`, a deployment over its restarts: `RaisesOnlyAtThese` (`OnlyTheseRaise`),
  `KacHistoriesWhole` (`OneHistory`) and `DeploymentTyped` (`TypeOK`, with the unique keys of
  lots and readings), for any answers, lots and times. `DeploymentInv` says what lots there can
  be: every lot has the id the collector gives its name, or is a sample's with its id and
  name, or is the one an older version left; a sample whose name the old lot has is not there
  beside it; no two lots of KAC have one name; and what was collected at KAC is of a lot of KAC.
  So a name whose id no lot has is the name of one lot at most, and the lookup of
  `_get_or_create_lot` is never ambiguous; and a lot of KAC is found by its id for ever. A run
  and a seeding start are folds over states that raise or keep this
  (`RunStates`, `Seedings`): every reading stored has its lot, and no two readings one
  key. `RunStates` has a parameter, whether a run may raise: with answers that are not
  `Refusable` it may not, because of `KacReadingFits`, `IncheonFeesFit` and the lemmas on each
  parser (`KacParkingStored` and its three siblings).
* `HistoryProofs`: all that `lot_history` checks, for any names, numbers, instants, readings, fee
  answers and rows. `IInv` (`LotsInv`, `RowsInv`, `RulesInv`) is what the three programs leave
  behind: a number belongs only to the lot that was made for it, a name has the lot of its slug
  and at most one other, rows and rules are as their unique keys want them. From it:
  `TypeInvariant`, and, comparing the two states of a step, `HistoriesNotSplit`,
  `ReadingsNotLost`, `PricesNotChanged`, `AgreementLasts`.
  The programs' loops are folds; `FoldSolution` and `FoldInvariant` solve them once,
  along any order in which the elements may be taken, and an invariant of the loop is then one
  of the fold. For an import it is `UpsertStates`, for a merge that every row of a
  lot is found again in the canonical one, for fees that a rule replaces its like.
  `SeriesRight`, `CrossingsRight`, `ReadingsCountedOnce`, `FallsAreReal` need of the reachable states
  only that rows are as their keys want them. Each is a lemma on the operators of
  `Readings` and `Patterns`: a sequence that lists readings by their instants has each at the
  number of those before it (`InOrder`), so the walk along the buckets stands at the latest
  reading up to each; what a limit cuts from the list of crossings is older than what it leaves;
  sums over a function do not depend on the order they are added in, nor on how the readings are
  grouped; and a sum of counts that falls while no lot leaves has a lot that fell.

Only model-checked:

* every liveness property, as fairness and ENABLED are beyond the prover;
* what needs induction over data, such as the sum of a fee over all days of a stay
  (`DayFeeMonotone`, `DayFeeCapped` and `SplitCoversStay` are about its parts).

## 6. Assumptions about what is outside the code

* PostgreSQL: a transaction is atomic and durable; a second writer of a row waits for
  the first; table locks are granted in order of arrival. A backend left behind
  by a killed `pg_restore` is ignored.
* `asyncio.Lock` is fair.
* One backend process. Two of them would not share `operation_lock`.
* The runbook (`docs/runbooks/migration.md`) keeps the scheduler off while import and
  merge run, as the scripts take no lock. Overlapping them could create two lots of
  one name in transactions that do not see each other, or delete a lot under a
  collection.
* A lot reports at least once in the window the import copies, and is not renamed by
  the provider.
* KAC answers "limited" exactly when its quota is used up (`UpstreamBackoff`); calls
  made during a limit renew it (`UpstreamCaches`), as ADR-004 assumes.

## 7. What is not modelled

The HTTP calls of the live clients and the envelopes of their answers, schemas and
configuration, migrations, the SQLite import, the OpenAPI export, the proxy, the API
client, charts and layout, the fee form and the backup panel, deployment scripts.
`PROJECT.json` gives the reason for each. An answer that is no list of records of texts (an item that is no object, a number
or a list where a name belongs) is left out of `Answers`, so `OnlyTheseRaise` says nothing of
it, nor of an airport name too long for its column in an answer about fees. Within the modelled
parts, wording, logging, medians, labels and the bodies of raw responses are left out. `collected_at` is
left out of `LotHistory`, where it never decides. The values of the samples and the
seeded fee rules are left out of `Ingestion`; whose the collected fee rules become is
`LotHistory`'s.

## 8. The plan

Done, in this order: `RunLog`/`Collection` and its proofs; `UpstreamBackoff`;
`AnalyticsCache`, `Maintenance`, `BackupStore`; `Dashboard`; `UpstreamCaches`;
`Readings`/`Fees`/`LotHistory`; `Patterns`, `Holidays`, `FlightBoard`, `CutoverGate`;
one run of `Collection` over changing settings; `BackupRequests` over `BackupStore`; what overlapping
refreshes leave behind; `Answers` and `Ingestion`; `NoBurst`, `PlaceholderGone`; the
proofs about `AnalyticsCache`, `Maintenance`, `BackupRequests`, `Dashboard`,
`UpstreamCaches` and the backoff.

The proofs about `LotHistory` and `Ingestion` came last: the folds, then the invariants, then what
charts, crossings and quotes make of the rows.

What a next step could be: `BackupPanel`, the panel and the proxy's timeout over
`BackupRequests`; a run of its own for the merge that cannot take over a number; and the total fee of
a stay of several days, were there a prover for induction over operators.
