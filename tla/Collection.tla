----------------------------- MODULE Collection -----------------------------
(***************************************************************************)
(* CollectionService (backend/app/services/collection.py) as it runs in    *)
(* the backend process: the scheduler task and the POST /admin/collect     *)
(* handlers (backend/app/main.py) interleave at their awaits, take turns   *)
(* on operation_lock, talk to the public data API, and commit to           *)
(* PostgreSQL.  The process may die and start again between any two steps; *)
(* what was committed survives.                                            *)
(*                                                                         *)
(* Time is the wall clock in whole units.  An upstream answer is one of:   *)
(* an error carrying the rate-limit marker, another error, a payload whose *)
(* parsing or storing raises, or a batch of observations.                  *)
(***************************************************************************)
EXTENDS Integers, Sequences, FiniteSets

CONSTANTS
  Scheduler,          \* the _run_scheduler task
  Requests,           \* concurrent POST /admin/collect requests
  SchedulerEnabled,   \* settings.enable_scheduler
  Settings,           \* the values of enabled_sources an operator may start it with
  Lots,               \* parking lots
  LotsOf,             \* the lots a parking source reports on
  Interval,           \* settings.effective_collect_interval_seconds
  Cooldown,           \* settings.manual_collect_min_interval_seconds
  Backoff,            \* settings.upstream_rate_limit_backoff_seconds
  MaxTime, MaxRuns, MaxRestarts   \* bounds of the model

Procs == Requests \cup {Scheduler}
Rank == [kac_parking |-> 1, incheon_parking |-> 2, kac_fee |-> 3, incheon_fee |-> 4]
SourceNames == DOMAIN Rank
ParkingSources == {"kac_parking", "incheon_parking"}
KacSources == {"kac_parking", "kac_fee"}

ASSUME ProcsAssumption == Scheduler \notin Requests
ASSUME SchedulerAssumption == SchedulerEnabled \in BOOLEAN
ASSUME SourcesAssumption ==
  Settings # {} /\ \A e \in Settings : e \subseteq SourceNames /\ "kac_parking" \in e
ASSUME LotsAssumption == LotsOf \in [ParkingSources -> SUBSET Lots]
ASSUME TimesAssumption == Interval \in Nat \ {0} /\ Cooldown \in Nat /\ Backoff \in Nat
ASSUME BoundsAssumption == MaxTime \in Nat /\ MaxRuns \in Nat /\ MaxRestarts \in Nat

VARIABLES
  enabled,    \* CollectionService.enabled_sources, fixed until the next restart
  clock,      \* now_utc()
  queue,      \* operation_lock: its holder, then its waiters in order of arrival
  pc,         \* where each task or request is
  job,        \* the uncommitted run of each: local variables and pending rows
  deadline,   \* next_deadline of the scheduler loop
  runs,       \* committed rows of collection_runs, in id order
  snapshots,  \* committed rows of parking_snapshots
  limitedAt,  \* history: start of the last committed run in which a source said
              \* "limited", unless a run has raised since
  restarts    \* history: restarts so far

db == <<runs, snapshots>>
vars == <<enabled, clock, queue, pc, job, deadline, runs, snapshots, limitedAt, restarts>>

INSTANCE RunLog

Row == [lot : Lots, source : ParkingSources, observed : Nat, collected : Nat, run : Nat]
Run == [start : Nat, end : Nat, status : Statuses, marked : BOOLEAN]
\* What a run notes: that KAC is left out because of an earlier limit, that a source
\* said "limited", another error.  The first two write the same marker.
Errors == {"blocked", "marker", "other"}
Marked(errors) == errors \cap {"blocked", "marker"} # {}

Job == [start : Nat, todo : SUBSET SourceNames, errors : SUBSET Errors,
        raw : BOOLEAN, rows : SUBSET Row]
NoJob == [start |-> 0, todo |-> {}, errors |-> {}, raw |-> FALSE, rows |-> {}]

TypeOK ==
  /\ enabled \in Settings
  /\ clock \in Nat
  /\ queue \in Seq(Procs)
  /\ pc \in [Procs -> {"idle", "rate_checked", "queued", "collecting", "refreshing"}]
  /\ job \in [Procs -> Job]
  /\ deadline \in Nat
  /\ runs \in Seq(Run)
  /\ snapshots \in SUBSET Row
  /\ limitedAt \in Int
  /\ restarts \in Nat

Init ==
  /\ enabled \in Settings
  /\ clock = 0
  /\ queue = <<>>
  /\ pc = [p \in Procs |-> "idle"]
  /\ job = [p \in Procs |-> NoJob]
  /\ deadline = 0
  /\ LogInit
  /\ limitedAt = 0 - Backoff
  /\ restarts = 0
-----------------------------------------------------------------------------
(* Questions the code asks of the committed rows.                          *)

\* The latest run that was not skipped, by start and then by id.
LatestAttempt(i) ==
  /\ i \in 1..Len(runs)
  /\ runs[i].status # "skipped"
  /\ \A j \in 1..Len(runs) :
       runs[j].status # "skipped" =>
         runs[j].start < runs[i].start \/ (runs[j].start = runs[i].start /\ j <= i)

\* Its error message carries the marker and its backoff has not run out.
RateLimited ==
  \E i \in 1..Len(runs) :
    LatestAttempt(i) /\ runs[i].marked /\ clock < runs[i].start + Backoff

CanCollectIncheon == enabled \cap {"incheon_parking", "incheon_fee"} # {}

CooldownPassed == \A row \in snapshots : row.collected + Cooldown <= clock

\* Mutant of HoldsLock: collect without operation_lock.
HoldsLockIgnored(p) == p \in Procs

HoldsLock(p) == queue # <<>> /\ Head(queue) = p

\* Bound of the model: every run that has been let in may still be committed.
Room ==
  Len(runs) + Cardinality({p \in Procs : pc[p] \notin {"idle", "refreshing"}}) < MaxRuns
-----------------------------------------------------------------------------
(* Taking and leaving a turn.                                              *)

Enqueue(p) ==
  /\ queue' = Append(queue, p)
  /\ pc' = [pc EXCEPT ![p] = "queued"]

\* The scheduler sleeps until the next deadline; after an overrun that is now.
Return(p) ==
  /\ pc' = [pc EXCEPT ![p] = "idle"]
  /\ deadline' = IF p # Scheduler THEN deadline
                 ELSE IF deadline + Interval < clock THEN clock
                 ELSE deadline + Interval

SchedulerWake ==
  /\ SchedulerEnabled
  /\ pc[Scheduler] = "idle"
  /\ deadline <= clock
  /\ Room
  /\ Enqueue(Scheduler)
  /\ UNCHANGED <<enabled, clock, job, deadline, db, limitedAt, restarts>>

\* First check of POST /admin/collect; a 429 ends the request here.
ManualRateCheck(r) ==
  /\ pc[r] = "idle"
  /\ Room
  /\ RateLimited => CanCollectIncheon
  /\ pc' = [pc EXCEPT ![r] = "rate_checked"]
  /\ UNCHANGED <<enabled, clock, queue, job, deadline, db, limitedAt, restarts>>

\* Second check, still outside the lock: 409, or wait for the lock.
ManualCooldownCheck(r) ==
  /\ pc[r] = "rate_checked"
  /\ \/ CooldownPassed /\ Enqueue(r)
     \/ ~CooldownPassed /\ pc' = [pc EXCEPT ![r] = "idle"] /\ UNCHANGED queue
  /\ UNCHANGED <<enabled, clock, job, deadline, db, limitedAt, restarts>>
-----------------------------------------------------------------------------
(* Inside the lock: _collect_unlocked.                                     *)

\* Rate limited and nothing else to fetch: commit a "skipped" run and leave.
StoreRateLimitSkip(p) ==
  /\ pc[p] = "queued"
  /\ HoldsLock(p)
  /\ RateLimited /\ ~CanCollectIncheon
  /\ runs' = Append(runs, [start |-> clock, end |-> clock,
                           status |-> "skipped", marked |-> TRUE])
  /\ queue' = Tail(queue)
  /\ Return(p)
  /\ UNCHANGED <<enabled, clock, job, snapshots, limitedAt, restarts>>

BeginRunOnCallersCheck(p) ==   \* mutant: a request's own check is not repeated
  /\ pc[p] = "queued"
  /\ HoldsLock(p)
  /\ RateLimited /\ p = Scheduler => CanCollectIncheon
  /\ job' = [job EXCEPT ![p] = [NoJob EXCEPT !.start = clock, !.todo = enabled]]
  /\ pc' = [pc EXCEPT ![p] = "collecting"]
  /\ UNCHANGED <<enabled, clock, queue, deadline, db, limitedAt, restarts>>

\* A run starts; when rate limited, the KAC sources are left out and the
\* marker is among its errors from the start.
BeginRun(p) ==
  /\ pc[p] = "queued"
  /\ HoldsLock(p)
  /\ RateLimited => CanCollectIncheon
  /\ job' = [job EXCEPT ![p] =
       [start |-> clock,
        todo |-> IF RateLimited THEN enabled \ KacSources ELSE enabled,
        errors |-> IF RateLimited THEN {"blocked"} ELSE {},
        raw |-> FALSE, rows |-> {}]]
  /\ pc' = [pc EXCEPT ![p] = "collecting"]
  /\ UNCHANGED <<enabled, clock, queue, deadline, db, limitedAt, restarts>>

\* The sources are asked in a fixed order.
NextSource(p, s) ==
  /\ pc[p] = "collecting"
  /\ s \in job[p].todo
  /\ \A o \in job[p].todo : Rank[s] <= Rank[o]

\* The local state of a run after source s failed, or answered with new rows.
Failed(j, s, error) ==
  [j EXCEPT !.todo = j.todo \ {s}, !.errors = j.errors \cup {error}]
Answered(j, s, rows) ==
  [j EXCEPT !.todo = j.todo \ {s}, !.raw = TRUE, !.rows = j.rows \cup rows]

\* _safe_fetch recorded an error, with or without the rate-limit marker.
FetchFails(p, s, error) ==
  /\ NextSource(p, s)
  /\ job' = [job EXCEPT ![p] = Failed(job[p], s, error)]
  /\ UNCHANGED <<enabled, clock, queue, pc, deadline, db, limitedAt, restarts>>

\* Mutant of NewRows: only this session's pending rows are looked at.
NewRowsOfSession(p, s, lots, at) ==
  {row \in [lot : lots, source : {s}, observed : {at}, collected : {clock},
            run : {Len(runs) + 1}] :
     \A old \in job[p].rows : ~SameObservation(row, old)}

\* Snapshots are taken of those observations no row holds yet, be it committed
\* or pending in this session.
NewRows(p, s, lots, at) ==
  {row \in [lot : lots, source : {s}, observed : {at}, collected : {clock},
            run : {Len(runs) + 1}] :
     \A old \in snapshots \cup job[p].rows : ~SameObservation(row, old)}

FetchCommits(p, s, lots, at) ==   \* mutant: rows are committed source by source
  /\ NextSource(p, s)
  /\ job' = [job EXCEPT ![p] = Answered(job[p], s, {})]
  /\ snapshots' = snapshots \cup NewRows(p, s, lots, at)
  /\ UNCHANGED <<enabled, clock, queue, pc, deadline, runs, limitedAt, restarts>>

\* A source answers; a parking source may repeat observations it gave before.
FetchSucceeds(p, s, lots, at) ==
  /\ NextSource(p, s)
  /\ job' = [job EXCEPT ![p] = Answered(job[p], s, NewRows(p, s, lots, at))]
  /\ UNCHANGED <<enabled, clock, queue, pc, deadline, db, limitedAt, restarts>>

\* success, failed when no source answered, partial_success otherwise.
FinalStatus(j) ==
  IF j.errors = {} THEN "success" ELSE IF j.raw THEN "partial_success" ELSE "failed"

\* The only commit of a run that did not raise.  The caller refreshes the
\* analytics cache, outside the lock, when there are new snapshots.
FinishRun(p) ==
  /\ pc[p] = "collecting"
  /\ job[p].todo = {}
  /\ runs' = Append(runs, [start |-> job[p].start, end |-> clock,
                           status |-> FinalStatus(job[p]),
                           marked |-> Marked(job[p].errors)])
  /\ snapshots' = snapshots \cup job[p].rows
  /\ queue' = Tail(queue)
  /\ job' = [job EXCEPT ![p] = NoJob]
  /\ \/ job[p].rows = {} /\ Return(p)
     \/ job[p].rows # {} /\ pc' = [pc EXCEPT ![p] = "refreshing"] /\ UNCHANGED deadline
  /\ limitedAt' = IF "marker" \in job[p].errors THEN job[p].start ELSE limitedAt
  /\ UNCHANGED <<enabled, clock, restarts>>

RunRaisesKeepingRows(p) ==   \* mutant: no rollback before the failed run is committed
  /\ pc[p] = "collecting"
  /\ job[p].todo # {}
  /\ runs' = Append(runs, [start |-> job[p].start, end |-> clock,
                           status |-> "failed", marked |-> FALSE])
  /\ snapshots' = snapshots \cup job[p].rows
  /\ queue' = Tail(queue)
  /\ job' = [job EXCEPT ![p] = NoJob]
  /\ Return(p)
  /\ UNCHANGED <<enabled, clock, limitedAt, restarts>>

RunRaisesKeepingLock(p) ==   \* mutant: the lock is not released when a run raises
  /\ pc[p] = "collecting"
  /\ job[p].todo # {}
  /\ runs' = Append(runs, [start |-> job[p].start, end |-> clock,
                           status |-> "failed", marked |-> FALSE])
  /\ job' = [job EXCEPT ![p] = NoJob]
  /\ Return(p)
  /\ UNCHANGED <<enabled, clock, queue, snapshots, limitedAt, restarts>>

\* Parsing or storing an answer raises: everything is rolled back and a failed
\* run is committed whose error is the exception alone.
RunRaises(p) ==
  /\ pc[p] = "collecting"
  /\ job[p].todo # {}
  /\ runs' = Append(runs, [start |-> job[p].start, end |-> clock,
                           status |-> "failed", marked |-> FALSE])
  /\ queue' = Tail(queue)
  /\ job' = [job EXCEPT ![p] = NoJob]
  /\ Return(p)
  /\ limitedAt' = 0 - Backoff
  /\ UNCHANGED <<enabled, clock, snapshots, restarts>>

\* refresh_default_analytics_cache has committed, or failed (see AnalyticsCache).
CacheRefreshed(p) ==
  /\ pc[p] = "refreshing"
  /\ Return(p)
  /\ UNCHANGED <<enabled, clock, queue, job, db, limitedAt, restarts>>
-----------------------------------------------------------------------------
Tick ==
  /\ clock < MaxTime
  /\ clock' = clock + 1
  /\ UNCHANGED <<enabled, queue, pc, job, deadline, db, limitedAt, restarts>>

\* The process dies, in whatever step, or is stopped to change its settings, and
\* starts again: the lock, the tasks and the open transactions are gone, and the
\* scheduler collects at once.
Restart ==
  /\ restarts < MaxRestarts
  /\ restarts' = restarts + 1
  /\ queue' = <<>>
  /\ pc' = [p \in Procs |-> "idle"]
  /\ job' = [p \in Procs |-> NoJob]
  /\ deadline' = clock
  /\ enabled' \in Settings
  /\ UNCHANGED <<clock, db, limitedAt>>

\* What a source may report: its lots, as of now or of one unit ago; a fee source
\* reports no observation.
ReportedLots(s) == IF s \in ParkingSources THEN SUBSET LotsOf[s] ELSE {{}}
ReportedAt == {clock} \cup IF clock = 0 THEN {} ELSE {clock - 1}

Step(p) ==
  \/ StoreRateLimitSkip(p)
  \/ BeginRun(p)
  \/ \E s \in SourceNames, error \in {"marker", "other"} : FetchFails(p, s, error)
  \/ \E s \in SourceNames : \E lots \in ReportedLots(s), at \in ReportedAt :
       FetchSucceeds(p, s, lots, at)
  \/ FinishRun(p)
  \/ RunRaises(p)
  \/ CacheRefreshed(p)

Next ==
  \/ Tick
  \/ SchedulerWake
  \/ \E r \in Requests : ManualRateCheck(r) \/ ManualCooldownCheck(r)
  \/ \E p \in Procs : Step(p)
  \/ Restart

Spec == Init /\ [][Next]_vars

\* A task whose await has completed runs again, and every upstream call ends by
\* its timeout (api_timeout_seconds).  Nothing makes a user send a request.
Fairness ==
  /\ \A p \in Procs : WF_vars(Step(p))
  /\ \A r \in Requests : WF_vars(ManualCooldownCheck(r))

FairSpec == Spec /\ Fairness
-----------------------------------------------------------------------------
(* Properties.                                                             *)

\* Collections take turns: a committed run starts after every earlier one has
\* ended, however scheduler and manual requests interleave (operation_lock).
RunsTakeTurns ==
  \A i, j \in 1..Len(runs) : i < j => runs[i].end <= runs[j].start

\* No two snapshots repeat (lot, observed_at, source): the collector never trips
\* uq_parking_snapshot although it checks with a SELECT of its own.
ObservationsStoredOnce ==
  \A a, b \in snapshots : SameObservation(a, b) => a = b

\* Every snapshot belongs to a committed run that stored data, and was taken
\* while that run ran: no failed, skipped or lost run leaves rows behind.
SnapshotsHaveTheirRun ==
  \A row \in snapshots :
    /\ row.run \in 1..Len(runs)
    /\ runs[row.run].status \in Stored
    /\ runs[row.run].start <= row.collected /\ row.collected <= runs[row.run].end

\* The lock: nobody queues twice, exactly those inside a turn or waiting for one
\* are in the queue, and only its head collects.
QueueInv ==
  /\ \A i, j \in 1..Len(queue) : queue[i] = queue[j] => i = j
  /\ \A p \in Procs : pc[p] \in {"queued", "collecting"} <=>
                        \E i \in 1..Len(queue) : queue[i] = p
  /\ \A p \in Procs : pc[p] = "collecting" => HoldsLock(p)

\* The pending run could be committed now: it starts after every committed run,
\* and its rows are new.
PendingInv ==
  \A p \in Procs : pc[p] = "collecting" =>
    /\ job[p].start <= clock
    /\ \A i \in 1..Len(runs) : runs[i].end <= job[p].start
    /\ job[p].rows # {} => job[p].raw
    /\ \A a \in job[p].rows :
         /\ a.run = Len(runs) + 1
         /\ job[p].start <= a.collected /\ a.collected <= clock
         /\ \A b \in snapshots : ~SameObservation(a, b)
         /\ \A b \in job[p].rows : SameObservation(a, b) => a = b

\* The committed tables: runs have ended, and the three properties above.
DataInv ==
  /\ \A i \in 1..Len(runs) : runs[i].start <= runs[i].end /\ runs[i].end <= clock
  /\ RunsTakeTurns
  /\ ObservationsStoredOnce
  /\ SnapshotsHaveTheirRun

\* The inductive invariant behind the theorems of CollectionProofs: DataInv holds
\* because of who may hold the lock (QueueInv) and of what is pending while it is
\* held (PendingInv).
IndInv == QueueInv /\ PendingInv /\ DataInv

\* KAC parking is not called again before the backoff has run out that its last
\* recorded "limited" answer started, restarts and other sources notwithstanding,
\* unless a run has raised since: its rollback takes the marker with it.
BackoffHonoured ==
  \A p \in Procs : NextSource(p, "kac_parking") => limitedAt + Backoff <= job[p].start

\* A manual collection starts only when the newest snapshot is older than the
\* cooldown (docs/architecture/collection.md: the backend enforces the limit).
ManualCooldownHonoured ==
  \A r \in Requests : pc[r] = "collecting" =>
    \A row \in snapshots : row.collected + Cooldown <= job[r].start

\* A manual request that passed its first check is answered in the end, however
\* many collections are queued before it.
RequestsAnswered ==
  \A r \in Requests : pc[r] # "idle" ~> pc[r] = "idle"

\* The collector implements RunLog: what others read changes only by whole runs.
ImplementsRunLog == LogSpec
=============================================================================
