--------------------------- MODULE UpstreamBackoff ---------------------------
(***************************************************************************)
(* How long a rate limit keeps the collector from asking KAC: the part of  *)
(* CollectionService that reads the latest run's error message, against a  *)
(* KAC API whose quota runs out and comes back.  Collection has the whole  *)
(* collector on a bounded clock; here times are ages and delays that stop  *)
(* at the value beyond which they make no difference, so that behaviours   *)
(* are infinite and "KAC is asked again" can be stated.                    *)
(***************************************************************************)
EXTENDS Integers

CONSTANTS
  Interval,      \* settings.effective_collect_interval_seconds
  BackoffTime,   \* settings.upstream_rate_limit_backoff_seconds
  WithIncheon,   \* settings.enable_incheon_collection or ..._fee_collection
  ManualEnabled, \* settings.manual_collect_enabled
  Duration       \* a run's calls all end within this time (api_timeout_seconds)

ASSUME BackoffTimesAssumption ==
  Interval \in Nat \ {0} /\ BackoffTime \in Nat \ {0} /\ Duration \in Nat
ASSUME SettingsAssumption == WithIncheon \in BOOLEAN /\ ManualEnabled \in BOOLEAN

VARIABLES
  accepting, \* whether KAC accepts calls
  latest,    \* the latest run not skipped: age of its start, marker in its errors
  due,       \* time left to the scheduler's deadline, negative when it is late
  phase,     \* what the collector does; "kac" is a run about to ask KAC
  run,       \* the run being made: who made it, its age, marker in its errors
  starts     \* history: ages of the scheduler's last turn and of the one before

backoffVars == <<accepting, latest, due, phase, run, starts>>

Ages == 0..BackoffTime
NoRun == [by |-> "scheduler", age |-> 0, marked |-> FALSE]

BackoffTypeOK ==
  /\ accepting \in BOOLEAN
  /\ latest \in [age : Ages, marked : BOOLEAN]
  /\ due \in -(Interval + 1)..Interval
  /\ phase \in {"asleep", "kac", "others"}
  /\ run \in [by : {"scheduler", "manual"}, age : 0..Duration, marked : BOOLEAN]
  /\ starts \in [last : 0..Interval, before : 0..Interval]

BackoffInit ==
  /\ accepting = TRUE
  /\ latest = [age |-> BackoffTime, marked |-> FALSE]
  /\ due = 0
  /\ phase = "asleep"
  /\ run = NoRun
  /\ starts = [last |-> Interval, before |-> Interval]
-----------------------------------------------------------------------------
RateLimitedForever == latest.marked   \* mutant of RateLimited: no expiry

RateLimited == latest.marked /\ latest.age < BackoffTime

NextDueCatchingUp == due + Interval   \* mutant of NextDue: missed deadlines are made up for

\* The deadline moves on by one interval, or to now when that has passed too.
NextDue == IF due + Interval < 0 THEN 0 ELSE due + Interval

\* The scheduler's turn: a run is begun, or stored as skipped.
Turn == phase = "asleep" /\ due <= 0 /\ starts' = [last |-> 0, before |-> starts.last]

\* A run is begun; a blocked one leaves KAC out and is marked from the start.
Begin(who) ==
  /\ run' = [by |-> who, age |-> 0, marked |-> RateLimited]
  /\ phase' = IF RateLimited THEN "others" ELSE "kac"
  /\ UNCHANGED <<accepting, latest, due>>

ScheduledRun ==
  /\ Turn
  /\ RateLimited => WithIncheon
  /\ Begin("scheduler")

\* A request that finds KAC blocked and nothing else to fetch gets 429.
ManualRun ==
  /\ ManualEnabled
  /\ phase = "asleep"
  /\ RateLimited => WithIncheon
  /\ Begin("manual")
  /\ UNCHANGED starts

SkipCountedAsAttempt ==   \* mutant of Skip: the skipped run renews the block
  /\ Turn
  /\ RateLimited /\ ~WithIncheon
  /\ latest' = [age |-> 0, marked |-> TRUE]
  /\ due' = NextDue
  /\ UNCHANGED <<accepting, phase, run>>

\* A skipped run is stored, and is not looked at by the next rate-limit check.
Skip ==
  /\ Turn
  /\ RateLimited /\ ~WithIncheon
  /\ due' = NextDue
  /\ UNCHANGED <<accepting, latest, phase, run>>

\* KAC answers: "limited" exactly when its quota is used up.
AskKac ==
  /\ phase = "kac"
  /\ run' = [run EXCEPT !.marked = ~accepting]
  /\ phase' = "others"
  /\ UNCHANGED <<accepting, latest, due, starts>>

\* The run is committed; only its own start and error message count from now on.
Commit(marked) ==
  /\ latest' = [age |-> IF run.age < BackoffTime THEN run.age ELSE BackoffTime, marked |-> marked]
  /\ due' = IF run.by = "scheduler" THEN NextDue ELSE due
  /\ phase' = "asleep"
  /\ run' = NoRun
  /\ UNCHANGED <<accepting, starts>>

\* The other sources answer, or fail with or without the marker.
Finish == phase = "others" /\ \E limited \in BOOLEAN : Commit(run.marked \/ limited)

\* An answer cannot be parsed or stored: the exception is the run's only error.
Raise == phase = "others" /\ Commit(FALSE)

TimePasses ==
  /\ phase # "asleep" => run.age < Duration
  /\ latest' = [latest EXCEPT !.age = IF latest.age < BackoffTime THEN latest.age + 1 ELSE BackoffTime]
  /\ due' = IF due > -(Interval + 1) THEN due - 1 ELSE due
  /\ run' = IF phase = "asleep" THEN run ELSE [run EXCEPT !.age = run.age + 1]
  /\ starts' = [s \in DOMAIN starts |-> IF starts[s] < Interval THEN starts[s] + 1 ELSE Interval]
  /\ UNCHANGED <<accepting, phase>>

QuotaChanges ==
  /\ accepting' = ~accepting
  /\ UNCHANGED <<latest, due, phase, run, starts>>

BackoffNext ==
  \/ ScheduledRun \/ ManualRun \/ Skip
  \/ AskKac \/ Finish \/ Raise
  \/ TimePasses \/ QuotaChanges

BackoffSpec == BackoffInit /\ [][BackoffNext]_backoffVars

\* Time passes, the scheduler wakes when it is due, calls end.
Fairness ==
  /\ WF_backoffVars(TimePasses)
  /\ WF_backoffVars(ScheduledRun \/ Skip)
  /\ WF_backoffVars(AskKac)
  /\ WF_backoffVars(Finish \/ Raise)

FairBackoffSpec == BackoffSpec /\ Fairness
-----------------------------------------------------------------------------
\* The end of a block is fixed by the answer that started it: runs made while KAC
\* is blocked do not move it (skipped runs are left out of the check on purpose).
BlockNotExtended ==
  [][RateLimited /\ RateLimited' => latest'.age >= latest.age]_backoffVars

\* The scheduler does not make up for deadlines it has missed, however long a run or the
\* wait for another one took: of three turns the first and the last are an interval
\* apart (main.py:1157).
NoBurst == [][ScheduledRun \/ Skip => starts.before = Interval]_backoffVars

\* A limit stops calls for a short backoff, not for good: KAC is asked again and
\* again (README: retried after a short backoff).
KacRetried == []<>(phase = "kac")
=============================================================================
