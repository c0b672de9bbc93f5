-------------------------- MODULE CollectionProofs --------------------------
(***************************************************************************)
(* Theorems about Collection, for any number of concurrent requests, any   *)
(* lots, sources and times.  IndInv is inductive together with TypeOK; the *)
(* safety properties and the refinement of RunLog follow from it.          *)
(***************************************************************************)
EXTENDS Collection, TLAPS

USE ProcsAssumption, LotsAssumption, TimesAssumption

-----------------------------------------------------------------------------
(* Sequences: what a queue or a log holds after an element joins or leaves. *)

\* An element appended to a sequence is its last one; the others stay.
LEMMA AppendFacts ==
  ASSUME NEW S, NEW s \in Seq(S), NEW e \in S
  PROVE  /\ Append(s, e) \in Seq(S)
         /\ Len(Append(s, e)) = Len(s) + 1
         /\ Append(s, e)[Len(s) + 1] = e
         /\ \A i \in 1..Len(s) : Append(s, e)[i] = s[i]
  OBVIOUS

\* The tail of a sequence holds all of its elements but the first, one place up.
LEMMA TailFacts ==
  ASSUME NEW S, NEW s \in Seq(S), s # <<>>
  PROVE  /\ Tail(s) \in Seq(S)
         /\ Len(Tail(s)) = Len(s) - 1
         /\ Len(s) >= 1
         /\ Head(s) = s[1]
         /\ \A i \in 1..Len(Tail(s)) : Tail(s)[i] = s[i + 1]
  OBVIOUS
-----------------------------------------------------------------------------
(* Types.                                                                  *)

\* The rows a source's answer adds are well-typed.
LEMMA NewRowsType ==
  ASSUME TypeOK, NEW p \in Procs, NEW s \in SourceNames,
         NEW lots \in ReportedLots(s), NEW at \in ReportedAt
  PROVE  NewRows(p, s, lots, at) \in SUBSET Row
<1>1. at \in Nat
  BY DEF ReportedAt, TypeOK
<1>2. CASE s \in ParkingSources
  <2>1. lots \in SUBSET Lots
    BY <1>2 DEF ReportedLots
  <2>2. Len(runs) + 1 \in Nat
    BY DEF TypeOK
  <2>3. QED
    BY <1>1, <1>2, <2>1, <2>2 DEF NewRows, Row, TypeOK
<1>3. CASE s \notin ParkingSources
  BY <1>3 DEF ReportedLots, NewRows
<1>4. QED
  BY <1>2, <1>3

\* A job keeps its type when it is replaced by another one.
LEMMA JobType ==
  ASSUME job \in [Procs -> Job], NEW p \in Procs, NEW j \in Job
  PROVE  [job EXCEPT ![p] = j] \in [Procs -> Job]
  OBVIOUS

\* Returning leaves the caller idle and the deadline a time.
LEMMA ReturnType ==
  ASSUME TypeOK, NEW p \in Procs, Return(p)
  PROVE  /\ pc' \in [Procs -> {"idle", "rate_checked", "queued", "collecting", "refreshing"}]
         /\ deadline' \in Nat
  BY DEF Return, TypeOK

\* The holder of the lock leaves a queue of tasks behind.
LEMMA ReleaseType ==
  ASSUME TypeOK, queue # <<>>, queue' = Tail(queue)
  PROVE  queue' \in Seq(Procs)
  BY TailFacts DEF TypeOK

\* A source that cannot be fetched, or whose error is noted, leaves a job.
LEMMA FailedType ==
  ASSUME NEW j \in Job, NEW s \in SourceNames, NEW error \in {"marker", "other"}
  PROVE  Failed(j, s, error) \in Job
  BY DEF Job, Errors, Failed

\* Every step of a task or request keeps the types.
LEMMA StepType ==
  ASSUME TypeOK, QueueInv, NEW p \in Procs, Step(p)
  PROVE  TypeOK'
<1>1. CASE StoreRateLimitSkip(p)
  <2>1. [start |-> clock, end |-> clock, status |-> "skipped", marked |-> TRUE] \in Run
    BY DEF TypeOK, Run, Statuses
  <2>2. queue # <<>>
    BY <1>1 DEF StoreRateLimitSkip, HoldsLock
  <2>3. Return(p) /\ queue' = Tail(queue)
    BY <1>1 DEF StoreRateLimitSkip
  <2>4. runs' \in Seq(Run)
    BY <1>1, <2>1, AppendFacts DEF StoreRateLimitSkip, TypeOK
  <2>5. UNCHANGED <<enabled, clock, job, snapshots, limitedAt, restarts>>
    BY <1>1 DEF StoreRateLimitSkip
  <2>6. QED
    BY <2>2, <2>3, <2>4, <2>5, ReturnType, ReleaseType DEF TypeOK
<1>2. CASE BeginRun(p)
  <2>1. \A todo \in SUBSET SourceNames, errors \in SUBSET Errors :
          [start |-> clock, todo |-> todo, errors |-> errors,
           raw |-> FALSE, rows |-> {}] \in Job
    BY DEF Job, TypeOK
  <2>2. enabled \subseteq SourceNames
    BY SourcesAssumption DEF TypeOK
  <2>3. job' \in [Procs -> Job]
    BY <1>2, <2>1, <2>2 DEF BeginRun, TypeOK, Errors
  <2>4. QED
    BY <1>2, <2>3 DEF BeginRun, TypeOK, db
<1>3. ASSUME NEW s \in SourceNames, NEW error \in {"marker", "other"}, FetchFails(p, s, error)
      PROVE  TypeOK'
  <2>1. Failed(job[p], s, error) \in Job
    <3>1. job[p] \in Job
      BY DEF TypeOK
    <3>2. QED
      BY ONLY <3>1, FailedType, s \in SourceNames, error \in {"marker", "other"}
  <2>2. job' \in [Procs -> Job]
    BY <1>3, <2>1 DEF FetchFails, TypeOK
  <2>3. job[p].start \in Nat
    BY DEF TypeOK, Job
  <2>4. QED
    BY <1>3, <2>2, <2>3 DEF FetchFails, TypeOK, db
<1>4. ASSUME NEW s \in SourceNames, NEW lots \in ReportedLots(s), NEW at \in ReportedAt,
             FetchSucceeds(p, s, lots, at)
      PROVE  TypeOK'
  <2>1. NewRows(p, s, lots, at) \in SUBSET Row
    BY NewRowsType
  <2>2. Answered(job[p], s, NewRows(p, s, lots, at)) \in Job
    BY <2>1 DEF TypeOK, Job, Answered
  <2>3. job' \in [Procs -> Job]
    BY <1>4, <2>2 DEF FetchSucceeds, TypeOK
  <2>4. QED
    BY <1>4, <2>3 DEF FetchSucceeds, TypeOK, db
<1>5. CASE FinishRun(p)
  <2>1. [start |-> job[p].start, end |-> clock, status |-> FinalStatus(job[p]),
         marked |-> Marked(job[p].errors)] \in Run
    BY DEF TypeOK, Run, Job, Statuses, FinalStatus, Marked
  <2>2. runs' \in Seq(Run)
    BY <1>5, <2>1, AppendFacts DEF FinishRun, TypeOK
  <2>3. snapshots' \in SUBSET Row
    BY <1>5 DEF FinishRun, TypeOK, Job
  <2>4. queue' \in Seq(Procs)
    BY <1>5, ReleaseType DEF FinishRun, QueueInv, HoldsLock
  <2>5. job' \in [Procs -> Job]
    <3>1. NoJob \in Job
      BY DEF NoJob, Job
    <3>2. QED
      BY <1>5, <3>1 DEF FinishRun, TypeOK
  <2>6. /\ pc' \in [Procs -> {"idle", "rate_checked", "queued", "collecting", "refreshing"}]
        /\ deadline' \in Nat
    BY <1>5, ReturnType DEF FinishRun, TypeOK
  <2>7. limitedAt' \in Int
    BY <1>5 DEF FinishRun, TypeOK, Job
  <2>8. QED
    BY <1>5, <2>2, <2>3, <2>4, <2>5, <2>6, <2>7 DEF FinishRun, TypeOK
<1>6. CASE RunRaises(p)
  <2>1. [start |-> job[p].start, end |-> clock, status |-> "failed", marked |-> FALSE] \in Run
    BY DEF TypeOK, Run, Job, Statuses
  <2>2. runs' \in Seq(Run)
    BY <1>6, <2>1, AppendFacts DEF RunRaises, TypeOK
  <2>3. queue' \in Seq(Procs)
    BY <1>6, ReleaseType DEF RunRaises, QueueInv, HoldsLock
  <2>4. job' \in [Procs -> Job]
    <3>1. NoJob \in Job
      BY DEF NoJob, Job
    <3>2. QED
      BY <1>6, <3>1 DEF RunRaises, TypeOK
  <2>5. QED
    BY <1>6, <2>2, <2>3, <2>4, ReturnType DEF RunRaises, TypeOK
<1>7. CASE CacheRefreshed(p)
  BY <1>7, ReturnType DEF CacheRefreshed, TypeOK, db
<1>8. QED
  BY <1>1, <1>2, <1>3, <1>4, <1>5, <1>6, <1>7 DEF Step

\* Every step of the specification keeps the types.
LEMMA NextType ==
  ASSUME TypeOK, QueueInv, [Next]_vars
  PROVE  TypeOK'
<1>1. CASE Tick
  BY <1>1 DEF Tick, TypeOK, db
<1>2. CASE SchedulerWake
  BY <1>2, AppendFacts DEF SchedulerWake, Enqueue, TypeOK, db, Procs
<1>3. ASSUME NEW r \in Requests, ManualRateCheck(r)
      PROVE  TypeOK'
  BY <1>3 DEF ManualRateCheck, TypeOK, db, Procs
<1>4. ASSUME NEW r \in Requests, ManualCooldownCheck(r)
      PROVE  TypeOK'
  <2>1. r \in Procs
    BY DEF Procs
  <2>2. CASE Enqueue(r)
    BY <1>4, <2>1, <2>2, AppendFacts DEF ManualCooldownCheck, Enqueue, TypeOK, db
  <2>3. CASE pc' = [pc EXCEPT ![r] = "idle"] /\ UNCHANGED queue
    BY <1>4, <2>1, <2>3 DEF ManualCooldownCheck, TypeOK, db
  <2>4. QED
    BY <1>4, <2>2, <2>3 DEF ManualCooldownCheck
<1>5. ASSUME NEW p \in Procs, Step(p)
      PROVE  TypeOK'
  BY <1>5, StepType
<1>6. CASE Restart
  <2>1. NoJob \in Job
    BY DEF NoJob, Job
  <2>2. QED
    BY <1>6, <2>1 DEF Restart, TypeOK, db
<1>7. CASE UNCHANGED vars
  BY <1>7 DEF vars, TypeOK, db
<1>8. QED
  BY <1>1, <1>2, <1>3, <1>4, <1>5, <1>6, <1>7 DEF Next

-----------------------------------------------------------------------------
(* The inductive invariant, conjunct by conjunct.                          *)

\* A task that joins the queue is new to it.
LEMMA EnqueueKeepsQueueInv ==
  ASSUME TypeOK, QueueInv, NEW p \in Procs, pc[p] \notin {"queued", "collecting"},
         Enqueue(p)
  PROVE  QueueInv'
<1>1. /\ Len(queue) \in Nat
      /\ Len(queue') = Len(queue) + 1
      /\ queue'[Len(queue) + 1] = p
      /\ \A i \in 1..Len(queue) : queue'[i] = queue[i]
  BY AppendFacts DEF Enqueue, TypeOK
<1>2. \A i \in 1..Len(queue) : queue[i] # p
  BY DEF QueueInv
<1>3. \A i, j \in 1..Len(queue') : queue'[i] = queue'[j] => i = j
  BY <1>1, <1>2 DEF QueueInv
<1>4. ASSUME NEW o \in Procs
      PROVE  pc'[o] \in {"queued", "collecting"} <=> \E i \in 1..Len(queue') : queue'[i] = o
  <2>1. CASE o = p
    BY <1>1, <2>1 DEF Enqueue, TypeOK
  <2>2. CASE o # p
    <3>1. pc'[o] = pc[o]
      BY <2>2 DEF Enqueue, TypeOK
    <3>2. (\E i \in 1..Len(queue') : queue'[i] = o) <=> (\E i \in 1..Len(queue) : queue[i] = o)
      BY <1>1, <2>2
    <3>3. QED
      BY <3>1, <3>2 DEF QueueInv
  <2>3. QED
    BY <2>1, <2>2
<1>5. ASSUME NEW o \in Procs, pc'[o] = "collecting"
      PROVE  HoldsLock(o)'
  <2>1. pc[o] = "collecting"
    BY <1>5 DEF Enqueue, TypeOK
  <2>2. queue # <<>> /\ Head(queue) = o
    BY <2>1 DEF QueueInv, HoldsLock
  <2>3. Len(queue) >= 1 /\ queue[1] = o
    BY <2>2, TailFacts DEF TypeOK
  <2>4. queue' # <<>> /\ queue' \in Seq(Procs)
    BY <1>1, AppendFacts DEF Enqueue, TypeOK
  <2>5. QED
    BY <1>1, <2>3, <2>4, TailFacts DEF HoldsLock
<1>6. QED
  BY <1>3, <1>4, <1>5 DEF QueueInv

\* The holder that leaves takes its place with it; nobody else moves in.
LEMMA ReleaseKeepsQueueInv ==
  ASSUME TypeOK, QueueInv, NEW p \in Procs, HoldsLock(p),
         queue' = Tail(queue),
         pc'[p] \notin {"queued", "collecting"},
         \A o \in Procs \ {p} : pc'[o] = pc[o]
  PROVE  QueueInv'
<1>1. /\ queue \in Seq(Procs) /\ queue # <<>> /\ queue[1] = p
      /\ Len(queue) \in Nat /\ Len(queue) >= 1
      /\ Len(queue') = Len(queue) - 1
      /\ \A i \in 1..Len(queue') : queue'[i] = queue[i + 1]
  BY TailFacts DEF HoldsLock, TypeOK
<1>2. \A i, j \in 1..Len(queue') : queue'[i] = queue'[j] => i = j
  BY <1>1 DEF QueueInv
<1>3. \A i \in 1..Len(queue') : queue'[i] # p
  BY <1>1 DEF QueueInv
<1>4. ASSUME NEW o \in Procs
      PROVE  pc'[o] \in {"queued", "collecting"} <=> \E i \in 1..Len(queue') : queue'[i] = o
  <2>1. CASE o = p
    BY <1>3, <2>1
  <2>2. CASE o # p
    <3>1. (\E i \in 1..Len(queue) : queue[i] = o) => (\E i \in 1..Len(queue') : queue'[i] = o)
      <4>1. ASSUME NEW i \in 1..Len(queue), queue[i] = o
            PROVE  \E k \in 1..Len(queue') : queue'[k] = o
        <5>1. i # 1
          BY <1>1, <2>2, <4>1
        <5>2. i - 1 \in 1..Len(queue') /\ queue'[i - 1] = o
          BY <1>1, <4>1, <5>1
        <5>3. QED
          BY <5>2
      <4>2. QED
        BY <4>1
    <3>2. (\E i \in 1..Len(queue') : queue'[i] = o) => (\E i \in 1..Len(queue) : queue[i] = o)
      BY <1>1
    <3>3. QED
      BY <2>2, <3>1, <3>2 DEF QueueInv
  <2>3. QED
    BY <2>1, <2>2
<1>5. \A o \in Procs : pc'[o] # "collecting"
  BY <1>1 DEF QueueInv, HoldsLock
<1>6. QED
  BY <1>2, <1>4, <1>5 DEF QueueInv

\* Recording a run that has ended keeps the committed tables in order.
LEMMA RecordKeepsDataInv ==
  ASSUME TypeOK, DataInv, NEW run \in Run, NEW rows \in SUBSET Row,
         Record(run, rows), run.end <= clock, UNCHANGED clock
  PROVE  DataInv'
<1>1. /\ Len(runs) \in Nat
      /\ Len(runs') = Len(runs) + 1
      /\ runs'[Len(runs) + 1] = run
      /\ \A i \in 1..Len(runs) : runs'[i] = runs[i] /\ runs[i] \in Run
      /\ snapshots' = snapshots \cup rows
  BY AppendFacts DEF Record, TypeOK
<1>2. run.start \in Nat /\ run.end \in Nat /\ clock \in Nat
  BY DEF Run, TypeOK
<1>3. \A i \in 1..Len(runs) : runs[i].start \in Nat /\ runs[i].end \in Nat
  BY <1>1 DEF Run
<1>4. \A i \in 1..Len(runs') : runs'[i].start <= runs'[i].end /\ runs'[i].end <= clock'
  BY <1>1, <1>2 DEF DataInv, Record, Follows
<1>5. RunsTakeTurns'
  <2>1. SUFFICES ASSUME NEW i \in 1..Len(runs'), NEW j \in 1..Len(runs'), i < j
                 PROVE  runs'[i].end <= runs'[j].start
    BY DEF RunsTakeTurns
  <2>2. i \in 1..Len(runs) /\ runs'[i] = runs[i]
    BY <1>1, <2>1
  <2>3. CASE j \in 1..Len(runs)
    BY <1>1, <2>1, <2>2, <2>3 DEF DataInv, RunsTakeTurns
  <2>4. CASE j = Len(runs) + 1
    BY <1>1, <2>2, <2>4 DEF Record, Follows
  <2>5. QED
    BY <1>1, <2>3, <2>4
<1>6. ObservationsStoredOnce'
  BY <1>1 DEF DataInv, ObservationsStoredOnce, Record, FreshBatch, SameObservation
<1>7. SnapshotsHaveTheirRun'
  <2>1. ASSUME NEW row \in snapshots
        PROVE  /\ row.run \in 1..Len(runs')
               /\ runs'[row.run].status \in Stored
               /\ runs'[row.run].start <= row.collected
               /\ row.collected <= runs'[row.run].end
    BY <1>1 DEF DataInv, SnapshotsHaveTheirRun
  <2>2. ASSUME NEW row \in rows
        PROVE  /\ row.run \in 1..Len(runs')
               /\ runs'[row.run].status \in Stored
               /\ runs'[row.run].start <= row.collected
               /\ row.collected <= runs'[row.run].end
    BY <1>1 DEF Record, FreshBatch
  <2>3. QED
    BY <1>1, <2>1, <2>2 DEF SnapshotsHaveTheirRun
<1>8. QED
  BY <1>4, <1>5, <1>6, <1>7 DEF DataInv

\* A skipped run may be recorded at any time.
LEMMA SkipRecords ==
  ASSUME TypeOK, IndInv, NEW p \in Procs, StoreRateLimitSkip(p)
  PROVE  \E run \in Run : Record(run, {}) /\ run.end = clock
<1> DEFINE run == [start |-> clock, end |-> clock, status |-> "skipped", marked |-> TRUE]
<1>1. run \in Run
  BY DEF Run, Statuses, TypeOK
<1>2. Follows(run)
  BY DEF Follows, IndInv, DataInv, TypeOK
<1>3. Record(run, {})
  BY <1>2 DEF StoreRateLimitSkip, Record, FreshBatch, Statuses
<1>4. QED
  BY <1>1, <1>3

\* A run that has asked all its sources may be recorded with its rows.
LEMMA FinishRecords ==
  ASSUME TypeOK, IndInv, NEW p \in Procs, FinishRun(p)
  PROVE  \E run \in Run : Record(run, job[p].rows) /\ run.end = clock
<1> DEFINE run == [start |-> job[p].start, end |-> clock, status |-> FinalStatus(job[p]),
                   marked |-> Marked(job[p].errors)]
<1>1. run \in Run
  BY DEF Run, Job, Statuses, FinalStatus, TypeOK, Marked
<1>2. pc[p] = "collecting"
  BY DEF FinishRun
<1>3. Follows(run)
  BY <1>2 DEF Follows, IndInv, PendingInv
<1>4. job[p].rows # {} => run.status \in Stored
  BY <1>2 DEF IndInv, PendingInv, FinalStatus, Stored
<1>5. FreshBatch(run, job[p].rows)
  BY <1>2, <1>4 DEF FreshBatch, IndInv, PendingInv
<1>6. run.status \in Statuses
  BY <1>1 DEF Run
<1>7. Record(run, job[p].rows)
  BY <1>3, <1>5, <1>6 DEF FinishRun, Record
<1>8. QED
  BY <1>1, <1>7

\* A run that raised may be recorded without rows.
LEMMA RaiseRecords ==
  ASSUME TypeOK, IndInv, NEW p \in Procs, RunRaises(p)
  PROVE  \E run \in Run : Record(run, {}) /\ run.end = clock
<1> DEFINE run == [start |-> job[p].start, end |-> clock, status |-> "failed",
                   marked |-> FALSE]
<1>1. run \in Run
  BY DEF Run, Job, Statuses, TypeOK
<1>2. pc[p] = "collecting"
  BY DEF RunRaises
<1>3. Follows(run)
  BY <1>2 DEF Follows, IndInv, PendingInv
<1>4. Record(run, {})
  BY <1>3 DEF RunRaises, Record, FreshBatch, Statuses
<1>5. QED
  BY <1>1, <1>4

\* While someone collects, nobody else does.
LEMMA OneCollector ==
  ASSUME QueueInv, NEW p \in Procs, NEW o \in Procs, HoldsLock(p), pc[o] = "collecting"
  PROVE  o = p
  BY DEF QueueInv, HoldsLock

\* The rows an answer adds are new and belong to the pending run.
LEMMA NewRowsAreNew ==
  ASSUME TypeOK, IndInv, NEW p \in Procs, NEW s \in SourceNames,
         NEW lots \in ReportedLots(s), NEW at \in ReportedAt, pc[p] = "collecting",
         NEW a \in NewRows(p, s, lots, at)
  PROVE  /\ a.run = Len(runs) + 1
         /\ a.collected = clock
         /\ \A b \in snapshots \cup job[p].rows : ~SameObservation(a, b)
         /\ \A b \in NewRows(p, s, lots, at) : SameObservation(a, b) => a = b
<1>1. \A b \in NewRows(p, s, lots, at) :
        \E l \in lots : b = [lot |-> l, source |-> s, observed |-> at,
                             collected |-> clock, run |-> Len(runs) + 1]
  BY DEF NewRows
<1>2. a.run = Len(runs) + 1 /\ a.collected = clock
  BY <1>1
<1>3. \A b \in snapshots \cup job[p].rows : ~SameObservation(a, b)
  BY DEF NewRows
<1>4. \A b \in NewRows(p, s, lots, at) : SameObservation(a, b) => a = b
  BY <1>1 DEF SameObservation
<1>5. QED
  BY <1>2, <1>3, <1>4

\* A source's answer leaves the pending run ready to be recorded.
LEMMA FetchKeepsPendingInv ==
  ASSUME TypeOK, IndInv, NEW p \in Procs, NEW s \in SourceNames,
         NEW lots \in ReportedLots(s), NEW at \in ReportedAt,
         FetchSucceeds(p, s, lots, at)
  PROVE  PendingInv'
<1> DEFINE new == NewRows(p, s, lots, at)
<1>1. pc[p] = "collecting" /\ HoldsLock(p)
  BY DEF FetchSucceeds, NextSource, IndInv, QueueInv
<1>2. /\ job'[p].start = job[p].start /\ job'[p].raw = TRUE
      /\ job'[p].rows = job[p].rows \cup new
  BY DEF FetchSucceeds, Answered, TypeOK, Job
<1>3. UNCHANGED <<clock, pc, runs, snapshots>>
  BY DEF FetchSucceeds, db
<1>4. job[p].start <= clock /\ \A i \in 1..Len(runs) : runs[i].end <= job[p].start
  BY <1>1 DEF IndInv, PendingInv
<1>5. ASSUME NEW a \in job[p].rows \cup new
      PROVE  /\ a.run = Len(runs) + 1
             /\ job[p].start <= a.collected /\ a.collected <= clock
             /\ \A b \in snapshots : ~SameObservation(a, b)
             /\ \A b \in job[p].rows \cup new : SameObservation(a, b) => a = b
  <2>1. \A b \in job[p].rows :
          /\ b.run = Len(runs) + 1
          /\ job[p].start <= b.collected /\ b.collected <= clock
          /\ \A c \in snapshots : ~SameObservation(b, c)
          /\ \A c \in job[p].rows : SameObservation(b, c) => b = c
    BY <1>1 DEF IndInv, PendingInv
  <2>2. \A b \in new :
          /\ b.run = Len(runs) + 1
          /\ b.collected = clock
          /\ \A c \in snapshots \cup job[p].rows : ~SameObservation(b, c)
          /\ \A c \in new : SameObservation(b, c) => b = c
    BY <1>1, NewRowsAreNew
  <2>3. CASE a \in job[p].rows
    <3>1. \A b \in new : ~SameObservation(a, b)
      BY <2>2, <2>3 DEF SameObservation
    <3>2. QED
      BY <2>1, <2>3, <3>1
  <2>4. CASE a \in new
    <3>1. clock \in Nat
      BY DEF TypeOK
    <3>2. QED
      BY <1>4, <2>2, <2>4, <3>1
  <2>5. QED
    BY <2>3, <2>4
<1>6. \A o \in Procs : pc'[o] = "collecting" => o = p
  BY <1>1, <1>3, OneCollector DEF IndInv
<1>7. QED
  BY <1>2, <1>3, <1>4, <1>5, <1>6 DEF PendingInv

\* Steps that touch neither the tables nor any job, and let nobody start to
\* collect, keep PendingInv; time may pass.
LEMMA IdleKeepsPendingInv ==
  ASSUME TypeOK, PendingInv, UNCHANGED <<runs, snapshots, job>>,
         clock' \in Nat, clock <= clock',
         \A o \in Procs : pc'[o] = "collecting" => pc[o] = "collecting"
  PROVE  PendingInv'
<1>1. SUFFICES ASSUME NEW o \in Procs, pc[o] = "collecting"
               PROVE  /\ job[o].start <= clock'
                      /\ \A i \in 1..Len(runs) : runs[i].end <= job[o].start
                      /\ job[o].rows # {} => job[o].raw
                      /\ \A a \in job[o].rows :
                           /\ a.run = Len(runs) + 1
                           /\ job[o].start <= a.collected /\ a.collected <= clock'
                           /\ \A b \in snapshots : ~SameObservation(a, b)
                           /\ \A b \in job[o].rows : SameObservation(a, b) => a = b
  BY DEF PendingInv
<1>2. job[o].start \in Nat /\ clock \in Nat
  BY DEF TypeOK, Job
<1>3. \A a \in job[o].rows : a.collected \in Nat
  BY DEF TypeOK, Job, Row
<1>4. QED
  BY <1>1, <1>2, <1>3 DEF PendingInv

\* Steps that let time pass but record nothing keep the tables in order.
LEMMA IdleKeepsDataInv ==
  ASSUME TypeOK, DataInv, UNCHANGED <<runs, snapshots>>, clock' \in Nat, clock <= clock'
  PROVE  DataInv'
<1>1. \A i \in 1..Len(runs) : runs[i].end \in Nat
  <2>1. \A i \in 1..Len(runs) : runs[i] \in Run
    BY DEF TypeOK
  <2>2. QED
    BY <2>1 DEF Run
<1>2. \A i \in 1..Len(runs) : runs[i].start <= runs[i].end /\ runs[i].end <= clock'
  BY <1>1 DEF DataInv, TypeOK
<1>3. QED
  BY <1>2 DEF DataInv, RunsTakeTurns, ObservationsStoredOnce, SnapshotsHaveTheirRun
-----------------------------------------------------------------------------
(* Every step keeps IndInv.                                                *)

\* A turn that ends, whether or not it recorded a run, keeps IndInv.
LEMMA LeaveKeepsIndInv ==
  ASSUME TypeOK, IndInv, NEW p \in Procs, HoldsLock(p),
         NEW run \in Run, NEW rows \in SUBSET Row, Record(run, rows), run.end = clock,
         queue' = Tail(queue),
         pc'[p] \notin {"queued", "collecting"},
         \A o \in Procs \ {p} : pc'[o] = pc[o],
         UNCHANGED clock
  PROVE  IndInv'
<1>1. QueueInv'
  BY ReleaseKeepsQueueInv DEF IndInv
<1>2. \A o \in Procs : pc'[o] # "collecting"
  BY OneCollector DEF IndInv
<1>3. PendingInv'
  BY <1>2 DEF PendingInv
<1>4. run.end <= clock
  BY DEF TypeOK
<1>5. DataInv'
  BY <1>4, RecordKeepsDataInv DEF IndInv
<1>6. QED
  BY <1>1, <1>3, <1>5 DEF IndInv

\* Returning touches the caller's place alone.
LEMMA ReturnFacts ==
  ASSUME TypeOK, NEW p \in Procs, Return(p)
  PROVE  /\ pc'[p] = "idle"
         /\ \A o \in Procs \ {p} : pc'[o] = pc[o]
  BY DEF Return, TypeOK

\* Every step of a task or request keeps IndInv.
LEMMA StepKeepsIndInv ==
  ASSUME TypeOK, IndInv, NEW p \in Procs, Step(p)
  PROVE  IndInv'
<1>1. CASE StoreRateLimitSkip(p)
  <2>1. PICK run \in Run : Record(run, {}) /\ run.end = clock
    BY <1>1, SkipRecords
  <2>2. HoldsLock(p) /\ queue' = Tail(queue) /\ Return(p) /\ UNCHANGED clock
    BY <1>1 DEF StoreRateLimitSkip
  <2>3. QED
    BY <2>1, <2>2, ReturnFacts, LeaveKeepsIndInv
<1>2. CASE BeginRun(p)
  <2>1. QueueInv'
    <3>1. pc[p] = "queued" /\ HoldsLock(p) /\ UNCHANGED queue
      BY <1>2 DEF BeginRun
    <3>2. pc'[p] = "collecting" /\ \A o \in Procs \ {p} : pc'[o] = pc[o]
      BY <1>2 DEF BeginRun, TypeOK
    <3>3. \A o \in Procs : pc'[o] \in {"queued", "collecting"} <=>
                             pc[o] \in {"queued", "collecting"}
      BY <3>1, <3>2
    <3>4. QED
      BY <3>1, <3>2, <3>3 DEF IndInv, QueueInv, HoldsLock
  <2>2. PendingInv'
    <3>1. ASSUME NEW o \in Procs, pc'[o] = "collecting"
          PROVE  o = p
      <4>1. CASE o # p
        <5>1. pc[o] = "collecting" /\ HoldsLock(p)
          BY <1>2, <3>1, <4>1 DEF BeginRun, TypeOK
        <5>2. QED
          BY <5>1, OneCollector DEF IndInv
      <4>2. QED
        BY <4>1
    <3>2. job'[p].start = clock /\ job'[p].rows = {}
      BY <1>2 DEF BeginRun, TypeOK
    <3>3. UNCHANGED <<clock, runs, snapshots>>
      BY <1>2 DEF BeginRun, db
    <3>4. \A i \in 1..Len(runs) : runs[i].end <= clock
      BY DEF IndInv, DataInv
    <3>5. clock <= clock
      BY DEF TypeOK
    <3>6. QED
      BY <3>1, <3>2, <3>3, <3>4, <3>5 DEF PendingInv
  <2>3. DataInv'
    BY <1>2 DEF BeginRun, db, IndInv, DataInv, RunsTakeTurns, ObservationsStoredOnce,
                SnapshotsHaveTheirRun
  <2>4. QED
    BY <2>1, <2>2, <2>3 DEF IndInv
<1>3. ASSUME NEW s \in SourceNames, NEW error \in {"marker", "other"}, FetchFails(p, s, error)
      PROVE  IndInv'
  <2>1. UNCHANGED <<clock, queue, pc, runs, snapshots>>
    BY <1>3 DEF FetchFails, db
  <2>2. \A o \in Procs : /\ job'[o].start = job[o].start
                         /\ job'[o].raw = job[o].raw
                         /\ job'[o].rows = job[o].rows
    BY <1>3 DEF FetchFails, Failed, TypeOK, Job
  <2>3. PendingInv'
    BY <2>1, <2>2 DEF IndInv, PendingInv
  <2>4. QED
    BY <2>1, <2>3 DEF IndInv, QueueInv, HoldsLock, DataInv, RunsTakeTurns,
                      ObservationsStoredOnce, SnapshotsHaveTheirRun
<1>4. ASSUME NEW s \in SourceNames, NEW lots \in ReportedLots(s), NEW at \in ReportedAt,
             FetchSucceeds(p, s, lots, at)
      PROVE  IndInv'
  <2>1. UNCHANGED <<clock, queue, pc, runs, snapshots>>
    BY <1>4 DEF FetchSucceeds, db
  <2>2. PendingInv'
    BY <1>4, FetchKeepsPendingInv
  <2>3. QED
    BY <2>1, <2>2 DEF IndInv, QueueInv, HoldsLock, DataInv, RunsTakeTurns,
                      ObservationsStoredOnce, SnapshotsHaveTheirRun
<1>5. CASE FinishRun(p)
  <2>1. PICK run \in Run : Record(run, job[p].rows) /\ run.end = clock
    BY <1>5, FinishRecords
  <2>2. HoldsLock(p) /\ queue' = Tail(queue) /\ UNCHANGED clock
    BY <1>5 DEF FinishRun, IndInv, QueueInv
  <2>3. /\ pc'[p] \notin {"queued", "collecting"}
        /\ \A o \in Procs \ {p} : pc'[o] = pc[o]
    BY <1>5, ReturnFacts DEF FinishRun, TypeOK
  <2>4. job[p].rows \in SUBSET Row
    BY DEF TypeOK, Job
  <2>5. QED
    BY <2>1, <2>2, <2>3, <2>4, LeaveKeepsIndInv
<1>6. CASE RunRaises(p)
  <2>1. PICK run \in Run : Record(run, {}) /\ run.end = clock
    BY <1>6, RaiseRecords
  <2>2. HoldsLock(p) /\ queue' = Tail(queue) /\ Return(p) /\ UNCHANGED clock
    BY <1>6 DEF RunRaises, IndInv, QueueInv
  <2>3. QED
    BY <2>1, <2>2, ReturnFacts, LeaveKeepsIndInv
<1>7. CASE CacheRefreshed(p)
  <2>1. UNCHANGED <<clock, queue, job, runs, snapshots>> /\ Return(p)
    BY <1>7 DEF CacheRefreshed, db
  <2>2. pc[p] = "refreshing"
    BY <1>7 DEF CacheRefreshed
  <2>3. \A o \in Procs : /\ pc'[o] = "collecting" <=> pc[o] = "collecting"
                         /\ pc'[o] = "queued" <=> pc[o] = "queued"
    BY <2>1, <2>2, ReturnFacts
  <2>4. QueueInv'
    BY <2>1, <2>3 DEF IndInv, QueueInv, HoldsLock
  <2>5. clock' \in Nat /\ clock <= clock'
    BY <2>1 DEF TypeOK
  <2>6. QED
    BY <2>1, <2>3, <2>4, <2>5, IdleKeepsPendingInv, IdleKeepsDataInv DEF IndInv
<1>8. QED
  BY <1>1, <1>2, <1>3, <1>4, <1>5, <1>6, <1>7 DEF Step

\* Every step of the specification keeps IndInv.
LEMMA NextKeepsIndInv ==
  ASSUME TypeOK, IndInv, [Next]_vars
  PROVE  IndInv'
<1> clock \in Nat /\ clock <= clock
  BY DEF TypeOK
<1>1. CASE Tick
  <2>1. UNCHANGED <<queue, pc, job, runs, snapshots>> /\ clock' \in Nat /\ clock <= clock'
    BY <1>1 DEF Tick, db
  <2>2. QueueInv'
    BY <2>1 DEF IndInv, QueueInv, HoldsLock
  <2>3. QED
    BY <2>1, <2>2, IdleKeepsPendingInv, IdleKeepsDataInv DEF IndInv
<1>2. CASE SchedulerWake
  <2>1. UNCHANGED <<clock, job, runs, snapshots>> /\ Enqueue(Scheduler)
    BY <1>2 DEF SchedulerWake, db
  <2>2. Scheduler \in Procs /\ pc[Scheduler] \notin {"queued", "collecting"}
    BY <1>2 DEF SchedulerWake, Procs
  <2>3. \A o \in Procs : pc'[o] = "collecting" => pc[o] = "collecting"
    BY <2>1, <2>2 DEF Enqueue, TypeOK
  <2>4. QueueInv'
    BY <2>1, <2>2, EnqueueKeepsQueueInv DEF IndInv
  <2>5. QED
    BY <2>1, <2>3, <2>4, IdleKeepsPendingInv, IdleKeepsDataInv DEF IndInv
<1>3. ASSUME NEW r \in Requests, ManualRateCheck(r)
      PROVE  IndInv'
  <2>1. UNCHANGED <<clock, queue, job, runs, snapshots>>
    BY <1>3 DEF ManualRateCheck, db
  <2>2. r \in Procs
    BY DEF Procs
  <2>3. \A o \in Procs : /\ pc'[o] = "collecting" <=> pc[o] = "collecting"
                         /\ pc'[o] = "queued" <=> pc[o] = "queued"
    BY <1>3, <2>2 DEF ManualRateCheck, TypeOK
  <2>4. QueueInv'
    BY <2>1, <2>3 DEF IndInv, QueueInv, HoldsLock
  <2>5. QED
    BY <2>1, <2>3, <2>4, IdleKeepsPendingInv, IdleKeepsDataInv DEF IndInv
<1>4. ASSUME NEW r \in Requests, ManualCooldownCheck(r)
      PROVE  IndInv'
  <2>1. UNCHANGED <<clock, job, runs, snapshots>>
    BY <1>4 DEF ManualCooldownCheck, db
  <2>2. r \in Procs /\ pc[r] = "rate_checked"
    BY <1>4 DEF ManualCooldownCheck, Procs
  <2>3. CASE Enqueue(r)
    <3>1. \A o \in Procs : pc'[o] = "collecting" => pc[o] = "collecting"
      BY <2>2, <2>3 DEF Enqueue, TypeOK
    <3>2. QueueInv'
      BY <2>2, <2>3, EnqueueKeepsQueueInv DEF IndInv
    <3>3. QED
      BY <2>1, <3>1, <3>2, IdleKeepsPendingInv, IdleKeepsDataInv DEF IndInv
  <2>4. CASE pc' = [pc EXCEPT ![r] = "idle"] /\ UNCHANGED queue
    <3>1. \A o \in Procs : /\ pc'[o] = "collecting" <=> pc[o] = "collecting"
                           /\ pc'[o] = "queued" <=> pc[o] = "queued"
      BY <2>2, <2>4 DEF TypeOK
    <3>2. QueueInv'
      BY <2>4, <3>1 DEF IndInv, QueueInv, HoldsLock
    <3>3. QED
      BY <2>1, <3>1, <3>2, IdleKeepsPendingInv, IdleKeepsDataInv DEF IndInv
  <2>5. QED
    BY <1>4, <2>3, <2>4 DEF ManualCooldownCheck
<1>5. ASSUME NEW p \in Procs, Step(p)
      PROVE  IndInv'
  BY <1>5, StepKeepsIndInv
<1>6. CASE Restart
  <2>1. /\ UNCHANGED <<clock, runs, snapshots>>
        /\ queue' = <<>> /\ \A o \in Procs : pc'[o] = "idle"
    BY <1>6 DEF Restart, db
  <2>2. QueueInv' /\ PendingInv'
    BY <2>1 DEF QueueInv, PendingInv
  <2>3. QED
    BY <2>1, <2>2, IdleKeepsDataInv DEF IndInv
<1>7. CASE UNCHANGED vars
  <2>1. UNCHANGED <<clock, queue, pc, job, runs, snapshots>>
    BY <1>7 DEF vars, db
  <2>2. QueueInv'
    BY <2>1 DEF IndInv, QueueInv, HoldsLock
  <2>3. QED
    BY <2>1, <2>2, IdleKeepsPendingInv, IdleKeepsDataInv DEF IndInv
<1>8. QED
  BY <1>1, <1>2, <1>3, <1>4, <1>5, <1>6, <1>7 DEF Next
-----------------------------------------------------------------------------
(* The theorems.                                                           *)

\* Initially there is nothing to be wrong.
LEMMA InitEstablishes == Init => TypeOK /\ IndInv
<1> SUFFICES ASSUME Init PROVE TypeOK /\ IndInv
  OBVIOUS
<1>1. NoJob \in Job
  BY DEF NoJob, Job
<1>2. TypeOK
  BY <1>1 DEF Init, LogInit, TypeOK
<1>3. QueueInv
  BY DEF Init, QueueInv
<1>4. PendingInv
  BY DEF Init, PendingInv
<1>5. DataInv
  BY DEF Init, LogInit, DataInv, RunsTakeTurns, ObservationsStoredOnce, SnapshotsHaveTheirRun
<1>6. QED
  BY <1>2, <1>3, <1>4, <1>5 DEF IndInv

\* Every reachable state is well-typed and satisfies the inductive invariant.
THEOREM Invariance == Spec => [](TypeOK /\ IndInv)
<1>1. TypeOK /\ IndInv /\ [Next]_vars => (TypeOK /\ IndInv)'
  BY NextType, NextKeepsIndInv DEF IndInv
<1>2. QED
  BY <1>1, InitEstablishes, PTL DEF Spec

\* Every reachable state is well-typed.
THEOREM TypeCorrect == Spec => []TypeOK
  BY Invariance, PTL

\* Collections take turns, whatever the interleaving and however often the
\* process restarts.
THEOREM CollectionsTakeTurns == Spec => []RunsTakeTurns
<1>1. TypeOK /\ IndInv => RunsTakeTurns
  BY DEF IndInv, DataInv
<1>2. QED
  BY <1>1, Invariance, PTL

\* The collector never stores an observation twice, so that it never trips the
\* unique constraint on (lot, observed_at, source).
THEOREM StoredOnce == Spec => []ObservationsStoredOnce
<1>1. TypeOK /\ IndInv => ObservationsStoredOnce
  BY DEF IndInv, DataInv
<1>2. QED
  BY <1>1, Invariance, PTL

\* Every stored snapshot belongs to a committed run that reports having stored
\* data, and was taken while that run ran.
THEOREM RowsHaveTheirRun == Spec => []SnapshotsHaveTheirRun
<1>1. TypeOK /\ IndInv => SnapshotsHaveTheirRun
  BY DEF IndInv, DataInv
<1>2. QED
  BY <1>1, Invariance, PTL

\* A recorded run and its rows can be read off the tables: recording is a step
\* of the abstract log.
LEMMA RecordIsLogNext ==
  ASSUME TypeOK, NEW run \in Run, NEW rows \in SUBSET Row, Record(run, rows)
  PROVE  LogNext
<1>1. Len(runs') = Len(runs) + 1 /\ runs'[Len(runs) + 1] = run
  BY AppendFacts DEF Record, TypeOK
<1>2. \A a \in rows : a \notin snapshots
  BY DEF Record, FreshBatch, SameObservation
<1>3. snapshots' \ snapshots = rows
  BY <1>2 DEF Record
<1>4. QED
  BY <1>1, <1>3 DEF LogNext

\* A step of the collector is a step of the log or leaves the tables alone.
LEMMA NextImplementsLogNext ==
  ASSUME TypeOK, IndInv, [Next]_vars
  PROVE  [LogNext]_logVars
<1>1. ASSUME NEW p \in Procs, Step(p)
      PROVE  [LogNext]_logVars
  <2>1. CASE StoreRateLimitSkip(p)
    BY <2>1, SkipRecords, RecordIsLogNext
  <2>2. CASE FinishRun(p)
    <3>1. job[p].rows \in SUBSET Row
      BY DEF TypeOK, Job
    <3>2. QED
      BY <2>2, <3>1, FinishRecords, RecordIsLogNext
  <2>3. CASE RunRaises(p)
    BY <2>3, RaiseRecords, RecordIsLogNext
  <2>4. CASE UNCHANGED <<runs, snapshots>>
    BY <2>4 DEF logVars
  <2>5. QED
    BY <1>1, <2>1, <2>2, <2>3, <2>4
       DEF Step, BeginRun, FetchFails, FetchSucceeds, CacheRefreshed, db
<1>2. CASE Next /\ ~\E p \in Procs : Step(p)
  BY <1>2 DEF Next, Tick, SchedulerWake, ManualRateCheck, ManualCooldownCheck, Restart,
              db, logVars
<1>3. CASE UNCHANGED vars
  BY <1>3 DEF vars, db, logVars
<1>4. QED
  BY <1>1, <1>2, <1>3

\* The collector implements RunLog: others see the tables change by whole runs.
THEOREM Refinement == Spec => ImplementsRunLog
<1>1. Init => LogInit
  BY DEF Init
<1>2. TypeOK /\ IndInv /\ [Next]_vars => [LogNext]_logVars
  BY NextImplementsLogNext
<1>3. QED
  BY <1>1, <1>2, Invariance, PTL DEF Spec, ImplementsRunLog, LogSpec
-----------------------------------------------------------------------------
(* The backoff after a rate limit.                                         *)

\* What the collector remembers of the last limit: while its backoff lasts, the
\* latest run that was not skipped carries the marker and started no earlier.
LimitKnown ==
  clock < limitedAt + Backoff =>
    \E i \in 1..Len(runs) :
      LatestAttempt(i) /\ runs[i].marked /\ limitedAt <= runs[i].start

\* The run being made began after that backoff, or has noted the limit and leaves
\* KAC alone, so that its own row carries the marker on.
LimitHeeded ==
  \A p \in Procs : pc[p] = "collecting" =>
    \/ limitedAt + Backoff <= job[p].start
    \/ /\ "blocked" \in job[p].errors
       /\ "kac_parking" \notin job[p].todo
       /\ limitedAt <= job[p].start

LimitInv == limitedAt <= clock /\ LimitKnown /\ LimitHeeded

\* A skipped run is not the latest attempt, and leaves the one there is.
LEMMA SkippedIsNoAttempt ==
  ASSUME TypeOK, NEW run \in Run, run.status = "skipped", runs' = Append(runs, run),
         NEW i \in 1..Len(runs), LatestAttempt(i)
  PROVE  LatestAttempt(i)' /\ runs'[i] = runs[i] /\ i \in 1..Len(runs')
<1>1. /\ Len(runs) \in Nat /\ Len(runs') = Len(runs) + 1
      /\ runs'[Len(runs) + 1] = run
      /\ \A j \in 1..Len(runs) : runs'[j] = runs[j]
  BY AppendFacts DEF TypeOK
<1>2. \A j \in 1..Len(runs') : j \in 1..Len(runs) \/ j = Len(runs) + 1
  BY <1>1
<1>3. QED
  BY <1>1, <1>2 DEF LatestAttempt

\* Any other run that is recorded is the latest attempt from then on.
LEMMA RecordedIsLatest ==
  ASSUME TypeOK, IndInv, NEW run \in Run, run.status # "skipped", Follows(run),
         runs' = Append(runs, run), NEW n \in Nat, n = Len(runs) + 1
  PROVE  n \in 1..Len(runs') /\ LatestAttempt(n)' /\ runs'[n] = run
<1>1. /\ Len(runs) \in Nat /\ Len(runs') = Len(runs) + 1
      /\ runs'[Len(runs) + 1] = run
      /\ \A j \in 1..Len(runs) : runs'[j] = runs[j] /\ runs[j] \in Run
  BY AppendFacts DEF TypeOK
<1>2. run.start \in Nat
  BY DEF Run
<1>3. ASSUME NEW j \in 1..Len(runs)
      PROVE  runs[j].start <= run.start
  <2>1. runs[j].start \in Nat /\ runs[j].end \in Nat
    BY <1>1 DEF Run
  <2>2. runs[j].start <= runs[j].end /\ runs[j].end <= run.start
    BY DEF IndInv, DataInv, Follows
  <2>3. QED
    BY <1>2, <2>1, <2>2
<1>4. \A j \in 1..Len(runs') :
        runs'[j].start < run.start \/ (runs'[j].start = run.start /\ j <= Len(runs) + 1)
  <2>1. SUFFICES ASSUME NEW j \in 1..Len(runs')
                 PROVE  runs'[j].start < run.start
                          \/ (runs'[j].start = run.start /\ j <= Len(runs) + 1)
    OBVIOUS
  <2>2. CASE j = Len(runs) + 1
    BY <1>1, <2>2
  <2>3. CASE j \in 1..Len(runs)
    <3>1. runs'[j].start \in Nat /\ runs'[j].start <= run.start
      BY <1>1, <1>3, <2>3 DEF Run
    <3>2. QED
      BY <1>1, <1>2, <2>3, <3>1
  <2>4. QED
    BY <1>1, <2>2, <2>3
<1>5. n \in 1..Len(runs') /\ runs'[n] = run
  BY <1>1
<1>6. QED
  BY <1>4, <1>5 DEF LatestAttempt

\* Before its backoff is over a limit that is known keeps a run from KAC.
LEMMA KnownLimits ==
  ASSUME TypeOK, LimitKnown, clock < limitedAt + Backoff
  PROVE  RateLimited
<1>1. PICK i \in 1..Len(runs) :
        LatestAttempt(i) /\ runs[i].marked /\ limitedAt <= runs[i].start
  BY DEF LimitKnown
<1>2. runs[i].start \in Nat /\ clock \in Nat /\ limitedAt \in Int /\ Backoff \in Nat
  <2>1. runs[i] \in Run
    BY DEF TypeOK
  <2>2. QED
    BY <2>1 DEF TypeOK, Run
<1>3. clock < runs[i].start + Backoff
  BY <1>1, <1>2
<1>4. QED
  BY <1>1, <1>3 DEF RateLimited

\* What no step but the recording of a run touches.
LEMMA UnrecordedKeepsLimitInv ==
  ASSUME TypeOK, LimitInv, UNCHANGED <<runs, limitedAt>>,
         clock' = clock \/ clock' = clock + 1, LimitHeeded'
  PROVE  LimitInv'
<1>1. clock \in Nat /\ limitedAt \in Int /\ Backoff \in Nat
  BY DEF TypeOK
<1>2. limitedAt' <= clock'
  BY <1>1 DEF LimitInv
<1>3. \A i \in 1..Len(runs) : LatestAttempt(i)' <=> LatestAttempt(i)
  BY DEF LatestAttempt
<1>4. LimitKnown'
  BY <1>1, <1>3 DEF LimitInv, LimitKnown
<1>5. QED
  BY <1>2, <1>4 DEF LimitInv

\* Whoever leaves the lock leaves nobody collecting.
LEMMA LeavingIsQuiet ==
  ASSUME TypeOK, QueueInv, NEW p \in Procs, HoldsLock(p),
         pc'[p] # "collecting", \A o \in Procs \ {p} : pc'[o] = pc[o]
  PROVE  LimitHeeded'
  BY OneCollector DEF LimitHeeded

\* A run begins with the limit noted, or after its backoff.
LEMMA BeginKeepsLimitInv ==
  ASSUME TypeOK, IndInv, LimitInv, NEW p \in Procs, BeginRun(p)
  PROVE  LimitInv'
<1>1. /\ pc' = [pc EXCEPT ![p] = "collecting"]
      /\ HoldsLock(p) /\ UNCHANGED <<clock, runs, limitedAt>>
  BY DEF BeginRun, db
<1>2. /\ job'[p].start = clock
      /\ job'[p].todo = IF RateLimited THEN enabled \ KacSources ELSE enabled
      /\ job'[p].errors = IF RateLimited THEN {"blocked"} ELSE {}
  BY DEF BeginRun, TypeOK
<1>3. clock \in Nat /\ limitedAt \in Int /\ Backoff \in Nat /\ limitedAt <= clock
  BY DEF TypeOK, LimitInv
<1>4. \/ limitedAt + Backoff <= clock
      \/ "blocked" \in job'[p].errors /\ "kac_parking" \notin job'[p].todo
  <2>1. CASE RateLimited
    BY <1>2, <2>1 DEF KacSources
  <2>2. CASE ~RateLimited
    BY <1>3, <2>2, KnownLimits DEF LimitInv
  <2>3. QED
    BY <2>1, <2>2
<1>5. \A o \in Procs : pc'[o] = "collecting" => o = p
  BY <1>1, OneCollector DEF IndInv, TypeOK
<1>6. LimitHeeded'
  BY <1>1, <1>2, <1>3, <1>4, <1>5 DEF LimitHeeded
<1>7. QED
  BY <1>1, <1>6, UnrecordedKeepsLimitInv

\* An answer leaves the start of the run and what it noted, and asks nobody twice.
LEMMA FetchKeepsLimitInv ==
  ASSUME TypeOK, LimitInv, NEW p \in Procs, NEW j \in Job, job' = [job EXCEPT ![p] = j],
         j.start = job[p].start, j.todo \subseteq job[p].todo,
         job[p].errors \subseteq j.errors,
         UNCHANGED <<clock, pc, runs, limitedAt>>
  PROVE  LimitInv'
<1>1. job'[p] = j /\ \A o \in Procs \ {p} : job'[o] = job[o]
  BY DEF TypeOK
<1>2. LimitHeeded'
  BY <1>1 DEF LimitInv, LimitHeeded
<1>3. QED
  BY <1>2, UnrecordedKeepsLimitInv

\* The row of a run that is committed tells of a limit it met, and of one it heeded.
LEMMA FinishKeepsLimitInv ==
  ASSUME TypeOK, IndInv, LimitInv, NEW p \in Procs, FinishRun(p)
  PROVE  LimitInv'
<1> DEFINE run == [start |-> job[p].start, end |-> clock, status |-> FinalStatus(job[p]),
                   marked |-> Marked(job[p].errors)]
<1>1. /\ pc[p] = "collecting" /\ runs' = Append(runs, run) /\ clock' = clock
      /\ limitedAt' = IF "marker" \in job[p].errors THEN job[p].start ELSE limitedAt
  BY DEF FinishRun
<1>2. run \in Run /\ run.status # "skipped"
  BY DEF Run, Job, Statuses, FinalStatus, TypeOK, Marked
<1>3. Follows(run) /\ job[p].start <= clock
  BY <1>1 DEF Follows, IndInv, PendingInv
<1>4. PICK n \in Nat : n \in 1..Len(runs') /\ LatestAttempt(n)' /\ runs'[n] = run
  <2>1. PICK n \in Nat : n = Len(runs) + 1
    BY DEF TypeOK
  <2>2. QED
    BY <1>1, <1>2, <1>3, <2>1, RecordedIsLatest
<1>5. /\ clock \in Nat /\ limitedAt \in Int /\ Backoff \in Nat /\ job[p].start \in Nat
      /\ limitedAt <= clock
  BY DEF TypeOK, Job, LimitInv
<1>6. clock' < limitedAt' + Backoff => run.marked /\ limitedAt' <= run.start
  <2>1. CASE "marker" \in job[p].errors
    <3>1. Marked(job[p].errors)
      BY <2>1 DEF Marked
    <3>2. limitedAt' <= run.start
      BY <1>1, <1>5, <2>1
    <3>3. QED
      BY <3>1, <3>2
  <2>2. CASE "marker" \notin job[p].errors
    <3>1. CASE limitedAt + Backoff <= job[p].start
      BY <1>1, <1>3, <1>5, <2>2, <3>1
    <3>2. CASE "blocked" \in job[p].errors /\ limitedAt <= job[p].start
      <4>1. Marked(job[p].errors)
        BY <3>2 DEF Marked
      <4>2. limitedAt' <= run.start
        BY <1>1, <2>2, <3>2
      <4>3. QED
        BY <4>1, <4>2
    <3>3. QED
      BY <1>1, <3>1, <3>2 DEF LimitInv, LimitHeeded
  <2>3. QED
    BY <2>1, <2>2
<1>7. LimitKnown'
  BY <1>4, <1>6 DEF LimitKnown
<1>8. pc'[p] # "collecting" /\ \A o \in Procs \ {p} : pc'[o] = pc[o]
  BY ReturnFacts DEF FinishRun, TypeOK
<1>9. LimitHeeded'
  BY <1>1, <1>8, LeavingIsQuiet DEF IndInv, QueueInv
<1>10. limitedAt' <= clock'
  BY <1>1, <1>3, <1>5
<1>11. QED
  BY <1>7, <1>9, <1>10 DEF LimitInv

\* One step of a process, whichever part of its run it is in.
LEMMA StepKeepsLimitInv ==
  ASSUME TypeOK, IndInv, LimitInv, NEW p \in Procs, Step(p)
  PROVE  LimitInv'
<1>1. CASE StoreRateLimitSkip(p)
  <2> DEFINE run == [start |-> clock, end |-> clock, status |-> "skipped", marked |-> TRUE]
  <2>1. runs' = Append(runs, run) /\ UNCHANGED <<clock, limitedAt>>
    BY <1>1 DEF StoreRateLimitSkip
  <2>2. run \in Run /\ run.status = "skipped"
    BY DEF Run, Statuses, TypeOK
  <2>3. LimitKnown'
    BY <2>1, <2>2, SkippedIsNoAttempt DEF LimitInv, LimitKnown
  <2>4. pc'[p] # "collecting" /\ \A o \in Procs \ {p} : pc'[o] = pc[o]
    BY <1>1, ReturnFacts DEF StoreRateLimitSkip
  <2>5. LimitHeeded'
    BY <1>1, <2>4, LeavingIsQuiet DEF StoreRateLimitSkip, IndInv
  <2>6. QED
    BY <2>1, <2>3, <2>5 DEF LimitInv
<1>2. CASE BeginRun(p)
  BY <1>2, BeginKeepsLimitInv
<1>3. ASSUME NEW s \in SourceNames, NEW error \in {"marker", "other"}, FetchFails(p, s, error)
      PROVE  LimitInv'
  <2> DEFINE j == Failed(job[p], s, error)
  <2>1. j \in Job
    <3>1. job[p] \in Job
      BY DEF TypeOK
    <3>2. QED
      BY ONLY <3>1, FailedType, s \in SourceNames, error \in {"marker", "other"}
  <2>2. /\ j.start = job[p].start /\ j.todo \subseteq job[p].todo
        /\ job[p].errors \subseteq j.errors
    BY DEF TypeOK, Job, Failed
  <2>3. QED
    BY <1>3, <2>1, <2>2, FetchKeepsLimitInv DEF FetchFails, db
<1>4. ASSUME NEW s \in SourceNames, NEW lots \in ReportedLots(s), NEW at \in ReportedAt,
             FetchSucceeds(p, s, lots, at)
      PROVE  LimitInv'
  <2> DEFINE j == Answered(job[p], s, NewRows(p, s, lots, at))
  <2>1. j \in Job
    BY NewRowsType DEF TypeOK, Job, Answered
  <2>2. /\ j.start = job[p].start /\ j.todo \subseteq job[p].todo
        /\ job[p].errors \subseteq j.errors
    BY DEF TypeOK, Job, Answered
  <2>3. QED
    BY <1>4, <2>1, <2>2, FetchKeepsLimitInv DEF FetchSucceeds, db
<1>5. CASE FinishRun(p)
  BY <1>5, FinishKeepsLimitInv
<1>6. CASE RunRaises(p)
  <2>1. pc[p] = "collecting" /\ limitedAt' = 0 - Backoff /\ clock' = clock
    BY <1>6 DEF RunRaises
  <2>2. clock \in Nat /\ Backoff \in Nat
    BY DEF TypeOK
  <2>3. limitedAt' <= clock' /\ ~(clock' < limitedAt' + Backoff)
    BY <2>1, <2>2
  <2>4. pc'[p] # "collecting" /\ \A o \in Procs \ {p} : pc'[o] = pc[o]
    BY <1>6, ReturnFacts DEF RunRaises
  <2>5. LimitHeeded'
    BY <2>1, <2>4, LeavingIsQuiet DEF IndInv, QueueInv
  <2>6. QED
    BY <2>3, <2>5 DEF LimitInv, LimitKnown
<1>7. CASE CacheRefreshed(p)
  <2>1. pc'[p] # "collecting" /\ \A o \in Procs \ {p} : pc'[o] = pc[o]
    BY <1>7, ReturnFacts DEF CacheRefreshed
  <2>2. UNCHANGED <<job, runs, limitedAt, clock>>
    BY <1>7 DEF CacheRefreshed, db
  <2>3. LimitHeeded'
    BY <2>1, <2>2 DEF LimitInv, LimitHeeded
  <2>4. QED
    BY <2>2, <2>3, UnrecordedKeepsLimitInv
<1>8. QED
  BY <1>1, <1>2, <1>3, <1>4, <1>5, <1>6, <1>7 DEF Step

\* Every step of the system: those above, the clock, a restart and an arrival.
LEMMA NextKeepsLimitInv ==
  ASSUME TypeOK, IndInv, LimitInv, [Next]_vars
  PROVE  LimitInv'
<1>1. CASE \E p \in Procs : Step(p)
  BY <1>1, StepKeepsLimitInv
<1>2. CASE UNCHANGED vars \/ (Next /\ ~\E p \in Procs : Step(p))
  <2>1. /\ UNCHANGED <<runs, limitedAt>> /\ (clock' = clock \/ clock' = clock + 1)
        /\ \A p \in Procs : pc'[p] = "collecting" => pc[p] = "collecting" /\ job'[p] = job[p]
    <3>1. CASE UNCHANGED vars
      BY <3>1 DEF vars, db
    <3>2. CASE Tick
      BY <3>2 DEF Tick, db
    <3>3. CASE SchedulerWake
      BY <3>3 DEF SchedulerWake, Enqueue, db, TypeOK
    <3>4. CASE Restart
      BY <3>4 DEF Restart, db
    <3>5. ASSUME NEW r \in Requests, ManualRateCheck(r) \/ ManualCooldownCheck(r)
          PROVE  /\ UNCHANGED <<runs, limitedAt, clock>>
                 /\ \A p \in Procs : pc'[p] = "collecting" =>
                      pc[p] = "collecting" /\ job'[p] = job[p]
      BY <3>5 DEF ManualRateCheck, ManualCooldownCheck, Enqueue, db, TypeOK
    <3>6. QED
      BY <1>2, <3>1, <3>2, <3>3, <3>4, <3>5 DEF Next
  <2>2. LimitHeeded'
    BY <2>1 DEF LimitInv, LimitHeeded
  <2>3. QED
    BY <2>1, <2>2, UnrecordedKeepsLimitInv
<1>3. QED
  BY <1>1, <1>2

\* KAC parking is not called again before the backoff of its last recorded limit is
\* over, whatever else is collected, however requests interleave with the scheduler
\* and however often the process restarts, unless a run has raised since.
THEOREM BackoffKept == Spec => []BackoffHonoured
<1>1. Init => LimitInv
  BY DEF Init, LimitInv, LimitKnown, LimitHeeded
<1>2. (TypeOK /\ IndInv) /\ LimitInv /\ [Next]_vars => LimitInv'
  BY NextKeepsLimitInv
<1>3. LimitInv => BackoffHonoured
  BY DEF LimitInv, LimitHeeded, BackoffHonoured, NextSource
<1>4. QED
  BY <1>1, <1>2, <1>3, Invariance, PTL DEF Spec
=============================================================================
