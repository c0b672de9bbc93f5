------------------------------- MODULE RunLog -------------------------------
(***************************************************************************)
(* What the collector promises to the rest of the program about the two    *)
(* tables it writes, collection_runs and parking_snapshots.  Every         *)
(* collection shows up in one step: its row in collection_runs together    *)
(* with every snapshot it stored.  Collections do not overlap in time, an  *)
(* observation is stored once, and a run that failed or was skipped        *)
(* stores nothing.  How the collector keeps that promise is in Collection. *)
(***************************************************************************)
EXTENDS Integers, Sequences

VARIABLES
  runs,         \* collection_runs, in id order
  snapshots     \* parking_snapshots

logVars == <<runs, snapshots>>

Statuses == {"success", "partial_success", "failed", "skipped"}
Stored == {"success", "partial_success"}  \* statuses of runs that may hold data

\* The columns of uq_parking_snapshot.
SameObservation(a, b) ==
  a.lot = b.lot /\ a.observed = b.observed /\ a.source = b.source

LogInit == runs = <<>> /\ snapshots = {}

\* A run starts after every earlier one has ended.
Follows(run) ==
  /\ run.start <= run.end
  /\ \A i \in 1..Len(runs) : runs[i].end <= run.start

\* The rows are those of the run being recorded, taken while it ran, and none
\* repeats an observation already stored or another of the batch.
FreshBatch(run, rows) ==
  /\ rows # {} => run.status \in Stored
  /\ \A a \in rows :
       /\ a.run = Len(runs) + 1
       /\ run.start <= a.collected /\ a.collected <= run.end
       /\ \A b \in snapshots : ~SameObservation(a, b)
       /\ \A b \in rows : SameObservation(a, b) => a = b

Record(run, rows) ==
  /\ run.status \in Statuses
  /\ Follows(run)
  /\ FreshBatch(run, rows)
  /\ runs' = Append(runs, run)
  /\ snapshots' = snapshots \cup rows

\* The recorded run and its rows can be read off the two tables.
LogNext ==
  /\ Len(runs') = Len(runs) + 1
  /\ Record(runs'[Len(runs) + 1], snapshots' \ snapshots)

LogSpec == LogInit /\ [][LogNext]_logVars
=============================================================================
