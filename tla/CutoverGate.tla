----------------------------- MODULE CutoverGate -----------------------------
(***************************************************************************)
(* The gate that lets the new server take over from the old one            *)
(* (scripts/verify_cutover.py and scripts/observe_cutover.py) and what it  *)
(* asks of GET /admin/collector-status.                                    *)
(*                                                                         *)
(* `source` and `target` are what one verification learns of the two       *)
(* servers: functions from the positions in their lists of lots to         *)
(* [airport, id, legacy, answered, latest, at], `latest` being the newest  *)
(* observation the lot's history shows and `at` the second at which the    *)
(* answer arrived.  A legacy id and a lot's own number have one type, as   *)
(* str() makes them.  The wording of failures is left out: a verification  *)
(* passes if none is noted.                                                *)
(***************************************************************************)
EXTENDS Integers, Sequences, FiniteSets, SequencesExt

NoId == "no id"
Never == "never"

StrictMaxAge == 300
StrictMaxSourceLag == 300
StrictMaxRunGap == 300
StrictSampleCount == 7
StrictSampleInterval == 50
-----------------------------------------------------------------------------
(* GET /admin/collector-status.                                            *)

\* The newest `limit` runs, by when they were started and then by number.
RecentRuns(runs, limit) ==
  LET newest == SetToSortSeq(runs, LAMBDA r, s :
                               r.started > s.started \/ (r.started = s.started /\ r.id > s.id))
  IN SubSeq(newest, 1, IF Len(newest) < limit THEN Len(newest) ELSE limit)

\* max(observed_at) over all rows.
LatestObserved(rows) ==
  IF rows = {} THEN Never ELSE LET r == CHOOSE r \in rows : \A s \in rows : s.at <= r.at IN r.at

CollectorStatus(settings, runs, rows) ==
  [scheduler |-> settings.scheduler, interval |-> settings.interval,
   effective |-> settings.effective, buffer |-> settings.buffer,
   latest |-> LatestObserved(rows), runs |-> RecentRuns(runs, 5)]
-----------------------------------------------------------------------------
(* verify: one look at both servers.                                       *)

\* The old server has no legacy ids: its own numbers are what the new one keeps.
Key(lot) == <<lot.airport, IF lot.legacy = NoId THEN lot.id ELSE lot.legacy>>

Candidates(target, key) == {t \in DOMAIN target : Key(target[t]) = key}

Identified(source, target) ==
  /\ \A t \in DOMAIN target :
       /\ target[t].legacy # NoId
       /\ \E s \in DOMAIN source : Key(source[s]) = Key(target[t])
  /\ \A s \in DOMAIN source :
       /\ \A r \in DOMAIN source : Key(source[r]) = Key(source[s]) => r = s
       /\ Cardinality(Candidates(target, Key(source[s]))) = 1

Fresh(latest, at) == latest <= at /\ at - latest <= StrictMaxAge

\* The allowlist is for lots that are empty on both sides.
CaughtUp(s, t, allowed) ==
  /\ s.answered /\ t.answered
  /\ \/ s.latest = Never /\ t.latest = Never /\ Key(s) \in allowed
     \/ /\ s.latest # Never /\ t.latest # Never
        /\ s.latest <= s.at
        /\ s.latest - t.latest <= StrictMaxSourceLag
        /\ Fresh(t.latest, t.at)

\* A run counts for the gap as soon as it has succeeded, and they all must have.
Collecting(status, at) ==
  /\ status.latest # Never /\ Fresh(status.latest, at)
  /\ status.scheduler
  /\ status.interval = 300 /\ status.effective = 180 /\ status.buffer = 120
  /\ status.runs # <<>>
  /\ \A i \in DOMAIN status.runs : status.runs[i].status = "success"
  /\ \A i \in 1..(Len(status.runs) - 1) :
       status.runs[i].started - status.runs[i + 1].started <= StrictMaxRunGap

Passes(sample, allowed) ==
  /\ Identified(sample.source, sample.target)
  /\ \A s \in DOMAIN sample.source, t \in DOMAIN sample.target :
       Key(sample.source[s]) = Key(sample.target[t]) =>
         CaughtUp(sample.source[s], sample.target[t], allowed)
  /\ Collecting(sample.status, sample.statusAt)
-----------------------------------------------------------------------------
(* observe: seven looks, each begun 50 seconds after the one before ended. *)

\* Every answer of a sample arrives between its begin and its end.
Spaced(samples) ==
  /\ \A i \in DOMAIN samples :
       /\ samples[i].begin <= samples[i].end
       /\ \A lots \in {samples[i].source, samples[i].target} :
            \A l \in DOMAIN lots : lots[l].at \in samples[i].begin..samples[i].end
       /\ samples[i].statusAt \in samples[i].begin..samples[i].end
  /\ \A i \in 1..(StrictSampleCount - 1) :
       samples[i].end + StrictSampleInterval <= samples[i + 1].begin

Observed(samples, allowed) == \A i \in 1..StrictSampleCount : Passes(samples[i], allowed)
=============================================================================
