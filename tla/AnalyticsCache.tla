--------------------------- MODULE AnalyticsCache ---------------------------
(***************************************************************************)
(* The precomputed analytics of one airport (table analytics_caches,       *)
(* backend/app/services/analytics_cache.py).  After a collection that      *)
(* stored snapshots, the scheduler or the request that made it refreshes   *)
(* every cache row in one transaction, outside operation_lock, so that     *)
(* refreshes overlap each other and further collections.                   *)
(*                                                                         *)
(* A key is a (lot or whole airport, metric) pair; keys are visited in     *)
(* ascending order.  A payload is "fresh" when it was computed from all    *)
(* snapshots committed so far and "stale" otherwise.                       *)
(***************************************************************************)
EXTENDS Integers

CONSTANTS
  Scheduler,   \* the scheduler task
  Manuals,     \* manual collection requests
  LastKey,     \* keys are 1..LastKey; key 1 is the whole airport
  MaxCrashes   \* bound of the model

Procs == {Scheduler} \cup Manuals

ASSUME LastKeyAssumption == LastKey \in Nat \ {0}
ASSUME CrashAssumption == MaxCrashes \in Nat

Keys == 1..LastKey
Payloads == {"absent", "fresh", "stale"}

VARIABLES
  manual,   \* settings.manual_collect_enabled, which does not change
  cache,    \* committed payload of each key
  scope,    \* keys of the refresh of each process; {} when it does not refresh
  todo,     \* those it has still to store
  looked,   \* the key each refresh is about to store, and whether it has a row
  payload,  \* what each refresh computed for its next key
  written,  \* flushed, uncommitted payloads of each refresh; they lock their rows
  latest,   \* history: keys and owner of the refresh that committed last
  writer,   \* history: who wrote each committed row
  newest,   \* history: who has made the last collection and still refreshes for it
  settled,  \* history: the keys of the refresh of the last collection, committed
  crashes   \* history: restarts so far

vars == <<manual, cache, scope, todo, looked, payload, written, latest, writer,
          newest, settled, crashes>>

Nobody == "nobody"
ASSUME NobodyAssumption == Nobody \notin Procs

NoKey == [key |-> 0, found |-> FALSE]
Unwritten == [k \in Keys |-> "absent"]

TypeOK ==
  /\ manual \in BOOLEAN
  /\ cache \in [Keys -> Payloads]
  /\ scope \in [Procs -> SUBSET Keys]
  /\ todo \in [Procs -> SUBSET Keys]
  /\ looked \in [Procs -> [key : {0} \cup Keys, found : BOOLEAN]]
  /\ \A p \in Procs : looked[p] # NoKey => looked[p].key \in todo[p]
  /\ payload \in [Procs -> Payloads]
  /\ written \in [Procs -> [Keys -> Payloads]]
  /\ latest \in [keys : SUBSET Keys, by : Procs \cup {Nobody}]
  /\ writer \in [Keys -> Procs \cup {Nobody}]
  /\ newest \in Procs \cup {Nobody}
  /\ settled \in SUBSET Keys
  /\ crashes \in 0..MaxCrashes

Init ==
  /\ manual \in BOOLEAN
  /\ cache = Unwritten
  /\ scope = [p \in Procs |-> {}]
  /\ todo = scope
  /\ looked = [p \in Procs |-> NoKey]
  /\ payload = [p \in Procs |-> "absent"]
  /\ written = [p \in Procs |-> Unwritten]
  /\ latest = [keys |-> {}, by |-> Nobody]
  /\ writer = [k \in Keys |-> Nobody]
  /\ newest = Nobody
  /\ settled = {}
  /\ crashes = 0
-----------------------------------------------------------------------------
Locked(p) == {k \in Keys : written[p][k] # "absent"}
Refreshing(p) == scope[p] # {}

AnyKey(p) == todo[p]   \* mutant of NextKeys: lots are read without ORDER BY

\* Airports and lots are read ORDER BY code and id, metrics in program order.
NextKeys(p) == {k \in todo[p] : \A o \in todo[p] : k <= o}

\* Mutant of WaitsFor: rows are flushed when the transaction ends, not before.
WaitsForNobody(p, q) == p # q /\ looked[p].key \in Locked(p) \ todo[p]

\* p's flush has to wait for the transaction of q.
WaitsFor(p, q) == p # q /\ looked[p].key \in Locked(q)

Outdated(x) == IF x = "fresh" THEN "stale" ELSE x

\* p's collection has committed new snapshots and p starts to refresh the rows of
\* the airport and of its active lots.
Collected(p, keys) ==
  /\ p = Scheduler \/ manual
  /\ ~Refreshing(p)
  /\ 1 \in keys
  /\ cache' = [k \in Keys |-> Outdated(cache[k])]
  /\ payload' = [q \in Procs |-> Outdated(payload[q])]
  /\ written' = [q \in Procs |-> [k \in Keys |-> Outdated(written[q][k])]]
  /\ scope' = [scope EXCEPT ![p] = keys]
  /\ todo' = [todo EXCEPT ![p] = keys]
  /\ newest' = p
  /\ settled' = {}
  /\ UNCHANGED <<manual, looked, latest, writer, crashes>>

\* The snapshots for the next row are loaded and its payload computed from them.
Compute(p) ==
  /\ todo[p] # {} /\ payload[p] = "absent"
  /\ payload' = [payload EXCEPT ![p] = "fresh"]
  /\ UNCHANGED <<manual, cache, scope, todo, looked, written, latest, writer, newest,
                 settled, crashes>>

\* Its row is looked up, by when the payload may be stale.
LookUp(p, k) ==
  /\ k \in NextKeys(p)
  /\ payload[p] # "absent" /\ looked[p] = NoKey
  /\ looked' = [looked EXCEPT ![p] = [key |-> k, found |-> cache[k] # "absent"]]
  /\ UNCHANGED <<manual, cache, scope, todo, payload, written, latest, writer, newest,
                 settled, crashes>>

StoreOnlyNew(p, k) ==   \* mutant of Store: an existing row is left as it is
  /\ k = looked[p].key
  /\ \A q \in Procs : ~WaitsFor(p, q)
  /\ looked[p].found \/ cache[k] = "absent"
  /\ written' = IF looked[p].found THEN written
                ELSE [written EXCEPT ![p][k] = payload[p]]
  /\ todo' = [todo EXCEPT ![p] = @ \ {k}]
  /\ looked' = [looked EXCEPT ![p] = NoKey]
  /\ payload' = [payload EXCEPT ![p] = "absent"]
  /\ UNCHANGED <<manual, cache, scope, latest, writer, newest, settled, crashes>>

\* The INSERT or UPDATE reaches the database: it waits while another transaction
\* has written the row, and holds the row from then on.
Store(p, k) ==
  /\ k = looked[p].key
  /\ \A q \in Procs : ~WaitsFor(p, q)
  /\ looked[p].found \/ cache[k] = "absent"
  /\ written' = [written EXCEPT ![p][k] = payload[p]]
  /\ todo' = [todo EXCEPT ![p] = @ \ {k}]
  /\ looked' = [looked EXCEPT ![p] = NoKey]
  /\ payload' = [payload EXCEPT ![p] = "absent"]
  /\ UNCHANGED <<manual, cache, scope, latest, writer, newest, settled, crashes>>

\* The refresh is rolled back and its locks are released.
RollBack(p) ==
  /\ scope' = [scope EXCEPT ![p] = {}]
  /\ todo' = [todo EXCEPT ![p] = {}]
  /\ looked' = [looked EXCEPT ![p] = NoKey]
  /\ payload' = [payload EXCEPT ![p] = "absent"]
  /\ written' = [written EXCEPT ![p] = Unwritten]
  /\ newest' = IF newest = p THEN Nobody ELSE newest
  /\ UNCHANGED <<manual, cache, latest, writer, settled, crashes>>

\* The row looked for was inserted by someone else in the meantime:
\* uq_analytics_cache_scope makes the INSERT, and the whole refresh, fail.
InsertConflicts(p) ==
  /\ looked[p] # NoKey /\ ~looked[p].found
  /\ \A q \in Procs : ~WaitsFor(p, q)
  /\ cache[looked[p].key] # "absent"
  /\ RollBack(p)

\* Mutant of Commit: the transaction ends after each row.
CommitEachRow(p) ==
  /\ Locked(p) # {} /\ looked[p] = NoKey
  /\ cache' = [k \in Keys |-> IF k \in Locked(p) THEN written[p][k] ELSE cache[k]]
  /\ writer' = [k \in Keys |-> IF k \in Locked(p) THEN p ELSE writer[k]]
  /\ latest' = IF todo[p] = {} THEN [keys |-> scope[p], by |-> p] ELSE latest
  /\ scope' = IF todo[p] = {} THEN [scope EXCEPT ![p] = {}] ELSE scope
  /\ written' = [written EXCEPT ![p] = Unwritten]
  /\ newest' = IF newest = p /\ todo[p] = {} THEN Nobody ELSE newest
  /\ settled' = IF newest = p /\ todo[p] = {} THEN scope[p] ELSE settled
  /\ UNCHANGED <<manual, todo, looked, payload, crashes>>

Commit(p) ==
  /\ Refreshing(p) /\ todo[p] = {}
  /\ cache' = [k \in Keys |-> IF k \in Locked(p) THEN written[p][k] ELSE cache[k]]
  /\ writer' = [k \in Keys |-> IF k \in Locked(p) THEN p ELSE writer[k]]
  /\ latest' = [keys |-> scope[p], by |-> p]
  /\ scope' = [scope EXCEPT ![p] = {}]
  /\ written' = [written EXCEPT ![p] = Unwritten]
  /\ newest' = IF newest = p THEN Nobody ELSE newest
  /\ settled' = IF newest = p THEN scope[p] ELSE settled
  /\ UNCHANGED <<manual, todo, looked, payload, crashes>>

\* The process dies and starts again; it refreshes nothing before it has collected.
Crash ==
  /\ crashes < MaxCrashes
  /\ crashes' = crashes + 1
  /\ scope' = [p \in Procs |-> {}]
  /\ todo' = [p \in Procs |-> {}]
  /\ looked' = [p \in Procs |-> NoKey]
  /\ payload' = [p \in Procs |-> "absent"]
  /\ written' = [p \in Procs |-> Unwritten]
  /\ newest' = Nobody
  /\ UNCHANGED <<manual, cache, latest, writer, settled>>

Refresh(p) ==
  \/ Compute(p)
  \/ \E k \in Keys : LookUp(p, k) \/ Store(p, k)
  \/ InsertConflicts(p)
  \/ Commit(p)

Collect(p) == \E keys \in SUBSET Keys : Collected(p, keys)

Next ==
  \/ \E p \in Procs : Collect(p) \/ Refresh(p)
  \/ Crash

Spec == Init /\ [][Next]_vars

\* The scheduler goes on collecting, and a refresh that can go on does.
FairSpec ==
  /\ Spec
  /\ WF_vars(Collect(Scheduler))
  /\ \A p \in Procs : WF_vars(Refresh(p))
-----------------------------------------------------------------------------
\* Overlapping refreshes never wait for each other's rows in a circle, which
\* PostgreSQL would resolve by aborting one of them.
NoCircularWait ==
  \A circle \in (SUBSET Procs) \ {{}} :
    \E p \in circle : \A q \in circle : ~WaitsFor(p, q)

\* The rows of the refresh that committed last are all its own: readers never
\* find the rows of one refresh overwritten in part by another.
LatestRefreshWhole == \A k \in latest.keys : writer[k] = latest.by

\* Once the refresh of the last collection is committed, its rows show that
\* collection, whichever refreshes it overlapped with - but for the first one: a
\* refresh that has computed its first payload holds no row yet, and may write it
\* after all the others.
OverlapStalesFirstRowOnly == \A k \in settled \ {1} : cache[k] = "fresh"

\* With the scheduler alone, as deployed: however a refresh was lost, the cache of the
\* airport shows the newest snapshots again in the end, as later collections refresh
\* the rows that exist already.
CacheCatchesUp == manual \/ []<>(cache[1] = "fresh")
=============================================================================
