------------------------ MODULE AnalyticsCacheProofs ------------------------
(***************************************************************************)
(* Theorems about AnalyticsCache, for any requests and any number of rows. *)
(* IndInv is inductive together with TypeOK: a refresh goes through its    *)
(* rows in ascending order and keeps those it has stored, no two refreshes *)
(* hold the same row, and what the latest collection has made stale is     *)
(* held by nobody who could still write it over fresh rows.                *)
(***************************************************************************)
EXTENDS AnalyticsCache, WellFoundedInduction, TLAPS

\* A refresh holds what it has stored of its rows and has still to store the others,
\* all of which are greater.
InOrder(p) ==
  /\ scope[p] = Locked(p) \cup todo[p]
  /\ Refreshing(p) => 1 \in scope[p]
  /\ \A k \in Locked(p), j \in todo[p] : k < j
  /\ looked[p] # NoKey => looked[p].key \in NextKeys(p) /\ payload[p] # "absent"
  /\ payload[p] # "absent" => todo[p] # {}

\* A row that is written and not committed is locked.
OneOwner == \A p, q \in Procs : p # q => Locked(p) \cap Locked(q) = {}

\* What p has computed shows the last collection, but for its first row if that is
\* not included.
UpToDate(p, included) ==
  /\ \A k \in Locked(p) : included \/ k # 1 => written[p][k] = "fresh"
  /\ payload[p] # "absent" /\ (included \/ 1 \notin todo[p]) => payload[p] = "fresh"

\* The refresh for the last collection has computed everything after it.  Once it is
\* committed, the others have held no row before it did, so that at most their first
\* row is older.
NewestInv ==
  /\ newest # Nobody => settled = {} /\ Refreshing(newest) /\ UpToDate(newest, TRUE)
  /\ settled # {} => \A p \in Procs : UpToDate(p, FALSE)

IndInv ==
  /\ \A p \in Procs : InOrder(p)
  /\ OneOwner
  /\ NewestInv
  /\ LatestRefreshWhole
  /\ OverlapStalesFirstRowOnly
-----------------------------------------------------------------------------
(* Types.                                                                  *)

\* Every step of a refresh keeps the types.
LEMMA RefreshType ==
  ASSUME TypeOK, IndInv, NEW p \in Procs, Refresh(p)
  PROVE  TypeOK'
<1> USE LastKeyAssumption DEF Keys, Payloads
<1>1. NoKey \in [key : {0} \cup Keys, found : BOOLEAN]
  BY DEF NoKey
<1>2. Unwritten \in [Keys -> Payloads]
  BY DEF Unwritten
<1>7. CASE Compute(p)
  BY <1>7 DEF Compute, TypeOK
<1>3. ASSUME NEW k \in Keys, LookUp(p, k)
      PROVE  TypeOK'
  <2>1. [key |-> k, found |-> cache[k] # "absent"] \in [key : {0} \cup Keys, found : BOOLEAN]
    OBVIOUS
  <2>2. k \in todo[p]
    BY <1>3 DEF LookUp, NextKeys
  <2>3. looked' \in [Procs -> [key : {0} \cup Keys, found : BOOLEAN]]
    BY <1>3, <2>1 DEF LookUp, TypeOK
  <2>4. \A q \in Procs : looked'[q] # NoKey => looked'[q].key \in todo'[q]
    BY <1>3, <2>2 DEF LookUp, TypeOK
  <2> QED
    BY <1>3, <2>3, <2>4 DEF LookUp, TypeOK
<1>4. ASSUME NEW k \in Keys, Store(p, k)
      PROVE  TypeOK'
  <2>1. looked' \in [Procs -> [key : {0} \cup Keys, found : BOOLEAN]]
    BY <1>1, <1>4 DEF Store, TypeOK
  <2>2. written' \in [Procs -> [Keys -> Payloads]]
    BY <1>4 DEF Store, TypeOK
  <2>3. \A q \in Procs : looked'[q] # NoKey => looked'[q].key \in todo'[q]
    BY <1>4 DEF Store, TypeOK
  <2> QED
    BY <1>4, <2>1, <2>2, <2>3 DEF Store, TypeOK
<1>5. CASE InsertConflicts(p)
  <2>1. looked' \in [Procs -> [key : {0} \cup Keys, found : BOOLEAN]]
    BY <1>1, <1>5 DEF InsertConflicts, RollBack, TypeOK
  <2>2. \A q \in Procs : looked'[q] # NoKey => looked'[q].key \in todo'[q]
    BY <1>5 DEF InsertConflicts, RollBack, TypeOK
  <2> QED
    BY <1>2, <1>5, <2>1, <2>2 DEF InsertConflicts, RollBack, TypeOK
<1>6. CASE Commit(p)
  <2>1. cache' \in [Keys -> Payloads]
    BY <1>6 DEF Commit, TypeOK
  <2>2. writer' \in [Keys -> Procs \cup {Nobody}]
    BY <1>6 DEF Commit, TypeOK
  <2> QED
    BY <1>2, <1>6, <2>1, <2>2 DEF Commit, TypeOK
<1> QED
  BY <1>3, <1>4, <1>5, <1>6, <1>7 DEF Refresh

\* Every step keeps the types.
LEMMA NextType == TypeOK /\ IndInv /\ [Next]_vars => TypeOK'
<1> SUFFICES ASSUME TypeOK, IndInv, [Next]_vars PROVE TypeOK'
  OBVIOUS
<1>1. ASSUME NEW p \in Procs, NEW keys \in SUBSET Keys, Collected(p, keys)
      PROVE  TypeOK'
  <2>1. \A x \in Payloads : Outdated(x) \in Payloads
    BY DEF Outdated, Payloads
  <2>2. /\ cache' \in [Keys -> Payloads]
        /\ payload' \in [Procs -> Payloads]
        /\ written' \in [Procs -> [Keys -> Payloads]]
    BY <1>1, <2>1 DEF Collected, TypeOK
  <2>3. looked[p] = NoKey
    BY <1>1 DEF Collected, IndInv, InOrder, Refreshing, NextKeys
  <2>4. \A q \in Procs : looked'[q] # NoKey => looked'[q].key \in todo'[q]
    BY <1>1, <2>3 DEF Collected, TypeOK
  <2> QED
    BY <1>1, <2>2, <2>4 DEF Collected, TypeOK
<1>2. ASSUME NEW p \in Procs, Refresh(p)
      PROVE  TypeOK'
  BY <1>2, RefreshType
<1>3. CASE Crash
  <2>1. NoKey \in [key : {0} \cup Keys, found : BOOLEAN]
    BY DEF NoKey
  <2>2. Unwritten \in [Keys -> Payloads]
    BY DEF Unwritten, Payloads
  <2>3. crashes' \in 0..MaxCrashes
    BY <1>3, CrashAssumption DEF Crash, TypeOK
  <2>4. "absent" \in Payloads
    BY DEF Payloads
  <2> QED
    BY <1>3, <2>1, <2>2, <2>3, <2>4 DEF Crash, TypeOK
<1>4. CASE UNCHANGED vars
  BY <1>4 DEF vars, TypeOK
<1> QED
  BY <1>1, <1>2, <1>3, <1>4 DEF Next, Collect
-----------------------------------------------------------------------------
(* What one step does to the rows of each refresh.                         *)

\* A process that refreshes nothing holds nothing and has computed nothing.
LEMMA NothingHeld ==
  ASSUME TypeOK, NEW p \in Procs, InOrder(p), ~Refreshing(p)
  PROVE  /\ scope[p] = {} /\ todo[p] = {} /\ Locked(p) = {}
         /\ looked[p] = NoKey /\ payload[p] = "absent"
  BY DEF InOrder, Refreshing, NextKeys

\* Outdating a payload does not make it appear or disappear.
LEMMA OutdatedFacts ==
  \A x \in Payloads : Outdated(x) \in Payloads /\ (Outdated(x) = "absent" <=> x = "absent")
  BY DEF Outdated, Payloads

\* A new collection leaves every row with the refresh that holds it.
LEMMA CollectedRows ==
  ASSUME TypeOK, NEW p \in Procs, NEW keys \in SUBSET Keys, Collected(p, keys)
  PROVE  /\ \A q \in Procs : Locked(q)' = Locked(q)
         /\ \A q \in Procs : payload'[q] = "absent" <=> payload[q] = "absent"
<1>1. \A q \in Procs, k \in Keys : written'[q][k] = Outdated(written[q][k])
  BY DEF Collected
<1>2. \A q \in Procs, k \in Keys : written[q][k] \in Payloads
  BY DEF TypeOK
<1>3. \A q \in Procs : payload'[q] = Outdated(payload[q]) /\ payload[q] \in Payloads
  BY DEF Collected, TypeOK
<1> QED
  BY <1>1, <1>2, <1>3, OutdatedFacts DEF Locked

\* Storing a row locks it, and changes nothing else of anyone's rows.
LEMMA StoreRows ==
  ASSUME TypeOK, NEW p \in Procs, InOrder(p), NEW k \in Keys, Store(p, k)
  PROVE  /\ looked[p] # NoKey /\ k \in NextKeys(p)
         /\ written'[p] = [written[p] EXCEPT ![k] = payload[p]]
         /\ Locked(p)' = Locked(p) \cup {k}
         /\ \A q \in Procs \ {p} : written'[q] = written[q] /\ Locked(q)' = Locked(q)
<1>1. looked[p] # NoKey
  BY LastKeyAssumption DEF Store, NoKey, Keys
<1>2. k \in NextKeys(p) /\ payload[p] # "absent"
  BY <1>1 DEF InOrder, Store
<1>3. /\ written'[p] = [written[p] EXCEPT ![k] = payload[p]]
      /\ \A q \in Procs \ {p} : written'[q] = written[q]
  BY DEF Store, TypeOK
<1>4. Locked(p)' = Locked(p) \cup {k}
  BY <1>2, <1>3 DEF Locked, TypeOK
<1>5. \A q \in Procs \ {p} : Locked(q)' = Locked(q)
  BY <1>3 DEF Locked
<1> QED
  BY <1>1, <1>2, <1>3, <1>4, <1>5

\* A refresh that ends, by a commit or a rollback, holds nothing any more.
LEMMA ReleasedRows ==
  ASSUME TypeOK, NEW p \in Procs, written' = [written EXCEPT ![p] = Unwritten]
  PROVE  /\ Locked(p)' = {}
         /\ \A q \in Procs \ {p} : written'[q] = written[q] /\ Locked(q)' = Locked(q)
  BY DEF Locked, Unwritten, TypeOK
-----------------------------------------------------------------------------
(* The inductive invariant, part by part.                                  *)

\* Refreshes go through their rows in ascending order.
LEMMA InOrderKept ==
  ASSUME TypeOK, IndInv, [Next]_vars, NEW q \in Procs
  PROVE  InOrder(q)'
<1> USE DEF IndInv
<1>1. ASSUME NEW p \in Procs, NEW keys \in SUBSET Keys, Collected(p, keys)
      PROVE  InOrder(q)'
  <2>1. Locked(q)' = Locked(q) /\ (payload'[q] = "absent" <=> payload[q] = "absent")
    BY <1>1, CollectedRows
  <2>2. CASE q = p
    <3>1. Locked(q) = {} /\ looked[q] = NoKey /\ payload[q] = "absent"
      BY <1>1, <2>2, NothingHeld DEF Collected
    <3>2. scope'[q] = keys /\ todo'[q] = keys /\ 1 \in keys /\ looked'[q] = looked[q]
      BY <1>1, <2>2 DEF Collected, TypeOK
    <3> QED
      BY <2>1, <3>1, <3>2 DEF InOrder, Refreshing, NextKeys
  <2>3. CASE q # p
    <3>1. scope'[q] = scope[q] /\ todo'[q] = todo[q] /\ looked'[q] = looked[q]
      BY <1>1, <2>3 DEF Collected, TypeOK
    <3> QED
      BY <2>1, <3>1 DEF InOrder, Refreshing, NextKeys
  <2> QED
    BY <2>2, <2>3
<1>2. ASSUME NEW p \in Procs, NEW k \in Keys, LookUp(p, k)
      PROVE  InOrder(q)'
  <2>1. UNCHANGED <<scope, todo, written, payload>>
    BY <1>2 DEF LookUp
  <2>2. looked'[q] # NoKey => looked'[q].key \in NextKeys(q) /\ payload'[q] # "absent"
    BY <1>2 DEF LookUp, TypeOK, InOrder
  <2> QED
    BY <2>1, <2>2 DEF InOrder, Refreshing, NextKeys, Locked
<1>7. ASSUME NEW p \in Procs, Compute(p)
      PROVE  InOrder(q)'
  <2>1. UNCHANGED <<scope, todo, written, looked>>
    BY <1>7 DEF Compute
  <2>2. payload'[q] = payload[q] \/ (todo[q] # {} /\ payload'[q] = "fresh")
    BY <1>7 DEF Compute, TypeOK
  <2> QED
    BY <2>1, <2>2 DEF InOrder, Refreshing, NextKeys, Locked
<1>3. ASSUME NEW p \in Procs, NEW k \in Keys, Store(p, k)
      PROVE  InOrder(q)'
  <2>1. k \in NextKeys(p) /\ Locked(p)' = Locked(p) \cup {k}
        /\ \A o \in Procs \ {p} : Locked(o)' = Locked(o)
    BY <1>3, StoreRows
  <2>2. CASE q = p
    <3>1. scope'[q] = scope[q] /\ todo'[q] = todo[q] \ {k} /\ looked'[q] = NoKey
          /\ payload'[q] = "absent"
      BY <1>3, <2>2 DEF Store, TypeOK
    <3>2. \A j \in todo[q] : k <= j /\ j \in Int /\ k \in Int
      BY <2>1, <2>2, LastKeyAssumption DEF NextKeys, TypeOK, Keys
    <3>3. k \in todo[q]
      BY <2>1, <2>2 DEF NextKeys
    <3> QED
      BY <2>1, <2>2, <3>1, <3>2, <3>3 DEF InOrder, Refreshing
  <2>3. CASE q # p
    <3>1. scope'[q] = scope[q] /\ todo'[q] = todo[q] /\ looked'[q] = looked[q]
          /\ payload'[q] = payload[q]
      BY <1>3, <2>3 DEF Store, TypeOK
    <3> QED
      BY <2>1, <2>3, <3>1 DEF InOrder, Refreshing, NextKeys
  <2> QED
    BY <2>2, <2>3
<1>4. ASSUME NEW p \in Procs, InsertConflicts(p) \/ Commit(p)
      PROVE  InOrder(q)'
  <2>1. Locked(p)' = {} /\ \A o \in Procs \ {p} : Locked(o)' = Locked(o)
    BY <1>4, ReleasedRows DEF InsertConflicts, RollBack, Commit
  <2>2. CASE q = p
    <3>1. scope'[q] = {} /\ todo'[q] = {}
      BY <1>4, <2>2 DEF InsertConflicts, RollBack, Commit, TypeOK
    <3>2. looked'[q] = NoKey /\ payload'[q] = "absent"
      BY <1>4, <2>2 DEF InsertConflicts, RollBack, Commit, TypeOK, InOrder, NextKeys
    <3> QED
      BY <2>1, <2>2, <3>1, <3>2 DEF InOrder, Refreshing
  <2>3. CASE q # p
    <3>1. scope'[q] = scope[q] /\ todo'[q] = todo[q] /\ looked'[q] = looked[q]
          /\ payload'[q] = payload[q]
      BY <1>4, <2>3 DEF InsertConflicts, RollBack, Commit, TypeOK
    <3> QED
      BY <2>1, <2>3, <3>1 DEF InOrder, Refreshing, NextKeys
  <2> QED
    BY <2>2, <2>3
<1>5. CASE Crash
  BY <1>5 DEF Crash, InOrder, Refreshing, Locked, Unwritten
<1>6. CASE UNCHANGED vars
  BY <1>6 DEF vars, InOrder, Refreshing, NextKeys, Locked
<1> QED
  BY <1>1, <1>2, <1>3, <1>4, <1>5, <1>6, <1>7 DEF Next, Collect, Refresh

\* A row is stored only when nobody else holds it.
LEMMA OneOwnerKept == TypeOK /\ IndInv /\ [Next]_vars => OneOwner'
<1> SUFFICES ASSUME TypeOK, IndInv, [Next]_vars PROVE OneOwner'
  OBVIOUS
<1> USE DEF IndInv
<1>1. ASSUME NEW p \in Procs, NEW keys \in SUBSET Keys, Collected(p, keys)
      PROVE  OneOwner'
  BY <1>1, CollectedRows DEF OneOwner
<1>2. ASSUME NEW p \in Procs, Compute(p) \/ \E k \in Keys : LookUp(p, k)
      PROVE  OneOwner'
  BY <1>2 DEF Compute, LookUp, OneOwner, Locked
<1>3. ASSUME NEW p \in Procs, NEW k \in Keys, Store(p, k)
      PROVE  OneOwner'
  <2>1. \A q \in Procs \ {p} : k \notin Locked(q)
    BY <1>3 DEF Store, WaitsFor
  <2>2. /\ Locked(p)' = Locked(p) \cup {k}
        /\ \A q \in Procs \ {p} : Locked(q)' = Locked(q)
    BY <1>3, StoreRows
  <2>3. ASSUME NEW q \in Procs, NEW r \in Procs, q # r
        PROVE  Locked(q)' \cap Locked(r)' = {}
    <3>1. Locked(q) \cap Locked(r) = {}
      BY <2>3 DEF OneOwner
    <3> QED
      BY <2>1, <2>2, <2>3, <3>1
  <2> QED
    BY <2>3 DEF OneOwner
<1>4. ASSUME NEW p \in Procs, InsertConflicts(p) \/ Commit(p)
      PROVE  OneOwner'
  BY <1>4, ReleasedRows DEF InsertConflicts, RollBack, Commit, OneOwner
<1>5. CASE Crash
  BY <1>5 DEF Crash, OneOwner, Locked, Unwritten
<1>6. CASE UNCHANGED vars
  BY <1>6 DEF vars, OneOwner, Locked
<1> QED
  BY <1>1, <1>2, <1>3, <1>4, <1>5, <1>6 DEF Next, Collect, Refresh

\* A commit that is not the newest refresh's leaves the freshness of the others alone.
LEMMA ReleaseKeepsUpToDate ==
  ASSUME TypeOK, NEW p \in Procs, written' = [written EXCEPT ![p] = Unwritten],
         NEW q \in Procs, NEW included \in BOOLEAN, UpToDate(q, included),
         q = p \/ (todo'[q] = todo[q] /\ payload'[q] = payload[q]),
         q = p => payload'[q] = "absent"
  PROVE  UpToDate(q, included)'
<1>1. CASE q = p
  BY <1>1, ReleasedRows DEF UpToDate
<1>2. CASE q # p
  BY <1>2, ReleasedRows DEF UpToDate
<1> QED
  BY <1>1, <1>2

\* What is computed and stored after a collection shows it; what is older can only be
\* a first row that waits for the row locks of the newest refresh.
LEMMA NewestKept == TypeOK /\ IndInv /\ [Next]_vars => NewestInv'
<1> SUFFICES ASSUME TypeOK, IndInv, [Next]_vars PROVE NewestInv'
  OBVIOUS
<1> USE NobodyAssumption DEF IndInv
<1>1. ASSUME NEW p \in Procs, NEW keys \in SUBSET Keys, Collected(p, keys)
      PROVE  NewestInv'
  <2>1. newest' = p /\ settled' = {} /\ scope'[p] = keys /\ 1 \in keys
    BY <1>1 DEF Collected, TypeOK
  <2>2. Locked(p)' = {} /\ payload'[p] = "absent"
    BY <1>1, CollectedRows, NothingHeld DEF Collected
  <2>3. Refreshing(p)' /\ UpToDate(p, TRUE)'
    BY <2>1, <2>2 DEF Refreshing, UpToDate
  <2> QED
    BY <2>1, <2>3 DEF NewestInv
<1>2. ASSUME NEW p \in Procs, Compute(p) \/ \E k \in Keys : LookUp(p, k)
      PROVE  NewestInv'
  <2>1. \A q \in Procs, included \in BOOLEAN : UpToDate(q, included) => UpToDate(q, included)'
    BY <1>2 DEF Compute, LookUp, TypeOK, UpToDate, Locked
  <2>2. UNCHANGED <<newest, settled, scope>>
    BY <1>2 DEF Compute, LookUp
  <2> QED
    BY <2>1, <2>2 DEF NewestInv, Refreshing, TypeOK
<1>3. ASSUME NEW p \in Procs, NEW k \in Keys, Store(p, k)
      PROVE  NewestInv'
  <2>1. ASSUME NEW q \in Procs, NEW included \in BOOLEAN, UpToDate(q, included)
        PROVE  UpToDate(q, included)'
    <3>1. CASE q = p
      <4>1. /\ looked[p] # NoKey /\ k \in NextKeys(p)
            /\ written'[p] = [written[p] EXCEPT ![k] = payload[p]]
            /\ Locked(p)' = Locked(p) \cup {k}
        BY <1>3, StoreRows
      <4>2. payload'[p] = "absent" /\ payload[p] # "absent"
        BY <1>3, <4>1 DEF Store, TypeOK, InOrder
      <4>3. written[p] \in [Keys -> Payloads]
        BY DEF TypeOK
      <4>4. k # 1 => 1 \notin todo[p]
        BY <4>1, LastKeyAssumption DEF NextKeys, Keys
      <4> QED
        BY <2>1, <3>1, <4>1, <4>2, <4>3, <4>4 DEF UpToDate
    <3>2. CASE q # p
      <4>1. written'[q] = written[q] /\ Locked(q)' = Locked(q)
        BY <1>3, <3>2, StoreRows
      <4>2. todo'[q] = todo[q] /\ payload'[q] = payload[q]
        BY <1>3, <3>2 DEF Store, TypeOK
      <4> QED
        BY <2>1, <4>1, <4>2 DEF UpToDate
    <3> QED
      BY <3>1, <3>2
  <2>2. UNCHANGED <<newest, settled, scope>>
    BY <1>3 DEF Store
  <2> QED
    BY <2>1, <2>2 DEF NewestInv, Refreshing, TypeOK
<1>4. ASSUME NEW p \in Procs, InsertConflicts(p)
      PROVE  NewestInv'
  <2>1. /\ written' = [written EXCEPT ![p] = Unwritten]
        /\ scope' = [scope EXCEPT ![p] = {}]
        /\ newest' = IF newest = p THEN Nobody ELSE newest
        /\ UNCHANGED settled
    BY <1>4 DEF InsertConflicts, RollBack
  <2>2. \A q \in Procs : /\ q = p \/ (todo'[q] = todo[q] /\ payload'[q] = payload[q])
                         /\ q = p => payload'[q] = "absent"
    BY <1>4 DEF InsertConflicts, RollBack, TypeOK
  <2>3. \A q \in Procs, included \in BOOLEAN : UpToDate(q, included) => UpToDate(q, included)'
    BY <2>1, <2>2, ReleaseKeepsUpToDate
  <2>4. newest' # Nobody => newest' = newest /\ newest # p /\ newest \in Procs
    BY <2>1 DEF TypeOK
  <2>5. \A q \in Procs : q # p /\ Refreshing(q) => Refreshing(q)'
    BY <2>1 DEF Refreshing, TypeOK
  <2> QED
    BY <2>1, <2>3, <2>4, <2>5 DEF NewestInv
<1>5. ASSUME NEW p \in Procs, Commit(p)
      PROVE  NewestInv'
  <2>1. /\ written' = [written EXCEPT ![p] = Unwritten]
        /\ scope' = [scope EXCEPT ![p] = {}]
        /\ newest' = IF newest = p THEN Nobody ELSE newest
        /\ settled' = IF newest = p THEN scope[p] ELSE settled
        /\ UNCHANGED <<todo, payload>>
    BY <1>5 DEF Commit
  <2>2. payload[p] = "absent"
    BY <1>5 DEF Commit, InOrder
  <2>3. \A q \in Procs, included \in BOOLEAN : UpToDate(q, included) => UpToDate(q, included)'
    BY <2>1, <2>2, ReleaseKeepsUpToDate
  <2>4. CASE newest = p
    <3>1. scope[p] = Locked(p) /\ 1 \in Locked(p)
      BY <1>5 DEF Commit, InOrder
    <3>2. \A q \in Procs \ {p} : 1 \notin Locked(q)
      BY <3>1 DEF OneOwner
    <3>3. ASSUME NEW q \in Procs, q # p
          PROVE  UpToDate(q, FALSE)
      <4>1. CASE ~Refreshing(q)
        BY <4>1, NothingHeld DEF UpToDate
      <4>2. CASE Refreshing(q)
        <5>1. 1 \in todo[q] /\ \A k \in Keys : 1 <= k
          BY <3>2, <3>3, <4>2 DEF InOrder, Keys
        <5>2. Locked(q) = {}
          BY <5>1, LastKeyAssumption DEF InOrder, Locked, Keys
        <5> QED
          BY <5>1, <5>2 DEF UpToDate
      <4> QED
        BY <4>1, <4>2
    <3>4. UpToDate(p, FALSE)
      BY <2>4 DEF NewestInv, UpToDate
    <3> QED
      BY <2>1, <2>3, <2>4, <3>3, <3>4 DEF NewestInv
  <2>5. CASE newest # p
    <3>1. \A q \in Procs : q # p /\ Refreshing(q) => Refreshing(q)'
      BY <2>1 DEF Refreshing, TypeOK
    <3> QED
      BY <2>1, <2>3, <2>5, <3>1 DEF NewestInv, TypeOK
  <2> QED
    BY <2>4, <2>5
<1>6. CASE Crash
  <2>1. newest' = Nobody /\ \A q \in Procs : Locked(q)' = {} /\ payload'[q] = "absent"
    BY <1>6 DEF Crash, Locked, Unwritten
  <2> QED
    BY <2>1 DEF NewestInv, UpToDate
<1>7. CASE UNCHANGED vars
  BY <1>7 DEF vars, NewestInv, Refreshing, UpToDate, Locked
<1> QED
  BY <1>1, <1>2, <1>3, <1>4, <1>5, <1>6, <1>7 DEF Next, Collect, Refresh

\* The refresh that commits has written all of its rows.
LEMMA LatestKept == TypeOK /\ IndInv /\ [Next]_vars => LatestRefreshWhole'
<1> SUFFICES ASSUME TypeOK, IndInv, [Next]_vars PROVE LatestRefreshWhole'
  OBVIOUS
<1>1. ASSUME NEW p \in Procs, Commit(p)
      PROVE  LatestRefreshWhole'
  <2>1. scope[p] = Locked(p) /\ scope[p] \subseteq Keys
    BY <1>1 DEF Commit, IndInv, InOrder, TypeOK
  <2>2. latest' = [keys |-> scope[p], by |-> p]
        /\ writer' = [k \in Keys |-> IF k \in Locked(p) THEN p ELSE writer[k]]
    BY <1>1 DEF Commit
  <2> QED
    BY <2>1, <2>2 DEF LatestRefreshWhole
<1>2. CASE UNCHANGED <<latest, writer>>
  BY <1>2 DEF IndInv, LatestRefreshWhole
<1> QED
  BY <1>1, <1>2 DEF Next, Collect, Collected, Refresh, Compute, LookUp, Store, InsertConflicts,
                    RollBack, Crash, vars

\* A commit after that of the newest refresh writes fresh rows, but for its first one.
LEMMA SettledKept == TypeOK /\ IndInv /\ [Next]_vars => OverlapStalesFirstRowOnly'
<1> SUFFICES ASSUME TypeOK, IndInv, [Next]_vars PROVE OverlapStalesFirstRowOnly'
  OBVIOUS
<1> USE DEF IndInv
<1>1. ASSUME NEW p \in Procs, Commit(p)
      PROVE  OverlapStalesFirstRowOnly'
  <2>1. cache' = [k \in Keys |-> IF k \in Locked(p) THEN written[p][k] ELSE cache[k]]
        /\ settled' = IF newest = p THEN scope[p] ELSE settled
    BY <1>1 DEF Commit
  <2>2. CASE newest = p
    <3>1. scope[p] = Locked(p) /\ scope[p] \subseteq Keys
      BY <1>1 DEF Commit, InOrder, TypeOK
    <3>2. \A k \in Locked(p) : written[p][k] = "fresh"
      BY <2>2, NobodyAssumption DEF NewestInv, UpToDate
    <3> QED
      BY <2>1, <2>2, <3>1, <3>2 DEF OverlapStalesFirstRowOnly
  <2>3. CASE newest # p
    <3>1. \A k \in Locked(p) : settled # {} /\ k # 1 => written[p][k] = "fresh"
      BY DEF NewestInv, UpToDate
    <3>2. settled \subseteq Keys
      BY DEF TypeOK
    <3> QED
      BY <2>1, <2>3, <3>1, <3>2 DEF OverlapStalesFirstRowOnly
  <2> QED
    BY <2>2, <2>3
<1>2. ASSUME NEW p \in Procs, NEW keys \in SUBSET Keys, Collected(p, keys)
      PROVE  OverlapStalesFirstRowOnly'
  BY <1>2 DEF Collected, OverlapStalesFirstRowOnly
<1>3. CASE UNCHANGED <<cache, settled>>
  BY <1>3 DEF OverlapStalesFirstRowOnly
<1> QED
  BY <1>1, <1>2, <1>3 DEF Next, Collect, Refresh, Compute, LookUp, Store, InsertConflicts,
                          RollBack, Crash, vars
-----------------------------------------------------------------------------
(* The theorems.                                                           *)

\* A bounded set of natural numbers that is not empty has a greatest element.
LEMMA GreatestExists ==
  ASSUME NEW n \in Nat, NEW S \in SUBSET (0..n), S # {}
  PROVE  \E x \in S : \A y \in S : y <= x
<1> DEFINE T == {n - x : x \in S}
<1>1. T \subseteq Nat /\ T # {}
  <2>1. \A x \in S : x \in 0..n
    OBVIOUS
  <2>2. \A x \in 0..n : n - x \in Nat
    OBVIOUS
  <2> QED
    BY <2>1, <2>2
<1>2. PICK t \in T : \A u \in T : ~(<<u, t>> \in OpToRel(<, Nat))
  BY <1>1, NatLessThanWellFounded, WFMin
<1>3. PICK x \in S : t = n - x
  OBVIOUS
<1>4. ASSUME NEW y \in S
      PROVE  y <= x
  <2>1. n - y \in Nat /\ t \in Nat /\ n - y \in T
    OBVIOUS
  <2>2. ~(n - y < t)
    BY <1>2, <2>1 DEF OpToRel
  <2> QED
    BY <1>3, <2>1, <2>2
<1> QED
  BY <1>4

\* Initially there is nothing to be wrong.
LEMMA InitEstablishes == Init => TypeOK /\ IndInv
<1> SUFFICES ASSUME Init PROVE TypeOK /\ IndInv
  OBVIOUS
<1>1. NoKey \in [key : {0} \cup Keys, found : BOOLEAN]
  BY DEF NoKey
<1>2. Unwritten \in [Keys -> Payloads]
  BY DEF Unwritten, Payloads
<1>3. TypeOK
  BY <1>1, <1>2, CrashAssumption DEF Init, TypeOK, Payloads
<1>4. \A p \in Procs : Locked(p) = {} /\ InOrder(p)
  BY DEF Init, Locked, Unwritten, InOrder, Refreshing
<1> QED
  BY <1>3, <1>4 DEF Init, IndInv, OneOwner, NewestInv, LatestRefreshWhole,
                    OverlapStalesFirstRowOnly

\* Every reachable state is well-typed and satisfies the inductive invariant.
THEOREM Invariance == Spec => [](TypeOK /\ IndInv)
<1>1. TypeOK /\ IndInv /\ [Next]_vars => (TypeOK /\ IndInv)'
  BY NextType, InOrderKept, OneOwnerKept, NewestKept, LatestKept, SettledKept DEF IndInv
<1> QED
  BY <1>1, InitEstablishes, PTL DEF Spec

\* However many refreshes overlap, they never wait for each other's rows in a circle:
\* the one of them that has come furthest waits for nobody (analytics_cache.py goes
\* through lots in the order of their ids).
THEOREM NeverCircular == Spec => []NoCircularWait
<1>1. ASSUME TypeOK, IndInv, NEW circle \in (SUBSET Procs) \ {{}}
      PROVE  \E p \in circle : \A q \in circle : ~WaitsFor(p, q)
  <2> USE <1>1
  <2>1. CASE \E p \in circle : looked[p].key = 0
    BY <2>1 DEF WaitsFor, Locked, Keys
  <2>2. CASE \A p \in circle : looked[p].key # 0
    <3> DEFINE reached == {looked[p].key : p \in circle}
    <3>1. reached \in SUBSET (0..LastKey) /\ reached # {}
      <4>1. \A p \in circle : looked[p] \in [key : {0} \cup Keys, found : BOOLEAN]
        BY DEF TypeOK
      <4>2. \A p \in circle : looked[p].key \in 0..LastKey
        BY ONLY <4>1, LastKeyAssumption DEF Keys
      <4>3. circle # {}
        OBVIOUS
      <4> QED
        BY ONLY <4>2, <4>3
    <3>2. PICK p \in circle : \A q \in circle : looked[q].key <= looked[p].key
      <4>1. PICK k \in reached : \A j \in reached : j <= k
        <5> HIDE DEF reached
        <5> QED  BY ONLY <3>1, LastKeyAssumption, GreatestExists
      <4> QED
        BY ONLY <4>1
    <3>3. ASSUME NEW q \in circle, WaitsFor(p, q)
          PROVE  FALSE
      <4>1. looked[q].key \in todo[q] /\ InOrder(q)
        BY <2>2 DEF NoKey, TypeOK, IndInv
      <4>2. looked[p].key < looked[q].key
        BY <3>3, <4>1 DEF WaitsFor, InOrder
      <4>3. looked[p].key \in Int /\ looked[q].key \in Int
        BY LastKeyAssumption DEF TypeOK, Keys
      <4> QED
        BY <3>2, <4>2, <4>3
    <3> QED
      BY <3>3
  <2> QED
    BY <2>1, <2>2
<1>2. TypeOK /\ IndInv => NoCircularWait
  BY <1>1 DEF NoCircularWait
<1> QED
  BY <1>2, Invariance, PTL

\* Readers never find the rows of the refresh that committed last overwritten in part by
\* another one.
THEOREM LatestWhole == Spec => []LatestRefreshWhole
<1>1. TypeOK /\ IndInv => LatestRefreshWhole
  BY DEF IndInv
<1> QED
  BY <1>1, Invariance, PTL

\* Whatever overlaps the refresh of the last collection, only the row of the whole
\* airport can be older than that collection once it is committed.
THEOREM OnlyFirstRowStale == Spec => []OverlapStalesFirstRowOnly
<1>1. TypeOK /\ IndInv => OverlapStalesFirstRowOnly
  BY DEF IndInv
<1> QED
  BY <1>1, Invariance, PTL
=============================================================================
