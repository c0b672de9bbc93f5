---------------------------- MODULE HistoryProofs ----------------------------
(***************************************************************************)
(* The three programs that change an airport's lots, their history and     *)
(* their rules (LotHistory), for any lots, any answers and any number of   *)
(* rows: what no sequence of collections, imports and merges loses or      *)
(* splits, and what the API then shows.                                    *)
(***************************************************************************)
EXTENDS LotHistory, FiniteSetTheorems, WellFoundedInduction, TLAPS

-----------------------------------------------------------------------------
(* Folds.  The programs walk along an answer or along the lots of a name:  *)
(* a fold, and a fold is a recursive function on the subsets of what is    *)
(* walked along.                                                           *)

\* A nonempty set of natural numbers has a least one.
LEMMA LeastNumber ==
  ASSUME NEW S \in SUBSET Nat, S # {}
  PROVE  \E n \in S : \A m \in S : n <= m
<1>1. PICK n \in S : \A m \in S : ~(<<m, n>> \in OpToRel(<, Nat))
  BY NatLessThanWellFounded, WFMin
<1>2. ASSUME NEW m \in S
      PROVE  n <= m
  <2>1. n \in Nat /\ m \in Nat
    OBVIOUS
  <2>2. ~(m < n)
    BY <1>1, <2>1 DEF OpToRel
  <2>3. QED
    BY <2>1, <2>2
<1>3. QED
  BY <1>2

\* What a fold over D solves, with the step `step` and the elements taken in the
\* order `last` says: that of a set is taken after all others of it.
Solves(f, D, base, step, last) ==
  f = [t \in SUBSET D |->
         IF t = {} THEN base ELSE step[last[t]][f[t \ {last[t]}]]]

\* An order in which the elements of D may be taken.
Takes(last, D) == \A t \in SUBSET D : t # {} => last[t] \in t

\* A fold over finitely many elements whose step stays within V.
Foldable(D, V, base, step, last) ==
  IsFiniteSet(D) /\ base \in V /\ Takes(last, D) /\ step \in [D -> [V -> V]]

Solvable(D, V, base, step, last) ==
  \E f \in [SUBSET D -> V] : Solves(f, D, base, step, last)

\* Taking the last element from a finite set leaves a smaller one.
LEMMA OneFewer ==
  ASSUME NEW D, IsFiniteSet(D), NEW t \in SUBSET D, NEW x \in t
  PROVE  /\ Cardinality(t) \in Nat /\ Cardinality(t \ {x}) \in Nat
         /\ Cardinality(t \ {x}) = Cardinality(t) - 1
         /\ t \ {x} \in SUBSET D
<1>1. IsFiniteSet(t) /\ IsFiniteSet(t \ {x})
  BY FS_Subset
<1>2. Cardinality(t) \in Nat /\ Cardinality(t \ {x}) \in Nat
  BY <1>1, FS_CardinalityType
<1>3. Cardinality(t \ {x}) = Cardinality(t) - 1
  BY <1>1, FS_RemoveElement
<1>4. QED
  BY <1>2, <1>3

\* A fold whose step stays within V has a solution, and its values are in V.
LEMMA FoldSolution ==
  ASSUME NEW D, NEW V, NEW base, NEW step, NEW last, Foldable(D, V, base, step, last)
  PROVE  Solvable(D, V, base, step, last)
<1> USE DEF Foldable, Solvable, Takes
<1> DEFINE Upto(n) == {t \in SUBSET D : Cardinality(t) <= n}
           ValueAt(f, t) == IF t = {} THEN base ELSE step[last[t]][f[t \ {last[t]}]]
           Has(n) == \E f \in [Upto(n) -> V] : \A t \in Upto(n) : f[t] = ValueAt(f, t)
           Lacks == {n \in Nat : ~Has(n)}
<1>1. \A t \in SUBSET D : Cardinality(t) \in Nat
  BY FS_Subset, FS_CardinalityType
<1>2. Has(0)
  <2> DEFINE f == [t \in Upto(0) |-> base]
  <2>1. \A t \in Upto(0) : t = {}
    <3> SUFFICES ASSUME NEW t \in Upto(0), t # {} PROVE FALSE
      OBVIOUS
    <3>1. t \in SUBSET D /\ Cardinality(t) <= 0
      OBVIOUS
    <3>2. last[t] \in t
      BY <3>1
    <3> HIDE DEF Upto, Has, Lacks
    <3>3. Cardinality(t) \in Nat /\ Cardinality(t \ {last[t]}) \in Nat
          /\ Cardinality(t \ {last[t]}) = Cardinality(t) - 1
      BY <3>1, <3>2, OneFewer
    <3>4. QED
      BY ONLY <3>1, <3>3
  <2>2. f \in [Upto(0) -> V] /\ \A t \in Upto(0) : f[t] = ValueAt(f, t)
    BY <2>1
  <2>3. QED
    BY <2>2
<1>3. ASSUME NEW n \in Nat, Has(n)
      PROVE  Has(n + 1)
  <2>1. PICK f \in [Upto(n) -> V] : \A t \in Upto(n) : f[t] = ValueAt(f, t)
    BY <1>3
  <2> DEFINE e == [t \in Upto(n + 1) |-> ValueAt(f, t)]
  <2>2. ASSUME NEW t \in Upto(n + 1), t # {}
        PROVE  last[t] \in t /\ last[t] \in D /\ t \ {last[t]} \in Upto(n)
    <3>1. last[t] \in t /\ t \in SUBSET D /\ Cardinality(t) <= n + 1
      BY <2>2
    <3>2. /\ Cardinality(t) \in Nat /\ Cardinality(t \ {last[t]}) \in Nat
          /\ Cardinality(t \ {last[t]}) = Cardinality(t) - 1
      BY ONLY <3>1, OneFewer, IsFiniteSet(D)
    <3>3. Cardinality(t \ {last[t]}) <= n
      BY ONLY <3>1, <3>2, n \in Nat
    <3>4. QED
      BY <3>1, <3>3
  <2>3. ASSUME NEW t \in Upto(n + 1)
        PROVE  e[t] \in V
    <3>1. CASE t = {}
      BY <3>1
    <3>2. CASE t # {}
      BY <2>2, <3>2
    <3>3. QED
      BY <3>1, <3>2
  <2>4. ASSUME NEW t \in Upto(n)
        PROVE  t \in Upto(n + 1) /\ e[t] = f[t]
    <3>1. t \in SUBSET D /\ Cardinality(t) \in Nat /\ Cardinality(t) <= n
      BY <1>1
    <3>2. Cardinality(t) <= n + 1
      BY ONLY <3>1, n \in Nat
    <3>3. t \in Upto(n + 1)
      BY <3>1, <3>2
    <3> HIDE DEF Upto, ValueAt
    <3>4. f[t] = ValueAt(f, t)
      BY <2>1
    <3>5. QED
      BY <3>3, <3>4
  <2>5. ASSUME NEW t \in Upto(n + 1)
        PROVE  e[t] = ValueAt(e, t)
    <3>1. CASE t = {}
      BY <3>1
    <3>2. CASE t # {}
      <4>1. e[t \ {last[t]}] = f[t \ {last[t]}]
        BY <2>2, <2>4, <3>2
      <4>2. QED
        BY <3>2, <4>1
    <3>3. QED
      BY <3>1, <3>2
  <2>6. e \in [Upto(n + 1) -> V]
    BY <2>3
  <2>7. QED
    BY <2>5, <2>6
<1>4. Lacks = {}
  <2>1. SUFFICES ASSUME Lacks # {} PROVE FALSE
    OBVIOUS
  <2> HIDE DEF Has
  <2>2. PICK n \in Lacks : \A m \in Lacks : n <= m
    BY <2>1, LeastNumber
  <2>3. n # 0 /\ n \in Nat
    BY <1>2
  <2>4. Has(n - 1) /\ n - 1 \in Nat
    BY <2>2, <2>3
  <2>5. Has((n - 1) + 1)
    BY <1>3, <2>4
  <2>6. (n - 1) + 1 = n
    BY <2>3
  <2>7. QED
    BY <2>5, <2>6
<1>5. Has(Cardinality(D))
  BY <1>1, <1>4
<1>6. Upto(Cardinality(D)) = SUBSET D
  <2>1. \A t \in SUBSET D : Cardinality(t) <= Cardinality(D)
    BY FS_Subset
  <2>2. QED
    BY <2>1
<1>7. PICK f \in [SUBSET D -> V] : \A t \in SUBSET D : f[t] = ValueAt(f, t)
  BY <1>5, <1>6
<1>8. Solves(f, D, base, step, last)
  <2>1. f = [t \in SUBSET D |-> f[t]]
    OBVIOUS
  <2>2. QED
    BY <1>7, <2>1 DEF Solves
<1>9. QED
  BY <1>8

\* What holds of the start and is kept by each step of a fold holds of its values:
\* Good[t] is what may be after the elements of t.
LEMMA FoldInvariant ==
  ASSUME NEW D, IsFiniteSet(D), NEW f, NEW Good, NEW last,
         Takes(last, D),
         f[{}] \in Good[{}],
         \A t \in SUBSET D : t # {} /\ f[t \ {last[t]}] \in Good[t \ {last[t]}] => f[t] \in Good[t]
  PROVE  \A t \in SUBSET D : f[t] \in Good[t]
<1> DEFINE Wrong == {t \in SUBSET D : f[t] \notin Good[t]}
           Counts == {Cardinality(t) : t \in Wrong}
<1>1. SUFFICES ASSUME Wrong # {} PROVE FALSE
  OBVIOUS
<1>2. \A t \in SUBSET D : Cardinality(t) \in Nat
  BY FS_Subset, FS_CardinalityType
<1>3. PICK n \in Counts : \A m \in Counts : n <= m
  <2>1. Counts \in SUBSET Nat /\ Counts # {}
    BY <1>1, <1>2
  <2> HIDE DEF Counts
  <2>2. QED
    BY <2>1, LeastNumber
<1>4. PICK t \in Wrong : n = Cardinality(t)
  BY <1>3
<1>5. t # {} /\ last[t] \in t
  BY <1>4 DEF Takes
<1>6. t \ {last[t]} \in Wrong
  BY <1>4, <1>5
<1>7. Cardinality(t \ {last[t]}) = n - 1 /\ n \in Nat
  BY <1>4, <1>5, OneFewer
<1>8. QED
  BY <1>3, <1>6, <1>7

\* Finitely many natural numbers have a bound.
LEMMA FiniteBounded ==
  ASSUME NEW S \in SUBSET Nat, IsFiniteSet(S)
  PROVE  \E n \in Nat : \A m \in S : m <= n
<1> DEFINE Bounded(t) == \E n \in Nat : \A m \in t : m <= n
           last == [t \in SUBSET S |-> CHOOSE x \in t : TRUE]
           f == [t \in SUBSET S |-> t]
           Good == [t \in SUBSET S |-> IF Bounded(t) THEN {t} ELSE {}]
<1>1. \A t \in SUBSET S : t # {} => last[t] \in t
  OBVIOUS
<1>2. f[{}] \in Good[{}]
  <2>1. Bounded({})
    <3>1. \A m \in {} : m <= 0
      OBVIOUS
    <3>2. QED
      BY <3>1
  <2>2. QED
    BY <2>1
<1>3. ASSUME NEW t \in SUBSET S, t # {}, f[t \ {last[t]}] \in Good[t \ {last[t]}]
      PROVE  f[t] \in Good[t]
  <2> DEFINE x == last[t]
  <2>1. Bounded(t \ {x})
    BY <1>3
  <2>2. PICK n \in Nat : \A m \in t \ {x} : m <= n
    BY <2>1
  <2>3. x \in Nat /\ t \in SUBSET Nat
    BY <1>1, <1>3
  <2> HIDE DEF x
  <2>4. \A m \in t : m \in Nat /\ (m <= n \/ m = x)
    BY <2>2, <2>3
  <2>5. n + x \in Nat
    BY <2>3
  <2>6. \A m \in t : m <= n + x
    BY <2>3, <2>4
  <2>7. Bounded(t)
    BY <2>5, <2>6
  <2>8. QED
    BY <2>7
<1> HIDE DEF last, f, Good
<1>4. \A t \in SUBSET S : f[t] \in Good[t]
  <2>1. Takes(last, S)
    BY <1>1 DEF Takes
  <2>2. QED
    BY <1>2, <1>3, <2>1, FoldInvariant
<1>5. Bounded(S)
  BY <1>4 DEF f, Good
<1>6. QED
  BY <1>5

\* The greatest and the least of finitely many natural numbers.
LEMMA MaxOfFinite ==
  ASSUME NEW S \in SUBSET Nat, IsFiniteSet(S), S # {}
  PROVE  Max(S) \in S /\ \A n \in S : n <= Max(S)
<1> DEFINE Upper == {n \in Nat : \A m \in S : m <= n}
<1>1. Upper \in SUBSET Nat /\ Upper # {}
  BY FiniteBounded
<1>2. PICK n \in Upper : \A m \in Upper : n <= m
  BY <1>1, LeastNumber
<1>3. n \in S
  <2>1. SUFFICES ASSUME n \notin S PROVE FALSE
    OBVIOUS
  <2>2. PICK x \in S : TRUE
    OBVIOUS
  <2>3. n # 0 /\ n \in Nat
    BY <1>2, <2>1, <2>2
  <2>4. \A m \in S : m <= n - 1
    BY <1>2, <2>1, <2>3
  <2>5. n - 1 \in Upper
    BY <2>3, <2>4
  <2>6. QED
    BY <1>2, <2>3, <2>5
<1>4. \E x \in S : \A y \in S : x >= y
  BY <1>2, <1>3
<1>5. Max(S) \in S /\ \A y \in S : Max(S) >= y
  BY <1>4 DEF Max
<1>6. QED
  BY <1>5

\* The least of natural numbers.
LEMMA MinOfNumbers ==
  ASSUME NEW S \in SUBSET Nat, S # {}
  PROVE  Min(S) \in S /\ \A n \in S : Min(S) <= n
<1>1. \E x \in S : \A y \in S : x <= y
  BY LeastNumber
<1>2. QED
  BY <1>1 DEF Min

\* What a function makes of a finite set is finite.
LEMMA ImageFinite ==
  ASSUME NEW S, IsFiniteSet(S), NEW f
  PROVE  IsFiniteSet({f[x] : x \in S}) /\ Cardinality({f[x] : x \in S}) <= Cardinality(S)
<1> DEFINE T == {f[x] : x \in S}
           g == [x \in S |-> f[x]]
<1>1. g \in Surjection(S, T)
  BY DEF Surjection
<1>2. QED
  BY <1>1, FS_Surjection

\* A function on a finite set whose values are taken once has as many of them.
LEMMA InjectionCounts ==
  ASSUME NEW S, NEW T, IsFiniteSet(T), NEW f \in [S -> T],
         \A x, y \in S : f[x] = f[y] => x = y
  PROVE  IsFiniteSet(S) /\ Cardinality(S) <= Cardinality(T)
<1>1. f \in Injection(S, T)
  BY DEF Injection, IsInjective
<1>2. QED
  BY <1>1, FS_Injection

\* The last index of a sequence not walked along yet.
LEMMA LastIndex ==
  ASSUME NEW T, NEW seq \in Seq(T)
  PROVE  /\ IsFiniteSet(DOMAIN seq)
         /\ \A t \in SUBSET DOMAIN seq : t # {} => Max(t) \in t
         /\ \A i \in DOMAIN seq : seq[i] \in T
<1>1. DOMAIN seq = 1..Len(seq) /\ Len(seq) \in Nat
  OBVIOUS
<1>2. IsFiniteSet(DOMAIN seq)
  BY <1>1, FS_Interval
<1>3. \A t \in SUBSET DOMAIN seq : t # {} => Max(t) \in t
  <2> SUFFICES ASSUME NEW t \in SUBSET DOMAIN seq, t # {}
               PROVE  Max(t) \in t
    OBVIOUS
  <2>1. IsFiniteSet(t)
    BY <1>2, FS_Subset
  <2>2. t \in SUBSET Nat
    BY <1>1
  <2>3. QED
    BY <2>1, <2>2, MaxOfFinite
<1>4. QED
  BY <1>2, <1>3
-----------------------------------------------------------------------------
(* What is true between the transactions.                                  *)

\* The name a lot has for its provider's slug or for its number.
NameAt(source) == IF source \in Range(OldLots) THEN OldName[source] ELSE source

\* A number is only ever given to the lot that was made for it, and beside the lot
\* of its slug a name has at most one.
LotsInv(ls) ==
  /\ ls \subseteq Lot
  /\ IsFiniteSet(ls)
  /\ \A l, m \in ls : l.id = m.id \/ l.source = m.source => l = m
  /\ \A l \in ls : l.legacy \in {None, l.source} /\ l.name = NameAt(l.source)
  /\ \A l, m \in ls : l.name = m.name /\ l.source # Slug(l.name) /\ m.source # Slug(m.name) =>
                        l = m

\* Only rows of one source share an id.
RowsInv(ls, rs) ==
  /\ rs \subseteq Row
  /\ IsFiniteSet(rs)
  /\ \A r, s \in rs : r.lot = s.lot /\ r.at = s.at /\ r.source = s.source => r = s
  /\ \A r, s \in rs : r.id = s.id => r.source = s.source
  /\ LotsIn(rs) \subseteq {l.id : l \in ls}

RulesInv(ls, rs) ==
  /\ rs \subseteq Rule
  /\ \A r, s \in rs : r.lot = s.lot /\ r.day = s.day => r = s
  /\ {r.lot : r \in rs} \subseteq {Generic} \cup {l.id : l \in ls}

IInv == LotsInv(lots) /\ RowsInv(lots, rows) /\ RulesInv(lots, rules)

\* The invariant says more than the type invariant: constraints of the tables.
LEMMA IInvTypeOK == IInv => TypeOK
<1> SUFFICES ASSUME IInv PROVE TypeOK
  OBVIOUS
<1>1. \A l, m \in lots : l.legacy = m.legacy /\ l.legacy # None => l = m
  BY DEF IInv, LotsInv
<1>2. QED
  BY <1>1 DEF IInv, LotsInv, RowsInv, RulesInv, TypeOK

\* A number given to a new record is used by none.
LEMMA NextIdFresh ==
  ASSUME NEW records, IsFiniteSet(records), \A r \in records : r.id \in Nat \ {0}
  PROVE  NextId(records) \in Nat \ {0} /\ \A r \in records : r.id < NextId(records)
<1> DEFINE idOf == [r \in records |-> r.id]
           ids == {idOf[r] : r \in records}
           known == {r.id : r \in records} \cup {0}
<1>1. IsFiniteSet(ids)
  BY ImageFinite
<1>2. known = ids \cup {0}
  OBVIOUS
<1>3. IsFiniteSet(known)
  BY <1>1, <1>2, FS_AddElement
<1>4. known \in SUBSET Nat /\ known # {}
  OBVIOUS
<1>5. Max(known) \in known /\ \A n \in known : n <= Max(known)
  BY <1>3, <1>4, MaxOfFinite
<1>6. NextId(records) = Max(known) + 1
  BY DEF NextId
<1>7. Max(known) \in Nat
  BY <1>4, <1>5
<1>8. \A r \in records : r.id \in known /\ r.id \in Nat
  OBVIOUS
<1>9. \A r \in records : r.id \in Nat /\ r.id <= Max(known)
  BY <1>5, <1>8
<1>10. QED
  BY ONLY <1>6, <1>7, <1>9

\* What a sequence lists is what its elements are.
LEMMA Listed ==
  /\ \A i \in DOMAIN Names : Names[i] \in Range(Names)
  /\ \A i \in DOMAIN OldLots : OldLots[i] \in Range(OldLots)
  /\ \A old \in Range(OldLots) : OldName[old] \in Range(OldName)
BY NamesAssumption DEF Range

\* The name of a slug is the slug, and that of a number the old server's.
LEMMA NamesOfSources ==
  /\ \A name \in Range(Names) : NameAt(Slug(name)) = name /\ NameAt(name) = name
  /\ \A old \in Range(OldLots) : NameAt(old) = OldName[old] /\ old \notin Range(Names)
BY NamesAssumption DEF NameAt, Slug

\* The lots of a name stay one, or are no others than before.
NotSplit(old, new) ==
  \A name \in Range(Names) \cup Range(OldName) :
    \/ \A l \in Named(new, name) : \E m \in Named(old, name) : m.source = l.source
    \/ \A l, m \in Named(new, name) : l = m

\* A lot is known by its id and its source.
SameLots(old, new) ==
  \A l \in old : \E m \in new : m.id = l.id /\ m.source = l.source /\ m.name = l.name

\* A new lot is made only for a name that has none.
LEMMA LotAdded ==
  ASSUME NEW old, NEW ls, LotsInv(ls), NotSplit(old, ls), SameLots(old, ls),
         NEW source \in Range(Names) \cup Range(OldLots),
         NEW legacy \in {None, source}, legacy \in Range(OldLots) \cup {None},
         Named(ls, NameAt(source)) = {}
  PROVE  LET new == [id |-> NextId(ls), source |-> source, legacy |-> legacy,
                     name |-> NameAt(source)]
         IN LotsInv(ls \cup {new}) /\ NotSplit(old, ls \cup {new})
            /\ SameLots(old, ls \cup {new})
<1> DEFINE new == [id |-> NextId(ls), source |-> source, legacy |-> legacy,
                   name |-> NameAt(source)]
<1>1. NextId(ls) \in Nat \ {0} /\ \A l \in ls : l.id \in Nat /\ l.id < NextId(ls)
  <2>1. IsFiniteSet(ls) /\ \A l \in ls : l.id \in Nat \ {0}
    BY DEF LotsInv, Lot
  <2>2. QED
    BY <2>1, NextIdFresh
<1>2. new \in Lot
  BY <1>1, Listed, NamesOfSources DEF Lot
<1>3. new.id = NextId(ls) /\ new.source = source /\ new.legacy = legacy
      /\ new.name = NameAt(source)
  OBVIOUS
<1> HIDE DEF new
<1>4. IsFiniteSet(ls \cup {new})
  BY FS_AddElement DEF LotsInv
<1>5. \A l \in ls : l.id # new.id /\ l.name # new.name
  BY <1>1, <1>3 DEF Named
<1>6. \A l \in ls : l.source # new.source
  BY <1>3, <1>5 DEF LotsInv
<1>7. LotsInv(ls \cup {new})
  BY <1>2, <1>3, <1>4, <1>5, <1>6 DEF LotsInv
<1>8. NotSplit(old, ls \cup {new})
  <2> SUFFICES ASSUME NEW name \in Range(Names) \cup Range(OldName)
               PROVE  \/ \A l \in Named(ls \cup {new}, name) :
                           \E m \in Named(old, name) : m.source = l.source
                      \/ \A l, m \in Named(ls \cup {new}, name) : l = m
    BY DEF NotSplit
  <2>1. CASE name = NameAt(source)
    BY <1>5, <1>3, <2>1 DEF Named
  <2>2. CASE name # NameAt(source)
    <3>1. Named(ls \cup {new}, name) = Named(ls, name)
      BY <1>3, <2>2 DEF Named
    <3>2. QED
      BY <3>1 DEF NotSplit
  <2>3. QED
    BY <2>1, <2>2
<1>9. SameLots(old, ls \cup {new})
  BY DEF SameLots
<1>10. QED
  BY <1>7, <1>8, <1>9 DEF new
-----------------------------------------------------------------------------
(* A collection.                                                           *)

\* What a collection at instant t has made of the lots and rows so far: it only adds
\* lots, and live rows of that instant with an id of their own.
Stored(t, st) ==
  /\ LotsInv(st.lots) /\ NotSplit(lots, st.lots) /\ SameLots(lots, st.lots)
  /\ RowsInv(st.lots, st.rows)
  /\ rows \subseteq st.rows
  /\ \A r \in st.rows \ rows : r.source = "live" /\ r.at = t /\ r.id = NextId(rows)

StoredStates(t) ==
  {st \in [lots : SUBSET Lot, rows : SUBSET Row, id : {NextId(rows)}] : Stored(t, st)}

\* A lot is found for the observation, or made.
LEMMA LotFound ==
  ASSUME NEW old, NEW ls, LotsInv(ls), NotSplit(old, ls), SameLots(old, ls),
         NEW name \in Range(Names)
  PROVE  LET made == GetOrCreateLot(ls, name)
         IN /\ LotsInv(made) /\ NotSplit(old, made) /\ SameLots(old, made)
            /\ ls \subseteq made
            /\ \E l \in made : l \in Identified(made, name)
<1>1. CASE Identified(ls, name) # {}
  <2>1. GetOrCreateLot(ls, name) = ls
    BY <1>1 DEF GetOrCreateLot
  <2>2. Identified(ls, name) \subseteq ls
    BY DEF Identified, Named
  <2>3. QED
    BY <1>1, <2>1, <2>2
<1>2. CASE Identified(ls, name) = {}
  <2> DEFINE new == [id |-> NextId(ls), source |-> Slug(name), legacy |-> None, name |-> name]
  <2>1. Named(ls, name) = {}
    BY <1>2 DEF Identified
  <2>2. GetOrCreateLot(ls, name) = ls \cup {new}
    BY <1>2 DEF GetOrCreateLot
  <2>3. Slug(name) = name /\ NameAt(Slug(name)) = name
    BY NamesOfSources DEF Slug
  <2>4. LotsInv(ls \cup {new}) /\ NotSplit(old, ls \cup {new}) /\ SameLots(old, ls \cup {new})
    BY <2>1, <2>3, LotAdded
  <2>5. new \in Identified(ls \cup {new}, name)
    BY DEF Identified
  <2>6. QED
    BY <2>2, <2>4, <2>5
<1>3. QED
  BY <1>1, <1>2

\* One observation is stored as the next.
LEMMA ObservationStored ==
  ASSUME IInv, NEW t \in Times, NEW st \in StoredStates(t),
         NEW name \in Range(Names), NEW free \in Frees
  PROVE  StoreObservation(st, [name |-> name, at |-> t, free |-> free]) \in StoredStates(t)
<1> DEFINE made == GetOrCreateLot(st.lots, name)
           lot == (CHOOSE l \in Identified(made, name) : TRUE).id
           new == [id |-> st.id, lot |-> lot, source |-> "live", at |-> t, free |-> free]
           known == \E r \in st.rows : r.lot = lot /\ r.at = t /\ r.source = "live"
           after == IF known THEN st.rows ELSE st.rows \cup {new}
           end == [st EXCEPT !.lots = made, !.rows = after]
<1>1. StoreObservation(st, [name |-> name, at |-> t, free |-> free]) = end
  BY DEF StoreObservation
<1>2. st \in [lots : SUBSET Lot, rows : SUBSET Row, id : {NextId(rows)}] /\ Stored(t, st)
  BY DEF StoredStates
<1>3. /\ LotsInv(made) /\ NotSplit(lots, made) /\ SameLots(lots, made)
      /\ st.lots \subseteq made
      /\ \E l \in made : l \in Identified(made, name)
  BY <1>2, LotFound DEF Stored
<1>4. \E l \in made : l.id = lot
  <2>1. Identified(made, name) \subseteq made /\ Identified(made, name) # {}
    BY <1>3 DEF Identified, Named
  <2>2. QED
    BY <2>1
<1>5. lot \in Nat /\ \A l \in made : l.id \in Nat \ {0}
  BY <1>3, <1>4 DEF LotsInv, Lot
<1>6. st.id = NextId(rows) /\ NextId(rows) \in Nat \ {0} /\ \A r \in rows : r.id < NextId(rows)
  <2>1. IsFiniteSet(rows) /\ \A r \in rows : r.id \in Nat \ {0}
    BY DEF IInv, RowsInv, Row
  <2>2. QED
    BY <1>2, <2>1, NextIdFresh
<1>7. new \in Row
  BY <1>5, <1>6 DEF Row
<1>8. new.id = NextId(rows) /\ new.lot = lot /\ new.source = "live" /\ new.at = t
  BY <1>6
<1> HIDE DEF made, lot, new
<1>9. after \in SUBSET Row /\ IsFiniteSet(after) /\ rows \subseteq after
  BY <1>2, <1>7, FS_AddElement DEF Stored, RowsInv
<1>10. \A r \in after \ rows : r.source = "live" /\ r.at = t /\ r.id = NextId(rows)
  BY <1>2, <1>8 DEF Stored
<1>11. \A r, s \in after : r.lot = s.lot /\ r.at = s.at /\ r.source = s.source => r = s
  <2>1. CASE known
    BY <1>2, <2>1 DEF Stored, RowsInv
  <2>2. CASE ~known
    BY <1>2, <1>8, <2>2 DEF Stored, RowsInv
  <2>3. QED
    BY <2>1, <2>2
<1>12. \A r, s \in after : r.id = s.id => r.source = s.source
  <2> SUFFICES ASSUME NEW r \in after, NEW s \in after, r.id = s.id
               PROVE  r.source = s.source
    OBVIOUS
  <2>1. \A x \in rows : x.id \in Nat
    BY DEF IInv, RowsInv, Row
  <2>2. r \in rows <=> s \in rows
    BY <1>6, <1>10, <2>1
  <2>3. CASE r \in rows
    BY <2>2, <2>3 DEF IInv, RowsInv
  <2>4. CASE r \notin rows
    BY <1>10, <2>2, <2>4
  <2>5. QED
    BY <2>3, <2>4
<1>13. LotsIn(after) \subseteq {l.id : l \in made}
  BY <1>2, <1>3, <1>4, <1>8 DEF Stored, RowsInv, LotsIn
<1>14. RowsInv(made, after)
  BY <1>9, <1>11, <1>12, <1>13 DEF RowsInv
<1> HIDE DEF after
<1>15. end \in [lots : SUBSET Lot, rows : SUBSET Row, id : {NextId(rows)}]
       /\ end.lots = made /\ end.rows = after
  BY <1>2, <1>3, <1>9 DEF LotsInv
<1> HIDE DEF end
<1>16. Stored(t, end)
  BY <1>3, <1>9, <1>10, <1>14, <1>15 DEF Stored
<1>17. QED
  BY <1>1, <1>15, <1>16 DEF StoredStates

\* Walking along the provider's answer, a collection stays within such states.
LEMMA ObservationsStored ==
  ASSUME IInv, NEW t \in Times, NEW reported \in SUBSET Range(Names),
         NEW free \in [reported -> Frees], NEW fees, NEW newest, Collect(t, free, fees, newest)
  PROVE  \E end \in StoredStates(t) :
           /\ lots' = end.lots /\ rows' = end.rows
           /\ rules' = StoreFeeRules(end.lots, rules, fees, newest)
<1> DEFINE store(st, n) ==
             IF n \notin DOMAIN free THEN st
             ELSE StoreObservation(st, [name |-> n, at |-> t, free |-> free[n]])
           base == [lots |-> lots, rows |-> rows, id |-> NextId(rows)]
           V == StoredStates(t)
           D == DOMAIN Names
           Walks(f) == f = [s \in SUBSET D |-> IF s = {} THEN base
                                               ELSE store(f[s \ {Max(s)}], Names[Max(s)])]
           walk == CHOOSE f : Walks(f)
<1>1. walk[D] = FoldLeft(store, base, Names)
  BY DEF FoldLeft, MapThenFoldSet
<1>2. /\ lots' = walk[D].lots /\ rows' = walk[D].rows
      /\ rules' = StoreFeeRules(walk[D].lots, rules, fees, newest)
  BY <1>1 DEF Collect
<1>3. base \in V
  <2>1. base \in [lots : SUBSET Lot, rows : SUBSET Row, id : {NextId(rows)}]
    BY DEF IInv, LotsInv, RowsInv
  <2>2. NotSplit(lots, lots) /\ SameLots(lots, lots)
    BY DEF NotSplit, SameLots
  <2>3. Stored(t, base)
    BY <2>2 DEF Stored, IInv
  <2>4. QED
    BY <2>1, <2>3 DEF StoredStates
<1>4. \A st \in V, i \in D : store(st, Names[i]) \in V
  <2> SUFFICES ASSUME NEW st \in V, NEW i \in D
               PROVE  store(st, Names[i]) \in V
    OBVIOUS
  <2>1. CASE Names[i] \notin DOMAIN free
    BY <2>1
  <2>2. CASE Names[i] \in DOMAIN free
    <3>1. Names[i] \in Range(Names) /\ free[Names[i]] \in Frees
      BY <2>2
    <3>2. store(st, Names[i]) = StoreObservation(st, [name |-> Names[i], at |-> t,
                                                      free |-> free[Names[i]]])
      BY <2>2
    <3> HIDE DEF store
    <3>3. QED
      BY <3>1, <3>2, ObservationStored
  <2>3. QED
    BY <2>1, <2>2
<1>5. IsFiniteSet(D) /\ \A s \in SUBSET D : s # {} => Max(s) \in s
  BY NamesAssumption, LastIndex
<1> DEFINE last == [s \in SUBSET D |-> Max(s)]
           step == [i \in D |-> [st \in V |-> store(st, Names[i])]]
<1> HIDE DEF store, base, V
<1>6. step \in [D -> [V -> V]] /\ Takes(last, D)
  BY <1>4, <1>5 DEF Takes
<1>7. \A i \in D, st \in V : step[i][st] = store(st, Names[i])
  OBVIOUS
<1>8. \A s \in SUBSET D : last[s] = Max(s)
  OBVIOUS
<1> HIDE DEF last, step
<1>9. PICK f \in [SUBSET D -> V] : Solves(f, D, base, step, last)
  <2>1. Foldable(D, V, base, step, last)
    BY <1>3, <1>5, <1>6 DEF Foldable
  <2>2. Solvable(D, V, base, step, last)
    BY <2>1, FoldSolution
  <2>3. QED
    BY <2>2 DEF Solvable
<1>10. Walks(f)
  <2> DEFINE Then(s) == IF s = {} THEN base ELSE store(f[s \ {Max(s)}], Names[Max(s)])
  <2>1. ASSUME NEW s \in SUBSET D
        PROVE  (IF s = {} THEN base ELSE step[last[s]][f[s \ {last[s]}]]) = Then(s)
    <3>1. CASE s = {}
      BY <3>1
    <3>2. CASE s # {}
      <4>1. Max(s) \in D /\ s \ {Max(s)} \in SUBSET D /\ f[s \ {Max(s)}] \in V
        BY <1>5, <3>2
      <4>2. QED
        BY <1>7, <1>8, <3>2, <4>1
    <3>3. QED
      BY <3>1, <3>2
  <2>2. f = [s \in SUBSET D |-> IF s = {} THEN base ELSE step[last[s]][f[s \ {last[s]}]]]
    BY <1>9 DEF Solves
  <2> HIDE DEF Then
  <2>3. f = [s \in SUBSET D |-> Then(s)]
    BY <2>1, <2>2
  <2>4. QED
    BY <2>3 DEF Then
<1>11. Walks(walk)
  BY <1>10
<1> HIDE DEF walk
<1>12. walk[{}] = base /\ \A s \in SUBSET D : s # {} =>
                            walk[s] = store(walk[s \ {Max(s)}], Names[Max(s)])
  BY <1>11
<1> DEFINE Good == [s \in SUBSET D |-> V]
<1>13. \A s \in SUBSET D : walk[s] \in Good[s]
  <2>1. walk[{}] \in Good[{}]
    BY <1>3, <1>12
  <2>2. ASSUME NEW s \in SUBSET D, s # {}, walk[s \ {last[s]}] \in Good[s \ {last[s]}]
        PROVE  walk[s] \in Good[s]
    <3>1. Max(s) \in D /\ s \ {Max(s)} \in SUBSET D /\ last[s] = Max(s)
      BY <1>5, <1>8, <2>2
    <3>2. walk[s \ {Max(s)}] \in V
      BY <2>2, <3>1
    <3>3. walk[s] = store(walk[s \ {Max(s)}], Names[Max(s)])
      BY <1>12, <2>2
    <3>4. walk[s] \in V
      BY ONLY <1>4, <3>1, <3>2, <3>3
    <3>5. QED
      BY <2>2, <3>4
  <2> HIDE DEF Good
  <2>3. QED
    BY <1>5, <1>6, <2>1, <2>2, FoldInvariant
<1>14. walk[D] \in V
  BY <1>13
<1>15. QED
  BY <1>2, <1>14 DEF V

\* A fee rule is stored for lots there are, or for the airport.
LEMMA RuleForKnownLots ==
  ASSUME NEW ls, LotsInv(ls), NEW name, NEW newest
  PROVE  LotsOfRule(ls, name, newest) \subseteq {Generic} \cup {l.id : l \in ls}
<1> DEFINE exact == {l.id : l \in Named(ls, name)}
           idOf == [l \in Named(ls, name) |-> l.id]
<1>1. Named(ls, name) \subseteq ls /\ IsFiniteSet(Named(ls, name))
  BY FS_Subset DEF Named, LotsInv
<1>2. exact = {idOf[l] : l \in Named(ls, name)}
  OBVIOUS
<1>3. IsFiniteSet(exact) /\ exact \in SUBSET Nat
  <2>1. IsFiniteSet({idOf[l] : l \in Named(ls, name)})
    BY <1>1, ImageFinite
  <2>2. QED
    BY <1>1, <1>2, <2>1 DEF LotsInv, Lot
<1>4. exact # {} => Max(exact) \in exact /\ Min(exact) \in exact
  BY <1>3, MaxOfFinite, MinOfNumbers
<1>5. exact \subseteq {l.id : l \in ls}
  BY <1>1
<1> DEFINE prefixed == {l.id : l \in {x \in ls : x.name \in StartsWith[name]}}
<1>6. prefixed \subseteq {l.id : l \in ls}
  OBVIOUS
<1>7. LotsOfRule(ls, name, newest) =
        CASE exact # {}                          -> {IF newest THEN Max(exact) ELSE Min(exact)}
          [] exact = {} /\ Incheon /\ prefixed # {} -> prefixed
          [] OTHER                               -> {Generic}
  BY DEF LotsOfRule
<1> HIDE DEF exact, prefixed
<1>8. QED
  BY <1>4, <1>5, <1>6, <1>7

\* The rules once one is stored: it replaces that of its lots for its kind of day.
WithRule(rs, rule, ids) ==
  {r \in rs : r.lot \notin ids \/ r.day # rule.day} \cup
  {[lot |-> id, day |-> rule.day, tariff |-> rule.tariff] : id \in ids}

\* They are as before.
LEMMA RuleStored ==
  ASSUME NEW ls, LotsInv(ls), NEW rs, RulesInv(ls, rs), NEW rule \in FeeRule,
         NEW ids, ids \subseteq {Generic} \cup {l.id : l \in ls}
  PROVE  RulesInv(ls, WithRule(rs, rule, ids))
<1> DEFINE kept == {r \in rs : r.lot \notin ids \/ r.day # rule.day}
           made == {[lot |-> id, day |-> rule.day, tariff |-> rule.tariff] : id \in ids}
<1>1. rule.day \in DayTypes /\ rule.tariff \in Tariff
  BY DEF FeeRule
<1>2. ids \subseteq Nat
  BY DEF LotsInv, Lot, Generic
<1>3. made \subseteq Rule
  BY <1>1, <1>2 DEF Rule
<1>4. \A r \in made : r.lot \in ids /\ r.day = rule.day /\ r.tariff = rule.tariff
  OBVIOUS
<1>5. \A r, s \in made : r.lot = s.lot => r = s
  OBVIOUS
<1>6. \A r \in kept : r \in rs /\ (r.lot \notin ids \/ r.day # rule.day)
  OBVIOUS
<1> HIDE DEF kept, made
<1>7. \A r, s \in kept \cup made : r.lot = s.lot /\ r.day = s.day => r = s
  BY <1>4, <1>5, <1>6 DEF RulesInv
<1>8. {r.lot : r \in kept \cup made} \subseteq {Generic} \cup {l.id : l \in ls}
  BY <1>4, <1>6 DEF RulesInv
<1>9. kept \cup made \subseteq Rule
  BY <1>3, <1>6 DEF RulesInv
<1>10. RulesInv(ls, kept \cup made)
  BY <1>7, <1>8, <1>9 DEF RulesInv
<1>11. QED
  BY <1>10 DEF kept, made, WithRule

\* And so, walking along it, is an answer of the fee source.
LEMMA FeesStored ==
  ASSUME NEW ls, LotsInv(ls), NEW stored, RulesInv(ls, stored),
         NEW answer \in Seq(FeeRule), NEW newest
  PROVE  RulesInv(ls, StoreFeeRules(ls, stored, answer, newest))
<1> DEFINE ids(rule) == LotsOfRule(ls, rule.name, newest)
           store(rs, rule) ==
             {r \in rs : r.lot \notin ids(rule) \/ r.day # rule.day} \cup
             {[lot |-> id, day |-> rule.day, tariff |-> rule.tariff] : id \in ids(rule)}
           V == {rs \in SUBSET Rule : RulesInv(ls, rs)}
           D == DOMAIN answer
           Walks(f) == f = [s \in SUBSET D |-> IF s = {} THEN stored
                                               ELSE store(f[s \ {Max(s)}], answer[Max(s)])]
           walk == CHOOSE f : Walks(f)
<1>1. walk[D] = StoreFeeRules(ls, stored, answer, newest)
  BY DEF FoldLeft, MapThenFoldSet, StoreFeeRules
<1>2. stored \in V
  BY DEF RulesInv
<1>3. IsFiniteSet(D) /\ (\A s \in SUBSET D : s # {} => Max(s) \in s)
      /\ \A i \in D : answer[i] \in FeeRule
  BY LastIndex
<1>4. \A rs \in V, i \in D : store(rs, answer[i]) \in V
  <2> SUFFICES ASSUME NEW rs \in V, NEW i \in D
               PROVE  store(rs, answer[i]) \in V
    OBVIOUS
  <2>1. ids(answer[i]) \subseteq {Generic} \cup {l.id : l \in ls}
    BY RuleForKnownLots
  <2> HIDE DEF ids
  <2>2. RulesInv(ls, rs) /\ answer[i] \in FeeRule
    BY <1>3
  <2> DEFINE rule == answer[i]
  <2>3. store(rs, rule) = WithRule(rs, rule, ids(rule))
    BY DEF WithRule
  <2> HIDE DEF store
  <2>4. rule \in FeeRule /\ ids(rule) \subseteq {Generic} \cup {l.id : l \in ls}
    BY <2>1, <2>2
  <2> HIDE DEF rule
  <2>5. RulesInv(ls, WithRule(rs, rule, ids(rule)))
    BY ONLY LotsInv(ls), <2>2, <2>4, RuleStored
  <2>6. RulesInv(ls, store(rs, rule))
    BY <2>3, <2>5
  <2>7. QED
    BY <2>6 DEF RulesInv, rule
<1> DEFINE last == [s \in SUBSET D |-> Max(s)]
           step == [i \in D |-> [rs \in V |-> store(rs, answer[i])]]
<1> HIDE DEF store, V
<1>5. step \in [D -> [V -> V]] /\ Takes(last, D)
  BY <1>3, <1>4 DEF Takes
<1>6. \A i \in D, rs \in V : step[i][rs] = store(rs, answer[i])
  OBVIOUS
<1>7. \A s \in SUBSET D : last[s] = Max(s)
  OBVIOUS
<1> HIDE DEF last, step
<1>8. PICK f \in [SUBSET D -> V] : Solves(f, D, stored, step, last)
  <2>1. Foldable(D, V, stored, step, last)
    BY <1>2, <1>3, <1>5 DEF Foldable
  <2>2. Solvable(D, V, stored, step, last)
    BY <2>1, FoldSolution
  <2>3. QED
    BY <2>2 DEF Solvable
<1>9. Walks(f)
  <2> DEFINE Then(s) == IF s = {} THEN stored ELSE store(f[s \ {Max(s)}], answer[Max(s)])
  <2>1. ASSUME NEW s \in SUBSET D
        PROVE  (IF s = {} THEN stored ELSE step[last[s]][f[s \ {last[s]}]]) = Then(s)
    <3>1. CASE s = {}
      BY <3>1
    <3>2. CASE s # {}
      <4>1. Max(s) \in D /\ s \ {Max(s)} \in SUBSET D /\ f[s \ {Max(s)}] \in V
        BY <1>3, <3>2
      <4>2. QED
        BY <1>6, <1>7, <3>2, <4>1
    <3>3. QED
      BY <3>1, <3>2
  <2>2. f = [s \in SUBSET D |-> IF s = {} THEN stored ELSE step[last[s]][f[s \ {last[s]}]]]
    BY <1>8 DEF Solves
  <2> HIDE DEF Then
  <2>3. f = [s \in SUBSET D |-> Then(s)]
    BY <2>1, <2>2
  <2>4. QED
    BY <2>3 DEF Then
<1>10. Walks(walk)
  BY <1>9
<1> HIDE DEF walk
<1>11. walk[{}] = stored /\ \A s \in SUBSET D : s # {} =>
                              walk[s] = store(walk[s \ {Max(s)}], answer[Max(s)])
  BY <1>10
<1> DEFINE Good == [s \in SUBSET D |-> V]
<1>12. \A s \in SUBSET D : walk[s] \in Good[s]
  <2>1. walk[{}] \in Good[{}]
    BY <1>2, <1>11
  <2>2. ASSUME NEW s \in SUBSET D, s # {}, walk[s \ {last[s]}] \in Good[s \ {last[s]}]
        PROVE  walk[s] \in Good[s]
    <3>1. Max(s) \in D /\ s \ {Max(s)} \in SUBSET D /\ last[s] = Max(s)
      BY <1>3, <1>7, <2>2
    <3>2. walk[s \ {Max(s)}] \in V
      BY <2>2, <3>1
    <3>3. walk[s] = store(walk[s \ {Max(s)}], answer[Max(s)])
      BY <1>11, <2>2
    <3>4. walk[s] \in V
      BY ONLY <1>4, <3>1, <3>2, <3>3
    <3>5. QED
      BY <2>2, <3>4
  <2> HIDE DEF Good
  <2>3. QED
    BY <1>3, <1>5, <2>1, <2>2, FoldInvariant
<1>13. walk[D] \in V
  BY <1>12
<1>14. QED
  BY <1>1, <1>13 DEF V

\* What a collection leaves.
LEMMA CollectKeeps ==
  ASSUME IInv, NEW t \in Times, NEW reported \in SUBSET Range(Names),
         NEW free \in [reported -> Frees], NEW fees \in FeeAnswers, NEW newest,
         Collect(t, free, fees, newest)
  PROVE  /\ LotsInv(lots') /\ RowsInv(lots', rows') /\ RulesInv(lots', rules')
         /\ NotSplit(lots, lots') /\ SameLots(lots, lots')
         /\ rows \subseteq rows'
         /\ \A r \in rows' \ rows : r.source = "live" /\ r.at = t /\ r.id = NextId(rows)
<1>1. PICK end \in StoredStates(t) :
        /\ lots' = end.lots /\ rows' = end.rows
        /\ rules' = StoreFeeRules(end.lots, rules, fees, newest)
  BY ObservationsStored
<1>2. Stored(t, end)
  BY DEF StoredStates
<1>3. RulesInv(end.lots, rules)
  BY <1>2 DEF IInv, RulesInv, Stored, SameLots
<1>4. fees \in Seq(FeeRule)
  BY FeeAssumption
<1>5. RulesInv(end.lots, StoreFeeRules(end.lots, rules, fees, newest))
  BY <1>2, <1>3, <1>4, FeesStored DEF Stored
<1>6. QED
  BY <1>1, <1>2, <1>5 DEF Stored
-----------------------------------------------------------------------------
(* An import.                                                              *)

\* What an import has made of the lots so far.
Upserts(ls) == LotsInv(ls) /\ NotSplit(lots, ls) /\ SameLots(lots, ls)

UpsertStates == {st \in [lots : SUBSET Lot, refused : BOOLEAN] : Upserts(st.lots)}

\* The lot of a number is there.
HasNumber(ls, old) == \E l \in ls : l.legacy = old

Given(ls, l, number) ==
  (ls \ {l}) \cup {[l EXCEPT !.legacy = number, !.name = OldName[number]]}

\* A lot that is known is given its number, which changes nothing else of it.
LEMMA NumberGiven ==
  ASSUME NEW ls, Upserts(ls), NEW l \in ls, NEW number \in Range(OldLots), l.source = number
  PROVE  /\ Upserts(Given(ls, l, number)) /\ HasNumber(Given(ls, l, number), number)
         /\ \A other \in Range(OldLots) : HasNumber(ls, other) =>
                                          HasNumber(Given(ls, l, number), other)
<1> DEFINE given == [l EXCEPT !.legacy = number, !.name = OldName[number]]
           after == (ls \ {l}) \cup {given}
<1>1. l \in Lot /\ l.name = OldName[number] /\ l.legacy \in {None, number}
  BY NamesOfSources DEF Upserts, LotsInv
<1>2. given.id = l.id /\ given.source = number /\ given.legacy = number /\ given.name = l.name
  BY <1>1 DEF Lot
<1>3. given \in Lot
  BY <1>1 DEF Lot
<1> HIDE DEF given
<1>4. IsFiniteSet(after)
  <2>1. IsFiniteSet(ls \ {l})
    BY FS_RemoveElement DEF Upserts, LotsInv
  <2>2. QED
    BY <2>1, FS_AddElement
<1>5. \A x \in after : \E y \in ls : /\ y.id = x.id /\ y.source = x.source /\ y.name = x.name
                                     /\ x = (IF y = l THEN given ELSE y)
  BY <1>2
<1>6. \A y \in ls : \E x \in after : /\ y.id = x.id /\ y.source = x.source /\ y.name = x.name
                                     /\ x.legacy \in {y.legacy, y.source}
                                     /\ y.legacy # None => x.legacy = y.legacy
  BY <1>1, <1>2
<1>7. LotsInv(after)
  <2>1. \A x, y \in after : x.id = y.id \/ x.source = y.source => x = y
    BY <1>5 DEF Upserts, LotsInv
  <2>2. \A x \in after : x.legacy \in {None, x.source} /\ x.name = NameAt(x.source)
    <3> SUFFICES ASSUME NEW x \in after
                 PROVE  x.legacy \in {None, x.source} /\ x.name = NameAt(x.source)
      OBVIOUS
    <3>1. CASE x = given
      BY <1>1, <1>2, <3>1, NamesOfSources
    <3>2. CASE x \in ls
      BY <3>2 DEF Upserts, LotsInv
    <3>3. QED
      BY <3>1, <3>2
  <2>3. \A x, y \in after : x.name = y.name /\ x.source # Slug(x.name) /\ y.source # Slug(y.name) =>
                            x = y
    BY <1>5 DEF Upserts, LotsInv
  <2>4. after \subseteq Lot
    BY <1>3 DEF Upserts, LotsInv
  <2>5. QED
    BY <1>4, <2>1, <2>2, <2>3, <2>4 DEF LotsInv
<1>8. NotSplit(lots, after)
  <2> SUFFICES ASSUME NEW name \in Range(Names) \cup Range(OldName)
               PROVE  \/ \A x \in Named(after, name) :
                           \E m \in Named(lots, name) : m.source = x.source
                      \/ \A x, y \in Named(after, name) : x = y
    BY DEF NotSplit
  <2>1. CASE \A x \in Named(ls, name) : \E m \in Named(lots, name) : m.source = x.source
    BY <1>5, <2>1 DEF Named
  <2>2. CASE \A x, y \in Named(ls, name) : x = y
    BY <1>5, <2>2 DEF Named
  <2>3. QED
    BY <2>1, <2>2 DEF NotSplit, Upserts
<1>9. SameLots(lots, after)
  BY <1>6 DEF SameLots, Upserts
<1>10. \A other \in Range(OldLots) : HasNumber(ls, other) => HasNumber(after, other)
  <2>1. None \notin Range(OldLots)
    BY NamesAssumption
  <2>2. QED
    BY <1>6, <2>1 DEF HasNumber
<1>11. QED
  <2>1. Given(ls, l, number) = after
    BY DEF Given, given
  <2>2. HasNumber(after, number)
    BY <1>2 DEF HasNumber
  <2> HIDE DEF after
  <2>3. QED
    BY <1>7, <1>8, <1>9, <1>10, <2>1, <2>2 DEF Upserts

\* One lot of the old server is stored as the next, or the import refuses.
LEMMA LotUpserted ==
  ASSUME NEW st \in UpsertStates, NEW old \in Range(OldLots)
  PROVE  LET end == UpsertLot(st, old)
         IN /\ end \in UpsertStates
            /\ end.refused \/ (~st.refused /\ HasNumber(end.lots, old))
            /\ \A other \in Range(OldLots) : HasNumber(st.lots, other) =>
                                             HasNumber(end.lots, other)
<1> DEFINE known == {l \in st.lots : old \in {l.source, l.legacy}}
           refusal == [st EXCEPT !.refused = TRUE]
<1>1. st \in [lots : SUBSET Lot, refused : BOOLEAN] /\ Upserts(st.lots)
  BY DEF UpsertStates
<1>2. \A l \in known : l.source = old
  BY <1>1, NamesAssumption DEF Upserts, LotsInv
<1>3. refusal \in UpsertStates /\ refusal.refused /\ refusal.lots = st.lots
  BY <1>1 DEF UpsertStates
<1>4. CASE known = {} /\ Named(st.lots, OldName[old]) # {}
  <2>1. UpsertLot(st, old) = refusal
    BY <1>4 DEF UpsertLot
  <2>2. QED
    BY <1>3, <2>1
<1>5. CASE known = {} /\ Named(st.lots, OldName[old]) = {}
  <2> DEFINE new == [id |-> NextId(st.lots), source |-> old, legacy |-> old,
                     name |-> OldName[old]]
             after == st.lots \cup {new}
             end == [st EXCEPT !.lots = after]
  <2>1. UpsertLot(st, old) = end
    BY <1>5 DEF UpsertLot
  <2>2. OldName[old] = NameAt(old)
    BY NamesOfSources
  <2>3. Upserts(after)
    BY <1>1, <1>5, <2>2, LotAdded DEF Upserts
  <2>4. new.legacy = old
    OBVIOUS
  <2> HIDE DEF new
  <2>5. end \in UpsertStates /\ end.lots = after /\ end.refused = st.refused
    BY <1>1, <2>3 DEF UpsertStates, Upserts, LotsInv
  <2>6. end.refused \in BOOLEAN
    BY <1>1, <2>5
  <2>7. HasNumber(after, old)
        /\ \A other \in Range(OldLots) : HasNumber(st.lots, other) => HasNumber(after, other)
    BY <2>4 DEF HasNumber
  <2> HIDE DEF end, after
  <2>8. QED
    BY <2>1, <2>5, <2>6, <2>7
<1>6. CASE known # {} /\ \E l \in known : l.legacy \notin {None, old}
  <2>1. UpsertLot(st, old) = refusal
    BY <1>6 DEF UpsertLot
  <2>2. QED
    BY <1>3, <2>1
<1>7. CASE known # {} /\ \A l \in known : l.legacy \in {None, old}
  <2>1. PICK l \in st.lots : l \in known
    BY <1>7
  <2> DEFINE after == Given(st.lots, l, old)
             end == [st EXCEPT !.lots = after]
  <2>2. known = {l} /\ l.source = old
    BY <1>1, <1>2, <2>1 DEF Upserts, LotsInv
  <2>3. UpsertLot(st, old) =
          [st EXCEPT !.lots = (@ \ known) \cup
                              {[x EXCEPT !.legacy = old, !.name = OldName[old]] : x \in known}]
    <3>1. ~(known = {}) /\ ~(\E x \in known : x.legacy \notin {None, old})
      BY ONLY <1>7
    <3> DEFINE named == Named(st.lots, OldName[old])
               made == [st EXCEPT !.lots = @ \cup {[id |-> NextId(@), source |-> old,
                                                    legacy |-> old, name |-> OldName[old]]}]
               numbered == [st EXCEPT !.lots =
                              (@ \ known) \cup
                              {[x EXCEPT !.legacy = old, !.name = OldName[old]] : x \in known}]
               taken == \E x \in known : x.legacy \notin {None, old}
    <3>2. UpsertLot(st, old) =
            CASE known = {} /\ named # {} -> refusal
              [] known = {} /\ named = {} -> made
              [] known # {} /\ taken      -> refusal
              [] OTHER                     -> numbered
      BY DEF UpsertLot
    <3> HIDE DEF known, named, made, numbered, taken, refusal
    <3>3. UpsertLot(st, old) = numbered
      BY <3>1, <3>2 DEF taken
    <3>4. QED
      BY <3>3 DEF numbered
  <2>4. {[x EXCEPT !.legacy = old, !.name = OldName[old]] : x \in known} =
          {[l EXCEPT !.legacy = old, !.name = OldName[old]]}
    BY <2>2
  <2>5. UpsertLot(st, old) = end
    BY <2>2, <2>3, <2>4 DEF Given
  <2>6. /\ Upserts(after) /\ HasNumber(after, old)
        /\ \A other \in Range(OldLots) : HasNumber(st.lots, other) => HasNumber(after, other)
    BY <1>1, <2>2, NumberGiven
  <2> HIDE DEF after
  <2>7. end \in UpsertStates /\ end.lots = after /\ end.refused = st.refused
    BY <1>1, <2>6 DEF UpsertStates, Upserts, LotsInv
  <2>8. end.refused \in BOOLEAN
    BY <1>1, <2>7
  <2> HIDE DEF end
  <2>9. QED
    BY <2>5, <2>6, <2>7, <2>8
<1>8. QED
  BY <1>4, <1>5, <1>6, <1>7

\* Walking along the old server's list, every lot of it gets its number, or the import
\* refuses and changes nothing.
LEMMA LotsUpserted ==
  ASSUME LotsInv(lots), NEW listed, NEW ts, NEW free, Import(listed, ts, free)
  PROVE  /\ Upserts(lots')
         /\ \A old \in Range(OldLots) : old \in listed => HasNumber(lots', old)
         /\ rows' = CleanedUp(Upserted(lots', [old : listed, at : ts, free : {free}]))
<1> DEFINE upsert(st, old) == IF old \notin listed THEN st ELSE UpsertLot(st, old)
           base == [lots |-> lots, refused |-> FALSE]
           V == UpsertStates
           D == DOMAIN OldLots
           Walks(f) == f = [s \in SUBSET D |-> IF s = {} THEN base
                                               ELSE upsert(f[s \ {Max(s)}], OldLots[Max(s)])]
           walk == CHOOSE f : Walks(f)
<1>1. walk[D] = FoldLeft(upsert, base, OldLots)
  BY DEF FoldLeft, MapThenFoldSet
<1>2. /\ ~walk[D].refused /\ lots' = walk[D].lots
      /\ rows' = CleanedUp(Upserted(walk[D].lots, [old : listed, at : ts, free : {free}]))
  BY <1>1 DEF Import
<1>3. base \in V
  <2>1. NotSplit(lots, lots) /\ SameLots(lots, lots)
    BY DEF NotSplit, SameLots
  <2>2. QED
    BY <2>1 DEF UpsertStates, Upserts, LotsInv
<1>4. IsFiniteSet(D) /\ (\A s \in SUBSET D : s # {} => Max(s) \in s)
      /\ \A i \in D : OldLots[i] \in Range(OldLots)
  BY NamesAssumption, LastIndex
<1>5. ASSUME NEW st \in V, NEW i \in D
      PROVE  /\ upsert(st, OldLots[i]) \in V
             /\ st.refused => upsert(st, OldLots[i]).refused
             /\ OldLots[i] \in listed /\ ~upsert(st, OldLots[i]).refused =>
                  HasNumber(upsert(st, OldLots[i]).lots, OldLots[i])
             /\ \A other \in Range(OldLots) : HasNumber(st.lots, other) =>
                                              HasNumber(upsert(st, OldLots[i]).lots, other)
  <2>1. CASE OldLots[i] \notin listed
    BY <2>1
  <2>2. CASE OldLots[i] \in listed
    <3>1. OldLots[i] \in Range(OldLots)
      BY <1>4
    <3>2. upsert(st, OldLots[i]) = UpsertLot(st, OldLots[i])
      BY <2>2
    <3> HIDE DEF upsert
    <3>3. QED
      BY <3>1, <3>2, LotUpserted
  <2>3. QED
    BY <2>1, <2>2
<1> DEFINE last == [s \in SUBSET D |-> Max(s)]
           step == [i \in D |-> [st \in V |-> upsert(st, OldLots[i])]]
<1> HIDE DEF upsert, base, V
<1>6. step \in [D -> [V -> V]] /\ Takes(last, D)
  BY <1>4, <1>5 DEF Takes
<1>7. \A i \in D, st \in V : step[i][st] = upsert(st, OldLots[i])
  OBVIOUS
<1>8. \A s \in SUBSET D : last[s] = Max(s)
  OBVIOUS
<1> HIDE DEF last, step
<1>9. PICK f \in [SUBSET D -> V] : Solves(f, D, base, step, last)
  <2>1. Foldable(D, V, base, step, last)
    BY <1>3, <1>4, <1>6 DEF Foldable
  <2>2. Solvable(D, V, base, step, last)
    BY <2>1, FoldSolution
  <2>3. QED
    BY <2>2 DEF Solvable
<1>10. Walks(f)
  <2> DEFINE Then(s) == IF s = {} THEN base ELSE upsert(f[s \ {Max(s)}], OldLots[Max(s)])
  <2>1. ASSUME NEW s \in SUBSET D
        PROVE  (IF s = {} THEN base ELSE step[last[s]][f[s \ {last[s]}]]) = Then(s)
    <3>1. CASE s = {}
      BY <3>1
    <3>2. CASE s # {}
      <4>1. Max(s) \in D /\ s \ {Max(s)} \in SUBSET D /\ f[s \ {Max(s)}] \in V
        BY <1>4, <3>2
      <4>2. QED
        BY <1>7, <1>8, <3>2, <4>1
    <3>3. QED
      BY <3>1, <3>2
  <2>2. f = [s \in SUBSET D |-> IF s = {} THEN base ELSE step[last[s]][f[s \ {last[s]}]]]
    BY <1>9 DEF Solves
  <2> HIDE DEF Then
  <2>3. f = [s \in SUBSET D |-> Then(s)]
    BY <2>1, <2>2
  <2>4. QED
    BY <2>3 DEF Then
<1>11. Walks(walk)
  BY <1>10
<1> HIDE DEF walk
<1>12. walk[{}] = base /\ \A s \in SUBSET D : s # {} =>
                            walk[s] = upsert(walk[s \ {Max(s)}], OldLots[Max(s)])
  BY <1>11
<1> DEFINE Done(s, st) == \A i \in s : OldLots[i] \in listed => HasNumber(st.lots, OldLots[i])
           Good == [s \in SUBSET D |-> {st \in V : st.refused \/ Done(s, st)}]
<1>13. \A s \in SUBSET D : walk[s] \in Good[s]
  <2>1. walk[{}] \in Good[{}]
    BY <1>3, <1>12
  <2>2. ASSUME NEW s \in SUBSET D, s # {}, walk[s \ {last[s]}] \in Good[s \ {last[s]}]
        PROVE  walk[s] \in Good[s]
    <3> DEFINE x == Max(s)
               st == walk[s \ {x}]
    <3>1. x \in D /\ x \in s /\ s \ {x} \in SUBSET D /\ last[s] = x
      BY <1>4, <1>8, <2>2
    <3>2. st \in V /\ (st.refused \/ Done(s \ {x}, st))
      BY <2>2, <3>1
    <3>3. walk[s] = upsert(st, OldLots[x])
      BY <1>12, <2>2
    <3> HIDE DEF x, st, Done
    <3>4. /\ walk[s] \in V
          /\ st.refused => walk[s].refused
          /\ OldLots[x] \in listed /\ ~walk[s].refused => HasNumber(walk[s].lots, OldLots[x])
          /\ \A other \in Range(OldLots) : HasNumber(st.lots, other) =>
                                           HasNumber(walk[s].lots, other)
      BY <1>5, <3>1, <3>2, <3>3
    <3>5. walk[s].refused \/ Done(s, walk[s])
      <4>1. SUFFICES ASSUME ~walk[s].refused, NEW i \in s, OldLots[i] \in listed
                     PROVE  HasNumber(walk[s].lots, OldLots[i])
        BY DEF Done
      <4>2. CASE i = x
        BY <3>4, <4>1, <4>2
      <4>3. CASE i # x
        <5>1. HasNumber(st.lots, OldLots[i])
          BY <3>2, <3>4, <4>1, <4>3 DEF Done
        <5>2. QED
          BY <1>4, <3>4, <5>1
      <4>4. QED
        BY <4>2, <4>3
    <3>6. QED
      BY <3>4, <3>5
  <2> HIDE DEF Good
  <2>3. QED
    BY <1>4, <1>6, <2>1, <2>2, FoldInvariant
<1>14. walk[D] \in V /\ Done(D, walk[D])
  BY <1>2, <1>13
<1>15. \A old \in Range(OldLots) : \E i \in D : OldLots[i] = old
  BY DEF Range
<1>16. QED
  BY <1>2, <1>14, <1>15 DEF V, UpsertStates

\* The lots of the list are finitely many, and so are the items of the import.
LEMMA ItemsFinite ==
  ASSUME NEW listed \in SUBSET Range(OldLots), NEW ts \in SUBSET Times, NEW free
  PROVE  IsFiniteSet([old : listed, at : ts, free : {free}])
<1> DEFINE pairs == listed \X ts
           item == [p \in pairs |-> [old |-> p[1], at |-> p[2], free |-> free]]
<1>1. IsFiniteSet(Range(OldLots))
  <2>1. IsFiniteSet(DOMAIN OldLots)
    BY NamesAssumption, LastIndex
  <2>2. IsFiniteSet({OldLots[i] : i \in DOMAIN OldLots})
    BY <2>1, ImageFinite
  <2>3. QED
    BY <2>2 DEF Range
<1>2. IsFiniteSet(listed) /\ IsFiniteSet(ts)
  BY <1>1, FS_Subset, NumbersAssumption
<1>3. IsFiniteSet(pairs)
  BY <1>2, FS_Product
<1>4. IsFiniteSet({item[p] : p \in pairs})
  <2> HIDE DEF pairs, item
  <2>1. QED
    BY <1>3, ImageFinite
<1>5. [old : listed, at : ts, free : {free}] = {item[p] : p \in pairs}
  <2>1. ASSUME NEW i \in [old : listed, at : ts, free : {free}]
        PROVE  i \in {item[p] : p \in pairs}
    <3>1. <<i.old, i.at>> \in pairs /\ item[<<i.old, i.at>>] = i
      OBVIOUS
    <3>2. QED
      BY <3>1
  <2>2. ASSUME NEW p \in pairs
        PROVE  item[p] \in [old : listed, at : ts, free : {free}]
    OBVIOUS
  <2> DEFINE left == [old : listed, at : ts, free : {free}]
             right == {item[p] : p \in pairs}
  <2>3. \A i \in left : i \in right
    BY <2>1
  <2>4. \A i \in right : i \in left
    BY <2>2
  <2> HIDE DEF left, right
  <2>5. left = right
    BY ONLY <2>3, <2>4
  <2>6. QED
    BY <2>5 DEF left, right
<1>6. QED
  BY <1>4, <1>5

\* A row of the lot and instant of r is there, imported as r was.
Replaced(r, stored) ==
  \E s \in stored : s.lot = r.lot /\ s.at = r.at /\ IsMigration(r) /\ IsMigration(s)

\* What an import makes of the rows: an item is stored under the lot of its number, and
\* takes the place of the row an earlier import stored of the same instant.
LEMMA ItemsStored ==
  ASSUME IInv, NEW ls, Upserts(ls), NEW listed \in SUBSET Range(OldLots),
         NEW ts \in SUBSET Times, NEW free \in Frees,
         \A old \in listed : HasNumber(ls, old)
  PROVE  LET after == Upserted(ls, [old : listed, at : ts, free : {free}])
         IN RowsInv(ls, after) /\ \A r \in rows : r \in after \/ Replaced(r, after)
<1> DEFINE items == [old : listed, at : ts, free : {free}]
           lotOf(old) == (CHOOSE l \in ls : l.legacy = old).id
           stored(i) == {r \in rows : r.lot = lotOf(i.old) /\ r.at = i.at /\ IsMigration(r)}
           idOf(i) == IF stored(i) = {} THEN NextId(rows)
                      ELSE (CHOOSE r \in stored(i) : TRUE).id
           made(i) == [id |-> idOf(i), lot |-> lotOf(i.old), source |-> "migration_http",
                       at |-> i.at, free |-> i.free]
           kept == rows \ UNION {stored(i) : i \in items}
           new == {made(i) : i \in items}
<1>1. Upserted(ls, items) = kept \cup new
  BY DEF Upserted
<1>2. \A i \in items : i.old \in listed /\ i.at \in Times /\ i.free = free
  OBVIOUS
<1>3. \A i, j \in items : i.old = j.old /\ i.at = j.at => i = j
  OBVIOUS
<1>4. ASSUME NEW old \in listed
      PROVE  \E l \in ls : l.legacy = old /\ l.source = old /\ lotOf(old) = l.id
  <2>1. \E l \in ls : l.legacy = old
    BY DEF HasNumber
  <2>2. \A l \in ls : l.legacy = old => l.source = old
    BY NamesAssumption DEF Upserts, LotsInv
  <2>3. QED
    BY <2>1, <2>2
<1>5. \A old, other \in listed : lotOf(old) = lotOf(other) => old = other
  BY <1>4 DEF Upserts, LotsInv
<1>6. \A old \in listed : lotOf(old) \in Nat
  BY <1>4 DEF Upserts, LotsInv, Lot
<1>7. NextId(rows) \in Nat \ {0} /\ \A r \in rows : r.id \in Nat /\ r.id < NextId(rows)
  <2>1. IsFiniteSet(rows) /\ \A r \in rows : r.id \in Nat \ {0}
    BY DEF IInv, RowsInv, Row
  <2>2. QED
    BY <2>1, NextIdFresh
<1>8. \A i \in items : \A r \in stored(i) : /\ r \in rows /\ r.lot = lotOf(i.old)
                                            /\ r.at = i.at /\ r.source = "migration_http"
  BY DEF IsMigration
<1>9. \A r \in rows, i \in items : /\ r.lot = lotOf(i.old) /\ r.at = i.at
                                   /\ r.source = "migration_http"
                                   => r \in stored(i)
  BY DEF IsMigration
<1> HIDE DEF items, lotOf, stored
<1>10. \A i \in items : \/ idOf(i) = NextId(rows)
                        \/ \E r \in rows : r.id = idOf(i) /\ r.source = "migration_http"
  BY <1>8
<1>11. \A i \in items : idOf(i) \in Nat \ {0}
  BY <1>7, <1>10 DEF IInv, RowsInv, Row
<1> HIDE DEF idOf
<1>12. \A i \in items : /\ made(i).id = idOf(i) /\ made(i).lot = lotOf(i.old)
                        /\ made(i).source = "migration_http" /\ made(i).at = i.at
  OBVIOUS
<1>13. \A i \in items : made(i) \in Row
  BY <1>2, <1>6, <1>11 DEF Row
<1>14. IsFiniteSet(new)
  <2> DEFINE f == [i \in items |-> made(i)]
  <2>1. IsFiniteSet(items)
    BY ItemsFinite DEF items
  <2>2. {f[i] : i \in items} = new
    OBVIOUS
  <2> HIDE DEF f
  <2>3. IsFiniteSet({f[i] : i \in items})
    BY <2>1, ImageFinite
  <2>4. QED
    BY <2>2, <2>3
<1> HIDE DEF made
<1>15. \A r \in new : \E i \in items : r = made(i)
  OBVIOUS
<1>16. \A r \in kept : r \in rows /\ \A i \in items : r \notin stored(i)
  OBVIOUS
<1>17. IsFiniteSet(kept \cup new)
  <2>1. IsFiniteSet(kept)
    BY FS_Subset DEF IInv, RowsInv
  <2>2. QED
    BY <1>14, <2>1, FS_Union
<1>18. \A r \in rows : r \in kept \/ Replaced(r, kept \cup new)
  <2> SUFFICES ASSUME NEW r \in rows, r \notin kept
               PROVE  Replaced(r, kept \cup new)
    OBVIOUS
  <2>1. PICK i \in items : r \in stored(i)
    OBVIOUS
  <2>2. made(i) \in kept \cup new
    OBVIOUS
  <2> HIDE DEF kept, new
  <2>3. QED
    BY <1>8, <1>12, <2>1, <2>2 DEF Replaced, IsMigration
<1> HIDE DEF kept, new
<1>19. kept \cup new \subseteq Row
  BY <1>13, <1>15, <1>16 DEF IInv, RowsInv
<1>20. \A r, s \in kept \cup new : r.lot = s.lot /\ r.at = s.at /\ r.source = s.source => r = s
  <2> SUFFICES ASSUME NEW r \in kept \cup new, NEW s \in kept \cup new,
                      r.lot = s.lot, r.at = s.at, r.source = s.source
               PROVE  r = s
    OBVIOUS
  <2>1. CASE r \in kept /\ s \in kept
    BY <1>16, <2>1 DEF IInv, RowsInv
  <2>2. ~(r \in kept /\ s \in new) /\ ~(s \in kept /\ r \in new)
    BY <1>9, <1>12, <1>15, <1>16
  <2>3. CASE r \in new /\ s \in new
    BY <1>2, <1>3, <1>5, <1>12, <1>15, <2>3
  <2>4. QED
    BY <2>1, <2>2, <2>3
<1>21. \A r, s \in kept \cup new : r.id = s.id => r.source = s.source
  <2>1. \A r \in kept, s \in new : r.id = s.id => r.source = s.source
    <3> SUFFICES ASSUME NEW r \in kept, NEW s \in new, r.id = s.id
                 PROVE  r.source = s.source
      OBVIOUS
    <3>1. PICK i \in items : s = made(i)
      BY <1>15
    <3>2. r \in rows /\ r.id = idOf(i) /\ s.source = "migration_http"
      BY <1>12, <1>16, <3>1
    <3>3. r.id # NextId(rows)
      BY <1>7, <3>2
    <3>4. PICK x \in rows : x.id = idOf(i) /\ x.source = "migration_http"
      BY <1>10, <3>2, <3>3
    <3>5. QED
      BY <3>2, <3>4 DEF IInv, RowsInv
  <2>2. \A r, s \in kept : r.id = s.id => r.source = s.source
    BY <1>16 DEF IInv, RowsInv
  <2>3. \A r, s \in new : r.source = s.source
    BY <1>12, <1>15
  <2>4. QED
    BY <2>1, <2>2, <2>3
<1>22. LotsIn(kept \cup new) \subseteq {l.id : l \in ls}
  <2> SUFFICES ASSUME NEW r \in kept \cup new
               PROVE  \E l \in ls : l.id = r.lot
    BY DEF LotsIn
  <2>1. CASE r \in kept
    <3>1. \E l \in lots : l.id = r.lot
      BY <1>16, <2>1 DEF IInv, RowsInv, LotsIn
    <3>2. QED
      BY <3>1 DEF Upserts, SameLots
  <2>2. CASE r \in new
    <3>1. PICK i \in items : r = made(i)
      BY <1>15, <2>2
    <3>2. QED
      BY <1>2, <1>4, <1>12, <3>1
  <2>3. QED
    BY <2>1, <2>2
<1>23. RowsInv(ls, kept \cup new)
  BY <1>17, <1>19, <1>20, <1>21, <1>22 DEF RowsInv
<1>24. QED
  BY <1>1, <1>18, <1>23 DEF items

\* No instant of a lot has two rows.
NoTwins(rs) == \A r, s \in rs : r.lot = s.lot /\ r.at = s.at => r = s

\* A live row stays under its lot with its value; of an instant of an imported one there
\* is a row of that lot.
RowKept(r, rs) ==
  \E s \in rs : /\ s.lot = r.lot /\ s.at = r.at
                /\ ~IsMigration(r) => s.free = r.free /\ ~IsMigration(s)

\* The clean-up removes the imported row of a pair, and nothing else.
LEMMA PairsCleanedUp ==
  ASSUME NEW ls, NEW rs, RowsInv(ls, rs)
  PROVE  /\ RowsInv(ls, CleanedUp(rs)) /\ NoTwins(CleanedUp(rs))
         /\ \A r \in rs : RowKept(r, CleanedUp(rs))
<1> DEFINE after == CleanedUp(rs)
<1>1. \A r \in after : /\ r \in rs
                       /\ IsMigration(r) => \A s \in rs : s.lot = r.lot /\ s.at = r.at =>
                                                          IsMigration(s)
  BY DEF CleanedUp
<1>2. \A r \in rs : ~IsMigration(r) => r \in after
  BY DEF CleanedUp
<1>3. \A r \in rs : r \notin after => \E s \in rs : /\ s.lot = r.lot /\ s.at = r.at
                                                    /\ ~IsMigration(s) /\ IsMigration(r)
  BY DEF CleanedUp
<1> HIDE DEF after
<1>4. IsFiniteSet(after)
  BY <1>1, FS_Subset DEF RowsInv
<1>5. RowsInv(ls, after)
  BY <1>1, <1>4 DEF RowsInv, LotsIn
<1>6. \A r, s \in rs : (IsMigration(r) <=> IsMigration(s)) => r.source = s.source
  BY DEF IsMigration, RowsInv, Row
<1>7. NoTwins(after)
  BY <1>1, <1>6 DEF NoTwins, RowsInv
<1>8. \A r \in rs : RowKept(r, after)
  BY <1>2, <1>3 DEF RowKept
<1>9. QED
  BY <1>5, <1>7, <1>8 DEF after

\* What an import leaves.
LEMMA ImportKeeps ==
  ASSUME IInv, ImportHistory
  PROVE  /\ LotsInv(lots') /\ RowsInv(lots', rows') /\ RulesInv(lots', rules')
         /\ NotSplit(lots, lots') /\ SameLots(lots, lots')
         /\ NoTwins(rows') /\ \A r \in rows : RowKept(r, rows')
<1>1. PICK listed \in SUBSET Range(OldLots), ts \in SUBSET Times, free \in Frees :
        Import(listed, ts, free)
  BY DEF ImportHistory
<1>2. LotsInv(lots)
  BY DEF IInv
<1>3. /\ Upserts(lots')
      /\ \A old \in Range(OldLots) : old \in listed => HasNumber(lots', old)
      /\ rows' = CleanedUp(Upserted(lots', [old : listed, at : ts, free : {free}]))
  BY <1>1, <1>2, LotsUpserted
<1> DEFINE stored == Upserted(lots', [old : listed, at : ts, free : {free}])
<1>4. \A old \in listed : HasNumber(lots', old)
  BY <1>3
<1>5. RowsInv(lots', stored) /\ \A r \in rows : r \in stored \/ Replaced(r, stored)
  BY <1>3, <1>4, ItemsStored
<1> HIDE DEF stored
<1>6. rows' = CleanedUp(stored)
  BY <1>3 DEF stored
<1>7. /\ RowsInv(lots', rows') /\ NoTwins(rows')
      /\ \A r \in stored : RowKept(r, rows')
  BY <1>5, <1>6, PairsCleanedUp
<1>8. \A r \in rows : RowKept(r, rows')
  BY <1>5, <1>7 DEF Replaced, RowKept
<1>9. RulesInv(lots', rules')
  <2>1. rules' = rules
    BY <1>1 DEF Import
  <2>2. QED
    BY <1>3, <2>1 DEF IInv, RulesInv, Upserts, SameLots
<1>10. QED
  BY <1>3, <1>7, <1>8, <1>9 DEF Upserts
-----------------------------------------------------------------------------
(* A merge.                                                                *)

\* Of a name that has lots there is one with the most rows, the oldest of these.
LEMMA CanonicalChosen ==
  ASSUME IInv, NEW l \in lots
  PROVE  Canonical(l.name) \in lots /\ Canonical(l.name).name = l.name
<1> DEFINE name == l.name
           count(x) == Cardinality(RowsOf(rows, x))
           countOf == [x \in Named(lots, name) |-> count(x)]
           counts == {countOf[x] : x \in Named(lots, name)}
           most == {x \in Named(lots, name) : countOf[x] = Max(counts)}
           ids == {x.id : x \in most}
<1>1. Named(lots, name) \subseteq lots /\ l \in Named(lots, name)
      /\ IsFiniteSet(Named(lots, name))
  BY FS_Subset DEF Named, IInv, LotsInv
<1>2. \A x \in Named(lots, name) : count(x) \in Nat
  <2> SUFFICES ASSUME NEW x \in Named(lots, name)
               PROVE  count(x) \in Nat
    OBVIOUS
  <2>1. IsFiniteSet(RowsOf(rows, x))
    BY FS_Subset DEF RowsOf, IInv, RowsInv
  <2>2. QED
    BY <2>1, FS_CardinalityType
<1> HIDE DEF count
<1>3. IsFiniteSet(counts) /\ counts \in SUBSET Nat /\ counts # {}
  BY <1>1, <1>2, ImageFinite
<1>4. Max(counts) \in counts /\ \A n \in counts : n <= Max(counts)
  BY <1>3, MaxOfFinite
<1>5. most # {}
  BY <1>4
<1>6. ids # {} /\ ids \in SUBSET Nat
  <2>1. \A x \in lots : x.id \in Nat
    BY DEF IInv, LotsInv, Lot
  <2>2. \A x \in most : x \in lots
    BY <1>1
  <2> HIDE DEF most
  <2>3. QED
    BY <1>5, <2>1, <2>2
<1>7. Min(ids) \in ids /\ \A n \in ids : Min(ids) <= n
  BY <1>6, MinOfNumbers
<1>8. PICK c \in most : c.id = Min(ids)
  BY <1>7
<1>9. \A m \in Named(lots, name) : count(c) > count(m) \/ (count(c) = count(m) /\ c.id <= m.id)
  <2> SUFFICES ASSUME NEW m \in Named(lots, name)
               PROVE  count(c) > count(m) \/ (count(c) = count(m) /\ c.id <= m.id)
    OBVIOUS
  <2>1. count(c) = Max(counts) /\ count(c) \in Nat /\ count(m) \in Nat /\ count(m) \in counts
    BY <1>2
  <2>2. count(m) <= count(c)
    BY <1>4, <2>1
  <2>3. count(m) = count(c) => m.id \in ids
    BY <2>1
  <2> HIDE DEF ids, counts, most
  <2>4. QED
    BY <1>7, <1>8, <2>1, <2>2, <2>3
<1>10. \E x \in Named(lots, name) : \A m \in Named(lots, name) :
         count(x) > count(m) \/ (count(x) = count(m) /\ x.id <= m.id)
  BY <1>9
<1>11. Canonical(name) \in Named(lots, name)
  BY <1>10 DEF Canonical, count
<1>12. QED
  BY <1>11 DEF Named

\* Of a reading there is one under a lot of the same name.
NameKept(r, rs) ==
  \E s \in rs : /\ \A l, m \in lots : l.id = r.lot /\ m.id = s.lot => l.name = m.name
                /\ s.at = r.at
                /\ ~IsMigration(r) => s.free = r.free /\ ~IsMigration(s)

MergedRows(ls, rs) == RowsInv(ls, rs) /\ \A r \in rows : NameKept(r, rs)

\* The kinds of day and what the lot's own rules say of them.
OwnMap(rs, id) == {<<r.day, r.tariff>> : r \in RulesOfLot(rs, id)}

\* What a merge has made of the rules so far: a lot to be removed has its own, any other
\* those of a lot of its name, if these do not share out the kinds of day.
MergedRules(ls, rs) ==
  /\ RulesInv(ls, rs)
  /\ RulesOfLot(rs, Generic) = RulesOfLot(rules, Generic)
  /\ \A l \in ls : l # Canonical(l.name) => RulesOfLot(rs, l.id) = RulesOfLot(rules, l.id)
  /\ \A l \in ls : Nested(rules, Named(lots, l.name)) =>
       \E m \in Named(lots, l.name) : OwnMap(rs, l.id) = OwnMap(rules, m.id)
  /\ \A r \in rs : \A l \in lots : l.id = r.lot =>
       \E s \in rules : /\ s.day = r.day /\ s.tariff = r.tariff
                        /\ \E m \in Named(lots, l.name) : m.id = s.lot
  /\ \A r \in rules : \A l \in lots : l.id = r.lot =>
       \E s \in rs : s.day = r.day /\ \E m \in Named(ls, l.name) : m.id = s.lot

MergedLots(ls) == ls \subseteq lots /\ \A l \in lots : Canonical(l.name) \in ls

MergeStates ==
  {st \in [lots : SUBSET lots, rows : SUBSET Row, rules : SUBSET Rule, refused : BOOLEAN] :
     /\ MergedLots(st.lots)
     /\ MergedRows(st.lots, st.rows)
     /\ MergedRules(st.lots, st.rules)}

\* The rows of one lot change to another: none is lost, and none is there twice.
LEMMA RowsMoved ==
  ASSUME IInv, NEW ls, ls \subseteq lots, NEW rs, MergedRows(ls, rs),
         NEW d \in lots, NEW c \in ls, d # c, c.name = d.name,
         \A r \in RowsOf(rs, d), s \in RowsOf(rs, c) : Repeats(r, s) => r.free = s.free
  PROVE  MergedRows(ls \ {d}, Moved(rs, c, d))
<1> DEFINE stay == rs \ RowsOf(rs, d)
           change == {x \in RowsOf(rs, d) : ~\E s \in RowsOf(rs, c) : Repeats(x, s)}
           to(r) == [r EXCEPT !.lot = c.id]
           moved == {to(r) : r \in change}
<1>1. Moved(rs, c, d) = stay \cup moved
  BY DEF Moved
<1>2. RowsInv(ls, rs) /\ \A r \in rows : NameKept(r, rs)
  BY DEF MergedRows
<1>3. \A l, m \in lots : l.id = m.id => l = m
  BY DEF IInv, LotsInv
<1>4. c.id # d.id /\ c.id \in Nat /\ c \in lots
  BY <1>2, <1>3 DEF IInv, LotsInv, Lot
<1>5. \A r \in change : /\ r \in rs /\ r.lot = d.id /\ r \in Row
                        /\ \A s \in rs : s.lot = c.id => ~Repeats(r, s)
  BY <1>2 DEF RowsOf, RowsInv
<1>6. \A r \in Row : /\ to(r).id = r.id /\ to(r).lot = c.id /\ to(r).at = r.at
                     /\ to(r).source = r.source /\ to(r).free = r.free
  BY DEF Row
<1>7. \A r \in Row : to(r) \in Row
  BY <1>4 DEF Row
<1>8. IsFiniteSet(moved)
  <2> DEFINE f == [r \in change |-> to(r)]
  <2>1. IsFiniteSet(change)
    <3>1. change \subseteq rs
      BY <1>5
    <3> HIDE DEF change
    <3>2. QED
      BY <1>2, <3>1, FS_Subset DEF RowsInv
  <2>2. {f[r] : r \in change} = moved
    OBVIOUS
  <2> HIDE DEF f, change
  <2>3. IsFiniteSet({f[r] : r \in change})
    BY <2>1, ImageFinite
  <2>4. QED
    BY <2>2, <2>3
<1>9. \A s \in stay : s \in rs /\ s.lot # d.id
  BY DEF RowsOf
<1>10. \A s \in rs : s.lot # d.id => s \in stay
  BY DEF RowsOf
<1>11. \A s \in rs : s.lot = d.id => \/ to(s) \in moved
                                         \/ \E x \in stay : x.lot = c.id /\ Repeats(s, x)
                                                            /\ x.free = s.free
  BY <1>4 DEF RowsOf
<1>12. IsFiniteSet(stay \cup moved)
  <2>1. IsFiniteSet(stay)
    BY <1>2, FS_Subset DEF RowsInv
  <2> HIDE DEF stay, moved
  <2>2. QED
    BY <1>8, <2>1, FS_Union
<1>13. \A s \in moved : \E r \in change : s = to(r)
  OBVIOUS
<1> HIDE DEF stay, change, moved, to
<1>14. stay \cup moved \subseteq Row
  BY <1>2, <1>5, <1>7, <1>9, <1>13 DEF RowsInv
<1>15. \A r, s \in stay \cup moved : r.lot = s.lot /\ r.at = s.at /\ r.source = s.source => r = s
  <2> SUFFICES ASSUME NEW r \in stay \cup moved, NEW s \in stay \cup moved,
                      r.lot = s.lot, r.at = s.at, r.source = s.source
               PROVE  r = s
    OBVIOUS
  <2>1. CASE r \in stay /\ s \in stay
    BY <1>2, <1>9, <2>1 DEF RowsInv
  <2>2. \A x \in stay, y \in moved : ~(x.lot = y.lot /\ x.at = y.at /\ x.source = y.source)
    BY <1>5, <1>6, <1>9, <1>13 DEF Repeats
  <2>3. CASE r \in moved /\ s \in moved
    <3>1. PICK x \in change, y \in change : r = to(x) /\ s = to(y)
      BY <1>13, <2>3
    <3>2. x.at = y.at /\ x.source = y.source /\ x.lot = y.lot
      BY <1>5, <1>6, <3>1
    <3>3. x = y
      BY <1>2, <1>5, <3>2 DEF RowsInv
    <3>4. QED
      BY <3>1, <3>3
  <2>4. QED
    BY <2>1, <2>2, <2>3
<1>16. \A r, s \in stay \cup moved : r.id = s.id => r.source = s.source
  <2>1. \A s \in stay \cup moved : \E x \in rs : x.id = s.id /\ x.source = s.source
    BY <1>5, <1>6, <1>9, <1>13
  <2>2. QED
    BY <1>2, <2>1 DEF RowsInv
<1>17. LotsIn(stay \cup moved) \subseteq {l.id : l \in ls \ {d}}
  <2>1. ASSUME NEW s \in stay PROVE \E l \in ls \ {d} : l.id = s.lot
    BY <1>2, <1>9 DEF RowsInv, LotsIn
  <2>2. ASSUME NEW s \in moved PROVE \E l \in ls \ {d} : l.id = s.lot
    BY <1>5, <1>6, <1>13
  <2>3. QED
    BY <2>1, <2>2 DEF LotsIn
<1>18. ASSUME NEW r \in rows
       PROVE  NameKept(r, stay \cup moved)
  <2>1. PICK s \in rs : /\ \A l, m \in lots : l.id = r.lot /\ m.id = s.lot => l.name = m.name
                        /\ s.at = r.at
                        /\ ~IsMigration(r) => s.free = r.free /\ ~IsMigration(s)
    BY <1>2 DEF NameKept
  <2>2. CASE s.lot # d.id
    BY <1>10, <2>1, <2>2 DEF NameKept
  <2>3. CASE s.lot = d.id
    <3>1. \A l \in lots : l.id = r.lot => l.name = c.name
      BY <2>1, <2>3
    <3>2. s \in Row
      BY <1>2 DEF RowsInv
    <3>3. PICK x \in stay \cup moved : x.lot = c.id /\ x.at = s.at /\ x.source = s.source
                                       /\ x.free = s.free
      BY <1>6, <1>11, <2>3, <3>2 DEF Repeats
    <3>4. \A l, m \in lots : l.id = r.lot /\ m.id = x.lot => l.name = m.name
      BY <1>3, <1>4, <3>1, <3>3
    <3>5. QED
      BY <2>1, <3>3, <3>4 DEF IsMigration, NameKept
  <2>4. QED
    BY <2>2, <2>3
<1>19. RowsInv(ls \ {d}, stay \cup moved)
  BY <1>12, <1>14, <1>15, <1>16, <1>17 DEF RowsInv
<1>20. QED
  BY <1>1, <1>18, <1>19 DEF MergedRows

\* The rules of the duplicate that the canonical lot lacks change to it, and those it has
\* as well agree: so it has what one of the two had, if one had all the kinds of day.
LEMMA RulesMoved ==
  ASSUME IInv, NEW ls, ls \subseteq lots, NEW rs, MergedRules(ls, rs),
         NEW d \in ls, NEW c \in ls, d # c, c = Canonical(d.name), c.name = d.name,
         \A r \in RulesOfLot(rs, d.id), s \in RulesOfLot(rs, c.id) :
           r.day = s.day => r.tariff = s.tariff
  PROVE  MergedRules(ls \ {d}, MovedRules(rs, c, d))
<1> DEFINE stay == {r \in rs : r.lot # d.id}
           change == {x \in RulesOfLot(rs, d.id) : \A s \in RulesOfLot(rs, c.id) : s.day # x.day}
           to(r) == [r EXCEPT !.lot = c.id]
           moved == {to(r) : r \in change}
           after == stay \cup moved
<1>1. MovedRules(rs, c, d) = after
  BY DEF MovedRules
<1>2. RulesInv(ls, rs) /\ rs \subseteq Rule
  BY DEF MergedRules, RulesInv
<1>3. \A l, m \in lots : l.id = m.id => l = m
  BY DEF IInv, LotsInv
<1>4. c.id # d.id /\ c.id \in Nat \ {0} /\ d.id \in Nat \ {0}
  BY <1>3 DEF IInv, LotsInv, Lot
<1>5. \A r \in change : /\ r \in rs /\ r.lot = d.id /\ r \in Rule
                        /\ \A s \in rs : s.lot = c.id => s.day # r.day
  BY <1>2 DEF RulesOfLot
<1>6. \A r \in Rule : /\ to(r).lot = c.id /\ to(r).day = r.day /\ to(r).tariff = r.tariff
                      /\ to(r) \in Rule
  BY <1>4 DEF Rule
<1>7. \A s \in stay : s \in rs /\ s.lot # d.id
  OBVIOUS
<1>8. \A s \in rs : s.lot # d.id => s \in stay
  OBVIOUS
<1>9. \A s \in rs : s.lot = d.id => \/ to(s) \in moved
                                   \/ \E x \in stay : x.lot = c.id /\ x.day = s.day
  BY <1>4 DEF RulesOfLot
<1>10. \A s \in moved : \E r \in change : s = to(r)
  OBVIOUS
<1> HIDE DEF stay, change, moved, to
<1>11. \A s \in moved : /\ s.lot = c.id /\ s \in Rule
                        /\ \E r \in change : r.day = s.day /\ r.tariff = s.tariff /\ s = to(r)
  BY <1>5, <1>6, <1>10
<1>12. \A r \in rs, s \in rs : r.lot = d.id /\ s.lot = c.id /\ r.day = s.day =>
                               r.tariff = s.tariff
  BY DEF RulesOfLot
<1>13. RulesInv(ls \ {d}, after)
  <2>1. after \subseteq Rule
    BY <1>2, <1>7, <1>11
  <2>2. \A r, s \in after : r.lot = s.lot /\ r.day = s.day => r = s
    <3> SUFFICES ASSUME NEW r \in after, NEW s \in after, r.lot = s.lot, r.day = s.day
                 PROVE  r = s
      OBVIOUS
    <3>1. CASE r \in stay /\ s \in stay
      BY <1>2, <1>7, <3>1 DEF RulesInv
    <3>2. \A x \in stay, y \in moved : ~(x.lot = y.lot /\ x.day = y.day)
      BY <1>5, <1>7, <1>11
    <3>3. CASE r \in moved /\ s \in moved
      <4>1. PICK x \in change, y \in change : r = to(x) /\ s = to(y) /\ x.day = y.day
        BY <1>11, <3>3
      <4>2. x = y
        BY <1>2, <1>5, <4>1 DEF RulesInv
      <4>3. QED
        BY <4>1, <4>2
    <3>4. QED
      BY <3>1, <3>2, <3>3
  <2>3. \A r \in after : r.lot \in {Generic} \cup {l.id : l \in ls \ {d}}
    <3> SUFFICES ASSUME NEW r \in after
                 PROVE  r.lot = Generic \/ \E l \in ls \ {d} : l.id = r.lot
      OBVIOUS
    <3>1. CASE r \in stay
      BY <1>2, <1>7, <3>1 DEF RulesInv
    <3>2. CASE r \in moved
      BY <1>11, <3>2
    <3>3. QED
      BY <3>1, <3>2
  <2>4. QED
    BY <2>1, <2>2, <2>3 DEF RulesInv
<1>14. \A id : id # c.id /\ id # d.id => RulesOfLot(after, id) = RulesOfLot(rs, id)
  <2> SUFFICES ASSUME NEW id, id # c.id, id # d.id
               PROVE  RulesOfLot(after, id) = RulesOfLot(rs, id)
    OBVIOUS
  <2>1. \A r : r \in after /\ r.lot = id <=> r \in rs /\ r.lot = id
    BY <1>7, <1>8, <1>11
  <2> HIDE DEF after
  <2>2. QED
    BY <2>1 DEF RulesOfLot
<1>15. RulesOfLot(after, Generic) = RulesOfLot(rules, Generic)
  BY <1>4, <1>14 DEF MergedRules, Generic
<1>16. \A l \in ls : l # c /\ l # d => l.id # c.id /\ l.id # d.id
  BY <1>3
<1>17. \A l \in ls \ {d} : l # Canonical(l.name) =>
         RulesOfLot(after, l.id) = RulesOfLot(rules, l.id)
  <2> SUFFICES ASSUME NEW l \in ls \ {d}, l # Canonical(l.name)
               PROVE  RulesOfLot(after, l.id) = RulesOfLot(rules, l.id)
    OBVIOUS
  <2>1. l # c /\ RulesOfLot(rs, l.id) = RulesOfLot(rules, l.id)
    BY DEF MergedRules
  <2>2. l.id # c.id /\ l.id # d.id
    BY <1>16, <2>1
  <2> HIDE DEF after
  <2>3. QED
    BY <1>14, <2>1, <2>2
<1>18. ASSUME NEW l \in ls \ {d}, Nested(rules, Named(lots, l.name))
       PROVE  \E m \in Named(lots, l.name) : OwnMap(after, l.id) = OwnMap(rules, m.id)
  <2>1. PICK m \in Named(lots, l.name) : OwnMap(rs, l.id) = OwnMap(rules, m.id)
    BY <1>18 DEF MergedRules
  <2>2. CASE l # c
    <3>1. RulesOfLot(after, l.id) = RulesOfLot(rs, l.id)
      BY <1>14, <1>16, <2>2
    <3>2. QED
      BY <2>1, <3>1 DEF OwnMap
  <2>3. CASE l = c
    <3>1. d \in Named(lots, l.name)
      BY <2>3 DEF Named
    <3>2. RulesOfLot(rs, d.id) = RulesOfLot(rules, d.id)
      BY DEF MergedRules
    <3>3. OwnDays(rules, d) \subseteq OwnDays(rules, m) \/ OwnDays(rules, m) \subseteq OwnDays(rules, d)
      BY <1>18, <2>1, <3>1 DEF Nested
    <3>4. \A p : p \in OwnMap(rs, c.id) <=> p \in OwnMap(rules, m.id)
      BY <2>1, <2>3
    <3>5. \A r \in rs : r.lot = c.id => \E s \in rules : s.lot = m.id /\ s.day = r.day
                                                          /\ s.tariff = r.tariff
      <4> SUFFICES ASSUME NEW r \in rs, r.lot = c.id
                   PROVE  \E s \in rules : s.lot = m.id /\ s.day = r.day /\ s.tariff = r.tariff
        OBVIOUS
      <4>1. <<r.day, r.tariff>> \in OwnMap(rules, m.id)
        BY <3>4 DEF OwnMap, RulesOfLot
      <4>2. QED
        BY <4>1 DEF OwnMap, RulesOfLot
    <3>6. \A s \in rules : s.lot = m.id => \E r \in rs : r.lot = c.id /\ s.day = r.day
                                                         /\ s.tariff = r.tariff
      <4> SUFFICES ASSUME NEW s \in rules, s.lot = m.id
                   PROVE  \E r \in rs : r.lot = c.id /\ s.day = r.day /\ s.tariff = r.tariff
        OBVIOUS
      <4>1. <<s.day, s.tariff>> \in OwnMap(rs, c.id)
        BY <3>4 DEF OwnMap, RulesOfLot
      <4>2. QED
        BY <4>1 DEF OwnMap, RulesOfLot
    <3>7. \A r : r \in rs /\ r.lot = d.id <=> r \in rules /\ r.lot = d.id
      BY <3>2 DEF RulesOfLot
    <3>8. CASE OwnDays(rules, d) \subseteq OwnDays(rules, m)
      <4>1. \A r \in rs : r.lot = d.id => \E s \in rs : s.lot = c.id /\ s.day = r.day
        <5> SUFFICES ASSUME NEW r \in rs, r.lot = d.id
                     PROVE  \E s \in rs : s.lot = c.id /\ s.day = r.day
          OBVIOUS
        <5>1. r.day \in OwnDays(rules, d)
          BY <3>7 DEF OwnDays, RulesOfLot
        <5>2. PICK s \in rules : s.lot = m.id /\ s.day = r.day
          BY <3>8, <5>1 DEF OwnDays, RulesOfLot
        <5>3. QED
          BY <3>6, <5>2
      <4>2. change = {}
        BY <1>5, <4>1
      <4>3. \A r : r \in after /\ r.lot = c.id <=> r \in rs /\ r.lot = c.id
        BY <1>4, <1>7, <1>8, <1>11, <4>2
      <4> HIDE DEF after
      <4>4. RulesOfLot(after, c.id) = RulesOfLot(rs, c.id)
        BY <4>3 DEF RulesOfLot
      <4>5. QED
        BY <2>1, <2>3, <4>4 DEF OwnMap
    <3>9. CASE OwnDays(rules, m) \subseteq OwnDays(rules, d)
      <4>1. \A r \in rs : r.lot = c.id => \E s \in rs : s.lot = d.id /\ s.day = r.day
                                                        /\ s.tariff = r.tariff
        <5> SUFFICES ASSUME NEW r \in rs, r.lot = c.id
                     PROVE  \E s \in rs : s.lot = d.id /\ s.day = r.day /\ s.tariff = r.tariff
          OBVIOUS
        <5>1. r.day \in OwnDays(rules, m)
          BY <3>5 DEF OwnDays, RulesOfLot
        <5>2. PICK s \in rules : s.lot = d.id /\ s.day = r.day
          BY <3>9, <5>1 DEF OwnDays, RulesOfLot
        <5>3. QED
          BY <1>12, <3>7, <5>2
      <4>2. ASSUME NEW r \in after, r.lot = c.id
            PROVE  \E s \in rules : s.lot = d.id /\ s.day = r.day /\ s.tariff = r.tariff
        <5>1. CASE r \in stay
          BY <1>7, <3>7, <4>1, <4>2, <5>1
        <5>2. CASE r \in moved
          BY <1>5, <1>11, <3>7, <5>2
        <5>3. QED
          BY <4>2, <5>1, <5>2
      <4>3. ASSUME NEW s \in rules, s.lot = d.id
            PROVE  \E r \in after : r.lot = c.id /\ s.day = r.day /\ s.tariff = r.tariff
        <5>1. s \in rs
          BY <3>7, <4>3
        <5>2. CASE to(s) \in moved
          BY <1>2, <1>6, <5>1, <5>2
        <5>3. CASE \E x \in stay : x.lot = c.id /\ x.day = s.day
          BY <1>7, <1>12, <4>3, <5>1, <5>3
        <5>4. QED
          BY <1>9, <4>3, <5>1, <5>2, <5>3
      <4> HIDE DEF after
      <4>4. OwnMap(after, c.id) = OwnMap(rules, d.id)
        BY <4>2, <4>3 DEF OwnMap, RulesOfLot
      <4>5. QED
        BY <2>3, <3>1, <4>4
    <3>10. QED
      BY <3>3, <3>8, <3>9
  <2>4. QED
    BY <2>2, <2>3
<1>19. ASSUME NEW r \in after, NEW l \in lots, l.id = r.lot
       PROVE  \E s \in rules : /\ s.day = r.day /\ s.tariff = r.tariff
                               /\ \E m \in Named(lots, l.name) : m.id = s.lot
  <2>1. CASE r \in stay
    BY <1>7, <1>19, <2>1 DEF MergedRules
  <2>2. CASE r \in moved
    <3>1. l = c
      BY <1>3, <1>11, <1>19, <2>2
    <3>2. PICK x \in change : x.day = r.day /\ x.tariff = r.tariff
      BY <1>11, <2>2
    <3>3. QED
      BY <1>5, <3>1, <3>2 DEF MergedRules
  <2>3. QED
    BY <2>1, <2>2
<1>20. ASSUME NEW r \in rules, NEW l \in lots, l.id = r.lot
       PROVE  \E s \in after : s.day = r.day /\ \E m \in Named(ls \ {d}, l.name) : m.id = s.lot
  <2>1. PICK s \in rs, m \in Named(ls, l.name) : s.day = r.day /\ m.id = s.lot
    BY <1>20 DEF MergedRules
  <2>2. CASE s.lot # d.id
    BY <1>8, <2>1, <2>2 DEF Named
  <2>3. CASE s.lot = d.id
    <3>1. m = d
      BY <1>3, <2>1, <2>3 DEF Named
    <3>2. c \in Named(ls \ {d}, l.name)
      BY <2>1, <3>1 DEF Named
    <3>3. \E x \in after : x.lot = c.id /\ x.day = s.day
      BY <1>2, <1>6, <1>9, <2>3
    <3>4. QED
      BY <2>1, <3>2, <3>3
  <2>4. QED
    BY <2>2, <2>3
<1> HIDE DEF after
<1>21. MergedRules(ls \ {d}, after)
  BY <1>13, <1>15, <1>17, <1>18, <1>19, <1>20 DEF MergedRules
<1>22. QED
  BY <1>1, <1>21

\* One lot is merged into the canonical one of its name, or the merge refuses.
LEMMA LotMerged ==
  ASSUME IInv, NEW st \in MergeStates, NEW d \in lots, NEW c, c = Canonical(d.name), d # c
  PROVE  MergeLot(st, c, d) \in MergeStates
<1> DEFINE refusal == [st EXCEPT !.refused = TRUE]
           ls == st.lots \ {d}
           rs == Moved(st.rows, c, d)
           us == MovedRules(st.rules, c, d)
           merged == [st EXCEPT !.rows = rs, !.rules = us, !.lots = ls]
           differ == \E r \in RowsOf(st.rows, d), s \in RowsOf(st.rows, c) :
                       Repeats(r, s) /\ r.free # s.free
           disagree == \E r \in RulesOfLot(st.rules, d.id), s \in RulesOfLot(st.rules, c.id) :
                         r.day = s.day /\ r.tariff # s.tariff
           numbered == d.legacy # None
<1>1. MergeLot(st, c, d) =
        IF st.refused \/ differ \/ disagree \/ numbered THEN refusal
        ELSE [st EXCEPT !.rows = Moved(@, c, d), !.rules = MovedRules(@, c, d),
                        !.lots = @ \ {d}]
  BY DEF MergeLot
<1>2. /\ st \in [lots : SUBSET lots, rows : SUBSET Row, rules : SUBSET Rule, refused : BOOLEAN]
      /\ MergedLots(st.lots) /\ MergedRows(st.lots, st.rows) /\ MergedRules(st.lots, st.rules)
  BY DEF MergeStates
<1>3. [st EXCEPT !.rows = Moved(@, c, d), !.rules = MovedRules(@, c, d), !.lots = @ \ {d}]
        = merged
  BY <1>2
<1>4. refusal \in MergeStates
  BY <1>2 DEF MergeStates
<1>5. ASSUME ~differ, ~disagree
      PROVE  merged \in MergeStates
  <2>1. c \in st.lots /\ st.lots \subseteq lots
    BY <1>2 DEF MergedLots
  <2>2. c \in lots /\ c.name = d.name
    BY CanonicalChosen
  <2>3. MergedLots(ls)
    <3>1. \A l \in lots : Canonical(l.name) # d
      <4> SUFFICES ASSUME NEW l \in lots, Canonical(l.name) = d
                   PROVE  FALSE
        OBVIOUS
      <4>1. d.name = l.name
        BY CanonicalChosen
      <4>2. QED
        BY <4>1
    <3>2. QED
      BY <1>2, <3>1 DEF MergedLots
  <2>4. MergedRows(ls, rs)
    BY <1>2, <1>5, <2>1, <2>2, RowsMoved
  <2>5. MergedRules(ls, us)
    <3>1. CASE d \in st.lots
      BY <1>2, <1>5, <2>1, <2>2, <3>1, RulesMoved
    <3>2. CASE d \notin st.lots
      <4>1. RulesOfLot(st.rules, d.id) = {}
        <5>1. \A l \in st.lots : l.id # d.id
          BY <2>1, <3>2 DEF IInv, LotsInv
        <5>2. d.id # Generic
          BY DEF IInv, LotsInv, Lot, Generic
        <5>3. RulesInv(st.lots, st.rules)
          BY <1>2 DEF MergedRules
        <5>4. QED
          BY <5>1, <5>2, <5>3 DEF RulesInv, RulesOfLot
      <4>2. us = st.rules
        BY <4>1 DEF MovedRules, RulesOfLot
      <4>3. ls = st.lots
        BY <3>2
      <4>4. QED
        BY <1>2, <4>2, <4>3
    <3>3. QED
      BY <3>1, <3>2
  <2>5a. rs \in SUBSET Row /\ us \in SUBSET Rule
    BY <2>4, <2>5 DEF MergedRows, MergedRules, RowsInv, RulesInv
  <2> HIDE DEF rs, us
  <2>6. merged \in [lots : SUBSET lots, rows : SUBSET Row, rules : SUBSET Rule,
                    refused : BOOLEAN]
        /\ merged.lots = ls /\ merged.rows = rs /\ merged.rules = us
    BY <1>2, <2>1, <2>5a
  <2> HIDE DEF ls, merged
  <2>7. QED
    BY <2>3, <2>4, <2>5, <2>6 DEF MergeStates
<1> HIDE DEF refusal, differ, disagree, merged, numbered
<1>6. QED
  BY <1>1, <1>3, <1>4, <1>5

\* The newest of some lots is one of them.
LEMMA NewestChosen ==
  ASSUME LotsInv(lots), NEW s \in SUBSET lots, s # {}
  PROVE  Newest(s) \in s
<1> DEFINE idOf == [l \in s |-> l.id]
           ids == {idOf[l] : l \in s}
<1>1. IsFiniteSet(s)
  BY FS_Subset DEF LotsInv
<1>2. IsFiniteSet(ids)
  BY <1>1, ImageFinite
<1>3. ids \in SUBSET Nat /\ ids # {}
  BY DEF LotsInv, Lot
<1>4. Max(ids) \in ids /\ \A n \in ids : n <= Max(ids)
  BY <1>2, <1>3, MaxOfFinite
<1>5. \E l \in s : \A m \in s : m.id <= l.id
  <2>1. PICK l \in s : l.id = Max(ids)
    BY <1>4
  <2>2. \A m \in s : m.id \in ids
    OBVIOUS
  <2> HIDE DEF ids
  <2>3. QED
    BY <1>4, <2>1, <2>2
<1>6. QED
  BY <1>5 DEF Newest

\* The lots of a name are merged one after the other.
LEMMA NameMerged ==
  ASSUME IInv, NEW l \in lots, NEW st \in MergeStates
  PROVE  MergeName(st, l.name) \in MergeStates
<1> DEFINE c == Canonical(l.name)
           merge(d, s) == MergeLot(s, c, d)
           V == MergeStates
           D == Named(lots, l.name) \ {c}
           Walks(f) == f = [s \in SUBSET D |-> IF s = {} THEN st
                                               ELSE merge(Newest(s), f[s \ {Newest(s)}])]
           walk == CHOOSE f : Walks(f)
<1>1. walk[D] = MergeName(st, l.name)
  BY DEF MapThenFoldSet, MergeName
<1>2. D \subseteq lots /\ \A d \in D : d # c /\ d.name = l.name
  BY DEF Named
<1>3. IsFiniteSet(D) /\ (\A s \in SUBSET D : s # {} => Newest(s) \in s)
  BY <1>2, NewestChosen, FS_Subset DEF IInv, LotsInv
<1>4. \A v \in V, d \in D : merge(d, v) \in V
  BY <1>2, LotMerged
<1> DEFINE last == [s \in SUBSET D |-> Newest(s)]
           step == [d \in D |-> [v \in V |-> merge(d, v)]]
<1> HIDE DEF merge, V, D
<1>5. step \in [D -> [V -> V]] /\ Takes(last, D)
  BY <1>3, <1>4 DEF Takes
<1>6. \A d \in D, v \in V : step[d][v] = merge(d, v)
  OBVIOUS
<1>7. \A s \in SUBSET D : last[s] = Newest(s)
  OBVIOUS
<1>8. st \in V
  BY DEF V
<1> HIDE DEF last, step
<1>9. PICK f \in [SUBSET D -> V] : Solves(f, D, st, step, last)
  <2>1. Foldable(D, V, st, step, last)
    BY <1>3, <1>5, <1>8 DEF Foldable
  <2>2. Solvable(D, V, st, step, last)
    BY <2>1, FoldSolution
  <2>3. QED
    BY <2>2 DEF Solvable
<1>10. Walks(f)
  <2> DEFINE Then(s) == IF s = {} THEN st ELSE merge(Newest(s), f[s \ {Newest(s)}])
  <2>1. ASSUME NEW s \in SUBSET D
        PROVE  (IF s = {} THEN st ELSE step[last[s]][f[s \ {last[s]}]]) = Then(s)
    <3>1. CASE s = {}
      BY <3>1
    <3>2. CASE s # {}
      <4>1. Newest(s) \in D /\ s \ {Newest(s)} \in SUBSET D /\ f[s \ {Newest(s)}] \in V
        BY <1>3, <3>2
      <4>2. QED
        BY <1>6, <1>7, <3>2, <4>1
    <3>3. QED
      BY <3>1, <3>2
  <2>2. f = [s \in SUBSET D |-> IF s = {} THEN st ELSE step[last[s]][f[s \ {last[s]}]]]
    BY <1>9 DEF Solves
  <2> HIDE DEF Then
  <2>3. f = [s \in SUBSET D |-> Then(s)]
    BY <2>1, <2>2
  <2>4. QED
    BY <2>3 DEF Then
<1>11. Walks(walk)
  BY <1>10
<1> HIDE DEF walk
<1>12. walk[{}] = st /\ \A s \in SUBSET D : s # {} =>
                          walk[s] = merge(Newest(s), walk[s \ {Newest(s)}])
  BY <1>11
<1> DEFINE Good == [s \in SUBSET D |-> V]
<1>13. \A s \in SUBSET D : walk[s] \in Good[s]
  <2>1. walk[{}] \in Good[{}]
    BY <1>8, <1>12
  <2>2. ASSUME NEW s \in SUBSET D, s # {}, walk[s \ {last[s]}] \in Good[s \ {last[s]}]
        PROVE  walk[s] \in Good[s]
    <3>1. Newest(s) \in D /\ s \ {Newest(s)} \in SUBSET D /\ last[s] = Newest(s)
      BY <1>3, <1>7, <2>2
    <3>2. walk[s \ {Newest(s)}] \in V
      BY <2>2, <3>1
    <3>3. walk[s] = merge(Newest(s), walk[s \ {Newest(s)}])
      BY <1>12, <2>2
    <3>4. walk[s] \in V
      BY ONLY <1>4, <3>1, <3>2, <3>3
    <3>5. QED
      BY <2>2, <3>4
  <2> HIDE DEF Good
  <2>3. QED
    BY <1>3, <1>5, <2>1, <2>2, FoldInvariant
<1>14. walk[D] \in V
  BY <1>13
<1>15. QED
  BY <1>1, <1>14 DEF V

\* Nothing is merged in the beginning.
LEMMA MergeStart ==
  ASSUME IInv
  PROVE  [lots |-> lots, rows |-> rows, rules |-> rules, refused |-> FALSE] \in MergeStates
<1>1. \A l, m \in lots : l.id = m.id => l = m
  BY DEF IInv, LotsInv
<1>2. MergedLots(lots)
  BY CanonicalChosen DEF MergedLots
<1>3. MergedRows(lots, rows)
  BY <1>1 DEF MergedRows, NameKept, IInv
<1>4. MergedRules(lots, rules)
  <2>1. \A l \in lots : l \in Named(lots, l.name)
    BY DEF Named
  <2>2. \A r \in rules : \A l \in lots : l.id = r.lot =>
          \E s \in rules : /\ s.day = r.day /\ s.tariff = r.tariff
                           /\ \E m \in Named(lots, l.name) : m.id = s.lot
    BY <2>1
  <2>3. QED
    BY <2>1, <2>2 DEF MergedRules, IInv
<1>5. QED
  BY <1>2, <1>3, <1>4 DEF MergeStates, IInv, RowsInv, RulesInv

\* And so the names are.
LEMMA NamesMerged ==
  ASSUME IInv, Reconcile
  PROVE  MergedLots(lots') /\ MergedRows(lots', rows') /\ MergedRules(lots', rules')
<1> DEFINE many == {m \in lots : Named(lots, m.name) # {m}}
           D == {l.name : l \in many}
           base == [lots |-> lots, rows |-> rows, rules |-> rules, refused |-> FALSE]
           merge(name, st) == MergeName(st, name)
           V == MergeStates
           pick(s) == CHOOSE x \in s : TRUE
           Walks(f) == f = [s \in SUBSET D |-> IF s = {} THEN base
                                                   ELSE merge(pick(s), f[s \ {pick(s)}])]
           walk == CHOOSE f : Walks(f)
<1>1. walk[D] = FoldSet(LAMBDA name, st : MergeName(st, name), base, D)
  BY DEF FoldSet, MapThenFoldSet
<1>2. lots' = walk[D].lots /\ rows' = walk[D].rows /\ rules' = walk[D].rules
  BY <1>1 DEF Reconcile
<1>3. IsFiniteSet(D)
  <2> DEFINE f == [l \in many |-> l.name]
  <2>1. IsFiniteSet(many)
    BY FS_Subset DEF IInv, LotsInv
  <2>2. D = {f[l] : l \in many}
    OBVIOUS
  <2> HIDE DEF f, many, D
  <2>3. IsFiniteSet({f[l] : l \in many})
    BY <2>1, ImageFinite
  <2>4. QED
    BY <2>2, <2>3
<1>4. \A name \in D : \E l \in lots : l.name = name
  OBVIOUS
<1>5. \A s \in SUBSET D : s # {} => pick(s) \in s
  OBVIOUS
<1>6. base \in V
  BY MergeStart
<1> HIDE DEF many, D, base, pick
<1>7. \A v \in V, name \in D : merge(name, v) \in V
  BY <1>4, NameMerged
<1> DEFINE last == [s \in SUBSET D |-> pick(s)]
           step == [name \in D |-> [v \in V |-> merge(name, v)]]
<1> HIDE DEF merge, V
<1>8. step \in [D -> [V -> V]] /\ Takes(last, D)
  BY <1>5, <1>7 DEF Takes
<1>9. \A name \in D, v \in V : step[name][v] = merge(name, v)
  OBVIOUS
<1>10. \A s \in SUBSET D : last[s] = pick(s)
  OBVIOUS
<1> HIDE DEF last, step
<1>11. PICK f \in [SUBSET D -> V] : Solves(f, D, base, step, last)
  <2>1. Foldable(D, V, base, step, last)
    BY <1>3, <1>6, <1>8 DEF Foldable
  <2>2. Solvable(D, V, base, step, last)
    BY <2>1, FoldSolution
  <2>3. QED
    BY <2>2 DEF Solvable
<1>12. Walks(f)
  <2> DEFINE Then(s) == IF s = {} THEN base ELSE merge(pick(s), f[s \ {pick(s)}])
  <2>1. ASSUME NEW s \in SUBSET D
        PROVE  (IF s = {} THEN base ELSE step[last[s]][f[s \ {last[s]}]]) = Then(s)
    <3>1. CASE s = {}
      BY <3>1
    <3>2. CASE s # {}
      <4>1. pick(s) \in D /\ s \ {pick(s)} \in SUBSET D /\ f[s \ {pick(s)}] \in V
        BY <1>5, <3>2
      <4>2. QED
        BY <1>9, <1>10, <3>2, <4>1
    <3>3. QED
      BY <3>1, <3>2
  <2>2. f = [s \in SUBSET D |-> IF s = {} THEN base ELSE step[last[s]][f[s \ {last[s]}]]]
    BY <1>11 DEF Solves
  <2> HIDE DEF Then
  <2>3. f = [s \in SUBSET D |-> Then(s)]
    BY <2>1, <2>2
  <2>4. QED
    BY <2>3 DEF Then
<1>13. Walks(walk)
  BY <1>12
<1> HIDE DEF walk
<1>14. walk[{}] = base /\ \A s \in SUBSET D : s # {} =>
                            walk[s] = merge(pick(s), walk[s \ {pick(s)}])
  BY <1>13
<1> DEFINE Good == [s \in SUBSET D |-> V]
<1>15. \A s \in SUBSET D : walk[s] \in Good[s]
  <2>1. walk[{}] \in Good[{}]
    BY <1>6, <1>14
  <2>2. ASSUME NEW s \in SUBSET D, s # {}, walk[s \ {last[s]}] \in Good[s \ {last[s]}]
        PROVE  walk[s] \in Good[s]
    <3>1. pick(s) \in D /\ s \ {pick(s)} \in SUBSET D /\ last[s] = pick(s)
      BY <1>5, <1>10, <2>2
    <3>2. walk[s \ {pick(s)}] \in V
      BY <2>2, <3>1
    <3>3. walk[s] = merge(pick(s), walk[s \ {pick(s)}])
      BY <1>14, <2>2
    <3>4. walk[s] \in V
      BY ONLY <1>7, <3>1, <3>2, <3>3
    <3>5. QED
      BY <2>2, <3>4
  <2> HIDE DEF Good
  <2>3. QED
    BY <1>3, <1>8, <2>1, <2>2, FoldInvariant
<1>16. walk[D] \in V
  BY <1>15
<1>17. MergedLots(walk[D].lots) /\ MergedRows(walk[D].lots, walk[D].rows)
       /\ MergedRules(walk[D].lots, walk[D].rules)
  BY <1>16 DEF V, MergeStates
<1>18. QED
  BY <1>2, <1>17

\* What a merge leaves.
LEMMA ReconcileKeeps ==
  ASSUME IInv, Reconcile
  PROVE  /\ LotsInv(lots') /\ RowsInv(lots', rows') /\ RulesInv(lots', rules')
         /\ NotSplit(lots, lots') /\ lots' \subseteq lots
         /\ \A r \in rows : NameKept(r, rows')
<1>1. MergedLots(lots') /\ MergedRows(lots', rows') /\ MergedRules(lots', rules')
  BY NamesMerged
<1>2. lots' \subseteq lots
  BY <1>1 DEF MergedLots
<1>3. IsFiniteSet(lots')
  BY <1>2, FS_Subset DEF IInv, LotsInv
<1>4. LotsInv(lots')
  BY <1>2, <1>3 DEF IInv, LotsInv
<1>5. NotSplit(lots, lots')
  BY <1>2 DEF NotSplit, Named
<1>6. QED
  BY <1>1, <1>2, <1>4, <1>5 DEF MergedRows, MergedRules
-----------------------------------------------------------------------------
(* The invariant, and the properties of a step that follow from it.        *)

\* It holds in the beginning: an empty database, or a lot of a name for each path.
LEMMA InitIInv == Init => IInv
<1> SUFFICES ASSUME Init PROVE IInv
  OBVIOUS
<1>1. RulesInv(lots, rules)
  BY DEF Init, RulesInv
<1>2. CASE lots = {} /\ rows = {}
  BY <1>1, <1>2, FS_EmptySet DEF IInv, LotsInv, RowsInv, LotsIn
<1>3. ASSUME NEW name \in Range(Names), NEW old \in Range(OldLots), OldName[old] = name,
             NEW t \in Times, NEW u \in Times, NEW f \in Frees, NEW g \in Frees,
             NEW legacy \in {None, old},
             lots = {[id |-> 1, source |-> Slug(name), legacy |-> None, name |-> name],
                     [id |-> 2, source |-> old, legacy |-> legacy, name |-> name]},
             rows = {[id |-> 1, lot |-> 1, source |-> "live", at |-> t, free |-> f],
                     [id |-> 2, lot |-> 2, source |-> "live", at |-> u, free |-> f],
                     [id |-> 3, lot |-> 2, source |-> "migration_http", at |-> u, free |-> g]}
      PROVE  IInv
  <2> DEFINE l == [id |-> 1, source |-> Slug(name), legacy |-> None, name |-> name]
             m == [id |-> 2, source |-> old, legacy |-> legacy, name |-> name]
             r == [id |-> 1, lot |-> 1, source |-> "live", at |-> t, free |-> f]
             s == [id |-> 2, lot |-> 2, source |-> "live", at |-> u, free |-> f]
             i == [id |-> 3, lot |-> 2, source |-> "migration_http", at |-> u, free |-> g]
  <2>1. lots = {l, m} /\ rows = {r, s, i}
    BY <1>3
  <2>2. l \in Lot /\ m \in Lot
    BY DEF Lot, Slug
  <2>3. r \in Row /\ s \in Row /\ i \in Row
    BY DEF Row
  <2>4. /\ l.id = 1 /\ l.source = name /\ l.legacy = None /\ l.name = name
        /\ m.id = 2 /\ m.source = old /\ m.legacy \in {None, old} /\ m.name = name
    BY DEF Slug
  <2>5. /\ r.id = 1 /\ r.lot = 1 /\ r.source = "live"
        /\ s.id = 2 /\ s.lot = 2 /\ s.source = "live"
        /\ i.id = 3 /\ i.lot = 2 /\ i.source = "migration_http"
    OBVIOUS
  <2> HIDE DEF l, m, r, s, i
  <2>6. IsFiniteSet(lots) /\ IsFiniteSet(rows)
    <3>1. IsFiniteSet({l}) /\ IsFiniteSet({r})
      BY FS_Singleton
    <3>2. IsFiniteSet({l} \cup {m}) /\ IsFiniteSet({r} \cup {s})
      BY <3>1, FS_AddElement
    <3>3. IsFiniteSet(({r} \cup {s}) \cup {i})
      BY <3>2, FS_AddElement
    <3>4. {l, m} = {l} \cup {m} /\ {r, s, i} = ({r} \cup {s}) \cup {i}
      OBVIOUS
    <3>5. QED
      BY <2>1, <3>2, <3>3, <3>4
  <2>7. name # old /\ NameAt(name) = name /\ NameAt(old) = name
    BY <1>3, NamesOfSources
  <2>8. LotsInv(lots)
    <3>1. \A x, y \in lots : x.id = y.id \/ x.source = y.source => x = y
      BY <2>1, <2>4, <2>7
    <3>2. \A x \in lots : x.legacy \in {None, x.source} /\ x.name = NameAt(x.source)
      BY <2>1, <2>4, <2>7
    <3>3. \A x, y \in lots : x.name = y.name /\ x.source # Slug(x.name) /\ y.source # Slug(y.name) =>
                             x = y
      BY <2>1, <2>4 DEF Slug
    <3>4. QED
      BY <2>1, <2>2, <2>6, <3>1, <3>2, <3>3 DEF LotsInv
  <2>9. RowsInv(lots, rows)
    <3>1. \A x, y \in rows : x.lot = y.lot /\ x.at = y.at /\ x.source = y.source => x = y
      BY <2>1, <2>5
    <3>2. \A x, y \in rows : x.id = y.id => x.source = y.source
      BY <2>1, <2>5
    <3>3. LotsIn(rows) \subseteq {x.id : x \in lots}
      BY <2>1, <2>4, <2>5 DEF LotsIn
    <3>4. QED
      BY <2>1, <2>3, <2>6, <3>1, <3>2, <3>3 DEF RowsInv
  <2>10. QED
    BY <1>1, <2>8, <2>9 DEF IInv
<1>4. QED
  BY <1>2, <1>3 DEF Init, InitLots

\* And every transaction keeps it.
LEMMA NextIInv == IInv /\ [Next]_vars => IInv'
<1> SUFFICES ASSUME IInv, [Next]_vars
             PROVE  LotsInv(lots') /\ RowsInv(lots', rows') /\ RulesInv(lots', rules')
  BY DEF IInv, LotsInv, RowsInv, RulesInv
<1>1. CASE CollectLive
  <2>1. PICK reported \in SUBSET Range(Names), t \in Times, fees \in FeeAnswers, newest \in BOOLEAN :
          \E free \in [reported -> Frees] : Collect(t, free, fees, newest)
    BY <1>1 DEF CollectLive
  <2>2. QED
    BY <2>1, CollectKeeps
<1>2. CASE ImportHistory
  BY <1>2, ImportKeeps
<1>3. CASE Reconcile
  BY <1>3, ReconcileKeeps
<1>4. CASE UNCHANGED vars
  BY <1>4 DEF vars, IInv
<1>5. QED
  BY <1>1, <1>2, <1>3, <1>4 DEF Next

\* Whatever is collected, imported and merged, in whatever order, the tables hold what
\* their constraints allow: of a lot, instant and source one reading, of a lot and kind of
\* day one rule, no row or rule of a lot there is not, and no number given twice.
THEOREM TypeInvariant == Spec => []TypeOK
<1>1. Spec => []IInv
  BY InitIInv, NextIInv, PTL DEF Spec
<1>2. QED
  BY <1>1, IInvTypeOK, PTL

\* The lots of a name are one, or were two before.
LEMMA LotsCounted ==
  ASSUME NEW old, LotsInv(old), NEW new, LotsInv(new), NotSplit(old, new),
         NEW name \in Range(Names) \cup Range(OldName)
  PROVE  Cardinality(Named(new, name)) <= Max({1, Cardinality(Named(old, name))})
<1> DEFINE before == Named(old, name)
           after == Named(new, name)
           n == Cardinality(before)
           most == Max({1, n})
<1>1. IsFiniteSet(before) /\ IsFiniteSet(after) /\ before \subseteq old /\ after \subseteq new
  BY FS_Subset DEF Named, LotsInv
<1>2. n \in Nat /\ Cardinality(after) \in Nat
  BY <1>1, FS_CardinalityType
<1>3. most \in Nat /\ 1 <= most /\ n <= most
  <2>1. IsFiniteSet({1} \cup {n})
    BY FS_Singleton, FS_AddElement
  <2>2. {1, n} = {1} \cup {n}
    OBVIOUS
  <2>3. {1, n} \in SUBSET Nat /\ {1, n} # {} /\ 1 \in {1, n} /\ n \in {1, n}
    BY <1>2
  <2> HIDE DEF n
  <2>4. Max({1, n}) \in {1, n} /\ \A m \in {1, n} : m <= Max({1, n})
    BY <2>1, <2>2, <2>3, MaxOfFinite
  <2>5. QED
    BY <2>3, <2>4
<1>4. CASE \A l \in after : \E m \in before : m.source = l.source
  <2> DEFINE f == [l \in after |-> CHOOSE m \in before : m.source = l.source]
  <2>1. f \in [after -> before] /\ \A l \in after : f[l].source = l.source
    BY <1>4
  <2>2. \A l, m \in after : l.source = m.source => l = m
    BY <1>1 DEF LotsInv
  <2> HIDE DEF f, before, after
  <2>3. \A l, m \in after : f[l] = f[m] => l = m
    BY <2>1, <2>2
  <2>4. Cardinality(after) <= n
    BY <1>1, <2>1, <2>3, InjectionCounts
  <2> HIDE DEF n, most
  <2>5. Cardinality(after) <= most
    BY ONLY <1>2, <1>3, <2>4
  <2>6. QED
    BY <2>5 DEF most, n, after, before
<1>5. CASE \A l, m \in after : l = m
  <2> DEFINE f == [l \in after |-> 1]
  <2>1. f \in [after -> {1}] /\ \A l, m \in after : f[l] = f[m] => l = m
    BY <1>5
  <2>2. IsFiniteSet({1}) /\ Cardinality({1}) = 1
    BY FS_Singleton
  <2> HIDE DEF f, before, after
  <2>3. Cardinality(after) <= 1
    BY <2>1, <2>2, InjectionCounts
  <2> HIDE DEF n, most
  <2>4. Cardinality(after) <= most
    BY ONLY <1>2, <1>3, <2>3
  <2>5. QED
    BY <2>4 DEF most, n, after, before
<1>6. QED
  BY <1>4, <1>5 DEF NotSplit

\* A name never stands for two lots none of which has its slug.
LEMMA OneIdentified ==
  ASSUME LotsInv(lots), NEW name \in Range(Names)
  PROVE  Cardinality(Identified(lots, name)) <= 1
<1> DEFINE found == Identified(lots, name)
           f == [l \in found |-> 1]
<1>1. found \subseteq lots
  BY DEF Identified, Named
<1>2. \A l, m \in found : l = m
  <2>1. CASE {l \in lots : l.source = Slug(name)} # {}
    BY <2>1 DEF Identified, LotsInv
  <2>2. CASE {l \in lots : l.source = Slug(name)} = {}
    BY <2>2 DEF Identified, Named, LotsInv
  <2>3. QED
    BY <2>1, <2>2
<1>3. IsFiniteSet({1}) /\ Cardinality({1}) = 1
  BY FS_Singleton
<1>4. f \in [found -> {1}] /\ \A l, m \in found : f[l] = f[m] => l = m
  BY <1>2
<1> HIDE DEF f, found
<1>5. Cardinality(found) <= 1
  BY <1>3, <1>4, InjectionCounts
<1>6. QED
  BY <1>5 DEF found

\* No transaction splits a history.
LEMMA NextNotSplit == IInv /\ [Next]_vars => NotSplit(lots, lots')
<1> SUFFICES ASSUME IInv, [Next]_vars PROVE NotSplit(lots, lots')
  OBVIOUS
<1>1. CASE CollectLive
  <2>1. PICK reported \in SUBSET Range(Names), t \in Times, fees \in FeeAnswers, newest \in BOOLEAN :
          \E free \in [reported -> Frees] : Collect(t, free, fees, newest)
    BY <1>1 DEF CollectLive
  <2>2. QED
    BY <2>1, CollectKeeps
<1>2. CASE ImportHistory
  BY <1>2, ImportKeeps
<1>3. CASE Reconcile
  BY <1>3, ReconcileKeeps
<1>4. CASE UNCHANGED vars
  BY <1>4 DEF vars, NotSplit
<1>5. QED
  BY <1>1, <1>2, <1>3, <1>4 DEF Next

\* No program splits a history, whatever lots there are: the lots of a name never become
\* more than one or more than they were, and so no collection is ever stopped by a name
\* that stands for two lots without its slug.
THEOREM HistoriesNotSplit == Spec => NoNewSplit
<1> DEFINE Splits == \A name \in Range(Names) \cup Range(OldName) :
                       Cardinality(Named(lots', name)) <= Max({1, Cardinality(Named(lots, name))})
           Once == \A name \in Range(Names) : Cardinality(Identified(lots, name)) <= 1
<1>1. Spec => []IInv
  BY InitIInv, NextIInv, PTL DEF Spec
<1>2. IInv /\ [Next]_vars => [Splits]_vars
  <2> SUFFICES ASSUME IInv, [Next]_vars PROVE Splits
    OBVIOUS
  <2>1. LotsInv(lots) /\ LotsInv(lots')
    BY NextIInv DEF IInv, LotsInv
  <2>2. NotSplit(lots, lots')
    BY NextNotSplit
  <2>3. QED
    BY <2>1, <2>2, LotsCounted
<1>3. IInv => Once
  BY OneIdentified DEF IInv
<1>4. Spec => [][Splits]_vars
  BY <1>1, <1>2, PTL DEF Spec
<1>5. Spec => []Once
  BY <1>1, <1>3, PTL
<1>6. QED
  BY <1>4, <1>5 DEF NoNewSplit

\* A row's lot is the one with its id.
LEMMA NameOfRow ==
  ASSUME NEW ls, LotsInv(ls), NEW l \in ls, NEW r, r.lot = l.id
  PROVE  NameOf(ls, r) = l.name
<1>1. \A m \in ls : m.id = r.lot => m = l
  BY DEF LotsInv
<1>2. (CHOOSE m \in ls : m.id = r.lot) = l
  BY <1>1
<1>3. QED
  BY <1>2 DEF NameOf

\* A live reading keeps its lot's name, its instant and its value, and a name keeps a
\* reading of every instant it had one of, whatever is collected, imported or merged.
THEOREM ReadingsNotLost == Spec => ReadingsKept
<1> DEFINE Keeps == \A r \in rows : \E s \in rows' :
                      /\ NameOf(lots', s) = NameOf(lots, r) /\ s.at = r.at
                      /\ ~IsMigration(r) => s.free = r.free /\ ~IsMigration(s)
<1>1. Spec => []IInv
  BY InitIInv, NextIInv, PTL DEF Spec
<1>2. IInv /\ [Next]_vars => [Keeps]_vars
  <2> SUFFICES ASSUME IInv, [Next]_vars, ~UNCHANGED vars, NEW r \in rows
               PROVE  \E s \in rows' :
                        /\ NameOf(lots', s) = NameOf(lots, r) /\ s.at = r.at
                        /\ ~IsMigration(r) => s.free = r.free /\ ~IsMigration(s)
    OBVIOUS
  <2>1. PICK l \in lots : l.id = r.lot
    BY DEF IInv, RowsInv, LotsIn
  <2>2. NameOf(lots, r) = l.name
    BY <2>1, NameOfRow DEF IInv
  <2>3. LotsInv(lots') /\ RowsInv(lots', rows')
    BY NextIInv DEF IInv, LotsInv, RowsInv
  <2>4. ASSUME SameLots(lots, lots'), RowKept(r, rows')
        PROVE  \E s \in rows' :
                 /\ NameOf(lots', s) = NameOf(lots, r) /\ s.at = r.at
                 /\ ~IsMigration(r) => s.free = r.free /\ ~IsMigration(s)
    <3>1. PICK m \in lots' : m.id = l.id /\ m.name = l.name
      BY <2>4 DEF SameLots
    <3>2. PICK s \in rows' : /\ s.lot = r.lot /\ s.at = r.at
                             /\ ~IsMigration(r) => s.free = r.free /\ ~IsMigration(s)
      BY <2>4 DEF RowKept
    <3>3. NameOf(lots', s) = m.name
      BY <2>1, <2>3, <3>1, <3>2, NameOfRow
    <3>4. QED
      BY <2>2, <3>1, <3>2, <3>3
  <2>5. CASE CollectLive
    <3>1. PICK reported \in SUBSET Range(Names), t \in Times, fees \in FeeAnswers,
               newest \in BOOLEAN :
            \E free \in [reported -> Frees] : Collect(t, free, fees, newest)
      BY <2>5 DEF CollectLive
    <3>2. SameLots(lots, lots') /\ rows \subseteq rows'
      BY <3>1, CollectKeeps
    <3>3. RowKept(r, rows')
      BY <3>2 DEF RowKept
    <3>4. QED
      BY <2>4, <3>2, <3>3
  <2>6. CASE ImportHistory
    BY <2>4, <2>6, ImportKeeps
  <2>7. CASE Reconcile
    <3>1. lots' \subseteq lots /\ NameKept(r, rows')
      BY <2>7, ReconcileKeeps
    <3>2. PICK s \in rows' : /\ \A x, m \in lots : x.id = r.lot /\ m.id = s.lot => x.name = m.name
                             /\ s.at = r.at
                             /\ ~IsMigration(r) => s.free = r.free /\ ~IsMigration(s)
      BY <3>1 DEF NameKept
    <3>3. PICK m \in lots' : m.id = s.lot
      BY <2>3 DEF RowsInv, LotsIn
    <3>4. NameOf(lots', s) = m.name /\ m.name = l.name
      BY <2>1, <2>3, <3>1, <3>2, <3>3, NameOfRow
    <3>5. QED
      BY <2>2, <3>2, <3>4
  <2>8. QED
    BY <2>5, <2>6, <2>7 DEF Next
<1>3. Spec => [][Keeps]_vars
  BY <1>1, <1>2, PTL DEF Spec
<1>4. QED
  BY <1>3 DEF ReadingsKept
-----------------------------------------------------------------------------
(* What a stay costs afterwards.                                           *)

\* What a quote applies is the lot's own and, for the kinds of day it says nothing of,
\* the airport's.
LEMMA AppliedRules ==
  ASSUME NEW ls, NEW rs, RulesInv(ls, rs), NEW id, id # Generic
  PROVE  /\ \A r \in RulesFor(rs, id) :
              r \in rs /\ (<<r.day, r.tariff>> \in OwnMap(rs, id)
                           \/ /\ r.lot = Generic
                              /\ \A p \in OwnMap(rs, id) : p[1] # r.day)
         /\ \A r \in rs : r.lot = id => r \in RulesFor(rs, id)
         /\ \A r \in rs : r.lot = Generic /\ (\A p \in OwnMap(rs, id) : p[1] # r.day) =>
                          r \in RulesFor(rs, id)
         /\ \A r, s \in RulesFor(rs, id) : r.day = s.day => r = s
<1> DEFINE own == RulesOfLot(rs, id)
           generic == RulesOfLot(rs, Generic)
<1>1. RulesFor(rs, id) = own \cup {g \in generic : \A r \in own : r.day # g.day}
  BY DEF RulesFor
<1>2. \A r : r \in own <=> r \in rs /\ r.lot = id
  BY DEF RulesOfLot
<1>3. \A r : r \in generic <=> r \in rs /\ r.lot = Generic
  BY DEF RulesOfLot
<1>4. \A r \in own : <<r.day, r.tariff>> \in OwnMap(rs, id)
  BY DEF OwnMap
<1>5. \A p \in OwnMap(rs, id) : \E r \in own : p[1] = r.day
  BY DEF OwnMap
<1>6. \A r, s \in rs : r.lot = s.lot /\ r.day = s.day => r = s
  BY DEF RulesInv
<1> HIDE DEF own, generic
<1>7. \A g \in generic : (\A r \in own : r.day # g.day) <=>
                         \A p \in OwnMap(rs, id) : p[1] # g.day
  <2> SUFFICES ASSUME NEW g \in generic
               PROVE  (\A r \in own : r.day # g.day) <=>
                      \A p \in OwnMap(rs, id) : p[1] # g.day
    OBVIOUS
  <2>1. ASSUME \A r \in own : r.day # g.day, NEW p \in OwnMap(rs, id)
        PROVE  p[1] # g.day
    BY <1>5, <2>1
  <2>2. ASSUME \A p \in OwnMap(rs, id) : p[1] # g.day, NEW r \in own
        PROVE  r.day # g.day
    <3>1. <<r.day, r.tariff>>[1] # g.day
      BY <1>4, <2>2
    <3>2. QED
      BY <3>1
  <2>3. QED
    BY <2>1, <2>2
<1>8. \A r : r \in RulesFor(rs, id) <=>
               \/ r \in own
               \/ r \in generic /\ \A x \in own : x.day # r.day
  BY <1>1
<1>9. \A r, s \in RulesFor(rs, id) : r.day = s.day => r = s
  BY <1>2, <1>3, <1>6, <1>8
<1>10. QED
  BY <1>2, <1>3, <1>4, <1>7, <1>8, <1>9

\* What a stay costs with a tariff for each kind of day.
FeeOf(tariff, entry, exit) ==
  MapThenSumSet(LAMBDA i : DayFee(tariff[DayType(ChunkStart(entry, i))],
                                  ChunkEnd(entry, exit, i) - ChunkStart(entry, i)),
                DaysOf(entry, exit))

\* Lots with the same rules of their own quote the same price.
LEMMA SameQuote ==
  ASSUME NEW ls, NEW rs, RulesInv(ls, rs), NEW ms, NEW us, RulesInv(ms, us),
         NEW x, NEW y, x # Generic, y # Generic, OwnMap(rs, x) = OwnMap(us, y),
         RulesOfLot(rs, Generic) = RulesOfLot(us, Generic), NEW stay
  PROVE  Quote(rs, x, stay) = Quote(us, y, stay)
<1> DEFINE A == RulesFor(rs, x)
           B == RulesFor(us, y)
<1>1. \A r : r \in rs /\ r.lot = Generic <=> r \in us /\ r.lot = Generic
  BY DEF RulesOfLot
<1>2. ASSUME NEW r \in A
      PROVE  \E s \in B : s.day = r.day /\ s.tariff = r.tariff
  <2>1. CASE <<r.day, r.tariff>> \in OwnMap(rs, x)
    <3>1. PICK s \in us : s.lot = y /\ <<r.day, r.tariff>> = <<s.day, s.tariff>>
      <4>1. <<r.day, r.tariff>> \in OwnMap(us, y)
        BY <2>1
      <4>2. QED
        BY ONLY <4>1 DEF OwnMap, RulesOfLot
    <3>2. s \in B
      BY <3>1, AppliedRules
    <3>3. s.day = r.day /\ s.tariff = r.tariff
      BY ONLY <3>1
    <3>4. QED
      BY <3>2, <3>3
  <2>2. CASE r.lot = Generic /\ \A p \in OwnMap(rs, x) : p[1] # r.day
    <3>1. r \in us /\ r.lot = Generic
      BY <1>1, <1>2, <2>2, AppliedRules
    <3>2. QED
      BY <2>2, <3>1, AppliedRules
  <2>3. QED
    BY <2>1, <2>2, AppliedRules
<1>3. ASSUME NEW r \in B
      PROVE  \E s \in A : s.day = r.day /\ s.tariff = r.tariff
  <2>1. CASE <<r.day, r.tariff>> \in OwnMap(us, y)
    <3>1. PICK s \in rs : s.lot = x /\ <<r.day, r.tariff>> = <<s.day, s.tariff>>
      <4>1. <<r.day, r.tariff>> \in OwnMap(rs, x)
        BY <2>1
      <4>2. QED
        BY ONLY <4>1 DEF OwnMap, RulesOfLot
    <3>2. s \in A
      BY <3>1, AppliedRules
    <3>3. s.day = r.day /\ s.tariff = r.tariff
      BY ONLY <3>1
    <3>4. QED
      BY <3>2, <3>3
  <2>2. CASE r.lot = Generic /\ \A p \in OwnMap(us, y) : p[1] # r.day
    <3>1. r \in rs /\ r.lot = Generic
      BY <1>1, <1>3, <2>2, AppliedRules
    <3>2. QED
      BY <2>2, <3>1, AppliedRules
  <2>3. QED
    BY <2>1, <2>2, AppliedRules
<1>4. (\A r, s \in A : r.day = s.day => r = s) /\ (\A r, s \in B : r.day = s.day => r = s)
  BY AppliedRules
<1> HIDE DEF A, B
<1>5. {r.day : r \in A} = {r.day : r \in B}
  BY <1>2, <1>3
<1>6. \A day \in {r.day : r \in A} : TariffOf(A, day) = TariffOf(B, day)
  <2> SUFFICES ASSUME NEW r \in A
               PROVE  TariffOf(A, r.day) = TariffOf(B, r.day)
    OBVIOUS
  <2>1. PICK s \in B : s.day = r.day /\ s.tariff = r.tariff
    BY <1>2
  <2>2. (CHOOSE a \in A : a.day = r.day) = r
    BY <1>4
  <2>3. (CHOOSE b \in B : b.day = r.day) = s
    BY <1>4, <2>1
  <2>4. QED
    BY <2>1, <2>2, <2>3 DEF TariffOf
<1>7. Complete(A) <=> Complete(B)
  BY <1>5 DEF Complete
<1>8. Complete(A) => [day \in DayTypes |-> TariffOf(A, day)] = [day \in DayTypes |-> TariffOf(B, day)]
  BY <1>6 DEF Complete
<1>9. \A applied : TotalFee(applied, stay[1], stay[2]) =
                     FeeOf([day \in DayTypes |-> TariffOf(applied, day)], stay[1], stay[2])
  BY DEF TotalFee, FeeOf
<1>10. Complete(A) => TotalFee(A, stay[1], stay[2]) = TotalFee(B, stay[1], stay[2])
  BY <1>8, <1>9
<1>11. QED
  BY <1>7, <1>10 DEF Quote, A, B

\* A lot an import makes has no rules of its own.
LEMMA ImportKeepsPrices ==
  ASSUME IInv, ImportHistory, NEW name \in Range(Names)
  PROVE  SamePrices(name)
<1>1. LotsInv(lots') /\ SameLots(lots, lots')
  BY ImportKeeps
<1>2. rules' = rules
  BY DEF ImportHistory, Import
<1>3. \A l, m \in lots' : l.id = m.id => l = m
  BY <1>1 DEF LotsInv
<1>4. \A r \in rules, m \in lots' : m.id = r.lot =>
        \E l \in lots : l.id = m.id /\ l.name = m.name
  <2> SUFFICES ASSUME NEW r \in rules, NEW m \in lots', m.id = r.lot
               PROVE  \E l \in lots : l.id = m.id /\ l.name = m.name
    OBVIOUS
  <2>1. m.id # Generic
    BY <1>1 DEF LotsInv, Lot, Generic
  <2>2. PICK l \in lots : l.id = r.lot
    BY <2>1 DEF IInv, RulesInv
  <2>3. PICK n \in lots' : n.id = l.id /\ n.name = l.name
    BY <1>1 DEF SameLots
  <2>4. n = m
    BY <1>3, <2>2, <2>3
  <2>5. QED
    BY <2>2, <2>3, <2>4
<1>5. \A l \in lots : \E m \in lots' : m.id = l.id /\ m.name = l.name
  BY <1>1 DEF SameLots
<1>6. ASSUME NEW day \in DayTypes
      PROVE  OwnTariffs(lots', rules', name, day) = OwnTariffs(lots, rules, name, day)
  <2>1. \A r \in rules : (\E m \in Named(lots', name) : m.id = r.lot) <=>
                         \E l \in Named(lots, name) : l.id = r.lot
    BY <1>4, <1>5 DEF Named
  <2>2. QED
    BY <1>2, <2>1 DEF OwnTariffs
<1>7. ASSUME NEW stay \in Stays
      PROVE  OwnPrices(lots', rules', name, stay) \subseteq OwnPrices(lots, rules, name, stay)
  <2> SUFFICES ASSUME NEW m \in Named(lots', name), RulesOfLot(rules, m.id) # {}
               PROVE  Quote(rules, m.id, stay) \in OwnPrices(lots, rules, name, stay)
    BY <1>2 DEF OwnPrices
  <2>1. m \in lots' /\ m.name = name /\ \E r \in rules : r.lot = m.id
    BY DEF Named, RulesOfLot
  <2>2. PICK l \in lots : l.id = m.id /\ l.name = name
    BY <1>4, <2>1
  <2>3. QED
    BY <2>2 DEF OwnPrices, Named
<1>8. QED
  BY <1>6, <1>7 DEF SamePrices

\* The canonical lot quotes what a lot of its name quoted.
LEMMA ReconcileKeepsPrices ==
  ASSUME IInv, Reconcile, NEW name \in Range(Names)
  PROVE  SamePrices(name)
<1>1. MergedLots(lots') /\ MergedRules(lots', rules') /\ lots' \subseteq lots
  BY NamesMerged DEF MergedLots
<1>2. RulesInv(lots', rules') /\ RulesInv(lots, rules)
  BY <1>1 DEF MergedRules, IInv
<1>3. ASSUME NEW day \in DayTypes
      PROVE  OwnTariffs(lots', rules', name, day) \subseteq OwnTariffs(lots, rules, name, day)
  <2> SUFFICES ASSUME NEW r \in rules', r.day = day, NEW l \in Named(lots', name), l.id = r.lot
               PROVE  r.tariff \in OwnTariffs(lots, rules, name, day)
    BY DEF OwnTariffs
  <2>1. l \in lots /\ l.name = name
    BY <1>1 DEF Named
  <2>2. PICK s \in rules : /\ s.day = r.day /\ s.tariff = r.tariff
                           /\ \E m \in Named(lots, l.name) : m.id = s.lot
    BY <1>1, <2>1 DEF MergedRules
  <2>3. QED
    BY <2>1, <2>2 DEF OwnTariffs
<1>4. ASSUME NEW day \in DayTypes, NEW r \in rules, r.day = day,
             NEW l \in Named(lots, name), l.id = r.lot
      PROVE  OwnTariffs(lots', rules', name, day) # {}
  <2>1. l \in lots /\ l.name = name
    BY DEF Named
  <2>2. PICK s \in rules' : s.day = r.day /\ \E m \in Named(lots', l.name) : m.id = s.lot
    BY <1>1, <1>4, <2>1 DEF MergedRules
  <2>3. s.tariff \in OwnTariffs(lots', rules', name, day)
    BY <1>4, <2>1, <2>2 DEF OwnTariffs
  <2>4. QED
    BY <2>3
<1>5. ASSUME NEW day \in DayTypes, OwnTariffs(lots, rules, name, day) # {}
      PROVE  OwnTariffs(lots', rules', name, day) # {}
  <2>1. PICK r \in rules : r.day = day /\ \E l \in Named(lots, name) : l.id = r.lot
    BY <1>5 DEF OwnTariffs
  <2>2. QED
    BY <1>4, <2>1
<1>6. ASSUME Nested(rules, Named(lots, name)), NEW stay \in Stays
      PROVE  OwnPrices(lots', rules', name, stay) \subseteq OwnPrices(lots, rules, name, stay)
  <2> SUFFICES ASSUME NEW l \in Named(lots', name), RulesOfLot(rules', l.id) # {}
               PROVE  Quote(rules', l.id, stay) \in OwnPrices(lots, rules, name, stay)
    BY DEF OwnPrices
  <2>1. l \in lots' /\ l \in lots /\ l.name = name
    BY <1>1 DEF Named
  <2>2. PICK m \in Named(lots, name) : OwnMap(rules', l.id) = OwnMap(rules, m.id)
    BY <1>1, <1>6, <2>1 DEF MergedRules
  <2>3. l.id # Generic /\ m.id # Generic /\ m \in lots
    BY <2>1 DEF Named, IInv, LotsInv, Lot, Generic
  <2>4. RulesOfLot(rules', Generic) = RulesOfLot(rules, Generic)
    BY <1>1 DEF MergedRules
  <2>5. Quote(rules', l.id, stay) = Quote(rules, m.id, stay)
    BY <1>2, <2>2, <2>3, <2>4, SameQuote
  <2>6. RulesOfLot(rules, m.id) # {}
    <3>1. OwnMap(rules', l.id) # {}
      BY DEF OwnMap
    <3>2. OwnMap(rules, m.id) # {}
      BY <2>2, <3>1
    <3>3. QED
      BY <3>2 DEF OwnMap
  <2>7. QED
    BY <2>5, <2>6 DEF OwnPrices
<1>7. QED
  BY <1>3, <1>5, <1>6 DEF SamePrices

\* Neither an import nor a merge changes a price, whatever the rules say: a tariff of a
\* name's own was there before, for a kind of day there is one afterwards if there was
\* one, and if no two lots had shared out the kinds of day, whole stays cost what they
\* cost in one of them.
THEOREM PricesNotChanged == Spec => PricesKept
<1> DEFINE Kept == (\A name \in Range(Names) : SamePrices(name)) \/ CollectLive
<1>1. Spec => []IInv
  BY InitIInv, NextIInv, PTL DEF Spec
<1>2. IInv /\ [Next]_vars => [Kept]_vars
  <2> SUFFICES ASSUME IInv, [Next]_vars, ~UNCHANGED vars PROVE Kept
    OBVIOUS
  <2>1. CASE CollectLive
    BY <2>1
  <2>2. CASE ImportHistory
    BY <2>2, ImportKeepsPrices
  <2>3. CASE Reconcile
    BY <2>3, ReconcileKeepsPrices
  <2>4. QED
    BY <2>1, <2>2, <2>3 DEF Next
<1>3. Spec => [][Kept]_vars
  BY <1>1, <1>2, PTL DEF Spec
<1>4. QED
  BY <1>3 DEF PricesKept

-----------------------------------------------------------------------------
(* Readings in the order of their instants.                                *)

\* Finitely many readings, no two of one instant.
Apart(R) ==
  IsFiniteSet(R) /\ (\A r \in R : r.at \in Nat) /\ \A r, s \in R : r.at = s.at => r = s

\* The readings before one.
Earlier(R, r) == {s \in R : s.at < r.at}

\* A sequence that lists the readings of R by their instants.
Lists(seq, R) ==
  /\ seq \in Seq(R) /\ Len(seq) = Cardinality(R)
  /\ \A i, j \in 1..Len(seq) : i < j => seq[i].at < seq[j].at
  /\ \A r \in R : \E i \in 1..Len(seq) : seq[i] = r

\* Each reading has a number of its own: how many are before it.
LEMMA Ranks ==
  ASSUME NEW R, Apart(R)
  PROVE  /\ \A r \in R : Cardinality(Earlier(R, r)) \in 0..(Cardinality(R) - 1)
         /\ \A r, s \in R : r.at < s.at => Cardinality(Earlier(R, r)) < Cardinality(Earlier(R, s))
         /\ \A k \in 0..(Cardinality(R) - 1) : \E r \in R : Cardinality(Earlier(R, r)) = k
<1> DEFINE n == Cardinality(R)
           rank == [r \in R |-> Cardinality(Earlier(R, r))]
<1>1. n \in Nat /\ \A T \in SUBSET R : IsFiniteSet(T) /\ Cardinality(T) \in Nat /\ Cardinality(T) <= n
  BY FS_CardinalityType, FS_Subset DEF Apart
<1>2. ASSUME NEW T \in SUBSET R, NEW U \in SUBSET T, NEW x \in T, x \notin U
      PROVE  Cardinality(U) < Cardinality(T)
  <2>1. T \in SUBSET R /\ U \in SUBSET R
    OBVIOUS
  <2>2. IsFiniteSet(T) /\ Cardinality(T) \in Nat /\ Cardinality(U) \in Nat
    BY <1>1, <2>1
  <2>3. U # T
    BY <1>2
  <2>4. Cardinality(U) <= Cardinality(T) /\ Cardinality(U) # Cardinality(T)
    BY <2>2, <2>3, FS_Subset
  <2>5. QED
    BY <2>2, <2>4
<1>3. \A r \in R : Earlier(R, r) \in SUBSET R /\ r \notin Earlier(R, r)
  BY DEF Earlier, Apart
<1>4. ASSUME NEW r \in R
      PROVE  rank[r] \in 0..(n - 1)
  <2>1. Cardinality(Earlier(R, r)) < n
    BY <1>2, <1>3
  <2>2. Cardinality(Earlier(R, r)) \in Nat
    BY <1>1, <1>3
  <2>3. QED
    BY <1>1, <2>1, <2>2
<1>5. ASSUME NEW r \in R, NEW s \in R, r.at < s.at
      PROVE  Cardinality(Earlier(R, r)) < Cardinality(Earlier(R, s))
  <2>1. Earlier(R, r) \in SUBSET Earlier(R, s)
    BY <1>5 DEF Earlier, Apart
  <2>2. r \in Earlier(R, s)
    BY <1>5 DEF Earlier
  <2>3. QED
    BY <1>2, <1>3, <2>1, <2>2
<1>6. ASSUME NEW r \in R, NEW s \in R, rank[r] = rank[s]
      PROVE  r = s
  <2>1. rank[r] \in Nat /\ rank[s] \in Nat
    BY <1>4
  <2>2. ~(r.at < s.at) /\ ~(s.at < r.at)
    BY <1>5, <1>6, <2>1
  <2>3. QED
    BY <2>2 DEF Apart
<1>7. rank \in [R -> 0..(n - 1)]
  BY <1>4
<1>8. IsFiniteSet(0..(n - 1)) /\ Cardinality(0..(n - 1)) = n
  <2>1. n - 1 \in Int
    BY <1>1
  <2>2. IsFiniteSet(0..(n - 1)) /\ Cardinality(0..(n - 1)) = IF 0 > n - 1 THEN 0 ELSE n - 1 - 0 + 1
    BY <2>1, FS_Interval
  <2>3. QED
    BY <1>1, <2>2
<1>9. rank \in Injection(R, 0..(n - 1))
  BY <1>6, <1>7 DEF Injection, IsInjective
<1>10. rank \in Surjection(R, 0..(n - 1))
  <2>1. Cardinality(R) = Cardinality(0..(n - 1))
    BY <1>8
  <2> HIDE DEF rank
  <2>2. QED
    BY <1>8, <1>9, <2>1, FS_Injection
<1>11. \A k \in 0..(n - 1) : \E r \in R : rank[r] = k
  BY <1>10 DEF Surjection
<1>12. QED
  BY <1>4, <1>5, <1>11

\* Readings apart have an order, and InOrder lists them in it.
LEMMA Ordered ==
  ASSUME NEW R, Apart(R)
  PROVE  Lists(InOrder(R), R)
<1> DEFINE n == Cardinality(R)
           seq == InOrder(R)
<1>1. n \in Nat
  BY FS_CardinalityType DEF Apart
<1>2. \A i \in 1..n : \E r \in R : Cardinality(Earlier(R, r)) = i - 1
  <2> SUFFICES ASSUME NEW i \in 1..n PROVE \E r \in R : Cardinality(Earlier(R, r)) = i - 1
    OBVIOUS
  <2>1. i - 1 \in 0..(n - 1)
    BY <1>1
  <2>2. QED
    BY <2>1, Ranks
<1>3. \A i \in 1..n : seq[i] = CHOOSE r \in R : Cardinality(Earlier(R, r)) = i - 1
  BY DEF InOrder, Earlier
<1>4. \A i \in 1..n : seq[i] \in R /\ Cardinality(Earlier(R, seq[i])) = i - 1
  BY <1>2, <1>3
<1>5. seq \in [1..n -> R]
  <2>1. seq = [i \in 1..n |-> CHOOSE r \in R : Cardinality({s \in R : s.at < r.at}) = i - 1]
    BY DEF InOrder
  <2> HIDE DEF seq
  <2>2. QED
    BY <1>4, <2>1
<1> HIDE DEF seq
<1>6. seq \in Seq(R) /\ Len(seq) = n
  BY <1>1, <1>5
<1>7. ASSUME NEW i \in 1..n, NEW j \in 1..n, i < j
      PROVE  seq[i].at < seq[j].at
  <2>1. seq[i] \in R /\ seq[j] \in R
    BY <1>4
  <2>2. seq[i].at \in Nat /\ seq[j].at \in Nat
    BY <2>1 DEF Apart
  <2>3. seq[i].at # seq[j].at
    <3>1. SUFFICES ASSUME seq[i].at = seq[j].at PROVE FALSE
      OBVIOUS
    <3>2. seq[i] = seq[j]
      BY <2>1, <3>1 DEF Apart
    <3>3. i - 1 = j - 1
      BY <1>4, <3>2
    <3>4. QED
      BY <1>1, <1>7, <3>3
  <2>4. ~(seq[j].at < seq[i].at)
    <3>1. SUFFICES ASSUME seq[j].at < seq[i].at PROVE FALSE
      OBVIOUS
    <3>2. Cardinality(Earlier(R, seq[j])) < Cardinality(Earlier(R, seq[i]))
      BY <2>1, <3>1, Ranks
    <3>3. j - 1 < i - 1
      BY <1>4, <3>2
    <3>4. QED
      BY <1>1, <1>7, <3>3
  <2>5. QED
    BY <2>2, <2>3, <2>4
<1>8. ASSUME NEW r \in R
      PROVE  \E i \in 1..n : seq[i] = r
  <2> DEFINE k == Cardinality(Earlier(R, r))
  <2>1. k \in 0..(n - 1)
    BY Ranks
  <2>2. k + 1 \in 1..n /\ (k + 1) - 1 = k
    BY <1>1, <2>1
  <2>3. seq[k + 1] \in R /\ Cardinality(Earlier(R, seq[k + 1])) = Cardinality(Earlier(R, r))
    BY <1>4, <2>2
  <2>4. ~(seq[k + 1].at < r.at) /\ ~(r.at < seq[k + 1].at)
    <3>1. Cardinality(Earlier(R, r)) \in Int
      BY <2>1
    <3>2. \A x, y \in R : x.at < y.at => Cardinality(Earlier(R, x)) < Cardinality(Earlier(R, y))
      BY Ranks
    <3> HIDE DEF k
    <3>3. QED
      BY <2>3, <3>1, <3>2
  <2>5. seq[k + 1] = r
    <3>1. r.at \in Nat /\ seq[k + 1].at \in Nat
      BY <2>3 DEF Apart
    <3>2. seq[k + 1].at = r.at
      BY ONLY <2>4, <3>1
    <3>3. QED
      BY <2>3, <3>2 DEF Apart
  <2>6. QED
    BY <2>2, <2>5
<1>9. QED
  BY <1>6, <1>7, <1>8 DEF Lists, seq

-----------------------------------------------------------------------------
(* The readings the API shows of what is stored.                           *)

\* Rows as uq_parking_snapshot lets them be.
Recorded(rs) ==
  /\ rs \subseteq Row
  /\ IsFiniteSet(rs)
  /\ \A r, s \in rs : r.lot = s.lot /\ r.at = s.at /\ r.source = s.source => r = s

\* Some of them are recorded as well.
LEMMA SomeRecorded ==
  ASSUME NEW rs, Recorded(rs), NEW some \in SUBSET rs
  PROVE  Recorded(some)
BY FS_Subset DEF Recorded

\* Of the rows of a lot and an instant one is shown, a live one if there is one.
LEMMA ShownOnce ==
  ASSUME NEW rs, Recorded(rs)
  PROVE  /\ Shown(rs) \subseteq rs
         /\ \A r, s \in Shown(rs) : r.lot = s.lot /\ r.at = s.at => r = s
         /\ \A r \in rs : \E s \in Shown(rs) : s.lot = r.lot /\ s.at = r.at
         /\ \A r \in rs : ~IsMigration(r) => r \in Shown(rs)
<1>1. /\ \A r \in rs : r.id \in Nat /\ r.source \in {"live", "migration_http"}
      /\ \A r, s \in rs : (IsMigration(r) <=> IsMigration(s)) => r.source = s.source
  BY DEF Recorded, Row, IsMigration
<1>2. Shown(rs) \subseteq rs
  BY DEF Shown
<1>3. ASSUME NEW r \in Shown(rs), NEW s \in Shown(rs), r.lot = s.lot, r.at = s.at
      PROVE  r = s
  <2>1. r \in rs /\ s \in rs /\ Preferred(r, s) /\ Preferred(s, r)
    BY <1>3 DEF Shown
  <2>2. IsMigration(r) <=> IsMigration(s)
    BY <2>1 DEF Preferred
  <2>3. QED
    BY <1>1, <1>3, <2>1, <2>2 DEF Recorded
<1>4. ASSUME NEW r \in rs, NEW s \in rs, s.lot = r.lot, s.at = r.at,
             IsMigration(r) => IsMigration(s)
      PROVE  Preferred(r, s)
  <2>1. CASE IsMigration(r) <=> IsMigration(s)
    <3>1. r = s
      BY <1>1, <1>4, <2>1 DEF Recorded
    <3>2. QED
      BY <1>1, <3>1 DEF Preferred
  <2>2. CASE ~(IsMigration(r) <=> IsMigration(s))
    BY <1>4, <2>2 DEF Preferred
  <2>3. QED
    BY <2>1, <2>2
<1>5. ASSUME NEW r \in rs, ~IsMigration(r)
      PROVE  r \in Shown(rs)
  BY <1>4, <1>5 DEF Shown
<1>6. ASSUME NEW r \in rs
      PROVE  \E s \in Shown(rs) : s.lot = r.lot /\ s.at = r.at
  <2>1. CASE \E s \in rs : s.lot = r.lot /\ s.at = r.at /\ ~IsMigration(s)
    BY <1>5, <2>1
  <2>2. CASE \A s \in rs : s.lot = r.lot /\ s.at = r.at => IsMigration(s)
    <3>1. \A s \in rs : s.lot = r.lot /\ s.at = r.at => Preferred(r, s)
      BY <1>4, <2>2
    <3>2. r \in Shown(rs)
      BY <3>1 DEF Shown
    <3>3. QED
      BY <3>2
  <2>3. QED
    BY <2>1, <2>2
<1>7. QED
  BY <1>2, <1>3, <1>5, <1>6

\* The readings shown of a lot.
OfLot(rs, l) == {r \in Shown(rs) : r.lot = l}

\* They are apart, and ReadingsOf lists them.
LEMMA ReadingsListed ==
  ASSUME NEW rs, Recorded(rs), NEW l
  PROVE  Apart(OfLot(rs, l)) /\ Lists(ReadingsOf(rs, l), OfLot(rs, l))
<1>1. OfLot(rs, l) \in SUBSET rs
  BY ShownOnce DEF OfLot
<1>2. IsFiniteSet(OfLot(rs, l))
  BY <1>1, FS_Subset DEF Recorded
<1>3. \A r \in OfLot(rs, l) : r.at \in Nat
  BY <1>1, NumbersAssumption DEF Recorded, Row
<1>4. \A r, s \in OfLot(rs, l) : r.at = s.at => r = s
  BY ShownOnce DEF OfLot
<1>5. Apart(OfLot(rs, l))
  BY <1>2, <1>3, <1>4 DEF Apart
<1>6. ReadingsOf(rs, l) = InOrder(OfLot(rs, l))
  BY DEF ReadingsOf, OfLot
<1>7. QED
  BY <1>5, <1>6, Ordered

\* The last element of readings listed by their instants.
LEMMA LastListed ==
  ASSUME NEW R, Apart(R), R # {}, NEW seq, Lists(seq, R)
  PROVE  /\ Len(seq) \in Nat \ {0} /\ Last(seq) = seq[Len(seq)]
         /\ Last(seq) \in R /\ \A r \in R : r.at <= Last(seq).at
<1>1. /\ seq \in Seq(R) /\ \A r \in R : r.at \in Nat
      /\ \A i, j \in 1..Len(seq) : i < j => seq[i].at < seq[j].at
      /\ \A r \in R : \E i \in 1..Len(seq) : seq[i] = r
  BY DEF Lists, Apart
<1>2. Len(seq) \in Nat \ {0}
  <2>1. PICK r \in R : TRUE
    OBVIOUS
  <2>2. PICK i \in 1..Len(seq) : seq[i] = r
    BY <1>1
  <2>3. QED
    BY <1>1, <2>2
<1>3. Last(seq) = seq[Len(seq)] /\ Len(seq) \in 1..Len(seq)
  BY <1>2 DEF Last
<1>4. seq[Len(seq)] \in R
  BY <1>1, <1>3
<1>5. ASSUME NEW r \in R
      PROVE  r.at <= seq[Len(seq)].at
  <2>1. PICK i \in 1..Len(seq) : seq[i] = r
    BY <1>1
  <2>2. CASE i = Len(seq)
    BY <1>1, <2>1, <2>2
  <2>3. CASE i < Len(seq)
    <3>1. seq[i].at < seq[Len(seq)].at
      BY <1>1, <1>3, <2>3
    <3>2. r.at \in Nat /\ seq[Len(seq)].at \in Nat
      BY <1>1, <1>4
    <3>3. QED
      BY <2>1, <3>1, <3>2
  <2>4. QED
    BY <1>2, <2>2, <2>3
<1>6. QED
  BY <1>2, <1>3, <1>4, <1>5

\* Of a lot, the reading shown of its latest instant.
IsLast(rs, l, r) == r \in Shown(rs) /\ r.lot = l /\ \A s \in rs : s.lot = l => s.at <= r.at

\* It is the last one of the lot's series.
LEMMA LastReading ==
  ASSUME NEW rs, Recorded(rs), NEW l \in LotsIn(rs)
  PROVE  /\ IsLast(rs, l, Last(ReadingsOf(rs, l)))
         /\ \A r : IsLast(rs, l, r) => r = Last(ReadingsOf(rs, l))
<1> DEFINE R == OfLot(rs, l)
           last == Last(ReadingsOf(rs, l))
<1>1. Apart(R) /\ Lists(ReadingsOf(rs, l), R)
  BY ReadingsListed
<1>2. PICK x \in rs : x.lot = l
  BY DEF LotsIn
<1>3. \A r \in rs : r.lot = l => \E s \in R : s.at = r.at
  BY ShownOnce DEF OfLot
<1>4. R # {}
  BY <1>2, <1>3
<1>5. last \in R /\ \A r \in R : r.at <= last.at
  BY <1>1, <1>4, LastListed
<1>6. last \in Shown(rs) /\ last.lot = l
  BY <1>5 DEF OfLot
<1> HIDE DEF last
<1>7. \A s \in rs : s.lot = l => s.at <= last.at
  BY <1>3, <1>5
<1>8. IsLast(rs, l, last)
  BY <1>6, <1>7 DEF IsLast
<1>9. ASSUME NEW r, IsLast(rs, l, r)
      PROVE  r = last
  <2>1. r \in Shown(rs) /\ last \in Shown(rs) /\ r \in rs /\ last \in rs
    BY <1>8, <1>9, ShownOnce DEF IsLast
  <2>2. r.at \in Nat /\ last.at \in Nat
    BY <2>1, NumbersAssumption DEF Recorded, Row
  <2>3. r.lot = l /\ last.lot = l /\ r.at <= last.at /\ last.at <= r.at
    BY <1>8, <1>9, <2>1 DEF IsLast
  <2>4. r.at = last.at
    BY <2>2, <2>3
  <2>5. QED
    BY <2>1, <2>3, <2>4, ShownOnce
<1>10. QED
  BY <1>8, <1>9 DEF last

\* Of a lot, the row of its latest instant with the highest id.
IsCurrent(rs, l, r) ==
  r \in rs /\ r.lot = l /\ \A s \in rs : s.lot = l => s.at < r.at \/ (s.at = r.at /\ s.id <= r.id)

\* It is the one the dashboard's card shows.
LEMMA CurrentRow ==
  ASSUME NEW rs, Recorded(rs), \A r, s \in rs : r.id = s.id => r.source = s.source,
         NEW l \in LotsIn(rs)
  PROVE  /\ IsCurrent(rs, l, Current(rs, l))
         /\ \A r : IsCurrent(rs, l, r) => r = Current(rs, l)
<1>1. \A r \in rs : r.at \in Nat /\ r.id \in Nat /\ r.source \in {"live", "migration_http"}
  BY NumbersAssumption DEF Recorded, Row
<1>2. PICK x \in rs : x.lot = l /\ \A s \in rs : s.lot = l => s.at <= x.at
  BY LastReading, ShownOnce DEF IsLast
<1>3. \E r : IsCurrent(rs, l, r)
  <2>1. CASE \A s \in rs : s.lot = l /\ s.at = x.at => s.id <= x.id
    <3>1. IsCurrent(rs, l, x)
      BY <1>1, <1>2, <2>1 DEF IsCurrent
    <3>2. QED
      BY <3>1
  <2>2. CASE \E s \in rs : s.lot = l /\ s.at = x.at /\ ~(s.id <= x.id)
    <3>1. PICK y \in rs : y.lot = l /\ y.at = x.at /\ ~(y.id <= x.id)
      BY <2>2
    <3>2. y # x
      BY <1>1, <3>1
    <3>3. \A s \in rs : s.lot = l /\ s.at = x.at => s = x \/ s = y
      BY <1>1, <1>2, <3>1, <3>2 DEF Recorded
    <3>4. IsCurrent(rs, l, y)
      BY <1>1, <1>2, <3>1, <3>3 DEF IsCurrent
    <3>5. QED
      BY <3>4
  <2>3. QED
    BY <2>1, <2>2
<1>4. IsCurrent(rs, l, Current(rs, l))
  BY <1>3 DEF IsCurrent, Current
<1>5. ASSUME NEW r, IsCurrent(rs, l, r), NEW s, IsCurrent(rs, l, s)
      PROVE  r = s
  <2>1. r \in rs /\ s \in rs /\ r.lot = s.lot
    BY <1>5 DEF IsCurrent
  <2>2. r.at = s.at /\ r.id = s.id
    BY <1>1, <1>5 DEF IsCurrent
  <2>3. QED
    BY <2>1, <2>2 DEF Recorded
<1>6. QED
  BY <1>4, <1>5

-----------------------------------------------------------------------------
(* The two queries for what a lot has now.                                 *)

\* What the table of an airport says of the rows.
LEMMA RowsRecorded ==
  ASSUME NEW ls, NEW rs, RowsInv(ls, rs)
  PROVE  Recorded(rs) /\ \A r, s \in rs : r.id = s.id => r.source = s.source
BY DEF RowsInv, Recorded

\* Without pairs the latest row is the latest reading.
LEMMA ImportAgrees ==
  ASSUME IInv, ImportHistory
  PROVE  Agree'
<1>1. RowsInv(lots', rows') /\ NoTwins(rows')
  BY ImportKeeps
<1>2. Recorded(rows') /\ \A r, s \in rows' : r.id = s.id => r.source = s.source
  BY <1>1, RowsRecorded
<1>3. SUFFICES ASSUME NEW l \in LotsIn(rows')
               PROVE  Current(rows', l).free = Last(ReadingsOf(rows', l)).free
  BY DEF Agree
<1>4. PICK x : x = Last(ReadingsOf(rows', l)) /\ IsLast(rows', l, x)
  BY <1>2, LastReading
<1>5. x \in rows' /\ x.lot = l /\ \A s \in rows' : s.lot = l => s.at <= x.at
  BY <1>2, <1>4, ShownOnce DEF IsLast
<1>6. \A s \in rows' : s.lot = l => s.at < x.at \/ (s.at = x.at /\ s.id <= x.id)
  <2> SUFFICES ASSUME NEW s \in rows', s.lot = l, ~(s.at < x.at)
               PROVE  s.at = x.at /\ s.id <= x.id
    OBVIOUS
  <2>1. s.at \in Nat /\ x.at \in Nat /\ x.id \in Nat
    BY <1>2, <1>5, NumbersAssumption DEF Recorded, Row
  <2>2. s.at = x.at
    BY <1>5, <2>1
  <2>3. s = x
    BY <1>1, <1>5, <2>2 DEF NoTwins
  <2>4. QED
    BY <2>1, <2>2, <2>3
<1>7. IsCurrent(rows', l, x)
  BY <1>5, <1>6 DEF IsCurrent
<1>8. QED
  BY <1>2, <1>4, <1>7, CurrentRow

\* A collection adds live rows of one instant with the highest id.
LEMMA CollectAgrees ==
  ASSUME IInv, CollectLive, Agree
  PROVE  Agree'
<1>1. PICK t \in Times : /\ RowsInv(lots', rows') /\ rows \subseteq rows'
                         /\ \A r \in rows' \ rows : r.source = "live" /\ r.at = t /\ r.id = NextId(rows)
  BY CollectKeeps DEF CollectLive
<1>2. RowsInv(lots, rows) /\ \A r \in rows : r.id < NextId(rows)
  BY NextIdFresh DEF IInv, RowsInv, Row
<1>3. /\ Recorded(rows') /\ \A r, s \in rows' : r.id = s.id => r.source = s.source
      /\ Recorded(rows) /\ \A r, s \in rows : r.id = s.id => r.source = s.source
  <2>1. Recorded(rows) /\ \A r, s \in rows : r.id = s.id => r.source = s.source
    BY <1>2, RowsRecorded
  <2> DEFINE ls == lots'
             rs == rows'
  <2>2. RowsInv(ls, rs)
    BY <1>1
  <2> HIDE DEF ls, rs
  <2>3. Recorded(rs) /\ \A r, s \in rs : r.id = s.id => r.source = s.source
    BY <2>2, RowsRecorded
  <2>4. QED
    BY <2>1, <2>3 DEF rs
<1>4. /\ \A r \in rows' : r.at \in Nat /\ r.id \in Nat
      /\ NextId(rows) \in Nat /\ t \in Nat
  <2>1. rows \subseteq Row /\ rows' \subseteq Row /\ IsFiniteSet(rows)
    BY <1>3 DEF Recorded
  <2>2. \A r \in Row : r.at \in Nat /\ r.id \in Nat \ {0}
    BY NumbersAssumption DEF Row
  <2>3. NextId(rows) \in Nat
    BY ONLY <2>1, <2>2, NextIdFresh
  <2>4. t \in Nat
    BY NumbersAssumption
  <2>5. QED
    BY <2>1, <2>2, <2>3, <2>4
<1>5. SUFFICES ASSUME NEW l \in LotsIn(rows')
               PROVE  Current(rows', l).free = Last(ReadingsOf(rows', l)).free
  BY DEF Agree
<1>6. SUFFICES \/ \E x : IsCurrent(rows', l, x) /\ IsLast(rows', l, x)
               \/ \E x, y : IsCurrent(rows', l, x) /\ IsLast(rows', l, y) /\ x.free = y.free
  BY <1>3, CurrentRow, LastReading
<1>7. CASE \E n \in rows' \ rows : n.lot = l /\ \A s \in rows : s.lot = l => s.at <= t
  <2>1. PICK n \in rows' \ rows : n.lot = l /\ \A s \in rows : s.lot = l => s.at <= t
    BY <1>7
  <2>2. n.source = "live" /\ n.at = t /\ n.id = NextId(rows)
    BY <1>1
  <2>3. \A s \in rows' : s.lot = l => s.at < n.at \/ (s.at = n.at /\ s.id <= n.id)
    <3> SUFFICES ASSUME NEW s \in rows', s.lot = l
                 PROVE  s.at < n.at \/ (s.at = n.at /\ s.id <= n.id)
      OBVIOUS
    <3>1. CASE s \in rows
      BY <1>2, <1>4, <2>1, <2>2, <3>1
    <3>2. CASE s \notin rows
      BY <1>1, <1>4, <2>2, <3>2
    <3>3. QED
      BY <3>1, <3>2
  <2>4. IsCurrent(rows', l, n)
    BY <2>1, <2>3 DEF IsCurrent
  <2>5. n \in Shown(rows')
    BY <1>3, <2>1, <2>2, ShownOnce DEF IsMigration
  <2>6. \A s \in rows' : s.lot = l => s.at <= n.at
    BY <1>4, <2>1, <2>3
  <2>7. IsLast(rows', l, n)
    BY <2>1, <2>5, <2>6 DEF IsLast
  <2>8. QED
    BY <2>4, <2>7
<1>8. CASE \A n \in rows' \ rows : n.lot = l => \E s \in rows : s.lot = l /\ ~(s.at <= t)
  <2>1. l \in LotsIn(rows)
    <3>1. PICK n \in rows' : n.lot = l
      BY DEF LotsIn
    <3>2. \E s \in rows : s.lot = l
      BY <1>8, <3>1
    <3>3. QED
      BY <3>2 DEF LotsIn
  <2>2. PICK x, y : IsCurrent(rows, l, x) /\ IsLast(rows, l, y) /\ x.free = y.free
    BY <1>3, <2>1, CurrentRow, LastReading DEF Agree
  <2>3. /\ x \in rows /\ x.lot = l /\ y \in Shown(rows) /\ y \in rows /\ y.lot = l
        /\ \A s \in rows : s.lot = l => s.at < x.at \/ (s.at = x.at /\ s.id <= x.id)
        /\ \A s \in rows : s.lot = l => s.at <= y.at
    BY <1>3, <2>2, ShownOnce DEF IsCurrent, IsLast
  <2>4. \A n \in rows' \ rows : n.lot = l => n.at < x.at /\ n.at < y.at
    <3> SUFFICES ASSUME NEW n \in rows' \ rows, n.lot = l
                 PROVE  n.at < x.at /\ n.at < y.at
      OBVIOUS
    <3>1. PICK s \in rows : s.lot = l /\ ~(s.at <= t)
      BY <1>8
    <3>2. n.at = t /\ s.at <= y.at /\ (s.at < x.at \/ s.at = x.at)
      BY <1>1, <2>3, <3>1
    <3>3. /\ n.at \in Nat /\ s.at \in Nat /\ x.at \in Nat /\ y.at \in Nat
      BY <1>1, <1>4, <2>3
    <3>4. QED
      BY <3>1, <3>2, <3>3
  <2>5. IsCurrent(rows', l, x)
    BY <1>1, <2>3, <2>4 DEF IsCurrent
  <2>6. y \in Shown(rows')
    <3>1. \A s \in rows' : s.lot = l /\ s.at = y.at => s \in rows
      BY <1>4, <2>3, <2>4
    <3>2. QED
      BY <1>1, <2>3, <3>1 DEF Shown
  <2>7. IsLast(rows', l, y)
    BY <1>1, <1>4, <2>3, <2>4, <2>6 DEF IsLast
  <2>8. QED
    BY <2>2, <2>5, <2>7
<1>9. QED
  BY <1>7, <1>8

\* The card and the series of a lot go on agreeing through collections, and an import
\* makes them agree.
THEOREM AgreementLasts == Spec => AgreementKept
<1> DEFINE Keeps == ~Agree' => ~ImportHistory /\ ~(Agree /\ CollectLive)
<1>1. Spec => []IInv
  BY InitIInv, NextIInv, PTL DEF Spec
<1>2. IInv /\ [Next]_vars => [Keeps]_vars
  BY ImportAgrees, CollectAgrees
<1>3. Spec => [][Keeps]_vars
  BY <1>1, <1>2, PTL DEF Spec
<1>4. QED
  BY <1>3 DEF AgreementKept

-----------------------------------------------------------------------------
(* The series of an airport: the walk of each lot along the buckets.       *)

Points == Buckets + Future

\* A bucket is a width after the one before it.
LEMMA BucketsFollow ==
  ASSUME NEW end \in Nat
  PROVE  /\ \A i \in Int : Bucket(end, i) \in Int
         /\ \A i \in Int : Bucket(end, i) = Bucket(end, i - 1) + Width
         /\ Bucket(end, Buckets) <= end
<1>1. HourMinutes \in Nat \ {0} /\ Width \in Nat \ {0} /\ Buckets \in Nat
  BY SeriesAssumption
<1>2. end % HourMinutes \in Nat
  BY <1>1
<1>3. (end % HourMinutes) % Width \in Nat
  BY <1>1, <1>2
<1>4. Aligned(end) \in Int /\ Aligned(end) <= end
  BY <1>3 DEF Aligned
<1>5. ASSUME NEW i \in Int
      PROVE  Width * (Buckets - i) \in Int /\ Width * (Buckets - (i - 1)) = Width * (Buckets - i) + Width
  BY <1>1
<1>6. Width * (Buckets - Buckets) = 0
  BY <1>1
<1>7. \A i \in Int : Bucket(end, i) = Aligned(end) - Width * (Buckets - i)
  BY DEF Bucket
<1>8. ASSUME NEW i \in Int
      PROVE  Bucket(end, i) \in Int /\ Bucket(end, i) = Bucket(end, i - 1) + Width
  <2>1. i - 1 \in Int
    OBVIOUS
  <2>2. /\ Bucket(end, i) = Aligned(end) - Width * (Buckets - i)
        /\ Bucket(end, i - 1) = Aligned(end) - Width * (Buckets - (i - 1))
    BY <1>7, <2>1
  <2>3. QED
    BY <1>1, <1>4, <1>5, <2>2
<1>9. Bucket(end, Buckets) = Aligned(end) - Width * (Buckets - Buckets)
  BY <1>1, <1>7
<1>10. QED
  BY <1>4, <1>6, <1>8, <1>9

\* Where a lot's walk is after bucket i if it was at v before.
Passed(seq, end, i, v) ==
  IF Bucket(end, i) > end THEN v
  ELSE Max({v} \cup {j \in v..Len(seq) : \A k \in (v + 1)..j : seq[k].at <= Bucket(end, i)})

\* It is still in the sequence, not before v, and every reading passed is up to the bucket.
LEMMA PassedOn ==
  ASSUME NEW R, NEW seq \in Seq(R), NEW end, NEW i, NEW v \in 0..Len(seq)
  PROVE  /\ Passed(seq, end, i, v) \in v..Len(seq)
         /\ Bucket(end, i) > end => Passed(seq, end, i, v) = v
         /\ ~(Bucket(end, i) > end) =>
              /\ \A k \in (v + 1)..Passed(seq, end, i, v) : seq[k].at <= Bucket(end, i)
              /\ \A j \in v..Len(seq) :
                   (\A k \in (v + 1)..j : seq[k].at <= Bucket(end, i)) => j <= Passed(seq, end, i, v)
<1> DEFINE js == {j \in v..Len(seq) : \A k \in (v + 1)..j : seq[k].at <= Bucket(end, i)}
           all == {v} \cup js
<1>1. Len(seq) \in Nat /\ v \in Nat /\ v <= Len(seq)
  OBVIOUS
<1>2. v \in js
  BY <1>1
<1>3. all = js
  BY <1>2
<1>4. js \in SUBSET (v..Len(seq)) /\ js \in SUBSET Nat
  BY <1>1
<1>5. IsFiniteSet(js)
  <2>1. IsFiniteSet(v..Len(seq))
    BY <1>1, FS_Interval
  <2> HIDE DEF js
  <2>2. QED
    BY <1>4, <2>1, FS_Subset
<1>6. Max(js) \in js /\ \A j \in js : j <= Max(js)
  <2> HIDE DEF js
  <2>1. QED
    BY <1>2, <1>4, <1>5, MaxOfFinite
<1>7. CASE Bucket(end, i) > end
  <2>1. Passed(seq, end, i, v) = v
    BY <1>7 DEF Passed
  <2>2. QED
    BY <1>1, <1>7, <2>1
<1>8. CASE ~(Bucket(end, i) > end)
  <2>1. Passed(seq, end, i, v) = Max(js)
    BY <1>3, <1>8 DEF Passed
  <2>2. QED
    BY <1>4, <1>6, <1>8, <2>1
<1>9. QED
  BY <1>7, <1>8

\* The walk takes one bucket after the other.
Walks(w, seq, end) ==
  /\ w \in [0..Points -> 0..Len(seq)]
  /\ w[0] = 0
  /\ \A i \in 1..Points : w[i] = Passed(seq, end, i, w[i - 1])

\* The walk of the code is such a walk.
LEMMA WalkSteps ==
  ASSUME NEW R, NEW seq \in Seq(R), NEW end
  PROVE  Walks(Walk(seq, end), seq, end)
<1> DEFINE n == Points
           V == 0..Len(seq)
           step == [i \in 1..n |-> [v \in V |-> Passed(seq, end, i, v)]]
           last == [t \in SUBSET (1..n) |-> Max(t)]
           Is(w) == w = [i \in 0..n |->
             IF i = 0 THEN 0
             ELSE IF Bucket(end, i) > end THEN w[i - 1]
             ELSE Max({w[i - 1]} \cup
                      {j \in w[i - 1]..Len(seq) :
                         \A k \in (w[i - 1] + 1)..j : seq[k].at <= Bucket(end, i)})]
<1>1. n \in Nat /\ Len(seq) \in Nat
  BY SeriesAssumption DEF Points
<1>2. Walk(seq, end) = CHOOSE w : Is(w)
  BY DEF Walk, Points
<1>3. ASSUME NEW w, Is(w)
      PROVE  w[0] = 0 /\ \A i \in 1..n : w[i] = Passed(seq, end, i, w[i - 1])
  <2> HIDE DEF n
  <2>1. w[0] = 0
    BY <1>1, <1>3
  <2>2. ASSUME NEW i \in 1..n
        PROVE  w[i] = Passed(seq, end, i, w[i - 1])
    <3>1. i \in 0..n /\ i # 0
      BY <1>1
    <3>2. QED
      BY <1>3, <3>1 DEF Passed
  <2>3. QED
    BY <2>1, <2>2
<1>4. \E w : Is(w)
  <2> HIDE DEF n, Is
  <2>1. Foldable(1..n, V, 0, step, last)
    <3>1. IsFiniteSet(1..n) /\ 0 \in V
      BY <1>1, FS_Interval
    <3>2. Takes(last, 1..n)
      <4>1. \A t \in SUBSET (1..n) : t # {} => IsFiniteSet(t) /\ t \in SUBSET Nat
        <5> SUFFICES ASSUME NEW t \in SUBSET (1..n), t # {}
                     PROVE  IsFiniteSet(t) /\ t \in SUBSET Nat
          OBVIOUS
        <5>1. IsFiniteSet(t)
          BY <3>1, FS_Subset
        <5>2. QED
          BY <5>1
      <4>2. QED
        BY <4>1, MaxOfFinite DEF Takes
    <3>3. \A i \in 1..n, v \in V : Passed(seq, end, i, v) \in V
      BY <1>1, PassedOn
    <3>4. QED
      BY <3>1, <3>2, <3>3 DEF Foldable
  <2>2. PICK f \in [SUBSET (1..n) -> V] : Solves(f, 1..n, 0, step, last)
    <3> HIDE DEF step, last, V
    <3>1. Solvable(1..n, V, 0, step, last)
      BY <2>1, FoldSolution
    <3>2. QED
      BY <3>1 DEF Solvable
  <2> DEFINE w == [i \in 0..n |-> f[1..i]]
  <2>3. w[0] = 0
    <3>1. 1..0 = {} /\ {} \in SUBSET (1..n)
      OBVIOUS
    <3>2. f[{}] = 0
      BY <2>2, <3>1 DEF Solves
    <3>3. QED
      BY <1>1, <3>1, <3>2
  <2>4. ASSUME NEW i \in 1..n
        PROVE  w[i] = Passed(seq, end, i, w[i - 1])
    <3>1. i \in 0..n /\ i - 1 \in 0..n /\ 1..i \in SUBSET (1..n) /\ 1..i # {}
      <4>1. i \in 0..n /\ i - 1 \in 0..n /\ i \in 1..i
        BY <1>1
      <4>2. 1..i \in SUBSET (1..n)
        BY <1>1
      <4>3. QED
        BY <4>1, <4>2
    <3>2. last[1..i] = i
      <4>1. IsFiniteSet(1..i) /\ 1..i \in SUBSET Nat /\ i \in 1..i
        BY FS_Interval
      <4>2. Max(1..i) \in 1..i /\ i <= Max(1..i)
        BY <4>1, MaxOfFinite
      <4>3. QED
        BY <3>1, <4>2
    <3>3. (1..i) \ {i} = 1..(i - 1) /\ 1..(i - 1) \in SUBSET (1..n)
      <4>1. \A x : x \in (1..i) \ {i} <=> x \in 1..(i - 1)
        BY <1>1
      <4>2. \A x \in 1..(i - 1) : x \in 1..n
        BY <1>1
      <4>3. QED
        BY <4>1, <4>2
    <3> HIDE DEF last
    <3>4. f[1..i] = step[i][f[1..(i - 1)]]
      <4>1. f[1..i] = step[last[1..i]][f[(1..i) \ {last[1..i]}]]
        BY <2>2, <3>1 DEF Solves
      <4>2. QED
        BY <3>2, <3>3, <4>1
    <3>5. f[1..(i - 1)] \in V
      BY <3>3
    <3>6. w[i] = f[1..i] /\ w[i - 1] = f[1..(i - 1)]
      BY <3>1
    <3>7. QED
      BY <3>4, <3>5, <3>6
  <2>5. w = [i \in 0..n |-> w[i]]
    OBVIOUS
  <2> HIDE DEF w
  <2>6. \A i \in 0..n : i # 0 => i \in 1..n
    BY <1>1
  <2>7. Is(w)
    BY <2>3, <2>4, <2>5, <2>6 DEF Passed, Is
  <2>8. QED
    BY <2>7
<1> HIDE DEF Is
<1>5. PICK w : w = Walk(seq, end) /\ Is(w)
  BY <1>2, <1>4
<1>6. /\ w[0] = 0
      /\ \A i \in 1..n : w[i] = Passed(seq, end, i, w[i - 1])
  BY <1>3, <1>5
<1>7. \A i \in 0..n : w[i] \in V
  <2> DEFINE Bad == {i \in 0..n : w[i] \notin V}
  <2>1. SUFFICES ASSUME Bad # {} PROVE FALSE
    OBVIOUS
  <2>2. Bad \in SUBSET Nat
    BY <1>1
  <2>3. PICK i \in Bad : \A j \in Bad : i <= j
    <3> HIDE DEF Bad
    <3>1. QED
      BY <2>1, <2>2, LeastNumber
  <2>4. i # 0
    BY <1>1, <1>6
  <2>5. i - 1 \in 0..n /\ i \in 1..n /\ i - 1 \notin Bad
    BY <1>1, <2>3, <2>4
  <2>6. w[i - 1] \in V
    BY <2>5
  <2>7. w[i] \in V
    BY <1>1, <1>6, <2>5, <2>6, PassedOn
  <2>8. QED
    BY <2>3, <2>7
<1>8. w \in [0..n -> V]
  <2>1. w = [i \in 0..n |-> w[i]]
    BY <1>5 DEF Is
  <2>2. QED
    BY <1>7, <2>1
<1>9. QED
  BY <1>5, <1>6, <1>8 DEF Walks

\* At a bucket that is not after the end, what the walk has passed is what was read
\* up to the bucket.
LEMMA PassedUptoBucket ==
  ASSUME NEW R, Apart(R), NEW seq, Lists(seq, R), NEW end \in Nat,
         NEW i \in 1..Points, ~(Bucket(end, i) > end)
  PROVE  /\ Walk(seq, end)[i] \in 0..Len(seq)
         /\ \A k \in 1..Len(seq) : seq[k].at <= Bucket(end, i) <=> k <= Walk(seq, end)[i]
<1> DEFINE w == Walk(seq, end)
           n == Points
           Upto(j) == \A k \in 1..w[j] : seq[k].at <= Bucket(end, j)
           Bad == {j \in 0..n : ~Upto(j)}
<1>1. /\ seq \in Seq(R) /\ Len(seq) \in Nat /\ n \in Nat /\ Width \in Nat \ {0}
      /\ \A k \in 1..Len(seq) : seq[k].at \in Nat
      /\ \A j, k \in 1..Len(seq) : j < k => seq[j].at < seq[k].at
  BY SeriesAssumption DEF Lists, Apart, Points
<1>2. /\ w \in [0..n -> 0..Len(seq)] /\ w[0] = 0
      /\ \A j \in 1..n : w[j] = Passed(seq, end, j, w[j - 1])
  BY <1>1, WalkSteps DEF Walks
<1>3. /\ \A j \in Int : Bucket(end, j) \in Int
      /\ \A j \in Int : Bucket(end, j) = Bucket(end, j - 1) + Width
  BY BucketsFollow
<1> HIDE DEF w, n
<1>4. ASSUME NEW j \in 1..n
      PROVE  /\ j - 1 \in 0..n /\ j \in Int /\ w[j - 1] \in 0..Len(seq)
             /\ Bucket(end, j - 1) \in Int /\ Bucket(end, j) \in Int
             /\ Bucket(end, j - 1) <= Bucket(end, j)
             /\ w[j] \in w[j - 1]..Len(seq)
  <2>1. j - 1 \in 0..n /\ j \in Int /\ j - 1 \in Int
    BY <1>1
  <2>2. w[j - 1] \in 0..Len(seq)
    BY <1>2, <2>1
  <2>3. w[j] \in w[j - 1]..Len(seq)
    BY <1>1, <1>2, <2>2, PassedOn
  <2>4. Bucket(end, j - 1) \in Int /\ Bucket(end, j) = Bucket(end, j - 1) + Width
    BY <1>3, <2>1
  <2>5. QED
    BY <1>1, <2>1, <2>2, <2>3, <2>4
<1>5. ASSUME NEW j \in 1..n, Upto(j - 1)
      PROVE  Upto(j)
  <2> SUFFICES ASSUME NEW k \in 1..w[j] PROVE seq[k].at <= Bucket(end, j)
    OBVIOUS
  <2>1. k \in 1..Len(seq) /\ w[j - 1] \in Nat /\ w[j] \in Nat /\ seq[k].at \in Nat
    BY <1>1, <1>4
  <2>2. CASE k \in 1..w[j - 1]
    <3>1. seq[k].at <= Bucket(end, j - 1)
      BY <1>5, <2>2
    <3>2. QED
      BY <1>4, <2>1, <3>1
  <2>3. CASE k \in (w[j - 1] + 1)..w[j]
    <3>1. ~(Bucket(end, j) > end)
      <4>1. SUFFICES ASSUME Bucket(end, j) > end PROVE FALSE
        OBVIOUS
      <4>2. w[j] = w[j - 1]
        BY <1>1, <1>2, <1>4, <4>1, PassedOn
      <4>3. QED
        BY <2>1, <2>3, <4>2
    <3>2. \A x \in (w[j - 1] + 1)..Passed(seq, end, j, w[j - 1]) : seq[x].at <= Bucket(end, j)
      BY <1>1, <1>4, <3>1, PassedOn
    <3>3. QED
      BY <1>2, <2>3, <3>2
  <2>4. QED
    BY <2>1, <2>2, <2>3
<1>6. \A j \in 0..n : Upto(j)
  <2>1. SUFFICES ASSUME Bad # {} PROVE FALSE
    OBVIOUS
  <2>2. Bad \in SUBSET Nat
    BY <1>1
  <2>3. PICK j \in Bad : \A x \in Bad : j <= x
    <3> HIDE DEF Bad
    <3>1. QED
      BY <2>1, <2>2, LeastNumber
  <2>4. Upto(0)
    BY <1>2
  <2>5. j # 0 /\ j \in 0..n
    BY <2>3, <2>4
  <2>6. j \in 1..n /\ j - 1 \in 0..n /\ ~(j <= j - 1)
    BY <1>1, <2>5
  <2>7. j - 1 \notin Bad
    BY <2>3, <2>6
  <2> HIDE DEF Upto
  <2>8. Upto(j - 1)
    BY <2>6, <2>7
  <2>9. Upto(j)
    BY <1>5, <2>6, <2>8
  <2>10. QED
    BY <2>3, <2>9
<1>7. i \in 1..n /\ w[i] \in 0..Len(seq) /\ w[i] = Passed(seq, end, i, w[i - 1])
  BY <1>1, <1>2 DEF n
<1>8. ASSUME NEW k \in 1..Len(seq), seq[k].at <= Bucket(end, i)
      PROVE  k <= w[i]
  <2>1. CASE k <= w[i - 1]
    BY <1>4, <1>7, <2>1
  <2>2. CASE ~(k <= w[i - 1])
    <3>1. k \in w[i - 1]..Len(seq)
      BY <1>1, <1>4, <1>7, <2>2
    <3>2. ASSUME NEW x \in (w[i - 1] + 1)..k
          PROVE  seq[x].at <= Bucket(end, i)
      <4>1. x \in 1..Len(seq) /\ x <= k
        <5>1. PICK v \in Nat : v = w[i - 1]
          BY <1>1, <1>4, <1>7
        <5>2. x \in (v + 1)..k /\ k \in 1..Len(seq) /\ Len(seq) \in Nat
          BY <1>1, <5>1
        <5>3. QED
          BY ONLY <5>1, <5>2
      <4>2. seq[x].at <= seq[k].at /\ seq[x].at \in Nat /\ seq[k].at \in Nat
        <5>1. x = k \/ x < k
          BY <1>1, <4>1
        <5>2. seq[x].at \in Nat /\ seq[k].at \in Nat
          BY <1>1, <4>1
        <5>3. x < k => seq[x].at < seq[k].at
          BY <1>1, <4>1
        <5>4. QED
          BY ONLY <5>1, <5>2, <5>3
      <4>3. Bucket(end, i) \in Int
        BY <1>4, <1>7
      <4>4. QED
        BY ONLY <1>8, <4>2, <4>3
    <3>3. k <= Passed(seq, end, i, w[i - 1])
      BY <1>1, <1>4, <1>7, <3>1, <3>2, PassedOn
    <3>4. QED
      BY <1>7, <3>3
  <2>3. QED
    BY <2>1, <2>2
<1>9. ASSUME NEW k \in 1..Len(seq), k <= w[i]
      PROVE  seq[k].at <= Bucket(end, i)
  <2>1. i \in 0..n
    BY <1>1, <1>7
  <2>2. Upto(i)
    BY <1>6, <2>1
  <2>3. k \in 1..w[i]
    BY <1>7, <1>9
  <2>4. QED
    BY <2>2, <2>3
<1>10. QED
  BY <1>7, <1>8, <1>9 DEF w

\* Of readings, those up to an instant.
UptoIn(R, t) == {r \in R : r.at <= t}

\* Of a lot, they are those its point of a series may show.
LEMMA SeenIs ==
  ASSUME NEW rs, NEW l, NEW t
  PROVE  Seen(rs, l, t) = UptoIn(OfLot(rs, l), t)
BY DEF Seen, UptoIn, OfLot

\* The latest of readings apart is the one after which there is none.
LEMMA LatestUnique ==
  ASSUME NEW R, Apart(R), NEW some \in SUBSET R, NEW r \in some, \A s \in some : s.at <= r.at
  PROVE  LatestOf(some) = r
<1>1. LatestOf(some) \in some /\ \A s \in some : s.at <= LatestOf(some).at
  BY DEF LatestOf
<1>2. r.at \in Nat /\ LatestOf(some).at \in Nat /\ r \in R /\ LatestOf(some) \in R
  BY <1>1 DEF Apart
<1>3. r.at = LatestOf(some).at
  BY <1>1, <1>2
<1>4. QED
  BY <1>2, <1>3 DEF Apart

\* Passing the readings up to an instant, one stands on the latest of them.
LEMMA LatestPassed ==
  ASSUME NEW R, Apart(R), NEW seq, Lists(seq, R), NEW t,
         NEW b \in 0..Len(seq), \A k \in 1..Len(seq) : seq[k].at <= t <=> k <= b
  PROVE  /\ b > 0 <=> UptoIn(R, t) # {}
         /\ b > 0 => LatestOf(UptoIn(R, t)) = seq[b]
<1>1. /\ seq \in Seq(R) /\ Len(seq) \in Nat /\ \A r \in R : r.at \in Nat
      /\ \A i, j \in 1..Len(seq) : i < j => seq[i].at < seq[j].at
      /\ \A r \in R : \E i \in 1..Len(seq) : seq[i] = r
  BY DEF Lists, Apart
<1>2. ASSUME NEW r \in UptoIn(R, t)
      PROVE  b > 0 /\ \E i \in 1..b : seq[i] = r
  <2>1. PICK i \in 1..Len(seq) : seq[i] = r
    BY <1>1 DEF UptoIn
  <2>2. i <= b
    BY <2>1 DEF UptoIn
  <2>3. i \in Nat /\ b \in Nat /\ i >= 1
    BY <1>1, <2>1
  <2>4. b > 0 /\ i \in 1..b
    BY <2>2, <2>3
  <2>5. QED
    BY <2>1, <2>4
<1>3. ASSUME b > 0
      PROVE  LatestOf(UptoIn(R, t)) = seq[b] /\ seq[b] \in UptoIn(R, t)
  <2>1. b \in 1..Len(seq)
    BY <1>1, <1>3
  <2>2. seq[b] \in UptoIn(R, t)
    BY <1>1, <2>1 DEF UptoIn
  <2>3. ASSUME NEW s \in UptoIn(R, t)
        PROVE  s.at <= seq[b].at
    <3>1. PICK i \in 1..b : seq[i] = s
      BY <1>2
    <3>2. i = b \/ i < b
      BY <1>1, <2>1
    <3>3. i \in 1..Len(seq) /\ seq[i].at \in Nat /\ seq[b].at \in Nat
      BY <1>1, <2>1
    <3>4. i < b => seq[i].at < seq[b].at
      BY <1>1, <2>1, <3>3
    <3>5. QED
      BY <3>1, <3>2, <3>3, <3>4
  <2>4. UptoIn(R, t) \in SUBSET R
    BY DEF UptoIn
  <2>5. QED
    BY <2>2, <2>3, <2>4, LatestUnique
<1>4. QED
  BY <1>2, <1>3

\* The lots with a reading up to a bucket, as the walk counts them.
CountedAt(rs, end, i) ==
  {l \in LotsIn(rs) : Bucket(end, i) <= end /\ Walk(ReadingsOf(rs, l), end)[i] > 0}

LastReadings(rs) == [l \in LotsIn(rs) |-> Last(ReadingsOf(rs, l))]

ReadingsAt(rs, end, i) ==
  [l \in CountedAt(rs, end, i) |-> ReadingsOf(rs, l)[Walk(ReadingsOf(rs, l), end)[i]]]

\* What a point of the series is made of.
LEMMA PointsOfSeries ==
  ASSUME NEW rs, NEW end, NEW anchored, NEW i \in 1..Points
  PROVE  TimeSeries(rs, end, anchored)[i] =
           IF Stamped(i, anchored)
           THEN Point(LotsIn(rs), LastReadings(rs))
           ELSE Point(CountedAt(rs, end, i), ReadingsAt(rs, end, i))
<1> DEFINE lotsIn == LotsIn(rs)
           seqs == [l \in lotsIn |-> ReadingsOf(rs, l)]
           behind == [l \in lotsIn |-> Walk(seqs[l], end)]
           Counted(j) == {l \in lotsIn : Bucket(end, j) <= end /\ behind[l][j] > 0}
<1>1. TimeSeries(rs, end, anchored) =
        [j \in 1..(Buckets + Future) |->
          IF Stamped(j, anchored)
          THEN Point(lotsIn, [l \in lotsIn |-> Last(seqs[l])])
          ELSE Point(Counted(j), [l \in Counted(j) |-> seqs[l][behind[l][j]]])]
  BY DEF TimeSeries
<1>2. Counted(i) = CountedAt(rs, end, i)
  BY DEF CountedAt
<1>3. [l \in lotsIn |-> Last(seqs[l])] = LastReadings(rs)
  BY DEF LastReadings
<1>4. [l \in Counted(i) |-> seqs[l][behind[l][i]]] = ReadingsAt(rs, end, i)
  <2>1. \A l \in Counted(i) : l \in lotsIn
    OBVIOUS
  <2>2. \A l \in lotsIn : seqs[l] = ReadingsOf(rs, l) /\ behind[l] = Walk(ReadingsOf(rs, l), end)
    OBVIOUS
  <2> HIDE DEF seqs, behind, Counted
  <2>3. QED
    BY <1>2, <2>1, <2>2 DEF ReadingsAt
<1> HIDE DEF seqs, behind, Counted, lotsIn
<1>5. QED
  BY <1>1, <1>2, <1>3, <1>4 DEF Points, lotsIn

\* The last instant of some rows.
LEMMA LastInstant ==
  ASSUME NEW rs, Recorded(rs), rs # {}
  PROVE  LastAt(rs) \in Nat /\ \A r \in rs : r.at <= LastAt(rs)
<1> DEFINE atOf == [r \in rs |-> r.at]
           instants == {r.at : r \in rs}
<1>1. instants = {atOf[r] : r \in rs}
  OBVIOUS
<1>2. IsFiniteSet(instants)
  <2>1. IsFiniteSet({atOf[r] : r \in rs})
    <3> HIDE DEF atOf
    <3>1. QED
      BY ImageFinite DEF Recorded
  <2>2. QED
    BY <1>1, <2>1
<1>3. instants \in SUBSET Nat /\ instants # {}
  <2>1. \A r \in rs : r.at \in Nat
    BY NumbersAssumption DEF Recorded, Row
  <2>2. QED
    BY <2>1
<1>4. \A r \in rs : r.at \in instants
  OBVIOUS
<1>5. LastAt(rs) = Max(instants)
  BY DEF LastAt
<1> HIDE DEF instants
<1>6. Max(instants) \in instants /\ \A n \in instants : n <= Max(instants)
  BY <1>2, <1>3, MaxOfFinite
<1>7. QED
  BY <1>3, <1>4, <1>5, <1>6

\* Every point of a series is what it means.
LEMMA SeriesShows ==
  ASSUME NEW rs, Recorded(rs), rs # {}, NEW end \in Nat, NEW anchored \in BOOLEAN,
         NEW i \in 1..Points
  PROVE  TimeSeries(rs, end, anchored)[i] = Meant(rs, UptoInstant(rs, i, end, anchored))
<1> DEFINE t == UptoInstant(rs, i, end, anchored)
           seen == LotsSeen(rs, t)
<1>1. ASSUME NEW l \in LotsIn(rs)
      PROVE  /\ Apart(OfLot(rs, l)) /\ Lists(ReadingsOf(rs, l), OfLot(rs, l))
             /\ \A r \in OfLot(rs, l) : r \in rs /\ r.at \in Nat
  <2>1. Apart(OfLot(rs, l)) /\ Lists(ReadingsOf(rs, l), OfLot(rs, l))
    BY ReadingsListed
  <2>2. QED
    BY <2>1, ShownOnce DEF OfLot, Apart
<1>2. CASE Stamped(i, anchored)
  <2>1. t = LastAt(rs)
    <3>1. i = Buckets /\ ~anchored /\ Buckets \in Int
      BY <1>2, SeriesAssumption DEF Stamped
    <3>2. ~(Bucket(end, i) > end)
      BY <3>1, BucketsFollow
    <3>3. QED
      BY <3>1, <3>2 DEF UptoInstant
  <2>2. ASSUME NEW l \in LotsIn(rs)
        PROVE  /\ Seen(rs, l, t) # {}
               /\ LatestOf(Seen(rs, l, t)) = Last(ReadingsOf(rs, l))
    <3>1. IsLast(rs, l, Last(ReadingsOf(rs, l)))
      BY LastReading
    <3>2. Seen(rs, l, t) = OfLot(rs, l)
      <4>1. \A r \in OfLot(rs, l) : r.at <= t
        BY <1>1, <2>1, LastInstant
      <4>2. QED
        BY <4>1, SeenIs DEF UptoIn
    <3>3. /\ Last(ReadingsOf(rs, l)) \in OfLot(rs, l)
          /\ \A s \in OfLot(rs, l) : s.at <= Last(ReadingsOf(rs, l)).at
      BY <1>1, <3>1 DEF IsLast, OfLot
    <3>4. QED
      BY <1>1, <3>2, <3>3, LatestUnique
  <2> HIDE DEF t
  <2>3. LotsIn(rs) = seen
    BY <2>2 DEF LotsSeen
  <2>4. LastReadings(rs) = [l \in seen |-> LatestOf(Seen(rs, l, t))]
    BY <2>2, <2>3 DEF LastReadings
  <2>5. TimeSeries(rs, end, anchored)[i] = Point(LotsIn(rs), LastReadings(rs))
    BY <1>2, PointsOfSeries
  <2>6. QED
    BY <2>3, <2>4, <2>5 DEF Meant, t
<1>3. CASE ~Stamped(i, anchored)
  <2> DEFINE counted == CountedAt(rs, end, i)
  <2>1. ASSUME NEW l \in LotsIn(rs)
        PROVE  /\ l \in counted <=> Seen(rs, l, t) # {}
               /\ l \in counted => LatestOf(Seen(rs, l, t)) =
                                   ReadingsOf(rs, l)[Walk(ReadingsOf(rs, l), end)[i]]
    <3>1. i \in Int /\ Bucket(end, i) \in Int
      <4>1. i \in Int
        BY SeriesAssumption DEF Points
      <4>2. QED
        BY <4>1, BucketsFollow
    <3>2. CASE Bucket(end, i) > end
      <4>1. t = 0 - 1
        BY <1>3, <3>2 DEF UptoInstant, Stamped
      <4>2. Seen(rs, l, t) = {}
        BY <1>1, <4>1, SeenIs DEF UptoIn
      <4>3. l \notin counted
        BY <3>1, <3>2 DEF CountedAt
      <4>4. QED
        BY <4>2, <4>3
    <3>3. CASE ~(Bucket(end, i) > end)
      <4>1. t = Bucket(end, i)
        BY <1>3, <3>3 DEF UptoInstant, Stamped
      <4>2. PICK b : b = Walk(ReadingsOf(rs, l), end)[i]
        OBVIOUS
      <4>3. /\ b \in 0..Len(ReadingsOf(rs, l))
            /\ \A k \in 1..Len(ReadingsOf(rs, l)) :
                 ReadingsOf(rs, l)[k].at <= Bucket(end, i) <=> k <= b
        BY <1>1, <3>3, <4>2, PassedUptoBucket
      <4>4. l \in counted <=> b > 0
        BY <3>1, <3>3, <4>2 DEF CountedAt
      <4>5. /\ b > 0 <=> Seen(rs, l, Bucket(end, i)) # {}
            /\ b > 0 => LatestOf(Seen(rs, l, Bucket(end, i))) = ReadingsOf(rs, l)[b]
        BY <1>1, <4>3, LatestPassed, SeenIs
      <4>6. QED
        BY <4>1, <4>2, <4>4, <4>5
    <3>4. QED
      BY <3>2, <3>3
  <2> HIDE DEF t
  <2>2. counted = seen
    BY <2>1 DEF LotsSeen, CountedAt
  <2>3. ReadingsAt(rs, end, i) = [l \in seen |-> LatestOf(Seen(rs, l, t))]
    <3>1. \A l \in counted : l \in LotsIn(rs)
      BY DEF CountedAt
    <3>2. ReadingsAt(rs, end, i) =
            [l \in counted |-> ReadingsOf(rs, l)[Walk(ReadingsOf(rs, l), end)[i]]]
      BY DEF ReadingsAt
    <3> HIDE DEF counted, seen
    <3>3. QED
      BY <2>1, <2>2, <3>1, <3>2
  <2>4. TimeSeries(rs, end, anchored)[i] = Point(counted, ReadingsAt(rs, end, i))
    BY <1>3, PointsOfSeries
  <2>5. QED
    BY <2>2, <2>3, <2>4 DEF Meant, t
<1>4. QED
  BY <1>2, <1>3

\* What is shown is shown of itself.
LEMMA ShownAgain ==
  ASSUME NEW rs, Recorded(rs)
  PROVE  /\ Recorded(Shown(rs)) /\ Shown(Shown(rs)) = Shown(rs)
         /\ LotsIn(Shown(rs)) = LotsIn(rs) /\ (Shown(rs) = {} <=> rs = {})
<1>1. /\ Shown(rs) \in SUBSET rs
      /\ \A r \in rs : \E s \in Shown(rs) : s.lot = r.lot /\ s.at = r.at
  BY ShownOnce
<1>2. Recorded(Shown(rs))
  BY <1>1, SomeRecorded
<1>3. Shown(Shown(rs)) = Shown(rs)
  BY <1>1 DEF Shown
<1>4. LotsIn(Shown(rs)) = LotsIn(rs)
  BY <1>1 DEF LotsIn
<1>5. QED
  BY <1>1, <1>2, <1>3, <1>4

\* A day has minutes.
LEMMA DayLong ==
  /\ DayMinutes \in Nat \ {0} /\ Width \in Nat \ {0} /\ Width <= DayMinutes
  /\ \A d \in Nat : d * DayMinutes \in Nat /\ (d + 1) * DayMinutes = d * DayMinutes + DayMinutes
<1>1. HourMinutes \in Nat \ {0} /\ HoursOfDay \in Nat \ {0} /\ Width \in 1..HourMinutes
  BY SeriesAssumption, ClockAssumption
<1>2. PICK h \in Nat : HoursOfDay = h + 1
  <2>1. HoursOfDay - 1 \in Nat /\ HoursOfDay = (HoursOfDay - 1) + 1
    BY <1>1
  <2>2. QED
    BY <2>1
<1>3. HourMinutes * HoursOfDay = HourMinutes * h + HourMinutes /\ HourMinutes * h \in Nat
  BY <1>1, <1>2
<1>4. DayMinutes \in Nat \ {0} /\ Width <= DayMinutes /\ Width \in Nat \ {0}
  <2>1. DayMinutes = HourMinutes * h + HourMinutes
    BY <1>3 DEF DayMinutes
  <2>2. PICK x \in Nat : x = HourMinutes * h
    BY <1>3
  <2>3. QED
    BY <1>1, <2>1, <2>2
<1>5. PICK m \in Nat : m = DayMinutes
  BY <1>4
<1>6. \A d \in Nat : d * m \in Nat /\ (d + 1) * m = d * m + m
  OBVIOUS
<1>7. QED
  BY <1>4, <1>5, <1>6

\* An hour that is made of whole buckets, less a bucket, is made of whole buckets.
LEMMA WholeBuckets ==
  ASSUME NEW x \in Nat \ {0}, HourMinutes % Width = 0
  PROVE  /\ x * HourMinutes - Width \in Nat
         /\ ((x * HourMinutes - Width) % HourMinutes) % Width = 0
<1>1. HourMinutes \in Nat \ {0} /\ Width \in Nat \ {0} /\ Width <= HourMinutes
  BY SeriesAssumption
<1>2. PICK h \in Nat, w \in Nat : h = HourMinutes /\ w = Width
  BY <1>1
<1>3. h > 0 /\ w > 0 /\ w <= h /\ h % w = 0
  BY <1>1, <1>2
<1>4. PICK k \in Nat : h = w * k
  <2>1. \A a \in Nat, d \in Nat \ {0} : a = d * (a \div d) + (a % d) /\ a \div d \in Nat
    OBVIOUS
  <2>2. h = w * (h \div w) + (h % w) /\ h \div w \in Nat
    BY <1>3, <2>1
  <2>3. PICK k \in Nat : k = h \div w
    BY <2>2
  <2>4. w * k \in Nat /\ h = w * k + 0
    BY <1>3, <2>2, <2>3
  <2>5. QED
    BY <2>4
<1>5. x - 1 \in Nat /\ x * h = (x - 1) * h + h /\ (x - 1) * h \in Nat
  <2>1. PICK y \in Nat : x = y + 1
    <3>1. x - 1 \in Nat /\ x = (x - 1) + 1
      OBVIOUS
    <3>2. QED
      BY <3>1
  <2>2. (y + 1) * h = y * h + h /\ y * h \in Nat /\ (y + 1) - 1 = y
    OBVIOUS
  <2>3. QED
    BY <2>1, <2>2
<1>6. h - w \in Nat /\ h - w < h /\ x * h - w = (x - 1) * h + (h - w) /\ x * h - w \in Nat
  <2>1. PICK p \in Nat : p = (x - 1) * h
    BY <1>5
  <2>2. x * h = p + h
    BY <1>5, <2>1
  <2>3. QED
    BY <1>3, <2>1, <2>2
<1>7. (x * h - w) % h = h - w
  <2>1. \A q \in Nat, r \in Nat : r < h => (q * h + r) % h = r
    BY <1>3
  <2>2. QED
    BY <1>5, <1>6, <2>1
<1>8. (h - w) % w = 0
  <2>1. k > 0
    BY <1>3, <1>4
  <2>2. PICK j \in Nat : k = j + 1
    <3>1. k - 1 \in Nat /\ k = (k - 1) + 1
      BY <2>1
    <3>2. QED
      BY <3>1
  <2>3. h - w = w * j /\ w * j \in Nat
    <3>1. w * (j + 1) = w * j + w /\ w * j \in Nat
      OBVIOUS
    <3>2. PICK p \in Nat : p = w * j
      BY <3>1
    <3>3. QED
      BY <1>4, <2>2, <3>1, <3>2
  <2>4. (w * j) % w = 0
    BY <1>3
  <2>5. QED
    BY <2>3, <2>4
<1>9. QED
  BY <1>2, <1>6, <1>7, <1>8

\* The series of a day ends with the last bucket of the day.
LEMMA DayEnds ==
  ASSUME NEW date \in Nat, NEW ofDay
  PROVE  /\ RangeEnd(ofDay, date) \in Nat
         /\ RangeEnd(ofDay, date) = date * DayMinutes + DayMinutes - Width
         /\ Buckets * Width = DayMinutes /\ HourMinutes % Width = 0 =>
              Bucket(RangeEnd(ofDay, date), 1) = date * DayMinutes
<1> DEFINE end == date * DayMinutes + DayMinutes - Width
<1>1. PICK m \in Nat, d \in Nat, w \in Nat :
        /\ m = DayMinutes /\ d = date * DayMinutes /\ w = Width /\ w <= m
        /\ (date + 1) * DayMinutes = d + m
  BY DayLong
<1>2. end \in Nat /\ end = d + m - w
  BY <1>1
<1>3. RangeEnd(ofDay, date) = end
  BY <1>1, <1>2 DEF RangeEnd
<1>4. ASSUME Buckets * Width = DayMinutes, HourMinutes % Width = 0
      PROVE  Bucket(end, 1) = d
  <2>1. HourMinutes \in Nat \ {0} /\ HoursOfDay \in Nat \ {0} /\ Buckets \in Nat \ {0}
    BY SeriesAssumption, ClockAssumption
  <2>2. PICK x \in Nat \ {0} : (date + 1) * DayMinutes = x * HourMinutes
    <3>1. PICK n \in Nat : n = date + 1
      OBVIOUS
    <3>2. PICK a \in Nat, b \in Nat : a = HourMinutes /\ b = HoursOfDay /\ a > 0 /\ b > 0
      BY <2>1
    <3>3. n * (a * b) = (n * b) * a /\ n * b \in Nat
      OBVIOUS
    <3>4. n * b > 0
      <4>1. PICK j \in Nat : n = j + 1
        BY <3>1
      <4>2. (j + 1) * b = j * b + b /\ j * b \in Nat
        OBVIOUS
      <4>3. PICK p \in Nat : p = j * b
        BY <4>2
      <4>4. QED
        BY <3>2, <4>1, <4>2, <4>3
    <3>5. DayMinutes = a * b
      BY <3>2 DEF DayMinutes
    <3>6. n * b \in Nat \ {0}
      BY <3>3, <3>4
    <3>7. QED
      BY <3>1, <3>2, <3>3, <3>5, <3>6
  <2>3. end = x * HourMinutes - Width
    BY <1>1, <1>2, <2>2
  <2>4. (end % HourMinutes) % Width = 0
    BY <1>4, <2>3, WholeBuckets
  <2>5. Aligned(end) = end
    BY <1>2, <2>4 DEF Aligned
  <2>6. Width * (Buckets - 1) = m - w
    <3>1. PICK c \in Nat : Buckets = c + 1
      <4>1. Buckets - 1 \in Nat /\ Buckets = (Buckets - 1) + 1
        BY <2>1
      <4>2. QED
        BY <4>1
    <3>2. (c + 1) * w = c * w + w /\ c * w \in Nat /\ w * ((c + 1) - 1) = c * w
      OBVIOUS
    <3>3. PICK p \in Nat : p = c * w
      BY <3>2
    <3>4. QED
      BY <1>1, <1>4, <3>1, <3>2, <3>3
  <2>7. Bucket(end, 1) = end - (m - w)
    BY <2>5, <2>6 DEF Bucket
  <2>8. QED
    BY <1>1, <1>2, <2>7
<1> HIDE DEF end
<1>5. QED
  BY <1>1, <1>2, <1>3, <1>4 DEF end

\* The series of one day is that of what was recorded on it.
LEMMA DaySeries ==
  ASSUME NEW rs, Recorded(rs), NEW date \in Nat, NEW ofDay,
         ofDay = {r \in rs : DateOf(r.at) = date}, ofDay # {}
  PROVE  /\ Recorded(ofDay)
         /\ RangeSeries(rs, LotsIn(rs), date, date) = TimeSeries(Shown(ofDay), RangeEnd(ofDay, date), TRUE)
<1>1. ofDay \in SUBSET rs
  OBVIOUS
<1>2. Recorded(ofDay)
  BY <1>1, SomeRecorded
<1>3. date..date = {date}
  OBVIOUS
<1>4. \A r \in rs : r.lot \in LotsIn(rs)
  BY DEF LotsIn
<1>5. {r \in rs : r.lot \in LotsIn(rs) /\ DateOf(r.at) \in date..date} = ofDay
  BY <1>3, <1>4
<1>6. LoadedBetween(rs, LotsIn(rs), date, date) = Shown(ofDay)
  BY <1>5 DEF LoadedBetween
<1>7. Shown(ofDay) # {}
  BY <1>2, ShownAgain
<1>8. RangeEnd(Shown(ofDay), date) = RangeEnd(ofDay, date)
  BY DEF RangeEnd
<1>9. QED
  BY <1>2, <1>6, <1>7, <1>8 DEF RangeSeries

\* Dates are natural numbers.
LEMMA Dates ==
  ASSUME NEW t \in Nat
  PROVE  DateOf(t) \in Nat
<1>1. PICK m \in Nat : m = DayMinutes /\ m > 0
  BY DayLong
<1>2. t \div m \in Nat
  BY <1>1
<1>3. QED
  BY <1>1, <1>2 DEF DateOf

\* The series of any rows a table may hold mean what they should.
LEMMA SeriesMean ==
  ASSUME Recorded(rows)
  PROVE  SeriesMeansLatest
<1>1. ASSUME rows # {}
      PROVE  Matches(TimeSeries(rows, LastAt(rows), FALSE), rows, LastAt(rows), FALSE)
  <2>1. LastAt(rows) \in Nat
    BY <1>1, LastInstant
  <2>2. QED
    BY <1>1, <2>1, SeriesShows DEF Matches, Points
<1>2. ASSUME NEW date \in {DateOf(t) : t \in Times}, NEW ofDay,
             ofDay = {r \in rows : DateOf(r.at) = date}
      PROVE  /\ ofDay # {} => Matches(RangeSeries(rows, LotsIn(rows), date, date), ofDay,
                                      date * DayMinutes + DayMinutes - Width, TRUE)
             /\ Buckets * Width = DayMinutes /\ HourMinutes % Width = 0 =>
                  Bucket(RangeEnd(ofDay, date), 1) = date * DayMinutes
  <2>1. date \in Nat
    BY Dates, NumbersAssumption
  <2>2. PICK end \in Nat : /\ end = RangeEnd(ofDay, date)
                           /\ end = date * DayMinutes + DayMinutes - Width
    BY <2>1, DayEnds
  <2>3. ASSUME ofDay # {}
        PROVE  Matches(RangeSeries(rows, LotsIn(rows), date, date), ofDay, end, TRUE)
    <3>1. PICK shown : shown = Shown(ofDay)
      OBVIOUS
    <3>2. Recorded(ofDay) /\ RangeSeries(rows, LotsIn(rows), date, date) = TimeSeries(shown, end, TRUE)
      <4>1. /\ Recorded(ofDay)
            /\ RangeSeries(rows, LotsIn(rows), date, date) =
                 TimeSeries(Shown(ofDay), RangeEnd(ofDay, date), TRUE)
        BY ONLY Recorded(rows), <1>2, <2>1, <2>3, DaySeries
      <4>2. QED
        BY ONLY <2>2, <3>1, <4>1
    <3>3. /\ Recorded(shown) /\ shown # {} /\ Shown(shown) = Shown(ofDay)
          /\ LotsIn(shown) = LotsIn(ofDay)
      BY <2>3, <3>1, <3>2, ShownAgain
    <3>4. ASSUME NEW i \in 1..Points
          PROVE  TimeSeries(shown, end, TRUE)[i] = Meant(ofDay, UptoInstant(ofDay, i, end, TRUE))
      <4>1. TimeSeries(shown, end, TRUE)[i] = Meant(shown, UptoInstant(shown, i, end, TRUE))
        BY <3>3, SeriesShows
      <4>2. PICK t : t = UptoInstant(shown, i, end, TRUE)
        OBVIOUS
      <4>3. UptoInstant(ofDay, i, end, TRUE) = t
        BY <4>2 DEF UptoInstant
      <4>4. \A l : Seen(shown, l, t) = Seen(ofDay, l, t)
        BY <3>3 DEF Seen
      <4>5. LotsSeen(shown, t) = LotsSeen(ofDay, t)
        BY <3>3, <4>4 DEF LotsSeen
      <4>6. [l \in LotsSeen(shown, t) |-> LatestOf(Seen(shown, l, t))] =
            [l \in LotsSeen(ofDay, t) |-> LatestOf(Seen(ofDay, l, t))]
        BY <4>4, <4>5
      <4>7. Meant(shown, t) = Meant(ofDay, t)
        BY <4>5, <4>6 DEF Meant
      <4>8. QED
        BY <4>1, <4>2, <4>3, <4>7
    <3>5. QED
      BY <3>2, <3>4 DEF Matches, Points
  <2>4. QED
    BY <2>1, <2>2, <2>3, DayEnds
<1>3. QED
  BY <1>1, <1>2 DEF SeriesMeansLatest

\* Whatever was collected, imported and merged, every bucket of a chart holds the latest
\* readings up to its instant.
THEOREM SeriesRight == Spec => []SeriesMeansLatest
<1>1. Spec => []IInv
  BY InitIInv, NextIInv, PTL DEF Spec
<1>2. IInv => SeriesMeansLatest
  BY RowsRecorded, SeriesMean DEF IInv
<1>3. QED
  BY <1>1, <1>2, PTL

-----------------------------------------------------------------------------
(* The list of crossings.                                                  *)

\* The levels below a threshold are those of fewer free spaces.
LEMMA LevelBelow ==
  ASSUME NEW free \in Nat, NEW t \in Thresholds
  PROVE  StatusLevel(free) \in LevelsBelow(t) <=> free < t
<1>1. CASE free <= 0
  <2>1. StatusLevel(free) = "full" /\ free < t
    BY <1>1 DEF StatusLevel, Thresholds
  <2>2. QED
    BY <2>1 DEF LevelsBelow
<1>2. CASE free > 0 /\ free < 10
  <2>1. free \in 1..9 /\ ~(free <= 0) /\ free < t
    BY <1>2 DEF Thresholds
  <2>2. StatusLevel(free) = "critical"
    BY <2>1 DEF StatusLevel
  <2>3. QED
    BY <2>1, <2>2 DEF LevelsBelow
<1>3. CASE free >= 10 /\ free < 50
  <2>1. free \in 10..49 /\ ~(free <= 0) /\ free \notin 1..9
    BY <1>3
  <2>2. StatusLevel(free) = "warning"
    BY <2>1 DEF StatusLevel
  <2>3. QED
    BY <1>3, <2>2 DEF LevelsBelow, Thresholds
<1>4. CASE free >= 50
  <2>1. free \notin 10..49 /\ ~(free <= 0) /\ free \notin 1..9 /\ ~(free < t)
    BY <1>4 DEF Thresholds
  <2>2. StatusLevel(free) \in {"busy", "stable"}
    BY <2>1 DEF StatusLevel
  <2>3. QED
    BY <2>1, <2>2 DEF LevelsBelow
<1>5. QED
  BY <1>1, <1>2, <1>3, <1>4

\* Readings with numbers of free spaces.
Counts(seq) == Len(seq) \in Nat /\ \A i \in 1..Len(seq) : seq[i].free \in Nat

\* A crossing names the two sides of a threshold.
LEMMA CrossingLevel ==
  ASSUME NEW seq, Counts(seq), NEW c \in Crossings(seq)
  PROVE  /\ c.reading \in 2..Len(seq) /\ c.threshold \in Thresholds
         /\ c.direction = "down" <=> seq[c.reading].free < c.threshold
         /\ c.direction = "down" <=> ~(seq[c.reading - 1].free < c.threshold)
<1>1. /\ c.threshold \in Thresholds /\ c.direction \in {"down", "up"} /\ c.reading \in 2..Len(seq)
      /\ Crosses(seq[c.reading - 1].free, seq[c.reading].free, c.threshold, c.direction)
  BY DEF Crossings
<1>2. c.reading \in 1..Len(seq) /\ c.reading - 1 \in 1..Len(seq) /\ c.threshold \in Nat
  BY <1>1 DEF Counts, Thresholds
<1>3. seq[c.reading].free \in Nat /\ seq[c.reading - 1].free \in Nat
  BY <1>2 DEF Counts
<1>4. QED
  BY <1>1, <1>2, <1>3 DEF Crosses

\* As long as a threshold is not crossed the readings stay on one side of it.
LEMMA SideKept ==
  ASSUME NEW seq, Counts(seq), NEW t \in Thresholds, NEW a \in 1..Len(seq),
         \A c \in Crossings(seq) : c.threshold = t => c.reading <= a
  PROVE  \A i \in a..Len(seq) : seq[i].free < t <=> seq[a].free < t
<1> DEFINE Bad == {i \in a..Len(seq) : ~(seq[i].free < t <=> seq[a].free < t)}
<1>1. Len(seq) \in Nat /\ \A i \in 1..Len(seq) : seq[i].free \in Nat
  BY DEF Counts
<1>2. SUFFICES ASSUME Bad # {} PROVE FALSE
  OBVIOUS
<1>3. Bad \in SUBSET Nat
  BY <1>1
<1>4. PICK i \in Bad : \A j \in Bad : i <= j
  <2> HIDE DEF Bad
  <2>1. QED
    BY <1>2, <1>3, LeastNumber
<1>5. i # a /\ i \in a..Len(seq)
  BY <1>4
<1>6. i - 1 \in a..Len(seq) /\ i \in 2..Len(seq) /\ ~(i <= i - 1) /\ ~(i <= a)
  BY <1>1, <1>5
<1>7. i - 1 \notin Bad
  BY <1>4, <1>6
<1>8. ~(seq[i].free < t <=> seq[i - 1].free < t)
  BY <1>4, <1>6, <1>7
<1>9. seq[i].free \in Nat /\ seq[i - 1].free \in Nat /\ t \in Nat
  BY <1>1, <1>6 DEF Thresholds
<1>10. PICK direction \in {"down", "up"} : Crosses(seq[i - 1].free, seq[i].free, t, direction)
  <2>1. CASE seq[i].free < t
    <3>1. Crosses(seq[i - 1].free, seq[i].free, t, "down")
      BY <1>8, <1>9, <2>1 DEF Crosses
    <3>2. QED
      BY <3>1
  <2>2. CASE ~(seq[i].free < t)
    <3>1. Crosses(seq[i - 1].free, seq[i].free, t, "up")
      BY <1>8, <1>9, <2>2 DEF Crosses
    <3>2. QED
      BY <3>1
  <2>3. QED
    BY <2>1, <2>2
<1>11. PICK c : c = [threshold |-> t, direction |-> direction, reading |-> i]
  OBVIOUS
<1>12. c.threshold = t /\ c.direction = direction /\ c.reading = i
  BY <1>11
<1>13. c \in [threshold : Thresholds, direction : {"down", "up"}, reading : 2..Len(seq)]
  BY <1>6, <1>11
<1>14. c \in Crossings(seq)
  BY <1>10, <1>12, <1>13 DEF Crossings
<1>15. QED
  BY <1>6, <1>12, <1>14

\* There are finitely many crossings.
LEMMA CrossingsFinite ==
  ASSUME NEW seq, Len(seq) \in Nat
  PROVE  IsFiniteSet(Crossings(seq))
<1> DEFINE kinds == Thresholds \X {"down", "up"}
           triples == kinds \X (2..Len(seq))
           made == [p \in triples |-> [threshold |-> p[1][1], direction |-> p[1][2], reading |-> p[2]]]
<1>1. IsFiniteSet(Thresholds) /\ IsFiniteSet({"down", "up"}) /\ IsFiniteSet(2..Len(seq))
  <2>1. \A x, y : IsFiniteSet({x, y})
    <3> TAKE x, y
    <3>1. IsFiniteSet({x} \cup {y})
      BY FS_Singleton, FS_AddElement
    <3>2. {x, y} = {x} \cup {y}
      OBVIOUS
    <3>3. QED
      BY <3>1, <3>2
  <2>2. IsFiniteSet({10, 50}) /\ IsFiniteSet({"down", "up"})
    BY <2>1
  <2>3. IsFiniteSet(2..Len(seq))
    BY FS_Interval
  <2>4. QED
    BY <2>1, <2>2, <2>3 DEF Thresholds
<1>2. IsFiniteSet(triples)
  <2>1. IsFiniteSet(kinds)
    BY <1>1, FS_Product
  <2> HIDE DEF kinds
  <2>2. QED
    BY <1>1, <2>1, FS_Product
<1>3. IsFiniteSet({made[p] : p \in triples})
  <2> HIDE DEF made, triples
  <2>1. QED
    BY <1>2, ImageFinite
<1>4. Crossings(seq) \in SUBSET {made[p] : p \in triples}
  <2> SUFFICES ASSUME NEW c \in Crossings(seq) PROVE \E p \in triples : c = made[p]
    OBVIOUS
  <2>1. PICK t \in Thresholds, d \in {"down", "up"}, i \in 2..Len(seq) :
          c = [threshold |-> t, direction |-> d, reading |-> i]
    BY DEF Crossings
  <2>2. <<<<t, d>>, i>> \in triples
    OBVIOUS
  <2>3. made[<<<<t, d>>, i>>] = [threshold |-> t, direction |-> d, reading |-> i]
    BY <2>2
  <2>4. QED
    BY <2>1, <2>2, <2>3
<1>5. QED
  BY <1>3, <1>4, FS_Subset

\* Readings, one at least, in the order of their instants.
Listing(seq) ==
  /\ Counts(seq) /\ Len(seq) > 0
  /\ \A i \in 1..Len(seq) : seq[i].at \in Nat
  /\ \A i, j \in 1..Len(seq) : i < j => seq[i].at < seq[j].at

\* The history of a lot lists its readings.
LEMMA HistoryListed ==
  ASSUME NEW rs, Recorded(rs), NEW l \in LotsIn(rs)
  PROVE  Listing(History(rs, l, 0))
<1> DEFINE ofLot == {r \in rs : r.lot \in {l} /\ r.at >= 0}
           R == Shown(ofLot)
<1>1. \A r \in rs : r.at \in Nat /\ r.free \in Nat
  BY NumbersAssumption DEF Recorded, Row
<1>2. ofLot \in SUBSET rs /\ Recorded(ofLot)
  BY SomeRecorded
<1>3. PICK x \in ofLot : TRUE
  BY <1>1 DEF LotsIn
<1>4. /\ R \in SUBSET ofLot /\ R # {}
      /\ \A r, s \in R : r.lot = s.lot /\ r.at = s.at => r = s
  BY <1>2, <1>3, ShownOnce
<1>5. \A r \in R : r.lot = l /\ r.at \in Nat /\ r.free \in Nat
  BY <1>1, <1>4
<1>6. IsFiniteSet(R)
  BY <1>2, <1>4, FS_Subset DEF Recorded
<1>7. History(rs, l, 0) = InOrder(R)
  BY DEF History, LoadedSince
<1> HIDE DEF R
<1>8. Apart(R)
  BY <1>4, <1>5, <1>6 DEF Apart
<1>9. PICK seq : seq = History(rs, l, 0) /\ Lists(seq, R)
  BY <1>7, <1>8, Ordered
<1>10. Len(seq) \in Nat \ {0}
  BY <1>4, <1>8, <1>9, LastListed
<1>11. \A i \in 1..Len(seq) : seq[i] \in R
  BY <1>9, <1>10 DEF Lists
<1>12. QED
  BY <1>5, <1>9, <1>10, <1>11 DEF Listing, Counts, Lists

\* What is listed: crossings of the lots' histories, at their instants.
LEMMA EventsListed ==
  ASSUME NEW rs, Recorded(rs)
  PROVE  LET events == Events(rs, LotsIn(rs), 0)
         IN /\ IsFiniteSet(events)
            /\ \A e \in events : /\ e.lot \in LotsIn(rs)
                                 /\ e.crossing \in Crossings(History(rs, e.lot, 0))
                                 /\ e.at = History(rs, e.lot, 0)[e.crossing.reading].at
            /\ \A l \in LotsIn(rs) : \A c \in Crossings(History(rs, l, 0)) :
                 \E e \in events : e.lot = l /\ e.crossing = c
<1> DEFINE ids == LotsIn(rs)
           seq(id) == History(rs, id, 0)
           event(id, c) == [lot |-> id, at |-> seq(id)[c.reading].at, crossing |-> c]
           ofLot == [id \in ids |-> {event(id, c) : c \in Crossings(seq(id))}]
           events == Events(rs, ids, 0)
<1>1. events = UNION {ofLot[id] : id \in ids}
  BY DEF Events
<1>2. IsFiniteSet(ids)
  <2> DEFINE lotOf == [r \in rs |-> r.lot]
  <2>1. ids = {lotOf[r] : r \in rs}
    BY DEF LotsIn
  <2> HIDE DEF lotOf, ids
  <2>2. QED
    BY <2>1, ImageFinite DEF Recorded
<1>3. ASSUME NEW id \in ids
      PROVE  IsFiniteSet(ofLot[id])
  <2> DEFINE f == [c \in Crossings(seq(id)) |-> event(id, c)]
  <2>1. IsFiniteSet(Crossings(seq(id)))
    BY HistoryListed, CrossingsFinite DEF Listing, Counts
  <2>2. ofLot[id] = {f[c] : c \in Crossings(seq(id))}
    OBVIOUS
  <2> HIDE DEF f, ofLot
  <2>3. QED
    BY <2>1, <2>2, ImageFinite
<1>4. IsFiniteSet(events)
  <2>1. IsFiniteSet({ofLot[id] : id \in ids})
    <3> HIDE DEF ofLot, ids
    <3>1. QED
      BY <1>2, ImageFinite
  <2>2. \A T \in {ofLot[id] : id \in ids} : IsFiniteSet(T)
    BY <1>3
  <2> HIDE DEF ofLot, events
  <2>3. QED
    BY <1>1, <2>1, <2>2, FS_UNION
<1>5. ASSUME NEW e \in events
      PROVE  /\ e.lot \in ids /\ e.crossing \in Crossings(seq(e.lot))
             /\ e.at = seq(e.lot)[e.crossing.reading].at
  <2>1. PICK id \in ids : \E c \in Crossings(seq(id)) : e = event(id, c)
    BY <1>1
  <2>2. PICK c \in Crossings(seq(id)) : e = event(id, c)
    BY <2>1
  <2>3. e.lot = id /\ e.crossing = c /\ e.at = seq(id)[c.reading].at
    BY <2>2
  <2>4. QED
    BY <2>2, <2>3
<1>6. ASSUME NEW l \in ids, NEW c \in Crossings(seq(l))
      PROVE  \E e \in events : e.lot = l /\ e.crossing = c
  <2>1. event(l, c) \in ofLot[l] /\ event(l, c).lot = l /\ event(l, c).crossing = c
    OBVIOUS
  <2>2. event(l, c) \in events
    BY <1>1, <2>1
  <2>3. QED
    BY <2>1, <2>2
<1>7. QED
  BY <1>4, <1>5, <1>6

Cut(events, limit) == {e \in events : Cardinality({f \in events : Before(f, e)}) < limit}

\* The cut keeps what comes before what it keeps, and cuts only what is too much.
LEMMA CutKeepsFirst ==
  ASSUME NEW events, IsFiniteSet(events), NEW limit \in Nat,
         \A e \in events : e.at \in Nat /\ e.lot \in Nat /\ e.crossing.threshold \in Nat
  PROVE  /\ \A d \in events, c \in Cut(events, limit) : Before(d, c) => d \in Cut(events, limit)
         /\ Cardinality(Cut(events, limit)) < limit => Cut(events, limit) = events
<1> DEFINE ahead(e) == {f \in events : Before(f, e)}
           cut == {e \in events : Cardinality(ahead(e)) < limit}
<1>1. /\ \A e \in events : ~Before(e, e)
      /\ \A d, e, f \in events : Before(d, e) /\ Before(e, f) => Before(d, f)
  BY DEF Before
<1>2. \A S \in SUBSET events : IsFiniteSet(S) /\ Cardinality(S) \in Nat
  BY FS_Subset, FS_CardinalityType
<1>3. ASSUME NEW d \in events, NEW e \in events, Before(d, e)
      PROVE  Cardinality(ahead(d)) < Cardinality(ahead(e))
  <2>1. ahead(d) \in SUBSET ahead(e) /\ ahead(d) # ahead(e)
    BY <1>1, <1>3
  <2>2. IsFiniteSet(ahead(e)) /\ Cardinality(ahead(e)) \in Nat /\ Cardinality(ahead(d)) \in Nat
    BY <1>2
  <2> HIDE DEF ahead
  <2>3. Cardinality(ahead(d)) <= Cardinality(ahead(e)) /\ Cardinality(ahead(d)) # Cardinality(ahead(e))
    BY <2>1, <2>2, FS_Subset
  <2>4. QED
    BY <2>2, <2>3
<1>4. ASSUME NEW d \in events, NEW c \in cut, Before(d, c)
      PROVE  d \in cut
  <2>1. Cardinality(ahead(d)) < Cardinality(ahead(c)) /\ Cardinality(ahead(c)) < limit
    BY <1>3, <1>4
  <2>2. Cardinality(ahead(d)) \in Nat /\ Cardinality(ahead(c)) \in Nat
    BY <1>2
  <2>3. QED
    BY <2>1, <2>2
<1>5. ASSUME Cardinality(cut) < limit
      PROVE  cut = events
  <2> DEFINE left == {e \in events : e \notin cut}
             ranks == {Cardinality(ahead(e)) : e \in left}
  <2>1. SUFFICES ASSUME left # {} PROVE FALSE
    OBVIOUS
  <2>2. ranks \in SUBSET Nat /\ ranks # {}
    BY <1>2, <2>1
  <2>3. PICK n \in ranks : \A m \in ranks : n <= m
    <3> HIDE DEF ranks
    <3>1. QED
      BY <2>2, LeastNumber
  <2>4. PICK e \in left : n = Cardinality(ahead(e))
    OBVIOUS
  <2>5. ASSUME NEW f \in ahead(e)
        PROVE  f \in cut
    <3>1. f \in events /\ Cardinality(ahead(f)) < Cardinality(ahead(e))
      BY <1>3, <2>4
    <3>2. Cardinality(ahead(f)) \in Nat /\ Cardinality(ahead(e)) \in Nat
      BY <1>2
    <3>3. SUFFICES ASSUME f \in left PROVE FALSE
      BY <3>1
    <3>4. Cardinality(ahead(e)) <= Cardinality(ahead(f))
      BY <2>3, <2>4, <3>3
    <3>5. QED
      BY <3>1, <3>2, <3>4
  <2>6. ahead(e) \in SUBSET cut /\ cut \in SUBSET events
    BY <2>5
  <2>7. Cardinality(ahead(e)) <= Cardinality(cut) /\ Cardinality(cut) \in Nat /\ Cardinality(ahead(e)) \in Nat
    <3> HIDE DEF cut, ahead
    <3>1. QED
      BY <1>2, <2>6, FS_Subset
  <2>8. Cardinality(ahead(e)) < limit
    BY <1>5, <2>7
  <2>9. QED
    BY <2>4, <2>8
<1>6. Cut(events, limit) = cut
  BY DEF Cut
<1> HIDE DEF cut
<1>7. QED
  BY <1>4, <1>5, <1>6

\* The list of crossings and the levels of the lots, of any rows a table may hold.
LEMMA CrossingsTell ==
  ASSUME Recorded(rows)
  PROVE  CrossingsTellLevel
<1> SUFFICES ASSUME NEW limit \in 1..EventLimit
             PROVE  TellsLevel(limit)
  BY DEF CrossingsTellLevel
<1> DEFINE all == Events(rows, LotsIn(rows), 0)
           events == ThresholdEvents(rows, LotsIn(rows), 0, limit)
<1>1. /\ IsFiniteSet(all)
      /\ \A e \in all : /\ e.lot \in LotsIn(rows)
                        /\ e.crossing \in Crossings(History(rows, e.lot, 0))
                        /\ e.at = History(rows, e.lot, 0)[e.crossing.reading].at
      /\ \A l \in LotsIn(rows) : \A c \in Crossings(History(rows, l, 0)) :
           \E e \in all : e.lot = l /\ e.crossing = c
  BY EventsListed
<1> HIDE DEF all
<1>2. \A e \in all : e.at \in Nat /\ e.lot \in Nat /\ e.crossing.threshold \in Nat
  <2> SUFFICES ASSUME NEW e \in all
               PROVE  e.at \in Nat /\ e.lot \in Nat /\ e.crossing.threshold \in Nat
    OBVIOUS
  <2>1. PICK seq : seq = History(rows, e.lot, 0)
    OBVIOUS
  <2>2. Counts(seq) /\ \A i \in 1..Len(seq) : seq[i].at \in Nat
    BY <1>1, <2>1, HistoryListed DEF Listing
  <2>3. e.crossing.reading \in 1..Len(seq) /\ e.crossing.threshold \in Nat
    <3>1. e.crossing.reading \in 2..Len(seq) /\ e.crossing.threshold \in Thresholds
      BY <1>1, <2>1, <2>2, CrossingLevel
    <3>2. QED
      BY <2>2, <3>1 DEF Thresholds, Counts
  <2>4. e.at \in Nat
    BY <1>1, <2>1, <2>2, <2>3
  <2>5. e.lot \in Nat
    BY <1>1 DEF LotsIn, Recorded, Row
  <2>6. QED
    BY <2>3, <2>4, <2>5
<1>3. events = Cut(all, limit)
  BY DEF ThresholdEvents, Cut, all
<1>4. limit \in Nat
  BY NumbersAssumption
<1>5. /\ events \in SUBSET all
      /\ \A d \in all, c \in events : Before(d, c) => d \in events
      /\ Cardinality(events) < limit => events = all
  <2>1. events \in SUBSET all
    BY <1>3 DEF Cut
  <2> HIDE DEF events
  <2>2. QED
    BY <1>1, <1>2, <1>3, <1>4, <2>1, CutKeepsFirst
<1> HIDE DEF events
<1>6. ASSUME NEW l \in LotsIn(rows), NEW t \in Thresholds, NEW seq, seq = History(rows, l, 0),
             NEW listed, listed = {e.crossing : e \in {x \in events : x.lot = l /\ x.crossing.threshold = t}}
      PROVE  /\ listed = {} /\ Cardinality(events) < limit =>
                  (StatusLevel(seq[1].free) \in LevelsBelow(t) <=>
                   StatusLevel(seq[Len(seq)].free) \in LevelsBelow(t))
             /\ \A c \in listed : (\A d \in listed : d.reading <= c.reading) =>
                  (c.direction = "down" <=> StatusLevel(seq[Len(seq)].free) \in LevelsBelow(t))
  <2>1. /\ Counts(seq) /\ Len(seq) \in Nat \ {0}
        /\ \A i \in 1..Len(seq) : seq[i].at \in Nat
        /\ \A i, j \in 1..Len(seq) : i < j => seq[i].at < seq[j].at
    BY <1>1, <1>6, HistoryListed DEF Listing, Counts
  <2>2. \A i \in 1..Len(seq) : StatusLevel(seq[i].free) \in LevelsBelow(t) <=> seq[i].free < t
    BY <2>1, LevelBelow DEF Counts
  <2>3. 1 \in 1..Len(seq) /\ Len(seq) \in 1..Len(seq)
    BY <2>1
  <2>4. ASSUME NEW a \in 1..Len(seq), \A c \in Crossings(seq) : c.threshold = t => c.reading <= a
        PROVE  seq[Len(seq)].free < t <=> seq[a].free < t
    <3>1. Len(seq) \in a..Len(seq)
      BY <2>1
    <3>2. QED
      BY <2>1, <2>4, <3>1, SideKept
  <2>5. ASSUME listed = {}, Cardinality(events) < limit
        PROVE  seq[Len(seq)].free < t <=> seq[1].free < t
    <3>1. \A c \in Crossings(seq) : c.threshold # t
      <4> SUFFICES ASSUME NEW c \in Crossings(seq), c.threshold = t PROVE FALSE
        OBVIOUS
      <4>1. PICK e \in all : e.lot = l /\ e.crossing = c
        BY <1>1, <1>6
      <4>2. e.crossing \in listed
        BY <1>5, <1>6, <2>5, <4>1
      <4>3. QED
        BY <2>5, <4>2
    <3>2. QED
      BY <2>3, <2>4, <3>1
  <2>6. ASSUME NEW c \in listed, \A d \in listed : d.reading <= c.reading
        PROVE  c.direction = "down" <=> seq[Len(seq)].free < t
    <3>1. PICK e \in events : e.lot = l /\ e.crossing = c /\ c.threshold = t
      BY <1>6
    <3>2. c \in Crossings(seq) /\ e \in all /\ e.at = seq[c.reading].at
      BY <1>1, <1>5, <1>6, <3>1
    <3>3. /\ c.reading \in 2..Len(seq)
          /\ c.direction = "down" <=> seq[c.reading].free < t
      BY <2>1, <3>1, <3>2, CrossingLevel
    <3>4. c.reading \in 1..Len(seq)
      BY <2>1, <3>3
    <3>5. ASSUME NEW d \in Crossings(seq), d.threshold = t
          PROVE  d.reading <= c.reading
      <4>1. d.reading \in 1..Len(seq)
        <5>1. d.reading \in 2..Len(seq)
          BY <2>1, CrossingLevel
        <5>2. QED
          BY <2>1, <5>1
      <4>2. SUFFICES ASSUME c.reading < d.reading PROVE d \in listed
        BY <2>1, <2>6, <3>4, <4>1
      <4>3. PICK f \in all : f.lot = l /\ f.crossing = d
        BY <1>1, <1>6
      <4>4. f.at = seq[d.reading].at
        BY <1>1, <1>6, <4>3
      <4>5. Before(f, e)
        <5>1. e.at < f.at /\ e.at \in Nat /\ f.at \in Nat
          BY <1>2, <2>1, <3>2, <3>4, <4>1, <4>2, <4>4
        <5>2. QED
          BY <5>1 DEF Before
      <4>6. f \in events
        BY <1>5, <4>5
      <4>7. QED
        BY <1>6, <3>5, <4>3, <4>6
    <3>6. QED
      BY <2>4, <3>3, <3>4, <3>5
  <2>7. QED
    BY <2>2, <2>3, <2>5, <2>6
<1>7. QED
  BY <1>6 DEF TellsLevel, events

\* Whatever was collected, imported and merged, the list of crossings, cut or not, ends
\* where the lot's level is.
THEOREM CrossingsRight == Spec => []CrossingsTellLevel
<1>1. Spec => []IInv
  BY InitIInv, NextIInv, PTL DEF Spec
<1>2. IInv => CrossingsTellLevel
  BY RowsRecorded, CrossingsTell DEF IInv
<1>3. QED
  BY <1>1, <1>2, PTL

-----------------------------------------------------------------------------
(* Sums of what a function assigns to finitely many.                       *)

\* SumFunction walks along the domain in the order of Some.
Some(t) == CHOOSE x \in t : TRUE

Sums(f, value, S) ==
  f = [t \in SUBSET S |-> IF t = {} THEN 0 ELSE value[Some(t)] + f[t \ {Some(t)}]]

\* A sum of numbers is what some walk arrives at.
LEMMA SumSolved ==
  ASSUME NEW S, IsFiniteSet(S), NEW value \in [S -> Nat]
  PROVE  \E f \in [SUBSET S -> Nat] : Sums(f, value, S) /\ SumFunction(value) = f[S]
<1> DEFINE step == [x \in S |-> [n \in Nat |-> value[x] + n]]
           last == [t \in SUBSET S |-> Some(t)]
<1>1. Foldable(S, Nat, 0, step, last)
  <2>1. Takes(last, S)
    BY DEF Takes, Some
  <2>2. \A x \in S, n \in Nat : value[x] + n \in Nat
    OBVIOUS
  <2>3. QED
    BY <2>1, <2>2 DEF Foldable
<1>2. PICK f \in [SUBSET S -> Nat] : Solves(f, S, 0, step, last)
  <2> HIDE DEF step, last
  <2>1. Solvable(S, Nat, 0, step, last)
    BY <1>1, FoldSolution
  <2>2. QED
    BY <2>1 DEF Solvable
<1>3. Sums(f, value, S)
  <2>1. ASSUME NEW t \in SUBSET S
        PROVE  f[t] = IF t = {} THEN 0 ELSE value[Some(t)] + f[t \ {Some(t)}]
    <3>1. CASE t = {}
      BY <1>2, <3>1 DEF Solves
    <3>2. CASE t # {}
      <4>1. f[t] = step[last[t]][f[t \ {last[t]}]]
        BY <1>2, <3>2 DEF Solves
      <4>2. last[t] = Some(t) /\ Some(t) \in S
        BY <3>2 DEF Some
      <4>3. t \ {Some(t)} \in SUBSET S /\ f[t \ {Some(t)}] \in Nat
        OBVIOUS
      <4>4. QED
        BY <3>2, <4>1, <4>2, <4>3
    <3>3. QED
      BY <3>1, <3>2
  <2>2. f = [t \in SUBSET S |-> f[t]]
    OBVIOUS
  <2>3. QED
    BY <2>1, <2>2 DEF Sums
<1>4. PICK g : Sums(g, value, S) /\ SumFunction(value) = g[S]
  <2> DEFINE Is(h) == h = [t \in SUBSET S |->
                        IF t = {} THEN 0
                        ELSE value[CHOOSE x \in t : TRUE] + h[t \ {CHOOSE x \in t : TRUE}]]
  <2>1. DOMAIN value = S
    OBVIOUS
  <2>2. SumFunction(value) = (CHOOSE h : Is(h))[S]
    BY <2>1 DEF SumFunction, SumFunctionOnSet, FoldFunctionOnSet, MapThenFoldSet
  <2>3. Is(f)
    BY <1>3 DEF Sums, Some
  <2> HIDE DEF Is
  <2>4. Is(CHOOSE h : Is(h))
    BY <2>3
  <2>5. QED
    BY <2>2, <2>4 DEF Is, Sums, Some
<1>5. g[S] = f[S]
  <2> DEFINE Good == [t \in SUBSET S |-> {f[t]}]
  <2>1. g[{}] \in Good[{}]
    BY <1>3, <1>4 DEF Sums
  <2>2. ASSUME NEW t \in SUBSET S, t # {}, g[t \ {last[t]}] \in Good[t \ {last[t]}]
        PROVE  g[t] \in Good[t]
    <3>1. last[t] = Some(t) /\ t \ {Some(t)} \in SUBSET S
      OBVIOUS
    <3>2. g[t \ {Some(t)}] = f[t \ {Some(t)}]
      BY <2>2, <3>1
    <3>3. /\ g[t] = value[Some(t)] + g[t \ {Some(t)}]
          /\ f[t] = value[Some(t)] + f[t \ {Some(t)}]
      BY <1>3, <1>4, <2>2 DEF Sums
    <3>4. QED
      BY <3>2, <3>3
  <2>3. Takes(last, S)
    BY <1>1 DEF Foldable
  <2> HIDE DEF last, Good
  <2>4. \A t \in SUBSET S : g[t] \in Good[t]
    BY <2>1, <2>2, <2>3, FoldInvariant
  <2>5. QED
    BY <2>4 DEF Good
<1>6. QED
  BY <1>3, <1>4, <1>5

AddsUp(f, value, S) ==
  /\ f \in [SUBSET S -> Nat]
  /\ f[{}] = 0 /\ f[S] = SumFunction(value)
  /\ \A t \in SUBSET S : \A x \in t : f[t] = value[x] + f[t \ {x}]

\* The walk adds up every part of the domain, in whatever order.
LEMMA SumInAnyOrder ==
  ASSUME NEW S, IsFiniteSet(S), NEW value \in [S -> Nat],
         NEW f \in [SUBSET S -> Nat], Sums(f, value, S), f[S] = SumFunction(value)
  PROVE  AddsUp(f, value, S)
<1>1. /\ f[{}] = 0
      /\ \A t \in SUBSET S : t # {} => f[t] = value[Some(t)] + f[t \ {Some(t)}] /\ Some(t) \in t
  BY DEF Sums, Some
<1>2. \A t \in SUBSET S : Cardinality(t) \in Nat
  BY FS_Subset, FS_CardinalityType
<1> DEFINE Right(t) == \A x \in t : f[t] = value[x] + f[t \ {x}]
           Wrong == {t \in SUBSET S : ~Right(t)}
           counts == {Cardinality(t) : t \in Wrong}
<1>3. Wrong = {}
  <2>1. SUFFICES ASSUME Wrong # {} PROVE FALSE
    OBVIOUS
  <2>2. counts \in SUBSET Nat /\ counts # {}
    BY <1>2, <2>1
  <2>3. PICK n \in counts : \A m \in counts : n <= m
    <3> HIDE DEF counts
    <3>1. QED
      BY <2>2, LeastNumber
  <2>4. PICK t \in Wrong : n = Cardinality(t)
    OBVIOUS
  <2>5. PICK x \in t : f[t] # value[x] + f[t \ {x}]
    BY <2>4
  <2> DEFINE y == Some(t)
  <2>6. t \in SUBSET S /\ y \in t /\ f[t] = value[y] + f[t \ {y}]
    BY <1>1, <2>5
  <2> HIDE DEF y
  <2>7. y # x
    BY <2>5, <2>6
  <2>8. ASSUME NEW z \in t
        PROVE  Right(t \ {z})
    <3>1. Cardinality(t \ {z}) = Cardinality(t) - 1 /\ Cardinality(t) \in Nat
      BY <2>6, OneFewer
    <3>2. SUFFICES ASSUME t \ {z} \in Wrong PROVE FALSE
      BY <2>6
    <3>3. Cardinality(t \ {z}) \in counts
      <4> HIDE DEF Wrong
      <4>1. QED
        BY <3>2
    <3> HIDE DEF counts
    <3>4. Cardinality(t) <= Cardinality(t \ {z})
      BY <2>3, <2>4, <3>3
    <3>5. QED
      BY <3>1, <3>4
  <2>9. f[t \ {y}] = value[x] + f[(t \ {y}) \ {x}]
    BY <2>6, <2>7, <2>8
  <2>10. f[t \ {x}] = value[y] + f[(t \ {x}) \ {y}]
    BY <2>6, <2>7, <2>8
  <2>11. (t \ {x}) \ {y} = (t \ {y}) \ {x} /\ (t \ {x}) \ {y} \in SUBSET S
    <3> HIDE DEF Wrong
    <3>1. QED
      BY <2>6
  <2>12. f[(t \ {x}) \ {y}] \in Nat /\ value[x] \in Nat /\ value[y] \in Nat
    BY <2>6, <2>11
  <2>13. f[t] = value[x] + f[t \ {x}]
    <3>1. PICK rest \in Nat, a \in Nat, b \in Nat :
            rest = f[(t \ {x}) \ {y}] /\ a = value[x] /\ b = value[y]
      BY <2>12
    <3>2. f[t] = b + f[t \ {y}] /\ f[t \ {y}] = a + rest /\ f[t \ {x}] = b + rest
      BY <2>6, <2>9, <2>10, <2>11, <3>1
    <3>3. f[t] = a + f[t \ {x}]
      BY ONLY <3>2, rest \in Nat, a \in Nat, b \in Nat
    <3>4. QED
      BY <3>1, <3>3
  <2>14. QED
    BY <2>5, <2>13
<1>4. \A t \in SUBSET S : \A x \in t : f[t] = value[x] + f[t \ {x}]
  BY <1>3
<1>5. QED
  BY <1>1, <1>4 DEF AddsUp

\* So every sum of numbers adds up in any order.
LEMMA SumAddsUp ==
  ASSUME NEW S, IsFiniteSet(S), NEW value \in [S -> Nat]
  PROVE  (\E f : AddsUp(f, value, S)) /\ SumFunction(value) \in Nat
<1>1. PICK f \in [SUBSET S -> Nat] : Sums(f, value, S) /\ SumFunction(value) = f[S]
  BY SumSolved
<1>2. AddsUp(f, value, S)
  BY <1>1, SumInAnyOrder
<1>3. f[S] \in Nat
  OBVIOUS
<1>4. QED
  BY <1>1, <1>2, <1>3

\* What each of S adds, another of T adds at least.
LEMMA SumNotMore ==
  ASSUME NEW S, NEW T, IsFiniteSet(S), IsFiniteSet(T),
         NEW u \in [S -> Nat], NEW v \in [T -> Nat], NEW h \in [S -> T],
         \A x, y \in S : h[x] = h[y] => x = y,
         \A x \in S : u[x] <= v[h[x]]
  PROVE  SumFunction(u) <= SumFunction(v)
<1>1. PICK f : AddsUp(f, u, S)
  BY SumAddsUp
<1>2. PICK g : AddsUp(g, v, T)
  BY SumAddsUp
<1> DEFINE of(t) == {x \in S : h[x] \in t}
           last == [t \in SUBSET T |-> Some(t)]
           w == [t \in SUBSET T |-> t]
           Good == [t \in SUBSET T |-> IF f[of(t)] <= g[t] THEN {t} ELSE {}]
<1>3. w[{}] \in Good[{}]
  <2>1. of({}) = {} /\ f[{}] = 0 /\ g[{}] = 0
    BY <1>1, <1>2 DEF AddsUp
  <2>2. f[of({})] <= g[{}]
    BY <2>1
  <2>3. QED
    BY <2>2
<1>4. ASSUME NEW t \in SUBSET T, t # {}, w[t \ {last[t]}] \in Good[t \ {last[t]}]
      PROVE  w[t] \in Good[t]
  <2>1. PICK y \in t : y = last[t]
    BY <1>4 DEF Some
  <2>2. f[of(t \ {y})] <= g[t \ {y}]
    <3>1. t \ {y} \in SUBSET T
      OBVIOUS
    <3>2. w[t \ {y}] \in Good[t \ {y}]
      BY <1>4, <2>1
    <3> HIDE DEF of
    <3>3. QED
      BY <3>1, <3>2
  <2>3. /\ g[t] = v[y] + g[t \ {y}] /\ v[y] \in Nat /\ g[t \ {y}] \in Nat
        /\ of(t) \in SUBSET S /\ of(t \ {y}) \in SUBSET S
        /\ f[of(t)] \in Nat /\ f[of(t \ {y})] \in Nat
    <3>1. t \ {y} \in SUBSET T /\ of(t) \in SUBSET S /\ of(t \ {y}) \in SUBSET S
      OBVIOUS
    <3> HIDE DEF of
    <3>2. QED
      BY <1>1, <1>2, <3>1 DEF AddsUp
  <2>4. f[of(t)] <= g[t]
    <3>1. CASE \E x \in S : h[x] = y
      <4>1. PICK x \in S : h[x] = y
        BY <3>1
      <4>2. of(t \ {y}) = of(t) \ {x} /\ x \in of(t)
        BY <2>1, <4>1
      <4> HIDE DEF of
      <4>3. f[of(t)] = u[x] + f[of(t \ {y})]
        <5>1. f[of(t)] = u[x] + f[of(t) \ {x}]
          BY <1>1, <2>3, <4>2 DEF AddsUp
        <5>2. QED
          BY <4>2, <5>1
      <4>4. u[x] <= v[y] /\ u[x] \in Nat
        BY <4>1
      <4>5. QED
        BY <2>2, <2>3, <4>3, <4>4
    <3>2. CASE ~\E x \in S : h[x] = y
      <4>1. of(t \ {y}) = of(t)
        BY <3>2
      <4> HIDE DEF of
      <4>2. QED
        BY <2>2, <2>3, <4>1
    <3>3. QED
      BY <3>1, <3>2
  <2> HIDE DEF of
  <2>5. QED
    BY <2>4
<1>5. Takes(last, T)
  BY DEF Takes, Some
<1> HIDE DEF last, w, Good
<1>6. w[T] \in Good[T]
  BY <1>3, <1>4, <1>5, FoldInvariant
<1>7. f[of(T)] <= g[T]
  BY <1>6 DEF Good, w
<1>8. of(T) = S
  OBVIOUS
<1> HIDE DEF of
<1>9. f[S] = SumFunction(u) /\ g[T] = SumFunction(v)
  BY <1>1, <1>2 DEF AddsUp
<1>10. QED
  BY <1>7, <1>8, <1>9

\* The same numbers have the same sum, whatever they belong to.
LEMMA SumSame ==
  ASSUME NEW S, NEW T, IsFiniteSet(S), IsFiniteSet(T),
         NEW u \in [S -> Nat], NEW v \in [T -> Nat], NEW h \in [S -> T],
         \A x, y \in S : h[x] = h[y] => x = y,
         \A y \in T : \E x \in S : h[x] = y,
         \A x \in S : u[x] = v[h[x]]
  PROVE  SumFunction(u) = SumFunction(v)
<1>1. SumFunction(u) \in Nat /\ SumFunction(v) \in Nat
  BY SumAddsUp
<1>2. \A x \in S : u[x] \in Nat /\ v[h[x]] \in Nat
  OBVIOUS
<1>3. SumFunction(u) <= SumFunction(v)
  <2>1. \A x \in S : u[x] <= v[h[x]]
    BY <1>2
  <2>2. QED
    BY <2>1, SumNotMore
<1>4. SumFunction(v) <= SumFunction(u)
  <2> DEFINE back == [y \in T |-> CHOOSE x \in S : h[x] = y]
  <2>1. \A y \in T : back[y] \in S /\ h[back[y]] = y
    OBVIOUS
  <2> HIDE DEF back
  <2>2. DOMAIN back = T
    BY DEF back
  <2>3. back \in [T -> S]
    BY <2>1, <2>2 DEF back
  <2>4. \A y, z \in T : back[y] = back[z] => y = z
    BY <2>1
  <2>5. \A y \in T : v[y] <= u[back[y]]
    BY <1>2, <2>1
  <2>6. QED
    BY <2>3, <2>4, <2>5, SumNotMore
<1>5. QED
  BY <1>1, <1>3, <1>4

\* Counting a set key by key counts it once.
LEMMA SumOfCounts ==
  ASSUME NEW S, NEW K, IsFiniteSet(S), IsFiniteSet(K), NEW key, \A x \in S : key[x] \in K,
         NEW counts, counts = [k \in K |-> Cardinality({x \in S : key[x] = k})]
  PROVE  SumFunction(counts) = Cardinality(S)
<1>1. counts \in [K -> Nat]
  <2>1. \A k \in K : Cardinality({x \in S : key[x] = k}) \in Nat
    BY FS_Subset, FS_CardinalityType
  <2>2. QED
    BY <2>1
<1>2. PICK f : AddsUp(f, counts, K)
  BY <1>1, SumAddsUp
<1> DEFINE of(t) == {x \in S : key[x] \in t}
           last == [t \in SUBSET K |-> Some(t)]
           Good == [t \in SUBSET K |-> {Cardinality(of(t))}]
<1>3. f[{}] \in Good[{}]
  <2>1. of({}) = {}
    OBVIOUS
  <2>2. Cardinality(of({})) = 0
    BY <2>1, FS_EmptySet
  <2>3. f[{}] = 0
    BY <1>2 DEF AddsUp
  <2> HIDE DEF of
  <2>4. QED
    BY <2>2, <2>3
<1>4. ASSUME NEW t \in SUBSET K, t # {}, f[t \ {last[t]}] \in Good[t \ {last[t]}]
      PROVE  f[t] \in Good[t]
  <2>1. PICK k \in t : k = last[t]
    BY <1>4 DEF Some
  <2>2. f[t \ {k}] = Cardinality(of(t \ {k}))
    <3>1. t \ {k} \in SUBSET K /\ f[t \ {k}] \in Good[t \ {k}]
      BY <1>4, <2>1
    <3> HIDE DEF of
    <3>2. QED
      BY <3>1
  <2> DEFINE ofKey == {x \in S : key[x] = k}
  <2>3. f[t] = Cardinality(ofKey) + f[t \ {k}]
    <3>1. counts[k] = Cardinality(ofKey)
      OBVIOUS
    <3>2. f[t] = counts[k] + f[t \ {k}]
      BY <1>2 DEF AddsUp
    <3>3. QED
      BY <3>1, <3>2
  <2>4. Cardinality(of(t)) = Cardinality(ofKey) + Cardinality(of(t \ {k}))
    <3>1. of(t) = ofKey \cup of(t \ {k}) /\ ofKey \cap of(t \ {k}) = {}
      OBVIOUS
    <3>2. ofKey \in SUBSET S /\ of(t \ {k}) \in SUBSET S
      OBVIOUS
    <3> HIDE DEF of, ofKey
    <3>3. IsFiniteSet(ofKey) /\ IsFiniteSet(of(t \ {k}))
      BY <3>2, FS_Subset
    <3>4. Cardinality(ofKey) \in Nat /\ Cardinality(of(t \ {k})) \in Nat
      BY <3>3, FS_CardinalityType
    <3>5. Cardinality(of(t)) =
            Cardinality(ofKey) + Cardinality(of(t \ {k})) - Cardinality(ofKey \cap of(t \ {k}))
      BY <3>1, <3>3, FS_Union
    <3>6. Cardinality(ofKey \cap of(t \ {k})) = 0
      BY <3>1, FS_EmptySet
    <3>7. QED
      BY <3>4, <3>5, <3>6
  <2> HIDE DEF of, ofKey
  <2>5. f[t] = Cardinality(of(t))
    BY <2>2, <2>3, <2>4
  <2>6. QED
    BY <2>5
<1>5. Takes(last, K)
  BY DEF Takes, Some
<1> HIDE DEF last, Good
<1>6. f[K] \in Good[K]
  BY <1>3, <1>4, <1>5, FoldInvariant
<1>7. f[K] = Cardinality(of(K))
  BY <1>6 DEF Good
<1>8. of(K) = S
  OBVIOUS
<1>9. QED
  BY <1>2, <1>7, <1>8 DEF AddsUp

-----------------------------------------------------------------------------
(* The charts count every reading once.                                    *)

\* Readings of which no two are of one lot and instant.
OneEach(loaded) ==
  Recorded(loaded) /\ \A r, s \in loaded : r.lot = s.lot /\ r.at = s.at => r = s

\* What is shown of some rows is such, and is numbers.
LEMMA ShownOneEach ==
  ASSUME NEW rs, Recorded(rs), NEW some \in SUBSET rs
  PROVE  /\ OneEach(Shown(some)) /\ Shown(some) \in SUBSET some
         /\ IsFiniteSet(Shown(some))
         /\ \A r \in Shown(some) : r.at \in Nat /\ r.free \in Nat
<1>1. Recorded(some)
  BY SomeRecorded
<1>2. Shown(some) \in SUBSET some /\ \A r, s \in Shown(some) : r.lot = s.lot /\ r.at = s.at => r = s
  BY <1>1, ShownOnce
<1>3. Recorded(Shown(some))
  BY <1>1, <1>2, SomeRecorded
<1>4. \A r \in some : r.at \in Nat /\ r.free \in Nat
  BY <1>1, NumbersAssumption DEF Recorded, Row
<1>5. QED
  BY <1>2, <1>3, <1>4 DEF OneEach, Recorded

\* As many are shown as there are pairs of a lot and an instant.
LEMMA PairsCounted ==
  ASSUME NEW rs, Recorded(rs)
  PROVE  Cardinality(Shown(rs)) = Cardinality({<<r.lot, r.at>> : r \in rs})
<1> DEFINE pairs == {<<r.lot, r.at>> : r \in rs}
           pair == [r \in Shown(rs) |-> <<r.lot, r.at>>]
<1>1. /\ Shown(rs) \subseteq rs /\ IsFiniteSet(Shown(rs))
      /\ \A r, s \in Shown(rs) : r.lot = s.lot /\ r.at = s.at => r = s
      /\ \A r \in rs : \E s \in Shown(rs) : s.lot = r.lot /\ s.at = r.at
  BY ShownOnce, FS_Subset DEF Recorded
<1>2. pair \in [Shown(rs) -> pairs]
  BY <1>1
<1>3. pair \in Injection(Shown(rs), pairs)
  BY <1>1, <1>2 DEF Injection, IsInjective
<1>4. pair \in Surjection(Shown(rs), pairs)
  <2>1. \A p \in pairs : \E s \in Shown(rs) : pair[s] = p
    <3> TAKE p \in pairs
    <3>1. PICK r \in rs : p = <<r.lot, r.at>>
      OBVIOUS
    <3>2. PICK s \in Shown(rs) : s.lot = r.lot /\ s.at = r.at
      BY <1>1
    <3>3. QED
      BY <3>1, <3>2
  <2> HIDE DEF pair, pairs
  <2>2. QED
    BY <1>2, <2>1 DEF Surjection
<1> HIDE DEF pair, pairs
<1>5. Cardinality(pairs) = Cardinality(Shown(rs))
  BY <1>1, <1>3, <1>4, FS_Surjection
<1>6. QED
  BY <1>5 DEF pairs

\* What an average says of its readings: how many they are and the largest.
LEMMA StatsCounts ==
  ASSUME NEW S, IsFiniteSet(S), NEW value \in [S -> Nat]
  PROVE  /\ Stats(value).n = Cardinality(S)
         /\ \A b \in Nat : (\A x \in S : value[x] <= b) => Stats(value).high <= b
<1> DEFINE values == {value[x] : x \in S}
<1>1. DOMAIN value = S
  OBVIOUS
<1>2. CASE S = {}
  <2>1. Stats(value) = NoStats
    BY <1>1, <1>2 DEF Stats
  <2>2. Cardinality(S) = 0
    BY <1>2, FS_EmptySet
  <2>3. QED
    BY <2>1, <2>2 DEF NoStats
<1>3. CASE S # {}
  <2>1. values \in SUBSET Nat /\ values # {}
    BY <1>3
  <2>2. IsFiniteSet(values)
    BY ImageFinite
  <2>3. \A b \in Nat : (\A x \in S : value[x] <= b) => \A y \in values : y <= b
    OBVIOUS
  <2>4. Stats(value) = [sum |-> SumFunction(value), low |-> Min(values),
                        high |-> Max(values), n |-> Cardinality(S)]
    BY <1>1, <2>1 DEF Stats
  <2> HIDE DEF values
  <2>5. Max(values) \in values
    BY <2>1, <2>2, MaxOfFinite
  <2>6. QED
    BY <2>3, <2>4, <2>5
<1>4. QED
  BY <1>2, <1>3

\* The same numbers have the same average, whatever they belong to.
LEMMA StatsSame ==
  ASSUME NEW S, NEW T, IsFiniteSet(S), IsFiniteSet(T),
         NEW u \in [S -> Nat], NEW v \in [T -> Nat], NEW h \in [S -> T],
         \A x, y \in S : h[x] = h[y] => x = y,
         \A y \in T : \E x \in S : h[x] = y,
         \A x \in S : u[x] = v[h[x]]
  PROVE  Stats(u) = Stats(v)
<1>1. SumFunction(u) = SumFunction(v)
  BY SumSame
<1>2. {u[x] : x \in S} = {v[y] : y \in T}
  OBVIOUS
<1>3. Cardinality(S) = Cardinality(T)
  <2>1. h \in Injection(S, T) /\ h \in Surjection(S, T)
    BY DEF Injection, IsInjective, Surjection
  <2>2. QED
    BY <2>1, FS_Surjection
<1>4. DOMAIN u = S /\ DOMAIN v = T
  OBVIOUS
<1>5. QED
  BY <1>1, <1>2, <1>3, <1>4 DEF Stats

\* The average of some readings says how many they are.
LEMMA StatsOfCounts ==
  ASSUME NEW loaded, OneEach(loaded), NEW some \in SUBSET loaded
  PROVE  StatsOf(some).n = Cardinality(some)
<1>1. IsFiniteSet(some)
  BY FS_Subset DEF OneEach, Recorded
<1>2. \A r \in some : r.free \in Nat
  BY NumbersAssumption DEF OneEach, Recorded, Row
<1>3. [r \in some |-> r.free] \in [some -> Nat]
  BY <1>2
<1>4. QED
  BY <1>1, <1>3, StatsCounts DEF StatsOf

\* The readings of each key, counted and added up, are all of them.
LEMMA CountedByKey ==
  ASSUME NEW loaded, OneEach(loaded), NEW some \in SUBSET loaded,
         NEW K, IsFiniteSet(K), NEW key, \A r \in some : key[r] \in K,
         NEW n, n = [k \in K |-> StatsOf({r \in some : key[r] = k}).n]
  PROVE  SumFunction(n) = Cardinality(some)
<1>1. IsFiniteSet(some)
  BY FS_Subset DEF OneEach, Recorded
<1>2. \A k \in K : StatsOf({r \in some : key[r] = k}).n = Cardinality({r \in some : key[r] = k})
  BY StatsOfCounts
<1>3. n = [k \in K |-> Cardinality({r \in some : key[r] = k})]
  BY <1>2
<1>4. QED
  BY <1>1, <1>3, SumOfCounts

\* The averages of every hour count all readings.
LEMMA HoursCount ==
  ASSUME NEW loaded, OneEach(loaded)
  PROVE  SumFunction([k \in DOMAIN HourlyBuckets(loaded) |-> HourlyBuckets(loaded)[k].n]) =
           Cardinality(loaded)
<1> DEFINE key == [r \in loaded |-> HourOf(r.at)]
           K == {key[r] : r \in loaded}
           n == [k \in K |-> StatsOf({r \in loaded : key[r] = k}).n]
<1>1. IsFiniteSet(K)
  <2>1. IsFiniteSet(loaded)
    BY DEF OneEach, Recorded
  <2> HIDE DEF key
  <2>2. QED
    BY <2>1, ImageFinite
<1>2. SumFunction(n) = Cardinality(loaded)
  <2>1. \A r \in loaded : key[r] \in K
    OBVIOUS
  <2> HIDE DEF key, K
  <2>2. QED
    BY <1>1, <2>1, CountedByKey
<1>3. K = {HourOf(r.at) : r \in loaded}
  OBVIOUS
<1>4. ASSUME NEW k \in K
      PROVE  {r \in loaded : HourOf(r.at) = k} = {r \in loaded : key[r] = k}
  OBVIOUS
<1> HIDE DEF key, K
<1>5. HourlyBuckets(loaded) = [k \in K |-> StatsOf({r \in loaded : key[r] = k})]
  BY <1>3, <1>4 DEF HourlyBuckets
<1>6. [k \in DOMAIN HourlyBuckets(loaded) |-> HourlyBuckets(loaded)[k].n] = n
  BY <1>5
<1>7. QED
  BY <1>2, <1>6

\* An instant is in an hour of the day.
LEMMA HourInDay ==
  ASSUME NEW t \in Nat
  PROVE  HourOf(t) \in 0..(HoursOfDay - 1)
<1>1. HourMinutes \in Nat \ {0} /\ HoursOfDay \in Nat \ {0}
  BY SeriesAssumption, ClockAssumption
<1>2. PICK q \in Nat : q = t \div HourMinutes
  BY <1>1
<1>3. q % HoursOfDay \in 0..(HoursOfDay - 1)
  BY <1>1
<1>4. QED
  BY <1>2, <1>3 DEF HourOf

\* What a weekday's row of the hourly pattern is made of.
OnWeekday(loaded, w) == {r \in loaded : WeekdayOf(r.at) = w}

HoursOf(on) == [h \in 0..(HoursOfDay - 1) |-> StatsOf({r \in on : HourOf(r.at) = h})]

\* The row of a weekday that has readings.
LEMMA PatternRow ==
  ASSUME NEW loaded, NEW w \in {WeekdayOf(r.at) : r \in loaded}
  PROVE  WeekdayHourPatterns(loaded)[w] =
           [day |-> StatsOf(OnWeekday(loaded, w)), hours |-> HoursOf(OnWeekday(loaded, w))]
BY DEF WeekdayHourPatterns, OnWeekday, HoursOf

\* The hours of a row count what its day counts.
LEMMA RowsCount ==
  ASSUME NEW loaded, OneEach(loaded), NEW w \in DOMAIN WeekdayHourPatterns(loaded)
  PROVE  WeekdayHourPatterns(loaded)[w].day.n =
           SumFunction([k \in DOMAIN WeekdayHourPatterns(loaded)[w].hours |->
                          WeekdayHourPatterns(loaded)[w].hours[k].n])
<1> DEFINE on == OnWeekday(loaded, w)
           key == [r \in on |-> HourOf(r.at)]
           K == 0..(HoursOfDay - 1)
           n == [k \in K |-> StatsOf({r \in on : key[r] = k}).n]
<1>1. w \in {WeekdayOf(r.at) : r \in loaded}
  BY DEF WeekdayHourPatterns
<1>2. on \in SUBSET loaded /\ \A r \in on : r.at \in Nat
  BY NumbersAssumption DEF OnWeekday, OneEach, Recorded, Row
<1>3. WeekdayHourPatterns(loaded)[w] = [day |-> StatsOf(on), hours |-> HoursOf(on)]
  BY <1>1, PatternRow
<1> HIDE DEF on
<1>4. IsFiniteSet(K)
  <2>1. 0 \in Int /\ HoursOfDay - 1 \in Int
    BY ClockAssumption
  <2>2. QED
    BY <2>1, FS_Interval
<1>5. SumFunction(n) = Cardinality(on)
  <2>1. \A r \in on : key[r] \in K
    BY <1>2, HourInDay
  <2> HIDE DEF key, K
  <2>2. QED
    BY <1>2, <1>4, <2>1, CountedByKey
<1>6. ASSUME NEW k \in K
      PROVE  {r \in on : HourOf(r.at) = k} = {r \in on : key[r] = k}
  OBVIOUS
<1> HIDE DEF key
<1>7. HoursOf(on) = [k \in K |-> StatsOf({r \in on : key[r] = k})]
  BY <1>6 DEF HoursOf
<1> HIDE DEF K
<1>8. [k \in DOMAIN HoursOf(on) |-> HoursOf(on)[k].n] = n
  <2>1. DOMAIN HoursOf(on) = K
    BY <1>7
  <2>2. \A k \in K : HoursOf(on)[k].n = StatsOf({r \in on : key[r] = k}).n
    BY <1>7
  <2>3. QED
    BY <2>1, <2>2
<1>9. StatsOf(on).n = Cardinality(on)
  BY <1>2, StatsOfCounts
<1>10. /\ WeekdayHourPatterns(loaded)[w].day = StatsOf(on)
       /\ WeekdayHourPatterns(loaded)[w].hours = HoursOf(on)
  BY <1>3
<1> HIDE DEF n
<1>11. SumFunction([k \in DOMAIN HoursOf(on) |-> HoursOf(on)[k].n]) = StatsOf(on).n
  BY <1>5, <1>8, <1>9
<1>12. QED
  BY <1>10, <1>11, Zenon

\* The sum of a single number is the number.
LEMMA SumOfOne ==
  ASSUME NEW x, NEW value \in [{x} -> Nat]
  PROVE  SumFunction(value) = value[x]
<1>1. PICK f : AddsUp(f, value, {x})
  BY FS_Singleton, SumAddsUp
<1>2. {x} \in SUBSET {x} /\ x \in {x} /\ {x} \ {x} = {}
  OBVIOUS
<1>3. f[{x}] = value[x] + f[{x} \ {x}]
  BY <1>1, <1>2 DEF AddsUp
<1>4. f[{x}] = value[x] + 0
  BY <1>1, <1>2, <1>3 DEF AddsUp
<1>5. value[x] \in Nat /\ f[{x}] = SumFunction(value)
  BY <1>1 DEF AddsUp
<1>6. QED
  BY <1>4, <1>5

\* The free spaces of the lots of an instant, added up.
TotalAt(loaded, ts) == [t \in ts |-> SumFunction([r \in {x \in loaded : x.at = t} |-> r.free])]

\* Of one lot there is nothing to add up, and its averages are those of its readings.
LEMMA AloneSame ==
  ASSUME NEW loaded, OneEach(loaded), NEW some \in SUBSET loaded, NEW id,
         \A r \in loaded : r.lot = id
  PROVE  Stats(TotalAt(loaded, {r.at : r \in some})) = StatsOf(some)
<1> DEFINE ts == {r.at : r \in some}
           at == [r \in some |-> r.at]
           free == [r \in some |-> r.free]
<1>1. \A r \in loaded : r.free \in Nat
  BY NumbersAssumption DEF OneEach, Recorded, Row
<1>2. \A r, s \in loaded : r.at = s.at => r = s
  BY DEF OneEach
<1>3. IsFiniteSet(some)
  BY FS_Subset DEF OneEach, Recorded
<1>4. ASSUME NEW r \in some
      PROVE  TotalAt(loaded, ts)[r.at] = r.free
  <2>1. {x \in loaded : x.at = r.at} = {r}
    BY <1>2
  <2>2. [x \in {r} |-> x.free] \in [{r} -> Nat]
    BY <1>1
  <2>3. SumFunction([x \in {r} |-> x.free]) = [x \in {r} |-> x.free][r]
    BY <2>2, SumOfOne
  <2>4. r.at \in ts
    OBVIOUS
  <2> HIDE DEF ts
  <2>5. QED
    BY <2>1, <2>3, <2>4 DEF TotalAt
<1>5. free \in [some -> Nat] /\ at \in [some -> ts]
  BY <1>1
<1>6. TotalAt(loaded, ts) \in [ts -> Nat]
  <2>1. \A t \in ts : TotalAt(loaded, ts)[t] \in Nat
    BY <1>1, <1>4
  <2>2. TotalAt(loaded, ts) = [t \in ts |-> TotalAt(loaded, ts)[t]]
    BY DEF TotalAt
  <2> HIDE DEF ts
  <2>3. QED
    BY <2>1, <2>2
<1>7. IsFiniteSet(ts)
  <2>1. ts = {at[r] : r \in some}
    OBVIOUS
  <2> HIDE DEF ts, at
  <2>2. QED
    BY <1>3, <2>1, ImageFinite
<1>8. /\ \A r, s \in some : at[r] = at[s] => r = s
      /\ \A t \in ts : \E r \in some : at[r] = t
      /\ \A r \in some : free[r] = TotalAt(loaded, ts)[at[r]]
  BY <1>2, <1>4
<1>9. StatsOf(some) = Stats(free)
  BY DEF StatsOf
<1> HIDE DEF ts, at, free
<1>10. Stats(free) = Stats(TotalAt(loaded, ts))
  BY <1>3, <1>5, <1>6, <1>7, <1>8, StatsSame
<1>11. QED
  BY <1>9, <1>10 DEF ts

\* What the pattern of a special day is made of.
InstantsOn(loaded, date) == {r.at : r \in {x \in loaded : DateOf(x.at) = date}}

\* The pattern averages the sums of its instants.
LEMMA SpecialDayIs ==
  ASSUME NEW loaded, NEW date
  PROVE  SpecialDayPattern(loaded, date) =
           [day |-> Stats(TotalAt(loaded, InstantsOn(loaded, date))),
            hours |-> [h \in 0..(HoursOfDay - 1) |->
                         Stats(TotalAt(loaded, {t \in InstantsOn(loaded, date) : HourOf(t) = h}))]]
BY DEF SpecialDayPattern, TotalAt, InstantsOn

\* A lot's fullest reading.
Highest(loaded, id) == Max({0} \cup {r.free : r \in {x \in loaded : x.lot = id}})

\* It is not below any of its readings.
LEMMA HighestIs ==
  ASSUME NEW loaded, OneEach(loaded), NEW id
  PROVE  /\ Highest(loaded, id) \in Nat
         /\ \A r \in loaded : r.lot = id => r.free <= Highest(loaded, id)
<1> DEFINE of == {x \in loaded : x.lot = id}
           free == [r \in of |-> r.free]
           frees == {free[r] : r \in of}
           all == {0} \cup frees
<1>1. IsFiniteSet(of)
  BY FS_Subset DEF OneEach, Recorded
<1>2. \A r \in loaded : r.free \in Nat
  BY NumbersAssumption DEF OneEach, Recorded, Row
<1>3. IsFiniteSet(frees)
  <2> HIDE DEF of, free
  <2>1. QED
    BY <1>1, ImageFinite
<1>4. all \in SUBSET Nat /\ all # {} /\ all = frees \cup {0}
  <2>1. frees \in SUBSET Nat
    BY <1>2
  <2> HIDE DEF frees
  <2>2. QED
    BY <2>1
<1>5. Highest(loaded, id) = Max(all)
  <2>1. frees = {r.free : r \in {x \in loaded : x.lot = id}}
    BY DEF of, free
  <2>2. QED
    BY <2>1, Zenon DEF Highest
<1>6. \A r \in loaded : r.lot = id => r.free \in all
  OBVIOUS
<1> HIDE DEF frees, all
<1>7. IsFiniteSet(all)
  BY <1>3, <1>4, FS_AddElement
<1>8. Max(all) \in all /\ \A n \in all : n <= Max(all)
  BY <1>4, <1>7, MaxOfFinite
<1>9. QED
  BY <1>4, <1>5, <1>6, <1>8

\* No instant of a day has more free spaces than the fullest readings of the lots add to.
LEMMA DayBounded ==
  ASSUME NEW loaded, OneEach(loaded), NEW ids, IsFiniteSet(ids), \A r \in loaded : r.lot \in ids,
         NEW date
  PROVE  SpecialDayPattern(loaded, date).day.high <=
           SumFunction([id \in ids |-> Highest(loaded, id)])
<1> DEFINE ts == InstantsOn(loaded, date)
           highs == [id \in ids |-> Highest(loaded, id)]
<1>1. highs \in [ids -> Nat]
  BY HighestIs
<1>2. SumFunction(highs) \in Nat
  <2> HIDE DEF highs
  <2>1. QED
    BY <1>1, SumAddsUp
<1>3. IsFiniteSet(loaded) /\ \A r \in loaded : r.free \in Nat
  BY NumbersAssumption DEF OneEach, Recorded, Row
<1>4. IsFiniteSet(ts)
  <2> DEFINE on == {x \in loaded : DateOf(x.at) = date}
             at == [r \in on |-> r.at]
  <2>1. IsFiniteSet(on) /\ ts = {at[r] : r \in on}
    BY <1>3, FS_Subset DEF InstantsOn
  <2> HIDE DEF on, at, ts
  <2>2. QED
    BY <2>1, ImageFinite
<1>5. ASSUME NEW t \in ts
      PROVE  /\ TotalAt(loaded, ts)[t] \in Nat
             /\ TotalAt(loaded, ts)[t] <= SumFunction(highs)
  <2> DEFINE at == {x \in loaded : x.at = t}
             free == [r \in at |-> r.free]
             lot == [r \in at |-> r.lot]
  <2>1. IsFiniteSet(at)
    BY <1>3, FS_Subset
  <2>2. free \in [at -> Nat] /\ lot \in [at -> ids]
    BY <1>3
  <2>3. \A r, s \in at : lot[r] = lot[s] => r = s
    BY DEF OneEach
  <2>4. \A r \in at : free[r] <= highs[lot[r]]
    BY HighestIs
  <2>5. TotalAt(loaded, ts)[t] = SumFunction(free)
    BY DEF TotalAt
  <2> HIDE DEF at, free, lot, highs
  <2>6. SumFunction(free) <= SumFunction(highs)
    BY <1>1, <2>1, <2>2, <2>3, <2>4, SumNotMore
  <2>7. SumFunction(free) \in Nat
    BY <2>1, <2>2, SumAddsUp
  <2>8. QED
    BY <2>5, <2>6, <2>7
<1>6. TotalAt(loaded, ts) \in [ts -> Nat]
  <2>1. TotalAt(loaded, ts) = [t \in ts |-> TotalAt(loaded, ts)[t]]
    BY DEF TotalAt
  <2> HIDE DEF ts, highs
  <2>2. QED
    BY <1>5, <2>1
<1>7. SpecialDayPattern(loaded, date).day = Stats(TotalAt(loaded, ts))
  BY SpecialDayIs
<1> HIDE DEF ts, highs
<1>8. Stats(TotalAt(loaded, ts)).high <= SumFunction(highs)
  BY <1>2, <1>4, <1>5, <1>6, StatsCounts
<1>9. QED
  BY <1>7, <1>8 DEF highs

\* The special day of one lot is its weekday's row of the hourly pattern.
LEMMA DayIsRow ==
  ASSUME NEW loaded, OneEach(loaded), loaded # {}, NEW id, \A r \in loaded : r.lot = id,
         NEW date, \A r \in loaded : DateOf(r.at) = date
  PROVE  SpecialDayPattern(loaded, date) = WeekdayHourPatterns(loaded)[date % 7]
<1> DEFINE ts == {r.at : r \in loaded}
           ofHour(h) == {r \in loaded : HourOf(r.at) = h}
           K == 0..(HoursOfDay - 1)
<1>1. \A r \in loaded : WeekdayOf(r.at) = date % 7
  BY DEF WeekdayOf
<1>2. date % 7 \in {WeekdayOf(r.at) : r \in loaded} /\ OnWeekday(loaded, date % 7) = loaded
  BY <1>1 DEF OnWeekday
<1>3. WeekdayHourPatterns(loaded)[date % 7] = [day |-> StatsOf(loaded), hours |-> HoursOf(loaded)]
  BY <1>2, PatternRow
<1>4. InstantsOn(loaded, date) = ts
  BY DEF InstantsOn
<1>5. \A h \in K : {t \in ts : HourOf(t) = h} = {r.at : r \in ofHour(h)}
  OBVIOUS
<1>6. Stats(TotalAt(loaded, ts)) = StatsOf(loaded)
  BY AloneSame
<1>7. ASSUME NEW h \in K
      PROVE  Stats(TotalAt(loaded, {t \in ts : HourOf(t) = h})) = StatsOf(ofHour(h))
  <2>1. ofHour(h) \in SUBSET loaded
    OBVIOUS
  <2> DEFINE some == ofHour(h)
  <2> HIDE DEF some
  <2>2. Stats(TotalAt(loaded, {r.at : r \in some})) = StatsOf(some)
    BY <2>1, AloneSame DEF some
  <2>3. {t \in ts : HourOf(t) = h} = {r.at : r \in some}
    BY <1>5 DEF some
  <2>4. QED
    BY <2>2, <2>3 DEF some
<1> HIDE DEF ts
<1>8. HoursOf(loaded) = [h \in K |-> Stats(TotalAt(loaded, {t \in ts : HourOf(t) = h}))]
  BY <1>7 DEF HoursOf
<1>9. SpecialDayPattern(loaded, date) =
        [day |-> Stats(TotalAt(loaded, ts)),
         hours |-> [h \in K |-> Stats(TotalAt(loaded, {t \in ts : HourOf(t) = h}))]]
  BY <1>4, SpecialDayIs
<1>10. QED
  BY <1>3, <1>6, <1>8, <1>9

\* The charts of any rows a table may hold count every reading once.
LEMMA CountedOnce ==
  ASSUME Recorded(rows)
  PROVE  EachReadingOnce
<1> DEFINE ids == LotsIn(rows)
           dates == RecentSpecialDays(DateOf(Max(Times)), 0..DateOf(Max(Times)), 8)
<1>1. ASSUME NEW cutoff \in Times
      PROVE  LET loaded == LoadedSince(rows, ids, cutoff)
                 grid == WeekdayHourPatterns(loaded)
                 count(buckets) == SumFunction([k \in DOMAIN buckets |-> buckets[k].n])
             IN /\ count(HourlyBuckets(loaded)) =
                     Cardinality({<<r.lot, r.at>> : r \in {x \in rows : x.at >= cutoff}})
                /\ WeekdayBuckets(loaded) = [w \in DOMAIN grid |-> grid[w].day]
                /\ \A w \in DOMAIN grid : grid[w].day.n = count(grid[w].hours)
  <2> DEFINE some == {x \in rows : x.at >= cutoff}
             loaded == LoadedSince(rows, ids, cutoff)
  <2>1. loaded = Shown(some)
    <3>1. some = {r \in rows : r.lot \in ids /\ r.at >= cutoff}
      BY DEF LotsIn
    <3>2. QED
      BY <3>1 DEF LoadedSince
  <2>2. some \in SUBSET rows
    OBVIOUS
  <2> HIDE DEF some, loaded
  <2>3. OneEach(loaded) /\ Recorded(some)
    BY <2>1, <2>2, ShownOneEach, SomeRecorded
  <2>4. SumFunction([k \in DOMAIN HourlyBuckets(loaded) |-> HourlyBuckets(loaded)[k].n]) =
          Cardinality({<<r.lot, r.at>> : r \in some})
    BY <2>1, <2>3, HoursCount, PairsCounted
  <2>5. WeekdayBuckets(loaded) =
          [w \in DOMAIN WeekdayHourPatterns(loaded) |-> WeekdayHourPatterns(loaded)[w].day]
    BY DEF WeekdayBuckets, WeekdayHourPatterns
  <2>6. \A w \in DOMAIN WeekdayHourPatterns(loaded) :
          WeekdayHourPatterns(loaded)[w].day.n =
            SumFunction([k \in DOMAIN WeekdayHourPatterns(loaded)[w].hours |->
                           WeekdayHourPatterns(loaded)[w].hours[k].n])
    BY <2>3, RowsCount
  <2>7. QED
    BY <2>4, <2>5, <2>6, Zenon DEF some, loaded
<1>2. ASSUME NEW date
      PROVE  LET loaded == LoadedBetween(rows, ids, date, date)
                 highest(id) == Max({0} \cup {r.free : r \in {x \in loaded : x.lot = id}})
             IN SpecialDayPattern(loaded, date).day.high <= SumFunction([id \in ids |-> highest(id)])
  <2> DEFINE some == {r \in rows : r.lot \in ids /\ DateOf(r.at) \in date..date}
             loaded == Shown(some)
             lot == [r \in rows |-> r.lot]
  <2>1. some \in SUBSET rows /\ ids = {lot[r] : r \in rows}
    BY DEF LotsIn
  <2>2. IsFiniteSet(ids)
    <3> HIDE DEF lot, ids
    <3>1. QED
      BY <2>1, ImageFinite DEF Recorded
  <2>3. \A r \in some : r.lot \in ids
    OBVIOUS
  <2> HIDE DEF some, ids
  <2>4. OneEach(loaded) /\ \A r \in loaded : r.lot \in ids
    BY <2>1, <2>3, ShownOneEach
  <2> HIDE DEF loaded
  <2>5. SpecialDayPattern(loaded, date).day.high <=
          SumFunction([id \in ids |-> Highest(loaded, id)])
    BY <2>2, <2>4, DayBounded
  <2>6. LoadedBetween(rows, ids, date, date) = loaded
    BY DEF LoadedBetween, loaded, some
  <2>7. QED
    BY <2>5, <2>6 DEF Highest
<1>3. ASSUME NEW date \in Nat, NEW id \in ids
      PROVE  LET loaded == LoadedBetween(rows, {id}, date, date)
             IN loaded # {} => SpecialDayPattern(loaded, date) =
                                 WeekdayHourPatterns(loaded)[date % 7]
  <2> DEFINE some == {r \in rows : r.lot \in {id} /\ DateOf(r.at) \in date..date}
             loaded == Shown(some)
  <2>1. some \in SUBSET rows /\ \A r \in some : r.lot = id /\ DateOf(r.at) = date
    OBVIOUS
  <2> HIDE DEF some
  <2>2. OneEach(loaded) /\ \A r \in loaded : r.lot = id /\ DateOf(r.at) = date
    BY <2>1, ShownOneEach
  <2> HIDE DEF loaded
  <2>3. loaded # {} => SpecialDayPattern(loaded, date) = WeekdayHourPatterns(loaded)[date % 7]
    BY <2>2, DayIsRow
  <2>4. LoadedBetween(rows, {id}, date, date) = loaded
    BY DEF LoadedBetween, loaded, some
  <2>5. QED
    BY <2>3, <2>4
<1>4. dates \in SUBSET Nat
  BY DEF RecentSpecialDays
<1> HIDE DEF dates
<1>5. QED
  BY <1>1, <1>2, <1>3, <1>4 DEF EachReadingOnce, dates

\* Whatever was collected, imported and merged, every chart counts every reading once and
\* the charts agree.
THEOREM ReadingsCountedOnce == Spec => []EachReadingOnce
<1>1. Spec => []IInv
  BY InitIInv, NextIInv, PTL DEF Spec
<1>2. IInv => EachReadingOnce
  BY RowsRecorded, CountedOnce DEF IInv
<1>3. QED
  BY <1>1, <1>2, PTL

-----------------------------------------------------------------------------
(* The falls below a threshold that the history of an airport tells of.    *)

\* The points of the history of an airport and the instants they are shown at.
LEMMA InsightsMean ==
  ASSUME NEW loaded, Recorded(loaded), loaded # {}, NEW i \in 1..Buckets
  PROVE  /\ Len(InsightPoints(loaded)) = Buckets
         /\ InsightPoints(loaded)[i] = Meant(loaded, PointAt(LastAt(loaded), i))
         /\ PointAt(LastAt(loaded), i) \in Int /\ PointAt(LastAt(loaded), i) <= LastAt(loaded)
<1> DEFINE end == LastAt(loaded)
           series == TimeSeries(loaded, end, FALSE)
<1>1. Buckets \in Nat \ {0} /\ Future \in Nat /\ Width \in Nat \ {0}
  BY SeriesAssumption
<1>2. end \in Nat
  BY LastInstant
<1>3. /\ Bucket(end, i) \in Int /\ Bucket(end, i) <= end
      /\ PointAt(end, i) = UptoInstant(loaded, i, end, FALSE)
  <2>1. /\ Bucket(end, i) = Aligned(end) - Width * (Buckets - i)
        /\ Bucket(end, Buckets) = Aligned(end) - Width * (Buckets - Buckets)
    BY DEF Bucket
  <2>2. Bucket(end, i) \in Int /\ Bucket(end, Buckets) \in Int /\ Bucket(end, Buckets) <= end
    BY <1>1, <1>2, BucketsFollow
  <2>3. PICK p \in Nat : p = Width * (Buckets - i)
    <3>1. Buckets - i \in Nat
      BY <1>1
    <3>2. Width * (Buckets - i) \in Nat
      BY <1>1, <3>1
    <3>3. QED
      BY <3>2
  <2>4. Width * (Buckets - Buckets) = 0
    BY <1>1
  <2>5. PICK z \in Int : z = Aligned(end)
    <3>1. Aligned(end) = end - ((end % HourMinutes) % Width)
      BY DEF Aligned
    <3>2. end % HourMinutes \in Nat
      BY <1>2, SeriesAssumption
    <3>3. (end % HourMinutes) % Width \in Nat
      BY <1>1, <3>2
    <3>4. QED
      BY <1>2, <3>1, <3>3
  <2>6. Bucket(end, i) <= end
    BY <1>2, <2>1, <2>2, <2>3, <2>4, <2>5
  <2>7. ~(Bucket(end, i) > end)
    BY <1>2, <2>2, <2>6
  <2>8. QED
    BY <2>2, <2>6, <2>7 DEF PointAt, UptoInstant
<1>4. series[i] = Meant(loaded, UptoInstant(loaded, i, end, FALSE))
  <2>1. i \in 1..Points
    BY <1>1 DEF Points
  <2>2. QED
    BY <1>2, <2>1, SeriesShows
<1> HIDE DEF series
<1>5. Len(SubSeq(series, 1, Buckets)) = Buckets /\ SubSeq(series, 1, Buckets)[i] = series[i]
  BY <1>1
<1>6. InsightPoints(loaded) = SubSeq(series, 1, Buckets)
  BY DEF InsightPoints, series
<1>7. PointAt(end, i) \in Int /\ PointAt(end, i) <= end
  BY <1>2, <1>3 DEF PointAt
<1>8. QED
  BY <1>3, <1>4, <1>5, <1>6, <1>7

\* Of readings apart there is a latest one.
LEMMA LatestIs ==
  ASSUME NEW R, Apart(R), NEW some \in SUBSET R, some # {}
  PROVE  LatestOf(some) \in some /\ \A s \in some : s.at <= LatestOf(some).at
<1> DEFINE at == [r \in some |-> r.at]
           ats == {at[r] : r \in some}
<1>1. IsFiniteSet(some) /\ \A r \in some : at[r] = r.at /\ r.at \in Nat
  BY FS_Subset DEF Apart
<1>2. ats \in SUBSET Nat /\ ats # {} /\ \A r \in some : r.at \in ats
  BY <1>1
<1> HIDE DEF at
<1>3. IsFiniteSet(ats)
  BY <1>1, ImageFinite
<1>4. \A t \in ats : \E r \in some : r.at = t
  BY <1>1
<1> HIDE DEF ats
<1>5. PICK r \in some : r.at = Max(ats)
  BY <1>2, <1>3, <1>4, MaxOfFinite
<1>6. \A s \in some : s.at <= r.at
  BY <1>2, <1>3, <1>5, MaxOfFinite
<1>7. LatestOf(some) = r
  BY <1>6, LatestUnique
<1>8. QED
  BY <1>6, <1>7

\* Between two instants some lot's reading fell.
FellAfter(loaded, t) ==
  \E r, s \in loaded : r.lot = s.lot /\ r.at < s.at /\ s.free < r.free /\ t < s.at

\* The free spaces a point adds up.
FreesAt(loaded, t) == [l \in LotsSeen(loaded, t) |-> LatestOf(Seen(loaded, l, t)).free]

\* They are numbers, of finitely many lots, each its latest reading up to the instant.
LEMMA FreesAdded ==
  ASSUME NEW loaded, Recorded(loaded), NEW t
  PROVE  /\ Meant(loaded, t).free = SumFunction(FreesAt(loaded, t))
         /\ FreesAt(loaded, t) \in [LotsSeen(loaded, t) -> Nat] /\ IsFiniteSet(LotsSeen(loaded, t))
         /\ \A l \in LotsSeen(loaded, t) :
              /\ LatestOf(Seen(loaded, l, t)) \in Seen(loaded, l, t)
              /\ \A s \in Seen(loaded, l, t) : s.at <= LatestOf(Seen(loaded, l, t)).at
<1> DEFINE seen == LotsSeen(loaded, t)
<1>1. Shown(loaded) \subseteq loaded /\ IsFiniteSet(loaded)
      /\ \A r \in loaded : r.free \in Nat
  BY ShownOnce, NumbersAssumption DEF Recorded, Row
<1>2. ASSUME NEW l \in seen
      PROVE  /\ LatestOf(Seen(loaded, l, t)) \in Seen(loaded, l, t)
             /\ \A s \in Seen(loaded, l, t) : s.at <= LatestOf(Seen(loaded, l, t)).at
             /\ LatestOf(Seen(loaded, l, t)).free \in Nat
  <2>1. Apart(OfLot(loaded, l))
    BY ReadingsListed
  <2>2. Seen(loaded, l, t) \in SUBSET OfLot(loaded, l) /\ Seen(loaded, l, t) # {}
    BY DEF Seen, OfLot, LotsSeen
  <2>3. /\ LatestOf(Seen(loaded, l, t)) \in Seen(loaded, l, t)
        /\ \A s \in Seen(loaded, l, t) : s.at <= LatestOf(Seen(loaded, l, t)).at
    BY <2>1, <2>2, LatestIs
  <2>4. Seen(loaded, l, t) \subseteq loaded
    BY <1>1 DEF Seen
  <2>5. QED
    BY <1>1, <2>3, <2>4
<1>3. IsFiniteSet(seen)
  <2> DEFINE lot == [r \in loaded |-> r.lot]
             all == {lot[r] : r \in loaded}
  <2>1. seen \in SUBSET all
    BY DEF LotsSeen, LotsIn
  <2> HIDE DEF lot, seen
  <2>2. IsFiniteSet(all)
    BY <1>1, ImageFinite
  <2> HIDE DEF all
  <2>3. QED
    BY <2>1, <2>2, FS_Subset
<1>4. FreesAt(loaded, t) \in [seen -> Nat]
  BY <1>2 DEF FreesAt
<1>5. Meant(loaded, t).free = SumFunction(FreesAt(loaded, t))
  <2> DEFINE latest == [l \in seen |-> LatestOf(Seen(loaded, l, t))]
  <2>1. [l \in seen |-> latest[l].free] = FreesAt(loaded, t)
    BY DEF FreesAt
  <2>2. Meant(loaded, t) = Point(seen, latest)
    BY DEF Meant
  <2> HIDE DEF seen, latest
  <2>3. QED
    BY <2>1, <2>2 DEF Point
<1>6. QED
  BY <1>2, <1>3, <1>4, <1>5

\* If none fell, a later point has no fewer free spaces, even if fewer lots were there before.
LEMMA NoneFewer ==
  ASSUME NEW loaded, OneEach(loaded), NEW from \in Int, NEW to \in Int, from <= to,
         ~FellAfter(loaded, from)
  PROVE  /\ Meant(loaded, from).free <= Meant(loaded, to).free
         /\ Meant(loaded, from).free \in Nat /\ Meant(loaded, to).free \in Nat
<1> DEFINE S == LotsSeen(loaded, from)
           T == LotsSeen(loaded, to)
           u == FreesAt(loaded, from)
           v == FreesAt(loaded, to)
           same == [l \in S |-> l]
<1>1. Recorded(loaded) /\ Shown(loaded) \subseteq loaded
      /\ \A r \in loaded : r.at \in Nat /\ r.free \in Nat
  BY ShownOnce, NumbersAssumption DEF OneEach, Recorded, Row
<1>2. ASSUME NEW l \in S
      PROVE  l \in T /\ u[l] <= v[l]
  <2>1. PICK r \in Seen(loaded, l, from) : r = LatestOf(Seen(loaded, l, from))
    BY <1>1, FreesAdded
  <2>2. r \in loaded /\ r.lot = l /\ r.at <= from /\ r \in Shown(loaded)
    BY <1>1, <2>1 DEF Seen
  <2>3. r \in Seen(loaded, l, to)
    BY <1>1, <2>2 DEF Seen
  <2>4. l \in T
    BY <2>3 DEF LotsSeen
  <2>5. PICK s \in Seen(loaded, l, to) : s = LatestOf(Seen(loaded, l, to)) /\ r.at <= s.at
    BY <1>1, <2>3, <2>4, FreesAdded
  <2>6. s \in loaded /\ s.lot = l /\ s \in Shown(loaded)
    BY <1>1, <2>5 DEF Seen
  <2>7. r.free <= s.free
    <3>1. CASE r.at = s.at
      <4>1. r = s
        BY <2>2, <2>6, <3>1 DEF OneEach
      <4>2. QED
        BY <1>1, <2>2, <4>1
    <3>2. CASE r.at # s.at
      <4>1. r.at < s.at
        BY <1>1, <2>2, <2>5, <2>6, <3>2
      <4>2. ~(s.at <= from)
        <5>1. s.at <= from => s \in Seen(loaded, l, from)
          BY <2>6 DEF Seen
        <5>2. \A q \in Seen(loaded, l, from) : q.at <= r.at
          BY <1>1, <2>1, FreesAdded
        <5>3. QED
          BY <1>1, <2>2, <2>6, <4>1, <5>1, <5>2
      <4>3. from < s.at
        BY <1>1, <2>6, <4>2
      <4>4. ~(s.free < r.free)
        BY <2>2, <2>6, <4>1, <4>3 DEF FellAfter
      <4>5. QED
        BY <1>1, <2>2, <2>6, <4>4
    <3>3. QED
      BY <3>1, <3>2
  <2>8. u[l] = r.free /\ v[l] = s.free
    BY <2>1, <2>4, <2>5 DEF FreesAt
  <2>9. QED
    BY <2>4, <2>7, <2>8
<1>3. /\ u \in [S -> Nat] /\ IsFiniteSet(S) /\ Meant(loaded, from).free = SumFunction(u)
      /\ v \in [T -> Nat] /\ IsFiniteSet(T) /\ Meant(loaded, to).free = SumFunction(v)
  BY <1>1, FreesAdded
<1>4. same \in [S -> T] /\ \A l \in S : same[l] = l
  BY <1>2
<1>5. \A l \in S : u[l] <= v[same[l]]
  BY <1>2, <1>4
<1> HIDE DEF S, T, u, v, same
<1>6. SumFunction(u) <= SumFunction(v)
  BY <1>3, <1>4, <1>5, SumNotMore
<1>7. SumFunction(u) \in Nat /\ SumFunction(v) \in Nat
  BY <1>3, SumAddsUp
<1>8. QED
  BY <1>3, <1>6, <1>7

\* Where the airport crosses a threshold downward, a reading of a lot fell.
LEMMA CrossingFell ==
  ASSUME NEW loaded, OneEach(loaded), loaded # {},
         NEW c \in HistoryItems(InsightPoints(loaded), LastAt(loaded))
  PROVE  FellAfter(loaded, PointAt(LastAt(loaded), c.reading - 1))
<1> DEFINE points == InsightPoints(loaded)
           end == LastAt(loaded)
<1>1. Recorded(loaded) /\ end \in Nat /\ Buckets \in Nat \ {0}
  BY LastInstant, SeriesAssumption DEF OneEach
<1>2. /\ Len(points) = Buckets
      /\ \A i \in 1..Buckets : /\ points[i] = Meant(loaded, PointAt(end, i))
                               /\ PointAt(end, i) \in Int /\ PointAt(end, i) <= end
  <2>1. 1 \in 1..Buckets
    BY <1>1
  <2>2. QED
    BY <1>1, <2>1, InsightsMean
<1>3. c \in Crossings(points) /\ c.direction = "down"
  BY DEF HistoryItems
<1> HIDE DEF points
<1>4. /\ c.reading \in 2..Buckets /\ c.threshold \in Nat
      /\ points[c.reading - 1].free >= c.threshold
      /\ c.threshold > points[c.reading].free
  <2>1. c \in [threshold : Thresholds, direction : {"down", "up"}, reading : 2..Len(points)]
    BY <1>3 DEF Crossings
  <2>2. Crosses(points[c.reading - 1].free, points[c.reading].free, c.threshold, c.direction)
    BY <1>3 DEF Crossings
  <2>3. c.threshold \in Thresholds /\ c.reading \in 2..Buckets
    BY <1>2, <2>1
  <2>4. "down" # "up"
    OBVIOUS
  <2>5. QED
    BY <1>3, <2>2, <2>3, <2>4 DEF Thresholds, Crosses
<1> DEFINE a == c.reading - 1
           b == c.reading
<1>5. a \in 1..Buckets /\ b \in 1..Buckets /\ a # Buckets /\ b = a + 1
  BY <1>1, <1>4
<1>6. PointAt(end, a) <= PointAt(end, b)
  <2>1. CASE b = Buckets
    <3>1. PointAt(end, b) = end
      BY <2>1 DEF PointAt
    <3>2. QED
      BY <1>2, <1>5, <3>1
  <2>2. CASE b # Buckets
    <3>1. PointAt(end, a) = Bucket(end, a) /\ PointAt(end, b) = Bucket(end, b)
      BY <1>5, <2>2 DEF PointAt
    <3>2. a \in Int /\ b \in Int /\ b - 1 = a
      BY <1>5
    <3>3. Bucket(end, a) \in Int /\ Bucket(end, b) = Bucket(end, a) + Width
      BY <1>1, <3>2, BucketsFollow
    <3>4. Width \in Nat
      BY SeriesAssumption
    <3>5. QED
      BY <3>1, <3>3, <3>4
  <2>3. QED
    BY <2>1, <2>2
<1>7. /\ points[a] = Meant(loaded, PointAt(end, a)) /\ PointAt(end, a) \in Int
      /\ points[b] = Meant(loaded, PointAt(end, b)) /\ PointAt(end, b) \in Int
  BY <1>2, <1>5
<1> HIDE DEF end
<1>8. ~FellAfter(loaded, PointAt(end, a)) =>
        /\ points[a].free <= points[b].free
        /\ points[a].free \in Nat /\ points[b].free \in Nat
  BY <1>6, <1>7, NoneFewer
<1>9. points[a].free >= c.threshold /\ c.threshold > points[b].free
  BY <1>4
<1> HIDE DEF a, b
<1>10. FellAfter(loaded, PointAt(end, a))
  BY <1>4, <1>8, <1>9
<1>11. QED
  BY <1>10 DEF a, end

\* An instant is on one of seven days.
LEMMA WeekdayIs ==
  ASSUME NEW t \in Int
  PROVE  WeekdayOf(t) \in 0..6
<1>1. PICK m \in Nat : m = DayMinutes /\ m > 0
  BY DayLong
<1>2. PICK d \in Int : d = t \div m
  BY <1>1
<1>3. d % 7 \in 0..6
  OBVIOUS
<1>4. QED
  BY <1>1, <1>2, <1>3 DEF WeekdayOf, DateOf

\* How many falls the list of a threshold and a weekday is made of.
TimesOf(items, end) ==
  [pair \in Thresholds \X (0..6) |-> Cardinality(DOMAIN WeekdayItem(items, end, pair[1], pair[2]))]

\* The weekdays' lists hold each of the falls once.
LEMMA FallsCounted ==
  ASSUME NEW points, Len(points) \in Nat, NEW end, NEW items, items = HistoryItems(points, end),
         \A i \in 1..Len(points) : PointAt(end, i) \in Int
  PROVE  SumFunction(TimesOf(items, end)) = Cardinality(items)
<1> DEFINE K == Thresholds \X (0..6)
           key == [c \in items |-> <<c.threshold, WeekdayOf(PointAt(end, c.reading))>>]
           of(pair) == {c \in items : key[c] = pair}
           counts == [pair \in K |-> Cardinality(of(pair))]
<1>1. items \in SUBSET Crossings(points) /\ \A c \in items : c.direction = "down"
  BY DEF HistoryItems
<1>2. \A c \in items : /\ c \in [threshold : Thresholds, direction : {"down", "up"}, reading : 2..Len(points)]
                       /\ c.threshold \in Thresholds /\ c.reading \in 2..Len(points)
  BY <1>1 DEF Crossings
<1>3. IsFiniteSet(items)
  BY <1>1, CrossingsFinite, FS_Subset
<1>4. IsFiniteSet(K)
  <2>1. IsFiniteSet({10} \cup {50})
    BY FS_Singleton, FS_Union
  <2>2. Thresholds = {10} \cup {50}
    BY DEF Thresholds
  <2>3. IsFiniteSet(0..6)
    <3>1. PICK a \in Int, b \in Int : a = 0 /\ b = 6
      OBVIOUS
    <3>2. IsFiniteSet(a..b)
      BY FS_Interval
    <3>3. QED
      BY <3>1, <3>2
  <2>4. QED
    BY <2>1, <2>2, <2>3, FS_Product
<1>5. \A c \in items : key[c] \in K
  <2>1. \A c \in items : PointAt(end, c.reading) \in Int
    BY <1>2
  <2>2. QED
    BY <1>2, <2>1, WeekdayIs
<1>6. SumFunction(counts) = Cardinality(items)
  <2>1. counts = [pair \in K |-> Cardinality({c \in items : key[c] = pair})]
    OBVIOUS
  <2> HIDE DEF K, key, counts
  <2>2. QED
    BY <1>3, <1>4, <1>5, <2>1, SumOfCounts
<1>7. ASSUME NEW c \in items, NEW d \in items, c.threshold = d.threshold,
             DateOf(PointAt(end, c.reading)) = DateOf(PointAt(end, d.reading))
      PROVE  c = d
  <2>1. ~(d.reading < c.reading) /\ ~(c.reading < d.reading)
    BY <1>7 DEF HistoryItems
  <2>2. c.reading = d.reading
    BY <1>2, <2>1
  <2>3. /\ c = [threshold |-> c.threshold, direction |-> c.direction, reading |-> c.reading]
        /\ d = [threshold |-> d.threshold, direction |-> d.direction, reading |-> d.reading]
    BY <1>2
  <2>4. c.direction = d.direction
    BY <1>1
  <2>5. QED
    BY <1>7, <2>2, <2>3, <2>4
<1>8. ASSUME NEW pair \in K
      PROVE  Cardinality(DOMAIN WeekdayItem(items, end, pair[1], pair[2])) = Cardinality(of(pair))
  <2> DEFINE chosen == {c \in items : c.threshold = pair[1] /\ WeekdayOf(PointAt(end, c.reading)) = pair[2]}
             date == [c \in chosen |-> DateOf(PointAt(end, c.reading))]
             dates == {DateOf(PointAt(end, c.reading)) : c \in chosen}
  <2>1. chosen = of(pair)
    <3>1. pair = <<pair[1], pair[2]>>
      OBVIOUS
    <3>2. \A c \in items : key[c] = pair <=>
                             c.threshold = pair[1] /\ WeekdayOf(PointAt(end, c.reading)) = pair[2]
      BY <3>1
    <3> HIDE DEF key
    <3>3. QED
      BY <3>2
  <2>2. DOMAIN WeekdayItem(items, end, pair[1], pair[2]) = dates
    BY DEF WeekdayItem
  <2>3. IsFiniteSet(chosen)
    BY <1>3, FS_Subset
  <2>4. \A c, d \in chosen : date[c] = date[d] => c = d
    BY <1>7
  <2>5. date \in [chosen -> dates] /\ \A x \in dates : \E c \in chosen : date[c] = x
    OBVIOUS
  <2> HIDE DEF chosen, date, dates, of
  <2>6. date \in Injection(chosen, dates) /\ date \in Surjection(chosen, dates)
    BY <2>4, <2>5 DEF Injection, IsInjective, Surjection
  <2>7. Cardinality(dates) = Cardinality(chosen)
    BY <2>3, <2>6, FS_Surjection
  <2>8. QED
    BY <2>1, <2>2, <2>7
<1> HIDE DEF of
<1>9. counts = TimesOf(items, end)
  BY <1>8 DEF TimesOf
<1>10. QED
  BY <1>6, <1>9

\* The falls told of any rows a table may hold are real, and counted once.
LEMMA FallsReal ==
  ASSUME Recorded(rows)
  PROVE  DownCrossingsReal
<1> SUFFICES ASSUME NEW cutoff \in Times, LoadedSince(rows, LotsIn(rows), cutoff) # {}
             PROVE  LET loaded == LoadedSince(rows, LotsIn(rows), cutoff)
                        end == LastAt(loaded)
                        items == HistoryItems(InsightPoints(loaded), end)
                        times(pair) == Cardinality(DOMAIN WeekdayItem(items, end, pair[1], pair[2]))
                    IN /\ \A c \in items :
                            \E r, s \in loaded : /\ r.lot = s.lot /\ r.at < s.at /\ s.free < r.free
                                                /\ PointAt(end, c.reading - 1) < s.at
                       /\ SumFunction([pair \in Thresholds \X (0..6) |-> times(pair)]) = Cardinality(items)
  BY DEF DownCrossingsReal
<1> DEFINE some == {r \in rows : r.lot \in LotsIn(rows) /\ r.at >= cutoff}
           loaded == LoadedSince(rows, LotsIn(rows), cutoff)
           end == LastAt(loaded)
           items == HistoryItems(InsightPoints(loaded), end)
<1>1. some \in SUBSET rows /\ loaded = Shown(some)
  BY DEF LoadedSince
<1> HIDE DEF some, loaded
<1>2. OneEach(loaded) /\ Recorded(loaded) /\ loaded # {}
  BY <1>1, ShownOneEach DEF OneEach, loaded
<1>3. \A c \in items : FellAfter(loaded, PointAt(end, c.reading - 1))
  BY <1>2, CrossingFell
<1>4. Len(InsightPoints(loaded)) = Buckets /\ \A i \in 1..Buckets : PointAt(end, i) \in Int
  <2>1. 1 \in 1..Buckets
    BY SeriesAssumption
  <2>2. QED
    BY <1>2, <2>1, InsightsMean
<1> HIDE DEF end, items
<1>5. items = HistoryItems(InsightPoints(loaded), end) /\ Len(InsightPoints(loaded)) \in Nat
  BY <1>4, SeriesAssumption DEF items
<1>6. SumFunction(TimesOf(items, end)) = Cardinality(items)
  <2> DEFINE points == InsightPoints(loaded)
  <2>1. \A i \in 1..Len(points) : PointAt(end, i) \in Int
    BY <1>4
  <2>2. items = HistoryItems(points, end) /\ Len(points) \in Nat
    BY <1>5
  <2> HIDE DEF points
  <2>3. QED
    BY <2>1, <2>2, FallsCounted
<1>7. QED
  BY <1>3, <1>6, Zenon DEF FellAfter, TimesOf, loaded, end, items

\* Whatever was collected, imported and merged, a fall of the airport below a threshold is
\* a fall of one of its lots, and is counted once.
THEOREM FallsAreReal == Spec => []DownCrossingsReal
<1>1. Spec => []IInv
  BY InitIInv, NextIInv, PTL DEF Spec
<1>2. IInv => DownCrossingsReal
  BY RowsRecorded, FallsReal DEF IInv
<1>3. QED
  BY <1>1, <1>2, PTL
=============================================================================
