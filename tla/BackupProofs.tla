---------------------------- MODULE BackupProofs ----------------------------
(***************************************************************************)
(* Theorems about BackupRequests, for any requests, sizes, limit, number   *)
(* of dumps kept and timeouts.  First what the operators of BackupStore    *)
(* return: the total size of the files is a fold over a set, counted here  *)
(* as the elements of another set, and what room making and retention      *)
(* leave.  Then the listed files as one request at a time changes them     *)
(* (StoreInv), then the lock, the steps and the staging files of requests  *)
(* that arrive together (RequestInv), which change the listed files in no  *)
(* other way.                                                              *)
(***************************************************************************)
EXTENDS BackupRequests, FiniteSetTheorems, WellFoundedInduction, TLAPS

-----------------------------------------------------------------------------
(* The total size of a set of files.                                       *)

\* The files of s are cut into numbered bytes, of which there are Size(s).
Bytes(s) == {b \in s \X Nat : b[2] \in 1..b[1].size}
BytesOf(f) == {f} \X (1..f.size)

NaturalSizes(s) == IsFiniteSet(s) /\ \A f \in s : f.size \in Nat

\* The equation that Size solves: its fold takes one chosen file after the other.
Chosen(t) == CHOOSE f \in t : TRUE
SolvesFold(s, total) ==
  total = [t \in SUBSET s |->
             IF t = {} THEN 0 ELSE Chosen(t).size + total[t \ {Chosen(t)}]]

\* The definition of Size, with a name for the equation in it.
LEMMA SizeSolvesFold ==
  ASSUME NEW s
  PROVE  Store!Size(s) = (CHOOSE total : SolvesFold(s, total))[s]
  BY DEF Store!Size, Store!MapThenSumSet, Store!MapThenFoldSet, SolvesFold, Chosen

\* A nonempty set of natural numbers has a least one.
LEMMA LeastNumber ==
  ASSUME NEW S \in SUBSET Nat, S # {}
  PROVE  \E n \in S : \A m \in S : n <= m
<1>1. PICK n \in S : \A m \in S : ~(<<m, n>> \in OpToRel(<, Nat))
  BY NatLessThanWellFounded, WFMin
<1>2. ASSUME NEW m \in S
      PROVE  n <= m
  <2>1. n \in Nat /\ m \in Nat
    OBVIOUS
  <2>2. ~(m < n)
    BY <1>1, <2>1 DEF OpToRel
  <2>3. QED
    BY <2>1, <2>2
<1>3. QED
  BY <1>2

\* A file has as many bytes as its size says.
LEMMA BytesOfOne ==
  ASSUME NEW f, f.size \in Nat
  PROVE  IsFiniteSet(BytesOf(f)) /\ Cardinality(BytesOf(f)) = f.size
<1>1. IsFiniteSet({f}) /\ Cardinality({f}) = 1
  BY FS_Singleton
<1>2. IsFiniteSet(1..f.size) /\ Cardinality(1..f.size) = f.size
  BY FS_Interval
<1>3. IsFiniteSet(BytesOf(f)) /\ Cardinality(BytesOf(f)) = 1 * f.size
  <2> DEFINE I == 1..f.size
             F == {f}
  <2>1. BytesOf(f) = F \X I
    BY DEF BytesOf
  <2>2. IsFiniteSet(F) /\ IsFiniteSet(I) /\ Cardinality(F) = 1 /\ Cardinality(I) = f.size
    BY <1>1, <1>2
  <2> HIDE DEF F, I
  <2>3. IsFiniteSet(F \X I) /\ Cardinality(F \X I) = Cardinality(F) * Cardinality(I)
    BY ONLY <2>2, FS_Product
  <2>4. QED
    BY ONLY <2>1, <2>2, <2>3
<1>4. QED
  BY <1>3

\* Finitely many files have finitely many bytes.
LEMMA BytesFinite ==
  ASSUME NEW s, NaturalSizes(s)
  PROVE  IsFiniteSet(Bytes(s))
<1> DEFINE cut == [f \in s |-> BytesOf(f)]
           Cuts == {BytesOf(f) : f \in s}
<1>1. cut \in Surjection(s, Cuts)
  BY DEF Surjection
<1>2. IsFiniteSet(Cuts)
  BY <1>1, FS_Surjection DEF NaturalSizes
<1>3. \A T \in Cuts : IsFiniteSet(T)
  BY BytesOfOne DEF NaturalSizes
<1>4. IsFiniteSet(UNION Cuts)
  BY <1>2, <1>3, FS_UNION
<1>5. Bytes(s) \subseteq UNION Cuts
  <2>1. SUFFICES ASSUME NEW b \in Bytes(s)
                 PROVE  b \in BytesOf(b[1]) /\ b[1] \in s
    OBVIOUS
  <2>2. QED
    BY DEF Bytes, BytesOf
<1>6. QED
  BY <1>4, <1>5, FS_Subset

\* One file more is so many bytes more.
LEMMA BytesAdd ==
  ASSUME NEW s, NaturalSizes(s), NEW f \in s
  PROVE  /\ NaturalSizes(s \ {f})
         /\ Cardinality(Bytes(s)) = f.size + Cardinality(Bytes(s \ {f}))
         /\ Cardinality(Bytes(s \ {f})) \in Nat
<1>1. NaturalSizes(s \ {f})
  BY FS_RemoveElement DEF NaturalSizes
<1>2. IsFiniteSet(Bytes(s \ {f})) /\ Cardinality(Bytes(s \ {f})) \in Nat
  BY <1>1, BytesFinite, FS_CardinalityType
<1>3. IsFiniteSet(BytesOf(f)) /\ Cardinality(BytesOf(f)) = f.size /\ f.size \in Nat
  BY BytesOfOne DEF NaturalSizes
<1>4. Bytes(s) = BytesOf(f) \cup Bytes(s \ {f})
  BY <1>3 DEF Bytes, BytesOf
<1>5. BytesOf(f) \cap Bytes(s \ {f}) = {}
  BY DEF Bytes, BytesOf
<1>6. Cardinality(BytesOf(f) \cup Bytes(s \ {f})) =
        Cardinality(BytesOf(f)) + Cardinality(Bytes(s \ {f}))
          - Cardinality(BytesOf(f) \cap Bytes(s \ {f}))
  BY ONLY <1>2, <1>3, FS_Union
<1>7. Cardinality(Bytes(s)) = f.size + Cardinality(Bytes(s \ {f})) - 0
  BY ONLY <1>3, <1>4, <1>5, <1>6, FS_EmptySet
<1>8. QED
  BY ONLY <1>1, <1>2, <1>3, <1>7

\* Size counts bytes: the fold has one solution, whichever order it takes.
LEMMA SizeCountsBytes ==
  ASSUME NEW s, NaturalSizes(s)
  PROVE  Store!Size(s) = Cardinality(Bytes(s))
<1> DEFINE bytes == [t \in SUBSET s |-> Cardinality(Bytes(t))]
<1>1. \A t \in SUBSET s : NaturalSizes(t)
  BY FS_Subset DEF NaturalSizes
<1>2. \A t \in SUBSET s : t # {} => Chosen(t) \in t
  BY DEF Chosen
<1>3. Cardinality(Bytes({})) = 0
  BY FS_EmptySet DEF Bytes
<1>4. SolvesFold(s, bytes)
  <2>1. ASSUME NEW t \in SUBSET s
        PROVE  bytes[t] = IF t = {} THEN 0
                          ELSE Chosen(t).size + bytes[t \ {Chosen(t)}]
    <3>1. CASE t = {}
      BY <1>3, <3>1
    <3>2. CASE t # {}
      BY <1>1, <1>2, <3>2, BytesAdd
    <3>3. QED
      BY <3>1, <3>2
  <2>2. QED
    BY <2>1 DEF SolvesFold
<1>5. ASSUME NEW total, SolvesFold(s, total)
      PROVE  \A t \in SUBSET s : total[t] = Cardinality(Bytes(t))
  <2> DEFINE Wrong == {t \in SUBSET s : total[t] # Cardinality(Bytes(t))}
             Counts == {Cardinality(t) : t \in Wrong}
  <2>1. SUFFICES ASSUME Wrong # {} PROVE FALSE
    OBVIOUS
  <2>2. \A t \in SUBSET s : IsFiniteSet(t) /\ Cardinality(t) \in Nat
    BY <1>1, FS_CardinalityType DEF NaturalSizes
  <2>3. Counts \in SUBSET Nat /\ Counts # {}
    BY <2>1, <2>2
  <2>4. PICK n \in Counts : \A m \in Counts : n <= m
    BY <2>3, LeastNumber
  <2>5. PICK t \in Wrong : n = Cardinality(t)
    BY <2>4
  <2>6. total[t] = IF t = {} THEN 0 ELSE Chosen(t).size + total[t \ {Chosen(t)}]
    BY <1>5 DEF SolvesFold
  <2>7. t # {}
    BY <1>3, <2>5, <2>6
  <2>8. t \ {Chosen(t)} \notin Wrong
    <3>1. Cardinality(t \ {Chosen(t)}) = Cardinality(t) - 1
      BY <1>2, <2>2, <2>7, FS_RemoveElement
    <3>2. Cardinality(t) \in Nat
      BY <2>2
    <3>3. QED
      BY <2>4, <2>5, <3>1, <3>2
  <2>9. total[t \ {Chosen(t)}] = Cardinality(Bytes(t \ {Chosen(t)}))
    BY <2>8
  <2>10. Cardinality(Bytes(t)) = Chosen(t).size + Cardinality(Bytes(t \ {Chosen(t)}))
    BY <1>1, <1>2, <2>7, BytesAdd
  <2>11. QED
    BY <2>5, <2>6, <2>7, <2>9, <2>10
<1>6. SolvesFold(s, CHOOSE total : SolvesFold(s, total))
  BY <1>4
<1>7. QED
  BY <1>5, <1>6, SizeSolvesFold

\* What the arithmetic of sizes comes down to.
LEMMA SizeFacts ==
  ASSUME NEW s, NaturalSizes(s)
  PROVE  /\ Store!Size(s) \in Nat
         /\ \A f : f.size \in Nat /\ f \notin s => Store!Size(s \cup {f}) = Store!Size(s) + f.size
         /\ \A t \in SUBSET s : Store!Size(t) <= Store!Size(s) /\ NaturalSizes(t)
         /\ \A f \in s : f.size <= Store!Size(s)
<1>1. \A t \in SUBSET s : NaturalSizes(t)
  BY FS_Subset DEF NaturalSizes
<1>2. Store!Size(s) \in Nat
  BY SizeCountsBytes, BytesFinite, FS_CardinalityType
<1>3. ASSUME NEW f, f.size \in Nat, f \notin s
      PROVE  Store!Size(s \cup {f}) = Store!Size(s) + f.size
  <2>1. NaturalSizes(s \cup {f})
    BY <1>3, FS_AddElement DEF NaturalSizes
  <2>2. (s \cup {f}) \ {f} = s
    BY <1>3
  <2>3. Cardinality(Bytes(s \cup {f})) = f.size + Cardinality(Bytes(s))
    BY <2>1, <2>2, BytesAdd
  <2>4. Cardinality(Bytes(s)) = Store!Size(s)
    BY SizeCountsBytes
  <2>5. Store!Size(s \cup {f}) = Cardinality(Bytes(s \cup {f}))
    BY <2>1, SizeCountsBytes
  <2>6. QED
    BY <1>2, <1>3, <2>3, <2>4, <2>5
<1>4. ASSUME NEW t \in SUBSET s
      PROVE  Store!Size(t) <= Store!Size(s)
  <2>1. Bytes(t) \in SUBSET Bytes(s)
    BY DEF Bytes
  <2>2. Cardinality(Bytes(t)) <= Cardinality(Bytes(s))
    BY <2>1, BytesFinite, FS_Subset
  <2>3. QED
    BY <1>1, <2>2, SizeCountsBytes
<1>5. ASSUME NEW f \in s
      PROVE  f.size <= Store!Size(s)
  <2>1. Cardinality(Bytes(s)) = f.size + Cardinality(Bytes(s \ {f}))
        /\ Cardinality(Bytes(s \ {f})) \in Nat
    BY BytesAdd
  <2>2. Store!Size(s) = Cardinality(Bytes(s)) /\ f.size \in Nat
    BY SizeCountsBytes DEF NaturalSizes
  <2>3. QED
    BY <2>1, <2>2
<1>6. QED
  BY <1>1, <1>2, <1>3, <1>4, <1>5
-----------------------------------------------------------------------------
(* What the deletions of a request leave.                                  *)

\* A listing of the directory that may be shown: one file to an id, no id above
\* the last one given, and no more bytes than the limit.
Catalog(s, last) ==
  /\ s \subseteq Store!File
  /\ IsFiniteSet(s)
  /\ \A f, g \in s : f.id = g.id => f = g
  /\ \A f \in s : f.id <= last
  /\ Store!Size(s) <= StorageLimit

USE SizesAssumption, LimitAssumption, RetentionAssumption, DumpsAssumption

\* The id and the size of a file are natural numbers, the id not 0.
LEMMA FileFacts ==
  ASSUME NEW f \in Store!File
  PROVE  f.id \in 1..MaxDumps /\ f.id \in Nat /\ f.id > 0 /\ f.size \in Sizes /\ f.size \in Nat
<1>1. f.id \in 1..MaxDumps /\ f.size \in Sizes
  BY DEF Store!File
<1>2. \A n \in 1..MaxDumps : n \in Nat /\ n > 0
  OBVIOUS
<1>3. f.size \in Nat
  BY <1>1
<1>4. QED
  BY <1>1, <1>2, <1>3

\* Size is defined on a catalog.
LEMMA CatalogSizes ==
  ASSUME NEW s, NEW last, Catalog(s, last)
  PROVE  NaturalSizes(s)
  BY FileFacts DEF Catalog, NaturalSizes

\* An empty directory is a catalog.
LEMMA EmptyCatalog == Catalog({}, 0)
<1>1. NaturalSizes({}) /\ Bytes({}) = {}
  BY FS_EmptySet DEF NaturalSizes, Bytes
<1>2. Store!Size({}) = 0
  BY <1>1, SizeCountsBytes, FS_EmptySet
<1>3. QED
  BY <1>2, FS_EmptySet DEF Catalog

\* Deleting keeps a catalog one, and so does giving out more ids.
LEMMA CatalogSubset ==
  ASSUME NEW last \in Nat, NEW later \in Nat, last <= later,
         NEW s, Catalog(s, last), NEW t \in SUBSET s
  PROVE  Catalog(t, later)
<1>1. NaturalSizes(s)
  BY CatalogSizes
<1>2. Store!Size(t) <= Store!Size(s) /\ NaturalSizes(t)
  BY <1>1, SizeFacts
<1>3. Store!Size(t) \in Nat /\ Store!Size(s) \in Nat
  BY <1>1, <1>2, SizeFacts
<1>4. Store!Size(t) <= StorageLimit
  BY <1>2, <1>3 DEF Catalog
<1>5. \A f \in t : f.id <= later
  BY FileFacts DEF Catalog
<1>6. IsFiniteSet(t)
  BY <1>2 DEF NaturalSizes
<1>7. QED
  BY <1>4, <1>5, <1>6 DEF Catalog

\* A new file that fits keeps it one.
LEMMA CatalogAdd ==
  ASSUME NEW last \in Nat, NEW s, Catalog(s, last),
         NEW f \in Store!File, \A g \in s : g.id < f.id,
         Store!Size(s) + f.size <= StorageLimit
  PROVE  Catalog(s \cup {f}, f.id)
<1>1. f \notin s
  BY FileFacts
<1>2. IsFiniteSet(s \cup {f})
  BY FS_AddElement DEF Catalog
<1>3. Store!Size(s \cup {f}) <= StorageLimit
  BY <1>1, CatalogSizes, SizeFacts, FileFacts
<1>4. \A g \in s \cup {f} : g.id <= f.id
  BY FileFacts DEF Catalog
<1>5. \A g, h \in s \cup {f} : g.id = h.id => g = h
  BY FileFacts DEF Catalog
<1>6. QED
  BY <1>2, <1>3, <1>4, <1>5 DEF Catalog

\* Min of a nonempty set of natural numbers is in it.
LEMMA MinIsLeast ==
  ASSUME NEW S \in SUBSET Nat, S # {}
  PROVE  Store!Min(S) \in S
  BY LeastNumber DEF Store!Min

\* MakeRoom deletes what it has to and nothing that is protected; where there is
\* room already it deletes nothing.
LEMMA RoomFacts ==
  ASSUME NEW last \in Nat, NEW s, Catalog(s, last), NEW ids, NEW incoming \in Nat,
         Store!HasRoom(s, ids, incoming)
  PROVE  /\ Store!MakeRoom(s, ids, incoming) \in SUBSET s
         /\ Store!Size(Store!MakeRoom(s, ids, incoming)) + incoming <= StorageLimit
         /\ \A f \in s : f.id \in ids => f \in Store!MakeRoom(s, ids, incoming)
<1> DEFINE enough == Store!Enough(s, ids, incoming)
<1>1. enough \in SUBSET Nat /\ enough # {}
  BY DEF Store!HasRoom, Store!Enough
<1>2. Store!Min(enough) \in enough
  BY <1>1, MinIsLeast
<1>3. Store!Size(Store!MakeRoom(s, ids, incoming)) + incoming <= StorageLimit
  BY <1>2 DEF Store!Enough, Store!MakeRoom
<1>4. QED
  BY <1>3 DEF Store!MakeRoom, Store!Newer

\* Where the limit is kept already MakeRoom has nothing to do.
LEMMA RoomAlready ==
  ASSUME NEW last \in Nat, NEW s, Catalog(s, last), NEW ids
  PROVE  Store!HasRoom(s, ids, 0) /\ Store!MakeRoom(s, ids, 0) = s
<1> DEFINE enough == Store!Enough(s, ids, 0)
<1>1. Store!Newer(s, ids, 0) = s
  BY FileFacts DEF Store!Newer, Catalog
<1>2. Store!Size(s) + 0 <= StorageLimit
  BY CatalogSizes, SizeFacts DEF Catalog
<1>3. 0 \in enough /\ enough \in SUBSET Nat
  BY <1>1, <1>2 DEF Store!Enough
<1>4. Store!Min(enough) = 0
  <2>1. Store!Min(enough) \in enough /\ \A n \in enough : Store!Min(enough) <= n
    BY <1>3, LeastNumber DEF Store!Min
  <2>2. QED
    BY <1>3, <2>1
<1>5. QED
  BY <1>1, <1>3, <1>4 DEF Store!HasRoom, Store!MakeRoom

\* The name of the file that was put in place last.
LEMMA NewestIs ==
  ASSUME NEW last \in Nat, NEW s, Catalog(s, last), NEW f \in s, f.id = last
  PROVE  Store!Max(Store!Ids(s)) = last
<1>1. last \in Store!Ids(s) /\ \A n \in Store!Ids(s) : last >= n /\ n \in Nat
  BY FileFacts DEF Store!Ids, Catalog
<1>2. \A n \in Store!Ids(s) : (\A m \in Store!Ids(s) : n >= m) => n = last
  BY <1>1
<1>3. QED
  BY <1>1, <1>2 DEF Store!Max

\* BackupStore counts as everybody does.
LEMMA SameCardinality == \A s : Store!Cardinality(s) = Cardinality(s)
  BY DEF Store!Cardinality, Cardinality

\* Retention leaves no more files than it says.
LEMMA PruneFacts ==
  ASSUME NEW last \in Nat, NEW s, Catalog(s, last), retention \in Nat
  PROVE  /\ Store!Prune(s) \in SUBSET s
         /\ IsFiniteSet(Store!Prune(s))
         /\ Cardinality(Store!Prune(s)) <= retention
<1> DEFINE rest == Store!Prune(s)
           Ahead(f) == {g \in s : g.id > f.id}
<1>1. rest \in SUBSET s
  BY DEF Store!Prune
<1>2. IsFiniteSet(s) /\ IsFiniteSet(rest) /\ Cardinality(rest) \in Nat
  BY <1>1, FS_Subset, FS_CardinalityType DEF Catalog
<1>3. Cardinality(rest) <= retention
  <2>1. CASE rest = {}
    BY <2>1, FS_EmptySet
  <2>2. CASE rest # {}
    <3>1. Store!Ids(rest) \in SUBSET Nat /\ Store!Ids(rest) # {}
      BY <1>1, <2>2, FileFacts DEF Store!Ids, Catalog
    <3>2. PICK oldest \in rest : \A g \in rest : oldest.id <= g.id
      <4>1. PICK n \in Store!Ids(rest) : \A m \in Store!Ids(rest) : n <= m
        BY <3>1, LeastNumber
      <4>2. QED
        BY <4>1 DEF Store!Ids
    <3>3. rest \ {oldest} \in SUBSET Ahead(oldest)
      <4>1. ASSUME NEW g \in rest, g # oldest
            PROVE  g \in s /\ g.id > oldest.id
        BY <1>1, <3>2, <4>1, FileFacts DEF Catalog
      <4>2. QED
        BY <4>1
    <3>4. IsFiniteSet(Ahead(oldest)) /\ Cardinality(Ahead(oldest)) \in Nat
      <4>1. Ahead(oldest) \in SUBSET s
        OBVIOUS
      <4>2. QED
        BY <1>2, <4>1, FS_Subset, FS_CardinalityType
    <3>5. Cardinality(rest \ {oldest}) <= Cardinality(Ahead(oldest))
      BY <3>3, <3>4, FS_Subset
    <3>6. Cardinality(rest \ {oldest}) = Cardinality(rest) - 1
      BY <1>2, FS_RemoveElement
    <3>7. Cardinality(Ahead(oldest)) < retention
      BY <3>2, SameCardinality DEF Store!Prune
    <3>8. QED
      BY <1>2, <3>4, <3>5, <3>6, <3>7
  <2>3. QED
    BY <2>1, <2>2
<1>4. QED
  BY <1>1, <1>2, <1>3
-----------------------------------------------------------------------------
(* The listed files, one request at a time: what is called pc, stage, kept *)
(* and upload there.                                                       *)

At == IF Working = {} THEN "idle" ELSE Phase[step[Current]]
Stage == OfCurrent(temp, NoDump)
Keep == OfCurrent(kept, 0)
Stored == OfCurrent(uploaded, 0)
Restoring == Working \cap restores # {}

StoreTyped ==
  /\ retention \in Retentions
  /\ made \in 0..MaxDumps
  /\ Stage \in Store!File \cup {NoDump}
  /\ At \in {"idle", "dump", "dumped", "renamed", "upload", "uploaded", "restore"}
  /\ Keep \in 0..MaxDumps /\ Stored \in 0..MaxDumps
  /\ before \in SUBSET Store!File
  /\ crashed \in BOOLEAN

\* What has been received is the youngest file; what a restore has put in place
\* stays, and is two files once it has stored its upload.
StageInv ==
  /\ At \in {"dumped", "uploaded"} =>
       Stage \in Store!File /\ Stage.id = made /\ \A f \in files : f.id < made
  /\ At = "renamed" => \E f \in files : f.id = made
  /\ At \in {"idle", "dump", "dumped", "renamed"} => Keep = 0
  /\ At \in {"upload", "uploaded", "restore"} => Keep \in Store!Ids(files)
  /\ At # "restore" => Stored = 0
  /\ At = "restore" => Stored = made /\ Keep # Stored

\* The files that will still be there when the request under way has failed.
Lasting ==
  IF At \in {"renamed", "restore"} THEN Store!Without(files, {made}) ELSE files

LastingInv == ~crashed => Cardinality(Lasting) <= retention

NoneLostYet == At \in {"dump", "dumped"} => before = files

StoreInv == StoreTyped /\ Catalog(files, made) /\ StageInv /\ LastingInv /\ NoneLostYet

\* Whatever the request, files that are no more than those that last are no more
\* than retention allows.
LEMMA FewerLast ==
  ASSUME StoreInv, ~crashed, NEW s \in SUBSET Lasting
  PROVE  Cardinality(s) <= retention
<1>1. Lasting \in SUBSET files
  BY DEF Lasting, Store!Without
<1>2. IsFiniteSet(Lasting) /\ IsFiniteSet(files)
  BY <1>1, FS_Subset DEF StoreInv, Catalog
<1>3. Cardinality(s) <= Cardinality(Lasting) /\ IsFiniteSet(s)
  BY <1>2, FS_Subset
<1>4. Cardinality(s) \in Nat /\ Cardinality(Lasting) \in Nat
  BY <1>2, <1>3, FS_CardinalityType
<1>5. retention \in Nat
  BY DEF StoreInv, StoreTyped
<1>6. Cardinality(Lasting) <= retention
  BY DEF StoreInv, LastingInv
<1>7. QED
  BY <1>3, <1>4, <1>5, <1>6

\* A request ends, and its upload is removed.
LEMMA EndKeepsStoreInv ==
  ASSUME StoreInv, NEW s \in SUBSET files, Store!End(s),
         ~crashed => Cardinality(Store!Without(s, {Stored})) <= retention
  PROVE  StoreInv'
<1>1. /\ files' = Store!Without(s, {Stored})
      /\ Stage' = NoDump /\ At' = "idle" /\ Keep' = 0 /\ Stored' = 0
      /\ before' = {} /\ UNCHANGED <<retention, made, crashed>>
  BY DEF Store!End, Store!NoFile, At, Stage, Keep, Stored, OfCurrent, NoDump
<1>2. StoreTyped'
  BY <1>1 DEF StoreInv, StoreTyped
<1>3. Catalog(files, made)'
  <2>1. files' \in SUBSET files /\ made \in Nat
    BY <1>1 DEF Store!Without, StoreInv, StoreTyped
  <2>2. Catalog(files', made)
    BY <2>1, CatalogSubset DEF StoreInv
  <2>3. QED
    BY <1>1, <2>2
<1>4. StageInv'
  BY <1>1 DEF StageInv
<1>5. LastingInv'
  BY <1>1 DEF LastingInv, Lasting
<1>6. NoneLostYet'
  BY <1>1 DEF NoneLostYet
<1>7. QED
  BY <1>2, <1>3, <1>4, <1>5, <1>6 DEF StoreInv

\* A request begins: the limit is kept already, so nothing is deleted for it.
LEMMA BeginKeepsStoreInv ==
  ASSUME StoreInv, NEW isRestore, Store!Begin(isRestore)
  PROVE  StoreInv' /\ files' = files
<1>1. /\ At = "idle" /\ At' = "dump"
      /\ files' = Store!MakeRoom(files, {}, 0) /\ before' = files
      /\ Stage' = Stage /\ Keep' = Keep /\ Stored' = Stored
      /\ UNCHANGED <<retention, made, crashed>>
  BY DEF Store!Begin, At, Stage, Keep, Stored, OfCurrent, NoDump
<1>2. made \in Nat
  BY DEF StoreInv, StoreTyped
<1>3. files' = files
  BY <1>1, <1>2, RoomAlready DEF StoreInv
<1>4. StoreTyped'
  BY <1>1 DEF StoreInv, StoreTyped, Catalog
<1>5. StageInv'
  BY <1>1 DEF StoreInv, StageInv
<1>6. LastingInv'
  BY <1>1, <1>3 DEF StoreInv, LastingInv, Lasting
<1>7. NoneLostYet'
  BY <1>1, <1>3 DEF NoneLostYet
<1>8. QED
  BY <1>1, <1>3, <1>4, <1>5, <1>6, <1>7 DEF StoreInv

\* A dump or an upload is written; it is younger than every listed file.
LEMMA WrittenKeepsStoreInv ==
  ASSUME StoreInv, NEW size \in Sizes, NEW from, NEW to,
         <<from, to>> \in {<<"dump", "dumped">>, <<"upload", "uploaded">>},
         Store!Written(size, from, to)
  PROVE  StoreInv'
<1>1. /\ At = from /\ At' = to /\ made < MaxDumps
      /\ Stage' = [id |-> made + 1, size |-> size] /\ made' = made + 1
      /\ Keep' = Keep /\ Stored' = Stored
      /\ UNCHANGED <<retention, files, before, crashed>>
  BY DEF Store!Written, At, Stage, Keep, Stored, OfCurrent, NoDump
<1>2. made \in Nat /\ made' \in Nat /\ made' \in 0..MaxDumps /\ made' \in 1..MaxDumps
  BY <1>1 DEF StoreInv, StoreTyped
<1>3. Stage' \in Store!File /\ Stage'.id = made'
  BY <1>1, <1>2 DEF Store!File
<1>4. StoreTyped'
  BY <1>1, <1>2, <1>3 DEF StoreInv, StoreTyped
<1>5. Catalog(files, made)'
  <2>1. Catalog(files, made + 1)
    BY <1>1, <1>2, CatalogSubset DEF StoreInv
  <2>2. QED
    BY <1>1, <2>1
<1>6. \A f \in files : f.id < made + 1
  BY <1>2, FileFacts DEF StoreInv, Catalog
<1>7. StageInv'
  <2>1. CASE from = "dump" /\ to = "dumped"
    BY <1>1, <1>3, <1>6, <2>1 DEF StoreInv, StageInv
  <2>2. CASE from = "upload" /\ to = "uploaded"
    BY <1>1, <1>3, <1>6, <2>2 DEF StoreInv, StageInv
  <2>3. QED
    BY <2>1, <2>2
<1>8. LastingInv'
  BY <1>1 DEF StoreInv, LastingInv, Lasting
<1>9. NoneLostYet'
  BY <1>1 DEF StoreInv, NoneLostYet
<1>10. QED
  BY <1>4, <1>5, <1>7, <1>8, <1>9 DEF StoreInv

\* A file is put in place after room was made for it, so the catalog stays one and
\* what lasts is part of what was there.
LEMMA PutFacts ==
  ASSUME StoreInv, At \in {"dumped", "uploaded"}, NEW ids,
         Store!HasRoom(files, ids, Stage.size),
         files' = Store!MakeRoom(files, ids, Stage.size) \cup {Stage},
         UNCHANGED made
  PROVE  /\ Catalog(files, made)'
         /\ Stage \in files' /\ Stage.id = made
         /\ \A f \in files : f.id \in ids => f \in files'
         /\ Store!Without(files', {made}) \in SUBSET files
<1> DEFINE room == Store!MakeRoom(files, ids, Stage.size)
<1>1. Stage \in Store!File /\ Stage.id = made /\ \A f \in files : f.id < made
  BY DEF StoreInv, StageInv
<1>2. made \in Nat /\ Stage.size \in Nat /\ Catalog(files, made)
  BY <1>1, FileFacts DEF StoreInv, StoreTyped
<1>3. /\ room \in SUBSET files
      /\ Store!Size(room) + Stage.size <= StorageLimit
      /\ \A f \in files : f.id \in ids => f \in room
  BY <1>2, RoomFacts
<1>4. Catalog(room, made)
  BY <1>2, <1>3, CatalogSubset
<1>5. Catalog(room \cup {Stage}, Stage.id)
  BY <1>1, <1>2, <1>3, <1>4, CatalogAdd
<1>6. Catalog(files, made)'
  BY <1>1, <1>5
<1>7. Store!Without(files', {made}) \in SUBSET files
  BY <1>1, <1>3 DEF Store!Without
<1>8. QED
  BY <1>1, <1>3, <1>6, <1>7

\* The dump is put in place, and would go again if the request failed now.
LEMMA RenameKeepsStoreInv ==
  ASSUME StoreInv, Store!Rename
  PROVE  StoreInv'
<1>1. /\ At = "dumped" /\ At' = "renamed"
      /\ Store!HasRoom(files, {}, Stage.size)
      /\ files' = Store!MakeRoom(files, {}, Stage.size) \cup {Stage}
      /\ Stage' = NoDump /\ Keep' = Keep /\ Stored' = Stored
      /\ UNCHANGED <<retention, made, before, crashed>>
  BY DEF Store!Rename, Store!NoFile, At, Stage, Keep, Stored, OfCurrent, NoDump
<1>2. /\ Catalog(files, made)'
      /\ Stage \in files' /\ Stage.id = made
      /\ Store!Without(files', {made}) \in SUBSET files
  BY <1>1, PutFacts
<1>3. StoreTyped'
  BY <1>1 DEF StoreInv, StoreTyped
<1>4. StageInv'
  BY <1>1, <1>2 DEF StoreInv, StageInv
<1>5. LastingInv'
  <2>1. Lasting' \in SUBSET Lasting
    BY <1>1, <1>2 DEF Lasting
  <2>2. QED
    BY <1>1, <2>1, FewerLast DEF LastingInv
<1>6. NoneLostYet'
  BY <1>1 DEF NoneLostYet
<1>7. QED
  BY <1>2, <1>3, <1>4, <1>5, <1>6 DEF StoreInv

\* The upload is put in place beside the pre-restore dump, which is spared.
LEMMA StoreUploadKeepsStoreInv ==
  ASSUME StoreInv, Store!StoreUpload
  PROVE  StoreInv' /\ Keep' = Keep
<1>1. /\ At = "uploaded" /\ At' = "restore"
      /\ Store!HasRoom(files, {Keep}, Stage.size)
      /\ files' = Store!MakeRoom(files, {Keep}, Stage.size) \cup {Stage}
      /\ Stage' = NoDump /\ Keep' = Keep /\ Stored' = Stage.id
      /\ UNCHANGED <<retention, made, before, crashed>>
  BY DEF Store!StoreUpload, Store!NoFile, At, Stage, Keep, Stored, OfCurrent, NoDump
<1>2. /\ Catalog(files, made)'
      /\ Stage \in files' /\ Stage.id = made
      /\ \A f \in files : f.id \in {Keep} => f \in files'
      /\ Store!Without(files', {made}) \in SUBSET files
  BY <1>1, PutFacts
<1>3. StoreTyped'
  BY <1>1, <1>2 DEF StoreInv, StoreTyped
<1>4. Keep \in Store!Ids(files) /\ Keep \in Store!Ids(files') /\ Keep # made
  <2>1. PICK f \in files : f.id = Keep
    BY <1>1 DEF StoreInv, StageInv, Store!Ids
  <2>2. f.id < made /\ f.id \in Nat /\ made \in Nat
    BY <1>1, <2>1, FileFacts DEF StoreInv, StoreTyped, StageInv, Catalog
  <2>3. f \in files'
    BY <1>2, <2>1
  <2>4. QED
    BY <2>1, <2>2, <2>3 DEF Store!Ids
<1>5. StageInv'
  BY <1>1, <1>2, <1>4 DEF StageInv
<1>6. LastingInv'
  <2>1. Lasting' \in SUBSET Lasting
    BY <1>1, <1>2 DEF Lasting
  <2>2. QED
    BY <1>1, <2>1, FewerLast DEF LastingInv
<1>7. NoneLostYet'
  BY <1>1 DEF NoneLostYet
<1>8. QED
  BY <1>1, <1>2, <1>3, <1>5, <1>6, <1>7 DEF StoreInv

\* Retention may take the new dump as well; then the request ends.
LEMMA FinishKeepsStoreInv ==
  ASSUME StoreInv, Store!Finish
  PROVE  StoreInv'
<1> DEFINE new == Store!Max(Store!Ids(files))
           rest == Store!MakeRoom(Store!Prune(files), {new}, 0)
<1>1. /\ At = "renamed"
      /\ \/ /\ new \in Store!Ids(rest)
            /\ files' = rest /\ Keep' = new /\ At' = "upload"
            /\ Stage' = Stage /\ Stored' = Stored
            /\ UNCHANGED <<retention, made, before, crashed>>
         \/ Store!End(rest)
  BY DEF Store!Finish, At, Stage, Keep, Stored, OfCurrent
<1>2. retention \in Nat /\ made \in Nat /\ Catalog(files, made)
  BY DEF StoreInv, StoreTyped
<1>3. /\ Store!Prune(files) \in SUBSET files
      /\ IsFiniteSet(Store!Prune(files))
      /\ Cardinality(Store!Prune(files)) <= retention
      /\ Cardinality(Store!Prune(files)) \in Nat
  BY <1>2, PruneFacts, FS_CardinalityType
<1>4. Catalog(Store!Prune(files), made)
  BY <1>2, <1>3, CatalogSubset
<1>5. rest = Store!Prune(files)
  BY <1>2, <1>4, RoomAlready
<1>6. new = made
  BY <1>1, <1>2, NewestIs DEF StoreInv, StageInv
<1>7. ASSUME new \in Store!Ids(rest), files' = rest, Keep' = new, At' = "upload",
             Stage' = Stage, Stored' = Stored,
             UNCHANGED <<retention, made, before, crashed>>
      PROVE  StoreInv'
  <2>1. StoreTyped'
    BY <1>6, <1>7 DEF StoreInv, StoreTyped
  <2>2. Catalog(files, made)'
    BY <1>4, <1>5, <1>7
  <2>3. StageInv'
    BY <1>1, <1>7 DEF StoreInv, StageInv
  <2>4. LastingInv'
    BY <1>3, <1>5, <1>7 DEF LastingInv, Lasting
  <2>5. NoneLostYet'
    BY <1>7 DEF NoneLostYet
  <2>6. QED
    BY <2>1, <2>2, <2>3, <2>4, <2>5 DEF StoreInv
<1>8. ASSUME Store!End(rest)
      PROVE  StoreInv'
  <2>1. Store!Without(rest, {Stored}) \in SUBSET Store!Prune(files)
    BY <1>5 DEF Store!Without
  <2>2. /\ Cardinality(Store!Without(rest, {Stored})) <= Cardinality(Store!Prune(files))
        /\ Cardinality(Store!Without(rest, {Stored})) \in Nat
    BY <1>3, <2>1, FS_Subset, FS_CardinalityType
  <2>3. Cardinality(Store!Without(rest, {Stored})) <= retention
    BY <1>2, <1>3, <2>2
  <2>4. rest \in SUBSET files
    BY <1>3, <1>5
  <2>5. QED
    BY <1>8, <2>3, <2>4, EndKeepsStoreInv
<1>9. QED
  BY <1>1, <1>7, <1>8

\* pg_restore is over: what lasts is left.
LEMMA RestoredKeepsStoreInv ==
  ASSUME StoreInv, Store!Restored
  PROVE  StoreInv'
<1>1. At = "restore" /\ Store!End(files)
  BY DEF Store!Restored, At
<1>2. Store!Without(files, {Stored}) \in SUBSET Lasting
  BY <1>1 DEF StoreInv, StageInv, Lasting
<1>3. QED
  BY <1>1, <1>2, FewerLast, EndKeepsStoreInv

\* A failure leaves what lasts.
LEMMA FailKeepsStoreInv ==
  ASSUME StoreInv, Store!Fail
  PROVE  StoreInv'
<1> DEFINE rest == IF At = "renamed" THEN Store!Without(files, {Store!Max(Store!Ids(files))})
                   ELSE files
<1>1. Store!End(rest)
  BY DEF Store!Fail, At
<1>2. rest \in SUBSET files
  BY DEF Store!Without
<1>3. Store!Without(rest, {Stored}) \in SUBSET Lasting
  <2>1. CASE At = "renamed"
    <3>1. Store!Max(Store!Ids(files)) = made
      BY <2>1, NewestIs DEF StoreInv, StoreTyped, StageInv
    <3>2. QED
      BY <2>1, <3>1 DEF Lasting, Store!Without
  <2>2. CASE At = "restore"
    BY <2>2 DEF StoreInv, StageInv, Lasting
  <2>3. CASE At \notin {"renamed", "restore"}
    BY <2>3 DEF Lasting, Store!Without
  <2>4. QED
    BY <2>1, <2>2, <2>3
<1>4. QED
  BY <1>1, <1>2, <1>3, FewerLast, EndKeepsStoreInv

\* A crash leaves every listed file.
LEMMA CrashKeepsStoreInv ==
  ASSUME StoreInv, Store!Crash
  PROVE  StoreInv'
<1>1. /\ At' = "idle" /\ Stage' = NoDump /\ Keep' = 0 /\ Stored' = 0
      /\ before' = {} /\ crashed' = TRUE
      /\ UNCHANGED <<retention, files, made>>
  BY DEF Store!Crash, Store!NoFile, At, Stage, Keep, Stored, OfCurrent, NoDump
<1>2. StoreTyped' /\ Catalog(files, made)'
  BY <1>1 DEF StoreInv, StoreTyped
<1>3. StageInv' /\ LastingInv' /\ NoneLostYet'
  BY <1>1 DEF StageInv, LastingInv, NoneLostYet
<1>4. QED
  BY <1>2, <1>3 DEF StoreInv

\* Every step of BackupStore keeps StoreInv.
LEMMA StoreNextKeepsStoreInv ==
  ASSUME StoreInv, [Store!Next]_(Store!vars)
  PROVE  StoreInv'
<1>1. CASE UNCHANGED Store!vars
  <2>1. /\ UNCHANGED <<retention, files, made, before, crashed>>
        /\ At' = At /\ Stage' = Stage /\ Keep' = Keep /\ Stored' = Stored
    BY <1>1 DEF Store!vars, At, Stage, Keep, Stored
  <2>2. Lasting' = Lasting
    BY <2>1 DEF Lasting
  <2>3. StoreTyped' /\ Catalog(files, made)' /\ LastingInv' /\ NoneLostYet'
    BY <2>1, <2>2 DEF StoreInv, StoreTyped, LastingInv, NoneLostYet
  <2>4. StageInv'
    BY <2>1 DEF StoreInv, StageInv
  <2>5. QED
    BY <2>3, <2>4 DEF StoreInv
<1>2. ASSUME NEW isRestore, Store!Begin(isRestore)
      PROVE  StoreInv'
  BY <1>2, BeginKeepsStoreInv
<1>3. ASSUME NEW size \in Sizes, Store!Dumped(size) \/ Store!Uploaded(size)
      PROVE  StoreInv'
  BY <1>3, WrittenKeepsStoreInv DEF Store!Dumped, Store!Uploaded
<1>4. QED
  BY <1>1, <1>2, <1>3, RenameKeepsStoreInv, FinishKeepsStoreInv,
     StoreUploadKeepsStoreInv, RestoredKeepsStoreInv, FailKeepsStoreInv,
     CrashKeepsStoreInv
  DEF Store!Next

\* What a step may do to the files in view of the request under way.
LEMMA StoreNextKeepsDumps ==
  ASSUME StoreInv, [Store!Next]_(Store!vars)
  PROVE  /\ Keep # 0 => Keep \in Store!Ids(files')
         /\ At = "restore" => Keep \in Store!Ids(files)
         /\ At' = "idle" /\ At \in {"dump", "dumped"} => files' = before
<1> SUFFICES /\ Keep # 0 => Keep \in Store!Ids(files')
             /\ At' = "idle" /\ At \in {"dump", "dumped"} => files' = files
  BY DEF StoreInv, NoneLostYet, StageInv
<1>1. Keep # 0 => Keep \in Store!Ids(files) /\ At \in {"upload", "uploaded", "restore"}
  BY DEF StoreInv, StoreTyped, StageInv
<1>2. ASSUME UNCHANGED files
      PROVE  /\ Keep # 0 => Keep \in Store!Ids(files')
             /\ At' = "idle" /\ At \in {"dump", "dumped"} => files' = files
  BY <1>1, <1>2
<1>3. ASSUME NEW isRestore, Store!Begin(isRestore)
      PROVE  files' = files
  BY <1>3, BeginKeepsStoreInv
<1>4. ASSUME NEW size \in Sizes, Store!Dumped(size) \/ Store!Uploaded(size)
      PROVE  files' = files
  BY <1>4 DEF Store!Dumped, Store!Uploaded, Store!Written
<1>5. ASSUME Store!Rename \/ Store!Finish
      PROVE  Keep = 0 /\ ~(At' = "idle" /\ At \in {"dump", "dumped"})
  BY <1>5 DEF Store!Rename, Store!Finish, At, StoreInv, StageInv
<1>6. ASSUME Store!StoreUpload
      PROVE  /\ Keep \in Store!Ids(files')
             /\ At \notin {"dump", "dumped"}
  <2>1. At = "uploaded" /\ At' = "restore"
    BY <1>6 DEF Store!StoreUpload, At
  <2>2. StoreInv' /\ Keep' = Keep
    BY <1>6, StoreUploadKeepsStoreInv
  <2>3. QED
    BY <2>1, <2>2 DEF StoreInv, StageInv
<1>7. ASSUME Store!Restored
      PROVE  Keep \in Store!Ids(files') /\ At \notin {"dump", "dumped"}
  <2>1. At = "restore" /\ files' = Store!Without(files, {Stored})
    BY <1>7 DEF Store!Restored, Store!End, At, Stored
  <2>2. Keep \in Store!Ids(files) /\ Keep # Stored
    BY <2>1 DEF StoreInv, StageInv
  <2>3. QED
    BY <2>1, <2>2 DEF Store!Ids, Store!Without
<1>8. ASSUME Store!Fail
      PROVE  /\ Keep # 0 => Keep \in Store!Ids(files')
             /\ At' = "idle" /\ At \in {"dump", "dumped"} => files' = files
  <2>1. CASE At = "renamed"
    BY <2>1 DEF StoreInv, StageInv
  <2>2. CASE At # "renamed"
    <3>1. files' = Store!Without(files, {Stored})
      BY <1>8, <2>2 DEF Store!Fail, Store!End, At, Stored
    <3>2. CASE At = "restore"
      BY <3>1, <3>2, <1>1 DEF StoreInv, StageInv, Store!Ids, Store!Without
    <3>3. CASE At # "restore"
      <4>1. \A f \in files : f.id # Stored
        BY <3>3, FileFacts DEF StoreInv, StageInv, Catalog
      <4>2. files' = files
        BY <3>1, <4>1 DEF Store!Without
      <4>3. QED
        BY <1>1, <4>2
    <3>4. QED
      BY <3>2, <3>3
  <2>3. QED
    BY <2>1, <2>2
<1>9. ASSUME Store!Crash \/ UNCHANGED Store!vars
      PROVE  files' = files
  BY <1>9 DEF Store!Crash, Store!vars
<1>10. QED
  BY <1>2, <1>3, <1>4, <1>5, <1>6, <1>7, <1>8, <1>9 DEF Store!Next
-----------------------------------------------------------------------------
(* The requests: the lock, their steps and their staging files.            *)

RequestsTyped ==
  /\ queue \in Seq(Requests)
  /\ step \in [Requests -> {"idle", "queued"} \cup DOMAIN Phase]
  /\ restores \in SUBSET Requests
  /\ temp \in [Requests -> Store!File \cup {NoDump}]
  /\ staged \in [Requests -> Ages \cup {Gone}]
  /\ leftover \in SUBSET Ages
  /\ kept \in [Requests -> 0..MaxDumps]
  /\ uploaded \in [Requests -> 0..MaxDumps]

\* What operation_lock means: those in its queue are those under way, once each,
\* and only the first of them has begun.
TurnInv ==
  /\ \A i, j \in 1..Len(queue) : queue[i] = queue[j] => i = j
  /\ \A r \in Requests : step[r] # "idle" <=> \E i \in 1..Len(queue) : queue[i] = r
  /\ \A r \in Requests : step[r] \notin {"idle", "queued"} => HoldsLock(r)

\* Who has not begun has made nothing.
BlankInv ==
  /\ \A r \in Requests : step[r] \in {"idle", "queued"} =>
       temp[r] = NoDump /\ kept[r] = 0 /\ uploaded[r] = 0
  /\ Working = {} => before = {}

\* The staging file of who still writes it is there, and no older than the timeout
\* of the write.
WriteInv ==
  \A r \in Requests :
    step[r] \in {"dumping", "dumped", "uploading", "uploaded"} => staged[r] \in 0..WriteTimeout

RequestInv == RequestsTyped /\ TurnInv /\ BlankInv /\ WriteInv

IndInv == StoreInv /\ RequestInv

USE TimeoutAssumption

\* The one that has begun is the one that is seen as the request under way.
LEMMA AtTurn ==
  ASSUME TurnInv, NEW r \in Requests, HoldsLock(r)
  PROVE  Working \subseteq {r}
  BY DEF TurnInv, Working, HoldsLock

\* What is seen of the directory is what the request at its turn has.
LEMMA SeenAtTurn ==
  ASSUME NEW r, Working = {r}
  PROVE  /\ At = Phase[step[r]] /\ Stage = temp[r]
         /\ Keep = kept[r] /\ Stored = uploaded[r]
         /\ Restoring <=> r \in restores
<1>1. Current = r
  BY DEF Current
<1>2. QED
  BY <1>1 DEF At, Stage, Keep, Stored, Restoring, OfCurrent

\* Nothing is seen when no request has begun.
LEMMA SeenAtRest ==
  ASSUME Working = {}
  PROVE  At = "idle" /\ Stage = NoDump /\ Keep = 0 /\ Stored = 0 /\ ~Restoring
  BY DEF At, Stage, Keep, Stored, Restoring, OfCurrent

\* What is seen after a step of the request at its turn: the same request further
\* on, or nobody.
LEMMA SeenAfterStep ==
  ASSUME RequestsTyped, NEW r \in Requests, Working \subseteq {r},
         NEW place \in DOMAIN Phase, Goto(r, place)
  PROVE  /\ Working' = {r}
         /\ At' = Phase[place] /\ Stage' = temp'[r]
         /\ Keep' = kept'[r] /\ Stored' = uploaded'[r]
         /\ Restoring' <=> r \in restores'
<1>1. step' = [step EXCEPT ![r] = place] /\ step'[r] = place
  BY DEF Goto, RequestsTyped
<1>2. place \notin {"idle", "queued"}
  BY DEF Phase
<1>3. Working' = {r}
  BY <1>1, <1>2 DEF Working, RequestsTyped
<1>4. Current' = r
  BY <1>3 DEF Current
<1>5. QED
  BY <1>1, <1>3, <1>4 DEF At, Stage, Keep, Stored, Restoring, OfCurrent

\* After the request at its turn has left nothing is seen.
LEMMA SeenAfterLeaving ==
  ASSUME RequestsTyped, NEW r \in Requests, Working \subseteq {r}, Goto(r, "idle")
  PROVE  /\ Working' = {}
         /\ At' = "idle" /\ Stage' = NoDump /\ Keep' = 0 /\ Stored' = 0
         /\ ~Restoring'
<1>1. Working' = {}
  BY DEF Goto, Working, RequestsTyped
<1>2. QED
  BY <1>1 DEF At, Stage, Keep, Stored, Restoring, OfCurrent

\* What the steps are called there.
LEMMA Phases ==
  /\ DOMAIN Phase = {"dumping", "dumped", "renamed", "uploading", "uploaded",
                     "restoring", "removing"}
  /\ Phase["dumping"] = "dump" /\ Phase["dumped"] = "dumped"
  /\ Phase["renamed"] = "renamed" /\ Phase["uploading"] = "upload"
  /\ Phase["uploaded"] = "uploaded"
  /\ Phase["restoring"] = "restore" /\ Phase["removing"] = "restore"
  BY DEF Phase
-----------------------------------------------------------------------------
(* Each step of a request is the step of BackupStore of that name, or none. *)

\* Nothing that is put in place has the number 0.
LEMMA NothingRemoved ==
  ASSUME NEW s, s \subseteq Store!File
  PROVE  Store!Without(s, {0}) = s
  BY FileFacts DEF Store!Without

\* To be answered is to end, with the upload removed.
LEMMA LeaveImplementsEnd ==
  ASSUME RequestInv, NEW r \in Requests, Working = {r}, NEW s,
         LeaveWith(r, Store!Without(s, {uploaded[r]}))
  PROVE  Store!End(s)
<1>1. Stored = uploaded[r]
  BY SeenAtTurn
<1>2. /\ Goto(r, "idle") /\ files' = Store!Without(s, {uploaded[r]})
      /\ before' = {} /\ UNCHANGED <<retention, made, crashed>>
  BY DEF LeaveWith
<1>3. /\ At' = "idle" /\ Stage' = NoDump /\ Keep' = 0 /\ Stored' = 0
      /\ ~Restoring'
  BY <1>2, SeenAfterLeaving DEF RequestInv
<1>4. QED
  BY <1>1, <1>2, <1>3
  DEF Store!End, Store!NoFile, At, Stage, Keep, Stored, Restoring, NoDump

\* A request begins only when no other has.
LEMMA BeginImplements ==
  ASSUME IndInv, NEW r \in Requests, BeginBackup(r)
  PROVE  Store!Begin(r \in restores)
<1>1. Working = {}
  BY AtTurn DEF BeginBackup, IndInv, RequestInv, Working
<1>2. At = "idle" /\ Stage = NoDump /\ Keep = 0 /\ Stored = 0
  BY <1>1, SeenAtRest
<1>3. temp[r] = NoDump /\ kept[r] = 0 /\ uploaded[r] = 0
  BY DEF BeginBackup, IndInv, RequestInv, BlankInv
<1>4. Goto(r, "dumping") /\ UNCHANGED <<restores, temp, kept, uploaded>>
  BY DEF BeginBackup
<1>5. /\ At' = "dump" /\ Stage' = NoDump /\ Keep' = 0 /\ Stored' = 0
      /\ Restoring' <=> r \in restores
  BY <1>1, <1>3, <1>4, SeenAfterStep, Phases DEF IndInv, RequestInv
<1>6. QED
  BY <1>2, <1>5 DEF BeginBackup, Store!Begin, At, Stage, Keep, Stored, Restoring

\* A file is written that nobody has swept.
LEMMA WriteImplements ==
  ASSUME IndInv, NEW r \in Requests, NEW size \in Sizes, NEW from, NEW to,
         <<from, to>> \in {<<"dumping", "dumped">>, <<"uploading", "uploaded">>},
         Write(r, size, from, to)
  PROVE  Store!Written(size, Phase[from], Phase[to])
<1>1. step[r] = from /\ to \in DOMAIN Phase /\ from \in DOMAIN Phase
  BY Phases DEF Write
<1>2. Working = {r}
  BY <1>1, AtTurn, Phases DEF IndInv, RequestInv, TurnInv, Working
<1>3. staged[r] # Gone
  BY <1>1 DEF IndInv, RequestInv, WriteInv, Gone
<1>4. /\ temp' = [temp EXCEPT ![r] = [id |-> made + 1, size |-> size]]
      /\ made' = made + 1 /\ made < MaxDumps /\ Goto(r, to)
      /\ UNCHANGED <<retention, files, restores, kept, uploaded, before, crashed>>
  BY <1>3 DEF Write
<1>5. At = Phase[from] /\ Keep = kept[r] /\ Stored = uploaded[r] /\ (Restoring <=> r \in restores)
  BY <1>1, <1>2, SeenAtTurn
<1>6. /\ At' = Phase[to] /\ Stage' = temp'[r] /\ Keep' = kept'[r]
      /\ Stored' = uploaded'[r] /\ (Restoring' <=> r \in restores')
  BY <1>1, <1>2, <1>4, SeenAfterStep DEF IndInv, RequestInv
<1>7. temp'[r] = [id |-> made + 1, size |-> size]
  BY <1>4 DEF IndInv, RequestInv, RequestsTyped
<1>8. QED
  BY <1>4, <1>5, <1>6, <1>7 DEF Store!Written, At, Stage, Keep, Stored, Restoring

\* The dump of the request at its turn is renamed.
LEMMA RenameImplements ==
  ASSUME IndInv, NEW r \in Requests, Rename(r)
  PROVE  Store!Rename
<1>1. step[r] = "dumped" /\ PutInPlace(r, {}, "renamed") /\ UNCHANGED uploaded
  BY DEF Rename
<1>2. Working = {r}
  BY <1>1, AtTurn DEF IndInv, RequestInv, TurnInv, Working
<1>3. At = "dumped" /\ Stage = temp[r] /\ Keep = kept[r] /\ Stored = uploaded[r]
      /\ (Restoring <=> r \in restores)
  BY <1>1, <1>2, SeenAtTurn, Phases
<1>4. /\ At' = "renamed" /\ Stage' = temp'[r] /\ Keep' = kept'[r]
      /\ Stored' = uploaded'[r] /\ (Restoring' <=> r \in restores')
  BY <1>1, <1>2, SeenAfterStep, Phases DEF PutInPlace, IndInv, RequestInv
<1>5. temp'[r] = NoDump
  BY <1>1 DEF PutInPlace, IndInv, RequestInv, RequestsTyped
<1>6. QED
  BY <1>1, <1>3, <1>4, <1>5
  DEF PutInPlace, Store!Rename, Store!NoFile, NoDump, At, Stage, Keep, Stored, Restoring

\* The upload of the request at its turn is renamed.
LEMMA StoreUploadImplements ==
  ASSUME IndInv, NEW r \in Requests, StoreUpload(r)
  PROVE  Store!StoreUpload
<1>1. /\ step[r] = "uploaded" /\ PutInPlace(r, {kept[r]}, "restoring")
      /\ uploaded' = [uploaded EXCEPT ![r] = temp[r].id]
  BY DEF StoreUpload
<1>2. Working = {r}
  BY <1>1, AtTurn DEF IndInv, RequestInv, TurnInv, Working
<1>3. At = "uploaded" /\ Stage = temp[r] /\ Keep = kept[r] /\ Stored = uploaded[r]
      /\ (Restoring <=> r \in restores)
  BY <1>1, <1>2, SeenAtTurn, Phases
<1>4. /\ At' = "restore" /\ Stage' = temp'[r] /\ Keep' = kept'[r]
      /\ Stored' = uploaded'[r] /\ (Restoring' <=> r \in restores')
  BY <1>1, <1>2, SeenAfterStep, Phases DEF PutInPlace, IndInv, RequestInv
<1>5. temp'[r] = NoDump /\ uploaded'[r] = temp[r].id
  BY <1>1 DEF PutInPlace, IndInv, RequestInv, RequestsTyped
<1>6. QED
  BY <1>1, <1>3, <1>4, <1>5
  DEF PutInPlace, Store!StoreUpload, Store!NoFile, NoDump, At, Stage, Keep, Stored, Restoring

\* The name that is looked for is that of the file made last.
LEMMA NewestIsMade ==
  ASSUME StoreInv, At = "renamed"
  PROVE  Newest = made /\ Store!Max(Store!Ids(files)) = made
<1>1. Store!Max(Store!Ids(files)) = made
  BY NewestIs DEF StoreInv, StoreTyped, StageInv
<1>2. QED
  BY <1>1 DEF Newest, Max, Store!Max

\* The backup of the request at its turn is finished, or the request fails.
LEMMA FinishImplements ==
  ASSUME IndInv, NEW r \in Requests, FinishBackup(r)
  PROVE  Store!Finish
<1> DEFINE rest == Store!MakeRoom(Store!Prune(files), {made}, 0)
<1>1. step[r] = "renamed"
  BY DEF FinishBackup
<1>2. Working = {r}
  BY <1>1, AtTurn DEF IndInv, RequestInv, TurnInv, Working
<1>3. At = "renamed" /\ Stage = temp[r] /\ Keep = kept[r] /\ Stored = uploaded[r]
      /\ (Restoring <=> r \in restores)
  BY <1>1, <1>2, SeenAtTurn, Phases
<1>4. Newest = made /\ Store!Max(Store!Ids(files)) = made
  BY <1>3, NewestIsMade DEF IndInv
<1>5. CASE r \in restores /\ made \in Store!Ids(rest)
  <2>1. /\ files' = rest
        /\ kept' = [kept EXCEPT ![r] = made]
        /\ Goto(r, "uploading")
        /\ UNCHANGED <<retention, restores, temp, uploaded, made, before, crashed>>
    BY <1>4, <1>5 DEF FinishBackup
  <2>2. /\ At' = "upload" /\ Stage' = temp'[r] /\ Keep' = kept'[r]
        /\ Stored' = uploaded'[r] /\ (Restoring' <=> r \in restores')
    BY <1>2, <2>1, SeenAfterStep, Phases DEF IndInv, RequestInv
  <2>3. kept'[r] = made
    BY <2>1 DEF IndInv, RequestInv, RequestsTyped
  <2>4. QED
    BY <1>3, <1>4, <1>5, <2>1, <2>2, <2>3
    DEF Store!Finish, At, Stage, Keep, Stored, Restoring
<1>6. CASE ~(r \in restores /\ made \in Store!Ids(rest))
  <2>1. LeaveWith(r, rest)
    BY <1>4, <1>6 DEF FinishBackup
  <2>2. uploaded[r] = 0
    BY <1>3 DEF IndInv, StoreInv, StageInv
  <2>3. rest \subseteq Store!File
    BY DEF Store!MakeRoom, Store!Newer, Store!Prune, IndInv, StoreInv, Catalog
  <2>4. LeaveWith(r, Store!Without(rest, {uploaded[r]}))
    BY <2>1, <2>2, <2>3, NothingRemoved
  <2>5. Store!End(rest)
    BY <1>2, <2>4, LeaveImplementsEnd DEF IndInv
  <2>6. QED
    BY <1>3, <1>4, <1>6, <2>5 DEF Store!Finish, At, Restoring
<1>7. QED
  BY <1>5, <1>6

\* The restore of the request at its turn ends.
LEMMA RemoveImplements ==
  ASSUME IndInv, NEW r \in Requests, RemoveUpload(r)
  PROVE  Store!Restored
<1>1. step[r] = "removing" /\ LeaveWith(r, Store!Without(files, {uploaded[r]}))
  BY DEF RemoveUpload
<1>2. Working = {r}
  BY <1>1, AtTurn DEF IndInv, RequestInv, TurnInv, Working
<1>3. At = "restore"
  BY <1>1, <1>2, SeenAtTurn, Phases
<1>4. Store!End(files)
  BY <1>1, <1>2, LeaveImplementsEnd DEF IndInv
<1>5. QED
  BY <1>3, <1>4 DEF Store!Restored, At

\* The request at its turn fails.
LEMMA FailImplements ==
  ASSUME IndInv, NEW r \in Requests, Fail(r)
  PROVE  Store!Fail
<1> DEFINE rest == IF step[r] = "renamed" THEN Store!Without(files, {Newest}) ELSE files
<1>1. /\ step[r] \in {"dumping", "dumped", "renamed", "uploading", "uploaded"}
      /\ LeaveWith(r, rest)
  BY DEF Fail
<1>2. Working = {r}
  BY <1>1, AtTurn DEF IndInv, RequestInv, TurnInv, Working
<1>3. At = Phase[step[r]] /\ Stored = uploaded[r]
  BY <1>2, SeenAtTurn
<1>4. At # "idle" /\ At # "restore" /\ (At = "renamed" <=> step[r] = "renamed")
  BY <1>1, <1>3, Phases
<1>5. uploaded[r] = 0
  BY <1>3, <1>4 DEF IndInv, StoreInv, StageInv
<1>6. rest \subseteq Store!File
  BY DEF Store!Without, IndInv, StoreInv, Catalog
<1>7. LeaveWith(r, Store!Without(rest, {uploaded[r]}))
  BY <1>1, <1>5, <1>6, NothingRemoved
<1>8. Store!End(rest)
  BY <1>2, <1>7, LeaveImplementsEnd DEF IndInv
<1>9. rest = IF At = "renamed" THEN Store!Without(files, {Store!Max(Store!Ids(files))})
             ELSE files
  BY <1>4, NewestIsMade DEF IndInv
<1>10. QED
  BY <1>4, <1>8, <1>9 DEF Store!Fail, At

\* The process dies with a request under way, or unseen.
LEMMA CrashImplements ==
  ASSUME IndInv, Crash
  PROVE  [Store!Crash]_(Store!vars)
<1>1. Working' = {}
  BY DEF Crash, Working
<1>2. /\ At' = "idle" /\ Stage' = NoDump /\ Keep' = 0 /\ Stored' = 0 /\ ~Restoring'
  BY <1>1 DEF At, Stage, Keep, Stored, Restoring, OfCurrent
<1>3. /\ before' = {} /\ UNCHANGED <<retention, files, made>>
      /\ crashed' = (crashed \/ Working # {})
  BY DEF Crash
<1>4. CASE Working = {}
  <2>1. /\ At = "idle" /\ Stage = NoDump /\ Keep = 0 /\ Stored = 0 /\ ~Restoring
    BY <1>4, SeenAtRest
  <2>2. before = {} /\ crashed' = crashed
    BY <1>3, <1>4 DEF IndInv, RequestInv, BlankInv, StoreInv, StoreTyped
  <2>3. QED
    BY <1>2, <1>3, <2>1, <2>2 DEF Store!vars, At, Stage, Keep, Stored, Restoring
<1>5. CASE Working # {}
  <2>1. PICK r \in Working : TRUE
    BY <1>5
  <2>2. r \in Requests /\ step[r] \notin {"idle", "queued"} /\ Working = {r}
    BY <2>1, AtTurn DEF Working, IndInv, RequestInv, TurnInv
  <2>3. step[r] \in DOMAIN Phase
    BY <2>2 DEF IndInv, RequestInv, RequestsTyped
  <2>4. At # "idle"
    BY <2>2, <2>3, SeenAtTurn, Phases
  <2>5. crashed' = TRUE
    BY <1>3, <1>5
  <2>6. QED
    BY <1>2, <1>3, <2>4, <2>5
    DEF Store!Crash, Store!NoFile, NoDump, At, Stage, Keep, Stored, Restoring
<1>6. QED
  BY <1>4, <1>5
-----------------------------------------------------------------------------
(* The queue, the steps and the staging files.                             *)

\* An element appended to a sequence is its last one; the others stay.
LEMMA AppendFacts ==
  ASSUME NEW S, NEW s \in Seq(S), NEW e \in S
  PROVE  /\ Append(s, e) \in Seq(S)
         /\ Len(Append(s, e)) = Len(s) + 1
         /\ Append(s, e)[Len(s) + 1] = e
         /\ \A i \in 1..Len(s) : Append(s, e)[i] = s[i]
  OBVIOUS

\* The tail of a sequence holds all of its elements but the first, one place up.
LEMMA TailFacts ==
  ASSUME NEW S, NEW s \in Seq(S), s # <<>>
  PROVE  /\ Tail(s) \in Seq(S)
         /\ Len(Tail(s)) = Len(s) - 1
         /\ Len(s) >= 1
         /\ Head(s) = s[1]
         /\ \A i \in 1..Len(Tail(s)) : Tail(s)[i] = s[i + 1]
  OBVIOUS

\* A sweep leaves the files that were written lately.
LEMMA SweepFacts ==
  ASSUME NEW st \in [Requests -> Ages \cup {Gone}], leftover \in SUBSET Ages, Sweep(st)
  PROVE  /\ staged' \in [Requests -> Ages \cup {Gone}]
         /\ leftover' \in SUBSET Ages
         /\ \A r \in Requests : st[r] \in 0..WriteTimeout => staged'[r] = st[r]
<1>1. staged' \in [Requests -> Ages \cup {Gone}]
  BY DEF Sweep
<1>2. leftover' \in SUBSET Ages
  BY DEF Sweep
<1>3. ASSUME NEW r \in Requests, st[r] \in 0..WriteTimeout
      PROVE  staged'[r] = st[r]
  <2>1. st[r] # Gone /\ Fresh(st[r])
    BY <1>3 DEF Gone, Fresh
  <2>2. QED
    BY <2>1 DEF Sweep
<1>4. QED
  BY <1>1, <1>2, <1>3

\* A staging file may be written or go.
LEMMA StagedTyped ==
  ASSUME RequestsTyped, NEW r \in Requests
  PROVE  /\ [staged EXCEPT ![r] = 0] \in [Requests -> Ages \cup {Gone}]
         /\ [staged EXCEPT ![r] = 0][r] = 0
         /\ [staged EXCEPT ![r] = Gone] \in [Requests -> Ages \cup {Gone}]
<1>1. 0 \in Ages
  BY DEF Ages
<1>2. QED
  BY <1>1 DEF RequestsTyped

\* A file just written is within the timeout.
LEMMA JustWritten == 0 \in 0..WriteTimeout
  OBVIOUS

\* Whoever holds the lock may go on in its own place.
LEMMA StepKeepsRequestInv ==
  ASSUME RequestInv, NEW r \in Requests, HoldsLock(r), step[r] # "idle",
         NEW place \in DOMAIN Phase, Goto(r, place),
         queue' = queue, restores' = restores,
         \A q \in Requests \ {r} :
           temp'[q] = temp[q] /\ kept'[q] = kept[q] /\ uploaded'[q] = uploaded[q],
         temp' \in [Requests -> Store!File \cup {NoDump}],
         staged' \in [Requests -> Ages \cup {Gone}],
         leftover' \in SUBSET Ages,
         kept' \in [Requests -> 0..MaxDumps],
         uploaded' \in [Requests -> 0..MaxDumps],
         place \in {"dumping", "dumped", "uploading", "uploaded"} =>
           staged'[r] \in 0..WriteTimeout
  PROVE  RequestInv'
<1>1. /\ step' \in [Requests -> {"idle", "queued"} \cup DOMAIN Phase]
      /\ step'[r] = place /\ \A q \in Requests \ {r} : step'[q] = step[q]
  BY DEF Goto, RequestInv, RequestsTyped
<1>2. RequestsTyped'
  BY <1>1 DEF RequestInv, RequestsTyped, Phase
<1>3. place \notin {"idle", "queued"}
  BY Phases
<1>4. \A q \in Requests \ {r} : step[q] \in {"idle", "queued"}
  BY AtTurn DEF RequestInv, Working
<1>5. TurnInv'
  <2>1. \A i, j \in 1..Len(queue') : queue'[i] = queue'[j] => i = j
    BY DEF RequestInv, TurnInv
  <2>2. \A q \in Requests : step'[q] # "idle" <=> \E i \in 1..Len(queue') : queue'[i] = q
    BY <1>1, <1>3 DEF RequestInv, TurnInv
  <2>3. \A q \in Requests : step'[q] \notin {"idle", "queued"} => HoldsLock(q)'
    BY <1>1, <1>4 DEF HoldsLock
  <2>4. QED
    BY <2>1, <2>2, <2>3 DEF TurnInv
<1>6. BlankInv'
  BY <1>1, <1>3 DEF RequestInv, BlankInv, Working
<1>7. WriteInv'
  BY <1>1, <1>4 DEF WriteInv
<1>8. QED
  BY <1>2, <1>5, <1>6, <1>7 DEF RequestInv

\* Whoever leaves hands on the lock and takes everything along.
LEMMA LeaveKeepsRequestInv ==
  ASSUME RequestInv, NEW r \in Requests, HoldsLock(r), NEW s, LeaveWith(r, s)
  PROVE  RequestInv'
<1>1. /\ step' \in [Requests -> {"idle", "queued"} \cup DOMAIN Phase]
      /\ step'[r] = "idle" /\ \A q \in Requests \ {r} : step'[q] = step[q]
  BY DEF LeaveWith, Goto, RequestInv, RequestsTyped
<1>2. /\ queue \in Seq(Requests) /\ queue # <<>> /\ queue' = Tail(queue)
      /\ Len(queue) \in Nat
  BY DEF LeaveWith, HoldsLock, RequestInv, RequestsTyped
<1>3. /\ queue' \in Seq(Requests) /\ Len(queue') = Len(queue) - 1
      /\ Len(queue) >= 1 /\ queue[1] = r
      /\ \A i \in 1..Len(queue') : queue'[i] = queue[i + 1]
  BY <1>2, TailFacts DEF HoldsLock
<1>4. \A q \in Requests \ {r} : step[q] \in {"idle", "queued"}
  BY AtTurn DEF RequestInv, Working
<1>5. RequestsTyped'
  <2>1. staged' \in [Requests -> Ages \cup {Gone}] /\ leftover' \in SUBSET Ages
    BY StagedTyped, SweepFacts DEF LeaveWith, RequestInv, RequestsTyped
  <2>2. temp' \in [Requests -> Store!File \cup {NoDump}]
    BY DEF LeaveWith, RequestInv, RequestsTyped
  <2>3. kept' \in [Requests -> 0..MaxDumps] /\ uploaded' \in [Requests -> 0..MaxDumps]
    BY DEF LeaveWith, RequestInv, RequestsTyped
  <2>4. restores' \in SUBSET Requests
    BY DEF LeaveWith, RequestInv, RequestsTyped
  <2>5. QED
    BY <1>1, <1>3, <2>1, <2>2, <2>3, <2>4 DEF RequestsTyped, Phase
<1>6. TurnInv'
  <2>1. \A i, j \in 1..Len(queue') : queue'[i] = queue'[j] => i = j
    <3>1. SUFFICES ASSUME NEW i \in 1..Len(queue'), NEW j \in 1..Len(queue'),
                          queue'[i] = queue'[j]
                   PROVE  i = j
      OBVIOUS
    <3>2. i + 1 \in 1..Len(queue) /\ j + 1 \in 1..Len(queue)
      BY <1>2, <1>3
    <3>3. queue[i + 1] = queue[j + 1]
      BY <1>3, <3>1
    <3>4. i + 1 = j + 1
      BY <3>2, <3>3 DEF RequestInv, TurnInv
    <3>5. QED
      BY <3>4
  <2>2. ASSUME NEW q \in Requests
        PROVE  step'[q] # "idle" <=> \E i \in 1..Len(queue') : queue'[i] = q
    <3>1. (\E i \in 1..Len(queue') : queue'[i] = q)
             <=> (\E i \in 1..Len(queue) : i # 1 /\ queue[i] = q)
      <4>1. ASSUME NEW i \in 1..Len(queue'), queue'[i] = q
            PROVE  \E k \in 1..Len(queue) : k # 1 /\ queue[k] = q
        <5>1. i + 1 \in 1..Len(queue) /\ i + 1 # 1 /\ queue[i + 1] = q
          BY <1>2, <1>3, <4>1
        <5>2. QED
          BY <5>1
      <4>2. ASSUME NEW i \in 1..Len(queue), i # 1, queue[i] = q
            PROVE  \E k \in 1..Len(queue') : queue'[k] = q
        <5>1. i - 1 \in 1..Len(queue') /\ (i - 1) + 1 = i
          BY <1>2, <1>3, <4>2
        <5>2. queue'[i - 1] = q
          BY <1>3, <4>2, <5>1
        <5>3. QED
          BY <5>1, <5>2
      <4>3. QED
        BY <4>1, <4>2
    <3>2. CASE q = r
      <4>1. 1 \in 1..Len(queue)
        BY <1>2, <1>3
      <4>2. \A i \in 1..Len(queue) : queue[i] = q => i = 1
        BY <1>3, <3>2, <4>1 DEF RequestInv, TurnInv
      <4>3. QED
        BY <1>1, <3>1, <3>2, <4>2
    <3>3. CASE q # r
      <4>1. step[q] # "idle" <=> \E i \in 1..Len(queue) : queue[i] = q
        BY DEF RequestInv, TurnInv
      <4>2. QED
        BY <1>1, <1>3, <3>1, <3>3, <4>1
    <3>4. QED
      BY <3>2, <3>3
  <2>3. \A q \in Requests : step'[q] \in {"idle", "queued"}
    BY <1>1, <1>4
  <2>4. QED
    BY <2>1, <2>2, <2>3 DEF TurnInv
<1>7. BlankInv'
  BY <1>1, <1>4 DEF LeaveWith, RequestInv, RequestsTyped, BlankInv
<1>8. WriteInv'
  BY <1>1, <1>4 DEF WriteInv
<1>9. QED
  BY <1>5, <1>6, <1>7, <1>8 DEF RequestInv

\* Who arrives queues behind everybody and is not seen yet.
LEMMA ArriveKeepsRequestInv ==
  ASSUME RequestInv, NEW r \in Requests, Arrive(r)
  PROVE  RequestInv' /\ UNCHANGED Store!vars
<1>1. /\ step' \in [Requests -> {"idle", "queued"} \cup DOMAIN Phase]
      /\ step[r] = "idle" /\ step'[r] = "queued"
      /\ \A q \in Requests \ {r} : step'[q] = step[q]
  BY DEF Arrive, Goto, RequestInv, RequestsTyped
<1>2. /\ queue \in Seq(Requests) /\ Len(queue) \in Nat
      /\ queue' \in Seq(Requests) /\ Len(queue') = Len(queue) + 1
      /\ queue'[Len(queue) + 1] = r
      /\ \A i \in 1..Len(queue) : queue'[i] = queue[i]
  BY AppendFacts DEF Arrive, RequestInv, RequestsTyped
<1>3. \A i \in 1..Len(queue) : queue[i] # r
  BY <1>1 DEF RequestInv, TurnInv
<1>4. /\ UNCHANGED <<retention, files, temp, staged, leftover, kept, uploaded, made,
                     before, crashed>>
      /\ restores' \in {restores, restores \cup {r}}
  BY DEF Arrive
<1>5. Working' = Working
  BY <1>1 DEF Working
<1>6. RequestsTyped'
  BY <1>1, <1>2, <1>4 DEF RequestInv, RequestsTyped, Phase
<1>7. TurnInv'
  <2>1. \A i, j \in 1..Len(queue') : queue'[i] = queue'[j] => i = j
    BY <1>2, <1>3 DEF RequestInv, TurnInv
  <2>2. ASSUME NEW q \in Requests
        PROVE  step'[q] # "idle" <=> \E i \in 1..Len(queue') : queue'[i] = q
    <3>1. CASE q = r
      BY <1>1, <1>2, <3>1
    <3>2. CASE q # r
      <4>1. (\E i \in 1..Len(queue') : queue'[i] = q) <=> (\E i \in 1..Len(queue) : queue[i] = q)
        BY <1>2, <3>2
      <4>2. QED
        BY <1>1, <3>2, <4>1 DEF RequestInv, TurnInv
    <3>3. QED
      BY <3>1, <3>2
  <2>3. ASSUME NEW q \in Requests, step'[q] \notin {"idle", "queued"}
        PROVE  HoldsLock(q)'
    <3>1. queue # <<>> /\ Head(queue) = q
      BY <1>1, <2>3 DEF RequestInv, TurnInv, HoldsLock
    <3>2. Len(queue) >= 1 /\ queue[1] = q
      BY <1>2, <3>1, TailFacts
    <3>3. queue' # <<>> /\ queue'[1] = q
      BY <1>2, <3>2
    <3>4. QED
      BY <1>2, <3>3, TailFacts DEF HoldsLock
  <2>4. QED
    BY <2>1, <2>2, <2>3 DEF TurnInv
<1>8. BlankInv'
  BY <1>1, <1>4, <1>5 DEF RequestInv, BlankInv
<1>9. WriteInv'
  BY <1>1, <1>4 DEF RequestInv, WriteInv
<1>10. UNCHANGED Store!vars
  <2>1. Current' = Current /\ r \notin Working
    BY <1>1, <1>5 DEF Current, Working
  <2>2. At' = At
    BY <1>1, <1>5, <2>1 DEF At, Current, Working
  <2>3. Stage' = Stage /\ Keep' = Keep /\ Stored' = Stored
    BY <1>4, <1>5, <2>1 DEF Stage, Keep, Stored, OfCurrent
  <2>4. (Working \cap restores)' = Working \cap restores
    BY <1>4, <1>5, <2>1
  <2>5. QED
    BY <1>4, <2>2, <2>3, <2>4 DEF Store!vars, At, Stage, Keep, Stored
<1>11. QED
  BY <1>6, <1>7, <1>8, <1>9, <1>10 DEF RequestInv

\* Where nobody sees more of a request the listed files are as they were.
LEMMA UnseenImplements ==
  ASSUME UNCHANGED <<retention, files, restores, temp, kept, uploaded, made, before,
                     crashed>>,
         Working' = Working, Working # {} => Phase[step[Current]]' = Phase[step[Current]]
  PROVE  UNCHANGED Store!vars
<1>1. Current' = Current
  BY DEF Current
<1>2. At' = At
  BY DEF At
<1>3. Stage' = Stage /\ Keep' = Keep /\ Stored' = Stored
  BY <1>1 DEF Stage, Keep, Stored, OfCurrent
<1>4. QED
  BY <1>2, <1>3 DEF Store!vars, At, Stage, Keep, Stored

\* A request begins with a fresh staging file.
LEMMA BeginKeepsRequestInv ==
  ASSUME RequestInv, NEW r \in Requests, BeginBackup(r)
  PROVE  RequestInv'
<1> DEFINE st == [staged EXCEPT ![r] = 0]
<1>1. /\ HoldsLock(r) /\ step[r] = "queued" /\ Goto(r, "dumping") /\ Sweep(st)
      /\ UNCHANGED <<queue, restores, temp, kept, uploaded>>
  BY DEF BeginBackup
<1>2. st \in [Requests -> Ages \cup {Gone}] /\ st[r] = 0 /\ 0 \in 0..WriteTimeout
  BY StagedTyped, JustWritten DEF RequestInv
<1>3. /\ staged' \in [Requests -> Ages \cup {Gone}] /\ leftover' \in SUBSET Ages
      /\ staged'[r] = 0
  BY <1>1, <1>2, SweepFacts DEF RequestInv, RequestsTyped
<1>4. QED
  BY <1>1, <1>2, <1>3, StepKeepsRequestInv, Phases DEF RequestInv, RequestsTyped

\* A request that is refused is never seen.
LEMMA RefuseKeepsRequestInv ==
  ASSUME IndInv, NEW r \in Requests, RefuseBackup(r)
  PROVE  RequestInv' /\ UNCHANGED Store!vars
<1>1. step[r] = "queued" /\ HoldsLock(r) /\ LeaveWith(r, files)
  BY DEF RefuseBackup
<1>2. Working = {}
  BY <1>1, AtTurn DEF IndInv, RequestInv, Working
<1>3. before = {} /\ before' = {} /\ UNCHANGED <<retention, files, made, crashed>>
  BY <1>1, <1>2 DEF LeaveWith, IndInv, RequestInv, BlankInv
<1>4. /\ At = "idle" /\ Stage = NoDump /\ Keep = 0 /\ Stored = 0 /\ ~Restoring
  BY <1>2, SeenAtRest
<1>5. /\ At' = "idle" /\ Stage' = NoDump /\ Keep' = 0 /\ Stored' = 0 /\ ~Restoring'
  BY <1>1, <1>2, SeenAfterLeaving DEF LeaveWith, IndInv, RequestInv
<1>6. UNCHANGED Store!vars
  BY <1>3, <1>4, <1>5 DEF Store!vars, At, Stage, Keep, Stored, Restoring
<1>7. QED
  BY <1>1, <1>6, LeaveKeepsRequestInv DEF IndInv

\* Who has begun holds the lock.
LEMMA BegunHolds ==
  ASSUME RequestInv, NEW r \in Requests, step[r] \notin {"idle", "queued"}
  PROVE  HoldsLock(r) /\ Working = {r}
  BY AtTurn DEF RequestInv, TurnInv, Working

\* A file is written that is there.
LEMMA WriteKeepsRequestInv ==
  ASSUME IndInv, NEW r \in Requests, NEW size \in Sizes, NEW from, NEW to,
         <<from, to>> \in {<<"dumping", "dumped">>, <<"uploading", "uploaded">>},
         Write(r, size, from, to)
  PROVE  RequestInv'
<1>1. step[r] = from /\ HoldsLock(r) /\ to \in DOMAIN Phase
  BY BegunHolds, Phases DEF Write, IndInv
<1>2. staged[r] # Gone
  BY <1>1 DEF IndInv, RequestInv, WriteInv, Gone
<1>3. /\ temp' = [temp EXCEPT ![r] = [id |-> made + 1, size |-> size]]
      /\ staged' = [staged EXCEPT ![r] = 0]
      /\ made < MaxDumps /\ Goto(r, to)
      /\ UNCHANGED <<queue, restores, leftover, kept, uploaded>>
  BY <1>2 DEF Write
<1>4. /\ staged' \in [Requests -> Ages \cup {Gone}] /\ staged'[r] = 0
      /\ 0 \in 0..WriteTimeout
  BY <1>3, StagedTyped, JustWritten DEF IndInv, RequestInv
<1>5. temp' \in [Requests -> Store!File \cup {NoDump}]
  <2>1. made + 1 \in 1..MaxDumps
    BY <1>3 DEF IndInv, StoreInv, StoreTyped
  <2>2. [id |-> made + 1, size |-> size] \in Store!File
    BY <2>1 DEF Store!File
  <2>3. QED
    BY <1>3, <2>2 DEF IndInv, RequestInv, RequestsTyped
<1>6. \A q \in Requests \ {r} : temp'[q] = temp[q]
  BY <1>3 DEF IndInv, RequestInv, RequestsTyped
<1>7. /\ leftover' \in SUBSET Ages
      /\ kept' \in [Requests -> 0..MaxDumps] /\ uploaded' \in [Requests -> 0..MaxDumps]
  BY <1>3 DEF IndInv, RequestInv, RequestsTyped
<1>8. QED
  BY <1>1, <1>3, <1>4, <1>5, <1>6, <1>7, StepKeepsRequestInv, Phases DEF IndInv

\* The staging file of the request at its turn is renamed.
LEMMA PutKeepsRequestInv ==
  ASSUME RequestInv, NEW r \in Requests, step[r] \in {"dumped", "uploaded"}, NEW ids,
         NEW place \in {"renamed", "restoring"}, PutInPlace(r, ids, place),
         uploaded' \in [Requests -> 0..MaxDumps],
         \A q \in Requests \ {r} : uploaded'[q] = uploaded[q]
  PROVE  RequestInv'
<1> DEFINE st == [staged EXCEPT ![r] = Gone]
<1>1. /\ HoldsLock(r) /\ Goto(r, place) /\ Sweep(st)
      /\ temp' = [temp EXCEPT ![r] = NoDump]
      /\ UNCHANGED <<queue, restores, kept>>
  BY BegunHolds DEF PutInPlace
<1>2. st \in [Requests -> Ages \cup {Gone}]
  BY StagedTyped DEF RequestInv
<1>3. staged' \in [Requests -> Ages \cup {Gone}] /\ leftover' \in SUBSET Ages
  BY <1>1, <1>2, SweepFacts DEF RequestInv, RequestsTyped
<1>4. /\ temp' \in [Requests -> Store!File \cup {NoDump}]
      /\ \A q \in Requests \ {r} : temp'[q] = temp[q]
  BY <1>1 DEF RequestInv, RequestsTyped
<1>5. kept' \in [Requests -> 0..MaxDumps]
  BY <1>1 DEF RequestInv, RequestsTyped
<1>6. QED
  BY <1>1, <1>3, <1>4, <1>5, StepKeepsRequestInv, Phases

\* The upload of the request at its turn is renamed.
LEMMA StoreUploadKeepsRequestInv ==
  ASSUME IndInv, NEW r \in Requests, StoreUpload(r)
  PROVE  RequestInv'
<1>1. /\ step[r] = "uploaded" /\ PutInPlace(r, {kept[r]}, "restoring")
      /\ uploaded' = [uploaded EXCEPT ![r] = temp[r].id]
  BY DEF StoreUpload
<1>2. temp[r].id \in 0..MaxDumps
  <2>1. temp[r] \in Store!File \cup {NoDump}
    BY DEF IndInv, RequestInv, RequestsTyped
  <2>2. \A f \in Store!File : f.id \in 0..MaxDumps
    BY FileFacts
  <2>3. QED
    BY <2>1, <2>2 DEF NoDump
<1>3. /\ uploaded' \in [Requests -> 0..MaxDumps]
      /\ \A q \in Requests \ {r} : uploaded'[q] = uploaded[q]
  BY <1>1, <1>2 DEF IndInv, RequestInv, RequestsTyped
<1>4. QED
  BY <1>1, <1>3, PutKeepsRequestInv DEF IndInv

\* A restore goes on with a fresh staging file for its upload.
LEMMA FinishKeepsRequestInv ==
  ASSUME IndInv, NEW r \in Requests, FinishBackup(r)
  PROVE  RequestInv'
<1> DEFINE st == [staged EXCEPT ![r] = 0]
           rest == Store!MakeRoom(Store!Prune(files), {Newest}, 0)
<1>1. step[r] = "renamed"
  BY DEF FinishBackup
<1>2. HoldsLock(r) /\ Working = {r}
  BY <1>1, BegunHolds DEF IndInv
<1>3. At = "renamed"
  BY <1>1, <1>2, SeenAtTurn, Phases
<1>4. Newest \in 0..MaxDumps
  BY <1>3, NewestIsMade DEF IndInv, StoreInv, StoreTyped
<1>5. CASE LeaveWith(r, rest)
  BY <1>2, <1>5, LeaveKeepsRequestInv DEF IndInv
<1>6. CASE /\ kept' = [kept EXCEPT ![r] = Newest]
           /\ Goto(r, "uploading") /\ Sweep(st)
           /\ UNCHANGED <<queue, restores, temp, uploaded>>
  <2>1. st \in [Requests -> Ages \cup {Gone}] /\ st[r] = 0 /\ 0 \in 0..WriteTimeout
    BY StagedTyped, JustWritten DEF IndInv, RequestInv
  <2>2. /\ staged' \in [Requests -> Ages \cup {Gone}] /\ leftover' \in SUBSET Ages
        /\ staged'[r] = 0
    BY <1>6, <2>1, SweepFacts DEF IndInv, RequestInv, RequestsTyped
  <2>3. /\ kept' \in [Requests -> 0..MaxDumps]
        /\ \A q \in Requests \ {r} : kept'[q] = kept[q]
    BY <1>4, <1>6 DEF IndInv, RequestInv, RequestsTyped
  <2>4. /\ temp' \in [Requests -> Store!File \cup {NoDump}]
        /\ uploaded' \in [Requests -> 0..MaxDumps]
    BY <1>6 DEF IndInv, RequestInv, RequestsTyped
  <2>5. QED
    BY <1>1, <1>2, <1>6, <2>1, <2>2, <2>3, <2>4, StepKeepsRequestInv, Phases DEF IndInv
<1>7. QED
  BY <1>5, <1>6 DEF FinishBackup

\* The end of pg_restore is not seen.
LEMMA RestoredKeepsRequestInv ==
  ASSUME RequestInv, NEW r \in Requests, Restored(r)
  PROVE  RequestInv' /\ UNCHANGED Store!vars
<1>1. /\ step[r] = "restoring" /\ Goto(r, "removing")
      /\ UNCHANGED <<retention, files, queue, restores, temp, staged, leftover, kept,
                     uploaded, made, before, crashed>>
  BY DEF Restored
<1>2. HoldsLock(r) /\ Working = {r}
  BY <1>1, BegunHolds
<1>3. RequestInv'
  BY <1>1, <1>2, StepKeepsRequestInv, Phases DEF RequestInv, RequestsTyped
<1>4. At = "restore" /\ Stage = temp[r] /\ Keep = kept[r] /\ Stored = uploaded[r]
      /\ (Restoring <=> r \in restores)
  BY <1>1, <1>2, SeenAtTurn, Phases
<1>5. /\ At' = "restore" /\ Stage' = temp'[r] /\ Keep' = kept'[r]
      /\ Stored' = uploaded'[r] /\ (Restoring' <=> r \in restores')
  BY <1>1, <1>2, SeenAfterStep, Phases DEF RequestInv
<1>6. UNCHANGED Store!vars
  BY <1>1, <1>4, <1>5 DEF Store!vars, At, Stage, Keep, Stored, Restoring
<1>7. QED
  BY <1>3, <1>6

\* Time passes only while every write is within its timeout.
LEMMA TickKeepsRequestInv ==
  ASSUME RequestInv, Tick
  PROVE  RequestInv' /\ UNCHANGED Store!vars
<1>1. /\ \A r \in Requests : staged[r] # Gone => staged[r] < WriteTimeout
      /\ staged' = [r \in Requests |-> IF staged[r] = Gone THEN Gone ELSE Older(staged[r])]
      /\ leftover' = {Older(age) : age \in leftover}
      /\ UNCHANGED <<retention, files, queue, step, restores, temp, kept, uploaded,
                     made, before, crashed>>
  BY DEF Tick
<1>2. \A age \in Ages : Older(age) \in Ages
  BY DEF Ages, Older
<1>3. RequestsTyped'
  BY <1>1, <1>2 DEF RequestInv, RequestsTyped, Phase
<1>4. TurnInv' /\ BlankInv'
  BY <1>1 DEF RequestInv, TurnInv, BlankInv, HoldsLock, Working
<1>5. WriteInv'
  <2>1. SUFFICES ASSUME NEW r \in Requests,
                        step[r] \in {"dumping", "dumped", "uploading", "uploaded"}
                 PROVE  staged'[r] \in 0..WriteTimeout
    BY <1>1 DEF WriteInv
  <2>2. staged[r] \in 0..WriteTimeout /\ staged[r] # Gone
    BY <2>1 DEF RequestInv, WriteInv, Gone
  <2>3. staged[r] < WriteTimeout /\ staged'[r] = Older(staged[r])
    BY <1>1, <2>2
  <2>4. QED
    BY <2>2, <2>3 DEF Older
<1>6. UNCHANGED Store!vars
  BY <1>1, UnseenImplements DEF Working, Current
<1>7. QED
  BY <1>3, <1>4, <1>5, <1>6 DEF RequestInv

\* A listing sweeps no file of a writer.
LEMMA ListKeepsRequestInv ==
  ASSUME RequestInv, List
  PROVE  RequestInv' /\ UNCHANGED Store!vars
<1>1. /\ Sweep(staged)
      /\ UNCHANGED <<retention, files, queue, step, restores, temp, kept, uploaded,
                     made, before, crashed>>
  BY DEF List
<1>2. /\ staged' \in [Requests -> Ages \cup {Gone}] /\ leftover' \in SUBSET Ages
      /\ \A r \in Requests : staged[r] \in 0..WriteTimeout => staged'[r] = staged[r]
  BY <1>1, SweepFacts DEF RequestInv, RequestsTyped
<1>3. RequestsTyped'
  BY <1>1, <1>2 DEF RequestInv, RequestsTyped, Phase
<1>4. TurnInv' /\ BlankInv'
  BY <1>1 DEF RequestInv, TurnInv, BlankInv, HoldsLock, Working
<1>5. WriteInv'
  BY <1>1, <1>2 DEF RequestInv, WriteInv
<1>6. UNCHANGED Store!vars
  BY <1>1, UnseenImplements DEF Working, Current
<1>7. QED
  BY <1>3, <1>4, <1>5, <1>6 DEF RequestInv

\* A crash leaves no request.
LEMMA CrashKeepsRequestInv ==
  ASSUME RequestInv, Crash
  PROVE  RequestInv'
<1>1. /\ step' = [r \in Requests |-> "idle"] /\ queue' = <<>> /\ restores' = {}
      /\ temp' = [r \in Requests |-> NoDump]
      /\ leftover' = leftover \cup {staged[r] : r \in {q \in Requests : staged[q] # Gone}}
      /\ staged' = [r \in Requests |-> Gone]
      /\ kept' = [r \in Requests |-> 0] /\ uploaded' = [r \in Requests |-> 0]
      /\ before' = {}
  BY DEF Crash
<1>2. leftover' \in SUBSET Ages
  BY <1>1 DEF RequestInv, RequestsTyped
<1>3. 0 \in 0..MaxDumps /\ <<>> \in Seq(Requests) /\ Len(<<>>) = 0
  OBVIOUS
<1>4. RequestsTyped'
  BY <1>1, <1>2, <1>3 DEF RequestsTyped, Phase
<1>5. TurnInv'
  BY <1>1, <1>3 DEF TurnInv
<1>6. BlankInv' /\ WriteInv'
  BY <1>1 DEF BlankInv, WriteInv
<1>7. QED
  BY <1>4, <1>5, <1>6 DEF RequestInv
-----------------------------------------------------------------------------
(* The specification as a whole.                                           *)

\* Every step is a step of BackupStore or unseen, and keeps RequestInv.
LEMMA NextImplementsStoreNext ==
  ASSUME IndInv, [Next]_vars
  PROVE  RequestInv' /\ [Store!Next]_(Store!vars)
<1>1. CASE UNCHANGED vars
  <2>1. RequestInv'
    BY <1>1 DEF vars, IndInv, RequestInv, RequestsTyped, TurnInv, BlankInv, WriteInv,
                HoldsLock, Working
  <2>2. UNCHANGED Store!vars
    BY <1>1, UnseenImplements DEF vars, Working, Current
  <2>3. QED
    BY <2>1, <2>2
<1>2. CASE Tick \/ List
  BY <1>2, TickKeepsRequestInv, ListKeepsRequestInv DEF IndInv
<1>3. CASE Crash
  BY <1>3, CrashKeepsRequestInv, CrashImplements DEF IndInv, Store!Next
<1>4. ASSUME NEW r \in Requests, Arrive(r) \/ RefuseBackup(r) \/ Restored(r)
      PROVE  RequestInv' /\ UNCHANGED Store!vars
  BY <1>4, ArriveKeepsRequestInv, RefuseKeepsRequestInv, RestoredKeepsRequestInv DEF IndInv
<1>5. ASSUME NEW r \in Requests, BeginBackup(r)
      PROVE  RequestInv' /\ Store!Next
  <2>1. Store!Begin(r \in restores)
    BY <1>5, BeginImplements
  <2>2. (r \in restores) \in BOOLEAN
    OBVIOUS
  <2>3. Store!Next
    BY <2>1, <2>2 DEF Store!Next
  <2>4. QED
    BY <1>5, <2>3, BeginKeepsRequestInv DEF IndInv
<1>6. ASSUME NEW r \in Requests, NEW size \in Sizes, Dump(r, size)
      PROVE  RequestInv' /\ Store!Next
  <2>1. Store!Dumped(size)
    BY <1>6, WriteImplements, Phases DEF Dump, Store!Dumped
  <2>2. RequestInv'
    BY <1>6, WriteKeepsRequestInv DEF Dump
  <2>3. QED
    BY <2>1, <2>2 DEF Store!Next
<1>7. ASSUME NEW r \in Requests, NEW size \in Sizes, Upload(r, size)
      PROVE  RequestInv' /\ Store!Next
  <2>1. Store!Uploaded(size)
    BY <1>7, WriteImplements, Phases DEF Upload, Store!Uploaded
  <2>2. RequestInv'
    BY <1>7, WriteKeepsRequestInv DEF Upload
  <2>3. QED
    BY <2>1, <2>2 DEF Store!Next
<1>8. ASSUME NEW r \in Requests, Rename(r)
      PROVE  RequestInv' /\ Store!Next
  <2>1. RequestInv'
    BY <1>8, PutKeepsRequestInv DEF Rename, IndInv, RequestInv, RequestsTyped
  <2>2. QED
    BY <1>8, <2>1, RenameImplements DEF Store!Next
<1>9. ASSUME NEW r \in Requests, FinishBackup(r)
      PROVE  RequestInv' /\ Store!Next
  BY <1>9, FinishKeepsRequestInv, FinishImplements DEF Store!Next
<1>10. ASSUME NEW r \in Requests, StoreUpload(r)
       PROVE  RequestInv' /\ Store!Next
  BY <1>10, StoreUploadKeepsRequestInv, StoreUploadImplements DEF Store!Next
<1>11. ASSUME NEW r \in Requests, RemoveUpload(r)
       PROVE  RequestInv' /\ Store!Next
  <2>1. HoldsLock(r)
    BY <1>11, BegunHolds DEF RemoveUpload, IndInv
  <2>2. RequestInv'
    BY <1>11, <2>1, LeaveKeepsRequestInv DEF RemoveUpload, IndInv
  <2>3. QED
    BY <1>11, <2>2, RemoveImplements DEF Store!Next
<1>12. ASSUME NEW r \in Requests, Fail(r)
       PROVE  RequestInv' /\ Store!Next
  <2>1. HoldsLock(r)
    BY <1>12, BegunHolds DEF Fail, IndInv
  <2>2. RequestInv'
    BY <1>12, <2>1, LeaveKeepsRequestInv DEF Fail, IndInv
  <2>3. QED
    BY <1>12, <2>2, FailImplements DEF Store!Next
<1>13. QED
  BY <1>1, <1>2, <1>3, <1>4, <1>5, <1>6, <1>7, <1>8, <1>9, <1>10, <1>11, <1>12 DEF Next

\* IndInv is inductive.
LEMMA NextKeepsIndInv == IndInv /\ [Next]_vars => IndInv'
  BY NextImplementsStoreNext, StoreNextKeepsStoreInv DEF IndInv

\* The initial states satisfy IndInv and are initial states of BackupStore.
LEMMA InitEstablishes == Init => IndInv /\ Store!Init
<1> SUFFICES ASSUME Init PROVE IndInv /\ Store!Init
  OBVIOUS
<1>1. Working = {}
  BY DEF Init, Working
<1>2. At = "idle" /\ Stage = NoDump /\ Keep = 0 /\ Stored = 0 /\ ~Restoring
  BY <1>1, SeenAtRest
<1>3. Store!Init
  BY <1>2 DEF Init, Store!Init, Store!NoFile, NoDump, At, Stage, Keep, Stored, Restoring
<1>4. 0 \in 0..MaxDumps /\ <<>> \in Seq(Requests) /\ Len(<<>>) = 0
  OBVIOUS
<1>5. StoreTyped
  BY <1>2, <1>4 DEF Init, StoreTyped
<1>6. StageInv /\ NoneLostYet
  BY <1>2 DEF StageInv, NoneLostYet
<1>7. LastingInv
  <2>1. retention \in Nat /\ Lasting = {} /\ Cardinality({}) = 0
    BY <1>2, FS_EmptySet DEF Init, Lasting
  <2>2. QED
    BY <2>1 DEF LastingInv
<1>8. StoreInv
  BY <1>5, <1>6, <1>7, EmptyCatalog DEF Init, StoreInv
<1>9. RequestsTyped
  BY <1>4 DEF Init, RequestsTyped, Phase
<1>10. TurnInv /\ BlankInv /\ WriteInv
  BY <1>4 DEF Init, TurnInv, BlankInv, WriteInv
<1>11. QED
  BY <1>3, <1>8, <1>9, <1>10 DEF IndInv, RequestInv

\* The inductive invariant: the catalog of the listed files, what a request has
\* staged and put in place, and the turns that requests take on operation_lock.
THEOREM Invariance == Spec => []IndInv
  BY InitEstablishes, NextKeepsIndInv, PTL DEF Spec

\* Every variable stays in its type.
THEOREM TypeCorrect == Spec => []TypeOK
<1>1. IndInv => Store!TypeOK
  BY DEF IndInv, StoreInv, StoreTyped, Catalog, Store!TypeOK, Store!NoFile, NoDump,
         At, Stage, Keep, Stored
<1>2. IndInv => TypeOK
  BY <1>1 DEF IndInv, RequestInv, RequestsTyped, TypeOK
<1>3. QED
  BY <1>2, Invariance, PTL

\* Requests that arrive together, listings in between, staging files and sweeps
\* change the listed backups only as one request after the other would, for any
\* number of requests, sizes and settings.
THEOREM Refinement == Spec => ImplementsBackupStore
<1>1. IndInv /\ [Next]_vars => [Store!Next]_(Store!vars)
  BY NextImplementsStoreNext
<1>2. QED
  BY <1>1, InitEstablishes, Invariance, PTL DEF Spec, ImplementsBackupStore, Store!Spec

\* The listed backups never exceed the storage limit.
THEOREM NeverAboveLimit == Spec => []WithinLimit
<1>1. IndInv => WithinLimit
  BY DEF IndInv, StoreInv, Catalog, WithinLimit, Store!WithinLimit
<1>2. QED
  BY <1>1, Invariance, PTL

\* After each request no more dumps are left than settings.backup_retention_count,
\* unless the process died in the middle of one.
THEOREM RetentionKept == Spec => []RetentionHonoured
<1>1. IndInv => RetentionHonoured
  BY SameCardinality
  DEF IndInv, StoreInv, LastingInv, Lasting, RetentionHonoured, Store!RetentionHonoured, At
<1>2. QED
  BY <1>1, Invariance, PTL

\* No sweep takes the staging file of a request that still writes it: the timeouts
\* of the writes are below the age at which a file is swept.
THEOREM WritersSpared == Spec => []StagingSpared
<1>1. IndInv => StagingSpared
  BY DEF IndInv, RequestInv, WriteInv, StagingSpared, Gone
<1>2. QED
  BY <1>1, Invariance, PTL

\* The pre-restore dump stays until the restore is over, and pg_restore never runs
\* without it.
THEOREM PreRestoreDumpStays == Spec => PreRestoreDumpKept
<1>1. IndInv /\ [Next]_vars =>
        [/\ Keep # 0 => Keep \in Store!Ids(files')
         /\ At = "restore" => Keep \in Store!Ids(files)]_(Store!vars)
  BY NextImplementsStoreNext, StoreNextKeepsDumps DEF IndInv
<1>2. QED
  BY <1>1, Invariance, PTL
  DEF Spec, PreRestoreDumpKept, Store!PreRestoreDumpKept, At, Keep

\* A dump that fails, times out, is too large or does not fit costs none of the
\* backups that were there when it was asked for.
THEOREM FailureCostsNothing == Spec => FailedBackupCostsNothing
<1>1. IndInv /\ [Next]_vars =>
        [At' = "idle" /\ At \in {"dump", "dumped"} => files' = before]_(Store!vars)
  BY NextImplementsStoreNext, StoreNextKeepsDumps DEF IndInv
<1>2. QED
  BY <1>1, Invariance, PTL
  DEF Spec, FailedBackupCostsNothing, Store!FailedBackupCostsNothing, At
=============================================================================
