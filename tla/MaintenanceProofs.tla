------------------------- MODULE MaintenanceProofs --------------------------
(***************************************************************************)
(* Theorems about Maintenance, for any number of requests of each kind and *)
(* any size of the pool.  QueueInv is the meaning of operation_lock: who   *)
(* takes a turn is at the head of the queue, and everybody else in the     *)
(* queue waits.                                                            *)
(***************************************************************************)
EXTENDS Maintenance, FiniteSetTheorems, TLAPS

\* Where those are who have been given the lock.
AtTurn(p) ==
  \/ pc[p] \in {"collecting", "dumping", "uploading", "locking", "restoring"}
  \/ p = Scheduler /\ pc[p] \in {"connecting", "reading"}

InQueue(p) == pc[p] = "queued" \/ AtTurn(p)

QueueInv ==
  /\ \A i, j \in 1..Len(queue) : queue[i] = queue[j] => i = j
  /\ \A p \in Procs : InQueue(p) <=> \E i \in 1..Len(queue) : queue[i] = p
  /\ \A p \in Procs : AtTurn(p) => HoldsLock(p)

\* Nothing has been committed since the dump of a restore under way.
DumpCurrent ==
  \A p \in Restores :
    pc[p] \in {"dumping", "uploading", "locking", "restoring"} => ~changed[p]

\* Who reads has a connection to read with.
ConnectedReads == \A p \in Procs : pc[p] = "reading" => p \in conns

IndInv == QueueInv /\ DumpCurrent /\ ConnectedReads /\ IsFiniteSet(conns)

USE PoolAssumption, SchedulerAssumption
-----------------------------------------------------------------------------
(* The queue of the lock.                                                  *)

\* An element appended to a sequence is its last one; the others stay.
LEMMA AppendFacts ==
  ASSUME NEW S, NEW s \in Seq(S), NEW e \in S
  PROVE  /\ Append(s, e) \in Seq(S)
         /\ Len(Append(s, e)) = Len(s) + 1
         /\ Append(s, e)[Len(s) + 1] = e
         /\ \A i \in 1..Len(s) : Append(s, e)[i] = s[i]
  OBVIOUS

\* The tail of a sequence holds all of its elements but the first, one place up.
LEMMA TailFacts ==
  ASSUME NEW S, NEW s \in Seq(S), s # <<>>
  PROVE  /\ Tail(s) \in Seq(S)
         /\ Len(Tail(s)) = Len(s) - 1
         /\ Len(s) >= 1
         /\ Head(s) = s[1]
         /\ \A i \in 1..Len(Tail(s)) : Tail(s)[i] = s[i + 1]
  OBVIOUS

\* Two at their turn are one: both hold the lock.
LEMMA OneTurn ==
  ASSUME QueueInv, NEW p \in Procs, NEW o \in Procs, AtTurn(p), AtTurn(o)
  PROVE  p = o
  BY DEF QueueInv, HoldsLock

\* Who joins the queue is new to it, and behind whoever has the turn.
LEMMA WaitKeepsQueueInv ==
  ASSUME TypeOK, QueueInv, NEW p \in Procs, ~InQueue(p), Wait(p)
  PROVE  QueueInv'
<1>1. /\ Len(queue) \in Nat
      /\ Len(queue') = Len(queue) + 1
      /\ queue'[Len(queue) + 1] = p
      /\ \A i \in 1..Len(queue) : queue'[i] = queue[i]
      /\ queue' \in Seq(Procs)
  BY AppendFacts DEF Wait, TypeOK
<1>2. \A i \in 1..Len(queue) : queue[i] # p
  BY DEF QueueInv
<1>3. \A i, j \in 1..Len(queue') : queue'[i] = queue'[j] => i = j
  BY <1>1, <1>2 DEF QueueInv
<1>4. pc'[p] = "queued" /\ \A o \in Procs \ {p} : pc'[o] = pc[o]
  BY DEF Wait, Goto, TypeOK
<1>5. ASSUME NEW o \in Procs
      PROVE  InQueue(o)' <=> \E i \in 1..Len(queue') : queue'[i] = o
  <2>1. CASE o = p
    BY <1>1, <1>4, <2>1 DEF InQueue
  <2>2. CASE o # p
    <3>1. InQueue(o)' <=> InQueue(o)
      BY <1>4, <2>2 DEF InQueue, AtTurn
    <3>2. (\E i \in 1..Len(queue') : queue'[i] = o) <=> (\E i \in 1..Len(queue) : queue[i] = o)
      BY <1>1, <2>2
    <3>3. QED
      BY <3>1, <3>2 DEF QueueInv
  <2>3. QED
    BY <2>1, <2>2
<1>6. ASSUME NEW o \in Procs, AtTurn(o)'
      PROVE  HoldsLock(o)'
  <2>1. AtTurn(o)
    BY <1>4, <1>6 DEF AtTurn
  <2>2. queue # <<>> /\ Head(queue) = o
    BY <2>1 DEF QueueInv, HoldsLock
  <2>3. Len(queue) >= 1 /\ queue[1] = o
    BY <2>2, TailFacts DEF TypeOK
  <2>4. queue' # <<>>
    BY <1>1
  <2>5. QED
    BY <1>1, <2>3, <2>4, TailFacts DEF HoldsLock
<1>7. QED
  BY <1>3, <1>5, <1>6 DEF QueueInv

\* The holder that gives the lock back takes its place with it; nobody else is
\* at the turn yet.
LEMMA ReleaseKeepsQueueInv ==
  ASSUME TypeOK, QueueInv, NEW p \in Procs, HoldsLock(p), queue' = Tail(queue),
         ~InQueue(p)', \A o \in Procs \ {p} : pc'[o] = pc[o]
  PROVE  QueueInv'
<1>1. /\ queue \in Seq(Procs) /\ queue # <<>> /\ queue[1] = p
      /\ Len(queue) \in Nat /\ Len(queue) >= 1
      /\ Len(queue') = Len(queue) - 1
      /\ \A i \in 1..Len(queue') : queue'[i] = queue[i + 1]
  BY TailFacts DEF HoldsLock, TypeOK
<1>2. \A i, j \in 1..Len(queue') : queue'[i] = queue'[j] => i = j
  BY <1>1 DEF QueueInv
<1>3. \A i \in 1..Len(queue') : queue'[i] # p
  BY <1>1 DEF QueueInv
<1>4. ASSUME NEW o \in Procs
      PROVE  InQueue(o)' <=> \E i \in 1..Len(queue') : queue'[i] = o
  <2>1. CASE o = p
    BY <1>3, <2>1
  <2>2. CASE o # p
    <3>1. ASSUME NEW i \in 1..Len(queue), queue[i] = o
          PROVE  \E k \in 1..Len(queue') : queue'[k] = o
      <4>1. i # 1
        BY <1>1, <2>2, <3>1
      <4>2. i - 1 \in 1..Len(queue') /\ queue'[i - 1] = o
        BY <1>1, <3>1, <4>1
      <4>3. QED
        BY <4>2
    <3>2. (\E i \in 1..Len(queue') : queue'[i] = o) => (\E i \in 1..Len(queue) : queue[i] = o)
      BY <1>1
    <3>3. InQueue(o)' <=> InQueue(o)
      BY <2>2 DEF InQueue, AtTurn
    <3>4. QED
      BY <3>1, <3>2, <3>3 DEF QueueInv
  <2>3. QED
    BY <2>1, <2>2
<1>5. \A o \in Procs : ~AtTurn(o)'
  <2>1. ASSUME NEW o \in Procs, AtTurn(o)' PROVE FALSE
    <3>1. o # p
      BY <2>1 DEF InQueue
    <3>2. AtTurn(o)
      BY <2>1, <3>1 DEF AtTurn
    <3>3. QED
      BY <3>1, <3>2 DEF QueueInv, HoldsLock
  <2>2. QED
    BY <2>1
<1>6. QED
  BY <1>2, <1>4, <1>5 DEF QueueInv

\* Who goes on without joining or leaving the queue, and is at its turn only with
\* the lock, keeps it in order.
LEMMA StayKeepsQueueInv ==
  ASSUME QueueInv, NEW p \in Procs, UNCHANGED queue,
         \A o \in Procs \ {p} : pc'[o] = pc[o],
         InQueue(p)' <=> InQueue(p), AtTurn(p)' => AtTurn(p) \/ HoldsLock(p)
  PROVE  QueueInv'
<1>1. ASSUME NEW o \in Procs
      PROVE  InQueue(o)' <=> InQueue(o)
  BY DEF InQueue, AtTurn
<1>2. ASSUME NEW o \in Procs, AtTurn(o)'
      PROVE  HoldsLock(o)'
  <2>1. CASE o = p
    BY <1>2, <2>1 DEF QueueInv, HoldsLock
  <2>2. CASE o # p
    BY <1>2, <2>2 DEF QueueInv, HoldsLock, AtTurn
  <2>3. QED
    BY <2>1, <2>2
<1>3. QED
  BY <1>1, <1>2 DEF QueueInv

\* Who leaves the lock in any other place than the queue keeps it in order.
LEMMA LeaveKeepsQueueInv ==
  ASSUME TypeOK, QueueInv, NEW p \in Procs, pc[p] # "queued", Leave(p)
  PROVE  QueueInv'
<1>1. pc'[p] = "idle" /\ \A o \in Procs \ {p} : pc'[o] = pc[o]
  BY DEF Leave, Goto, TypeOK
<1>2. ~InQueue(p)' /\ ~AtTurn(p)'
  BY <1>1 DEF InQueue, AtTurn
<1>3. CASE HoldsLock(p)
  BY <1>1, <1>2, <1>3, ReleaseKeepsQueueInv DEF Leave
<1>4. CASE ~HoldsLock(p)
  <2>1. ~InQueue(p)
    BY <1>4 DEF QueueInv, InQueue
  <2>2. QED
    BY <1>1, <1>2, <1>4, <2>1, StayKeepsQueueInv DEF Leave
<1>5. QED
  BY <1>3, <1>4
-----------------------------------------------------------------------------
(* Types, connections, and what the tables hold.                           *)

Typed == TypeOK /\ IsFiniteSet(conns)

\* Leaving frees at most one connection and one place in the queue.
LEMMA LeaveTyped ==
  ASSUME Typed, NEW p \in Procs, Leave(p)
  PROVE  /\ queue' \in Seq(Procs)
         /\ conns' \in SUBSET Procs /\ IsFiniteSet(conns') /\ Cardinality(conns') <= PoolSize
         /\ sharing' \in SUBSET conns'
<1>1. queue' \in Seq(Procs)
  <2>1. CASE HoldsLock(p)
    BY <2>1, TailFacts DEF HoldsLock, Leave, Typed, TypeOK
  <2>2. CASE ~HoldsLock(p)
    BY <2>2 DEF Leave, Typed, TypeOK
  <2>3. QED
    BY <2>1, <2>2
<1>2. conns' \subseteq conns
  BY DEF Leave
<1>3. IsFiniteSet(conns') /\ Cardinality(conns') <= Cardinality(conns)
  BY <1>2, FS_Subset DEF Typed
<1>4. Cardinality(conns') <= PoolSize
  <2>1. Cardinality(conns) \in Nat /\ Cardinality(conns') \in Nat
    BY <1>3, FS_CardinalityType DEF Typed
  <2>2. QED
    BY <1>3, <2>1 DEF Typed, TypeOK
<1>5. QED
  BY <1>1, <1>2, <1>3, <1>4 DEF Leave, Typed, TypeOK

\* Every step of a task or request keeps the types.
LEMMA StepTyped ==
  ASSUME Typed, QueueInv, ConnectedReads, NEW p \in Procs, Step(p), UNCHANGED schedulerEnabled
  PROVE  Typed'
<1>1. CASE Leave(p) /\ (UNCHANGED changed \/ changed' = [r \in Restores |-> TRUE])
  <2>1. pc' = [pc EXCEPT ![p] = "idle"]
    BY <1>1 DEF Leave, Goto
  <2>2. changed' \in [Restores -> BOOLEAN]
    BY <1>1 DEF Typed, TypeOK
  <2>3. QED
    BY <1>1, <2>1, <2>2, LeaveTyped DEF Typed, TypeOK
<1>2. CASE Connect(p)
  <2>1. /\ IsFiniteSet(conns')
        /\ Cardinality(conns') = Cardinality(conns) \/ Cardinality(conns') = Cardinality(conns) + 1
    BY <1>2, FS_AddElement DEF Connect, Typed
  <2>2. Cardinality(conns) \in Nat /\ Cardinality(conns) < PoolSize
    BY <1>2, FS_CardinalityType DEF Connect, Typed
  <2>3. Cardinality(conns') <= PoolSize
    BY <2>1, <2>2
  <2>4. pc' = [pc EXCEPT ![p] = "reading"] \/ pc' = [pc EXCEPT ![p] = "refreshing"]
    BY <1>2 DEF Connect, Goto
  <2>5. QED
    BY <1>2, <2>1, <2>3, <2>4 DEF Connect, Typed, TypeOK
<1>3. CASE Read(p)
  <2>1. p \in conns
    BY <1>3 DEF Read, ConnectedReads
  <2>2. QED
    BY <1>3, <2>1 DEF Read, Goto, Typed, TypeOK
<1>4. CASE ManualWaits(p)
  BY <1>4, AppendFacts DEF ManualWaits, Wait, Goto, Typed, TypeOK
<1>5. CASE BeginCollection(p)
  BY <1>5 DEF BeginCollection, Goto, Typed, TypeOK
<1>6. CASE EndCollection(p) /\ ~Leave(p)
  <2>1. HoldsLock(p)
    BY <1>6 DEF EndCollection, QueueInv, AtTurn
  <2>2. queue' \in Seq(Procs)
    <3>1. queue \in Seq(Procs) /\ queue # <<>>
      BY <2>1 DEF HoldsLock, Typed, TypeOK
    <3>2. queue' = Tail(queue)
      BY <1>6 DEF EndCollection
    <3>3. QED
      BY ONLY <3>1, <3>2, TailFacts
  <2>3. conns' = conns \ {p} /\ sharing' = sharing \ {p}
    BY <1>6 DEF EndCollection
  <2>4. IsFiniteSet(conns') /\ Cardinality(conns') <= PoolSize
    <3>1. IsFiniteSet(conns') /\ Cardinality(conns') <= Cardinality(conns)
      BY <2>3, FS_Subset DEF Typed
    <3>2. Cardinality(conns) \in Nat /\ Cardinality(conns') \in Nat
      BY <3>1, FS_CardinalityType DEF Typed
    <3>3. QED
      BY <3>1, <3>2 DEF Typed, TypeOK
  <2>5. QED
    BY <1>6, <2>2, <2>3, <2>4 DEF EndCollection, Goto, Typed, TypeOK
<1>7. CASE StartDump(p)
  BY <1>7 DEF StartDump, Goto, Typed, TypeOK
<1>8. CASE EndDump(p) /\ ~Leave(p)
  BY <1>8 DEF EndDump, Goto, Typed, TypeOK
<1>9. CASE EndUpload(p) \/ TakeTables(p)
  BY <1>9 DEF EndUpload, TakeTables, Goto, Typed, TypeOK
<1>10. QED
  BY <1>1, <1>2, <1>3, <1>4, <1>5, <1>6, <1>7, <1>8, <1>9
     DEF Step, PoolTimeout, Answer, EndCollection, Refresh, EndDump, EndRestore, ToolFails

\* Every step of a task or request keeps the queue of the lock in order.
LEMMA StepKeepsQueueInv ==
  ASSUME Typed, QueueInv, NEW p \in Procs, Step(p)
  PROVE  QueueInv'
<1> USE DEF Typed
<1>1. ASSUME NEW place, pc' = [pc EXCEPT ![p] = place]
      PROVE  pc'[p] = place /\ \A o \in Procs \ {p} : pc'[o] = pc[o]
  BY <1>1 DEF TypeOK
<1>2. CASE Leave(p) /\ pc[p] # "queued"
  BY <1>2, LeaveKeepsQueueInv
<1>3. CASE Connect(p)
  <2>1. CASE pc[p] = "connecting"
    BY <1>1, <1>3, <2>1, StayKeepsQueueInv DEF Connect, Goto, InQueue, AtTurn
  <2>2. CASE pc[p] = "reconnecting"
    BY <1>1, <1>3, <2>2, StayKeepsQueueInv DEF Connect, Goto, InQueue, AtTurn
  <2>3. QED
    BY <1>3, <2>1, <2>2 DEF Connect, Connecting
<1>4. CASE Read(p)
  <2>1. p = Scheduler => p \notin Manuals \cup Readers
    OBVIOUS
  <2>2. QED
    BY <1>1, <1>4, StayKeepsQueueInv DEF Read, Goto, InQueue, AtTurn
<1>5. CASE ManualWaits(p)
  BY <1>5, WaitKeepsQueueInv DEF ManualWaits, InQueue, AtTurn
<1>6. CASE BeginCollection(p)
  BY <1>1, <1>6, StayKeepsQueueInv DEF BeginCollection, Goto, InQueue, AtTurn
<1>7. CASE EndCollection(p) /\ ~Leave(p)
  <2>1. HoldsLock(p)
    BY <1>7 DEF EndCollection, QueueInv, AtTurn
  <2>2. queue' = Tail(queue) /\ pc' = [pc EXCEPT ![p] = "reconnecting"]
    BY <1>7 DEF EndCollection, Goto
  <2>3. pc'[p] = "reconnecting" /\ \A o \in Procs \ {p} : pc'[o] = pc[o]
    BY <1>1, <2>2
  <2>4. ~InQueue(p)'
    BY ONLY <2>3 DEF InQueue, AtTurn
  <2>5. QED
    BY ONLY TypeOK, QueueInv, p \in Procs, <2>1, <2>2, <2>3, <2>4, ReleaseKeepsQueueInv
<1>8. CASE StartDump(p)
  BY <1>1, <1>8, StayKeepsQueueInv DEF StartDump, Goto, InQueue, AtTurn
<1>9. CASE EndDump(p) /\ ~Leave(p)
  BY <1>1, <1>9, StayKeepsQueueInv DEF EndDump, Goto, InQueue, AtTurn
<1>10. CASE EndUpload(p) \/ TakeTables(p)
  BY <1>1, <1>10, StayKeepsQueueInv DEF EndUpload, TakeTables, Goto, InQueue, AtTurn
<1>11. QED
  BY <1>2, <1>3, <1>4, <1>5, <1>6, <1>7, <1>8, <1>9, <1>10
     DEF Step, PoolTimeout, Connecting, Answer, EndCollection, Refresh, EndDump, EndRestore, ToolFails

\* A step moves only the task or request that takes it; only Connect leads to the
\* reading of tables, and only a dump to the later parts of a restore.
LEMMA StepMoves ==
  ASSUME Typed, NEW p \in Procs, Step(p)
  PROVE  /\ \A o \in Procs \ {p} : pc'[o] = pc[o]
         /\ pc'[p] = "reading" => Connect(p)
         /\ pc'[p] = "dumping" => StartDump(p)
         /\ pc'[p] \in {"uploading", "locking", "restoring"} =>
              pc[p] \in {"dumping", "uploading", "locking"}
<1>1. ASSUME NEW place, pc' = [pc EXCEPT ![p] = place]
      PROVE  pc'[p] = place /\ \A o \in Procs \ {p} : pc'[o] = pc[o]
  BY <1>1 DEF Typed, TypeOK
<1>2. CASE Leave(p) \/ Wait(p)
  <2>1. pc' = [pc EXCEPT ![p] = "idle"] \/ pc' = [pc EXCEPT ![p] = "queued"]
    BY <1>2 DEF Leave, Wait, Goto
  <2>2. QED
    BY <1>1, <2>1
<1>3. CASE Connect(p)
  <2>1. pc' = [pc EXCEPT ![p] = "reading"] \/ pc' = [pc EXCEPT ![p] = "refreshing"]
    BY <1>3 DEF Connect, Goto
  <2>2. QED
    BY <1>1, <1>3, <2>1
<1>10. CASE StartDump(p)
  BY <1>1, <1>10 DEF StartDump, Goto
<1>4. CASE Read(p)
  <2>1. pc' = [pc EXCEPT ![p] = "collecting"] \/ pc' = [pc EXCEPT ![p] = "checked"]
    BY <1>4 DEF Read, Goto
  <2>2. QED
    BY <1>1, <1>4, <2>1
<1>5. CASE BeginCollection(p)
  <2>1. pc' = [pc EXCEPT ![p] = "connecting"] \/ pc' = [pc EXCEPT ![p] = "collecting"]
    BY <1>5 DEF BeginCollection, Goto
  <2>2. QED
    BY <1>1, <1>5, <2>1
<1>6. CASE EndCollection(p) /\ ~Leave(p)
  BY <1>1, <1>6 DEF EndCollection, Goto
<1>7. CASE EndDump(p) /\ ~Leave(p)
  BY <1>1, <1>7 DEF EndDump, Goto
<1>8. CASE EndUpload(p) \/ TakeTables(p)
  BY <1>1, <1>8 DEF EndUpload, TakeTables, Goto
<1>9. QED
  BY <1>2, <1>3, <1>4, <1>5, <1>6, <1>7, <1>8, <1>10
     DEF Step, PoolTimeout, Answer, ManualWaits, EndCollection, Refresh, EndDump, EndRestore, ToolFails

\* A restore's own dump is out of date only for one that is not under way:
\* whoever changes the tables has the turn the restore would need.
LEMMA StepKeepsDumpCurrent ==
  ASSUME Typed, QueueInv, DumpCurrent, NEW p \in Procs, Step(p)
  PROVE  DumpCurrent'
<1> DEFINE UnderWay(r) == pc[r] \in {"dumping", "uploading", "locking", "restoring"}
<1> SUFFICES ASSUME NEW r \in Restores, UnderWay(r)' PROVE ~changed'[r]
  BY DEF DumpCurrent
<1>1. r \in Procs
  BY DEF Procs
<1>2. ASSUME NEW place, pc' = [pc EXCEPT ![p] = place]
      PROVE  pc'[p] = place /\ \A o \in Procs \ {p} : pc'[o] = pc[o]
  BY <1>2 DEF Typed, TypeOK
<1>3. CASE EndCollection(p) \/ EndRestore(p)
  <2>1. AtTurn(p)
    BY <1>3 DEF EndCollection, EndRestore, AtTurn
  <2>2. r # p
    <3>1. pc' = [pc EXCEPT ![p] = "idle"] \/ pc' = [pc EXCEPT ![p] = "reconnecting"]
      BY <1>3 DEF EndCollection, EndRestore, Leave, Goto
    <3>2. pc'[p] \in {"idle", "reconnecting"}
      BY <1>2, <3>1
    <3>3. QED
      BY ONLY <3>2, UnderWay(r)'
  <2>3. UnderWay(r)
    BY <1>1, <1>2, <1>3, <2>2 DEF EndCollection, EndRestore, Leave, Goto
  <2>4. AtTurn(r)
    BY <2>3 DEF AtTurn
  <2>5. QED
    BY <1>1, <2>1, <2>2, <2>4, OneTurn
<1>4. CASE StartDump(p)
  <2>1. CASE r = p
    BY <1>4, <2>1 DEF StartDump
  <2>2. CASE r # p
    BY <1>1, <1>2, <1>4, <2>2 DEF StartDump, Goto, DumpCurrent
  <2>3. QED
    BY <2>1, <2>2
<1>5. CASE UNCHANGED changed
  <2>1. CASE StartDump(p)
    BY <1>4, <2>1
  <2>2. CASE ~StartDump(p)
    BY <1>1, <1>5, <2>2, StepMoves DEF DumpCurrent
  <2>3. QED
    BY <2>1, <2>2
<1>6. QED
  BY <1>3, <1>4, <1>5
     DEF Step, Connect, PoolTimeout, Read, Answer, ManualWaits, Wait, BeginCollection,
         Refresh, EndDump, EndUpload, TakeTables, ToolFails

\* Whoever reads took a connection first, and gives it back when it is done.
LEMMA StepKeepsConnected ==
  ASSUME Typed, ConnectedReads, NEW p \in Procs, Step(p)
  PROVE  ConnectedReads'
<1> SUFFICES ASSUME NEW o \in Procs, pc'[o] = "reading" PROVE o \in conns'
  BY DEF ConnectedReads
<1>1. CASE o = p
  BY <1>1, StepMoves DEF Connect
<1>2. CASE o # p
  <2>1. o \in conns
    BY <1>2, StepMoves DEF ConnectedReads
  <2>2. conns \ {p} \subseteq conns'
    BY DEF Step, Connect, PoolTimeout, Read, Answer, ManualWaits, Wait, BeginCollection,
           EndCollection, Refresh, StartDump, EndDump, EndUpload, TakeTables, EndRestore,
           ToolFails, Leave
  <2>3. QED
    BY <1>2, <2>1, <2>2
<1>3. QED
  BY <1>1, <1>2

\* What arrives for the database waits for a connection, what arrives for the lock
\* joins its queue.
LEMMA ArrivalKeepsIndInv ==
  ASSUME TypeOK, IndInv, NEW p \in Procs, Arrive(p) \/ ArriveAtLock(p),
         UNCHANGED schedulerEnabled
  PROVE  TypeOK' /\ IndInv'
<1>1. ASSUME NEW place, pc' = [pc EXCEPT ![p] = place]
      PROVE  pc'[p] = place /\ \A o \in Procs \ {p} : pc'[o] = pc[o]
  BY <1>1 DEF TypeOK
<1>2. QueueInv'
  <2>1. CASE Arrive(p)
    <3>1. p # Scheduler
      BY <2>1 DEF Arrive
    <3>2. QED
      BY <1>1, <2>1, <3>1, StayKeepsQueueInv DEF Arrive, Goto, InQueue, AtTurn, IndInv
  <2>2. CASE ArriveAtLock(p)
    BY <2>2, WaitKeepsQueueInv DEF ArriveAtLock, InQueue, AtTurn, IndInv
  <2>3. QED
    BY <2>1, <2>2
<1>3. TypeOK'
  <2>1. CASE Arrive(p)
    BY <2>1 DEF Arrive, Goto, TypeOK
  <2>2. CASE ArriveAtLock(p)
    <3>1. pc' = [pc EXCEPT ![p] = "queued"] /\ queue' = Append(queue, p)
      BY <2>2 DEF ArriveAtLock, Wait, Goto
    <3>2. queue' \in Seq(Procs)
      BY ONLY <3>1, p \in Procs, TypeOK, AppendFacts DEF TypeOK
    <3>3. conns' = conns /\ sharing' = sharing /\ changed' = changed
      BY <2>2 DEF ArriveAtLock, Wait
    <3>4. QED
      BY <3>1, <3>2, <3>3 DEF TypeOK
  <2>3. QED
    BY <2>1, <2>2
<1>4. DumpCurrent' /\ ConnectedReads'
  <2>1. ASSUME NEW r \in Restores
        PROVE  pc'[r] \in {"dumping", "uploading", "locking", "restoring"} => ~changed'[r]
    <3>1. r \in Procs
      BY DEF Procs
    <3>2. QED
      BY <1>1, <3>1 DEF Arrive, ArriveAtLock, Wait, Goto, IndInv, DumpCurrent
  <2>2. ASSUME NEW o \in Procs
        PROVE  pc'[o] = "reading" => o \in conns'
    BY <1>1 DEF Arrive, ArriveAtLock, Wait, Goto, IndInv, ConnectedReads
  <2>3. QED
    BY <2>1, <2>2 DEF DumpCurrent, ConnectedReads
<1>5. QED
  BY <1>2, <1>3, <1>4 DEF Arrive, ArriveAtLock, Wait, IndInv
-----------------------------------------------------------------------------
(* The theorems.                                                           *)

\* Nothing is under way when the backend starts.
LEMMA InitEstablishes ==
  ASSUME Init
  PROVE  TypeOK /\ IndInv
<1>1. IsFiniteSet(conns) /\ Cardinality(conns) = 0
  BY FS_EmptySet DEF Init
<1>2. TypeOK
  BY <1>1 DEF Init, TypeOK
<1>3. QueueInv
  BY DEF Init, QueueInv, InQueue, AtTurn
<1>4. DumpCurrent /\ ConnectedReads
  BY DEF Init, DumpCurrent, ConnectedReads, Procs
<1>5. QED
  BY <1>1, <1>2, <1>3, <1>4 DEF IndInv

\* Every step keeps the types and the inductive invariant.
LEMMA NextKeepsIndInv ==
  ASSUME TypeOK, IndInv, [Next]_vars
  PROVE  TypeOK' /\ IndInv'
<1>1. ASSUME NEW p \in Procs, Step(p), UNCHANGED schedulerEnabled
      PROVE  TypeOK' /\ IndInv'
  BY <1>1, StepTyped, StepKeepsQueueInv, StepKeepsDumpCurrent, StepKeepsConnected
     DEF Typed, IndInv
<1>2. CASE UNCHANGED vars
  BY <1>2 DEF vars, TypeOK, IndInv, QueueInv, InQueue, AtTurn, HoldsLock, DumpCurrent,
              ConnectedReads
<1>3. QED
  BY <1>1, <1>2, ArrivalKeepsIndInv DEF Next

\* operation_lock has one holder at a time, who is at the head of its queue, and
\* the pool never hands out more connections than it has.
THEOREM Invariance == Spec => [](TypeOK /\ IndInv)
  BY InitEstablishes, NextKeepsIndInv, PTL DEF Spec

\* A restore discards nothing that its pre-restore dump does not hold: collections
\* and other restores wait for the lock it has had since before that dump
\* (app.main.restore_backup).
THEOREM NothingLost == Spec => []RestoreLosesNothing
<1>1. IndInv => RestoreLosesNothing
  BY DEF IndInv, DumpCurrent, RestoreLosesNothing
<1>2. QED
  BY <1>1, Invariance, PTL

\* No two of the operations that take turns - a collection that stores, a backup,
\* a restore - are at it at once.
THEOREM OneAtATime ==
  Spec => [](\A p, o \in Procs : AtTurn(p) /\ AtTurn(o) => p = o)
<1>1. IndInv => \A p, o \in Procs : AtTurn(p) /\ AtTurn(o) => p = o
  BY OneTurn DEF IndInv
<1>2. QED
  BY <1>1, Invariance, PTL
=============================================================================
