---------------------------- MODULE Maintenance ----------------------------
(***************************************************************************)
(* Everything that takes turns on operation_lock in the backend process -  *)
(* collections, backups, restores - with the two other resources those     *)
(* turns need: a pooled database connection and table locks in PostgreSQL. *)
(* A manual collection reads the tables before it waits for the lock and   *)
(* keeps its connection and its share locks while it waits; the scheduler  *)
(* asks for a connection only when it has the lock; pg_restore --clean     *)
(* needs every table for itself.  What a collection does with its turn is  *)
(* in Collection, what backups do to the backup directory in BackupStore.  *)
(***************************************************************************)
EXTENDS Integers, Sequences, FiniteSets

CONSTANTS
  Scheduler,          \* the _run_scheduler task
  Manuals,            \* POST /admin/collect requests
  Backups,            \* POST /admin/backups requests
  Restores,           \* POST /admin/backups/restore requests
  Readers,            \* GET requests
  PoolSize            \* connections the pool hands out (pool_size + max_overflow)

Procs == {Scheduler} \cup Manuals \cup Backups \cup Restores \cup Readers

ASSUME PoolAssumption == PoolSize \in Nat \ {0}
ASSUME SchedulerAssumption == Scheduler \notin Manuals \cup Readers

VARIABLES
  schedulerEnabled,  \* settings.enable_scheduler, which does not change
  queue,     \* operation_lock: its holder, then its waiters in order of arrival
  pc,        \* where each task or request is
  conns,     \* who holds a pooled connection
  sharing,   \* whose transaction has share locks on the tables
  changed    \* history: the tables changed since the restore's own dump began

vars == <<schedulerEnabled, queue, pc, conns, sharing, changed>>

TypeOK ==
  /\ schedulerEnabled \in BOOLEAN
  /\ queue \in Seq(Procs)
  /\ pc \in [Procs -> {"idle", "connecting", "reading", "checked", "queued",
       "collecting", "reconnecting", "refreshing", "dumping", "uploading", "locking",
       "restoring"}]
  /\ conns \in SUBSET Procs /\ Cardinality(conns) <= PoolSize
  /\ sharing \in SUBSET conns
  /\ changed \in [Restores -> BOOLEAN]

Init ==
  /\ schedulerEnabled \in BOOLEAN
  /\ queue = <<>>
  /\ pc = [p \in Procs |-> "idle"]
  /\ conns = {}
  /\ sharing = {}
  /\ changed = [p \in Restores |-> FALSE]
-----------------------------------------------------------------------------
HoldsLock(p) == queue # <<>> /\ Head(queue) = p

\* A restore that waits for the tables or has them keeps new readers out.
TablesTaken == \E p \in Restores : pc[p] \in {"locking", "restoring"}

Goto(p, place) == pc' = [pc EXCEPT ![p] = place]

\* The request is answered, or the tick is over: session and lock are given back.
Leave(p) ==
  /\ Goto(p, "idle")
  /\ queue' = IF HoldsLock(p) THEN Tail(queue) ELSE queue
  /\ conns' = conns \ {p}
  /\ sharing' = sharing \ {p}

Wait(p) ==
  /\ queue' = Append(queue, p)
  /\ Goto(p, "queued")
  /\ UNCHANGED <<conns, sharing, changed>>

\* A request arrives that first reads the database.
Arrive(p) ==
  /\ p \in Manuals \cup Readers
  /\ pc[p] = "idle"
  /\ Goto(p, "connecting")
  /\ UNCHANGED <<queue, conns, sharing, changed>>

\* A task or request that goes for the lock at once; a restore is refused (409)
\* as long as the scheduler is enabled.
ArriveAtLock(p) ==
  /\ pc[p] = "idle"
  /\ \/ p = Scheduler /\ schedulerEnabled
     \/ p \in Backups
     \/ p \in Restores /\ ~schedulerEnabled
  /\ Wait(p)
-----------------------------------------------------------------------------
(* Database sessions.                                                      *)

Connecting(p) == pc[p] \in {"connecting", "reconnecting"}

\* The first statement of a session, and the first one after a commit, takes a
\* connection from the pool.
Connect(p) ==
  /\ Connecting(p)
  /\ Cardinality(conns) < PoolSize
  /\ conns' = conns \cup {p}
  /\ Goto(p, IF pc[p] = "connecting" THEN "reading" ELSE "refreshing")
  /\ UNCHANGED <<queue, sharing, changed>>

\* Mutant of PoolTimeout: a session waits for a connection as long as it takes.
PoolTimeoutNever(p) ==
  /\ Connecting(p)
  /\ Cardinality(conns) > PoolSize
  /\ Leave(p)
  /\ UNCHANGED changed

\* The pool stays empty for pool_timeout: the statement, and the request, fail.
PoolTimeout(p) ==
  /\ Connecting(p)
  /\ Cardinality(conns) = PoolSize
  /\ Leave(p)
  /\ UNCHANGED changed

\* It then waits in PostgreSQL while a restore has or wants the tables.
Read(p) ==
  /\ pc[p] = "reading"
  /\ ~TablesTaken
  /\ sharing' = sharing \cup {p}
  /\ Goto(p, IF p = Scheduler THEN "collecting" ELSE "checked")
  /\ UNCHANGED <<queue, conns, changed>>

\* A reader is answered; so is a manual collection its checks refuse (429, 409).
Answer(p) == pc[p] = "checked" /\ Leave(p) /\ UNCHANGED changed

\* A manual collection that passed its checks waits for the lock, its transaction
\* still open.
ManualWaits(p) == p \in Manuals /\ pc[p] = "checked" /\ Wait(p)

\* The lock is granted to a collection.  A manual one has read the tables already.
BeginCollection(p) ==
  /\ p \in Manuals \cup {Scheduler}
  /\ pc[p] = "queued" /\ HoldsLock(p)
  /\ Goto(p, IF p = Scheduler THEN "connecting" ELSE "collecting")
  /\ UNCHANGED <<queue, conns, sharing, changed>>

\* Its run is committed, and with it the share locks and the connection go; with new
\* snapshots it refreshes the analytics cache without the lock, in a transaction of
\* its own (as a failed manual one reads the rate limit again).
EndCollection(p) ==
  /\ pc[p] = "collecting"
  /\ changed' = [r \in Restores |-> TRUE]
  /\ \/ Leave(p)
     \/ /\ Goto(p, "reconnecting")
        /\ queue' = Tail(queue)
        /\ conns' = conns \ {p}
        /\ sharing' = sharing \ {p}

Refresh(p) ==
  /\ pc[p] = "refreshing"
  /\ ~TablesTaken
  /\ Leave(p)
  /\ UNCHANGED changed
-----------------------------------------------------------------------------
(* Backups and restores: create_backup, save_uploaded_backup, restore_backup. *)

StartDumpUnlocked(p) ==   \* mutant of StartDump: the dump is made before the lock
  /\ p \in Backups \cup Restores
  /\ pc[p] = "queued"
  /\ Goto(p, "dumping")
  /\ changed' = [r \in Restores |-> IF r = p THEN FALSE ELSE changed[r]]
  /\ UNCHANGED <<queue, conns, sharing>>

\* pg_dump reads the tables as they are when it starts.
StartDump(p) ==
  /\ p \in Backups \cup Restores
  /\ pc[p] = "queued" /\ HoldsLock(p)
  /\ Goto(p, "dumping")
  /\ changed' = [r \in Restores |-> IF r = p THEN FALSE ELSE changed[r]]
  /\ UNCHANGED <<queue, conns, sharing>>

EndDump(p) ==
  /\ pc[p] = "dumping"
  /\ IF p \in Restores
     THEN Goto(p, "uploading") /\ UNCHANGED <<queue, conns, sharing>>
     ELSE Leave(p)
  /\ UNCHANGED changed

EndUpload(p) ==
  /\ pc[p] = "uploading"
  /\ Goto(p, "locking")
  /\ UNCHANGED <<queue, conns, sharing, changed>>

\* pg_restore drops the tables once nobody reads them any more.
TakeTables(p) ==
  /\ pc[p] = "locking"
  /\ sharing = {}
  /\ Goto(p, "restoring")
  /\ UNCHANGED <<queue, conns, sharing, changed>>

EndRestore(p) ==
  /\ pc[p] = "restoring"
  /\ changed' = [r \in Restores |-> TRUE]
  /\ Leave(p)

\* Mutant of ToolFails: the tools run without a timeout.
ToolFailsUntimed(p) ==
  /\ pc[p] \in {"dumping", "uploading", "restoring"}
  /\ Leave(p)
  /\ UNCHANGED changed

\* pg_dump, the upload or pg_restore fails or reaches its timeout: 503.
ToolFails(p) ==
  /\ pc[p] \in {"dumping", "uploading", "locking", "restoring"}
  /\ Leave(p)
  /\ UNCHANGED changed
-----------------------------------------------------------------------------
Step(p) ==
  \/ Connect(p) \/ PoolTimeout(p) \/ Read(p) \/ Answer(p) \/ ManualWaits(p)
  \/ BeginCollection(p) \/ EndCollection(p) \/ Refresh(p)
  \/ StartDump(p) \/ EndDump(p) \/ EndUpload(p)
  \/ TakeTables(p) \/ EndRestore(p) \/ ToolFails(p)

Next ==
  /\ \E p \in Procs : Arrive(p) \/ ArriveAtLock(p) \/ Step(p)
  /\ UNCHANGED schedulerEnabled

Spec == Init /\ [][Next]_vars

\* Whatever can go on does, a timeout included; nothing makes requests arrive.
\* PostgreSQL grants table locks in order of arrival: who waits behind a restore
\* is not overtaken by the next one for ever.
FairSpec ==
  /\ Spec
  /\ \A p \in Procs : WF_vars(Step(p) /\ UNCHANGED schedulerEnabled)
  /\ \A p \in Procs \ (Backups \cup Restores) : SF_vars((Read(p) \/ Refresh(p)) /\ UNCHANGED schedulerEnabled)
-----------------------------------------------------------------------------
\* A restore discards nothing that its pre-restore dump does not hold: no
\* collection commits between that dump and pg_restore (operation_lock is held
\* throughout).
RestoreLosesNothing == \A p \in Restores : pc[p] = "restoring" => ~changed[p]

\* Connections, table locks and operation_lock are taken in different orders, so
\* that a manual collection waits for a restore that waits for its transaction,
\* and the scheduler for connections of requests that wait for the scheduler; the
\* timeouts get everybody out of it.
EverybodyIsAnswered == \A p \in Procs : pc[p] # "idle" ~> pc[p] = "idle"
=============================================================================
