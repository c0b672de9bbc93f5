--------------------------- MODULE BackupRequests ---------------------------
(***************************************************************************)
(* The backup endpoints of backend/app/main.py over one directory: POST    *)
(* /admin/backups and POST /admin/backups/restore, of which several may be *)
(* under way and take turns on operation_lock, and GET /admin/backups,     *)
(* which does not take the lock.  pg_dump and the upload write staging     *)
(* files in the backup directory itself; whoever lists the directory, any  *)
(* of the three, deletes staging files that have not been written for an   *)
(* hour.  The process may die after any step and leaves what it has        *)
(* staged.  BackupStore says what the listed files go through; the         *)
(* refinement below shows that they go through nothing else.               *)
(***************************************************************************)
EXTENDS Integers, Sequences, FiniteSets, FiniteSetsExt

CONSTANTS
  Requests,        \* requests for a backup or a restore under way at a time
  Sizes,           \* sizes a dump or an upload may have
  StorageLimit,    \* settings.backup_storage_limit_bytes
  Retentions,      \* values of settings.backup_retention_count
  MaxDumps,        \* bound of the model: dumps and uploads made
  WriteTimeout,    \* the longer of backup_command_ and backup_upload_timeout_seconds
  StagingMaxAge    \* STAGING_BACKUP_MAX_AGE_SECONDS

ASSUME SizesAssumption == Sizes \subseteq Nat \ {0}
ASSUME LimitAssumption == StorageLimit \in Nat \ {0}
ASSUME RetentionAssumption == Retentions \subseteq Nat
ASSUME DumpsAssumption == MaxDumps \in Nat

\* The settings are not checked against each other; by default they are 120 s and
\* 600 s against an hour.
ASSUME TimeoutAssumption ==
  WriteTimeout \in Nat \ {0} /\ StagingMaxAge \in Nat /\ WriteTimeout < StagingMaxAge

VARIABLES
  retention, \* settings.backup_retention_count, which does not change
  files,     \* the listed backups
  queue,     \* operation_lock: its holder, then its waiters in order of arrival
  step,      \* where each request is
  restores,  \* the requests that are restores
  temp,      \* the dump or upload a request has received but not put in place
  staged,    \* age of the staging file of each request since it was written; Gone
             \* when there is none
  leftover,  \* ages of staging files whose request the process did not survive
  kept,      \* pre_restore of each request: id of its dump, 0 if there is none yet
  uploaded,  \* uploaded of each request: id of the file, 0 if it is None
  made, before, crashed   \* history, as in BackupStore

vars == <<retention, files, queue, step, restores, temp, staged, leftover, kept,
          uploaded, made, before, crashed>>

Idle == {r \in Requests : step[r] = "idle"}
Working == {r \in Requests : step[r] \notin {"idle", "queued"}}

\* The request under way: the one that holds the lock.
Current == CHOOSE r \in Working : TRUE
OfCurrent(f, none) == IF Working = {} THEN none ELSE f[Current]

\* What a request does, in the steps of BackupStore.
Phase ==
  [dumping |-> "dump", dumped |-> "dumped", renamed |-> "renamed",
   uploading |-> "upload", uploaded |-> "uploaded", restoring |-> "restore",
   removing |-> "restore"]

NoDump == [id |-> 0, size |-> 0]

Store == INSTANCE BackupStore WITH
  stage <- OfCurrent(temp, NoDump),
  pc <- IF Working = {} THEN "idle" ELSE Phase[step[Current]],
  restore <- Working \cap restores # {},
  kept <- OfCurrent(kept, 0),
  upload <- OfCurrent(uploaded, 0)

Gone == -1
Ages == 0..StagingMaxAge + 1   \* one above the maximum stands for all above it

TypeOK ==
  /\ Store!TypeOK
  /\ queue \in Seq(Requests)
  /\ step \in [Requests -> {"idle", "queued"} \cup DOMAIN Phase]
  /\ restores \in SUBSET Requests
  /\ temp \in [Requests -> Store!File \cup {NoDump}]
  /\ staged \in [Requests -> Ages \cup {Gone}]
  /\ leftover \in SUBSET Ages
  /\ kept \in [Requests -> 0..MaxDumps]
  /\ uploaded \in [Requests -> 0..MaxDumps]

Init ==
  /\ retention \in Retentions
  /\ files = {} /\ queue = <<>> /\ restores = {}
  /\ step = [r \in Requests |-> "idle"]
  /\ temp = [r \in Requests |-> NoDump]
  /\ staged = [r \in Requests |-> Gone]
  /\ leftover = {}
  /\ kept = [r \in Requests |-> 0]
  /\ uploaded = [r \in Requests |-> 0]
  /\ made = 0 /\ before = {} /\ crashed = FALSE
-----------------------------------------------------------------------------
(* Staging files.                                                          *)

\* _cleanup_staging_backups_sync leaves a staging file that was written lately.
Fresh(age) == age <= StagingMaxAge

\* Every listing sweeps the staging files, those of requests under way included.
Sweep(st) ==
  /\ leftover' = {age \in leftover : Fresh(age)}
  /\ staged' = [r \in Requests |-> IF st[r] # Gone /\ Fresh(st[r]) THEN st[r] ELSE Gone]

Older(age) == IF age > StagingMaxAge THEN age ELSE age + 1

\* Mutant of Tick: pg_dump and the upload have no timeout.
TickUntimed ==
  /\ staged' = [r \in Requests |-> IF staged[r] = Gone THEN Gone ELSE Older(staged[r])]
  /\ leftover' = {Older(age) : age \in leftover}
  /\ UNCHANGED <<retention, files, queue, step, restores, temp, kept, uploaded,
                 made, before, crashed>>

\* The write of a dump or an upload ends within its timeout, and what follows it
\* takes no time to speak of.
Tick ==
  /\ \A r \in Requests : staged[r] # Gone => staged[r] < WriteTimeout
  /\ staged' = [r \in Requests |-> IF staged[r] = Gone THEN Gone ELSE Older(staged[r])]
  /\ leftover' = {Older(age) : age \in leftover}
  /\ UNCHANGED <<retention, files, queue, step, restores, temp, kept, uploaded,
                 made, before, crashed>>

\* GET /admin/backups.
List ==
  /\ Sweep(staged)
  /\ UNCHANGED <<retention, files, queue, step, restores, temp, kept, uploaded,
                 made, before, crashed>>
-----------------------------------------------------------------------------
(* Requests.                                                               *)

Goto(r, place) == step' = [step EXCEPT ![r] = place]
HoldsLock(r) == queue # <<>> /\ Head(queue) = r

Arrive(r) ==
  /\ step[r] = "idle"
  /\ Goto(r, "queued")
  /\ queue' = Append(queue, r)
  /\ restores' \in {restores, restores \cup {r}}
  /\ UNCHANGED <<retention, files, temp, staged, leftover, kept, uploaded, made,
                 before, crashed>>

\* The request is answered and hands on the lock; its staging file is deleted.
LeaveWith(r, s) ==
  /\ files' = s
  /\ Goto(r, "idle")
  /\ queue' = Tail(queue)
  /\ restores' = restores \ {r}
  /\ temp' = [temp EXCEPT ![r] = NoDump]
  /\ kept' = [kept EXCEPT ![r] = 0]
  /\ uploaded' = [uploaded EXCEPT ![r] = 0]
  /\ before' = {}
  /\ Sweep([staged EXCEPT ![r] = Gone])
  /\ UNCHANGED <<retention, made, crashed>>

\* create_backup: room for what is there already and 2 GiB on the disk, or 503.
BeginBackup(r) ==
  /\ step[r] = "queued" /\ HoldsLock(r)
  /\ Store!HasRoom(files, {}, 0)
  /\ files' = Store!MakeRoom(files, {}, 0)
  /\ before' = files
  /\ Goto(r, "dumping")
  /\ Sweep([staged EXCEPT ![r] = 0])
  /\ UNCHANGED <<retention, queue, restores, temp, kept, uploaded, made, crashed>>

RefuseBackup(r) == step[r] = "queued" /\ HoldsLock(r) /\ LeaveWith(r, files)

\* pg_dump has ended, or the last chunk of the upload is written; the staging file
\* is looked at once more, and not there if it has been swept.
Write(r, size, from, to) ==
  /\ step[r] = from
  /\ made < MaxDumps
  /\ IF staged[r] = Gone
     THEN LeaveWith(r, files)
     ELSE /\ temp' = [temp EXCEPT ![r] = [id |-> made + 1, size |-> size]]
          /\ staged' = [staged EXCEPT ![r] = 0]
          /\ made' = made + 1
          /\ Goto(r, to)
          /\ UNCHANGED <<retention, files, queue, restores, leftover, kept, uploaded,
                         before, crashed>>

Dump(r, size) == Write(r, size, "dumping", "dumped")

\* Mutant of PutInPlace: no room is made before the file is put in place.
PutAnyway(r, protected, to) ==
  /\ files' = files \cup {temp[r]}
  /\ temp' = [temp EXCEPT ![r] = NoDump]
  /\ Goto(r, to)
  /\ Sweep([staged EXCEPT ![r] = Gone])
  /\ UNCHANGED <<retention, queue, restores, kept, made, before, crashed>>

\* Mutant of PutInPlace: protected_filenames is not passed on.
PutUnprotected(r, protected, to) ==
  /\ Store!HasRoom(files, {}, temp[r].size)
  /\ files' = Store!MakeRoom(files, {}, temp[r].size) \cup {temp[r]}
  /\ temp' = [temp EXCEPT ![r] = NoDump]
  /\ Goto(r, to)
  /\ Sweep([staged EXCEPT ![r] = Gone])
  /\ UNCHANGED <<retention, queue, restores, kept, made, before, crashed>>

\* Room is made, sparing the protected files, and the staging file is renamed.
PutInPlace(r, protected, to) ==
  /\ Store!HasRoom(files, protected, temp[r].size)
  /\ files' = Store!MakeRoom(files, protected, temp[r].size) \cup {temp[r]}
  /\ temp' = [temp EXCEPT ![r] = NoDump]
  /\ Goto(r, to)
  /\ Sweep([staged EXCEPT ![r] = Gone])
  /\ UNCHANGED <<retention, queue, restores, kept, made, before, crashed>>

\* Mutant of Rename: the staging file is renamed before pg_dump has written it.
RenameEarly(r) ==
  /\ step[r] \in {"dumping", "dumped"}
  /\ PutInPlace(r, {}, "renamed")
  /\ UNCHANGED uploaded

Rename(r) ==
  /\ step[r] = "dumped"
  /\ PutInPlace(r, {}, "renamed")
  /\ UNCHANGED uploaded

\* The name of the dump a request has just put in place.
Newest == Max(Store!Ids(files))

\* Mutant of FinishBackup: the new dump is not looked at after pruning.
FinishUnchecked(r) ==
  /\ step[r] = "renamed"
  /\ LET rest == Store!MakeRoom(Store!Prune(files), {Newest}, 0)
     IN IF r \in restores
        THEN /\ files' = rest
             /\ kept' = [kept EXCEPT ![r] = Newest]
             /\ Goto(r, "uploading")
             /\ Sweep([staged EXCEPT ![r] = 0])
             /\ UNCHANGED <<retention, queue, restores, temp, uploaded, made, before,
                            crashed>>
        ELSE LeaveWith(r, rest)

\* Pruning; then path.stat() of the new dump, which retention may have deleted.
\* A backup is answered, a restore goes on to receive its upload.
FinishBackup(r) ==
  /\ step[r] = "renamed"
  /\ LET rest == Store!MakeRoom(Store!Prune(files), {Newest}, 0)
     IN IF r \in restores /\ Newest \in Store!Ids(rest)
        THEN /\ files' = rest
             /\ kept' = [kept EXCEPT ![r] = Newest]
             /\ Goto(r, "uploading")
             /\ Sweep([staged EXCEPT ![r] = 0])
             /\ UNCHANGED <<retention, queue, restores, temp, uploaded, made, before,
                            crashed>>
        ELSE LeaveWith(r, rest)

Upload(r, size) == Write(r, size, "uploading", "uploaded")

StoreUpload(r) ==
  /\ step[r] = "uploaded"
  /\ PutInPlace(r, {kept[r]}, "restoring")
  /\ uploaded' = [uploaded EXCEPT ![r] = temp[r].id]

\* pg_restore has ended, well or not; remove_backup runs in another thread.
Restored(r) ==
  /\ step[r] = "restoring"
  /\ Goto(r, "removing")
  /\ UNCHANGED <<retention, files, queue, restores, temp, staged, leftover, kept,
                 uploaded, made, before, crashed>>

RemoveUpload(r) ==
  /\ step[r] = "removing"
  /\ LeaveWith(r, Store!Without(files, {uploaded[r]}))

\* Mutant of Fail: room is made even for a dump that does not fit.
FailLosingRoom(r) ==
  /\ step[r] \in {"dumping", "dumped", "renamed", "uploading", "uploaded"}
  /\ LeaveWith(r, IF step[r] = "dumped" THEN {} ELSE files)

\* Mutant of Fail: the request hands on the lock at the timeout while pg_dump goes on.
FailLeavingWriter(r) ==
  /\ step[r] = "dumping"
  /\ queue' = Append(Tail(queue), r)
  /\ UNCHANGED <<retention, files, step, restores, temp, staged, leftover, kept,
                 uploaded, made, before, crashed>>

\* pg_dump or the upload fails or reaches its timeout, a file is too large or does
\* not fit: the dump that was put in place but not finished goes as well.
Fail(r) ==
  /\ step[r] \in {"dumping", "dumped", "renamed", "uploading", "uploaded"}
  /\ LeaveWith(r, IF step[r] = "renamed" THEN Store!Without(files, {Newest}) ELSE files)

\* The process dies and is started again.
Crash ==
  /\ Idle # Requests
  /\ step' = [r \in Requests |-> "idle"]
  /\ queue' = <<>> /\ restores' = {}
  /\ temp' = [r \in Requests |-> NoDump]
  /\ leftover' = leftover \cup {staged[r] : r \in {q \in Requests : staged[q] # Gone}}
  /\ staged' = [r \in Requests |-> Gone]
  /\ kept' = [r \in Requests |-> 0]
  /\ uploaded' = [r \in Requests |-> 0]
  /\ before' = {}
  /\ crashed' = (crashed \/ Working # {})
  /\ UNCHANGED <<retention, files, made>>

Next ==
  \/ Tick \/ List \/ Crash
  \/ \E r \in Requests :
       \/ Arrive(r) \/ BeginBackup(r) \/ RefuseBackup(r)
       \/ Rename(r) \/ FinishBackup(r)
       \/ StoreUpload(r) \/ Restored(r) \/ RemoveUpload(r)
       \/ Fail(r)
       \/ \E size \in Sizes : Dump(r, size) \/ Upload(r, size)

Spec == Init /\ [][Next]_vars
-----------------------------------------------------------------------------
\* Requests that arrive together, listings in between and the staging files
\* change the listed backups only as one request after the other would.
ImplementsBackupStore == Store!Spec

\* The listed backups never exceed the storage limit, not even while a dump or an
\* upload is put in place (_make_room_for_upload_sync goes before replace).
WithinLimit == Store!WithinLimit

\* The pre-restore dump stays until the restore is over and beyond, and a restore
\* whose dump retention has deleted never gets as far as pg_restore.
PreRestoreDumpKept == Store!PreRestoreDumpKept

\* A dump that fails, times out or does not fit costs none of the earlier ones.
FailedBackupCostsNothing == Store!FailedBackupCostsNothing

\* After each request at most backup_retention_count dumps are left, unless the
\* process died in the middle of one.
RetentionHonoured == Store!RetentionHonoured

\* No sweep takes the staging file of a request that still writes it, although
\* listings take no lock and stale files are deleted by their age alone.
StagingSpared ==
  \A r \in Requests :
    step[r] \in {"dumping", "dumped", "uploading", "uploaded"} => staged[r] # Gone
=============================================================================
