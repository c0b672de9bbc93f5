---------------------------- MODULE BackupStore ----------------------------
(***************************************************************************)
(* The backup directory (backend/app/services/backup_restore.py) as one    *)
(* request at a time sees it: dumps are staged, renamed into place, and    *)
(* old ones deleted to keep a number and a total size.  POST               *)
(* /admin/backups makes one dump; POST /admin/backups/restore makes a      *)
(* pre-restore dump, stores the uploaded one beside it, runs pg_restore    *)
(* and removes the upload.  Every step may fail, and the process may die   *)
(* after any of them.  BackupRequests implements this with the requests    *)
(* that arrive together, the lock and the staging files.                   *)
(*                                                                         *)
(* Files are numbered in order of modification time: one with a smaller id *)
(* is older.                                                               *)
(***************************************************************************)
EXTENDS Integers, FiniteSets, FiniteSetsExt

CONSTANTS
  Sizes,           \* sizes a dump or an upload may have
  StorageLimit,    \* settings.backup_storage_limit_bytes
  Retentions,      \* values of settings.backup_retention_count, 0 included: it is not bounded
  MaxDumps         \* bound of the model: dumps and uploads made

VARIABLES
  retention, \* settings.backup_retention_count, which does not change
  files,     \* the listed backups: [id, size]
  stage,     \* the staging file of the step under way, once written, or NoFile
  pc,        \* the step of the request under way; "idle" between requests
  restore,   \* the request under way is a restore
  kept,      \* id of the pre-restore dump of that restore, 0 if there is none yet
  upload,    \* id of its uploaded dump, 0 if there is none yet
  made,      \* history: dumps and uploads made so far
  before,    \* history: the files when the request under way began
  crashed    \* history: the process has died in the middle of a request

vars == <<retention, files, stage, pc, restore, kept, upload, made, before, crashed>>

File == [id : 1..MaxDumps, size : Sizes]
NoFile == [id |-> 0, size |-> 0]

TypeOK ==
  /\ retention \in Retentions
  /\ files \in SUBSET File
  /\ stage \in File \cup {NoFile}
  /\ pc \in {"idle", "dump", "dumped", "renamed", "upload", "uploaded", "restore"}
  /\ restore \in BOOLEAN
  /\ kept \in 0..MaxDumps /\ upload \in 0..MaxDumps /\ made \in 0..MaxDumps
  /\ before \in SUBSET File
  /\ crashed \in BOOLEAN

Init ==
  /\ retention \in Retentions
  /\ files = {}
  /\ stage = NoFile
  /\ pc = "idle"
  /\ restore = FALSE
  /\ kept = 0 /\ upload = 0 /\ made = 0
  /\ before = {}
  /\ crashed = FALSE
-----------------------------------------------------------------------------
Size(s) == MapThenSumSet(LAMBDA f : f.size, s)
Ids(s) == {f.id : f \in s}
Without(s, ids) == {f \in s : f.id \notin ids}

\* What is left of s when its unprotected files up to number n are deleted.
Newer(s, protected, n) == {f \in s : f.id > n \/ f.id \in protected}

\* How far that has to go for s and incoming bytes to fit the limit.
Enough(s, protected, incoming) ==
  {n \in 0..MaxDumps : Size(Newer(s, protected, n)) + incoming <= StorageLimit}

\* _enforce_storage_limit_sync and _make_room_for_upload_sync refuse before they
\* delete anything when deleting would not be enough.
HasRoom(s, protected, incoming) == Enough(s, protected, incoming) # {}

MakeRoom(s, protected, incoming) ==
  Newer(s, protected, Min(Enough(s, protected, incoming)))

PruneNothing(s) == s   \* mutant of Prune

\* Retention: the newest files stay, whether or not the dump just made is one.
Prune(s) == {f \in s : Cardinality({g \in s : g.id > f.id}) < retention}

\* The request ends; a restore removes its upload whatever happened.
End(s) ==
  /\ files' = Without(s, {upload})
  /\ stage' = NoFile
  /\ pc' = "idle"
  /\ restore' = FALSE
  /\ kept' = 0 /\ upload' = 0
  /\ before' = {}
  /\ UNCHANGED <<retention, made, crashed>>
-----------------------------------------------------------------------------
\* create_backup: what is above the limit goes first, then pg_dump is started.
Begin(isRestore) ==
  /\ pc = "idle"
  /\ HasRoom(files, {}, 0)
  /\ files' = MakeRoom(files, {}, 0)
  /\ before' = files
  /\ pc' = "dump"
  /\ restore' = isRestore
  /\ UNCHANGED <<retention, stage, kept, upload, made, crashed>>

\* pg_dump has written its staging file, or the upload has been received.
Written(size, from, to) ==
  /\ pc = from
  /\ made < MaxDumps
  /\ stage' = [id |-> made + 1, size |-> size]
  /\ made' = made + 1
  /\ pc' = to
  /\ UNCHANGED <<retention, files, restore, kept, upload, before, crashed>>

Dumped(size) == Written(size, "dump", "dumped")
Uploaded(size) == Written(size, "upload", "uploaded")

\* Room is made for it and it is renamed into place.
Rename ==
  /\ pc = "dumped"
  /\ HasRoom(files, {}, stage.size)
  /\ files' = MakeRoom(files, {}, stage.size) \cup {stage}
  /\ stage' = NoFile
  /\ pc' = "renamed"
  /\ UNCHANGED <<retention, restore, kept, upload, made, before, crashed>>

\* Old dumps are pruned and the limit is enforced once more, sparing the new one.
\* When retention has not spared it the request fails with FileNotFoundError.
Finish ==
  /\ pc = "renamed"
  /\ LET new == Max(Ids(files))
         rest == MakeRoom(Prune(files), {new}, 0)
     IN IF restore /\ new \in Ids(rest)
        THEN /\ files' = rest
             /\ kept' = new
             /\ pc' = "upload"
             /\ UNCHANGED <<retention, stage, restore, upload, made, before, crashed>>
        ELSE End(rest)

\* save_uploaded_backup puts the upload beside the pre-restore dump, which must stay.
StoreUpload ==
  /\ pc = "uploaded"
  /\ HasRoom(files, {kept}, stage.size)
  /\ files' = MakeRoom(files, {kept}, stage.size) \cup {stage}
  /\ upload' = stage.id
  /\ stage' = NoFile
  /\ pc' = "restore"
  /\ UNCHANGED <<retention, restore, kept, made, before, crashed>>

\* pg_restore has read the upload.
Restored == pc = "restore" /\ End(files)

\* A tool fails or times out, there is no room, or a dump is too large: the staging
\* file goes, and so does a dump that was put in place but not finished.
Fail ==
  /\ pc # "idle"
  /\ End(IF pc = "renamed" THEN Without(files, {Max(Ids(files))}) ELSE files)

\* The process dies.  The listed files stay, an upload included.
Crash ==
  /\ pc # "idle"
  /\ stage' = NoFile
  /\ pc' = "idle"
  /\ restore' = FALSE
  /\ kept' = 0 /\ upload' = 0
  /\ before' = {}
  /\ crashed' = TRUE
  /\ UNCHANGED <<retention, files, made>>

Next ==
  \/ \E isRestore \in BOOLEAN : Begin(isRestore)
  \/ \E size \in Sizes : Dumped(size) \/ Uploaded(size)
  \/ Rename \/ Finish
  \/ StoreUpload \/ Restored
  \/ Fail \/ Crash

Spec == Init /\ [][Next]_vars
-----------------------------------------------------------------------------
\* The listed backups never exceed the storage limit, not even while a new dump
\* or an upload is put in place.
WithinLimit == Size(files) <= StorageLimit

\* From the moment it is made the pre-restore dump is there until the restore is
\* over and beyond, whatever has to be deleted to store the upload; and a restore
\* whose dump retention has deleted at once never gets as far as pg_restore.
PreRestoreDumpKept ==
  [][/\ kept # 0 => kept \in Ids(files')
     /\ pc = "restore" => kept \in Ids(files)]_vars

\* A backup that does not come about - pg_dump fails or times out, its dump is too
\* large or does not fit - costs none of the earlier ones.
FailedBackupCostsNothing ==
  [][pc' = "idle" /\ pc \in {"dump", "dumped"} => files' = before]_vars

\* No more than the retained number of dumps is left after a request, uploads
\* included, unless the process died in the middle of one.
RetentionHonoured == pc = "idle" /\ ~crashed => Cardinality(files) <= retention
=============================================================================
