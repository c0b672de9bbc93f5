SPECIFICATION Spec
CONSTANTS
  Requests = {r1, r2}
  Sizes = {2, 3}
  StorageLimit = 5
  Retentions = {0, 2}
  MaxDumps = 5
  WriteTimeout = 1
  StagingMaxAge = 2
INVARIANTS WithinLimit RetentionHonoured StagingSpared
PROPERTIES PreRestoreDumpKept FailedBackupCostsNothing ImplementsBackupStore
CHECK_DEADLOCK FALSE
