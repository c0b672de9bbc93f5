SPECIFICATION FairSpec
CONSTANTS
  Scheduler = scheduler
  Manuals = {m1}
  Backups = {b1}
  Restores = {s1, s2}
  Readers = {g1}
  PoolSize = 1
INVARIANTS RestoreLosesNothing
PROPERTIES EverybodyIsAnswered
