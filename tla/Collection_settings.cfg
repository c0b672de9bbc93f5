SPECIFICATION FairSpec
CONSTANTS
  Scheduler = scheduler
  Requests = {r1}
  l1 = l1
  l2 = l2
  SchedulerEnabled = TRUE
  Settings <- BothSettings
  Lots <- MCLots
  LotsOf <- MCLotsOf
  Interval = 1
  Cooldown = 1
  Backoff = 2
  MaxTime = 2
  MaxRuns = 2
  MaxRestarts = 1
INVARIANTS RunsTakeTurns ObservationsStoredOnce SnapshotsHaveTheirRun BackoffHonoured
PROPERTIES ImplementsRunLog RequestsAnswered
CHECK_DEADLOCK FALSE
