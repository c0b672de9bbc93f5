SPECIFICATION Spec
CONSTANTS
  Scheduler = scheduler
  Requests = {r1}
  l1 = l1
  l2 = l2
  SchedulerEnabled = TRUE
  Settings <- KacSettings
  Lots <- MCLots
  LotsOf <- MCLotsOf
  Interval = 1
  Cooldown = 1
  Backoff = 2
  MaxTime = 2
  MaxRuns = 2
  MaxRestarts = 0
INVARIANTS ManualCooldownHonoured
CHECK_DEADLOCK FALSE
