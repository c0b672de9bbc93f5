SPECIFICATION FairBackoffSpec
CONSTANTS
  Interval = 2
  BackoffTime = 5
  WithIncheon = FALSE
  ManualEnabled = TRUE
  Duration = 3
PROPERTIES NoBurst BlockNotExtended KacRetried
