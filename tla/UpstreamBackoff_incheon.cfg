SPECIFICATION FairBackoffSpec
CONSTANTS
  Interval = 2
  BackoffTime = 5
  WithIncheon = TRUE
  ManualEnabled = FALSE
  Duration = 3

PROPERTIES KacRetried
