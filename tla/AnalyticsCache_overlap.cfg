SPECIFICATION FairSpec
CONSTANTS
  Scheduler = s
  Manuals = {m1}
  LastKey = 3
  MaxCrashes = 1
INVARIANTS OverlapStalesFirstRowOnly NoCircularWait LatestRefreshWhole
PROPERTIES CacheCatchesUp
