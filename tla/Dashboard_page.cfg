SPECIFICATION FairSpec
CONSTANTS
  Airports = {"GMP", "PUS"}
  Requests = {q1, q2}
  Polls = {p1}
  MaxVersion = 2
  MaxClicks = 2
INVARIANTS SelectionShown AnalyticsOfSelection PlaceholderGone
PROPERTIES NeverOlder SelectionRestored FreshDataShown
CHECK_DEADLOCK FALSE
