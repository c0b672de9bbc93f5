SPECIFICATION Spec
CONSTANTS
  Width = 2
  Buckets = 4
  Future = 1
  Capacity = 220
  HourMinutes = 4
  HoursOfDay = 2
  Names <- MCNames
  OldLots <- MCOldLots
  OldName <- MCOldName
  Incheon = TRUE
  StartsWith <- MCStartsWith
  FeeAnswers <- MCFeeAnswers
  Times = {5, 9}
  Frees = {9, 50}
  MaxRows = 3
  EventLimit = 2
CHECK_DEADLOCK FALSE
INVARIANTS SeriesMeansLatest CrossingsTellLevel EachReadingOnce DownCrossingsReal
PROPERTIES ReadingsKept NoNewSplit AgreementKept PricesKept
