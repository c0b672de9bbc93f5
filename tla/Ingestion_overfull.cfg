SPECIFICATION Spec
CONSTANTS
  Garbled = Garbled
  Absent = Absent
  Endless = Endless
  MaxInteger = 99999
  AirportOfName <- MCAirportOfName
  Supported = {"GMP"}
  Spelling <- MCSpelling
  Profiles <- MCProfiles
  Names <- MCNames
  AirportOfLot <- MCAirportOfLot
  SourceIdOf <- MCSourceIdOf
  SampleLots <- MCSampleLots
  OldLots <- MCOldLots
  LiveAnswers <- MCFullAnswers
  Fixture <- MCFixture
  MaxTime = 1
INVARIANTS AnswersTraced
CHECK_DEADLOCK FALSE
