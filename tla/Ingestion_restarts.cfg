SPECIFICATION Spec
CONSTANTS
  Garbled = Garbled
  Absent = Absent
  Endless = Endless
  MaxInteger = 99999
  AirportOfName <- MCAirportOfName
  Supported = {"GMP"}
  Spelling <- MCSpelling
  Profiles <- MCProfiles
  Names <- MCNames
  AirportOfLot <- MCAirportOfLot
  SourceIdOf <- MCSourceIdOf
  SampleLots <- MCSampleLots
  OldLots <- MCOldLots
  LiveAnswers <- MCLiveAnswers
  Fixture <- MCFixture
  MaxTime = 1
INVARIANTS OnlyTheseRaise
PROPERTIES OneHistory
CHECK_DEADLOCK FALSE
