SPECIFICATION FairSpec
CONSTANTS
  Flights = {"gmp", "icn"}
  TwoCalls = {"icn"}
  Months = {"may"}
  Viewers = {v1, v2}
  FlightTtl = 2
  Backoff = 5
  HolidayTtl = 3
  Timeout = 1
  Window = 2
  MaxExhausted = 1
  Blank = Blank
  LastDate = 1
  MonthOf <- MCMonthOf
  FlightAnswers <- MCFlightAnswers
  MonthAnswers <- MCMonthAnswers
PROPERTIES QuietAfterAnswer QuotaComesBack HolidaysRecover
