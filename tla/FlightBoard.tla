----------------------------- MODULE FlightBoard -----------------------------
(***************************************************************************)
(* What GET /flights/status makes of a provider's answer                   *)
(* (backend/app/services/flight_status.py): parsing, the two sections of   *)
(* Incheon, and one marker for the codeshare numbers of a flight.          *)
(*                                                                         *)
(* Times are minutes of local time, a day is 1440 of them.  Flight numbers *)
(* and places are model values; a field the code finds empty or cannot     *)
(* read is Blank.  Airline, remark and line of a marker are left out.      *)
(***************************************************************************)
EXTENDS Integers

CONSTANT Blank

ASSUME BlankAssumption == Blank \notin Int

MinutesPerDay == 1440
At(date, minute) == date * MinutesPerDay + minute

FirstOf(a, b) == IF a # Blank THEN a ELSE b
-----------------------------------------------------------------------------
(* Parsing.                                                                *)

\* `io` is the provider's flag, `remark` what the status texts say.
Direction(io, remark) ==
  CASE io = "O" \/ remark = "departed"                     -> "departure"
    [] io # "O" /\ remark # "departed" /\ (io = "I" \/ remark = "arrived") -> "arrival"
    [] OTHER                                               -> "unknown"

\* An item without number or readable schedule is dropped.
Usable(raw) == raw.number # Blank /\ raw.std # Blank

Flight(direction, number, scheduled, estimated, origin, destination) ==
  [direction |-> direction, number |-> number, scheduled |-> scheduled,
   marker |-> FirstOf(estimated, scheduled), origin |-> origin, destination |-> destination]

\* _parse_kac_detail_flight_item: both times are times of day on the flight's date.
KacFlight(raw, airport, localDate) ==
  LET date == FirstOf(raw.date, localDate)
      direction == Direction(raw.io, raw.remark)
      estimated == IF raw.etd = Blank THEN Blank ELSE At(date, raw.etd)
      here(d) == IF direction = d THEN airport ELSE "-"
  IN Flight(direction, raw.number, At(date, raw.std), estimated,
            FirstOf(raw.from, here("departure")), FirstOf(raw.to, here("arrival")))

\* _parse_flight_item of the XML answer: no flight date, and a city for the far end.
XmlFlight(raw, airport, localDate) ==
  LET direction == Direction(raw.io, raw.remark)
      estimated == IF raw.etd = Blank THEN Blank ELSE At(localDate, raw.etd)
      far == FirstOf(raw.city, "-")
      arrives == direction = "arrival"
  IN Flight(direction, raw.number, At(localDate, raw.std), estimated,
            FirstOf(raw.from, IF arrives THEN far ELSE airport),
            FirstOf(raw.to, IF arrives THEN airport ELSE far))

\* _combine_local_datetime_text: the text has a date, or is a time of localDate.
DateTime(text, localDate) ==
  IF text = Blank THEN Blank ELSE At(FirstOf(text.date, localDate), text.minute)

\* _parse_incheon_flight_item; `std` and `etd` are such texts.
IncheonFlight(raw, direction, localDate) ==
  LET far == FirstOf(raw.city, "-")
  IN Flight(direction, raw.number, DateTime(raw.std, localDate), DateTime(raw.etd, localDate),
            IF direction = "departure" THEN "ICN" ELSE far,
            IF direction = "departure" THEN far ELSE "ICN")
-----------------------------------------------------------------------------
(* Codeshares: flights of one direction, time and route are one marker.    *)

KeyOf(flight) == <<flight.direction, flight.marker, flight.origin, flight.destination>>

Marker(flights, key) ==
  [key |-> key, numbers |-> {f.number : f \in {g \in flights : KeyOf(g) = key}}]

Board(flights) == {Marker(flights, KeyOf(f)) : f \in flights}
-----------------------------------------------------------------------------
(* Answers.  `raised` is "no", "limited" or "other"; a section or a list   *)
(* that carries an error has no items.                                     *)

KacBoard(answer, airport, localDate) ==
  Board({KacFlight(raw, airport, localDate) : raw \in {r \in answer.items : Usable(r)}})

SectionItems(section) == IF section.failed THEN {} ELSE section.items

IncheonBoard(answer, localDate) ==
  LET of(section, direction) ==
        {IncheonFlight(raw, direction, localDate) : raw \in {r \in SectionItems(section) : Usable(r)}}
  IN Board(of(answer.departures, "departure") \cup of(answer.arrivals, "arrival"))

SectionsFailed(answer) ==
  IF "items" \in DOMAIN answer THEN answer.failed
  ELSE answer.departures.failed \/ answer.arrivals.failed

\* The status decides how long the answer is kept: a section that failed makes the
\* whole answer an error although the other one is shown.
FlightStatus(answer) ==
  CASE answer.raised = "limited"                              -> "limited"
    [] answer.raised = "other"                                -> "error"
    [] answer.raised = "no" /\ SectionsFailed(answer)         -> "error"
    [] answer.raised = "no" /\ ~SectionsFailed(answer)        -> "success"
=============================================================================
