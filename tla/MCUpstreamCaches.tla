-------------------------- MODULE MCUpstreamCaches --------------------------
(* Answers of every kind: raised, an error in the body, a section that      *)
(* failed, nothing listed, something listed.                                *)
EXTENDS UpstreamCaches

MCMonthOf == [d \in 0..1 |-> d]

Section(failed) == [failed |-> failed, items |-> {}]
Incheon(raised, departures, arrivals) ==
  [raised |-> raised, departures |-> Section(departures), arrivals |-> Section(arrivals)]

MCFlightAnswers ==
  {Incheon("limited", FALSE, FALSE), Incheon("other", FALSE, FALSE),
   Incheon("no", TRUE, FALSE), Incheon("no", FALSE, FALSE),
   [raised |-> "no", failed |-> FALSE, items |-> {}]}

Month(raised, code) == [raised |-> raised, code |-> code, items |-> {}]
MCMonthAnswers == {Month(TRUE, "none"), Month(FALSE, "22"), Month(FALSE, "00"), Month(FALSE, "none")}
=============================================================================
