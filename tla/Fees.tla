-------------------------------- MODULE Fees --------------------------------
(***************************************************************************)
(* What a stay costs: the rules POST /fees/calculate picks from            *)
(* parking_fee_rules (backend/app/main.py) and what calculate_total_fee    *)
(* makes of them (backend/app/services/fee_calculator.py), for one airport *)
(* and one vehicle size.                                                   *)
(*                                                                         *)
(* Times are whole seconds of Korean local time, which has no daylight     *)
(* saving, from the midnight before some Monday.  Fees are won.            *)
(***************************************************************************)
EXTENDS Integers, FiniteSetsExt

Day == 86400
DayTypes == {"weekday", "holiday"}
Generic == 0            \* parking_lot_id IS NULL

Tariff == [free : Nat, basicMinutes : Nat, basicFee : Nat,
           unitMinutes : Nat, unitFee : Nat, dailyMax : Nat]

Larger(a, b) == IF a >= b THEN a ELSE b
Smaller(a, b) == IF a <= b THEN a ELSE b
-----------------------------------------------------------------------------
(* The rules of a quote; a rule is [lot, day, tariff].                     *)

RulesOfLot(rules, lot) == {r \in rules : r.lot = lot}

\* The lot's own rules before the generic ones; for the airport as a whole the
\* generic ones, or else those of the lot with the lowest id that has any.
RulesFor(rules, lot) ==
  LET own == RulesOfLot(rules, lot)
      generic == RulesOfLot(rules, Generic)
  IN CASE lot # Generic -> own \cup {g \in generic : \A r \in own : r.day # g.day}
       [] lot = Generic /\ generic # {} -> generic
       [] OTHER -> {r \in rules : \A s \in rules : r.lot <= s.lot}

\* calculate_total_fee refuses to go on without both.
Complete(rules) == {r.day : r \in rules} = DayTypes

TariffOf(rules, day) == (CHOOSE r \in rules : r.day = day).tariff
-----------------------------------------------------------------------------
(* split_by_local_day: chunk 0 is on the day of the entry.                 *)

DaysOf(entry, exit) == 0..((exit - 1) \div Day - entry \div Day)

ChunkStart(entry, i) == Larger(entry, (entry \div Day + i) * Day)
ChunkEnd(entry, exit, i) == Smaller(exit, (entry \div Day + i + 1) * Day)

\* Saturday and Sunday; public holidays are not asked for.
DayType(time) == IF (time \div Day) % 7 >= 5 THEN "holiday" ELSE "weekday"
-----------------------------------------------------------------------------
(* The fee of one day.                                                     *)

CeilDiv(n, d) == (n + d - 1) \div d

Minutes(seconds) == Larger(1, CeilDiv(seconds, 60))
Billable(tariff, minutes) == Larger(0, minutes - tariff.free)
Remaining(tariff, billable) == Larger(0, billable - Larger(tariff.basicMinutes, 1))
Units(tariff, billable) == CeilDiv(Remaining(tariff, billable), Larger(tariff.unitMinutes, 1))

Uncapped(tariff, billable) == tariff.basicFee + Units(tariff, billable) * tariff.unitFee

DayFee(tariff, seconds) ==
  LET billable == Billable(tariff, Minutes(seconds))
      fee == Uncapped(tariff, billable)
  IN CASE billable = 0 -> 0
       [] billable > 0 /\ tariff.dailyMax > 0 -> Smaller(fee, tariff.dailyMax)
       [] OTHER -> fee

TotalFee(rules, entry, exit) ==
  LET tariff == [d \in DayTypes |-> TariffOf(rules, d)]
  IN MapThenSumSet(LAMBDA i : DayFee(tariff[DayType(ChunkStart(entry, i))],
                                     ChunkEnd(entry, exit, i) - ChunkStart(entry, i)),
                   DaysOf(entry, exit))
=============================================================================
