------------------------------ MODULE Answers -------------------------------
(***************************************************************************)
(* What a provider's answer says (backend/app/services/parsers.py), and    *)
(* what PostgreSQL accepts of it: the columns and check constraints of     *)
(* parking_snapshots and parking_fee_rules (backend/app/models.py).        *)
(*                                                                         *)
(* An item is a record of its fields, and a field is what its text can be  *)
(* read as: a number, a time, a name, or Garbled, or Absent, or Endless,   *)
(* which float() takes for infinity.  The text around a number is          *)
(* abstracted away.  Times are those of Fees.tla's day or any other count  *)
(* of instants.  Two Booleans say what the database makes of its other     *)
(* texts: `named`, that its names, and the ids made of them, fit their     *)
(* String(120); `kept`, that the item fits raw_item_json (JSONB takes no   *)
(* NUL character and no NaN).                                              *)
(*                                                                         *)
(* An answer that is no list of such records, or has a number where a name *)
(* or KAC's time belongs, is not modelled.                                 *)
(***************************************************************************)
EXTENDS Integers, Sequences, SequencesExt

CONSTANTS
  Garbled, Absent,  \* texts that are no number and no time; missing or short ones
  Endless,          \* "inf", or a number beyond the largest float
  MaxInteger,       \* the largest number of an Integer column
  AirportOfName,    \* KAC_AIRPORT_NAME_TO_CODE, by every name an item may have
  Supported,        \* supported_airport_codes
  Spelling,         \* KAC_LOT_NAME_NORMALIZATION, by every spelling an item may have
  Profiles          \* INCHEON_FEE_PROFILES: [fee, max : ids, lots : prefixes]

ASSUME TextAssumption ==
  /\ {Garbled, Absent, Endless} \cap Int = {}
  /\ Garbled # Absent /\ Endless \notin {Garbled, Absent}

ASSUME IntegerAssumption == MaxInteger \in Nat \ {0}

Null == 0 - 1
Kinds == {"small weekday", "small holiday", "large weekday", "large holiday"}

Highest(a, b) == IF a >= b THEN a ELSE b

\* _safe_int: what cannot be read counts as zero.  At Endless it raises OverflowError,
\* which nobody catches, so that it is asked only of answers that are readable.
Number(text) == IF text \in Int THEN text ELSE 0

\* A missing or short time becomes the time of the run; one that strptime or to_utc
\* refuses is Garbled, and the parser raises.
Instant(text, now) == IF text = Absent THEN now ELSE text
-----------------------------------------------------------------------------
(* Observations of lots.  A KAC item is [airport, lot, full, stay, at], an  *)
(* Incheon item [floor, area, parked, at], each with `named` and `kept`.    *)

\* round(occupied / total * 100, 1), in tenths of a percent; a tie goes down.
Ratio(occupied, total) ==
  IF total > 0 THEN (2000 * occupied + total - 1) \div (2 * total) ELSE Null

\* Mutant of LotName: the spelling of the answer is kept.
LotNameVerbatim(text) == IF text = Absent THEN "a parking lot" ELSE text

LotName(text) == IF text = Absent THEN "a parking lot" ELSE Spelling[text]

KacObservation(item, now) ==
  [airport |-> AirportOfName[item.airport], source |-> "kac_parking",
   lot |-> LotName(item.lot), at |-> Instant(item.at, now),
   occupied |-> Number(item.stay), total |-> Number(item.full),
   ratio |-> Ratio(Number(item.stay), Number(item.full)),
   named |-> item.named, kept |-> item.kept]

\* An item of an airport that is unknown or not asked for is passed over unread.
AskedFor(item) == AirportOfName[item.airport] \in Supported

ParseKacParking(items, now) ==
  FoldLeft(LAMBDA parsed, i : IF AskedFor(i) THEN Append(parsed, KacObservation(i, now))
                              ELSE parsed,
           <<>>, items)

KacParkingReadable(items) ==
  \A i \in ToSet(items) : AskedFor(i) => i.at # Garbled /\ Endless \notin {i.full, i.stay}

IncheonParkingReadable(items) ==
  \A i \in ToSet(items) : i.at # Garbled /\ Endless \notin {i.parked, i.area}

ParseIncheonParking(items, now) ==
  [i \in DOMAIN items |->
     [airport |-> "ICN", source |-> "incheon_parking",
      lot |-> IF items[i].floor = Absent THEN "ICN lot" ELSE items[i].floor,
      at |-> Instant(items[i].at, now), occupied |-> Number(items[i].parked),
      total |-> Number(items[i].area), ratio |-> Null,
      named |-> items[i].named, kept |-> items[i].kept]]

Available(o) == Highest(o.total - o.occupied, 0)

\* Airport and lot are written for every observation: their names, and the total as
\* total_spaces_hint, which may be negative.
LotFits(o) == o.named /\ o.total \in (0 - MaxInteger - 1)..MaxInteger

\* The columns of a row, and the checks ck_snapshot_*; available_spaces is computed
\* when the row is made.
SnapshotFits(o) ==
  /\ o.kept /\ o.occupied <= MaxInteger /\ o.total <= MaxInteger
  /\ o.occupied >= 0 /\ o.total >= 0 /\ Available(o) <= o.total
  /\ o.ratio = Null \/ o.ratio \in 0..1000
-----------------------------------------------------------------------------
(* Fee rules.  A KAC item is [airport, lot, says, kept], where says has an  *)
(* entry for every kind whose fees it has.  An Incheon item is a            *)
(* description [char, first, over, minutes, won, at, kept]: its charid,     *)
(* whether it begins with "the first" and whether it has "beyond", its      *)
(* first hh:mm and amount, 0 for none, and its time.  Of an airport that is *)
(* not in the database yet the name is assumed to fit.                      *)

KacTariff(said) ==
  [free |-> Number(said.free), basicMinutes |-> Number(said.basicMinutes),
   basicFee |-> Number(said.basicFee), unitMinutes |-> Highest(1, Number(said.unitMinutes)),
   unitFee |-> Number(said.unitFee), dailyMax |-> Number(said.dailyMax)]

ParseKacFee(items) ==
  UNION {{[lot |-> i.lot, kind |-> kind, tariff |-> KacTariff(i.says[kind]), kept |-> i.kept] :
            kind \in Kinds \cap DOMAIN i.says} : i \in ToSet(items)}

KacFeesReadable(items) ==
  \A i \in ToSet(items) : \A kind \in Kinds \cap DOMAIN i.says :
    \A field \in DOMAIN i.says[kind] : i.says[kind][field] # Endless

NoText ==
  [char |-> Absent, first |-> FALSE, over |-> FALSE, minutes |-> 0, won |-> 0, at |-> Absent,
   kept |-> TRUE]

\* The first of the descriptions chosen, or an empty one.
FirstOf(items, chosen) ==
  IF chosen = {} THEN NoText
  ELSE items[CHOOSE i \in chosen : \A j \in chosen : i <= j]

Described(items, char) == {i \in DOMAIN items : char # Absent /\ items[i].char = char}

\* _build_incheon_fee_rule: without a basic fee, that of the first unit is charged.
IncheonTariff(items, profile) ==
  LET fees == Described(items, profile.fee)
      basic == FirstOf(items, {i \in fees : items[i].first})
      unit == FirstOf(items, {i \in fees : items[i].over})
      charged == IF basic = NoText THEN unit ELSE basic
      unitMinutes == IF unit.minutes = 0 THEN charged.minutes ELSE unit.minutes
  IN [free |-> 0, basicMinutes |-> charged.minutes, basicFee |-> charged.won,
      unitMinutes |-> Highest(1, unitMinutes), unitFee |-> unit.won,
      dailyMax |-> FirstOf(items, Described(items, profile.max)).won]

\* Mutant of Announced: a profile that has descriptions is taken as it is.
AnnouncedAnyway(items, profile) == Described(items, profile.fee) # {}

\* A profile without descriptions, a duration or an amount makes no rule.
Announced(items, profile) ==
  /\ Described(items, profile.fee) # {}
  /\ LET tariff == IncheonTariff(items, profile)
     IN tariff.basicMinutes > 0 /\ tariff.basicFee > 0

\* A rule keeps all the descriptions of its profile.
AllKept(items, profile) ==
  \A i \in Described(items, profile.fee) \cup Described(items, profile.max) : items[i].kept

ParseIncheonFee(items) ==
  UNION {{[lot |-> lot, kind |-> kind, tariff |-> IncheonTariff(items, p), kept |-> AllKept(items, p)] :
            lot \in p.lots, kind \in Kinds} : p \in {q \in Profiles : Announced(items, q)}}

\* Of a profile the amounts of the basic and of the unit fee are read, and that of the
\* daily maximum once the profile is known to make a rule.
AmountsReadable(items, profile) ==
  LET fees == Described(items, profile.fee)
      won(chosen) == FirstOf(items, chosen).won
  IN fees # {} =>
       /\ won({i \in fees : items[i].first}) # Endless
       /\ won({i \in fees : items[i].over}) # Endless
       /\ Announced(items, profile) => won(Described(items, profile.max)) # Endless

\* The time of the rules is that of the first item that has one.
IncheonFeesReadable(items) ==
  /\ FirstOf(items, {i \in DOMAIN items : items[i].at # Absent}).at # Garbled
  /\ \A p \in Profiles : AmountsReadable(items, p)

\* The columns of a rule, and the checks ck_fee_rule_*.
RuleFits(tariff) ==
  /\ \A field \in DOMAIN tariff : tariff[field] <= MaxInteger
  /\ tariff.free >= 0 /\ tariff.basicMinutes > 0 /\ tariff.unitMinutes > 0
  /\ tariff.basicFee >= 0 /\ tariff.unitFee >= 0 /\ tariff.dailyMax >= 0
=============================================================================
