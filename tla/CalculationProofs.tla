-------------------------- MODULE CalculationProofs --------------------------
(***************************************************************************)
(* What holds of the calculations of the program for every input: the      *)
(* price of a stay, what the parsers make of a provider's answer next to   *)
(* what the tables accept, and what a green cutover gate tells.  Then what *)
(* holds of a deployment over its restarts, whatever is answered: when a   *)
(* run can raise, and that the lots of KAC keep one history each.          *)
(***************************************************************************)
EXTENDS Ingestion, Fees, CutoverGate, FiniteSetTheorems, WellFoundedInduction, TLAPS

-----------------------------------------------------------------------------
(* The price of a stay, for every tariff, every set of rules and every stay. *)

\* Dividing upwards by a positive number gives a natural number and keeps order.
LEMMA CeilDivMonotone ==
  ASSUME NEW m \in Nat, NEW n \in Nat, m <= n, NEW d \in Nat \ {0}
  PROVE  CeilDiv(m, d) \in Nat /\ CeilDiv(m, d) <= CeilDiv(n, d)
<1>1. (m + d - 1) \in Nat /\ (n + d - 1) \in Nat
  OBVIOUS
<1>2. \A a, b \in Nat : a <= b => a \div d \in Nat /\ a \div d <= b \div d
  <2> SUFFICES ASSUME NEW a \in Nat, NEW b \in Nat, a <= b
               PROVE  a \div d \in Nat /\ a \div d <= b \div d
    OBVIOUS
  <2>1. a = d * (a \div d) + (a % d) /\ b = d * (b \div d) + (b % d)
    OBVIOUS
  <2>2. a % d \in 0..(d - 1) /\ b % d \in 0..(d - 1)
    OBVIOUS
  <2>3. a \div d \in Int /\ b \div d \in Int
    OBVIOUS
  <2> QED
    BY <2>1, <2>2, <2>3
<1> QED
  BY <1>1, <1>2 DEF CeilDiv
-----------------------------------------------------------------------------
(* The fee of a day.                                                       *)

\* Multiplication by a natural number keeps order.
LEMMA TimesMonotone ==
  ASSUME NEW a \in Nat, NEW b \in Nat, a <= b, NEW f \in Nat
  PROVE  a * f \in Nat /\ b * f \in Nat /\ a * f <= b * f
<1>1. PICK c \in Nat : b = a + c
  <2>1. b - a \in Nat /\ b = a + (b - a)
    OBVIOUS
  <2> QED
    BY <2>1
<1>2. b * f = a * f + c * f /\ a * f \in Nat /\ c * f \in Nat
  BY <1>1
<1> QED
  BY <1>2

\* The minutes charged for, and what they cost before the daily maximum, grow
\* with the time in the lot.
LEMMA UncappedMonotone ==
  ASSUME NEW tariff \in Tariff, NEW s \in Nat, NEW t \in Nat, s <= t
  PROVE  LET b(x) == Billable(tariff, Minutes(x))
         IN /\ b(s) \in Nat /\ b(t) \in Nat /\ b(s) <= b(t)
            /\ Uncapped(tariff, b(s)) \in Nat
            /\ Uncapped(tariff, b(t)) \in Nat
            /\ Uncapped(tariff, b(s)) <= Uncapped(tariff, b(t))
<1> DEFINE b(x) == Billable(tariff, Minutes(x))
           unit == Larger(tariff.unitMinutes, 1)
<1>1. /\ tariff.free \in Nat /\ tariff.basicMinutes \in Nat /\ tariff.basicFee \in Nat
      /\ tariff.unitFee \in Nat /\ unit \in Nat \ {0}
  BY DEF Tariff, Larger
<1>2. Minutes(s) \in Nat /\ Minutes(t) \in Nat /\ Minutes(s) <= Minutes(t)
  <2>1. CeilDiv(s, 60) \in Nat /\ CeilDiv(t, 60) \in Nat /\ CeilDiv(s, 60) <= CeilDiv(t, 60)
    BY CeilDivMonotone
  <2> QED
    BY <2>1 DEF Minutes, Larger
<1>3. b(s) \in Nat /\ b(t) \in Nat /\ b(s) <= b(t)
  BY <1>1, <1>2 DEF Billable, Larger
<1> HIDE DEF b
<1>4. /\ Remaining(tariff, b(s)) \in Nat /\ Remaining(tariff, b(t)) \in Nat
      /\ Remaining(tariff, b(s)) <= Remaining(tariff, b(t))
  BY <1>1, <1>3 DEF Remaining, Larger
<1>5. /\ Units(tariff, b(s)) \in Nat /\ Units(tariff, b(t)) \in Nat
      /\ Units(tariff, b(s)) <= Units(tariff, b(t))
  <2> HIDE DEF unit
  <2>1. \A m, n \in Nat : m <= n => CeilDiv(m, unit) \in Nat /\ CeilDiv(n, unit) \in Nat
                                   /\ CeilDiv(m, unit) <= CeilDiv(n, unit)
    BY <1>1, CeilDivMonotone
  <2> QED
    BY <1>4, <2>1 DEF Units, unit
<1>6. /\ Uncapped(tariff, b(s)) \in Nat /\ Uncapped(tariff, b(t)) \in Nat
      /\ Uncapped(tariff, b(s)) <= Uncapped(tariff, b(t))
  <2>1. /\ Units(tariff, b(s)) * tariff.unitFee \in Nat
        /\ Units(tariff, b(t)) * tariff.unitFee \in Nat
        /\ Units(tariff, b(s)) * tariff.unitFee <= Units(tariff, b(t)) * tariff.unitFee
    BY <1>1, <1>5, TimesMonotone
  <2> QED
    BY <1>1, <2>1 DEF Uncapped
<1> QED
  BY <1>3, <1>6 DEF b

\* Staying longer on a day never costs less, whatever the tariff: neither the
\* free minutes nor the first unit nor the daily maximum make a fee fall
\* (calculate_total_fee).
THEOREM DayFeeMonotone ==
  ASSUME NEW tariff \in Tariff, NEW s \in Nat, NEW t \in Nat, s <= t
  PROVE  DayFee(tariff, s) \in Nat /\ DayFee(tariff, s) <= DayFee(tariff, t)
<1> DEFINE b(x) == Billable(tariff, Minutes(x))
<1>1. /\ b(s) \in Nat /\ b(t) \in Nat /\ b(s) <= b(t)
      /\ Uncapped(tariff, b(s)) \in Nat /\ Uncapped(tariff, b(t)) \in Nat
      /\ Uncapped(tariff, b(s)) <= Uncapped(tariff, b(t))
  BY UncappedMonotone
<1>2. tariff.dailyMax \in Nat
  BY DEF Tariff
<1>3. \A x \in {s, t} :
        DayFee(tariff, x) = IF b(x) = 0 THEN 0
                            ELSE IF tariff.dailyMax > 0
                                 THEN Smaller(Uncapped(tariff, b(x)), tariff.dailyMax)
                                 ELSE Uncapped(tariff, b(x))
  BY <1>1, <1>2 DEF DayFee
<1> HIDE DEF b
<1> QED
  BY <1>1, <1>2, <1>3 DEF Smaller

\* A day costs at most its daily maximum, where the tariff has one (of 0, the
\* code takes it that there is none).
THEOREM DayFeeCapped ==
  ASSUME NEW tariff \in Tariff, NEW s \in Nat, tariff.dailyMax > 0
  PROVE  DayFee(tariff, s) <= tariff.dailyMax
<1> DEFINE b == Billable(tariff, Minutes(s))
<1>1. b \in Nat /\ Uncapped(tariff, b) \in Nat
  BY UncappedMonotone
<1>2. tariff.dailyMax \in Nat
  BY DEF Tariff
<1>3. DayFee(tariff, s) = IF b = 0 THEN 0 ELSE Smaller(Uncapped(tariff, b), tariff.dailyMax)
  BY <1>1, <1>2 DEF DayFee
<1> HIDE DEF b
<1> QED
  BY <1>1, <1>2, <1>3 DEF Smaller
-----------------------------------------------------------------------------
(* The days of a stay.                                                     *)

\* A stay is cut at midnights and nowhere else, without gap or overlap: the
\* first chunk begins at the entry, each next one where the last ended, the last
\* ends at the exit, and every chunk is a time of one local day
\* (split_by_local_day).
THEOREM SplitCoversStay ==
  ASSUME NEW entry \in Nat, NEW exit \in Nat, entry < exit,
         NEW i \in DaysOf(entry, exit)
  PROVE  /\ ChunkStart(entry, 0) = entry
         /\ ChunkStart(entry, i) < ChunkEnd(entry, exit, i)
         /\ ChunkStart(entry, i) \div Day = entry \div Day + i
         /\ (ChunkEnd(entry, exit, i) - 1) \div Day = entry \div Day + i
         /\ IF i + 1 \in DaysOf(entry, exit)
            THEN ChunkStart(entry, i + 1) = ChunkEnd(entry, exit, i)
            ELSE ChunkEnd(entry, exit, i) = exit
<1> DEFINE d == entry \div Day
           e == (exit - 1) \div Day
<1>1. d \in Nat /\ e \in Nat /\ d <= e
  BY DEF Day
<1>2. d * Day <= entry /\ entry < (d + 1) * Day /\ e * Day < exit /\ exit <= (e + 1) * Day
  BY DEF Day
<1>3. i \in Nat /\ i <= e - d /\ (i + 1 \in DaysOf(entry, exit) <=> i + 1 <= e - d)
  BY <1>1 DEF DaysOf
<1>4. \A n \in Nat, q \in Nat : q * Day <= n /\ n < (q + 1) * Day => n \div Day = q
  BY DEF Day
<1> DEFINE start == ChunkStart(entry, i)
           end == ChunkEnd(entry, exit, i)
<1>5. /\ start \in Nat /\ start = IF i = 0 THEN entry ELSE (d + i) * Day
      /\ end \in Nat /\ end = IF i = e - d THEN exit ELSE (d + i + 1) * Day
  BY <1>1, <1>2, <1>3 DEF ChunkStart, ChunkEnd, Larger, Smaller, Day
<1>6. ChunkStart(entry, 0) = entry
  BY <1>1, <1>2 DEF ChunkStart, Larger, Day
<1>7. i + 1 <= e - d => ChunkStart(entry, i + 1) = (d + i + 1) * Day
  BY <1>1, <1>2, <1>3 DEF ChunkStart, Larger, Day
<1> HIDE DEF d, e, start, end
<1>8. (d + i) * Day <= start /\ start < end /\ end <= (d + i + 1) * Day
  BY <1>1, <1>2, <1>3, <1>5 DEF Day
<1>9. start \div Day = d + i /\ (end - 1) \div Day = d + i
  <2>1. start < (d + i + 1) * Day /\ (d + i) * Day <= end - 1 /\ end - 1 < (d + i + 1) * Day
    BY <1>1, <1>3, <1>5, <1>8 DEF Day
  <2>2. d + i \in Nat /\ end - 1 \in Nat
    BY <1>1, <1>3, <1>5, <1>8
  <2> QED
    BY <1>4, <1>5, <1>8, <2>1, <2>2
<1> QED
  BY <1>3, <1>5, <1>6, <1>7, <1>8, <1>9, <1>1 DEF d, e, start, end
-----------------------------------------------------------------------------
(* The rules of a quote.                                                   *)

\* A lot's own rule wins over the generic one whatever the order of the rows,
\* a generic rule is used where the lot has none of its own, and no rule of
\* another lot is used (calculate_fees).
THEOREM OwnRuleWins ==
  ASSUME NEW rules, NEW lot \in Nat \ {Generic}, NEW r \in rules, NEW day,
         \A x, y \in rules : x.lot = y.lot /\ x.day = y.day => x = y,
         r.day = day,
         r.lot = lot \/ (r.lot = Generic /\ \A x \in rules : x.lot = lot => x.day # day)
  PROVE  TariffOf(RulesFor(rules, lot), day) = r.tariff
<1>1. lot # Generic
  OBVIOUS
<1>2. RulesFor(rules, lot) =
        {x \in rules : x.lot = lot} \cup
        {g \in {x \in rules : x.lot = Generic} : \A x \in {y \in rules : y.lot = lot} : x.day # g.day}
  BY <1>1 DEF RulesFor, RulesOfLot
<1>3. r \in RulesFor(rules, lot)
  BY <1>2
<1>4. \A x \in RulesFor(rules, lot) : x.day = day => x = r
  BY <1>1, <1>2
<1> QED
  BY <1>3, <1>4 DEF TariffOf

-----------------------------------------------------------------------------
(* Where the parsers of the answers agree with the checks of the tables,    *)
(* and where they do not, for every answer.                                 *)

\* A set of natural numbers that is not empty has a least element.
LEMMA LeastExists ==
  ASSUME NEW S \in SUBSET Nat, S # {}
  PROVE  \E x \in S : \A y \in S : x <= y
<1>1. PICK x \in S : \A y \in S : ~(<<y, x>> \in OpToRel(<, Nat))
  BY NatLessThanWellFounded, WFMin
<1>2. ASSUME NEW y \in S
      PROVE  x <= y
  <2>1. x \in Nat /\ y \in Nat
    OBVIOUS
  <2>2. ~(y < x)
    BY <1>1, <2>1 DEF OpToRel
  <2> QED
    BY <2>1, <2>2
<1> QED
  BY <1>2

\* The description picked from an answer has a duration and an amount, zero if there
\* is none, and an Integer column takes them if it takes those of the answer.
LEMMA FirstOfTyped ==
  ASSUME NEW Texts, NEW items \in Seq(Texts),
         \A i \in DOMAIN items : items[i].minutes \in 0..MaxInteger /\ items[i].won \in 0..MaxInteger,
         NEW chosen \in SUBSET DOMAIN items
  PROVE  /\ FirstOf(items, chosen).minutes \in 0..MaxInteger
         /\ FirstOf(items, chosen).won \in 0..MaxInteger
<1>1. CASE chosen = {}
  <2>1. FirstOf(items, chosen) = NoText
    BY <1>1 DEF FirstOf
  <2>2. NoText.minutes = 0 /\ NoText.won = 0
    BY DEF NoText
  <2> QED
    BY <2>1, <2>2, IntegerAssumption
<1>2. CASE chosen # {}
  <2> DEFINE i == CHOOSE x \in chosen : \A y \in chosen : x <= y
  <2>1. chosen \in SUBSET Nat
    OBVIOUS
  <2>2. i \in chosen
    BY <1>2, <2>1, LeastExists
  <2>3. FirstOf(items, chosen) = items[i]
    BY <1>2 DEF FirstOf
  <2> QED
    BY <2>2, <2>3
<1> QED
  BY <1>1, <1>2

\* Of an answer about Incheon's fees, a number that an Integer column cannot take is the
\* only thing that makes a run raise at the numbers of a rule: every rule its parser
\* makes of others (parsers.py:401 leaves out the rest) satisfies the columns and checks
\* of parking_fee_rules, whichever descriptions are missing or garbled.
THEOREM IncheonFeesFit ==
  ASSUME NEW Texts, NEW items \in Seq(Texts),
         \A i \in DOMAIN items : items[i].minutes \in 0..MaxInteger /\ items[i].won \in 0..MaxInteger,
         NEW profile, Announced(items, profile)
  PROVE  RuleFits(IncheonTariff(items, profile))
<1> DEFINE fees == Described(items, profile.fee)
           basic == FirstOf(items, {i \in fees : items[i].first})
           unit == FirstOf(items, {i \in fees : items[i].over})
           charged == IF basic = NoText THEN unit ELSE basic
           most == FirstOf(items, Described(items, profile.max))
           tariff == IncheonTariff(items, profile)
           unitMinutes == IF unit.minutes = 0 THEN charged.minutes ELSE unit.minutes
<1>1. fees \in SUBSET DOMAIN items /\ Described(items, profile.max) \in SUBSET DOMAIN items
  BY DEF Described
<1>2. {i \in fees : items[i].first} \in SUBSET DOMAIN items
  BY <1>1
<1>3. {i \in fees : items[i].over} \in SUBSET DOMAIN items
  BY <1>1
<1>4. basic.minutes \in 0..MaxInteger /\ basic.won \in 0..MaxInteger
  BY <1>2, FirstOfTyped
<1>5. unit.minutes \in 0..MaxInteger /\ unit.won \in 0..MaxInteger
  BY <1>3, FirstOfTyped
<1>6. most.minutes \in 0..MaxInteger /\ most.won \in 0..MaxInteger
  BY <1>1, FirstOfTyped
<1> HIDE DEF basic, unit, most
<1>7. charged.minutes \in 0..MaxInteger /\ charged.won \in 0..MaxInteger
  BY <1>4, <1>5
<1>8. unitMinutes \in 0..MaxInteger
  BY <1>5, <1>7
<1>9. tariff = [free |-> 0, basicMinutes |-> charged.minutes, basicFee |-> charged.won,
                unitMinutes |-> Highest(1, unitMinutes), unitFee |-> unit.won,
                dailyMax |-> most.won]
  BY DEF IncheonTariff, basic, unit, most
<1>10. tariff.basicMinutes > 0 /\ tariff.basicFee > 0
  BY DEF Announced
<1> HIDE DEF tariff, charged, unitMinutes
<1>11. Highest(1, unitMinutes) \in 1..MaxInteger
  BY <1>8, IntegerAssumption DEF Highest
<1>12. /\ tariff.free = 0 /\ tariff.unitMinutes = Highest(1, unitMinutes)
       /\ tariff.unitFee = unit.won /\ tariff.dailyMax = most.won
       /\ tariff.basicMinutes = charged.minutes /\ tariff.basicFee = charged.won
       /\ DOMAIN tariff =
            {"free", "basicMinutes", "basicFee", "unitMinutes", "unitFee", "dailyMax"}
  BY <1>9
<1>13. \A field \in DOMAIN tariff : tariff[field] <= MaxInteger
  BY <1>5, <1>6, <1>7, <1>11, <1>12, IntegerAssumption
<1>14. RuleFits(tariff)
  BY <1>5, <1>6, <1>7, <1>10, <1>11, <1>12, <1>13 DEF RuleFits
<1> QED
  BY <1>14 DEF tariff

\* The ratio of a lot that is not over-full is at most 100.0 percent.
LEMMA RatioBounded ==
  ASSUME NEW n \in Nat, NEW d \in Nat, n <= d
  PROVE  Ratio(n, d) = Null \/ (Ratio(n, d) \in Nat /\ Ratio(n, d) <= 1000)
<1>1. CASE ~(d > 0)
  BY <1>1 DEF Ratio
<1>2. CASE d > 0
  <2> DEFINE m == 2000 * n + d - 1
             b == 2 * d
             q == m \div b
  <2>1. m \in Nat /\ b \in Nat \ {0} /\ m < 1001 * b
    BY <1>2
  <2>2. Ratio(n, d) = q
    BY ONLY n \in Nat, d \in Nat, <1>2 DEF Ratio
  <2> HIDE DEF m, b
  <2>3. m = b * q + (m % b) /\ m % b \in 0..(b - 1) /\ q \in Int
    BY <2>1
  <2> HIDE DEF q
  <2>4. q \in Int /\ b * q <= m /\ m < b * q + b
    BY <2>1, <2>3
  <2>5. ASSUME NEW x \in Int, NEW y \in Int, x <= y
        PROVE  b * x <= b * y
    <3>1. y - x \in Nat /\ b \in Nat
      BY <2>1, <2>5
    <3>2. b * (y - x) \in Nat /\ b * (y - x) = b * y - b * x
      BY ONLY <3>1, <2>5
    <3> QED
      BY ONLY <3>1, <3>2, <2>5
  <2>6. q >= 0
    <3> SUFFICES ASSUME q <= 0 - 1 PROVE FALSE
      BY <2>4
    <3>1. b * q <= b * (0 - 1) /\ b * (0 - 1) = 0 - b
      BY <2>1, <2>4, <2>5
    <3> QED
      BY <2>1, <2>4, <3>1
  <2>7. q <= 1000
    <3> SUFFICES ASSUME 1001 <= q PROVE FALSE
      BY <2>4
    <3>1. b * 1001 <= b * q
      BY <2>4, <2>5
    <3> QED
      BY <2>1, <2>4, <3>1
  <2> QED
    BY <2>2, <2>4, <2>6, <2>7
<1> QED
  BY <1>1, <1>2

\* A reading of KAC whose item and number of spaces the columns can hold fits the table
\* as long as the lot is not over-full: of such readings the table refuses, and a whole
\* run with them, those with more cars than spaces.
THEOREM KacReadingFits ==
  ASSUME NEW item, NEW now, item.kept, Number(item.stay) \in Nat,
         Number(item.full) \in 0..MaxInteger, Number(item.stay) <= Number(item.full)
  PROVE  SnapshotFits(KacObservation(item, now))
<1> DEFINE o == KacObservation(item, now)
<1>1. PICK n \in Nat, d \in Nat :
        n = Number(item.stay) /\ d = Number(item.full) /\ n <= d /\ d <= MaxInteger
  BY IntegerAssumption
<1>2. o.occupied = n /\ o.total = d /\ o.ratio = Ratio(n, d) /\ o.kept
  BY <1>1 DEF KacObservation
<1> HIDE DEF o
<1>3. Available(o) \in Nat /\ Available(o) <= o.total
  BY <1>1, <1>2 DEF Available, Highest
<1>4. Ratio(n, d) = Null \/ (Ratio(n, d) \in Nat /\ Ratio(n, d) <= 1000)
  BY ONLY <1>1, RatioBounded
<1>5. SnapshotFits(o)
  BY <1>1, <1>2, <1>3, <1>4, IntegerAssumption DEF SnapshotFits
<1> QED
  BY <1>5 DEF o

-----------------------------------------------------------------------------
(* What a green gate tells: that the two servers have the same lots, and     *)
(* that after the last of the seven samples nothing the old server knew when *)
(* the observation began is missing from the new one.                        *)

\* The lots of the two servers, paired by what they are identified by.
Pairs(sample) ==
  {p \in (DOMAIN sample.source) \X (DOMAIN sample.target) :
     Key(sample.source[p[1]]) = Key(sample.target[p[2]])}

\* Of a sample that passed, every lot of the old server is paired with exactly one
\* lot of the new one, every lot of the new one with exactly one of the old, and
\* each pair has caught up (verify_cutover.py:151-244).
THEOREM LotsPaired ==
  ASSUME NEW sample, NEW allowed, Passes(sample, allowed),
         IsFiniteSet(DOMAIN sample.target)
  PROVE  /\ \A s \in DOMAIN sample.source : \E t \in DOMAIN sample.target :
              /\ <<s, t>> \in Pairs(sample)
              /\ \A u \in DOMAIN sample.target : <<s, u>> \in Pairs(sample) => u = t
         /\ \A t \in DOMAIN sample.target : \E s \in DOMAIN sample.source :
              /\ <<s, t>> \in Pairs(sample)
              /\ \A r \in DOMAIN sample.source : <<r, t>> \in Pairs(sample) => r = s
         /\ \A p \in Pairs(sample) : CaughtUp(sample.source[p[1]], sample.target[p[2]], allowed)
<1> DEFINE S == sample.source
           T == sample.target
<1>1. Identified(S, T)
  BY DEF Passes
<1>2. ASSUME NEW s \in DOMAIN S
      PROVE  \E t \in DOMAIN T : /\ <<s, t>> \in Pairs(sample)
                                 /\ \A u \in DOMAIN T : <<s, u>> \in Pairs(sample) => u = t
  <2>1. Cardinality(Candidates(T, Key(S[s]))) = 1
    BY <1>1 DEF Identified
  <2>2. IsFiniteSet(Candidates(T, Key(S[s])))
    BY FS_Subset DEF Candidates
  <2>3. PICK t : Candidates(T, Key(S[s])) = {t}
    BY <2>1, <2>2, FS_Singleton
  <2> QED  BY <2>3 DEF Candidates, Pairs
<1>3. ASSUME NEW t \in DOMAIN T
      PROVE  \E s \in DOMAIN S : /\ <<s, t>> \in Pairs(sample)
                                 /\ \A r \in DOMAIN S : <<r, t>> \in Pairs(sample) => r = s
  <2>1. PICK s \in DOMAIN S : Key(S[s]) = Key(T[t])
    BY <1>1 DEF Identified
  <2>2. \A r \in DOMAIN S : Key(S[r]) = Key(S[s]) => r = s
    BY <1>1 DEF Identified
  <2> QED  BY <2>1, <2>2 DEF Pairs
<1>4. \A p \in Pairs(sample) : CaughtUp(S[p[1]], T[p[2]], allowed)
  BY DEF Passes, Pairs
<1> QED  BY <1>2, <1>3, <1>4
-----------------------------------------------------------------------------
(* The observation as a whole.                                             *)

\* Instants are numbers, and a lot's newest observation is one or there is none.
Instants(samples) ==
  /\ DOMAIN samples = 1..StrictSampleCount
  /\ \A i \in 1..StrictSampleCount :
       /\ samples[i].begin \in Int /\ samples[i].end \in Int
       /\ \A ls \in {samples[i].source, samples[i].target} :
            \A l \in DOMAIN ls : ls[l].at \in Int /\ ls[l].latest \in Int \cup {Never}

\* The pauses between the samples alone are as long as an observation may be old.
LEMMA ObservationLasts ==
  ASSUME NEW samples, Instants(samples), Spaced(samples)
  PROVE  samples[1].end + StrictMaxAge <= samples[StrictSampleCount].begin
<1> DEFINE b(i) == samples[i].begin
           e(i) == samples[i].end
<1>1. \A i \in 1..7 : b(i) \in Int /\ e(i) \in Int /\ b(i) <= e(i)
  BY DEF Instants, Spaced, StrictSampleCount
<1>2. \A i \in 1..6 : e(i) + 50 <= b(i + 1)
  BY DEF Spaced, StrictSampleCount, StrictSampleInterval
<1>3. /\ e(1) + 50 <= b(2) /\ e(2) + 50 <= b(3) /\ e(3) + 50 <= b(4)
      /\ e(4) + 50 <= b(5) /\ e(5) + 50 <= b(6) /\ e(6) + 50 <= b(7)
  BY <1>2
<1> HIDE DEF b, e
<1>4. e(1) + 300 <= b(7)
  BY <1>1, <1>3
<1> QED  BY <1>4 DEF b, e, StrictSampleCount, StrictMaxAge

\* If all seven samples pass, then whatever the old server had observed of a lot
\* when the observation began, the new server shows it, or something later, when it
\* ends; only a lot on the allowlist may still be empty.  A server that stopped
\* collecting before the first sample does not pass, and neither does one that lags
\* by the 300 seconds a single sample tolerates (observe_cutover.py:56-83).
THEOREM NothingOldMissing ==
  ASSUME NEW samples, NEW allowed, Instants(samples), Spaced(samples),
         Observed(samples, allowed),
         NEW s \in DOMAIN samples[1].source,
         NEW t \in DOMAIN samples[StrictSampleCount].target,
         Key(samples[1].source[s]) = Key(samples[StrictSampleCount].target[t]),
         samples[1].source[s].latest # Never
  PROVE  \/ samples[StrictSampleCount].target[t].latest >= samples[1].source[s].latest
         \/ /\ samples[StrictSampleCount].target[t].latest = Never
            /\ Key(samples[1].source[s]) \in allowed
<1> DEFINE first == samples[1]
           last == samples[StrictSampleCount]
           old == first.source[s]
           new == last.target[t]
<1>1. 1 \in 1..StrictSampleCount /\ StrictSampleCount \in 1..StrictSampleCount
  BY DEF StrictSampleCount
<1>2. Passes(first, allowed) /\ Passes(last, allowed)
  BY <1>1 DEF Observed
<1>3. old.latest <= old.at
  <2>1. PICK u \in DOMAIN first.target : Key(first.target[u]) = Key(old)
    <3>1. Cardinality(Candidates(first.target, Key(old))) = 1
      BY <1>2 DEF Passes, Identified
    <3>2. Candidates(first.target, Key(old)) # {}
      BY <3>1, FS_EmptySet
    <3> QED  BY <3>2 DEF Candidates
  <2>2. CaughtUp(old, first.target[u], allowed)
    BY <1>2, <2>1 DEF Passes
  <2> QED  BY <2>2 DEF CaughtUp
<1>4. PICK r \in DOMAIN last.source : CaughtUp(last.source[r], new, allowed) /\
                                      Key(last.source[r]) = Key(new)
  BY <1>2 DEF Passes, Identified
<1>5. /\ old.latest \in Int /\ old.at \in Int /\ first.end \in Int
      /\ new.at \in Int /\ new.latest \in Int \cup {Never} /\ last.begin \in Int
  BY <1>1 DEF Instants
<1>6. old.at <= first.end /\ last.begin <= new.at
  <2>1. DOMAIN samples = 1..StrictSampleCount
    BY DEF Instants
  <2>2. \A i \in DOMAIN samples :
          /\ \A l \in DOMAIN samples[i].source :
               samples[i].source[l].at \in samples[i].begin..samples[i].end
          /\ \A l \in DOMAIN samples[i].target :
               samples[i].target[l].at \in samples[i].begin..samples[i].end
    BY DEF Spaced
  <2>3. old.at \in first.begin..first.end /\ new.at \in last.begin..last.end
    BY <1>1, <2>1, <2>2
  <2> QED
    BY ONLY <2>3
<1>7. first.end + 300 <= last.begin
  BY ObservationLasts DEF StrictMaxAge
<1>8. CASE new.latest = Never
  BY <1>4, <1>8 DEF CaughtUp
<1>9. CASE new.latest # Never
  <2>1. new.at - new.latest <= 300
    BY <1>4, <1>9 DEF CaughtUp, Fresh, StrictMaxAge
  <2>2. new.latest \in Int
    BY <1>5, <1>9
  <2> HIDE DEF old, new, first, last
  <2>3. new.latest >= old.latest
    BY <1>3, <1>5, <1>6, <1>7, <2>1, <2>2
  <2> QED  BY <2>3 DEF old, new, first, last
<1> QED  BY <1>8, <1>9
-----------------------------------------------------------------------------
(* Walks along a sequence: the loops of the program over an answer or over   *)
(* the sample lots are folds, and a fold is a recursive function on sets of  *)
(* indices.                                                                  *)

\* Some of the first n numbers have a greatest one, and the others are below it.
LEMMA GreatestIndex ==
  ASSUME NEW n \in Nat, NEW t \in SUBSET (1..n), t # {}
  PROVE  Max(t) \in t /\ t \ {Max(t)} \in SUBSET (1..(Max(t) - 1))
<1> DEFINE below == {n - x : x \in t}
<1>1. below \in SUBSET Nat /\ below # {}
  <2>1. \A x \in t : n - x \in Nat
    OBVIOUS
  <2>2. QED
    BY <2>1
<1>2. PICK d \in below : \A e \in below : d <= e
  <2> HIDE DEF below
  <2>1. QED
    BY <1>1, LeastExists
<1>3. PICK x \in t : d = n - x
  BY <1>2
<1>4. \A y \in t : x \in Int /\ y \in Int /\ x >= y
  <2>1. SUFFICES ASSUME NEW y \in t PROVE x \in Int /\ y \in Int /\ x >= y
    OBVIOUS
  <2>2. x \in Int /\ y \in Int
    OBVIOUS
  <2>3. n - x <= n - y
    BY <1>2, <1>3
  <2>4. QED
    BY ONLY <2>2, <2>3, n \in Nat
<1>5. Max(t) \in t /\ \A y \in t : Max(t) >= y
  BY <1>4 DEF Max
<1>6. ASSUME NEW y \in t \ {Max(t)}
      PROVE  y \in 1..(Max(t) - 1)
  <2>1. y \in 1..n /\ Max(t) \in 1..n /\ Max(t) >= y /\ y # Max(t)
    BY <1>5
  <2>2. QED
    BY ONLY <2>1, n \in Nat
<1>7. QED
  BY <1>5, <1>6

\* What the fold of the first n elements solves, with the step of each element.
Along(f, n, base, step) ==
  f = [t \in SUBSET (1..n) |-> IF t = {} THEN base ELSE step[Max(t)][f[t \ {Max(t)}]]]

\* A fold whose steps stay within V has a solution, and its values are in V.
LEMMA WalkExists ==
  ASSUME NEW n \in Nat, NEW V, NEW base \in V, NEW step \in [1..n -> [V -> V]]
  PROVE  \E f \in [SUBSET (1..n) -> V] : Along(f, n, base, step)
<1> DEFINE After(f, t) == IF t = {} THEN base ELSE step[Max(t)][f[t \ {Max(t)}]]
           Has(k) == \E f \in [SUBSET (1..k) -> V] : \A t \in SUBSET (1..k) : f[t] = After(f, t)
           Lacks == {k \in Nat : k <= n /\ ~Has(k)}
<1>1. Has(0)
  <2> DEFINE f == [t \in SUBSET (1..0) |-> base]
  <2>1. \A t \in SUBSET (1..0) : t = {}
    OBVIOUS
  <2>2. f \in [SUBSET (1..0) -> V] /\ \A t \in SUBSET (1..0) : f[t] = After(f, t)
    BY <2>1
  <2>3. QED
    BY <2>2
<1>2. ASSUME NEW k \in Nat, k + 1 <= n, Has(k)
      PROVE  Has(k + 1)
  <2>1. PICK f \in [SUBSET (1..k) -> V] : \A t \in SUBSET (1..k) : f[t] = After(f, t)
    BY <1>2
  <2> DEFINE e == [t \in SUBSET (1..(k + 1)) |-> After(f, t)]
  <2>2. ASSUME NEW t \in SUBSET (1..(k + 1)), t # {}
        PROVE  Max(t) \in 1..n /\ t \ {Max(t)} \in SUBSET (1..k)
    <3>1. Max(t) \in t /\ t \ {Max(t)} \in SUBSET (1..(Max(t) - 1))
      <4>1. k + 1 \in Nat
        OBVIOUS
      <4>2. QED
        BY ONLY <2>2, <4>1, GreatestIndex
    <3>2. Max(t) \in 1..(k + 1)
      BY <3>1
    <3> PICK m \in 1..(k + 1) : m = Max(t)
      BY <3>2
    <3>3. m \in 1..n /\ 1..(m - 1) \subseteq 1..k
      BY <1>2
    <3>4. QED
      BY <3>1, <3>3
  <2>3. ASSUME NEW t \in SUBSET (1..(k + 1))
        PROVE  After(f, t) \in V
    <3>1. CASE t = {}
      BY <3>1
    <3>2. CASE t # {}
      <4>1. f[t \ {Max(t)}] \in V /\ step[Max(t)] \in [V -> V]
        BY <2>1, <2>2, <3>2
      <4>2. QED
        BY <3>2, <4>1
    <3>3. QED
      BY <3>1, <3>2
  <2>4. ASSUME NEW t \in SUBSET (1..k)
        PROVE  t \in SUBSET (1..(k + 1)) /\ e[t] = f[t]
    <3>1. 1..k \subseteq 1..(k + 1)
      OBVIOUS
    <3>2. t \in SUBSET (1..(k + 1))
      BY <3>1
    <3> HIDE DEF After
    <3>3. QED
      BY <2>1, <3>2
  <2>5. ASSUME NEW t \in SUBSET (1..(k + 1))
        PROVE  e[t] = After(e, t)
    <3>1. CASE t = {}
      BY <3>1
    <3>2. CASE t # {}
      <4>1. e[t \ {Max(t)}] = f[t \ {Max(t)}]
        BY <2>2, <2>4, <3>2
      <4>2. QED
        BY <3>2, <4>1
    <3>3. QED
      BY <3>1, <3>2
  <2>6. e \in [SUBSET (1..(k + 1)) -> V]
    BY <2>3
  <2> HIDE DEF e, After
  <2>7. QED
    BY <2>5, <2>6
<1>3. Lacks = {}
  <2>1. SUFFICES ASSUME Lacks # {} PROVE FALSE
    OBVIOUS
  <2> HIDE DEF Has
  <2>2. Lacks \in SUBSET Nat
    OBVIOUS
  <2>3. PICK k \in Lacks : \A j \in Lacks : k <= j
    <3> HIDE DEF Lacks
    <3>1. QED
      BY <2>1, <2>2, LeastExists
  <2>4. k # 0 /\ k \in Nat /\ k <= n
    BY <1>1, <2>3
  <2>5. k - 1 \in Nat /\ k - 1 <= n /\ ~(k <= k - 1) /\ (k - 1) + 1 = k
    BY ONLY <2>4, n \in Nat
  <2>6. Has(k - 1)
    BY <2>3, <2>5
  <2>7. Has((k - 1) + 1)
    BY <1>2, <2>4, <2>5, <2>6
  <2>8. QED
    BY <2>3, <2>5, <2>7
<1> HIDE DEF Has
<1>4. Has(n)
  BY <1>3
<1>5. PICK f \in [SUBSET (1..n) -> V] : \A t \in SUBSET (1..n) : f[t] = After(f, t)
  BY <1>4 DEF Has
<1> HIDE DEF After
<1>6. f = [t \in SUBSET (1..n) |-> After(f, t)]
  BY <1>5
<1>7. QED
  BY <1>6 DEF After, Along

\* A function that takes the steps from values in V ends in V.
LEMMA WalkStays ==
  ASSUME NEW n \in Nat, NEW V, NEW f, f[{}] \in V,
         \A t \in SUBSET (1..n) : t # {} /\ f[t \ {Max(t)}] \in V => f[t] \in V
  PROVE  f[1..n] \in V
<1> DEFINE Leaves == {k \in Nat : k <= n /\ \E t \in SUBSET (1..k) : f[t] \notin V}
<1>1. SUFFICES ASSUME Leaves # {} PROVE FALSE
  OBVIOUS
<1>2. PICK k \in Leaves : \A j \in Leaves : k <= j
  <2>1. Leaves \in SUBSET Nat
    OBVIOUS
  <2> HIDE DEF Leaves
  <2>2. QED
    BY <1>1, <2>1, LeastExists
<1>3. PICK t \in SUBSET (1..k) : f[t] \notin V
  BY <1>2
<1>4. k \in Nat /\ k <= n /\ t # {}
  BY <1>2, <1>3
<1>5. 1..k \subseteq 1..n
  BY <1>4
<1>6. Max(t) \in t /\ t \ {Max(t)} \in SUBSET (1..(Max(t) - 1))
  BY <1>4, GreatestIndex
<1>7. f[t \ {Max(t)}] \notin V
  BY <1>3, <1>4, <1>5
<1>8. Max(t) - 1 \in Nat /\ Max(t) - 1 <= n /\ ~(k <= Max(t) - 1)
  <2>1. Max(t) \in 1..k
    BY <1>6
  <2>2. QED
    BY ONLY <1>4, <2>1, n \in Nat
<1>9. Max(t) - 1 \in Leaves
  BY <1>6, <1>7, <1>8
<1>10. QED
  BY <1>2, <1>8, <1>9
-----------------------------------------------------------------------------
(* A deployment over its restarts: the invariant.  A lot has the id that the *)
(* collector gives its name, or it is a sample's, or it is the one that an   *)
(* older version left; and the rows collected at KAC are of KAC's lots.      *)

LotRow == [id : Nat \ {0}, source : STRING, name : OneSpelling]
ReadingRow ==
  [lot : Nat, source : {"kac_parking", "incheon_parking", "incheon"}, at : Int, collected : BOOLEAN]

Collected(l) == l.source = SourceIdOf[l.name]
Sampled(l) == \E s \in Samples : l.source = s.source /\ l.name = s.name
Former(l) == ~Collected(l) /\ ~Sampled(l)

LotsInv(ls) ==
  /\ ls \subseteq LotRow /\ IsFiniteSet(ls)
  /\ \A l \in ls : l.id <= Cardinality(ls)
  /\ \A l, m \in ls : l.id = m.id \/ l.source = m.source => l = m
  /\ \A l \in ls : Former(l) => \E o \in OldLots : l.source = o.source /\ l.name = o.name
  /\ \A l, m \in ls : Former(l) /\ Former(m) => l = m
  /\ \A l, m \in ls : \A s \in Samples : Former(l) /\ l.name = s.name => m.source # s.source
  /\ \A l, m \in ls : Kac(l.name) /\ l.name = m.name => l = m

KacReading(r) == r.collected /\ r.source = "kac_parking"

RowsInv(ls, rs) ==
  /\ rs \subseteq ReadingRow
  /\ \A r \in rs : \E l \in ls : l.id = r.lot /\ (KacReading(r) => Kac(l.name))
  /\ \A r, s \in rs : r.lot = s.lot /\ r.source = s.source /\ r.at = s.at => r = s

DeploymentInv == LotsInv(lots) /\ RowsInv(lots, rows) /\ clock \in Nat

\* No lot goes, and those of KAC stay KAC's.
LotsFollow(ls, ms) ==
  \A l \in ls : \E m \in ms : m.id = l.id /\ (Kac(l.name) => Kac(m.name))

\* And so readings stay readings of lots, those of KAC's of KAC's.
LEMMA RowsFollow ==
  ASSUME NEW ls, NEW ms, NEW rs, RowsInv(ls, rs), LotsFollow(ls, ms)
  PROVE  RowsInv(ms, rs)
<1>1. ASSUME NEW r \in rs
      PROVE  \E m \in ms : m.id = r.lot /\ (KacReading(r) => Kac(m.name))
  <2>1. PICK l \in ls : l.id = r.lot /\ (KacReading(r) => Kac(l.name))
    BY DEF RowsInv
  <2>2. QED
    BY <2>1 DEF LotsFollow
<1>2. QED
  BY <1>1 DEF RowsInv

\* What a lot is called says what ids it may have.
LEMMA IdOfName ==
  ASSUME NEW ls, LotsInv(ls), NEW l \in ls
  PROVE  l.source \in IdsOf(l.name)
<1>1. CASE Collected(l)
  BY <1>1 DEF Collected, IdsOf
<1>2. CASE Sampled(l)
  <2>1. PICK s \in Samples : l.source = s.source /\ l.name = s.name
    BY <1>2 DEF Sampled
  <2>2. {s.source} \cup s.legacy \in {{q.source} \cup q.legacy : q \in {x \in Samples : x.name = l.name}}
    BY <2>1
  <2>3. QED
    BY <2>1, <2>2 DEF IdsOf
<1>3. CASE Former(l)
  <2>1. PICK o \in OldLots : l.source = o.source /\ l.name = o.name
    BY <1>3 DEF LotsInv
  <2>2. {o.source} \in {{q.source} : q \in {x \in OldLots : x.name = l.name}}
    BY <2>1
  <2>3. QED
    BY <2>1, <2>2 DEF IdsOf
<1>4. QED
  BY <1>1, <1>2, <1>3 DEF Former

\* The ids a name may have are of one airport.
LEMMA SameAirport ==
  ASSUME NEW n \in Names, NEW m \in Names, NEW id, id \in IdsOf(n), id \in IdsOf(m)
  PROVE  Kac(n) <=> Kac(m)
<1>1. AirportOfLot[n] = AirportOfLot[m]
  BY IdsAssumption
<1>2. QED
  BY <1>1 DEF Kac

\* A lot of KAC that is a sample's has the collector's id.
LEMMA KacSample ==
  ASSUME NEW l, Sampled(l), Kac(l.name)
  PROVE  Collected(l)
<1>1. PICK s \in Samples : l.source = s.source /\ l.name = s.name
  BY DEF Sampled
<1>2. SourceIdOf[s.name] = s.source
  BY <1>1, IdsAssumption
<1>3. QED
  BY <1>1, <1>2 DEF Collected

\* The name of an answer is that of one lot, if none has its id.
LEMMA NotAmbiguous ==
  ASSUME NEW ls, LotsInv(ls), NEW n, \A l \in ls : l.source # SourceIdOf[n],
         NEW l \in ls, NEW m \in ls, l.name = n, m.name = n
  PROVE  l = m
<1>1. ~Collected(l) /\ ~Collected(m)
  BY DEF Collected
<1>2. ASSUME NEW x \in ls, NEW y \in ls, x.name = y.name, Former(x), Sampled(y)
      PROVE  FALSE
  BY <1>2 DEF LotsInv, Sampled
<1>3. CASE Former(l) /\ Former(m)
  BY <1>3 DEF LotsInv
<1>4. CASE Sampled(l) /\ Sampled(m)
  <2>1. l.source = m.source
    BY <1>4, SamplesAssumption DEF Sampled
  <2>2. QED
    BY <2>1 DEF LotsInv
<1>5. QED
  BY <1>1, <1>2, <1>3, <1>4 DEF Former

\* A lot becomes another, or is added, that does not get in the way of the rest.
LEMMA LotReplaced ==
  ASSUME NEW ls, LotsInv(ls), NEW lot, lot \in ls \/ lot.id = Cardinality(ls) + 1,
         NEW n \in LotRow, n.id = lot.id, ~Former(n),
         \A m \in ls \ {lot} : m.source # n.source,
         \A m \in ls \ {lot} : \A s \in Samples : Former(m) /\ m.name = s.name => n.source # s.source,
         \A m \in ls \ {lot} : Kac(n.name) => m.name # n.name
  PROVE  LotsInv((ls \ {lot}) \cup {n})
<1> DEFINE rest == ls \ {lot}
           made == rest \cup {n}
<1>1. rest \subseteq ls /\ IsFiniteSet(rest) /\ IsFiniteSet(ls) /\ ls \subseteq LotRow
  BY FS_Subset DEF LotsInv
<1>2. Cardinality(ls) \in Nat /\ \A l \in ls : l.id \in Nat /\ l.id <= Cardinality(ls)
  BY <1>1, FS_CardinalityType DEF LotsInv, LotRow
<1>3. \A m \in rest : m.id # n.id
  <2>1. CASE lot \in ls
    BY <2>1 DEF LotsInv
  <2>2. CASE lot.id = Cardinality(ls) + 1
    BY <1>2, <2>2
  <2>3. QED
    BY <2>1, <2>2
<1>4. n \notin rest
  BY <1>3
<1>5. IsFiniteSet(made) /\ Cardinality(made) = Cardinality(rest) + 1
  BY <1>1, <1>4, FS_AddElement
<1>6. n.id <= Cardinality(made) /\ Cardinality(ls) <= Cardinality(made)
  <2>1. CASE lot \in ls
    <3>1. Cardinality(rest) = Cardinality(ls) - 1
      BY <1>1, <2>1, FS_RemoveElement
    <3>2. n.id <= Cardinality(ls)
      BY <1>2, <2>1
    <3>3. QED
      BY <1>2, <1>5, <3>1, <3>2
  <2>2. CASE lot \notin ls
    <3>1. rest = ls /\ n.id = Cardinality(ls) + 1
      BY <2>2
    <3>2. Cardinality(made) = Cardinality(ls) + 1
      BY <1>5, <3>1
    <3>3. QED
      BY ONLY <1>2, <3>1, <3>2
  <2>3. QED
    BY <2>1, <2>2
<1>7. \A m \in made : m = n \/ m \in rest
  OBVIOUS
<1>8. /\ \A m \in rest : m.source # n.source
      /\ \A m \in rest : \A s \in Samples : Former(m) /\ m.name = s.name => n.source # s.source
      /\ \A m \in rest : Kac(n.name) => m.name # n.name
  OBVIOUS
<1>9. made \subseteq LotRow
  BY <1>1
<1> HIDE DEF rest, made
<1>10. \A l \in made : l.id <= Cardinality(made)
  <2>1. SUFFICES ASSUME NEW l \in made, l \in rest PROVE l.id <= Cardinality(made)
    BY <1>6, <1>7
  <2>2. l.id \in Nat /\ l.id <= Cardinality(ls) /\ Cardinality(made) \in Nat
    BY <1>1, <1>2, <1>5, <2>1, FS_CardinalityType
  <2>3. QED
    BY <1>2, <1>6, <2>2
<1>11. \A l, m \in made : l.id = m.id \/ l.source = m.source => l = m
  BY <1>1, <1>3, <1>7, <1>8 DEF LotsInv
<1>12. \A l \in made : Former(l) => l \in rest
  BY <1>7
<1>13. \A l \in made : Former(l) => \E o \in OldLots : l.source = o.source /\ l.name = o.name
  BY <1>1, <1>12 DEF LotsInv
<1>14. \A l, m \in made : Former(l) /\ Former(m) => l = m
  BY <1>1, <1>12 DEF LotsInv
<1>15. \A l, m \in made : \A s \in Samples : Former(l) /\ l.name = s.name => m.source # s.source
  BY <1>1, <1>7, <1>8, <1>12 DEF LotsInv
<1>16. \A l, m \in made : Kac(l.name) /\ l.name = m.name => l = m
  BY <1>1, <1>7, <1>8 DEF LotsInv
<1>17. LotsInv(made)
  BY <1>5, <1>9, <1>10, <1>11, <1>13, <1>14, <1>15, <1>16 DEF LotsInv
<1>18. QED
  BY <1>17 DEF made, rest
-----------------------------------------------------------------------------
(* Starts that seed.                                                       *)

\* Of some lots one has the least and one the greatest number.
LEMMA OnePicked ==
  ASSUME NEW ls, LotsInv(ls), NEW found \in SUBSET ls, found # {}, NEW pick
  PROVE  (CHOOSE l \in found : \A m \in found : IF pick THEN l.id <= m.id ELSE l.id >= m.id) \in found
<1> DEFINE n == Cardinality(ls)
           ids == {l.id : l \in found}
           others == {n - l.id : l \in found}
<1>1. n \in Nat /\ \A l \in found : l.id \in Nat /\ n - l.id \in Nat
  <2>1. n \in Nat /\ \A l \in found : l.id \in Nat /\ l.id <= n
    BY FS_CardinalityType DEF LotsInv, LotRow
  <2> HIDE DEF n
  <2>2. QED
    BY <2>1
<1> HIDE DEF n
<1>2. ids \in SUBSET Nat /\ others \in SUBSET Nat /\ ids # {} /\ others # {}
  BY <1>1
<1>3. (\E d \in ids : \A e \in ids : d <= e) /\ (\E d \in others : \A e \in others : d <= e)
  <2> HIDE DEF ids, others
  <2>1. QED
    BY <1>2, LeastExists
<1>4. \E l \in found : \A m \in found : l.id <= m.id
  BY <1>3
<1>5. \E l \in found : \A m \in found : l.id >= m.id
  <2>1. PICK l \in found : \A m \in found : n - l.id <= n - m.id
    BY <1>3
  <2>2. \A m \in found : l.id >= m.id
    BY <1>1, <2>1
  <2>3. QED
    BY <2>2
<1>6. CASE pick
  BY <1>4, <1>6
<1>7. CASE ~pick
  BY <1>5, <1>7
<1>8. QED
  BY <1>6, <1>7

\* The rest of the lots once a sample has got its lot: one that an older version left
\* and that is called like the sample is among its candidates, and no other lot has
\* one of the sample's ids.
LEMMA FormerIsCandidate ==
  ASSUME NEW ls, LotsInv(ls), NEW s \in Samples, NEW m \in ls, Former(m), m.name = s.name
  PROVE  SeedCandidates(ls, s) = {m}
<1>1. PICK o \in OldLots : m.source = o.source /\ m.name = o.name
  BY DEF LotsInv
<1>2. m.source \in s.legacy
  <2>1. m.source \in {s.source} \cup s.legacy
    BY <1>1, SamplesAssumption
  <2>2. m.source # s.source
    BY DEF Former, Sampled
  <2>3. QED
    BY <2>1, <2>2
<1>3. ASSUME NEW l \in ls, l.source \in {s.source} \cup s.legacy
      PROVE  l = m
  <2>1. l.source # s.source
    BY DEF LotsInv
  <2>2. l.source \in s.legacy
    BY <1>3, <2>1
  <2>3. ~Sampled(l)
    BY <2>2, SamplesAssumption DEF Sampled
  <2>4. ~Collected(l)
    <3>1. l.name \in Names
      BY DEF LotsInv, LotRow, OneSpelling
    <3>2. QED
      BY <2>2, <3>1, SamplesAssumption DEF Collected
  <2>5. QED
    BY <2>3, <2>4 DEF Former, LotsInv
<1>4. {l \in ls : l.source \in {s.source} \cup s.legacy} = {m}
  BY <1>2, <1>3
<1>5. QED
  BY <1>4 DEF SeedCandidates

\* A candidate for a sample of KAC or of Incheon is a lot of the same.
LEMMA CandidateOfAirport ==
  ASSUME NEW ls, LotsInv(ls), NEW s \in Samples, NEW l \in SeedCandidates(ls, s)
  PROVE  l \in ls /\ (Kac(l.name) <=> Kac(s.name))
<1>1. l \in ls
  BY DEF SeedCandidates
<1>2. l.name \in Names /\ s.name \in Names
  BY <1>1, SamplesAssumption DEF LotsInv, LotRow, OneSpelling
<1>3. CASE l.source \in {s.source} \cup s.legacy
  <2>1. {s.source} \cup s.legacy \in {{q.source} \cup q.legacy : q \in {x \in Samples : x.name = s.name}}
    OBVIOUS
  <2>2. l.source \in IdsOf(s.name)
    BY <1>3, <2>1 DEF IdsOf
  <2>3. l.source \in IdsOf(l.name)
    BY <1>1, IdOfName
  <2>4. QED
    BY <1>1, <1>2, <2>2, <2>3, SameAirport
<1>4. CASE l.source \notin {s.source} \cup s.legacy
  <2>1. l.name \in s.oldNames
    BY <1>4 DEF SeedCandidates
  <2>2. AirportOfLot[l.name] = AirportOfLot[s.name]
    BY <1>2, <2>1, SamplesAssumption
  <2>3. QED
    BY <1>1, <2>2 DEF Kac
<1>5. QED
  BY <1>3, <1>4

\* A sample gets its lot, unless the id is another's.
LEMMA SampleSeeded ==
  ASSUME NEW ls, LotsInv(ls), NEW s \in Samples,
         NEW lot, NEW new, new.id = Cardinality(ls) + 1,
         IF SeedCandidates(ls, s) = {} THEN lot = new ELSE lot \in SeedCandidates(ls, s),
         ~\E m \in ls \ {lot} : m.source = s.source,
         NEW n, n = [id |-> lot.id, source |-> s.source, name |-> s.name]
  PROVE  LotsInv((ls \ {lot}) \cup {n}) /\ LotsFollow(ls, (ls \ {lot}) \cup {n})
<1>1. lot \in ls \/ lot.id = Cardinality(ls) + 1
  BY DEF SeedCandidates
<1>2. n.id = lot.id /\ n.source = s.source /\ n.name = s.name
  OBVIOUS
<1>3. n \in LotRow
  <2>1. lot.id \in Nat \ {0}
    <3>1. CASE lot \in ls
      BY <3>1 DEF LotsInv, LotRow
    <3>2. CASE lot.id = Cardinality(ls) + 1
      <4>1. Cardinality(ls) \in Nat
        BY FS_CardinalityType DEF LotsInv
      <4>2. QED
        BY <3>2, <4>1
    <3>3. QED
      BY <1>1, <3>1, <3>2
  <2>2. s.source \in STRING /\ s.name \in OneSpelling
    BY SamplesAssumption
  <2>3. QED
    BY <2>1, <2>2 DEF LotRow
<1>4. ~Former(n)
  BY <1>2 DEF Former, Sampled
<1>5. \A m \in ls \ {lot} : m.source # n.source
  BY <1>2
<1>6. ASSUME NEW m \in ls \ {lot}, Former(m), m.name = s.name
      PROVE  FALSE
  <2>1. SeedCandidates(ls, s) = {m}
    BY <1>6, FormerIsCandidate
  <2>2. QED
    BY <1>6, <2>1
<1>7. ASSUME NEW m \in ls \ {lot}, NEW q \in Samples, Former(m), m.name = q.name
      PROVE  n.source # q.source
  <2>1. SUFFICES ASSUME s.source = q.source PROVE FALSE
    BY <1>2
  <2>2. s.name = q.name
    BY <2>1, SamplesAssumption
  <2>3. QED
    BY <1>6, <1>7, <2>2
<1>8. ASSUME NEW m \in ls \ {lot}, Kac(s.name), m.name = s.name
      PROVE  FALSE
  <2>1. ~Former(m)
    BY <1>6, <1>8
  <2>2. Collected(m)
    BY <1>8, <2>1, KacSample DEF Former
  <2>3. m.source = s.source
    BY <1>8, <2>2, IdsAssumption DEF Collected
  <2>4. QED
    BY <2>3
<1>9. LotsInv((ls \ {lot}) \cup {n})
  BY ONLY LotsInv(ls), <1>1, <1>2, <1>3, <1>4, <1>5, <1>7, <1>8, LotReplaced
<1>10. ASSUME NEW l \in ls
       PROVE  \E m \in (ls \ {lot}) \cup {n} : m.id = l.id /\ (Kac(l.name) => Kac(m.name))
  <2>1. CASE l # lot
    BY <2>1
  <2>2. CASE l = lot
    <3>1. CASE SeedCandidates(ls, s) = {}
      <4>1. l.id = Cardinality(ls) + 1
        BY <2>2, <3>1
      <4>2. l.id <= Cardinality(ls) /\ Cardinality(ls) \in Nat
        BY FS_CardinalityType DEF LotsInv
      <4>3. QED
        BY ONLY <4>1, <4>2
    <3>2. CASE SeedCandidates(ls, s) # {}
      <4>1. Kac(l.name) => Kac(s.name)
        BY <2>2, <3>2, CandidateOfAirport
      <4>2. QED
        BY <1>2, <2>2, <4>1
    <3>3. QED
      BY <3>1, <3>2
  <2>3. QED
    BY <2>1, <2>2
<1>11. QED
  BY <1>9, <1>10 DEF LotsFollow
\* Where a start that seeds may have got to with the lots `ls` it found.
Seedings(ls) ==
  {st \in [lots : SUBSET LotRow, failed : BOOLEAN] :
     st.failed \/ (LotsInv(st.lots) /\ LotsFollow(ls, st.lots))}

\* One more sample.
LEMMA SeedingGoesOn ==
  ASSUME NEW ls, NEW st \in Seedings(ls), NEW s \in Samples, NEW pick
  PROVE  SeedLot(st, s, pick) \in Seedings(ls)
<1> DEFINE found == SeedCandidates(st.lots, s)
           new == NewLot(st.lots, s.source, s.name)
           lot == IF found = {} THEN new
                  ELSE CHOOSE l \in found : \A m \in found : IF pick THEN l.id <= m.id ELSE l.id >= m.id
           taken == \E m \in st.lots \ {lot} : m.source = s.source
           n == [lot EXCEPT !.source = s.source, !.name = s.name]
           made == (st.lots \ {lot}) \cup {n}
<1>1. SeedLot(st, s, pick) = IF st.failed \/ taken THEN [st EXCEPT !.failed = TRUE]
                             ELSE [st EXCEPT !.lots = made]
  BY DEF SeedLot
<1>2. st \in [lots : SUBSET LotRow, failed : BOOLEAN]
  BY DEF Seedings
<1>3. CASE st.failed \/ taken
  <2> HIDE DEF taken
  <2>1. SeedLot(st, s, pick) = [st EXCEPT !.failed = TRUE]
    BY <1>1, <1>3
  <2>2. [st EXCEPT !.failed = TRUE] \in [lots : SUBSET LotRow, failed : BOOLEAN]
    BY <1>2
  <2>3. [st EXCEPT !.failed = TRUE].failed
    BY <1>2
  <2>4. QED
    BY <2>1, <2>2, <2>3 DEF Seedings
<1>4. CASE ~(st.failed \/ taken)
  <2>1. LotsInv(st.lots) /\ LotsFollow(ls, st.lots)
    BY <1>4 DEF Seedings
  <2>2. new = [id |-> Cardinality(st.lots) + 1, source |-> s.source, name |-> s.name]
    BY DEF NewLot
  <2>3. IF found = {} THEN lot = new ELSE lot \in found
    <3>1. CASE found = {}
      BY <3>1
    <3>2. CASE found # {}
      <4>1. found \in SUBSET st.lots
        BY DEF SeedCandidates
      <4> HIDE DEF found
      <4>2. QED
        BY <2>1, <3>2, <4>1, OnePicked
    <3>3. QED
      BY <3>1, <3>2
  <2>4. lot = [id |-> lot.id, source |-> lot.source, name |-> lot.name]
    <3>1. found \subseteq st.lots /\ st.lots \subseteq LotRow
      BY <2>1 DEF SeedCandidates, LotsInv
    <3> HIDE DEF lot, found
    <3>2. CASE found = {}
      BY <2>2, <2>3, <3>2
    <3>3. CASE found # {}
      BY <2>3, <3>1, <3>3 DEF LotRow
    <3>4. QED
      BY <3>2, <3>3
  <2>5. ~taken
    BY <1>4
  <2> HIDE DEF lot, new
  <2>6. n = [id |-> lot.id, source |-> s.source, name |-> s.name]
    <3>1. DOMAIN lot = {"id", "source", "name"}
      BY <2>4
    <3>2. n = [f \in DOMAIN lot |-> IF f = "source" THEN s.source ELSE IF f = "name" THEN s.name ELSE lot[f]]
      OBVIOUS
    <3>3. QED
      BY <3>1, <3>2
  <2> HIDE DEF n
  <2>7. LotsInv(made) /\ LotsFollow(st.lots, made)
    <3>1. new.id = Cardinality(st.lots) + 1
      BY <2>2
    <3>2. ~\E m \in st.lots \ {lot} : m.source = s.source
      BY <2>5
    <3>3. QED
      BY ONLY <2>1, <2>3, <2>6, <3>1, <3>2, s \in Samples, SampleSeeded
  <2> HIDE DEF taken, made, found
  <2>8. LotsFollow(ls, made)
    BY <2>1, <2>7 DEF LotsFollow
  <2>9. made \in SUBSET LotRow
    BY <2>7 DEF LotsInv
  <2>10. SeedLot(st, s, pick) = [st EXCEPT !.lots = made]
    BY <1>1, <1>4
  <2>11. /\ [st EXCEPT !.lots = made] \in [lots : SUBSET LotRow, failed : BOOLEAN]
         /\ [st EXCEPT !.lots = made].lots = made
    BY <1>2, <2>9
  <2>12. QED
    BY <2>7, <2>8, <2>10, <2>11 DEF Seedings
<1>5. QED
  BY <1>3, <1>4

\* All samples.
SeedingEnd(ls, pick) ==
  FoldLeft(LAMBDA st, s : SeedLot(st, s, pick), [lots |-> ls, failed |-> FALSE], SampleLots)

\* The seeding ends well or it fails.
LEMMA SeedingEnds ==
  ASSUME NEW ls, LotsInv(ls), NEW pick
  PROVE  SeedingEnd(ls, pick) \in Seedings(ls)
<1> DEFINE seed(st, s) == SeedLot(st, s, pick)
           base == [lots |-> ls, failed |-> FALSE]
           D == DOMAIN SampleLots
           Walks(f) == f = [t \in SUBSET D |-> IF t = {} THEN base
                                               ELSE seed(f[t \ {Max(t)}], SampleLots[Max(t)])]
           walk == CHOOSE f : Walks(f)
           V == Seedings(ls)
<1>1. walk[D] = SeedingEnd(ls, pick)
  BY DEF SeedingEnd, FoldLeft, MapThenFoldSet
<1>2. PICK n \in Nat : D = 1..n
  <2>1. SampleLots \in Seq(Samples)
    BY SamplesAssumption
  <2>2. QED
    BY <2>1
<1>3. \A i \in D : SampleLots[i] \in Samples
  BY SamplesAssumption
<1>4. base \in V
  <2>1. ls \in SUBSET LotRow /\ LotsFollow(ls, ls)
    BY DEF LotsInv, LotsFollow
  <2>2. QED
    BY <2>1 DEF Seedings
<1>5. \A st \in V, i \in D : seed(st, SampleLots[i]) \in V
  BY <1>3, SeedingGoesOn
<1> DEFINE step == [i \in D |-> [st \in V |-> seed(st, SampleLots[i])]]
<1> HIDE DEF seed, base, V, D
<1>6. step \in [1..n -> [V -> V]]
  BY <1>2, <1>5
<1>7. \A i \in D, st \in V : step[i][st] = seed(st, SampleLots[i])
  OBVIOUS
<1> HIDE DEF step
<1>8. PICK f \in [SUBSET (1..n) -> V] : Along(f, n, base, step)
  BY ONLY <1>4, <1>6, WalkExists, n \in Nat
<1>9. \A t \in SUBSET D : t # {} => Max(t) \in D /\ t \ {Max(t)} \in SUBSET D
  BY <1>2, GreatestIndex
<1>10. Walks(f)
  <2> DEFINE After(t) == IF t = {} THEN base ELSE seed(f[t \ {Max(t)}], SampleLots[Max(t)])
  <2>1. ASSUME NEW t \in SUBSET D
        PROVE  (IF t = {} THEN base ELSE step[Max(t)][f[t \ {Max(t)}]]) = After(t)
    BY <1>2, <1>7, <1>8, <1>9
  <2>2. f = [t \in SUBSET D |-> IF t = {} THEN base ELSE step[Max(t)][f[t \ {Max(t)}]]]
    BY <1>2, <1>8 DEF Along
  <2> HIDE DEF After
  <2>3. f = [t \in SUBSET D |-> After(t)]
    BY <2>1, <2>2
  <2>4. QED
    BY <2>3 DEF After
<1>11. Walks(walk)
  BY <1>10
<1> HIDE DEF walk
<1>12. walk[{}] = base /\ \A t \in SUBSET D : t # {} =>
                            walk[t] = seed(walk[t \ {Max(t)}], SampleLots[Max(t)])
  BY <1>11
<1>13. walk[1..n] \in V
  <2>1. ASSUME NEW t \in SUBSET (1..n), t # {}, walk[t \ {Max(t)}] \in V
        PROVE  walk[t] \in V
    <3>1. Max(t) \in D /\ walk[t] = seed(walk[t \ {Max(t)}], SampleLots[Max(t)])
      BY <1>2, <1>9, <1>12, <2>1
    <3>2. QED
      BY ONLY <1>5, <2>1, <3>1
  <2>2. QED
    BY ONLY <1>4, <1>12, <2>1, WalkStays, n \in Nat
<1>14. walk[D] \in V
  BY <1>2, <1>13
<1>15. QED
  BY <1>1, <1>14 DEF V, seed, base
-----------------------------------------------------------------------------
(* Runs.  `allowed` is whether a run may raise: where it may not, what its   *)
(* answers say must fit.                                                     *)

\* A reading as the parsers make them of the answers.
Storable(o) ==
  /\ o.lot \in OneSpelling /\ o.at \in Int /\ o.source \in {"kac_parking", "incheon_parking"}
  /\ o.source = "kac_parking" => Kac(o.lot)

\* Where a run may have got to.
RunStates(ls, rs, allowed) ==
  {st \in [lots : SUBSET LotRow, rows : SUBSET ReadingRow, raised : BOOLEAN] :
     \/ allowed /\ st.raised
     \/ /\ ~st.raised
        /\ LotsInv(st.lots) /\ RowsInv(st.lots, st.rows)
        /\ LotsFollow(ls, st.lots) /\ rs \subseteq st.rows}

\* The lots of `ls` that a reading of a lot of the name `n` may be of.
WithId(ls, n) == {l \in ls : l.source = SourceIdOf[n]}
Found(ls, n) == IF WithId(ls, n) # {} THEN WithId(ls, n) ELSE {l \in ls : l.name = n}

\* They are one or none.
LEMMA OneFound ==
  ASSUME NEW ls, LotsInv(ls), NEW n \in Names, NEW found, found = Found(ls, n)
  PROVE  /\ found \subseteq ls /\ IsFiniteSet(found)
         /\ Cardinality(found) \in {0, 1}
         /\ \A l, m \in found : l = m
<1> DEFINE bySource == WithId(ls, n)
<1>1. found \subseteq ls /\ IsFiniteSet(found)
  <2>1. found \subseteq ls
    BY DEF Found, WithId
  <2>2. QED
    BY <2>1, FS_Subset DEF LotsInv
<1>2. ASSUME NEW l \in found, NEW m \in found
      PROVE  l = m
  <2>1. CASE bySource # {}
    BY <1>2, <2>1 DEF LotsInv, Found, WithId
  <2>2. CASE bySource = {}
    BY <1>2, <2>2, NotAmbiguous DEF Found, WithId
  <2>3. QED
    BY <2>1, <2>2
<1>3. CASE found = {}
  BY <1>1, <1>2, <1>3, FS_EmptySet
<1>4. CASE found # {}
  <2>1. PICK l \in found : found = {l}
    <3>1. PICK l \in found : TRUE
      BY <1>4
    <3>2. \A m \in found : m = l
      BY <1>2, <3>1
    <3>3. found = {l}
      BY <3>1, <3>2
    <3>4. QED
      BY <3>1, <3>3
  <2>2. Cardinality(found) = 1
    BY <2>1, FS_Singleton
  <2>3. QED
    BY <1>1, <1>2, <2>2
<1>5. QED
  BY <1>3, <1>4

\* The lot of a reading is found or added, and called as the reading calls it.
LEMMA LotOfReading ==
  ASSUME NEW ls, LotsInv(ls), NEW name \in OneSpelling, NEW found, found = Found(ls, name), NEW lot,
         IF found = {} THEN lot = [id |-> Cardinality(ls) + 1, source |-> SourceIdOf[name], name |-> name]
         ELSE lot \in found,
         NEW n, n = [id |-> lot.id, source |-> lot.source, name |-> name]
  PROVE  /\ LotsInv((ls \ {lot}) \cup {n}) /\ LotsFollow(ls, (ls \ {lot}) \cup {n})
         /\ n.id = lot.id /\ lot.id \in Nat
<1> DEFINE bySource == WithId(ls, name)
<1>1. name \in Names /\ SourceIdOf[name] \in STRING
  BY IdsAssumption DEF OneSpelling
<1>2. n.id = lot.id /\ n.source = lot.source /\ n.name = name
  OBVIOUS
<1>3. CASE bySource # {}
  <2>1. lot \in ls /\ lot.source = SourceIdOf[name]
    BY <1>3 DEF Found, WithId
  <2>2. n \in LotRow
    BY <1>1, <2>1 DEF LotsInv, LotRow
  <2>3. ~Former(n)
    BY <1>2, <2>1 DEF Former, Collected
  <2>4. \A m \in ls \ {lot} : m.source # n.source
    BY <1>2, <2>1 DEF LotsInv
  <2>5. \A m \in ls \ {lot} : \A s \in Samples : Former(m) /\ m.name = s.name => n.source # s.source
    BY <1>2, <2>1 DEF LotsInv
  <2>6. ASSUME NEW m \in ls \ {lot}, Kac(name), m.name = name
        PROVE  FALSE
    <3>1. ~Collected(m)
      BY <1>2, <2>1, <2>4, <2>6 DEF Collected
    <3>2. Former(m)
      BY <2>6, <3>1, KacSample DEF Former
    <3>3. ~Former(lot)
      BY <2>1, <2>6, <3>2 DEF LotsInv
    <3>4. lot.name \in Names
      BY <2>1 DEF LotsInv, LotRow, OneSpelling
    <3>5. CASE Collected(lot)
      <4>1. lot.name = name
        BY <1>1, <2>1, <2>6, <3>4, <3>5, IdsAssumption DEF Collected
      <4>2. QED
        BY <2>1, <2>6, <4>1 DEF LotsInv
    <3>6. CASE Sampled(lot)
      <4>1. PICK s \in Samples : lot.source = s.source /\ lot.name = s.name
        BY <3>6 DEF Sampled
      <4>2. name = s.name
        BY <1>1, <2>1, <4>1, IdsAssumption
      <4>3. QED
        BY <2>1, <2>6, <4>1, <4>2 DEF LotsInv
    <3>7. QED
      BY <3>3, <3>5, <3>6 DEF Former
  <2>7. LotsInv((ls \ {lot}) \cup {n})
    BY ONLY LotsInv(ls), <1>2, <2>1, <2>2, <2>3, <2>4, <2>5, <2>6, LotReplaced
  <2>8. Kac(lot.name) <=> Kac(name)
    <3>1. lot.source \in IdsOf(lot.name) /\ lot.source \in IdsOf(name)
      BY <2>1, IdOfName DEF IdsOf
    <3>2. lot.name \in Names
      BY <2>1 DEF LotsInv, LotRow, OneSpelling
    <3>3. QED
      BY <1>1, <3>1, <3>2, SameAirport
  <2>9. LotsFollow(ls, (ls \ {lot}) \cup {n})
    BY <1>2, <2>8 DEF LotsFollow
  <2>10. QED
    BY <1>2, <2>1, <2>7, <2>9 DEF LotsInv, LotRow
<1>4. CASE bySource = {} /\ found # {}
  <2>1. lot \in ls /\ lot.name = name
    BY <1>4 DEF Found
  <2>2. n = lot
    <3>1. lot \in LotRow
      BY <2>1 DEF LotsInv
    <3>2. lot = [id |-> lot.id, source |-> lot.source, name |-> lot.name]
      BY <3>1 DEF LotRow
    <3>3. QED
      BY <2>1, <3>2
  <2>3. (ls \ {lot}) \cup {n} = ls
    BY <2>1, <2>2
  <2>4. LotsFollow(ls, ls)
    BY DEF LotsFollow
  <2>5. n.id = lot.id /\ lot.id \in Nat
    BY <1>2, <2>1 DEF LotsInv, LotRow
  <2>6. QED
    BY ONLY LotsInv(ls), <2>3, <2>4, <2>5
<1>5. CASE bySource = {} /\ found = {}
  <2>1. lot.id = Cardinality(ls) + 1 /\ lot.source = SourceIdOf[name]
    BY <1>5
  <2>2. \A m \in ls : m.source # SourceIdOf[name] /\ m.name # name
    BY <1>5 DEF Found, WithId
  <2>3. Cardinality(ls) \in Nat
    BY FS_CardinalityType DEF LotsInv
  <2>4. n \in LotRow
    BY <1>1, <1>2, <2>1, <2>3 DEF LotRow
  <2>5. ~Former(n)
    BY <1>2, <2>1 DEF Former, Collected
  <2>6. \A m \in ls \ {lot} : m.source # n.source
    BY <1>2, <2>1, <2>2
  <2>7. \A m \in ls \ {lot} : \A s \in Samples : Former(m) /\ m.name = s.name => n.source # s.source
    <3> SUFFICES ASSUME NEW m \in ls, NEW s \in Samples, m.name = s.name, n.source = s.source
                 PROVE  FALSE
      OBVIOUS
    <3>1. name = s.name
      BY <1>1, <1>2, <2>1, IdsAssumption
    <3>2. QED
      BY <2>2, <3>1
  <2>8. \A m \in ls \ {lot} : Kac(n.name) => m.name # n.name
    BY <1>2, <2>2
  <2>9. LotsInv((ls \ {lot}) \cup {n})
    BY ONLY LotsInv(ls), <1>2, <2>1, <2>4, <2>5, <2>6, <2>7, <2>8, LotReplaced
  <2>10. lot \notin ls
    BY <2>1, <2>3 DEF LotsInv
  <2>11. LotsFollow(ls, (ls \ {lot}) \cup {n})
    BY <2>10 DEF LotsFollow
  <2>12. QED
    BY <1>2, <2>1, <2>3, <2>9, <2>11
<1>6. QED
  BY <1>3, <1>4, <1>5
\* One reading is stored, passed over as known, or the run raises.
LEMMA ReadingStored ==
  ASSUME NEW ls, NEW rs, NEW allowed \in BOOLEAN, NEW st \in RunStates(ls, rs, allowed), ~st.raised,
         NEW o, Storable(o), allowed \/ (LotFits(o) /\ SnapshotFits(o))
  PROVE  StoreObservation(st, o) \in RunStates(ls, rs, allowed)
<1> DEFINE found == Found(st.lots, o.lot)
           lot == IF found = {} THEN NewLot(st.lots, SourceIdOf[o.lot], o.lot) ELSE CHOOSE l \in found : TRUE
           known == \E r \in st.rows : r.lot = lot.id /\ r.source = o.source /\ r.at = o.at
           refused == Cardinality(found) > 1 \/ ~LotFits(o) \/ ~(known \/ SnapshotFits(o))
           n == [lot EXCEPT !.name = o.lot]
           row == [lot |-> lot.id, source |-> o.source, at |-> o.at, collected |-> TRUE]
           made == (st.lots \ {lot}) \cup {n}
           after == IF known THEN st.rows ELSE st.rows \cup {row}
           end == [st EXCEPT !.lots = made, !.rows = after]
<1>1. StoreObservation(st, o) = IF refused THEN Raised(st) ELSE end
  BY DEF StoreObservation, Found, WithId
<1>2. /\ st \in [lots : SUBSET LotRow, rows : SUBSET ReadingRow, raised : BOOLEAN]
      /\ LotsInv(st.lots) /\ RowsInv(st.lots, st.rows)
      /\ LotsFollow(ls, st.lots) /\ rs \subseteq st.rows
  BY DEF RunStates
<1>3. o.lot \in OneSpelling /\ o.lot \in Names
  BY DEF Storable, OneSpelling
<1>4. Cardinality(found) \in {0, 1} /\ found \subseteq st.lots
  <2>1. found = Found(st.lots, o.lot)
    OBVIOUS
  <2> HIDE DEF found
  <2>2. QED
    BY ONLY <1>2, <1>3, <2>1, OneFound
<1>5. CASE refused
  <2>1. ~(LotFits(o) /\ SnapshotFits(o))
    BY <1>4, <1>5
  <2>2. allowed
    BY <2>1
  <2> HIDE DEF refused
  <2>3. StoreObservation(st, o) = [st EXCEPT !.raised = TRUE]
    BY <1>1, <1>5 DEF Raised
  <2>4. /\ [st EXCEPT !.raised = TRUE] \in [lots : SUBSET LotRow, rows : SUBSET ReadingRow, raised : BOOLEAN]
        /\ [st EXCEPT !.raised = TRUE].raised
    BY <1>2
  <2>5. QED
    BY <2>2, <2>3, <2>4 DEF RunStates
<1>6. CASE ~refused
  <2>1. IF found = {}
          THEN lot = [id |-> Cardinality(st.lots) + 1, source |-> SourceIdOf[o.lot], name |-> o.lot]
        ELSE lot \in found
    BY DEF NewLot
  <2>2. lot = [id |-> lot.id, source |-> lot.source, name |-> lot.name]
    <3> HIDE DEF lot, found
    <3>1. CASE found = {}
      BY <2>1, <3>1
    <3>2. CASE found # {}
      <4>1. lot \in LotRow
        BY <1>2, <1>4, <2>1, <3>2
      <4>2. QED
        BY <4>1 DEF LotRow
    <3>3. QED
      BY <3>1, <3>2
  <2>3. n = [id |-> lot.id, source |-> lot.source, name |-> o.lot]
    <3> HIDE DEF lot
    <3>1. DOMAIN lot = {"id", "source", "name"}
      BY <2>2
    <3>2. n = [f \in DOMAIN lot |-> IF f = "name" THEN o.lot ELSE lot[f]]
      OBVIOUS
    <3>3. QED
      BY <3>1, <3>2
  <2>4. StoreObservation(st, o) = end
    BY <1>1, <1>6
  <2> HIDE DEF lot, n, refused
  <2>5. LotsInv(made) /\ LotsFollow(st.lots, made) /\ n.id = lot.id /\ lot.id \in Nat
    <3>1. found = Found(st.lots, o.lot)
      OBVIOUS
    <3> HIDE DEF found
    <3>2. QED
      BY ONLY <1>2, <1>3, <2>1, <2>3, <3>1, LotOfReading
  <2>6. row \in ReadingRow
    <3>1. lot.id \in Nat
      BY <2>5
    <3>2. o.source \in {"kac_parking", "incheon_parking"} /\ o.at \in Int
      BY DEF Storable
    <3>3. QED
      <4>1. row = [lot |-> lot.id, source |-> o.source, at |-> o.at, collected |-> TRUE]
        OBVIOUS
      <4> HIDE DEF row
      <4>2. QED
        BY ONLY <3>1, <3>2, <4>1 DEF ReadingRow
  <2>7. \E l \in made : l.id = row.lot /\ (KacReading(row) => Kac(l.name))
    <3>1. n \in made /\ n.id = row.lot /\ n.name = o.lot
      BY <2>3, <2>5
    <3>2. QED
      BY <3>1 DEF KacReading, Storable
  <2>8. RowsInv(made, st.rows)
    BY <1>2, <2>5, RowsFollow
  <2>9. ASSUME ~known, NEW r \in st.rows
         PROVE  ~(r.lot = row.lot /\ r.source = row.source /\ r.at = row.at)
    <3>1. row.lot = lot.id /\ row.source = o.source /\ row.at = o.at
      OBVIOUS
    <3>2. QED
      BY <2>9, <3>1
  <2> HIDE DEF made, row, known, found
  <2>10. RowsInv(made, after) /\ st.rows \subseteq after /\ after \in SUBSET ReadingRow
    <3>1. CASE known
      BY <2>8, <3>1 DEF RowsInv
    <3>2. CASE ~known
      <4>1. after = st.rows \cup {row}
        BY <3>2
      <4> HIDE DEF after
      <4>2. \A r \in after : r = row \/ r \in st.rows
        BY <4>1
      <4>3. \A r, s \in after : r.lot = s.lot /\ r.source = s.source /\ r.at = s.at => r = s
        BY <2>8, <2>9, <3>2, <4>2 DEF RowsInv
      <4>4. \A r \in after : \E l \in made : l.id = r.lot /\ (KacReading(r) => Kac(l.name))
        BY <2>7, <2>8, <4>2 DEF RowsInv
      <4>5. after \subseteq ReadingRow /\ st.rows \subseteq after
        BY <2>6, <2>8, <4>1 DEF RowsInv
      <4>6. QED
        BY <4>3, <4>4, <4>5 DEF RowsInv
    <3>3. QED
      BY <3>1, <3>2
  <2>11. LotsFollow(ls, made) /\ made \in SUBSET LotRow
    BY <1>2, <2>5 DEF LotsFollow, LotsInv
  <2> HIDE DEF after
  <2>12. /\ end \in [lots : SUBSET LotRow, rows : SUBSET ReadingRow, raised : BOOLEAN]
         /\ end.lots = made /\ end.rows = after /\ end.raised = st.raised
    BY <1>2, <2>10, <2>11
  <2>13. rs \subseteq after
    BY <1>2, <2>10
  <2> HIDE DEF end
  <2>14. end \in RunStates(ls, rs, allowed)
    BY <2>5, <2>10, <2>11, <2>12, <2>13 DEF RunStates
  <2>15. QED
    BY <2>4, <2>14
<1>7. QED
  BY <1>5, <1>6

\* All readings of an answer.
LEMMA ReadingsStored ==
  ASSUME NEW ls, NEW rs, NEW allowed \in BOOLEAN, NEW st \in RunStates(ls, rs, allowed),
         NEW T, NEW parsed \in Seq(T), \A o \in T : Storable(o),
         allowed \/ \A o \in T : LotFits(o) /\ SnapshotFits(o)
  PROVE  StoreObservations(st, parsed) \in RunStates(ls, rs, allowed)
<1> DEFINE store(s, o) == IF s.raised THEN s ELSE StoreObservation(s, o)
           D == DOMAIN parsed
           Walks(f) == f = [t \in SUBSET D |-> IF t = {} THEN st
                                               ELSE store(f[t \ {Max(t)}], parsed[Max(t)])]
           walk == CHOOSE f : Walks(f)
           V == RunStates(ls, rs, allowed)
<1>1. walk[D] = StoreObservations(st, parsed)
  BY DEF FoldLeft, MapThenFoldSet, StoreObservations
<1>2. PICK n \in Nat : D = 1..n
  OBVIOUS
<1>3. \A i \in D : parsed[i] \in T
  OBVIOUS
<1>4. ASSUME NEW s \in V, NEW i \in D
      PROVE  store(s, parsed[i]) \in V
  <2>1. CASE s.raised
    BY <2>1
  <2>2. CASE ~s.raised
    <3>1. parsed[i] \in T
      BY <1>3
    <3> PICK o \in T : o = parsed[i]
      BY <3>1
    <3>2. Storable(o) /\ (allowed \/ (LotFits(o) /\ SnapshotFits(o)))
      BY ONLY o \in T, \A x \in T : Storable(x),
              allowed \/ \A x \in T : LotFits(x) /\ SnapshotFits(x)
    <3>3. s \in RunStates(ls, rs, allowed)
      OBVIOUS
    <3>4. StoreObservation(s, o) \in RunStates(ls, rs, allowed)
      BY ONLY <2>2, <3>2, <3>3, allowed \in BOOLEAN, ReadingStored
    <3>5. QED
      BY <2>2, <3>4
  <2>3. QED
    BY <2>1, <2>2
<1> DEFINE step == [i \in D |-> [s \in V |-> store(s, parsed[i])]]
<1> HIDE DEF store, V, D
<1>5. st \in V
  BY DEF V
<1>6. step \in [1..n -> [V -> V]]
  BY <1>2, <1>4
<1>7. \A i \in D, s \in V : step[i][s] = store(s, parsed[i])
  OBVIOUS
<1> HIDE DEF step
<1>8. PICK f \in [SUBSET (1..n) -> V] : Along(f, n, st, step)
  BY ONLY <1>5, <1>6, WalkExists, n \in Nat
<1>9. \A t \in SUBSET D : t # {} => Max(t) \in D /\ t \ {Max(t)} \in SUBSET D
  BY <1>2, GreatestIndex
<1>10. Walks(f)
  <2> DEFINE After(t) == IF t = {} THEN st ELSE store(f[t \ {Max(t)}], parsed[Max(t)])
  <2>1. ASSUME NEW t \in SUBSET D
        PROVE  (IF t = {} THEN st ELSE step[Max(t)][f[t \ {Max(t)}]]) = After(t)
    BY <1>2, <1>7, <1>8, <1>9
  <2>2. f = [t \in SUBSET D |-> IF t = {} THEN st ELSE step[Max(t)][f[t \ {Max(t)}]]]
    BY <1>2, <1>8 DEF Along
  <2> HIDE DEF After
  <2>3. f = [t \in SUBSET D |-> After(t)]
    BY <2>1, <2>2
  <2>4. QED
    BY <2>3 DEF After
<1>11. Walks(walk)
  BY <1>10
<1> HIDE DEF walk
<1>12. walk[{}] = st /\ \A t \in SUBSET D : t # {} =>
                          walk[t] = store(walk[t \ {Max(t)}], parsed[Max(t)])
  BY <1>11
<1>13. walk[1..n] \in V
  <2>1. ASSUME NEW t \in SUBSET (1..n), t # {}, walk[t \ {Max(t)}] \in V
        PROVE  walk[t] \in V
    <3>1. Max(t) \in D /\ walk[t] = store(walk[t \ {Max(t)}], parsed[Max(t)])
      BY <1>2, <1>9, <1>12, <2>1
    <3>2. QED
      BY ONLY <1>4, <2>1, <3>1
  <2>2. QED
    BY ONLY <1>5, <1>12, <2>1, WalkStays, n \in Nat
<1>14. walk[D] \in V
  BY <1>2, <1>13
<1>15. QED
  BY <1>1, <1>14 DEF V

\* What a run raises at leaves it where it may be.
LEMMA RaisedAllowed ==
  ASSUME NEW ls, NEW rs, NEW st \in RunStates(ls, rs, TRUE)
  PROVE  Raised(st) \in RunStates(ls, rs, TRUE)
<1>1. st \in [lots : SUBSET LotRow, rows : SUBSET ReadingRow, raised : BOOLEAN]
  BY DEF RunStates
<1>2. /\ [st EXCEPT !.raised = TRUE] \in [lots : SUBSET LotRow, rows : SUBSET ReadingRow, raised : BOOLEAN]
      /\ [st EXCEPT !.raised = TRUE].raised
  BY <1>1
<1>3. QED
  BY <1>2 DEF Raised, RunStates

\* The rules of an answer are stored, or the run raises at one.
LEMMA RulesStored ==
  ASSUME NEW ls, NEW rs, NEW allowed \in BOOLEAN, NEW st \in RunStates(ls, rs, allowed),
         NEW parsed, allowed \/ \A rule \in parsed : rule.kept /\ RuleFits(rule.tariff)
  PROVE  StoreFeeRules(st, parsed) \in RunStates(ls, rs, allowed)
<1>1. CASE \A rule \in parsed : rule.kept /\ RuleFits(rule.tariff)
  BY <1>1 DEF StoreFeeRules
<1>2. CASE ~\A rule \in parsed : rule.kept /\ RuleFits(rule.tariff)
  <2>1. allowed = TRUE
    BY <1>2
  <2>2. StoreFeeRules(st, parsed) = Raised(st)
    BY <1>2 DEF StoreFeeRules
  <2>3. QED
    BY <2>1, <2>2, RaisedAllowed
<1>3. QED
  BY <1>1, <1>2
-----------------------------------------------------------------------------
(* What the parsers make of the answers that are possible.                 *)

\* The parser of KAC's answers makes readings of the items it does not pass over.
LEMMA KacParsed ==
  ASSUME NEW now, NEW T, NEW items, NEW S, items \in Seq(S),
         \A i \in S : AskedFor(i) => KacObservation(i, now) \in T
  PROVE  ParseKacParking(items, now) \in Seq(T)
<1> DEFINE parse(p, i) == IF AskedFor(i) THEN Append(p, KacObservation(i, now)) ELSE p
           D == DOMAIN items
           Walks(f) == f = [t \in SUBSET D |-> IF t = {} THEN << >>
                                               ELSE parse(f[t \ {Max(t)}], items[Max(t)])]
           walk == CHOOSE f : Walks(f)
           V == Seq(T)
<1>1. walk[D] = ParseKacParking(items, now)
  BY DEF FoldLeft, MapThenFoldSet, ParseKacParking
<1>2. PICK n \in Nat : D = 1..n
  OBVIOUS
<1>3. ASSUME NEW p \in V, NEW i \in D
      PROVE  parse(p, items[i]) \in V
  <2>1. items[i] \in S
    OBVIOUS
  <2>2. CASE AskedFor(items[i])
    <3>1. KacObservation(items[i], now) \in T
      BY <2>1, <2>2
    <3>2. parse(p, items[i]) = Append(p, KacObservation(items[i], now))
      BY <2>2
    <3>3. QED
      BY <3>1, <3>2
  <2>3. CASE ~AskedFor(items[i])
    BY <2>3
  <2>4. QED
    BY <2>2, <2>3
<1>4. << >> \in V
  OBVIOUS
<1> DEFINE step == [i \in D |-> [p \in V |-> parse(p, items[i])]]
<1> HIDE DEF parse, V, D
<1>6. step \in [1..n -> [V -> V]]
  BY <1>2, <1>3
<1>7. \A i \in D, p \in V : step[i][p] = parse(p, items[i])
  OBVIOUS
<1> HIDE DEF step
<1>8. PICK f \in [SUBSET (1..n) -> V] : Along(f, n, << >>, step)
  BY ONLY <1>4, <1>6, WalkExists, n \in Nat
<1>9. \A t \in SUBSET D : t # {} => Max(t) \in D /\ t \ {Max(t)} \in SUBSET D
  BY <1>2, GreatestIndex
<1>10. Walks(f)
  <2> DEFINE After(t) == IF t = {} THEN << >> ELSE parse(f[t \ {Max(t)}], items[Max(t)])
  <2>1. ASSUME NEW t \in SUBSET D
        PROVE  (IF t = {} THEN << >> ELSE step[Max(t)][f[t \ {Max(t)}]]) = After(t)
    BY <1>2, <1>7, <1>8, <1>9
  <2>2. f = [t \in SUBSET D |-> IF t = {} THEN << >> ELSE step[Max(t)][f[t \ {Max(t)}]]]
    BY <1>2, <1>8 DEF Along
  <2> HIDE DEF After
  <2>3. f = [t \in SUBSET D |-> After(t)]
    BY <2>1, <2>2
  <2>4. QED
    BY <2>3 DEF After
<1>11. Walks(walk)
  BY <1>10
<1> HIDE DEF walk
<1>12. walk[{}] = << >> /\ \A t \in SUBSET D : t # {} =>
                            walk[t] = parse(walk[t \ {Max(t)}], items[Max(t)])
  BY <1>11
<1>13. walk[1..n] \in V
  <2>1. ASSUME NEW t \in SUBSET (1..n), t # {}, walk[t \ {Max(t)}] \in V
        PROVE  walk[t] \in V
    <3>1. Max(t) \in D /\ walk[t] = parse(walk[t \ {Max(t)}], items[Max(t)])
      BY <1>2, <1>9, <1>12, <2>1
    <3>2. QED
      BY ONLY <1>3, <2>1, <3>1
  <2>2. QED
    BY ONLY <1>4, <1>12, <2>1, WalkStays, n \in Nat
<1>14. walk[D] \in V
  BY <1>2, <1>13
<1>15. QED
  BY <1>1, <1>14 DEF V

\* What can be read off an answer that no run can raise at.
LEMMA NothingRefused ==
  ASSUME NEW answers, ~Refusable(answers)
  PROVE  /\ answers["kac_parking"].ok =>
              \A i \in ToSet(answers["kac_parking"].items) : AskedFor(i) =>
                /\ i.at # Garbled /\ i.named /\ i.kept
                /\ Countable(i.full) /\ Countable(i.stay) /\ ~(Number(i.stay) > Number(i.full))
         /\ answers["incheon_parking"].ok =>
              \A i \in ToSet(answers["incheon_parking"].items) :
                i.at # Garbled /\ i.named /\ i.kept /\ Countable(i.parked) /\ Countable(i.area)
         /\ answers["kac_fee"].ok =>
              \A i \in ToSet(answers["kac_fee"].items) :
                /\ i.kept
                /\ \A kind \in Kinds \cap DOMAIN i.says :
                     /\ Number(i.says[kind].basicMinutes) # 0
                     /\ \A field \in DOMAIN i.says[kind] : Countable(i.says[kind][field])
         /\ answers["incheon_fee"].ok =>
              \A i \in ToSet(answers["incheon_fee"].items) :
                i.at # Garbled /\ i.kept /\ i.won \in 0..MaxInteger
<1> DEFINE of(source) == IF answers[source].ok THEN ToSet(answers[source].items) ELSE {}
           kac == {i \in of("kac_parking") : AskedFor(i)}
<1>1. ~\E i \in kac \cup of("incheon_parking") : i.at = Garbled \/ ~i.named \/ ~i.kept
  BY DEF Refusable
<1>2. ~\E i \in kac :
         ~Countable(i.full) \/ ~Countable(i.stay) \/ Number(i.stay) > Number(i.full)
  BY DEF Refusable
<1>3. ~\E i \in of("incheon_parking") : ~Countable(i.parked) \/ ~Countable(i.area)
  BY DEF Refusable
<1>4. ~\E i \in of("kac_fee") : ~i.kept \/ \E kind \in Kinds \cap DOMAIN i.says :
         \/ Number(i.says[kind].basicMinutes) = 0
         \/ \E field \in DOMAIN i.says[kind] : ~Countable(i.says[kind][field])
  BY DEF Refusable
<1>5. ~\E i \in of("incheon_fee") : i.at = Garbled \/ ~i.kept \/ i.won \notin 0..MaxInteger
  BY DEF Refusable
<1>6. \A source : answers[source].ok => of(source) = ToSet(answers[source].items)
  OBVIOUS
<1>7. \A i \in of("kac_parking") : AskedFor(i) => i \in kac
  OBVIOUS
<1> HIDE DEF of, kac
<1>8. answers["kac_parking"].ok =>
        \A i \in ToSet(answers["kac_parking"].items) : AskedFor(i) =>
          /\ i.at # Garbled /\ i.named /\ i.kept
          /\ Countable(i.full) /\ Countable(i.stay) /\ ~(Number(i.stay) > Number(i.full))
  BY <1>1, <1>2, <1>6, <1>7
<1>9. answers["incheon_parking"].ok =>
        \A i \in ToSet(answers["incheon_parking"].items) :
          i.at # Garbled /\ i.named /\ i.kept /\ Countable(i.parked) /\ Countable(i.area)
  BY <1>1, <1>3, <1>6
<1>10. answers["kac_fee"].ok =>
         \A i \in ToSet(answers["kac_fee"].items) :
           /\ i.kept
           /\ \A kind \in Kinds \cap DOMAIN i.says :
                /\ Number(i.says[kind].basicMinutes) # 0
                /\ \A field \in DOMAIN i.says[kind] : Countable(i.says[kind][field])
  BY <1>4, <1>6
<1>11. answers["incheon_fee"].ok =>
         \A i \in ToSet(answers["incheon_fee"].items) :
           i.at # Garbled /\ i.kept /\ i.won \in 0..MaxInteger
  BY <1>5, <1>6
<1>12. QED
  BY <1>8, <1>9, <1>10, <1>11

\* KAC's parking: its readings are stored.
LEMMA KacParkingStored ==
  ASSUME NEW answers \in LiveAnswers \cup {Fixture}, answers["kac_parking"].ok, clock \in Nat,
         NEW allowed \in BOOLEAN, allowed \/ ~Refusable(answers),
         NEW ls, NEW rs, NEW st \in RunStates(ls, rs, allowed)
  PROVE  StoreAnswer(st, "kac_parking", answers["kac_parking"].items) \in RunStates(ls, rs, allowed)
<1> DEFINE items == answers["kac_parking"].items
           S == ToSet(items)
           U == {KacObservation(i, clock) : i \in {j \in S : AskedFor(j)}}
           parsed == ParseKacParking(items, clock)
<1>1. items \in Seq(S)
  BY AnswersAssumption DEF Sources
<1>2. ASSUME NEW i \in S, AskedFor(i), i.at # Garbled
      PROVE  Storable(KacObservation(i, clock))
  <2>1. i.at \in Int \cup {Absent}
    BY <1>2, AnswersAssumption
  <2>2. LotName(i.lot) \in OneSpelling /\ Kac(LotName(i.lot))
    BY <1>2, AnswersAssumption DEF LotName, AskedFor
  <2>3. Instant(i.at, clock) \in Int
    BY <2>1 DEF Instant
  <2> DEFINE o == KacObservation(i, clock)
  <2>4. o.lot = LotName(i.lot) /\ o.at = Instant(i.at, clock) /\ o.source = "kac_parking"
    BY DEF KacObservation
  <2> HIDE DEF o
  <2>5. Storable(o)
    BY <2>2, <2>3, <2>4 DEF Storable
  <2>6. QED
    BY <2>5 DEF o
<1>3. ASSUME NEW i \in S, AskedFor(i), ~Refusable(answers)
      PROVE  LotFits(KacObservation(i, clock)) /\ SnapshotFits(KacObservation(i, clock))
  <2>1. i.named /\ i.kept /\ Countable(i.full) /\ Countable(i.stay) /\ ~(Number(i.stay) > Number(i.full))
    BY <1>3, NothingRefused
  <2>2. Number(i.stay) \in 0..MaxInteger /\ Number(i.full) \in 0..MaxInteger
    BY <2>1 DEF Countable
  <2>3. Number(i.stay) <= Number(i.full)
    BY <2>1, <2>2
  <2>4. SnapshotFits(KacObservation(i, clock))
    BY <2>1, <2>2, <2>3, KacReadingFits
  <2>5. KacObservation(i, clock).named = i.named /\ KacObservation(i, clock).total = Number(i.full)
    BY DEF KacObservation
  <2>6. LotFits(KacObservation(i, clock))
    BY <2>1, <2>2, <2>5, IntegerAssumption DEF LotFits
  <2>7. QED
    BY <2>4, <2>6
<1>4. \A i \in S : AskedFor(i) => KacObservation(i, clock) \in U
  OBVIOUS
<1>5. CASE KacParkingReadable(items)
  <2>1. StoreAnswer(st, "kac_parking", items) = StoreObservations(st, parsed)
    BY <1>5 DEF StoreAnswer
  <2>2. \A o \in U : Storable(o)
    BY <1>2, <1>5 DEF KacParkingReadable
  <2>3. allowed \/ \A o \in U : LotFits(o) /\ SnapshotFits(o)
    BY <1>3
  <2> HIDE DEF items, S, U
  <2>4. parsed \in Seq(U)
    BY ONLY <1>1, <1>4, KacParsed
  <2> HIDE DEF parsed
  <2>5. StoreObservations(st, parsed) \in RunStates(ls, rs, allowed)
    BY ONLY <2>2, <2>3, <2>4, allowed \in BOOLEAN, st \in RunStates(ls, rs, allowed), ReadingsStored
  <2>6. QED
    BY <2>1, <2>5 DEF items
<1>6. CASE ~KacParkingReadable(items)
  <2>1. StoreAnswer(st, "kac_parking", items) = Raised(st)
    BY <1>6 DEF StoreAnswer
  <2>2. PICK i \in S : AskedFor(i) /\ (i.at = Garbled \/ Endless \in {i.full, i.stay})
    BY <1>6 DEF KacParkingReadable
  <2>3. allowed = TRUE
    BY <2>2, NothingRefused DEF Countable
  <2>4. QED
    BY <2>1, <2>3, RaisedAllowed
<1>7. QED
  BY <1>5, <1>6

\* Incheon's.
LEMMA IncheonParkingStored ==
  ASSUME NEW answers \in LiveAnswers \cup {Fixture}, answers["incheon_parking"].ok, clock \in Nat,
         NEW allowed \in BOOLEAN, allowed \/ ~Refusable(answers),
         NEW ls, NEW rs, NEW st \in RunStates(ls, rs, allowed)
  PROVE  StoreAnswer(st, "incheon_parking", answers["incheon_parking"].items)
           \in RunStates(ls, rs, allowed)
<1> DEFINE items == answers["incheon_parking"].items
           S == ToSet(items)
           parsed == ParseIncheonParking(items, clock)
           U == {parsed[i] : i \in DOMAIN items}
<1>1. items \in Seq(S)
  BY AnswersAssumption DEF Sources
<1>2. PICK n \in Nat : DOMAIN items = 1..n
  BY <1>1
<1>3. \A i \in DOMAIN items : items[i] \in S
  BY <1>1
<1>4. ASSUME NEW k \in DOMAIN items
      PROVE  /\ parsed[k].lot = IF items[k].floor = Absent THEN "ICN lot" ELSE items[k].floor
             /\ parsed[k].at = Instant(items[k].at, clock) /\ parsed[k].source = "incheon_parking"
             /\ parsed[k].occupied = Number(items[k].parked) /\ parsed[k].total = Number(items[k].area)
             /\ parsed[k].ratio = Null
             /\ parsed[k].named = items[k].named /\ parsed[k].kept = items[k].kept
  BY DEF ParseIncheonParking
<1>5. ASSUME NEW k \in DOMAIN items, items[k].at # Garbled
      PROVE  Storable(parsed[k])
  <2> DEFINE item == items[k]
  <2>0. item \in S
    BY <1>3
  <2> HIDE DEF item
  <2>1. item.at \in Int \cup {Absent}
    BY <1>5, <2>0, AnswersAssumption DEF item
  <2>2. (IF item.floor = Absent THEN "ICN lot" ELSE item.floor) \in OneSpelling
    BY <2>0, AnswersAssumption
  <2>3. Instant(item.at, clock) \in Int
    BY <2>1 DEF Instant
  <2> HIDE DEF parsed
  <2>4. /\ parsed[k].lot = IF item.floor = Absent THEN "ICN lot" ELSE item.floor
        /\ parsed[k].at = Instant(item.at, clock) /\ parsed[k].source = "incheon_parking"
    BY <1>4 DEF item
  <2>5. QED
    BY <2>2, <2>3, <2>4 DEF Storable
<1>6. ASSUME NEW k \in DOMAIN items, ~Refusable(answers)
      PROVE  LotFits(parsed[k]) /\ SnapshotFits(parsed[k])
  <2>1. items[k].named /\ items[k].kept /\ Countable(items[k].parked) /\ Countable(items[k].area)
    BY <1>3, <1>6, NothingRefused
  <2> DEFINE parked == Number(items[k].parked)
             area == Number(items[k].area)
             o == parsed[k]
  <2>2. parked \in 0..MaxInteger /\ area \in 0..MaxInteger
    BY <2>1 DEF Countable
  <2>3. o.occupied = parked /\ o.total = area /\ o.ratio = Null /\ o.named /\ o.kept
    BY <1>4, <2>1
  <2> HIDE DEF parked, area, o
  <2>4. Available(o) <= o.total
    BY ONLY <2>2, <2>3, IntegerAssumption DEF Available, Highest
  <2>5. LotFits(o) /\ SnapshotFits(o)
    BY ONLY <2>2, <2>3, <2>4, IntegerAssumption DEF LotFits, SnapshotFits
  <2>6. QED
    BY <2>5 DEF o
<1>7. CASE IncheonParkingReadable(items)
  <2>1. StoreAnswer(st, "incheon_parking", items) = StoreObservations(st, parsed)
    BY <1>7 DEF StoreAnswer
  <2>2. \A k \in DOMAIN items : items[k].at # Garbled
    BY <1>3, <1>7 DEF IncheonParkingReadable
  <2>3. parsed = [i \in 1..n |-> parsed[i]]
    BY <1>2 DEF ParseIncheonParking
  <2> HIDE DEF items, S, parsed
  <2>4. \A i \in 1..n : parsed[i] \in U
    BY <1>2
  <2>5. \A o \in U : Storable(o)
    BY <1>5, <2>2
  <2>6. allowed \/ \A o \in U : LotFits(o) /\ SnapshotFits(o)
    BY <1>6
  <2> HIDE DEF U
  <2>7. parsed \in Seq(U)
    BY <2>3, <2>4
  <2>8. StoreObservations(st, parsed) \in RunStates(ls, rs, allowed)
    BY ONLY <2>5, <2>6, <2>7, allowed \in BOOLEAN, st \in RunStates(ls, rs, allowed), ReadingsStored
  <2>9. QED
    BY <2>1, <2>8 DEF items
<1>8. CASE ~IncheonParkingReadable(items)
  <2>1. StoreAnswer(st, "incheon_parking", items) = Raised(st)
    BY <1>8 DEF StoreAnswer
  <2>2. PICK i \in S : i.at = Garbled \/ Endless \in {i.parked, i.area}
    BY <1>8 DEF IncheonParkingReadable
  <2>3. allowed = TRUE
    BY <2>2, NothingRefused DEF Countable
  <2>4. QED
    BY <2>1, <2>3, RaisedAllowed
<1>9. QED
  BY <1>7, <1>8

\* KAC's fees.
LEMMA KacFeesStored ==
  ASSUME NEW answers \in LiveAnswers \cup {Fixture}, answers["kac_fee"].ok,
         NEW allowed \in BOOLEAN, allowed \/ ~Refusable(answers),
         NEW ls, NEW rs, NEW st \in RunStates(ls, rs, allowed)
  PROVE  StoreAnswer(st, "kac_fee", answers["kac_fee"].items) \in RunStates(ls, rs, allowed)
<1> DEFINE items == answers["kac_fee"].items
           parsed == ParseKacFee(items)
<1>1. ASSUME ~Refusable(answers), NEW i \in ToSet(items), NEW kind \in Kinds \cap DOMAIN i.says
      PROVE  i.kept /\ RuleFits(KacTariff(i.says[kind]))
  <2> DEFINE said == i.says[kind]
  <2>1. DOMAIN said = {"free", "basicMinutes", "basicFee", "unitMinutes", "unitFee", "dailyMax"}
    BY AnswersAssumption
  <2>2. /\ i.kept /\ Number(said.basicMinutes) # 0
        /\ \A field \in DOMAIN said : Countable(said[field])
    BY <1>1, NothingRefused
  <2> HIDE DEF said
  <2>3. \A field \in DOMAIN said : Number(said[field]) \in 0..MaxInteger
    BY <2>2 DEF Countable
  <2> DEFINE free == Number(said.free)
             basicMinutes == Number(said.basicMinutes)
             basicFee == Number(said.basicFee)
             unitMinutes == Number(said.unitMinutes)
             unitFee == Number(said.unitFee)
             dailyMax == Number(said.dailyMax)
             tariff == KacTariff(said)
  <2>4. /\ tariff.free = free /\ tariff.basicMinutes = basicMinutes /\ tariff.basicFee = basicFee
        /\ tariff.unitMinutes = Highest(1, unitMinutes) /\ tariff.unitFee = unitFee
        /\ tariff.dailyMax = dailyMax
        /\ DOMAIN tariff =
             {"free", "basicMinutes", "basicFee", "unitMinutes", "unitFee", "dailyMax"}
    BY DEF KacTariff
  <2>5. /\ {free, basicMinutes, basicFee, unitMinutes, unitFee, dailyMax} \subseteq 0..MaxInteger
        /\ basicMinutes # 0
    BY <2>1, <2>2, <2>3
  <2> HIDE DEF free, basicMinutes, basicFee, unitMinutes, unitFee, dailyMax, tariff
  <2>6. Highest(1, unitMinutes) \in 1..MaxInteger
    BY ONLY <2>5, IntegerAssumption DEF Highest
  <2>7. \A field \in DOMAIN tariff : tariff[field] <= MaxInteger
    BY ONLY <2>4, <2>5, <2>6, IntegerAssumption
  <2>8. RuleFits(tariff)
    BY ONLY <2>4, <2>5, <2>6, <2>7, IntegerAssumption DEF RuleFits
  <2>9. QED
    BY <2>2, <2>8 DEF tariff, said
<1>2. ASSUME NEW rule \in parsed
      PROVE  \E i \in ToSet(items) : \E kind \in Kinds \cap DOMAIN i.says :
               rule.tariff = KacTariff(i.says[kind]) /\ rule.kept = i.kept
  <2>1. PICK i \in ToSet(items) :
          rule \in {[lot |-> i.lot, kind |-> kind, tariff |-> KacTariff(i.says[kind]), kept |-> i.kept] :
                      kind \in Kinds \cap DOMAIN i.says}
    BY <1>2 DEF ParseKacFee
  <2>2. PICK kind \in Kinds \cap DOMAIN i.says :
          rule = [lot |-> i.lot, kind |-> kind, tariff |-> KacTariff(i.says[kind]), kept |-> i.kept]
    BY <2>1
  <2>3. rule.tariff = KacTariff(i.says[kind]) /\ rule.kept = i.kept
    BY <2>2
  <2>4. QED
    BY <2>3
<1>3. CASE KacFeesReadable(items)
  <2>1. StoreAnswer(st, "kac_fee", items) = StoreFeeRules(st, parsed)
    BY <1>3 DEF StoreAnswer
  <2> HIDE DEF parsed, items
  <2>2. allowed \/ \A rule \in parsed : rule.kept /\ RuleFits(rule.tariff)
    <3>1. SUFFICES ASSUME ~Refusable(answers), NEW rule \in parsed
                   PROVE  rule.kept /\ RuleFits(rule.tariff)
      OBVIOUS
    <3>2. PICK i \in ToSet(items) : \E kind \in Kinds \cap DOMAIN i.says :
            rule.tariff = KacTariff(i.says[kind]) /\ rule.kept = i.kept
      BY <1>2
    <3>3. QED
      BY <1>1, <3>1, <3>2
  <2>3. StoreFeeRules(st, parsed) \in RunStates(ls, rs, allowed)
    BY ONLY <2>2, allowed \in BOOLEAN, st \in RunStates(ls, rs, allowed), RulesStored
  <2>4. QED
    BY <2>1, <2>3 DEF items
<1>4. CASE ~KacFeesReadable(items)
  <2>1. StoreAnswer(st, "kac_fee", items) = Raised(st)
    BY <1>4 DEF StoreAnswer
  <2>2. PICK i \in ToSet(items) : \E kind \in Kinds \cap DOMAIN i.says :
          \E field \in DOMAIN i.says[kind] : i.says[kind][field] = Endless
    BY <1>4 DEF KacFeesReadable
  <2>3. allowed = TRUE
    BY <2>2, NothingRefused DEF Countable
  <2>4. QED
    BY <2>1, <2>3, RaisedAllowed
<1>5. QED
  BY <1>3, <1>4

\* Incheon's.
LEMMA IncheonFeesStored ==
  ASSUME NEW answers \in LiveAnswers \cup {Fixture}, answers["incheon_fee"].ok,
         NEW allowed \in BOOLEAN, allowed \/ ~Refusable(answers),
         NEW ls, NEW rs, NEW st \in RunStates(ls, rs, allowed)
  PROVE  StoreAnswer(st, "incheon_fee", answers["incheon_fee"].items) \in RunStates(ls, rs, allowed)
<1> DEFINE items == answers["incheon_fee"].items
           S == ToSet(items)
           parsed == ParseIncheonFee(items)
           timed == {i \in DOMAIN items : items[i].at # Absent}
<1>1. items \in Seq(S)
  BY AnswersAssumption DEF Sources
<1>2. \A i \in DOMAIN items : items[i] \in S
  BY <1>1
<1>3. ASSUME ~Refusable(answers), NEW k \in DOMAIN items
      PROVE  /\ items[k].minutes \in 0..MaxInteger /\ items[k].won \in 0..MaxInteger
             /\ items[k].at # Garbled /\ items[k].kept
  <2> DEFINE item == items[k]
  <2>1. item \in S
    BY <1>2
  <2> HIDE DEF item
  <2>2. item.minutes \in 0..MaxInteger
    BY <2>1, AnswersAssumption
  <2>3. item.at # Garbled /\ item.kept /\ item.won \in 0..MaxInteger
    BY <1>3, <2>1, NothingRefused
  <2>4. QED
    BY <2>2, <2>3 DEF item
<1>4. ASSUME ~Refusable(answers), NEW rule \in parsed
      PROVE  rule.kept /\ RuleFits(rule.tariff)
  <2>1. PICK p \in {q \in Profiles : Announced(items, q)} :
          rule \in {[lot |-> lot, kind |-> kind, tariff |-> IncheonTariff(items, p),
                     kept |-> AllKept(items, p)] : lot \in p.lots, kind \in Kinds}
    BY <1>4 DEF ParseIncheonFee
  <2>2. rule.tariff = IncheonTariff(items, p) /\ rule.kept = AllKept(items, p) /\ Announced(items, p)
    BY <2>1
  <2>3. AllKept(items, p)
    BY <1>3, <1>4 DEF AllKept, Described
  <2> HIDE DEF items, S
  <2>4. \A i \in DOMAIN items : items[i].minutes \in 0..MaxInteger /\ items[i].won \in 0..MaxInteger
    BY <1>3, <1>4
  <2>5. RuleFits(IncheonTariff(items, p))
    BY ONLY <1>1, <2>2, <2>4, IncheonFeesFit
  <2>6. QED
    BY <2>2, <2>3, <2>5
<1>5. ASSUME ~Refusable(answers)
      PROVE  FirstOf(items, timed).at # Garbled
  <2>1. CASE timed = {}
    <3>1. FirstOf(items, timed) = NoText /\ NoText.at = Absent
      BY <2>1 DEF FirstOf, NoText
    <3>2. QED
      BY <3>1, TextAssumption
  <2>2. CASE timed # {}
    <3> DEFINE first == CHOOSE x \in timed : \A y \in timed : x <= y
    <3>1. timed \in SUBSET Nat
      BY <1>1
    <3>2. first \in timed
      <4> HIDE DEF timed
      <4>1. QED
        BY <2>2, <3>1, LeastExists
    <3>3. FirstOf(items, timed) = items[first]
      BY <2>2 DEF FirstOf
    <3> HIDE DEF first
    <3>4. first \in DOMAIN items
      BY <3>2
    <3>5. QED
      BY <1>3, <1>5, <3>3, <3>4
  <2>3. QED
    BY <2>1, <2>2
<1>6. ASSUME ~Refusable(answers), NEW chosen \in SUBSET DOMAIN items
      PROVE  FirstOf(items, chosen).won # Endless
  <2> HIDE DEF items, S
  <2>1. \A i \in DOMAIN items : items[i].minutes \in 0..MaxInteger /\ items[i].won \in 0..MaxInteger
    BY <1>3, <1>6
  <2>2. FirstOf(items, chosen).won \in 0..MaxInteger
    BY ONLY <1>1, <2>1, chosen \in SUBSET DOMAIN items, FirstOfTyped
  <2>3. QED
    BY <2>2, TextAssumption
<1>7. ASSUME ~Refusable(answers)
      PROVE  IncheonFeesReadable(items)
  <2>1. ASSUME NEW p \in Profiles
        PROVE  AmountsReadable(items, p)
    <3> DEFINE fees == Described(items, p.fee)
               firsts == {i \in fees : items[i].first}
               overs == {i \in fees : items[i].over}
               most == Described(items, p.max)
    <3>1. firsts \in SUBSET DOMAIN items /\ overs \in SUBSET DOMAIN items /\ most \in SUBSET DOMAIN items
      BY DEF Described
    <3> HIDE DEF items, firsts, overs, most
    <3>2. /\ FirstOf(items, firsts).won # Endless /\ FirstOf(items, overs).won # Endless
          /\ FirstOf(items, most).won # Endless
      BY <1>6, <1>7, <3>1
    <3>3. QED
      BY <3>2 DEF AmountsReadable, firsts, overs, most
  <2>2. QED
    BY <1>5, <1>7, <2>1 DEF IncheonFeesReadable
<1>8. StoreAnswer(st, "incheon_fee", items)
        = IF IncheonFeesReadable(items) THEN StoreFeeRules(st, parsed) ELSE Raised(st)
  BY DEF StoreAnswer
<1> HIDE DEF items, S, parsed, timed
<1>9. CASE IncheonFeesReadable(items)
  <2>1. allowed \/ \A rule \in parsed : rule.kept /\ RuleFits(rule.tariff)
    BY <1>4
  <2>2. StoreFeeRules(st, parsed) \in RunStates(ls, rs, allowed)
    BY ONLY <2>1, allowed \in BOOLEAN, st \in RunStates(ls, rs, allowed), RulesStored
  <2>3. QED
    BY <1>8, <1>9, <2>2 DEF items
<1>10. CASE ~IncheonFeesReadable(items)
  <2>1. allowed = TRUE
    BY <1>7, <1>10
  <2>2. QED
    BY <1>8, <1>10, <2>1, RaisedAllowed DEF items
<1>11. QED
  BY <1>9, <1>10
-----------------------------------------------------------------------------
(* Steps of the deployment.                                                *)

\* What a run makes of one answer, and of all.
Stage(answers, st, source) ==
  IF st.raised \/ ~answers[source].ok THEN st ELSE StoreAnswer(st, source, answers[source].items)
Begin == [lots |-> lots, rows |-> rows, raised |-> FALSE]
EndOf(answers) ==
  Stage(answers, Stage(answers, Stage(answers, Stage(answers, Begin, "kac_parking"),
    "incheon_parking"), "kac_fee"), "incheon_fee")

\* One answer.
LEMMA StageEnds ==
  ASSUME NEW answers \in LiveAnswers \cup {Fixture}, clock \in Nat,
         NEW allowed \in BOOLEAN, allowed \/ ~Refusable(answers),
         NEW ls, NEW rs, NEW st \in RunStates(ls, rs, allowed), NEW source \in Sources
  PROVE  Stage(answers, st, source) \in RunStates(ls, rs, allowed)
<1>1. CASE st.raised \/ ~answers[source].ok
  BY <1>1 DEF Stage
<1>2. CASE ~(st.raised \/ ~answers[source].ok)
  <2>1. Stage(answers, st, source) = StoreAnswer(st, source, answers[source].items)
    BY <1>2 DEF Stage
  <2>2. answers[source].ok
    BY <1>2
  <2>3. CASE source = "kac_parking"
    BY <2>1, <2>2, <2>3, KacParkingStored
  <2>4. CASE source = "incheon_parking"
    BY <2>1, <2>2, <2>4, IncheonParkingStored
  <2>5. CASE source = "kac_fee"
    BY <2>1, <2>2, <2>5, KacFeesStored
  <2>6. CASE source = "incheon_fee"
    BY <2>1, <2>2, <2>6, IncheonFeesStored
  <2>7. QED
    BY <2>3, <2>4, <2>5, <2>6 DEF Sources
<1>3. QED
  BY <1>1, <1>2

\* A run ends well, or it raises, which it does only where its answers give it reason to.
LEMMA RunEnds ==
  ASSUME DeploymentInv, NEW answers \in LiveAnswers \cup {Fixture}
  PROVE  /\ EndOf(answers) \in RunStates(lots, rows, TRUE)
         /\ EndOf(answers).raised => Refusable(answers)
<1>1. clock \in Nat
  BY DEF DeploymentInv
<1>2. ASSUME NEW allowed \in BOOLEAN, allowed \/ ~Refusable(answers)
      PROVE  EndOf(answers) \in RunStates(lots, rows, allowed)
  <2> DEFINE V == RunStates(lots, rows, allowed)
  <2>1. Begin \in V
    <3>1. /\ LotsInv(lots) /\ RowsInv(lots, rows)
          /\ lots \in SUBSET LotRow /\ rows \in SUBSET ReadingRow /\ LotsFollow(lots, lots)
      BY DEF DeploymentInv, LotsInv, RowsInv, LotsFollow
    <3>2. /\ Begin \in [lots : SUBSET LotRow, rows : SUBSET ReadingRow, raised : BOOLEAN]
          /\ Begin.lots = lots /\ Begin.rows = rows /\ Begin.raised = FALSE
      BY <3>1 DEF Begin
    <3>3. QED
      BY <3>1, <3>2 DEF RunStates
  <2>2. \A st \in V, source \in Sources : Stage(answers, st, source) \in V
    BY <1>1, <1>2, StageEnds
  <2> HIDE DEF V
  <2>3. Stage(answers, Begin, "kac_parking") \in V
    BY <2>1, <2>2 DEF Sources
  <2>4. Stage(answers, Stage(answers, Begin, "kac_parking"), "incheon_parking") \in V
    BY <2>2, <2>3 DEF Sources
  <2>5. Stage(answers, Stage(answers, Stage(answers, Begin, "kac_parking"), "incheon_parking"),
              "kac_fee") \in V
    BY <2>2, <2>4 DEF Sources
  <2>6. EndOf(answers) \in V
    BY <2>2, <2>5 DEF Sources, EndOf
  <2>7. QED
    BY <2>6 DEF V
<1>3. EndOf(answers) \in RunStates(lots, rows, TRUE)
  BY <1>2
<1>4. ASSUME ~Refusable(answers)
      PROVE  ~EndOf(answers).raised
  <2>1. EndOf(answers) \in RunStates(lots, rows, FALSE)
    BY <1>2, <1>4
  <2>2. QED
    BY <2>1 DEF RunStates
<1>5. QED
  BY <1>3, <1>4

\* A run keeps the invariant and every row, and it raises only where it may.
LEMMA CollectKeeps ==
  ASSUME DeploymentInv, NEW answers \in LiveAnswers \cup {Fixture}, Collect(answers)
  PROVE  DeploymentInv' /\ OnlyTheseRaise' /\ rows \subseteq rows'
<1> DEFINE end == EndOf(answers)
<1>1. /\ refusable' = Refusable(answers) /\ untraced' = end.raised /\ clock' = clock
      /\ IF end.raised THEN lots' = lots /\ rows' = rows
         ELSE lots' = end.lots /\ rows' = end.rows
  BY DEF Collect, EndOf, Stage, Begin, tables
<1>2. end \in RunStates(lots, rows, TRUE) /\ (end.raised => Refusable(answers))
  BY RunEnds
<1> HIDE DEF end
<1>3. OnlyTheseRaise'
  BY <1>1, <1>2 DEF OnlyTheseRaise
<1>4. CASE end.raised
  BY <1>1, <1>3, <1>4 DEF DeploymentInv
<1>5. CASE ~end.raised
  <2>1. LotsInv(end.lots) /\ RowsInv(end.lots, end.rows) /\ rows \subseteq end.rows
    BY <1>2, <1>5 DEF RunStates
  <2>2. lots' = end.lots /\ rows' = end.rows /\ clock' = clock
    BY <1>1, <1>5
  <2>3. DeploymentInv'
    BY <2>1, <2>2 DEF DeploymentInv
  <2>4. QED
    BY <1>3, <2>1, <2>2, <2>3
<1>6. QED
  BY <1>4, <1>5

\* Seeding adds rows that are not collected and takes away none that is.
LEMMA RowsSeeded ==
  ASSUME NEW ls, NEW rs, LotsInv(ls), RowsInv(ls, rs), clock \in Nat
  PROVE  /\ RowsInv(ls, SeedRows(ls, rs))
         /\ \A r \in rs : r.collected => r \in SeedRows(ls, rs)
<1> DEFINE ofLot(l) == {[lot |-> l.id, source |-> SeedSource(l.name), at |-> t, collected |-> FALSE] :
                          t \in 0..clock}
           seeds == UNION {ofLot(l) : l \in Seeded(ls)}
           kept == {r \in rs : r.collected \/ r.at <= clock}
           new == {n \in seeds : ~\E r \in kept : r.lot = n.lot /\ r.source = n.source /\ r.at = n.at}
<1>1. SeedRows(ls, rs) = kept \cup new
  BY DEF SeedRows
<1>2. ASSUME NEW n \in new
      PROVE  n \in ReadingRow /\ ~n.collected /\ \E l \in ls : l.id = n.lot
  <2>1. PICK l \in ls, t \in 0..clock :
          n = [lot |-> l.id, source |-> SeedSource(l.name), at |-> t, collected |-> FALSE]
    BY DEF Seeded
  <2>2. l.id \in Nat /\ t \in Int /\ SeedSource(l.name) \in {"incheon", "kac_parking"}
    BY DEF LotsInv, LotRow, SeedSource
  <2>3. n \in ReadingRow /\ ~n.collected
    BY ONLY <2>1, <2>2 DEF ReadingRow
  <2>4. QED
    BY <2>1, <2>3
<1>3. \A n \in new, r \in kept : ~(r.lot = n.lot /\ r.source = n.source /\ r.at = n.at)
  OBVIOUS
<1>4. ASSUME NEW n \in new, NEW m \in new, n.lot = m.lot, n.source = m.source, n.at = m.at
      PROVE  n = m
  <2> HIDE DEF new
  <2>1. ~n.collected /\ ~m.collected /\ n \in ReadingRow /\ m \in ReadingRow
    BY <1>2
  <2>2. QED
    BY <1>4, <2>1 DEF ReadingRow
<1>5. kept \subseteq rs /\ \A r \in rs : r.collected => r \in kept
  OBVIOUS
<1> HIDE DEF new, kept
<1>6. RowsInv(ls, kept \cup new)
  <2>1. kept \cup new \subseteq ReadingRow
    BY <1>2, <1>5 DEF RowsInv
  <2>2. ASSUME NEW r \in kept \cup new
        PROVE  \E l \in ls : l.id = r.lot /\ (KacReading(r) => Kac(l.name))
    <3>1. CASE r \in rs
      BY <3>1 DEF RowsInv
    <3>2. CASE r \in new
      BY <1>2, <3>2 DEF KacReading
    <3>3. QED
      BY <1>5, <3>1, <3>2
  <2>3. ASSUME NEW r \in kept \cup new, NEW s \in kept \cup new,
               r.lot = s.lot, r.source = s.source, r.at = s.at
        PROVE  r = s
    <3>1. CASE r \in new /\ s \in new
      BY <1>4, <2>3, <3>1
    <3>2. CASE r \in kept /\ s \in kept
      BY <1>5, <2>3, <3>2 DEF RowsInv
    <3>3. QED
      BY <1>3, <1>5, <2>3, <3>1, <3>2
  <2>4. QED
    BY <2>1, <2>2, <2>3 DEF RowsInv
<1>7. QED
  BY <1>1, <1>5, <1>6

\* A start that seeds keeps the invariant and every collected row.
LEMMA StartSeedingKeeps ==
  ASSUME DeploymentInv, NEW pick, StartSeeding(pick)
  PROVE  DeploymentInv' /\ \A r \in rows : r.collected => r \in rows'
<1> DEFINE end == SeedingEnd(lots, pick)
<1>1. LotsInv(lots) /\ RowsInv(lots, rows) /\ clock \in Nat
  BY DEF DeploymentInv
<1>2. end \in Seedings(lots)
  BY ONLY <1>1, SeedingEnds
<1>3. /\ IF end.failed THEN lots' = lots /\ rows' = rows
         ELSE lots' = end.lots /\ rows' = SeedRows(end.lots, rows)
      /\ clock' = clock
  BY DEF StartSeeding, SeedingEnd, FoldLeft, MapThenFoldSet, tables
<1> HIDE DEF end
<1>4. CASE end.failed
  BY <1>1, <1>3, <1>4 DEF DeploymentInv
<1>5. CASE ~end.failed
  <2>1. LotsInv(end.lots) /\ LotsFollow(lots, end.lots)
    BY <1>2, <1>5 DEF Seedings
  <2>2. RowsInv(end.lots, rows)
    BY <1>1, <2>1, RowsFollow
  <2>3. /\ RowsInv(end.lots, SeedRows(end.lots, rows))
        /\ \A r \in rows : r.collected => r \in SeedRows(end.lots, rows)
    BY <1>1, <2>1, <2>2, RowsSeeded
  <2>4. lots' = end.lots /\ rows' = SeedRows(end.lots, rows) /\ clock' = clock
    BY <1>3, <1>5
  <2>5. DeploymentInv'
    BY <1>1, <2>1, <2>3, <2>4 DEF DeploymentInv
  <2>6. QED
    BY <2>3, <2>4, <2>5
<1>6. QED
  BY <1>4, <1>5

\* An empty database, or that of an older version.
LEMMA DeploymentBegins == Init => DeploymentInv /\ OnlyTheseRaise
<1> SUFFICES ASSUME Init PROVE DeploymentInv /\ OnlyTheseRaise
  OBVIOUS
<1>1. OnlyTheseRaise /\ clock \in Nat /\ rows = {}
  BY DEF Init, OnlyTheseRaise
<1>2. RowsInv(lots, rows)
  BY <1>1 DEF RowsInv
<1>3. CASE lots = {}
  <2>1. IsFiniteSet(lots)
    BY <1>3, FS_EmptySet
  <2>2. LotsInv(lots)
    BY <1>3, <2>1 DEF LotsInv
  <2>3. QED
    BY <1>1, <1>2, <2>2 DEF DeploymentInv
<1>4. CASE lots # {}
  <2>1. PICK o \in OldLots : lots = {[id |-> 1, source |-> o.source, name |-> o.name]}
    BY <1>4 DEF Init
  <2> DEFINE lot == [id |-> 1, source |-> o.source, name |-> o.name]
  <2>2. lot.id = 1 /\ lot.source = o.source /\ lot.name = o.name
    OBVIOUS
  <2>3. lot \in LotRow
    BY SamplesAssumption DEF LotRow
  <2> HIDE DEF lot
  <2>4. lots = {lot}
    BY <2>1 DEF lot
  <2>5. IsFiniteSet(lots) /\ Cardinality(lots) = 1
    BY <2>4, FS_Singleton
  <2>6. \A l \in lots : l = lot
    BY <2>4
  <2>7. \A l \in lots : l.id <= Cardinality(lots)
    BY <2>2, <2>5, <2>6
  <2>8. \A l, m \in lots : \A s \in Samples : Former(l) /\ l.name = s.name => m.source # s.source
    BY <2>6 DEF Former, Sampled
  <2>9. LotsInv(lots)
    BY <2>2, <2>3, <2>4, <2>5, <2>6, <2>7, <2>8 DEF LotsInv
  <2>10. QED
    BY <1>1, <1>2, <2>9 DEF DeploymentInv
<1>5. QED
  BY <1>3, <1>4

\* Every step keeps the invariant.
LEMMA DeploymentKept ==
  ASSUME DeploymentInv, OnlyTheseRaise, [Next]_vars
  PROVE  DeploymentInv' /\ OnlyTheseRaise'
<1>1. ASSUME NEW pick, StartSeeding(pick)
      PROVE  DeploymentInv' /\ OnlyTheseRaise'
  <2>1. DeploymentInv'
    BY <1>1, StartSeedingKeeps
  <2>2. OnlyTheseRaise'
    BY <1>1 DEF StartSeeding, run, OnlyTheseRaise
  <2>3. QED
    BY <2>1, <2>2
<1>2. CASE StartPlain
  BY <1>2 DEF StartPlain, tables, run, DeploymentInv, OnlyTheseRaise
<1>3. ASSUME NEW answers \in LiveAnswers \cup {Fixture}, Collect(answers)
      PROVE  DeploymentInv' /\ OnlyTheseRaise'
  BY <1>3, CollectKeeps
<1>4. CASE Tick
  <2>1. lots' = lots /\ rows' = rows /\ untraced' = untraced /\ refusable' = refusable
    BY <1>4 DEF Tick, tables, run
  <2>2. clock' \in Nat
    BY <1>4 DEF Tick, DeploymentInv
  <2>3. QED
    BY <2>1, <2>2 DEF DeploymentInv, OnlyTheseRaise
<1>5. CASE UNCHANGED vars
  BY <1>5 DEF vars, tables, run, DeploymentInv, OnlyTheseRaise
<1>6. QED
  BY <1>1, <1>2, <1>3, <1>4, <1>5 DEF Next

\* Of answers whose items are what Answers says, nothing makes a run raise, and its
\* answers be lost, but a time that cannot be read, a number that is infinite, negative
\* or too large for its column, an item or a name that the database cannot hold, more
\* cars than spaces at KAC and a KAC fee without basic minutes: whatever else is
\* garbled or missing, the parsers of parsers.py make only what the columns and checks
\* of models.py take, and no sequence of starts and runs makes the lookup of a lot by
\* name ambiguous (collection.py:613).
THEOREM RaisesOnlyAtThese == Spec => []OnlyTheseRaise
<1>1. Init => DeploymentInv /\ OnlyTheseRaise
  BY DeploymentBegins
<1>2. DeploymentInv /\ OnlyTheseRaise /\ [Next]_vars => DeploymentInv' /\ OnlyTheseRaise'
  BY DeploymentKept
<1>3. QED
  BY <1>1, <1>2, PTL DEF Spec

\* The readings collected at KAC stay, and every lot with the name of a reading's lot
\* is that lot.
HistoriesWhole(rs, ms, ns) ==
  \A r \in rs : r.collected /\ r.source = "kac_parking" =>
    /\ r \in ns
    /\ \A l \in ms : Spelling[l.name] = Spelling[NameOf(ms, r)] => l.id = r.lot

\* A name of KAC's is one lot's.
LEMMA OneLotOfName ==
  ASSUME NEW ls, NEW rs, LotsInv(ls), RowsInv(ls, rs), NEW r \in rs, KacReading(r),
         NEW l \in ls, Spelling[l.name] = Spelling[NameOf(ls, r)]
  PROVE  l.id = r.lot
<1>1. PICK m \in ls : m.id = r.lot /\ Kac(m.name)
  BY DEF RowsInv
<1>2. (CHOOSE x \in ls : x.id = r.lot) = m
  BY <1>1 DEF LotsInv
<1>3. NameOf(ls, r) = m.name
  BY <1>2 DEF NameOf
<1>4. Spelling[l.name] = l.name /\ Spelling[m.name] = m.name
  BY <1>1 DEF LotsInv, LotRow, OneSpelling
<1>5. l.name = m.name
  BY <1>3, <1>4
<1>6. l = m
  BY <1>1, <1>5 DEF LotsInv
<1>7. QED
  BY <1>1, <1>6

\* Whatever the sequence of starts with and without a key, of runs and of spellings
\* in the answers, a lot of KAC has one history: no collected reading goes, and no
\* other lot is ever the same one under another id or spelling (the comment at
\* collection.py:630).
THEOREM KacHistoriesWhole == Spec => OneHistory
<1> DEFINE Whole == \A r \in rows : r.collected /\ r.source = "kac_parking" =>
                      /\ r \in rows'
                      /\ \A l \in lots' : Spelling[l.name] = Spelling[NameOf(lots', r)] => l.id = r.lot
<1>1. ASSUME DeploymentInv, DeploymentInv', [Next]_vars
      PROVE  HistoriesWhole(rows, lots', rows')
  <2>1. \A r \in rows : r.collected => r \in rows'
    <3>1. ASSUME NEW pick, StartSeeding(pick)
          PROVE  \A r \in rows : r.collected => r \in rows'
      BY <1>1, <3>1, StartSeedingKeeps
    <3>2. CASE StartPlain
      BY <3>2 DEF StartPlain, tables
    <3>3. ASSUME NEW answers \in LiveAnswers \cup {Fixture}, Collect(answers)
          PROVE  \A r \in rows : r.collected => r \in rows'
      BY <1>1, <3>3, CollectKeeps
    <3>4. CASE Tick \/ UNCHANGED vars
      BY <3>4 DEF Tick, vars, tables
    <3>5. QED
      BY <1>1, <3>1, <3>2, <3>3, <3>4 DEF Next
  <2> DEFINE ms == lots'
             ns == rows'
  <2>2. LotsInv(ms) /\ RowsInv(ms, ns) /\ \A r \in rows : r.collected => r \in ns
    BY <1>1, <2>1 DEF DeploymentInv
  <2> HIDE DEF ms, ns
  <2>3. \A r \in ns, l \in ms : KacReading(r) /\ Spelling[l.name] = Spelling[NameOf(ms, r)] => l.id = r.lot
    BY <2>2, OneLotOfName
  <2>4. HistoriesWhole(rows, ms, ns)
    BY <2>2, <2>3 DEF HistoriesWhole, KacReading
  <2>5. QED
    BY <2>4 DEF ms, ns
<1>2. Init => DeploymentInv /\ OnlyTheseRaise
  BY DeploymentBegins
<1>3. DeploymentInv /\ OnlyTheseRaise /\ [Next]_vars => DeploymentInv' /\ OnlyTheseRaise'
  BY DeploymentKept
<1>4. DeploymentInv /\ DeploymentInv' /\ [Next]_vars => Whole
  BY <1>1 DEF HistoriesWhole
<1>5. Spec => [][Whole]_vars
  <2> HIDE DEF Whole
  <2>1. QED
    BY <1>2, <1>3, <1>4, PTL DEF Spec
<1>6. QED
  BY <1>5 DEF OneHistory

\* The clock and the switches, which no other part of the invariant depends on.
SwitchesTyped ==
  clock \in 0..MaxTime /\ mode \in {"sample", "live"} /\ {up, untraced, refusable} \subseteq BOOLEAN

\* They keep their types.
LEMMA SwitchesKept ==
  ASSUME DeploymentInv, SwitchesTyped, [Next]_vars
  PROVE  SwitchesTyped'
<1>1. ASSUME NEW pick, StartSeeding(pick)
      PROVE  SwitchesTyped'
  <2>1. SeedingEnd(lots, pick) \in Seedings(lots)
    BY SeedingEnds DEF DeploymentInv
  <2>2. SeedingEnd(lots, pick).failed \in BOOLEAN
    BY <2>1 DEF Seedings
  <2>3. /\ up' = ~SeedingEnd(lots, pick).failed /\ mode' = "sample" /\ clock' = clock
        /\ untraced' = untraced /\ refusable' = refusable
    BY <1>1 DEF StartSeeding, SeedingEnd, FoldLeft, MapThenFoldSet, run
  <2>4. QED
    BY <2>2, <2>3 DEF SwitchesTyped
<1>2. CASE StartPlain
  BY <1>2 DEF StartPlain, run, SwitchesTyped
<1>3. ASSUME NEW answers \in LiveAnswers \cup {Fixture}, Collect(answers)
      PROVE  SwitchesTyped'
  <2>1. EndOf(answers) \in RunStates(lots, rows, TRUE)
    BY RunEnds
  <2>2. EndOf(answers).raised \in BOOLEAN
    BY <2>1 DEF RunStates
  <2>3. untraced' = EndOf(answers).raised /\ clock' = clock /\ mode' = mode /\ up' = up
    BY <1>3 DEF Collect, EndOf, Stage, Begin
  <2>4. refusable' \in BOOLEAN
    BY <1>3 DEF Collect, Refusable
  <2>5. QED
    BY <2>2, <2>3, <2>4 DEF SwitchesTyped
<1>4. CASE Tick
  <2>1. clock' = clock + 1 /\ clock < MaxTime
    BY <1>4 DEF Tick
  <2>2. clock' \in 0..MaxTime
    BY <2>1, TimeAssumption DEF SwitchesTyped
  <2>3. mode' = mode /\ up' = up /\ untraced' = untraced /\ refusable' = refusable
    BY <1>4 DEF Tick, run
  <2>4. QED
    BY <2>2, <2>3 DEF SwitchesTyped
<1>5. CASE UNCHANGED vars
  BY <1>5 DEF vars, run, SwitchesTyped
<1>6. QED
  BY <1>1, <1>2, <1>3, <1>4, <1>5 DEF Next

\* Over any sequence of starts and runs the tables keep their types and their unique
\* keys: no two lots have one id or source_lot_id, and no two readings one lot, source
\* and instant, so that no start and no run is refused by uq_parking_lot_source (the
\* seeding that would be fails beforehand) or uq_parking_snapshot.
THEOREM DeploymentTyped == Spec => []TypeOK
<1>1. Init => DeploymentInv /\ OnlyTheseRaise /\ SwitchesTyped
  <2>1. Init => SwitchesTyped
    <3>1. 0 \in 0..MaxTime
      BY ONLY TimeAssumption
    <3>2. Init => /\ clock = 0 /\ mode = "live" /\ up = FALSE
                  /\ untraced = FALSE /\ refusable = FALSE
      BY DEF Init
    <3>3. QED
      BY ONLY <3>1, <3>2 DEF SwitchesTyped
  <2>2. QED
    BY <2>1, DeploymentBegins
<1>2. DeploymentInv /\ OnlyTheseRaise /\ SwitchesTyped /\ [Next]_vars
        => DeploymentInv' /\ OnlyTheseRaise' /\ SwitchesTyped'
  BY DeploymentKept, SwitchesKept
<1>3. DeploymentInv /\ SwitchesTyped => TypeOK
  <2> SUFFICES ASSUME DeploymentInv, SwitchesTyped PROVE TypeOK
    OBVIOUS
  <2>1. LotsInv(lots) /\ RowsInv(lots, rows)
    BY DEF DeploymentInv
  <2>2. Cardinality(lots) \in Nat
    BY <2>1, FS_CardinalityType DEF LotsInv
  <2>3. ASSUME NEW l \in lots
        PROVE  l \in [id : 1..Cardinality(lots), source : STRING, name : Names]
    <3>1. l \in LotRow /\ l.id <= Cardinality(lots)
      BY <2>1 DEF LotsInv
    <3>2. l.id \in 1..Cardinality(lots) /\ l.source \in STRING /\ l.name \in Names
      BY <2>2, <3>1 DEF LotRow, OneSpelling
    <3>3. l = [id |-> l.id, source |-> l.source, name |-> l.name]
      BY <3>1 DEF LotRow
    <3>4. QED
      BY ONLY <3>2, <3>3
  <2>4. ASSUME NEW r \in rows
        PROVE  r \in [lot : {l.id : l \in lots}, source : {"kac_parking", "incheon_parking", "incheon"},
                      at : Int, collected : BOOLEAN]
    <3>1. r \in ReadingRow /\ r.lot \in {l.id : l \in lots}
      BY <2>1 DEF RowsInv
    <3>2. QED
      BY <3>1 DEF ReadingRow
  <2>5. \A r, s \in rows : <<r.lot, r.source, r.at>> = <<s.lot, s.source, s.at>> => r = s
    BY <2>1 DEF RowsInv
  <2>6. \A l, m \in lots : l.id = m.id \/ l.source = m.source => l = m
    BY <2>1 DEF LotsInv
  <2>7. QED
    BY <2>3, <2>4, <2>5, <2>6 DEF TypeOK, SwitchesTyped
<1>4. QED
  BY <1>1, <1>2, <1>3, PTL DEF Spec
=============================================================================
