---------------------------- MODULE MCIngestion -----------------------------
(***************************************************************************)
(* A lot of KAC with two spellings and a former name, one of Incheon that  *)
(* is seeded, and a floor of it that is not.                               *)
(***************************************************************************)
EXTENDS Ingestion

MCNames == {"Under", "Underground", "Old", "Short", "Short B1"}
MCAirportOfLot == [n \in MCNames |-> IF n \in {"Short", "Short B1"} THEN "ICN" ELSE "GMP"]
MCSpelling == [n \in MCNames |-> IF n = "Under" THEN "Underground" ELSE n]
MCAirportOfName == [Gimpo |-> "GMP", Elsewhere |-> "unknown"]
MCSourceIdOf == [Under |-> "gmp-under", Underground |-> "gmp-underground", Old |-> "gmp-old"]
                @@ "Short" :> "icn-short" @@ "Short B1" :> "icn-short-b1"

MCSampleLots ==
  <<[source |-> "gmp-underground", legacy |-> {"gmp-international-1"},
     name |-> "Underground", oldNames |-> {"Old"}],
    [source |-> "icn-t1-short", legacy |-> {}, name |-> "Short", oldNames |-> {}]>>
MCOldLots == {[source |-> "gmp-international-1", name |-> name] : name \in {"Old", "Underground"}}
MCProfiles == {[fee |-> "FB1", max |-> "NF1", lots |-> {"Short"}]}

Ok(items) == [ok |-> TRUE, items |-> items]
Failed == [ok |-> FALSE, items |-> <<>>]

KacItem(lot, full, stay, at) ==
  [airport |-> "Gimpo", lot |-> lot, full |-> full, stay |-> stay, at |-> at,
   named |-> TRUE, kept |-> TRUE]
Tracking(floor, area, parked, at) ==
  [floor |-> floor, area |-> area, parked |-> parked, at |-> at, named |-> TRUE, kept |-> TRUE]

\* Good answers, at every instant and one ahead of the clock; then odd ones.
KacGood == {<<KacItem(lot, 10, 9, at)>> : lot \in {"Under", "Underground"}, at \in 0..MaxTime + 1}
KacOverFull == {<<KacItem("Under", 10, 11, at)>> : at \in 0..MaxTime}
KacOdd ==
  {<<>>, <<KacItem("Under", Garbled, 9, 0), KacItem("Underground", 10, Absent, Absent)>>,
   <<KacItem("Under", 10, 0 - 1, 0)>>, <<KacItem("Under", 0 - 1, 9, 0)>>,
   <<KacItem("Under", Endless, 9, 0)>>, <<KacItem("Underground", MaxInteger + 1, 9, 0)>>,
   <<[KacItem("Under", 10, 9, 0) EXCEPT !.named = FALSE]>>,
   <<[KacItem("Under", 10, 9, 0) EXCEPT !.kept = FALSE]>>,
   <<KacItem("Underground", 10, 9, Garbled)>>,
   <<[KacItem("Under", Endless, 20, Garbled) EXCEPT !.airport = "Elsewhere"]>>}
IncheonGood == {<<Tracking("Short", 10, 9, 0)>>}
IncheonOdd ==
  {<<Tracking("Short B1", Garbled, 12, Absent)>>, <<Tracking("Short", 10, 9, Garbled)>>,
   <<Tracking("Short", 10, Endless, 0)>>, <<Tracking("Short", 10, MaxInteger + 1, 0)>>,
   <<[Tracking("Short", 10, 9, 0) EXCEPT !.named = FALSE]>>,
   <<[Tracking("Short", 10, 9, 1) EXCEPT !.kept = FALSE]>>}

Said(basicMinutes, unitMinutes) ==
  [free |-> 30, basicMinutes |-> basicMinutes, basicFee |-> 1000, unitMinutes |-> unitMinutes,
   unitFee |-> Absent, dailyMax |-> Garbled]
KacFees(said) ==
  <<[lot |-> "Under", says |-> [k \in {"small weekday", "small holiday"} |-> said], kept |-> TRUE]>>
KacFeesAll ==
  {<<>>, <<[KacFees(Said(30, 15))[1] EXCEPT !.kept = FALSE]>>}
  \cup {KacFees(said) : said \in {Said(30, 15), Said(30, Absent), Said(Absent, 15),
                                  Said(30, Endless), Said(MaxInteger + 1, 15)}}

Text(char, first, over, minutes, won) ==
  [char |-> char, first |-> first, over |-> over, minutes |-> minutes, won |-> won, at |-> 0,
   kept |-> TRUE]
IncheonFeesAll ==
  {<<Text("FB1", first, ~first, minutes, won), Text("FB1", FALSE, over, 15, 600),
     Text(IF over THEN "NF1" ELSE Absent, FALSE, FALSE, 0, 24000)>> :
     first \in BOOLEAN, over \in BOOLEAN, minutes \in {0, 30}, won \in {0, 1200}}
  \cup {<<[Text("FB1", TRUE, FALSE, 30, 1200) EXCEPT !.at = Garbled]>>,
        <<[Text("FB1", TRUE, FALSE, 30, 1200) EXCEPT !.kept = FALSE]>>}
  \* An endless or too large amount, in a place where it is read and in one where not.
  \cup {<<Text("FB1", TRUE, TRUE, minutes, 1200), Text("FB1", TRUE, FALSE, 15, won),
           Text("NF1", FALSE, FALSE, 0, won)>> : minutes \in {0, 30}, won \in {Endless, MaxInteger + 1}}
  \cup {<<Text("FB1", TRUE, FALSE, 30, Endless)>>}

Answer(kac, incheon, kacFees, incheonFees) ==
  [s \in Sources |-> CASE s = "kac_parking" -> kac [] s = "incheon_parking" -> incheon
                              [] s = "kac_fee" -> kacFees [] s = "incheon_fee" -> incheonFees]

Oks(items) == {Failed} \cup {Ok(i) : i \in items}

\* Every answer of a source, beside good ones of the others or none.
MCLiveAnswers ==
  {Answer(k, i, Failed, Failed) : k \in Oks(KacGood \cup KacOverFull \cup KacOdd), i \in Oks(IncheonGood)}
  \cup {Answer(Failed, Ok(i), Failed, Failed) : i \in IncheonOdd}
  \cup {Answer(Failed, Failed, Ok(f), Failed) : f \in KacFeesAll}
  \cup {Answer(Failed, Failed, Failed, Ok(g)) : g \in IncheonFeesAll}

\* Well-formed answers of a full airport.
MCFullAnswers == {Answer(Ok(k), Ok(i), Failed, Failed) : k \in KacGood \cup KacOverFull, i \in IncheonGood}

MCFixture ==
  Answer(Ok(<<KacItem("Under", 10, 9, 0)>>), Ok(<<Tracking("Short", 10, 9, 0)>>),
         Ok(KacFees(Said(30, 15))), Ok(<<Text("FB1", TRUE, FALSE, 30, 1200)>>))
=============================================================================
