----------------------------- MODULE Ingestion ------------------------------
(***************************************************************************)
(* A deployment over its restarts: what start-up (the lifespan of main.py  *)
(* with seed_sample_database) and collections (CollectionService) put into *)
(* parking_lots, parking_snapshots and raw_api_responses, whatever the     *)
(* providers answer.  Of the fees it matters here whether the table takes  *)
(* them; whose they become is LotHistory's.                                *)
(*                                                                         *)
(* Without a key the client is that of the sample mode: start-up seeds a   *)
(* series of readings and fees, and collections get the fixture's answers. *)
(* With a key, on the same database, they are a provider's.  A start and a *)
(* run are each one transaction, and operation_lock keeps runs apart       *)
(* (Collection.tla), so each is one step here.                             *)
(***************************************************************************)
EXTENDS Answers, FiniteSets

CONSTANTS
  Names,          \* the lots of the KAC airport and of Incheon, by name
  AirportOfLot,   \* [Names -> code]
  SourceIdOf,     \* [Names -> source_lot_id the collector gives]
  SampleLots,     \* SAMPLE_AIRPORTS: [source, legacy : ids, name, oldNames : names]
  OldLots,        \* lots an older version may have left: [source, name]
  LiveAnswers,    \* bound of the model: what the providers may answer, by source
  Fixture,        \* FixturePublicDataClient's answers
  MaxTime         \* bound of the model: instants on the grid of the samples

Sources == {"kac_parking", "incheon_parking", "kac_fee", "incheon_fee"}

Samples == ToSet(SampleLots)
Kac(name) == AirportOfLot[name] # "ICN"

\* The names of lots in the spelling that is kept, and the ids a lot of a name may have.
OneSpelling == {n \in Names : Spelling[n] = n}
IdsOf(name) ==
  UNION ({{SourceIdOf[name]}} \cup {{s.source} \cup s.legacy : s \in {q \in Samples : q.name = name}}
         \cup {{o.source} : o \in {q \in OldLots : q.name = name}})

\* An id begins with the code of its airport.  At KAC's, names differ in letters or
\* digits, and the collector's id of a sample lot is that of its name.
ASSUME IdsAssumption ==
  /\ \A n \in Names : SourceIdOf[n] \in STRING
  /\ \A n, m \in Names :
       /\ AirportOfLot[n] # AirportOfLot[m] => IdsOf(n) \cap IdsOf(m) = {}
       /\ Kac(n) /\ SourceIdOf[n] = SourceIdOf[m] => n = m
  /\ \A s \in Samples :
       /\ \A n \in Names : SourceIdOf[n] = s.source => n = s.name
       /\ Kac(s.name) => SourceIdOf[s.name] = s.source

\* Sample lots have ids and names of their own; a former id is no other lot's, and
\* an old lot that is called like a sample has an id the sample knows.
ASSUME SamplesAssumption ==
  /\ SampleLots \in Seq(Samples)
  /\ \A o \in OldLots : o.source \in STRING /\ o.name \in OneSpelling
  /\ \A s \in Samples :
       /\ s.source \in STRING /\ s.name \in OneSpelling
       /\ \A q \in Samples : (q.source = s.source <=> q.name = s.name) /\ q.source \notin s.legacy
       /\ \A n \in Names : SourceIdOf[n] \notin s.legacy
       /\ \A n \in Names \cap s.oldNames : AirportOfLot[n] = AirportOfLot[s.name]
       /\ \A o \in OldLots : o.name = s.name => o.source \in {s.source} \cup s.legacy

ASSUME TimeAssumption == MaxTime \in Nat

\* An answer is [ok, items]; one that is not ok could not be fetched.
ASSUME AnswersAssumption ==
  \A a \in LiveAnswers \cup {Fixture} :
    /\ DOMAIN a = Sources
    /\ \A source \in Sources :
         a[source].ok \in BOOLEAN /\ a[source].items \in Seq(ToSet(a[source].items))
    /\ \A source \in Sources : \A i \in ToSet(a[source].items) : i.kept \in BOOLEAN
    /\ \A i \in ToSet(a["kac_parking"].items) :
         /\ i.at \in Int \cup {Garbled, Absent} /\ i.named \in BOOLEAN
         /\ AirportOfName[i.airport] \in Supported =>
              LET name == IF i.lot = Absent THEN "a parking lot" ELSE Spelling[i.lot]
              IN name \in OneSpelling /\ Kac(name)
    /\ \A i \in ToSet(a["incheon_parking"].items) :
         /\ i.at \in Int \cup {Garbled, Absent} /\ i.named \in BOOLEAN
         /\ (IF i.floor = Absent THEN "ICN lot" ELSE i.floor) \in OneSpelling
    /\ \A i \in ToSet(a["kac_fee"].items) : \A kind \in DOMAIN i.says :
         DOMAIN i.says[kind] = {"free", "basicMinutes", "basicFee", "unitMinutes", "unitFee", "dailyMax"}
    \* The two digits each of hh:mm are never too many for a column.
    /\ \A i \in ToSet(a["incheon_fee"].items) :
         i.minutes \in 0..MaxInteger /\ i.won \in Nat \cup {Endless}

VARIABLES
  lots,      \* [id, source, name]
  rows,      \* [lot, source, at, collected]: whether it has a collection_run_id
  clock,
  mode,      \* client_mode
  up,        \* the last start succeeded
  untraced,  \* the last run was answered and the answers are not in raw_api_responses
  refusable  \* history: the last run was told something that can make it raise

tables == <<lots, rows>>
run == <<untraced, refusable>>
vars == <<tables, clock, mode, up, run>>

TypeOK ==
  /\ lots \subseteq [id : 1..Cardinality(lots), source : STRING, name : Names]
  /\ \A l, m \in lots : l.id = m.id \/ l.source = m.source => l = m
  /\ rows \subseteq [lot : {l.id : l \in lots}, source : {"kac_parking", "incheon_parking", "incheon"},
                     at : Int, collected : BOOLEAN]
  /\ \A r, s \in rows : <<r.lot, r.source, r.at>> = <<s.lot, s.source, s.at>> => r = s
  /\ clock \in 0..MaxTime /\ mode \in {"sample", "live"} /\ {up, untraced, refusable} \subseteq BOOLEAN

\* An empty database, or that of an older version.
Init ==
  /\ lots \in {{}} \cup {{[id |-> 1, source |-> o.source, name |-> o.name]} : o \in OldLots}
  /\ rows = {}
  /\ clock = 0 /\ mode = "live" /\ up = FALSE
  /\ untraced = FALSE /\ refusable = FALSE

NewLot(ls, source, name) == [id |-> Cardinality(ls) + 1, source |-> source, name |-> name]
-----------------------------------------------------------------------------
(* Start-up.                                                               *)

\* The lots a sample lot may be: by its id or a former one, or else by a former name.
SeedCandidates(ls, s) ==
  LET byId == {l \in ls : l.source \in {s.source} \cup s.legacy}
  IN IF byId # {} THEN byId ELSE {l \in ls : l.name \in s.oldNames}

\* The query has no order: `pick` says which of two candidates it is.  Its id must
\* not be another lot's (uq_parking_lot_source).
SeedLot(st, s, pick) ==
  LET found == SeedCandidates(st.lots, s)
      lot == IF found = {} THEN NewLot(st.lots, s.source, s.name)
             ELSE CHOOSE l \in found : \A m \in found : IF pick THEN l.id <= m.id ELSE l.id >= m.id
      taken == \E m \in st.lots \ {lot} : m.source = s.source
  IN IF st.failed \/ taken THEN [st EXCEPT !.failed = TRUE]
     ELSE [st EXCEPT !.lots = (@ \ {lot}) \cup {[lot EXCEPT !.source = s.source, !.name = s.name]}]

\* Seeded rows of KAC lots have the source of collected ones, those of Incheon not.
SeedSource(name) == IF AirportOfLot[name] = "ICN" THEN "incheon" ELSE "kac_parking"

Seeded(ls) == {l \in ls : l.source \in {s.source : s \in Samples}}

\* Former samples that lie ahead go; every instant of the past that has no row gets one.
SeedRows(ls, rs) ==
  LET kept == {r \in rs : r.collected \/ r.at <= clock}
      ofLot(l) == {[lot |-> l.id, source |-> SeedSource(l.name), at |-> t, collected |-> FALSE] :
                     t \in 0..clock}
      seeds == UNION {ofLot(l) : l \in Seeded(ls)}
  IN kept \cup {n \in seeds : ~\E r \in kept : r.lot = n.lot /\ r.source = n.source /\ r.at = n.at}

\* A start with SEED_SAMPLE_DATA and without a key; one that raises leaves no app.
StartSeeding(pick) ==
  LET end == FoldLeft(LAMBDA st, s : SeedLot(st, s, pick), [lots |-> lots, failed |-> FALSE], SampleLots)
  IN /\ mode' = "sample"
     /\ up' = ~end.failed
     /\ IF end.failed THEN UNCHANGED tables
        ELSE /\ lots' = end.lots
             /\ rows' = SeedRows(end.lots, rows)
     /\ UNCHANGED <<clock, run>>

StartPlain ==
  /\ mode' \in {"sample", "live"} /\ up' = TRUE
  /\ UNCHANGED <<tables, clock, run>>
-----------------------------------------------------------------------------
(* A run.  It raises at the first thing it cannot parse or store.          *)

Raised(st) == [st EXCEPT !.raised = TRUE]

\* _get_or_create_airport, _get_or_create_lot, and the row unless there is one of its
\* instant.
StoreObservation(st, o) ==
  LET bySource == {l \in st.lots : l.source = SourceIdOf[o.lot]}
      found == IF bySource # {} THEN bySource ELSE {l \in st.lots : l.name = o.lot}
      lot == IF found = {} THEN NewLot(st.lots, SourceIdOf[o.lot], o.lot) ELSE CHOOSE l \in found : TRUE
      known == \E r \in st.rows : r.lot = lot.id /\ r.source = o.source /\ r.at = o.at
  IN CASE Cardinality(found) > 1 \/ ~LotFits(o) \/ ~(known \/ SnapshotFits(o)) -> Raised(st)
       [] OTHER ->
            [st EXCEPT !.lots = (@ \ {lot}) \cup {[lot EXCEPT !.name = o.lot]},
                       !.rows = IF known THEN @ ELSE @ \cup
                         {[lot |-> lot.id, source |-> o.source, at |-> o.at, collected |-> TRUE]}]

\* Of fee rules, whichever lot they are for, the table takes all or the run raises.
StoreFeeRules(st, parsed) ==
  IF \A rule \in parsed : rule.kept /\ RuleFits(rule.tariff) THEN st ELSE Raised(st)

StoreObservations(st, parsed) ==
  FoldLeft(LAMBDA s, o : IF s.raised THEN s ELSE StoreObservation(s, o), st, parsed)

StoreAnswer(st, source, items) ==
  CASE source = "kac_parking" /\ KacParkingReadable(items) ->
         StoreObservations(st, ParseKacParking(items, clock))
    [] source = "incheon_parking" /\ IncheonParkingReadable(items) ->
         StoreObservations(st, ParseIncheonParking(items, clock))
    [] source = "kac_fee" /\ KacFeesReadable(items) ->
         StoreFeeRules(st, ParseKacFee(items))
    [] source = "incheon_fee" /\ IncheonFeesReadable(items) ->
         StoreFeeRules(st, ParseIncheonFee(items))
    [] OTHER -> Raised(st)

\* A text whose number, zero included, an Integer column takes and no check refuses.
Countable(text) == text # Endless /\ Number(text) \in 0..MaxInteger

\* What a run can raise at.  Of a parking answer or of Incheon's fees a time that cannot
\* be read; of any answer a number that is endless, negative or too large, and an item
\* or a name that the database cannot hold; at KAC more cars than spaces; and of its
\* fees no basic minutes.
Refusable(answers) ==
  LET of(source) == IF answers[source].ok THEN ToSet(answers[source].items) ELSE {}
      kac == {i \in of("kac_parking") : AskedFor(i)}
  IN \/ \E i \in kac \cup of("incheon_parking") : i.at = Garbled \/ ~i.named \/ ~i.kept
     \/ \E i \in kac :
          ~Countable(i.full) \/ ~Countable(i.stay) \/ Number(i.stay) > Number(i.full)
     \/ \E i \in of("incheon_parking") : ~Countable(i.parked) \/ ~Countable(i.area)
     \/ \E i \in of("kac_fee") : ~i.kept \/ \E kind \in Kinds \cap DOMAIN i.says :
          LET said == i.says[kind]
          IN Number(said.basicMinutes) = 0 \/ \E field \in DOMAIN said : ~Countable(said[field])
     \/ \E i \in of("incheon_fee") : i.at = Garbled \/ ~i.kept \/ i.won \notin 0..MaxInteger

\* A source that cannot be fetched is passed over; a run that raises is rolled back,
\* the answers it had stored included.
Collect(answers) ==
  LET stage(st, source) ==
        IF st.raised \/ ~answers[source].ok THEN st
        ELSE StoreAnswer(st, source, answers[source].items)
      parked == stage(stage([lots |-> lots, rows |-> rows, raised |-> FALSE], "kac_parking"),
                      "incheon_parking")
      end == stage(stage(parked, "kac_fee"), "incheon_fee")
  IN /\ up
     /\ answers \in IF mode = "live" THEN LiveAnswers ELSE {Fixture}
     /\ refusable' = Refusable(answers)
     /\ untraced' = end.raised
     /\ IF end.raised THEN UNCHANGED tables
        ELSE lots' = end.lots /\ rows' = end.rows
     /\ UNCHANGED <<clock, mode, up>>
-----------------------------------------------------------------------------
Tick == clock < MaxTime /\ clock' = clock + 1 /\ UNCHANGED <<tables, mode, up, run>>

Next ==
  \/ \E pick \in BOOLEAN : StartSeeding(pick)
  \/ StartPlain
  \/ \E answers \in LiveAnswers \cup {Fixture} : Collect(answers)
  \/ Tick

Spec == Init /\ [][Next]_vars
-----------------------------------------------------------------------------
(* Properties.                                                             *)

NameOf(ls, row) == (CHOOSE l \in ls : l.id = row.lot).name

\* Whatever the mode of the starts and the spelling of the answers, a lot of KAC has
\* one history: a collected reading stays, and no other lot is ever the same one under
\* another id or spelling (the comment at collection.py:630).
OneHistory ==
  [][\A r \in rows : r.collected /\ r.source = "kac_parking" =>
       /\ r \in rows'
       /\ \A l \in lots' : Spelling[l.name] = Spelling[NameOf(lots', r)] => l.id = r.lot]_vars

\* Nothing but what Refusable lists makes a run raise, of answers whose items are what
\* Answers says, whatever else is garbled or missing: for the rest the parsers of one
\* file agree with the columns and checks of the other, and no lot's name is ever
\* ambiguous.
OnlyTheseRaise == untraced => refusable

\* architecture.md stores the original answer (step 2) before its readings (step 3),
\* to trace errors with: every answer a run received can be found afterwards.
AnswersTraced == ~untraced
=============================================================================
