------------------------------ MODULE Holidays ------------------------------
(***************************************************************************)
(* What the backend makes of the holiday service's answers                 *)
(* (backend/app/services/holidays.py): the parsing of a month, the months  *)
(* a range of days is made of, and the holidays of the range.  The cache   *)
(* in between is in UpstreamCaches.                                        *)
(*                                                                         *)
(* A date is the number of a day, a name a model value.  An answer is      *)
(* [raised, code, items]: `raised` is any of the exceptions _get_month     *)
(* catches, `code` the result code of the envelope, and `items` the set of *)
(* what the body lists.                                                    *)
(***************************************************************************)
EXTENDS Integers

CONSTANTS LastDate, MonthOf

Dates == 0..LastDate

ASSUME MonthsAssumption ==
  /\ LastDate \in Nat
  /\ MonthOf \in [Dates -> Nat]
  /\ \A d, e \in Dates : d <= e => MonthOf[d] <= MonthOf[e]

NoDate == 0 - 1          \* locdate is no date
NoName == "no name"

Failed(answer) == answer.raised \/ answer.code \notin {"none", "00", "0"}

\* A missing isHoliday means yes.
Parsed(raw) == [date |-> raw.date, name |-> raw.name, isHoliday |-> raw.flag \in {"Y", "none"}]

Readable(raw) == raw.name # NoName /\ raw.date \in Dates

\* Of the items of a date and a name the one listed first stays: which one that is
\* depends on the order of the list, which is left out.
FirstLike(items, h) == CHOOSE x \in items : x.date = h.date /\ x.name = h.name

Deduplicated(items) == {h \in items : h = FirstLike(items, h)}

\* _get_month when it does not answer from the cache.
MonthItems(answer) ==
  IF Failed(answer) THEN {}
  ELSE Deduplicated({Parsed(raw) : raw \in {x \in answer.items : Readable(x)}})

\* _iter_months
MonthsBetween(start, end) == MonthOf[start]..MonthOf[end]

GetHolidays(answers, start, end) ==
  {h \in UNION {MonthItems(answers[m]) : m \in MonthsBetween(start, end)} :
     h.isHoliday /\ h.date \in start..end}

\* The status of the whole range: one month that failed makes it an error, and
\* the holidays of the others are shown with it.
RangeFailed(answers, start, end) == \E m \in MonthsBetween(start, end) : Failed(answers[m])

\* collapse_holidays_by_date: one entry per date, with all its names.
Collapsed(holidays) ==
  [d \in {h.date : h \in holidays} |-> {h.name : h \in {x \in holidays : x.date = d}}]
=============================================================================
