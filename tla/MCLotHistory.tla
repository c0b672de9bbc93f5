---------------------------- MODULE MCLotHistory ----------------------------
(***************************************************************************)
(* A lot of the provider, which the old server knows under two numbers.    *)
(* Fees are announced for it by its name, for one kind of day at a time,   *)
(* or by a prefix.                                                         *)
(***************************************************************************)
EXTENDS LotHistory

MCNames == <<"a">>
MCOldLots == <<"11", "12">>
MCOldName == [old \in {"11", "12"} |-> "a"]

MCStartsWith == [a |-> {"a"}, prefix |-> {"a"}]

Cheap == [free |-> 30, basicMinutes |-> 30, basicFee |-> 1000,
          unitMinutes |-> 15, unitFee |-> 500, dailyMax |-> 2000]
Dear == [Cheap EXCEPT !.free = 0, !.unitFee = 700, !.dailyMax = 0]

Says(name, day, tariff) == [name |-> name, day |-> day, tariff |-> tariff]
MCFeeAnswers ==
  {<<Says("a", "weekday", Cheap)>>, <<Says("a", "holiday", Dear)>>,
   <<Says("prefix", "weekday", Dear), Says("prefix", "holiday", Dear)>>}
=============================================================================
