---------------------------- MODULE MCCollection ----------------------------
(* Instances of Collection for TLC. *)
EXTENDS Collection

CONSTANTS l1, l2

MCLots == {l1, l2}
MCLotsOf == [s \in ParkingSources |-> IF s = "kac_parking" THEN {l1} ELSE {l2}]
KacOnly == {"kac_parking"}
KacAndIncheon == {"kac_parking", "incheon_parking"}
KacSettings == {KacOnly}
BothSettings == {KacOnly, KacAndIncheon}
=============================================================================
