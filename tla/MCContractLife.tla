--------------------------- MODULE MCContractLife ---------------------------
(* Instances of ContractLife for TLC: a lattice with every family, strikes  *)
(* on both sides of the fixing, a barrier below it, one between the levels   *)
(* at which notes are called and one above them, and contracts of two and    *)
(* three months; spots on and beside every level.                           *)
EXTENDS ContractLife

MCDomain ==
  [ families |-> Families, maturities |-> {2, 3}, strikes |-> {95, 105}, participations |-> {50},
    protections |-> BOOLEAN, barriers |-> {80, 100, 103, 110}, coupons |-> {8} ]

MCDrafts ==
  [ family : Families, months : {2, 3}, strike : {95, 100, 105}, barrier : {Absent, 80, 100, 103, 110},
    kind : {"knock_in", "knock_out", "absent"}, direction : {"up", "absent"}, coupon : {Absent, 8},
    participation : {50, 100}, protected : BOOLEAN, funding : {"premium_paid", "absent"},
    face : {"notional"} ]

MCSpots == {70, 80, 98, 100, 104, 105, 112}
MCPrices == {4000, 120000}
MCHurdles == {0, 6}

=============================================================================
