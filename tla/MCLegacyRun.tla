----------------------------- MODULE MCLegacyRun -----------------------------
(* Instances of LegacyRun for TLC: two products of the lattice that do not *)
(* fit beside each other, one off the lattice that would earn more than    *)
(* either, two markets that rank the first two differently, and one in     *)
(* which the lattice cannot be quoted.                                     *)
EXTENDS LegacyRun

small == [notional |-> 1, outlay |-> 1, term |-> 2, exits |-> {}]
large == [notional |-> 2, outlay |-> 1, term |-> 1, exits |-> {}]
stray == [notional |-> 1, outlay |-> 0, term |-> 1, exits |-> {}]

MCProducts == {small, large, stray}
MCLattice == {small, large}

Priced(margin, mandate, contract, converges) ==
  [ mark |-> [fair_value |-> 1, stress |-> 1], mandate |-> mandate,
    contract |-> contract, margin |-> margin, converges |-> converges ]

MCMarkets ==
  { [ p \in MCProducts |-> CASE p = small -> Priced(6, TRUE, TRUE, TRUE)
                             [] p = large -> Priced(8, TRUE, FALSE, TRUE)
                             [] p = stray -> Priced(12, TRUE, TRUE, TRUE) ],
    [ p \in MCProducts |-> CASE p = small -> Priced(3, TRUE, TRUE, TRUE)
                             [] p = large -> Priced(9, TRUE, TRUE, TRUE)
                             [] p = stray -> Priced(12, TRUE, TRUE, TRUE) ] }

\* A market whose lattice cannot be quoted ends the episode.
MCMarketsWithFailure ==
  MCMarkets \cup { [ p \in MCProducts |-> Priced(6, TRUE, TRUE, p # large) ] }

MCMarks == { [fair_value |-> 1, stress |-> 1] }
MCPolicies == {"one_shot", "quote_and_revise"}

=============================================================================
