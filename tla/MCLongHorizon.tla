--------------------------- MODULE MCLongHorizon ---------------------------
(* Instances of LongHorizon for TLC: a short option that fills the         *)
(* notional limit, a longer one, and a note that takes most of the cash    *)
(* and may exit early, so that a contract settled before pricing raised    *)
(* may have locked less or more than the one that raised; marks that leave *)
(* a contract's stress below zero or above what was quoted.                *)
EXTENDS LongHorizon

MCProducts ==
  { [notional |-> 3, outlay |-> 1, term |-> 1, exits |-> {}],
    [notional |-> 2, outlay |-> 1, term |-> 2, exits |-> {}],
    [notional |-> 1, outlay |-> 2, term |-> 3, exits |-> {"autocalled"}] }

MCMarks == { [fair_value |-> 1, stress |-> 2], [fair_value |-> 3, stress |-> -1] }

MCHedgeMoves == {-1, 1}
MCPayoffs == {0, 3}
MCCapitals == {1, 3}

=============================================================================
