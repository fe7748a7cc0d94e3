-------------------------- MODULE MCStructurerEnv --------------------------
(* Instances of StructurerEnv for TLC.                                     *)
EXTENDS StructurerEnv

MCProducts ==
  { [notional |-> 2, outlay |-> 1, term |-> 2, exits |-> {}],
    [notional |-> 1, outlay |-> 2, term |-> 3, exits |-> {"autocalled"}] }

MCMarks == { [fair_value |-> 1, stress |-> 2], [fair_value |-> 3, stress |-> -1] }

MCOneMark == { [fair_value |-> 1, stress |-> 1] }

=============================================================================
