------------------------------- MODULE MCBatch -------------------------------
(* An instance of Batch for TLC: two jobs of two authors, one of whom is a *)
(* judge, two settings, results of an older version at the start.          *)
EXTENDS Batch

MCAuthor == <<"north", "east">>
MCJudges == <<"north", "south">>

=============================================================================
