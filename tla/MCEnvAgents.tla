---------------------------- MODULE MCEnvAgents ----------------------------
(* Episodes of EnvAgents for TLC.                                          *)
EXTENDS EnvAgents

CONSTANTS capital, risk, yes, no

\* Two requests of one round, and of two.
MCRound   == << 1, 1 >>
MCRounds  == << 1, 2 >>

\* What is asked and what is answered are compared, and nothing else.
MCSymmetry == Permutations(Contents) \cup Permutations(Good)

=============================================================================
