--------------------------- MODULE EpisodeProtocol ---------------------------
(***************************************************************************)
(* What StochopiaStructurerEnv promises the loop that drives it: rounds    *)
(* with budgets, steps that stay in a round or end it, and three ways an   *)
(* episode stops.  No money and no contract is left here.  A step that     *)
(* raised is one of the three, if its caller takes it for that: the next   *)
(* call is served.  StructurerEnv implements this specification;           *)
(* AgentRollout is built on top of it.                                     *)
(***************************************************************************)
EXTENDS Naturals

CONSTANTS Rounds, MaxQuotes, MaxQueries, MaxSteps

ASSUME ProtocolAssumption == /\ Rounds \in Nat \ {0, 1}
                             /\ MaxQuotes \in Nat
                             /\ MaxQueries \in Nat
                             /\ MaxSteps \in Nat \ {0}

VARIABLES
  round,        \* the round a policy is in; Rounds is the horizon
  step_index,   \* steps of the episode
  round_step,   \* steps of the round
  queries,      \* client queries spent in the round
  quoted,       \* desk quotes spent in the round
  offers,       \* quotes of the round a policy can name
  accepted,     \* submissions accepted in the episode
  stage         \* what step() is doing, or how the episode stopped

steps    == <<step_index, round_step>>
budgets  == <<queries, quoted, offers>>
protocol == <<round, steps, budgets, accepted, stage>>

EpisodeInit ==
  /\ round = 1
  /\ step_index = 0 /\ round_step = 0
  /\ queries = 0 /\ quoted = 0 /\ offers = 0
  /\ accepted = 0
  /\ stage = "deciding"

-----------------------------------------------------------------------------
Take(next) ==
  /\ stage \in {"deciding", "failed"}
  /\ step_index' = step_index + 1
  /\ round_step' = round_step + 1
  /\ stage' = next

\* A step that stays in the round is cut off when it was the round's last.
Stay == Take(IF round_step + 1 < MaxSteps THEN stage ELSE "truncated")

AskClient ==
  /\ Stay
  /\ queries < MaxQueries
  /\ queries' = queries + 1
  /\ UNCHANGED <<round, quoted, offers, accepted>>

RequestQuote(named) ==
  /\ Stay
  /\ quoted < MaxQuotes
  /\ quoted' = quoted + 1
  /\ offers' = IF named THEN offers + 1 ELSE offers
  /\ UNCHANGED <<round, queries, accepted>>

Refuse == Stay /\ UNCHANGED <<round, budgets, accepted>>

Submit(accept) ==
  /\ Take("finishing")
  /\ offers > 0
  /\ accepted' = IF accept THEN accepted + 1 ELSE accepted
  /\ UNCHANGED <<round, budgets>>

QuoteAndSubmit(accept) ==
  /\ Take("finishing")
  /\ quoted < MaxQuotes
  /\ quoted' = quoted + 1
  /\ offers' = offers + 1
  /\ accepted' = IF accept THEN accepted + 1 ELSE accepted
  /\ UNCHANGED <<round, queries>>

Skip == Take("finishing") /\ UNCHANGED <<round, budgets, accepted>>

\* The end of a step that ends its round; the horizon is no decision round.
NextRound ==
  /\ stage = "finishing"
  /\ round < Rounds
  /\ round' = round + 1
  /\ round_step' = 0
  /\ queries' = 0 /\ quoted' = 0 /\ offers' = 0
  /\ stage' = IF round + 1 < Rounds THEN "deciding" ELSE "finishing"
  /\ UNCHANGED <<step_index, accepted>>

Terminate ==
  /\ stage = "finishing"
  /\ round = Rounds
  /\ stage' = "terminated"
  /\ UNCHANGED <<round, steps, budgets, accepted>>

\* An exception leaves step() while the round is being finished.
Fail ==
  /\ stage = "finishing"
  /\ stage' = "failed"
  /\ UNCHANGED <<round, steps, budgets, accepted>>

-----------------------------------------------------------------------------
Valid ==
  \/ AskClient
  \/ RequestQuote(TRUE)
  \/ \E accept \in BOOLEAN : Submit(accept) \/ QuoteAndSubmit(accept)
  \/ Skip

Invalid == RequestQuote(FALSE) \/ Refuse

Finish == NextRound \/ Terminate \/ Fail

EpisodeNext == Valid \/ Invalid \/ Finish

EpisodeSpec == EpisodeInit /\ [][EpisodeNext]_protocol

\* No driver is bound to go on after a step that raised.
FairEpisodeSpec == EpisodeSpec /\ WF_protocol(stage # "failed" /\ EpisodeNext)

=============================================================================
