--------------------------- MODULE StructurerEnv ---------------------------
(***************************************************************************)
(* StochopiaStructurerEnv (stochopia/environment/core.py): the reset/step  *)
(* interface a policy sees, on top of LongHorizon.                         *)
(*                                                                         *)
(* One call of step() applies one action.  An action that submits or skips *)
(* ends the round inside the same call: the backend advances, and on the   *)
(* last snapshot, which is no decision round, liquidates.  So a step is    *)
(* the action itself and then, while ends_round holds, the loop's steps up *)
(* to the one that gives the reward; a policy acts only in between.        *)
(*                                                                         *)
(* An exception of that part leaves the call without a reward.  It is not  *)
(* remembered: step() refuses only an episode that has ended, so a further *)
(* call is served, and one that skips runs the month again.                *)
(*                                                                         *)
(* Every way an action can be refused (InvalidAction, a forged product or  *)
(* one off the lattice, an unknown alias or topic, a spent budget, a round *)
(* already submitted) costs a step and changes nothing else: Refused       *)
(* stands for all of them.                                                 *)
(***************************************************************************)
EXTENDS LongHorizon

CONSTANTS
  Topics,     \* LongHorizonEnvironment.CLIENT_TOPICS
  MaxSteps    \* max_steps_per_round

ASSUME SpineAssumption == /\ Rounds >= 2
                          /\ Dynamic
                          /\ MaxSteps \in Nat \ {0}

VARIABLES
  step_index,   \* steps of the episode
  round_step,   \* steps of the round
  disclosed,    \* what the client told in this round, and of which profile
  aliases,      \* the public quote aliases of the round, in order of issue
  ends_round,   \* the current step() call still has to finish its round
  before,       \* the economic state step() compares with, and its verdict
  reward,       \* reward_raw_totals of the two realised components
  summary,      \* constraint_summary
  terminated,
  truncated

public == <<disclosed, aliases>>
result == <<reward, summary>>
spine  == <<step_index, round_step, public, ends_round, before, result, terminated, truncated>>
vars   == <<core, spine>>

Done == terminated \/ truncated

Economy(accepted) ==
  [ wealth   |-> NetLiquidationWealth,
    inflows  |-> client.external_inflows,
    outflows |-> client.external_outflows,
    hedged   |-> dealer.realised_hedged_pnl,
    events   |-> Len(events),
    accepted |-> accepted ]

EnvInit ==
  /\ Init
  /\ step_index = 0
  /\ round_step = 0
  /\ disclosed = {}
  /\ aliases = << >>
  /\ ends_round = FALSE
  /\ before = Economy(FALSE)
  /\ reward = [client_utility |-> 0, lifecycle_pnl |-> 0]
  /\ summary = [valid |-> 0, invalid |-> 0, accepted |-> 0]
  /\ terminated = FALSE
  /\ truncated = FALSE

-----------------------------------------------------------------------------
CanStep == Ready /\ ~ ends_round /\ ~ Done

\* Mutant: external money counts as the client's gain.
GiveRewardUnadjusted(then) ==
  reward' =
    [ client_utility |-> reward.client_utility + (NetLiquidationWealth' - then.wealth),
      lifecycle_pnl |-> reward.lifecycle_pnl
        + IF Len(events') > then.events
          THEN dealer'.realised_hedged_pnl - then.hedged ELSE 0 ]

\* The reward of a step is the change since `then`, with the client's external
\* cashflows taken out; the lifecycle term exists only if a contract closed.
GiveReward(then) ==
  reward' =
    [ client_utility |-> reward.client_utility
        + (NetLiquidationWealth' - then.wealth)
        - (client'.external_inflows - then.inflows)
        + (client'.external_outflows - then.outflows),
      lifecycle_pnl |-> reward.lifecycle_pnl
        + IF Len(events') > then.events
          THEN dealer'.realised_hedged_pnl - then.hedged ELSE 0 ]

Count(valid, accepted) ==
  summary' = [ valid    |-> summary.valid + (IF valid THEN 1 ELSE 0),
               invalid  |-> summary.invalid + (IF valid THEN 0 ELSE 1),
               accepted |-> summary.accepted + (IF accepted THEN 1 ELSE 0) ]

\* The part of step() after an action that does not end the round.
StayInRound(valid) ==
  /\ step_index' = step_index + 1
  /\ round_step' = round_step + 1
  /\ truncated' = (round_step + 1 >= MaxSteps)
  /\ GiveReward(Economy(FALSE))
  /\ Count(valid, FALSE)
  /\ UNCHANGED <<ends_round, before, terminated>>

\* Mutant: the step limit is looked at in every step.
EndRoundCutOff(accepted) ==
  /\ MayRetry
  /\ step_index' = step_index + 1
  /\ round_step' = round_step + 1
  /\ ends_round' = TRUE
  /\ truncated' = (round_step + 1 >= MaxSteps)
  /\ before' = Economy(accepted)
  /\ UNCHANGED <<disclosed, result, terminated>>

\* The part of step() before the round is finished.
EndRound(accepted) ==
  /\ MayRetry
  /\ step_index' = step_index + 1
  /\ round_step' = round_step + 1
  /\ ends_round' = TRUE
  /\ before' = Economy(accepted)
  /\ UNCHANGED <<disclosed, result, terminated, truncated>>

\* _register_public_quote, for the quote this step is given.
RegisterQuote == aliases' = Append(aliases, <<round, quote_count + 1>>)

AskClient(topic) ==
  /\ CanStep
  /\ QueryClient
  /\ disclosed' = disclosed \cup {[topic |-> topic, profile |-> round]}
  /\ StayInRound(TRUE)
  /\ UNCHANGED aliases

AskDesk(product, mark, mandate, contract) ==
  /\ CanStep
  /\ RequestQuote(product, mark, mandate, contract)
  /\ RegisterQuote
  /\ StayInRound(TRUE)
  /\ UNCHANGED disclosed

\* Mutant: the alias is given out before the desk is asked.
DeskFailsNamed ==
  /\ CanStep
  /\ QuoteNotConverged
  /\ StayInRound(FALSE)
  /\ RegisterQuote
  /\ UNCHANGED disclosed

\* RequestQuote or SubmitProduct, when the desk finds no equilibrium.
DeskFails ==
  /\ CanStep
  /\ QuoteNotConverged
  /\ StayInRound(FALSE)
  /\ UNCHANGED public

Refused ==
  /\ CanStep
  /\ UNCHANGED <<core, public>>
  /\ StayInRound(FALSE)

SubmitQuoted(alias) ==
  \E quote \in quotes :
    /\ CanStep
    /\ quote.id = aliases[alias]
    /\ SubmitDesign(quote)
    /\ EndRound(Accepted(quote))
    /\ UNCHANGED aliases

QuoteAndSubmit(product, mark, mandate, contract) ==
  /\ CanStep
  /\ SubmitProduct(product, mark, mandate, contract)
  /\ RegisterQuote
  /\ EndRound(Accepted(Quote(product, mark, mandate, contract)))

Skip ==
  /\ CanStep
  /\ CloseRound
  /\ EndRound(FALSE)
  /\ UNCHANGED aliases

-----------------------------------------------------------------------------
(* _finish_round, and the end of step().                                   *)

\* Mutant: nothing ends the episode on its last snapshot.
StartFinishNoHorizon ==
  /\ ends_round
  /\ BeginAdvance
  /\ UNCHANGED spine

StartFinish ==
  /\ ends_round
  /\ BeginAdvance \/ BeginLiquidation
  /\ UNCHANGED spine

FinishPosition ==
  /\ ObserveNextPosition \/ LiquidatePosition
  /\ UNCHANGED spine

\* The call is left: what its round still needed is done by no later one.
StepRaises ==
  /\ AdvanceRaises \/ LiquidationRaises
  /\ ends_round' = FALSE
  /\ UNCHANGED <<step_index, round_step, public, before, result, terminated, truncated>>

CloseStep ==
  /\ ends_round' = FALSE
  /\ GiveReward(before)
  /\ Count(TRUE, before.accepted)

\* Mutant: the round's aliases stay.
FinishAdvanceAliased(capital) ==
  /\ CompleteAdvance(capital)
  /\ round_step' = 0
  /\ disclosed' = {}
  /\ IF round' < Rounds THEN CloseStep ELSE UNCHANGED <<ends_round, result>>
  /\ UNCHANGED <<step_index, aliases, before, terminated, truncated>>

FinishAdvance(capital) ==
  /\ CompleteAdvance(capital)
  /\ round_step' = 0
  /\ disclosed' = {}
  /\ aliases' = << >>
  /\ IF round' < Rounds THEN CloseStep ELSE UNCHANGED <<ends_round, result>>
  /\ UNCHANGED <<step_index, before, terminated, truncated>>

FinishEpisode ==
  /\ CompleteLiquidation
  /\ terminated' = TRUE
  /\ CloseStep
  /\ UNCHANGED <<step_index, round_step, public, before, truncated>>

-----------------------------------------------------------------------------
PolicyStep ==
  \/ \E topic \in Topics : AskClient(topic)
  \/ \E product \in Products, mark \in Marks, mandate, contract \in BOOLEAN :
       \/ AskDesk(product, mark, mandate, contract)
       \/ QuoteAndSubmit(product, mark, mandate, contract)
  \/ DeskFails
  \/ Refused
  \/ \E alias \in DOMAIN aliases : SubmitQuoted(alias)
  \/ Skip

FinishStep ==
  \/ StartFinish
  \/ FinishPosition
  \/ StepRaises
  \/ \E capital \in Capitals : FinishAdvance(capital)
  \/ FinishEpisode

EnvNext == PolicyStep \/ FinishStep

EnvSpec == EnvInit /\ [][EnvNext]_vars

\* The last call raised, and no other has been made since.
Raised == phase = "failed" /\ ~ ends_round /\ ~ Done

\* The rollout loop calls step() until the episode is done or a call raised,
\* and a call runs to its end (run_agent_episode): some step is always taken
\* while one can be, and none is promised after a raise.
FairEnvSpec == EnvSpec /\ WF_vars(~ Raised /\ EnvNext)

-----------------------------------------------------------------------------
(* Properties.                                                             *)

BetweenSteps == ~ ends_round

\* The per-step wealth rewards add up: whatever mix of issues, settlements,
\* marks and external cashflows the steps contained, their sum is the change
\* of net liquidation wealth that is not external money.  A step that raised
\* gives no reward for what it has moved, so this is until the first one does.
RewardTelescopes ==
  BetweenSteps /\ phase # "failed" /\ retries = 0 =>
    /\ reward.client_utility = NetLiquidationWealth - client.initial_cash
         - client.external_inflows + client.external_outflows
    /\ reward.lifecycle_pnl = dealer.realised_hedged_pnl

\* What the observation offers is served: while a policy may act, the round is
\* not submitted, every public alias names a stored quote that has not
\* expired, and a quote left in the budget can be asked for.  After a step that
\* raised the observation still offers them, but the round is submitted: a
\* question is answered, a skip runs the month again, the rest is refused.
OfferedActionsAreServed ==
  CanStep /\ phase = "idle" =>
             /\ \A i \in DOMAIN aliases : \E q \in quotes : q.id = aliases[i] /\ CanSubmit(q)
             /\ quote_count < MaxQuotes => CanQuote

\* The alias map and the backend's quotes never drift apart: they name the same
\* quotes, one alias each, also after a quote the desk could not price.
AliasesMatchQuotes ==
  /\ { aliases[i] : i \in DOMAIN aliases } = { q.id : q \in quotes }
  /\ \A i, j \in DOMAIN aliases : aliases[i] = aliases[j] => i = j

\* What a driver of step() may rely on, as EpisodeProtocol states it.
Stage == CASE terminated -> "terminated"
           [] ~ terminated /\ truncated -> "truncated"
           [] ends_round /\ ~ Done -> "finishing"
           [] Raised -> "failed"
           [] OTHER -> "deciding"

Protocol == INSTANCE EpisodeProtocol WITH
  queries <- query_count, quoted <- quote_count, offers <- Len(aliases),
  accepted <- memory.accepted, stage <- Stage

\* The interface keeps its protocol: no budget is overdrawn, also by a call that
\* fails; only a step that submits or skips ends its round, and it is never cut
\* off; a new round starts with fresh budgets and no offers, and the horizon is
\* never a decision round.  And it makes the progress the protocol promises.
KeepsFairProtocol == Protocol!FairEpisodeSpec

\* Every episode ends: on the last snapshot, by the step limit, or with a step
\* that raised and after which none is called.
EpisodeEnds == <>[](Done \/ Raised)

=============================================================================
