------------------------------ MODULE EnvProofs ------------------------------
(***************************************************************************)
(* The step interface, StructurerEnv, drives the core: every behaviour of  *)
(* it is one of LongHorizon, so that what is proved of the core holds of   *)
(* it.  And the actions its observations offer are served.                 *)
(***************************************************************************)
EXTENDS StructurerEnv, LongHorizonProofs

\* Every step of the interface is a step of the core, or leaves it alone.
LEMMA EnvStepIsCoreStep == [EnvNext]_vars => [Next]_core
<1> SUFFICES ASSUME [EnvNext]_vars PROVE [Next]_core
  OBVIOUS
<1>1. ASSUME NEW topic \in Topics, AskClient(topic) PROVE [Next]_core
  BY <1>1 DEF AskClient, Next, Tool
<1>2. ASSUME NEW product \in Products, NEW mark \in Marks, NEW mandate \in BOOLEAN,
             NEW contract \in BOOLEAN, AskDesk(product, mark, mandate, contract)
      PROVE  [Next]_core
  BY <1>2 DEF AskDesk, Next, Tool
<1>3. ASSUME NEW product \in Products, NEW mark \in Marks, NEW mandate \in BOOLEAN,
             NEW contract \in BOOLEAN, QuoteAndSubmit(product, mark, mandate, contract)
      PROVE  [Next]_core
  BY <1>3 DEF QuoteAndSubmit, Next, Tool
<1>4. CASE DeskFails
  BY <1>4 DEF DeskFails, Next, Tool
<1>5. CASE Refused
  BY <1>5 DEF Refused
<1>6. ASSUME NEW alias \in DOMAIN aliases, SubmitQuoted(alias) PROVE [Next]_core
  BY <1>6 DEF SubmitQuoted, Next, Tool
<1>7. CASE Skip
  BY <1>7 DEF Skip, Next, Tool
<1>8. CASE StartFinish
  BY <1>8 DEF StartFinish, Next, Advance, Liquidate
<1>9. CASE FinishPosition
  BY <1>9 DEF FinishPosition, Next, Advance, Liquidate
<1>10. CASE StepRaises
  BY <1>10 DEF StepRaises, Next, Advance, Liquidate
<1>11. ASSUME NEW capital \in Capitals, FinishAdvance(capital) PROVE [Next]_core
  BY <1>11 DEF FinishAdvance, Next, Advance
<1>12. CASE FinishEpisode
  BY <1>12 DEF FinishEpisode, Next, Liquidate
<1>13. CASE UNCHANGED vars
  BY <1>13 DEF vars
<1> QED
  BY <1>1, <1>2, <1>3, <1>4, <1>5, <1>6, <1>7, <1>8, <1>9, <1>10, <1>11, <1>12, <1>13
  DEF EnvNext, PolicyStep, FinishStep

\* The step interface drives the core the way the core may be driven, whatever
\* actions a policy chooses and however they are refused or fail.
THEOREM EnvDrivesCore == EnvSpec => Spec
<1>1. EnvInit => Init
  BY DEF EnvInit
<1> QED BY <1>1, EnvStepIsCoreStep, PTL DEF EnvSpec, Spec

\* So the money of both accounts is accounted for,
THEOREM EnvBooksBalance == EnvSpec => []BooksBalance
  BY EnvDrivesCore, BooksAlwaysBalance, PTL

\* and every contract is settled once, also while a step is under way and after
\* one that raised.  If a policy goes on after a raise, which step() allows, the
\* step that runs the month again settles a contract at most once more.
THEOREM EnvSettlesOnce == EnvSpec => []SettledOnce
  BY EnvDrivesCore, EveryContractSettledOnce, PTL

\* Locked cash backs exactly the open contracts, and the ledger explains both
\* accounts, whatever a policy does before it has a month run again.
THEOREM EnvLedgerExplains == EnvSpec => [](LockedBacksActive /\ LedgerExplainsAccounts)
  BY EnvDrivesCore, LockedCashBacksContracts, LedgerAlwaysExplains, PTL

\* What a raise leaves alone, whichever of the loops it leaves.
LEMMA RaisingKeepsRound ==
  ASSUME AdvanceRaises \/ LiquidationRaises
  PROVE  UNCHANGED <<round, tools, retries>> /\ client'.initial_cash = client.initial_cash
<1>1. ASSUME NEW hedge \in HedgeMoves, RevaluationFails(hedge)
      PROVE  UNCHANGED <<round, tools, retries, client>>
  BY <1>1 DEF RevaluationFails, accounts
<1>2. ASSUME NEW exit, NEW mark, NEW hedge, NEW payoff,
             SettlementRaises(exit, mark, hedge, payoff)
      PROVE  UNCHANGED <<round, tools, retries, client>>
  BY <1>2 DEF SettlementRaises, SettlementRefused, accounts
<1>3. ASSUME LiquidationRaises
      PROVE  UNCHANGED <<round, tools, retries, client>>
  BY <1>3 DEF LiquidationRaises, SettlementRefused, accounts
<1> QED
  BY <1>1, <1>2, <1>3 DEF AdvanceRaises

-----------------------------------------------------------------------------
(* Aliases and offers.                                                     *)

\* A round may be acted in until it is submitted, unless a step has raised; its
\* aliases are its quotes, in the order of their numbers.
OffersInv ==
  /\ aliases \in Seq(QuoteId)
  /\ AliasesMatchQuotes
  /\ \A i \in DOMAIN aliases : aliases[i][1] = round /\ aliases[i][2] <= quote_count
  /\ phase = "idle" /\ ~ ends_round /\ ~ terminated => ~ submitted

\* Asking the desk adds the new quote's name to both sides.
LEMMA RegisterKeepsMatch ==
  ASSUME TypeOK, CanQuote, aliases \in Seq(QuoteId), AliasesMatchQuotes,
         \A i \in DOMAIN aliases : aliases[i][2] <= quote_count,
         NEW quote, quote.id = <<round, quote_count + 1>>,
         quotes' = quotes \cup {quote},
         RegisterQuote
  PROVE  /\ aliases' \in Seq(QuoteId)
         /\ AliasesMatchQuotes'
         /\ Len(aliases') = Len(aliases) + 1
         /\ aliases'[Len(aliases) + 1] = <<round, quote_count + 1>>
         /\ \A i \in DOMAIN aliases : aliases'[i] = aliases[i]
<1> DEFINE id == <<round, quote_count + 1>>
<1>1. id \in QuoteId /\ quote_count \in Nat
  BY DEF TypeOK, ToolsOK, QuoteId
<1>2. /\ aliases' = Append(aliases, id) /\ aliases' \in Seq(QuoteId)
      /\ Len(aliases') = Len(aliases) + 1
      /\ aliases'[Len(aliases) + 1] = id
      /\ \A i \in DOMAIN aliases : aliases'[i] = aliases[i]
      /\ DOMAIN aliases' = DOMAIN aliases \cup {Len(aliases) + 1}
  BY <1>1 DEF RegisterQuote
<1>3. id[2] = quote_count + 1
  OBVIOUS
<1>4. \A i \in DOMAIN aliases : aliases[i] \in QuoteId /\ aliases[i][2] \in Nat
  BY DEF QuoteId
<1>5. \A i \in DOMAIN aliases : aliases[i] # id
  BY <1>1, <1>3, <1>4
<1> HIDE DEF id
<1>6. { aliases'[i] : i \in DOMAIN aliases' } = { aliases[i] : i \in DOMAIN aliases } \cup {id}
  BY <1>2
<1>7. { q.id : q \in quotes' } = { q.id : q \in quotes } \cup {id}
  BY DEF id
<1>8. \A i, j \in DOMAIN aliases' : aliases'[i] = aliases'[j] => i = j
  BY <1>2, <1>5 DEF AliasesMatchQuotes
<1>9. AliasesMatchQuotes'
  BY <1>6, <1>7, <1>8 DEF AliasesMatchQuotes
<1> QED BY <1>2, <1>9 DEF id

\* An episode starts without an offer.
LEMMA InitOffers == EnvInit => OffersInv
<1> SUFFICES ASSUME EnvInit PROVE OffersInv
  OBVIOUS
<1>1. aliases = << >> /\ aliases \in Seq(QuoteId) /\ DOMAIN aliases = {}
  BY DEF EnvInit
<1>2. quotes = {} /\ phase = "idle" /\ ~ submitted
  BY DEF EnvInit, Init
<1>3. AliasesMatchQuotes
  BY <1>1, <1>2 DEF AliasesMatchQuotes
<1> QED BY <1>1, <1>2, <1>3 DEF OffersInv

\* A step that asks no quote of the desk and stays in its round or ends it.
LEMMA SameOffers ==
  ASSUME OffersInv, CanStep, UNCHANGED <<round, quotes, aliases, phase, terminated>>,
         quote_count \in Nat, quote_count' \in Nat, quote_count <= quote_count',
         ends_round' \/ UNCHANGED submitted,
         ends_round' = TRUE \/ UNCHANGED ends_round
  PROVE  OffersInv'
<1>1. AliasesMatchQuotes'
  BY DEF OffersInv, AliasesMatchQuotes
<1>2. \A i \in DOMAIN aliases : aliases[i][2] \in Nat
  BY DEF OffersInv, QuoteId
<1> QED BY <1>1, <1>2 DEF OffersInv, CanStep, Done

\* A step that was given a quote.
LEMMA NewOffer ==
  ASSUME TypeOK, OffersInv, CanStep, CanQuote, NEW quote,
         quote.id = <<round, quote_count + 1>>,
         quotes' = quotes \cup {quote}, quote_count' = quote_count + 1, RegisterQuote,
         UNCHANGED <<round, phase, terminated>>,
         ends_round' \/ UNCHANGED submitted,
         ends_round' = TRUE \/ UNCHANGED ends_round
  PROVE  OffersInv'
<1>1. quote_count \in Nat
  BY DEF TypeOK, ToolsOK
<1>2. \A i \in DOMAIN aliases : aliases[i][2] \in Nat
  BY DEF OffersInv, QuoteId
<1>3. /\ aliases' \in Seq(QuoteId)
      /\ AliasesMatchQuotes'
      /\ Len(aliases') = Len(aliases) + 1
      /\ aliases'[Len(aliases) + 1] = <<round, quote_count + 1>>
      /\ \A i \in DOMAIN aliases : aliases'[i] = aliases[i]
  BY RegisterKeepsMatch DEF OffersInv
<1>4. \A i \in DOMAIN aliases' : aliases'[i][1] = round' /\ aliases'[i][2] <= quote_count'
  <2> SUFFICES ASSUME NEW i \in DOMAIN aliases'
               PROVE  aliases'[i][1] = round' /\ aliases'[i][2] <= quote_count'
    OBVIOUS
  <2>1. CASE i = Len(aliases) + 1
    BY <2>1, <1>1, <1>3
  <2>2. CASE i # Len(aliases) + 1
    <3>1. i \in DOMAIN aliases
      BY <2>2, <1>3 DEF OffersInv
    <3> QED BY <3>1, <1>1, <1>2, <1>3 DEF OffersInv
  <2> QED BY <2>1, <2>2
<1> QED BY <1>3, <1>4 DEF OffersInv, CanStep, Done

\* Every call of the step interface keeps what the offers stand for.
LEMMA NextOffers == TypeOK /\ OffersInv /\ [EnvNext]_vars => OffersInv'
<1> SUFFICES ASSUME TypeOK, OffersInv, [EnvNext]_vars PROVE OffersInv'
  OBVIOUS
<1>0. quote_count \in Nat
  BY DEF TypeOK, ToolsOK
<1>1. ASSUME NEW topic \in Topics, AskClient(topic) PROVE OffersInv'
  BY <1>0, <1>1, SameOffers DEF AskClient, QueryClient, StayInRound, loop
<1>2. ASSUME NEW product \in Products, NEW mark \in Marks, NEW mandate \in BOOLEAN,
             NEW contract \in BOOLEAN, AskDesk(product, mark, mandate, contract)
      PROVE  OffersInv'
  <2> DEFINE quote == Quote(product, mark, mandate, contract)
  <2>1. quote.id = <<round, quote_count + 1>>
    BY DEF Quote
  <2>2. /\ CanStep /\ CanQuote /\ RegisterQuote
        /\ quotes' = quotes \cup {quote} /\ quote_count' = quote_count + 1
        /\ UNCHANGED <<round, phase, terminated, submitted, ends_round>>
    BY <1>2 DEF AskDesk, RequestQuote, StayInRound, loop
  <2> HIDE DEF quote
  <2> QED BY <2>1, <2>2, NewOffer
<1>3. ASSUME NEW product \in Products, NEW mark \in Marks, NEW mandate \in BOOLEAN,
             NEW contract \in BOOLEAN, QuoteAndSubmit(product, mark, mandate, contract)
      PROVE  OffersInv'
  <2> DEFINE quote == Quote(product, mark, mandate, contract)
  <2>1. quote.id = <<round, quote_count + 1>>
    BY DEF Quote
  <2>2. /\ CanStep /\ CanQuote /\ RegisterQuote
        /\ quotes' = quotes \cup {quote} /\ quote_count' = quote_count + 1
        /\ UNCHANGED <<round, phase, terminated>> /\ ends_round' = TRUE
    BY <1>3 DEF QuoteAndSubmit, SubmitProduct, EndRound, loop
  <2> HIDE DEF quote
  <2> QED BY <2>1, <2>2, NewOffer
<1>4. CASE DeskFails
  BY <1>0, <1>4, SameOffers DEF DeskFails, QuoteNotConverged, StayInRound, public, loop
<1>5. CASE Refused
  BY <1>0, <1>5, SameOffers DEF Refused, StayInRound, public, core, tools, loop
<1>6. ASSUME NEW alias \in DOMAIN aliases, SubmitQuoted(alias) PROVE OffersInv'
  BY <1>0, <1>6, SameOffers DEF SubmitQuoted, SubmitDesign, EndRound, loop
<1>7. CASE Skip
  BY <1>0, <1>7, SameOffers DEF Skip, CloseRound, EndRound, loop
<1>8. CASE StartFinish \/ FinishPosition \/ StepRaises
  <2>1. UNCHANGED <<round, quotes, quote_count, aliases>>
    BY <1>8, RaisingKeepsRound DEF StartFinish, BeginAdvance, BeginLiquidation, FinishPosition,
      ObserveNextPosition, AdvancePosition, LiquidatePosition, StepRaises, spine, tools, public
  <2>2. phase' # "idle"
    BY <1>8, RaisingFails DEF StartFinish, BeginAdvance, BeginLiquidation, Begin, FinishPosition,
      ObserveNextPosition, AdvancePosition, LiquidatePosition, StepRaises, AtPosition
  <2>3. AliasesMatchQuotes'
    BY <2>1 DEF OffersInv, AliasesMatchQuotes
  <2> QED BY <2>1, <2>2, <2>3 DEF OffersInv
<1>9. ASSUME NEW capital \in Capitals, FinishAdvance(capital) PROVE OffersInv'
  <2>1. aliases' = << >> /\ aliases' \in Seq(QuoteId) /\ DOMAIN aliases' = {}
    BY <1>9 DEF FinishAdvance
  <2>2. quotes' = {} /\ phase' = "idle" /\ ~ submitted'
    BY <1>9 DEF FinishAdvance, CompleteAdvance, FreshTools
  <2>3. AliasesMatchQuotes'
    BY <2>1, <2>2 DEF AliasesMatchQuotes
  <2> QED BY <2>1, <2>2, <2>3 DEF OffersInv
<1>10. CASE FinishEpisode
  <2>1. UNCHANGED <<round, quotes, quote_count, aliases>> /\ terminated' = TRUE /\ phase' = "closed"
    BY <1>10 DEF FinishEpisode, CompleteLiquidation, tools, public
  <2>2. AliasesMatchQuotes'
    BY <2>1 DEF OffersInv, AliasesMatchQuotes
  <2> QED BY <2>1, <2>2 DEF OffersInv
<1>11. CASE UNCHANGED vars
  BY <1>11 DEF vars, core, tools, loop, spine, public, OffersInv, AliasesMatchQuotes
<1> QED
  BY <1>1, <1>2, <1>3, <1>4, <1>5, <1>6, <1>7, <1>8, <1>9, <1>10, <1>11
  DEF EnvNext, PolicyStep, FinishStep

\* What is offered can be submitted: the round is open, and by QuotesStayFresh
\* the quote behind an alias is still bound to the present state.
LEMMA FreshOffersAreServed ==
  OffersInv /\ QuotesStayFresh => OfferedActionsAreServed
<1> SUFFICES ASSUME OffersInv, QuotesStayFresh, CanStep, phase = "idle"
             PROVE  /\ \A i \in DOMAIN aliases : \E q \in quotes : q.id = aliases[i] /\ CanSubmit(q)
                    /\ quote_count < MaxQuotes => CanQuote
  BY DEF OfferedActionsAreServed
<1>1. phase = "idle" /\ ~ submitted
  BY DEF CanStep, Done, OffersInv
<1>3. Ready
  BY DEF CanStep
<1>2. \A i \in DOMAIN aliases : \E q \in quotes : q.id = aliases[i]
  <2>1. \A i \in DOMAIN aliases : aliases[i] \in { q.id : q \in quotes }
    BY DEF OffersInv, AliasesMatchQuotes
  <2> QED BY <2>1
<1> QED BY <1>1, <1>2, <1>3 DEF QuotesStayFresh, CanSubmit, CanQuote

\* For any budgets, products and prices: the public aliases and the desk's
\* stored quotes name the same quotes,
THEOREM AliasesAlwaysMatch == EnvSpec => []AliasesMatchQuotes
<1>1. EnvSpec => []OffersInv
  BY EnvDrivesCore, TypeCorrect, InitOffers, NextOffers, PTL DEF EnvSpec
<1>2. OffersInv => AliasesMatchQuotes
  BY DEF OffersInv
<1> QED BY <1>1, <1>2, PTL

\* and whatever an observation offers can be done, unless a step has raised.
THEOREM OffersAreServed == EnvSpec => []OfferedActionsAreServed
<1>1. EnvSpec => []OffersInv
  BY EnvDrivesCore, TypeCorrect, InitOffers, NextOffers, PTL DEF EnvSpec
<1>2. EnvSpec => []QuotesStayFresh
  BY EnvDrivesCore, QuotesNeverExpire, PTL
<1> QED BY <1>1, <1>2, FreshOffersAreServed, PTL

-----------------------------------------------------------------------------
(* Rewards.  Between steps the two totals are what the accounts say; while *)
(* a step that ends its round is under way they are what the accounts said *)
(* when it began, which `before` remembers.                                *)

EconomyType ==
  [ wealth : Int, inflows : Int, outflows : Int, hedged : Int, events : Nat,
    accepted : BOOLEAN ]

\* No step has raised.
Unbroken == phase # "failed" /\ retries = 0

Rewarded ==
  /\ reward.client_utility = NetLiquidationWealth - client.initial_cash
       - client.external_inflows + client.external_outflows
  /\ reward.lifecycle_pnl = dealer.realised_hedged_pnl

RewardPending ==
  /\ reward.client_utility
       = before.wealth - client.initial_cash - before.inflows + before.outflows
  /\ reward.lifecycle_pnl = before.hedged
  /\ before.events <= Len(events)
  /\ Len(events) = before.events => dealer.realised_hedged_pnl = before.hedged

RewardInv ==
  /\ before \in EconomyType
  /\ phase \in {"advancing", "liquidating"} => ends_round
  /\ Unbroken => IF ends_round THEN RewardPending ELSE Rewarded

WholeAmounts ==
  /\ NetLiquidationWealth \in Int
  /\ client.initial_cash \in Int
  /\ client.external_inflows \in Int
  /\ client.external_outflows \in Int
  /\ dealer.realised_hedged_pnl \in Int
  /\ Len(events) \in Nat

\* What the rewards are computed from are whole amounts.
LEMMA EconomyIsWhole ==
  ASSUME AccountsOK, PortfolioOK
  PROVE  WholeAmounts
<1> DEFINE values == [i \in DOMAIN positions |-> positions[i].fair_value]
<1>1. /\ Len(positions) \in Nat /\ DOMAIN positions = 1 .. Len(positions)
      /\ \A i \in DOMAIN positions : positions[i] \in PositionRecord
  BY PositionsDomain
<1>2. values \in [1 .. Len(positions) -> Int] /\ \A i \in 1 .. Len(positions) : values[i] \in Int
  BY <1>1 DEF PositionRecord
<1>3. ActiveFairValue = SumOf(values)
  BY DEF ActiveFairValue
<1> HIDE DEF values
<1>4. ActiveFairValue \in Int
  BY <1>1, <1>2, <1>3, SumOfList, SumType
<1>5. Len(events) \in Nat
  BY EventsDomain
<1>6. /\ client.available_cash \in Int /\ client.initial_cash \in Int
      /\ client.external_inflows \in Int /\ client.external_outflows \in Int
  BY DEF AccountsOK, ClientAccount
<1>7. dealer.realised_hedged_pnl \in Int
  BY DEF AccountsOK, DealerAccount
<1>8. NetLiquidationWealth \in Int
  BY <1>4, <1>6 DEF NetLiquidationWealth
<1> QED
  BY <1>5, <1>6, <1>7, <1>8 DEF WholeAmounts

\* What a step compares with is of that kind too.
LEMMA EconomyHasType ==
  ASSUME AccountsOK, PortfolioOK, NEW accepted \in BOOLEAN
  PROVE  Economy(accepted) \in EconomyType
  BY EconomyIsWhole DEF WholeAmounts, Economy, EconomyType

\* The wealth is that of the accounts and the contracts.
LEMMA SameWealth ==
  ASSUME UNCHANGED <<client, positions>>
  PROVE  NetLiquidationWealth' = NetLiquidationWealth
  BY DEF NetLiquidationWealth, ActiveFairValue

\* A step that stays in its round gives no reward: it moves no money.
LEMMA StayingIsWorthNothing ==
  ASSUME TypeOK, RewardInv, CanStep,
         UNCHANGED <<client, dealer, positions, events, phase, retries>>,
         NEW valid, StayInRound(valid)
  PROVE  RewardInv'
<1>0. /\ ~ ends_round /\ UNCHANGED <<ends_round, before>> /\ Unbroken' = Unbroken
      /\ phase \notin {"advancing", "liquidating"}
  BY DEF CanStep, Ready, StayInRound, Unbroken
<1> SUFFICES ASSUME Unbroken PROVE Rewarded'
  BY <1>0 DEF RewardInv
<1>1. /\ NetLiquidationWealth' = NetLiquidationWealth
      /\ NetLiquidationWealth \in Int
      /\ client.external_inflows \in Int /\ client.external_outflows \in Int
      /\ client.initial_cash \in Int /\ dealer.realised_hedged_pnl \in Int
      /\ Len(events) \in Nat
  BY SameWealth, EconomyIsWhole DEF WholeAmounts, TypeOK
<1>3. /\ reward.client_utility = NetLiquidationWealth - client.initial_cash
           - client.external_inflows + client.external_outflows
      /\ reward.lifecycle_pnl = dealer.realised_hedged_pnl
  BY <1>0 DEF RewardInv, Rewarded
<1>4. reward.client_utility \in Int /\ reward.lifecycle_pnl \in Int
  BY <1>1, <1>3
<1>5. /\ reward'.client_utility = reward.client_utility
           + (NetLiquidationWealth' - NetLiquidationWealth)
           - (client'.external_inflows - client.external_inflows)
           + (client'.external_outflows - client.external_outflows)
      /\ reward'.lifecycle_pnl = reward.lifecycle_pnl
           + IF Len(events') > Len(events)
             THEN dealer'.realised_hedged_pnl - dealer.realised_hedged_pnl ELSE 0
  BY DEF StayInRound, GiveReward, Economy
<1>6. /\ reward'.client_utility = reward.client_utility
      /\ reward'.lifecycle_pnl = reward.lifecycle_pnl
  BY <1>1, <1>4, <1>5
<1> QED
  BY <1>1, <1>3, <1>6 DEF Rewarded

\* A step that ends its round remembers what there was before it.
LEMMA EndingRemembers ==
  ASSUME TypeOK, RewardInv, CanStep, NEW accepted \in BOOLEAN, EndRound(accepted),
         UNCHANGED <<events, phase, retries>>,
         client'.initial_cash = client.initial_cash,
         dealer'.realised_hedged_pnl = dealer.realised_hedged_pnl
  PROVE  RewardInv'
<1>1. Len(events) \in Nat /\ Economy(accepted) \in EconomyType
  BY EconomyIsWhole, EconomyHasType DEF WholeAmounts, TypeOK
<1>2. /\ ~ ends_round
      /\ ends_round' = TRUE /\ before' = Economy(accepted) /\ reward' = reward
      /\ Unbroken' = Unbroken
  BY DEF CanStep, EndRound, result, Unbroken
<1> SUFFICES ASSUME Unbroken PROVE RewardPending'
  BY <1>1, <1>2 DEF RewardInv
<1>3. /\ reward.client_utility = NetLiquidationWealth - client.initial_cash
           - client.external_inflows + client.external_outflows
      /\ reward.lifecycle_pnl = dealer.realised_hedged_pnl
  BY <1>2 DEF RewardInv, Rewarded
<1>4. /\ before'.wealth = NetLiquidationWealth
      /\ before'.inflows = client.external_inflows
      /\ before'.outflows = client.external_outflows
      /\ before'.hedged = dealer.realised_hedged_pnl
      /\ before'.events = Len(events)
  BY <1>2 DEF Economy
<1> QED
  BY <1>1, <1>2, <1>3, <1>4 DEF RewardPending

\* A change in wealth, added to what the wealth was, in whole amounts.
LEMMA ChangesTelescope ==
  ASSUME NEW w \in Int, NEW i \in Int, NEW o \in Int, NEW c \in Int,
         NEW W \in Int, NEW I \in Int, NEW O \in Int
  PROVE  (w - c - i + o) + (W - w) - (I - i) + (O - o) = W - c - I + O
  OBVIOUS

\* Its reward is what has changed since, and the sums are right again.
LEMMA ClosingGivesReward ==
  ASSUME TypeOK, WholeAmounts', RewardInv, ends_round,
         phase' \notin {"advancing", "liquidating"},
         CloseStep, UNCHANGED <<dealer, events, before>>, Unbroken' => Unbroken,
         client'.initial_cash = client.initial_cash
  PROVE  RewardInv'
<1>0. ends_round' = FALSE
  BY DEF CloseStep
<1> SUFFICES ASSUME Unbroken PROVE Rewarded'
  BY <1>0 DEF RewardInv
<1>1. /\ NetLiquidationWealth' \in Int
      /\ client'.external_inflows \in Int /\ client'.external_outflows \in Int
  BY DEF WholeAmounts
<1>2. client.initial_cash \in Int /\ dealer.realised_hedged_pnl \in Int /\ Len(events) \in Nat
  BY EconomyIsWhole DEF WholeAmounts, TypeOK
<1>3. /\ before.wealth \in Int /\ before.inflows \in Int /\ before.outflows \in Int
      /\ before.hedged \in Int /\ before.events \in Nat
  BY DEF RewardInv, EconomyType
<1>4. /\ reward.client_utility
           = before.wealth - client.initial_cash - before.inflows + before.outflows
      /\ reward.lifecycle_pnl = before.hedged
      /\ before.events <= Len(events)
      /\ Len(events) = before.events => dealer.realised_hedged_pnl = before.hedged
  BY DEF RewardInv, RewardPending
<1>5. /\ reward'.client_utility = reward.client_utility
           + (NetLiquidationWealth' - before.wealth)
           - (client'.external_inflows - before.inflows)
           + (client'.external_outflows - before.outflows)
      /\ reward'.lifecycle_pnl = reward.lifecycle_pnl
           + IF Len(events') > before.events
             THEN dealer'.realised_hedged_pnl - before.hedged ELSE 0
  BY DEF CloseStep, GiveReward
<1>6. reward'.client_utility = NetLiquidationWealth' - client'.initial_cash
        - client'.external_inflows + client'.external_outflows
  <2>1. reward'.client_utility
          = (before.wealth - client.initial_cash - before.inflows + before.outflows)
            + (NetLiquidationWealth' - before.wealth)
            - (client'.external_inflows - before.inflows)
            + (client'.external_outflows - before.outflows)
    BY <1>4, <1>5
  <2>2. client'.initial_cash = client.initial_cash
    OBVIOUS
  <2> DEFINE w == before.wealth
             i == before.inflows
             o == before.outflows
             c == client.initial_cash
             W == NetLiquidationWealth'
             I == client'.external_inflows
             O == client'.external_outflows
  <2>3. /\ w \in Int /\ i \in Int /\ o \in Int /\ c \in Int
        /\ W \in Int /\ I \in Int /\ O \in Int
    BY <1>1, <1>2, <1>3
  <2>4. reward'.client_utility = (w - c - i + o) + (W - w) - (I - i) + (O - o)
    BY <2>1
  <2>5. client'.initial_cash = c
    BY <2>2
  <2> HIDE DEF w, i, o, c, W, I, O
  <2>6. (w - c - i + o) + (W - w) - (I - i) + (O - o) = W - c - I + O
    BY <2>3, ChangesTelescope
  <2>7. reward'.client_utility = W - c - I + O
    BY <2>4, <2>6
  <2> QED BY <2>5, <2>7 DEF W, I, O
<1>7. reward'.lifecycle_pnl = dealer'.realised_hedged_pnl
  <2>1. CASE Len(events) > before.events
    BY <1>2, <1>3, <1>4, <1>5, <2>1
  <2>2. CASE ~ (Len(events) > before.events)
    BY <1>2, <1>3, <1>4, <1>5, <2>2
  <2> QED BY <2>1, <2>2
<1> QED
  BY <1>6, <1>7 DEF Rewarded

\* The loop of a step that is under way: contracts close one by one, and each
\* adds an event.
LEMMA LoopKeepsRewards ==
  ASSUME TypeOK, RewardInv, ends_round, UNCHANGED <<reward, before, ends_round>>,
         Unbroken' => Unbroken,
         client'.initial_cash = client.initial_cash,
         \/ UNCHANGED <<dealer, events>>
         \/ Len(events') = Len(events) + 1
  PROVE  RewardInv'
<1> SUFFICES ASSUME Unbroken PROVE RewardPending'
  BY DEF RewardInv
<1>1. Len(events) \in Nat /\ before.events \in Nat
  BY EconomyIsWhole DEF WholeAmounts, TypeOK, RewardInv, EconomyType
<1>2. RewardPending
  BY DEF RewardInv
<1>3. /\ before.events <= Len(events')
      /\ Len(events') = before.events => dealer'.realised_hedged_pnl = before.hedged
  BY <1>1, <1>2 DEF RewardPending
<1> QED
  BY <1>2, <1>3 DEF RewardPending

\* No settlement changes the cash an episode began with.
LEMMA SettlementKeepsInitialCash ==
  ASSUME AccountsOK, PortfolioOK, LoopOK, NEW p \in PositionRecord, NEW payoff \in Int,
         SettleEvent(ClosingEvent(p, payoff))
  PROVE  client'.initial_cash = client.initial_cash /\ Len(events') = Len(events) + 1
<1>1. client' = SettleClient(client, ClosingEvent(p, payoff).outlay, ClosingEvent(p, payoff).settlement)
  BY DEF SettleEvent
<1>2. client'.initial_cash = client.initial_cash
  BY <1>1 DEF SettleClient, AccountsOK, ClientAccount
<1>4. retries \in Nat
  BY DEF LoopOK
<1>3. Len(events') = Len(events) + 1
  BY <1>4, ClosingEventType, AppendProperties DEF SettleEvent, RecordEvent, PortfolioOK
<1> QED
  BY <1>2, <1>3

\* The invariant holds initially,
LEMMA InitRewardInv == EnvInit => RewardInv
<1> SUFFICES ASSUME EnvInit PROVE RewardInv
  OBVIOUS
<1>1. Init /\ TypeOK
  BY InitTypeInv DEF EnvInit, TypeInv
<1>2. before \in EconomyType
  BY <1>1, EconomyHasType DEF EnvInit, TypeOK
<1>3. PICK cash \in Nat : client = OpenClient(cash)
  BY <1>1, MoneyAssumption DEF Init
<1>4. ActiveFairValue = 0
  <2> DEFINE values == [i \in DOMAIN positions |-> positions[i].fair_value]
  <2>1. values \in [1 .. 0 -> Int] /\ ActiveFairValue = SumOf(values)
    BY <1>1 DEF Init, ActiveFairValue
  <2> HIDE DEF values
  <2> QED BY <2>1, SumOfList, SumStep
<1>5. /\ NetLiquidationWealth = cash /\ client.initial_cash = cash
      /\ client.external_inflows = 0 /\ client.external_outflows = 0
  BY <1>3, <1>4 DEF NetLiquidationWealth, OpenClient
<1>6. dealer.realised_hedged_pnl = 0
  BY <1>1 DEF Init, OpenDealer
<1>7. Rewarded
  BY <1>5, <1>6 DEF EnvInit, Rewarded
<1> QED
  BY <1>1, <1>2, <1>7 DEF EnvInit, Init, RewardInv

\* a submission leaves the opening cash and the hedged result alone,
LEMMA SubmissionRealisesNothing ==
  ASSUME TypeOK, NEW quote, QuoteOK(quote), Settle(quote)
  PROVE  /\ UNCHANGED events
         /\ client'.initial_cash = client.initial_cash
         /\ dealer'.realised_hedged_pnl = dealer.realised_hedged_pnl
<1>1. CASE UNCHANGED <<accounts, events>>
  BY <1>1 DEF accounts
<1>2. CASE Issued
  BY <1>2 DEF Issued, IssueClient, IssueDealer, TypeOK, AccountsOK, ClientAccount, DealerAccount
<1> QED
  BY <1>1, <1>2, SettleMoves

\* and every step keeps the invariant.
LEMMA NextRewardInv ==
  ASSUME TypeInv, WholeAmounts', RewardInv, [EnvNext]_vars
  PROVE  RewardInv'
<1> USE DEF TypeInv, tools, accounts, portfolio, loop
<1>1. ASSUME NEW topic \in Topics, AskClient(topic) PROVE RewardInv'
  BY <1>1, StayingIsWorthNothing DEF AskClient, QueryClient
<1>2. ASSUME NEW product \in Products, NEW mark \in Marks, NEW mandate \in BOOLEAN,
             NEW contract \in BOOLEAN, AskDesk(product, mark, mandate, contract)
      PROVE  RewardInv'
  BY <1>2, StayingIsWorthNothing DEF AskDesk, RequestQuote
<1>3. CASE DeskFails
  BY <1>3, StayingIsWorthNothing DEF DeskFails, QuoteNotConverged
<1>4. CASE Refused
  BY <1>4, StayingIsWorthNothing DEF Refused, core
<1>5. ASSUME NEW product \in Products, NEW mark \in Marks, NEW mandate \in BOOLEAN,
             NEW contract \in BOOLEAN, QuoteAndSubmit(product, mark, mandate, contract)
      PROVE  RewardInv'
  <2> DEFINE quote == Quote(product, mark, mandate, contract)
  <2>1. /\ CanStep /\ EndRound(Accepted(quote)) /\ Settle(quote)
        /\ UNCHANGED <<phase, retries>> /\ QuoteOK(quote)
    BY <1>5, QuoteType DEF QuoteAndSubmit, SubmitProduct
  <2> HIDE DEF quote
  <2>2. Accepted(quote) \in BOOLEAN
    BY DEF Accepted
  <2> QED
    BY <2>1, <2>2, SubmissionRealisesNothing, EndingRemembers
<1>6. ASSUME NEW alias \in DOMAIN aliases, SubmitQuoted(alias) PROVE RewardInv'
  <2>1. PICK quote \in quotes : /\ CanStep /\ EndRound(Accepted(quote)) /\ Settle(quote)
                                /\ UNCHANGED <<phase, retries>>
    BY <1>6 DEF SubmitQuoted, SubmitDesign
  <2>2. QuoteOK(quote) /\ Accepted(quote) \in BOOLEAN
    BY DEF TypeOK, ToolsOK, Accepted
  <2> QED
    BY <2>1, <2>2, SubmissionRealisesNothing, EndingRemembers
<1>7. CASE Skip
  BY <1>7, EndingRemembers DEF Skip, CloseRound
<1>8. CASE StartFinish
  <2>1. /\ UNCHANGED <<client, dealer, events, reward, before, ends_round>> /\ ends_round
        /\ (phase = "failed" => retries' = retries + 1)
        /\ (phase # "failed" => retries' = retries)
    BY <1>8 DEF StartFinish, BeginAdvance, BeginLiquidation, Begin, spine, result
  <2>2. retries \in Nat
    BY DEF TypeOK, LoopOK
  <2>3. Unbroken' => Unbroken
    BY <2>1, <2>2 DEF Unbroken
  <2> QED
    BY <2>1, <2>3, LoopKeepsRewards
<1>13. CASE StepRaises
  <2>1. phase' = "failed" /\ UNCHANGED before
    BY <1>13, RaisingFails DEF StepRaises
  <2> QED
    BY <2>1 DEF RewardInv, Unbroken
<1>9. CASE FinishPosition
  <2>1. UNCHANGED <<reward, before, ends_round>>
    BY <1>9 DEF FinishPosition, spine, result
  <2>2. ends_round /\ UNCHANGED <<phase, retries>>
    BY <1>9 DEF FinishPosition, ObserveNextPosition, AdvancePosition, LiquidatePosition,
                AtPosition, RewardInv
  <2>6. Unbroken' => Unbroken
    BY <2>2 DEF Unbroken
  <2>3. ASSUME NEW exit \in {"none"} \cup EarlyExits, NEW mark \in Marks,
               NEW hedge \in HedgeMoves, NEW payoff \in Payoffs,
               AdvancePosition(exit, mark, hedge, payoff)
        PROVE  /\ client'.initial_cash = client.initial_cash
               /\ UNCHANGED <<dealer, events>> \/ Len(events') = Len(events) + 1
    <3> DEFINE p == Observed(positions[cursor], exit, mark, hedge)
    <3>1. p \in PositionRecord /\ payoff \in Int
      <4>1. positions[cursor] \in PositionRecord
        BY <2>3, AtPositionType DEF AdvancePosition, TypeOK
      <4>2. mark \in Mark /\ hedge \in Int /\ payoff \in Int
        BY ContractAssumption, MoneyAssumption
      <4> QED
        BY <4>1, <4>2, ObservedType DEF TypeOK
    <3>2. UNCHANGED <<client, dealer, events>> \/ SettleEvent(ClosingEvent(p, payoff))
      BY <2>3 DEF AdvancePosition
    <3> HIDE DEF p
    <3> QED
      BY <3>1, <3>2, SettlementKeepsInitialCash DEF TypeOK
  <2>4. ASSUME LiquidatePosition
        PROVE  client'.initial_cash = client.initial_cash /\ Len(events') = Len(events) + 1
    <3> DEFINE p == [positions[cursor] EXCEPT !.status = "horizon_liquidated"]
    <3>1. positions[cursor] \in PositionRecord
      BY <2>4, AtPositionType DEF LiquidatePosition, TypeOK
    <3>2. p \in PositionRecord /\ p.fair_value \in Int
      BY <3>1 DEF PositionRecord, Statuses
    <3>3. SettleEvent(ClosingEvent(p, p.fair_value))
      BY <2>4 DEF LiquidatePosition
    <3> HIDE DEF p
    <3> QED
      BY <3>2, <3>3, SettlementKeepsInitialCash DEF TypeOK
  <2>5. /\ client'.initial_cash = client.initial_cash
        /\ UNCHANGED <<dealer, events>> \/ Len(events') = Len(events) + 1
    BY <1>9, <2>3, <2>4 DEF FinishPosition, ObserveNextPosition
  <2> QED
    BY <2>1, <2>2, <2>5, <2>6, LoopKeepsRewards
<1>10. ASSUME NEW capital \in Capitals, FinishAdvance(capital) PROVE RewardInv'
  <2>1. /\ ends_round /\ phase = "advancing" /\ phase' = "idle"
        /\ UNCHANGED <<dealer, events, before, retries>>
        /\ client' = ReconcileClient(client, capital)
    BY <1>10 DEF FinishAdvance, CompleteAdvance, RewardInv
  <2>2. client'.initial_cash = client.initial_cash
    BY <2>1 DEF ReconcileClient, TypeOK, AccountsOK, ClientAccount
  <2>5. Unbroken' => Unbroken
    BY <2>1 DEF Unbroken
  <2>3. CASE CloseStep
    BY <2>1, <2>2, <2>3, <2>5, ClosingGivesReward DEF TypeOK
  <2>4. CASE UNCHANGED <<ends_round, result>>
    BY <2>1, <2>2, <2>4, <2>5, LoopKeepsRewards DEF result
  <2> QED
    BY <1>10, <2>3, <2>4 DEF FinishAdvance
<1>11. CASE FinishEpisode
  <2>1. /\ ends_round /\ phase = "liquidating" /\ phase' = "closed"
        /\ UNCHANGED <<client, dealer, events, before, retries>>
        /\ CloseStep
    BY <1>11 DEF FinishEpisode, CompleteLiquidation, RewardInv
  <2>2. Unbroken' => Unbroken
    BY <2>1 DEF Unbroken
  <2> QED
    BY <2>1, <2>2, ClosingGivesReward DEF TypeOK
<1>12. CASE UNCHANGED vars
  <2>1. /\ UNCHANGED <<client, dealer, positions, events, phase, retries>>
        /\ UNCHANGED <<reward, before, ends_round>>
        /\ NetLiquidationWealth' = NetLiquidationWealth
    BY <1>12, SameWealth DEF vars, core, spine, result
  <2> QED
    BY <2>1 DEF RewardInv, Unbroken, Rewarded, RewardPending
<1> QED
  BY <1>1, <1>2, <1>3, <1>4, <1>5, <1>6, <1>7, <1>8, <1>9, <1>10, <1>11, <1>12, <1>13
  DEF EnvNext, PolicyStep, FinishStep

\* The rewards add up, for any number of rounds, contracts and capital changes:
\* until a step raises, their sum is the change of the client's wealth that is
\* not external money, and the dealer's hedged result.
THEOREM RewardsTelescope == EnvSpec => []RewardTelescopes
<1>1. EnvSpec => []TypeInv
  <2>1. Spec => []TypeInv
    BY InitTypeInv, NextTypeInv, PTL DEF Spec
  <2> QED BY <2>1, EnvDrivesCore, PTL
<1>2. TypeInv => WholeAmounts
  BY EconomyIsWhole DEF TypeInv, TypeOK
<1>3. RewardInv => RewardTelescopes
  BY DEF RewardInv, Unbroken, Rewarded, RewardTelescopes, BetweenSteps
<1> QED
  BY <1>1, <1>2, <1>3, InitRewardInv, NextRewardInv, PTL DEF EnvSpec

-----------------------------------------------------------------------------
(* The interface implements the protocol its drivers rely on: the actions  *)
(* map to the protocol's one by one, and the loop over the contracts is    *)
(* invisible there.                                                        *)

\* Which stages a state of the interface may be in: a stopped episode has
\* stopped in one way only, so that no two cases of Stage overlap.
StageInv ==
  /\ round_step \in Nat
  /\ ends_round \in BOOLEAN /\ terminated \in BOOLEAN /\ truncated \in BOOLEAN
  /\ ends_round => ~ Done
  /\ phase \in {"advancing", "liquidating"} => ends_round
  /\ phase = "liquidating" => round = Rounds
  /\ phase = "closed" => terminated
  /\ ~ (terminated /\ truncated)

\* A step that stays in its round,
LEMMA StayingStep ==
  ASSUME StageInv, CanStep, UNCHANGED phase, NEW valid, StayInRound(valid)
  PROVE  StageInv' /\ Protocol!Stay
<1>1. /\ round_step' = round_step + 1 /\ step_index' = step_index + 1
      /\ truncated' = (round_step + 1 >= MaxSteps)
      /\ UNCHANGED <<ends_round, terminated>>
      /\ ~ ends_round /\ ~ terminated /\ ~ truncated
      /\ phase \in {"idle", "failed"} /\ phase' = phase
  BY DEF StayInRound, CanStep, Ready, Done
<1>2. StageInv'
  BY <1>1 DEF StageInv, Done
<1>3. Stage = IF phase = "failed" THEN "failed" ELSE "deciding"
  BY <1>1 DEF Stage, Raised, Done
<1>4. Stage' = IF round_step + 1 < MaxSteps THEN Stage ELSE "truncated"
  <2>1. round_step \in Nat /\ MaxSteps \in Nat
    BY SpineAssumption DEF StageInv
  <2>2. (round_step + 1 >= MaxSteps) = ~ (round_step + 1 < MaxSteps)
    BY <2>1
  <2>3. CASE round_step + 1 < MaxSteps
    <3>1. (round_step + 1 >= MaxSteps) = FALSE
      BY <2>2, <2>3
    <3>2. ~ truncated'
      BY <1>1, <3>1, Zenon
    <3> QED BY <1>1, <1>3, <2>3, <3>2 DEF Stage, Raised, Done
  <2>4. CASE ~ (round_step + 1 < MaxSteps)
    <3>1. (round_step + 1 >= MaxSteps) = TRUE
      BY <2>2, <2>4
    <3>2. truncated'
      BY <1>1, <3>1, Zenon
    <3>3. ~ terminated'
      BY <1>1
    <3>4. Stage' = "truncated"
      BY <3>2, <3>3 DEF Stage, Raised, Done
    <3> QED BY <2>4, <3>4
  <2> QED BY <2>3, <2>4
<1> QED
  BY <1>1, <1>2, <1>3, <1>4 DEF Protocol!Stay, Protocol!Take

\* and one that ends it.
LEMMA EndingStep ==
  ASSUME StageInv, CanStep, UNCHANGED phase, NEW accept, EndRound(accept)
  PROVE  StageInv' /\ Protocol!Take("finishing")
<1>1. /\ round_step' = round_step + 1 /\ step_index' = step_index + 1
      /\ ends_round' = TRUE
      /\ UNCHANGED <<terminated, truncated>>
      /\ ~ ends_round /\ ~ terminated /\ ~ truncated
      /\ phase \in {"idle", "failed"} /\ phase' = phase
  BY DEF EndRound, CanStep, Ready, Done
<1>2. StageInv'
  BY <1>1 DEF StageInv, Done
<1>3. Stage \in {"deciding", "failed"} /\ Stage' = "finishing"
  BY <1>1 DEF Stage, Raised, Done
<1> QED
  BY <1>1, <1>2, <1>3 DEF Protocol!Take

\* What a submission adds to the client's memory.
LEMMA SubmissionIsCounted ==
  ASSUME TypeOK, NEW quote, Settle(quote)
  PROVE  memory'.accepted = IF Accepted(quote) THEN memory.accepted + 1 ELSE memory.accepted
<1>1. memory \in [accepted : Nat, rejected : Nat]
  BY DEF TypeOK, ToolsOK
<1> QED BY <1>1 DEF Settle

\* The initial states map to the protocol's,
LEMMA InitStage == EnvInit => StageInv /\ Protocol!EpisodeInit
<1> SUFFICES ASSUME EnvInit PROVE StageInv /\ Protocol!EpisodeInit
  OBVIOUS
<1>1. /\ phase = "idle" /\ ~ ends_round /\ ends_round \in BOOLEAN
      /\ terminated = FALSE /\ truncated = FALSE
      /\ round = 1 /\ step_index = 0 /\ round_step = 0 /\ aliases = << >>
      /\ query_count = 0 /\ quote_count = 0 /\ memory.accepted = 0
  BY DEF EnvInit, Init
<1>2. Stage = "deciding"
  BY <1>1 DEF Stage, Raised
<1> QED
  BY <1>1, <1>2 DEF StageInv, Done, Protocol!EpisodeInit

\* and every step to one of its steps, or to none.
LEMMA NextStage ==
  ASSUME TypeInv, OffersInv, StageInv, [EnvNext]_vars
  PROVE  StageInv' /\ [Protocol!EpisodeNext]_(Protocol!protocol)
<1> DEFINE Goal == StageInv' /\ [Protocol!EpisodeNext]_(Protocol!protocol)
<1> USE DEF Protocol!EpisodeNext, Protocol!Valid, Protocol!Invalid, Protocol!Finish
<1>0. Len(aliases) \in Nat
  BY DEF OffersInv
<1>1. ASSUME NEW topic \in Topics, AskClient(topic) PROVE Goal
  <2>1. StageInv' /\ Protocol!Stay
    BY <1>1, StayingStep DEF AskClient, QueryClient, loop
  <2>2. Protocol!AskClient
    BY <1>1, <2>1 DEF AskClient, QueryClient, Protocol!AskClient
  <2> QED BY <2>1, <2>2
<1>2. ASSUME NEW product \in Products, NEW mark \in Marks, NEW mandate \in BOOLEAN,
             NEW contract \in BOOLEAN, AskDesk(product, mark, mandate, contract)
      PROVE  Goal
  <2>1. StageInv' /\ Protocol!Stay
    BY <1>2, StayingStep DEF AskDesk, RequestQuote, loop
  <2>2. Len(aliases') = Len(aliases) + 1
    BY <1>2 DEF AskDesk, RegisterQuote, OffersInv
  <2>3. /\ quote_count < MaxQuotes /\ quote_count' = quote_count + 1
        /\ UNCHANGED <<round, query_count, memory>>
    BY <1>2 DEF AskDesk, RequestQuote, CanQuote
  <2>4. Protocol!RequestQuote(TRUE)
    BY <2>1, <2>2, <2>3 DEF Protocol!RequestQuote
  <2> QED BY <2>1, <2>4
<1>3. CASE DeskFails
  <2>1. StageInv' /\ Protocol!Stay
    BY <1>3, StayingStep DEF DeskFails, QuoteNotConverged, loop
  <2>2. Protocol!RequestQuote(FALSE)
    BY <1>3, <2>1 DEF DeskFails, QuoteNotConverged, CanQuote, public, Protocol!RequestQuote
  <2> QED BY <2>1, <2>2
<1>4. CASE Refused
  <2>1. StageInv' /\ Protocol!Stay
    BY <1>4, StayingStep DEF Refused, core, loop
  <2>2. Protocol!Refuse
    BY <1>4, <2>1 DEF Refused, core, tools, public, Protocol!Refuse, Protocol!budgets
  <2> QED BY <2>1, <2>2
<1>5. ASSUME NEW alias \in DOMAIN aliases, SubmitQuoted(alias) PROVE Goal
  <2>1. PICK quote \in quotes : /\ CanStep /\ EndRound(Accepted(quote)) /\ Settle(quote)
                                /\ UNCHANGED <<phase, round, quote_count, query_count, aliases>>
    BY <1>5 DEF SubmitQuoted, SubmitDesign, loop
  <2>2. StageInv' /\ Protocol!Take("finishing")
    BY <2>1, EndingStep
  <2>3. Len(aliases) > 0
    BY <1>0 DEF OffersInv
  <2>4. Accepted(quote) \in BOOLEAN
    BY DEF TypeInv, TypeOK, ToolsOK, QuoteOK, Accepted
  <2>5. memory'.accepted = IF Accepted(quote) THEN memory.accepted + 1 ELSE memory.accepted
    BY <2>1, SubmissionIsCounted DEF TypeInv
  <2>6. Protocol!Submit(Accepted(quote))
    BY <2>1, <2>2, <2>3, <2>5 DEF Protocol!Submit, Protocol!budgets
  <2> QED BY <2>2, <2>4, <2>6
<1>6. ASSUME NEW product \in Products, NEW mark \in Marks, NEW mandate \in BOOLEAN,
             NEW contract \in BOOLEAN, QuoteAndSubmit(product, mark, mandate, contract)
      PROVE  Goal
  <2> DEFINE quote == Quote(product, mark, mandate, contract)
  <2>1. /\ CanStep /\ EndRound(Accepted(quote)) /\ Settle(quote) /\ RegisterQuote
        /\ quote_count < MaxQuotes /\ quote_count' = quote_count + 1
        /\ UNCHANGED <<phase, round, query_count>>
        /\ QuoteOK(quote)
    BY <1>6, QuoteType DEF QuoteAndSubmit, SubmitProduct, CanQuote, loop, TypeInv
  <2> HIDE DEF quote
  <2>2. StageInv' /\ Protocol!Take("finishing")
    BY <2>1, EndingStep
  <2>3. Len(aliases') = Len(aliases) + 1
    BY <2>1 DEF RegisterQuote, OffersInv
  <2>4. Accepted(quote) \in BOOLEAN
    BY DEF Accepted
  <2>5. memory'.accepted = IF Accepted(quote) THEN memory.accepted + 1 ELSE memory.accepted
    BY <2>1, SubmissionIsCounted DEF TypeInv
  <2>6. Protocol!QuoteAndSubmit(Accepted(quote))
    BY <2>1, <2>2, <2>3, <2>5 DEF Protocol!QuoteAndSubmit
  <2> QED BY <2>2, <2>4, <2>6
<1>7. CASE Skip
  <2>1. StageInv' /\ Protocol!Take("finishing")
    BY <1>7, EndingStep DEF Skip, CloseRound, loop
  <2>2. Protocol!Skip
    BY <1>7, <2>1 DEF Skip, CloseRound, Protocol!Skip, Protocol!budgets
  <2> QED BY <2>1, <2>2
<1>8. CASE StartFinish \/ FinishPosition
  <2>1. UNCHANGED <<round, tools, spine>>
    BY <1>8 DEF StartFinish, BeginAdvance, BeginLiquidation, FinishPosition, ObserveNextPosition,
                AdvancePosition, LiquidatePosition
  <2>2. /\ ends_round /\ phase' # "failed" /\ phase' # "closed"
        /\ phase' = "liquidating" => round = Rounds
    BY <1>8 DEF StartFinish, BeginAdvance, BeginLiquidation, Begin, FinishPosition, ObserveNextPosition,
                AdvancePosition, LiquidatePosition, CanAdvance, AtPosition, StageInv
  <2>3. StageInv'
    BY <2>1, <2>2 DEF StageInv, Done, spine
  <2>4. Stage' = Stage
    BY <2>1, <2>2 DEF Stage, Raised, Done, spine
  <2>5. UNCHANGED Protocol!protocol
    BY <2>1, <2>4 DEF Protocol!protocol, Protocol!steps, Protocol!budgets, tools, spine, public
  <2> QED BY <2>3, <2>5
<1>9. CASE StepRaises
  <2>1. /\ UNCHANGED <<round, tools, step_index, round_step, public, terminated, truncated>>
        /\ phase \in {"advancing", "liquidating"} /\ phase' = "failed" /\ ends_round' = FALSE
    BY <1>9, RaisingFails, RaisingKeepsRound DEF StepRaises
  <2>2. ends_round /\ ~ Done
    BY <2>1 DEF StageInv
  <2>3. Stage = "finishing" /\ Stage' = "failed"
    BY <2>1, <2>2 DEF Done, Stage, Raised
  <2>4. StageInv'
    BY <2>1, <2>2 DEF StageInv, Done
  <2>5. Protocol!Fail
    BY <2>1, <2>2, <2>3 DEF Protocol!Fail, Protocol!steps, Protocol!budgets, tools, public
  <2> QED BY <2>4, <2>5
<1>10. ASSUME NEW capital \in Capitals, FinishAdvance(capital) PROVE Goal
  <2>1. /\ phase = "advancing" /\ phase' = "idle" /\ round' = round + 1
        /\ round_step' = 0 /\ Len(aliases') = 0
        /\ quote_count' = 0 /\ query_count' = 0
        /\ UNCHANGED <<memory, step_index, terminated, truncated>>
        /\ IF round' < Rounds THEN ends_round' = FALSE ELSE UNCHANGED ends_round
    BY <1>10 DEF FinishAdvance, CompleteAdvance, FreshTools, CloseStep
  <2>2. ends_round /\ ~ Done /\ round < Rounds
    BY <2>1 DEF TypeInv, MonthInv, StageInv
  <2>3. StageInv'
    BY <2>1, <2>2 DEF StageInv, Done
  <2>4. Stage = "finishing" /\ Stage' = IF round + 1 < Rounds THEN "deciding" ELSE "finishing"
    BY <2>1, <2>2 DEF Stage, Raised, Done
  <2>5. Protocol!NextRound
    BY <2>1, <2>2, <2>4 DEF Protocol!NextRound
  <2> QED BY <2>3, <2>5
<1>11. CASE FinishEpisode
  <2>1. /\ phase = "liquidating" /\ phase' = "closed" /\ terminated' = TRUE /\ ends_round' = FALSE
        /\ UNCHANGED <<round, tools, step_index, round_step, public, truncated>>
    BY <1>11 DEF FinishEpisode, CompleteLiquidation, CloseStep
  <2>2. ends_round /\ ~ Done /\ round = Rounds
    BY <2>1 DEF StageInv
  <2>3. StageInv'
    BY <2>1, <2>2 DEF StageInv, Done
  <2>4. Stage = "finishing" /\ Stage' = "terminated"
    BY <2>1, <2>2 DEF Stage, Raised, Done
  <2>5. Protocol!Terminate
    BY <2>1, <2>2, <2>4 DEF Protocol!Terminate, Protocol!steps, Protocol!budgets, tools, public
  <2> QED BY <2>3, <2>5
<1>12. CASE UNCHANGED vars
  <2>1. StageInv'
    BY <1>12 DEF vars, core, loop, spine, StageInv, Done
  <2>2. UNCHANGED Protocol!protocol
    BY <1>12 DEF vars, core, tools, loop, spine, public, Stage, Raised, Done,
                 Protocol!protocol, Protocol!steps, Protocol!budgets
  <2> QED BY <2>1, <2>2
<1> QED
  BY <1>1, <1>2, <1>3, <1>4, <1>5, <1>6, <1>7, <1>8, <1>9, <1>10, <1>11, <1>12
  DEF EnvNext, PolicyStep, FinishStep

\* The interface implements the episode protocol: whatever a policy does and
\* however the desk answers, a driver sees budgets that are never overdrawn,
\* steps that stay in their round or end it, and an episode that stops in one
\* of three ways.  (The progress the protocol promises stays with the run.)
THEOREM KeepsProtocol == EnvSpec => Protocol!EpisodeSpec
<1>1. EnvSpec => []TypeInv
  <2>1. Spec => []TypeInv
    BY InitTypeInv, NextTypeInv, PTL DEF Spec
  <2> QED BY <2>1, EnvDrivesCore, PTL
<1>2. TypeInv => TypeOK
  BY DEF TypeInv
<1>3. EnvSpec => []OffersInv
  BY <1>1, <1>2, InitOffers, NextOffers, PTL DEF EnvSpec
<1> QED
  BY <1>1, <1>3, InitStage, NextStage, PTL DEF EnvSpec, Protocol!EpisodeSpec

=============================================================================
