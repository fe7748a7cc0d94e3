----------------------------- MODULE LongHorizon -----------------------------
(***************************************************************************)
(* The deterministic core of an episode: LongHorizonEnvironment, its       *)
(* TradingDesk and its PortfolioState (stochopia/benchmark.py).            *)
(*                                                                         *)
(* A round is one market snapshot.  In it a policy may ask the client,     *)
(* have the desk quote a product, and settle at most one quote; then the   *)
(* environment advances to the next snapshot, where every open contract    *)
(* is observed, revalued and, if its life is over, settled.                *)
(*                                                                         *)
(* What pricing computes is an input here: a mark (fair value and dealer   *)
(* stress), a hedge result, a payoff are any value of a constant set.      *)
(* The loops over the open contracts are stepped one contract at a time,   *)
(* because pricing may raise in the middle of one (RevaluationFails).      *)
(*                                                                         *)
(* What raised leaves everything as it was at that moment, and nothing     *)
(* refuses a further call: advance_round looks only at the round, so it    *)
(* runs the month again over contracts it has observed, or settled,        *)
(* already.  No driver in the repository calls again, but the interface    *)
(* allows it: the model does, up to MaxRetries times.                      *)
(***************************************************************************)
EXTENDS Ledger

CONSTANTS
  Rounds,          \* number of market snapshots of the episode
  Dynamic,         \* BenchmarkCondition.dynamic
  Capitals,        \* what the client's schedule may name as a round's capital
  RiskLimit,       \* RiskBudget.dealer_stress_loss
  NotionalLimit,   \* RiskBudget.notional
  MaxQuotes,       \* max_quotes_per_round
  MaxQueries,      \* max_client_queries_per_round
  Products,        \* the term sheets a policy may have quoted
  Marks,           \* what pricing a contract may yield
  HedgeMoves,      \* one month's result of a contract's static delta hedge
  Payoffs,         \* what _position_settlement_amount may yield
  MaxRetries       \* bound: months or liquidations begun again after a raise

EarlyExits == {"knocked_out", "autocalled"}

Product == [notional : Nat, outlay : Nat, term : Nat \ {0}, exits : SUBSET EarlyExits]
Mark == [fair_value : Int, stress : Int]

ASSUME EpisodeAssumption == /\ Rounds \in Nat \ {0}
                            /\ Dynamic \in BOOLEAN
                            /\ MaxQuotes \in Nat
                            /\ MaxQueries \in Nat
                            /\ MaxRetries \in Nat

ASSUME MoneyAssumption == /\ Capitals \subseteq Nat
                          /\ RiskLimit \in Nat
                          /\ NotionalLimit \in Nat
                          /\ HedgeMoves \subseteq Int
                          /\ Payoffs \subseteq Int

ASSUME ContractAssumption == Products \subseteq Product /\ Marks \subseteq Mark

VARIABLES
  round,        \* snapshot.round_num
  submitted,    \* the round has been settled or skipped
  quote_count,  \* quotes the desk was asked for in this round
  query_count,  \* topics the client was asked in this round
  quotes,       \* the quotes of this round that can be submitted
  memory,       \* ClientMemory: accepted and rejected submissions
  client,       \* portfolio.client_account
  dealer,       \* portfolio.dealer_account
  positions,    \* portfolio.positions
  events,       \* portfolio.lifecycle_events
  ledger,       \* portfolio.cashflow_ledger
  revision,     \* portfolio.revision
  phase,        \* what the environment is doing
  cursor,       \* the contract the loop over positions is at
  kept,         \* the contracts the month's loop found still active
  retries       \* ghost: loops begun again after one that raised

tools     == <<submitted, quote_count, query_count, quotes, memory>>
accounts  == <<client, dealer>>
portfolio == <<positions, events, ledger, revision>>
loop      == <<phase, cursor, kept, retries>>
core      == <<round, tools, accounts, portfolio, loop>>

-----------------------------------------------------------------------------
Active(p) == p.status = "active"

\* PortfolioState.totals
ActiveNotional  == SumOf([i \in DOMAIN positions |-> positions[i].notional])
ActiveFairValue == SumOf([i \in DOMAIN positions |-> positions[i].fair_value])
ActiveStress    == SumOf([i \in DOMAIN positions |-> Greater(positions[i].stress, 0)])

\* The client's net liquidation wealth: cash and the marks of open contracts.
NetLiquidationWealth == client.available_cash + ActiveFairValue

\* The preimage of the hash a quote is bound to.
StateVersion ==
  << round, revision, client, dealer, memory,
     ActiveNotional, ActiveFairValue, ActiveStress, Len(events) >>

Flow(payer, receiver, amount) ==
  [payer |-> payer, receiver |-> receiver, amount |-> amount]

-----------------------------------------------------------------------------
Init ==
  /\ round = 1
  /\ submitted = FALSE
  /\ quote_count = 0
  /\ query_count = 0
  /\ quotes = {}
  /\ memory = [accepted |-> 0, rejected |-> 0]
  /\ \E cash \in Capitals : client = OpenClient(cash)
  /\ dealer = OpenDealer(RiskLimit)
  /\ positions = << >>
  /\ events = << >>
  /\ ledger = << >>
  /\ revision = 0
  /\ phase = "idle"
  /\ cursor = 1
  /\ kept = << >>
  /\ retries = 0

-----------------------------------------------------------------------------
(* The tools of a round.  They are not withheld after a call that raised.  *)

Ready == phase \in {"idle", "failed"}

QueryClient ==
  /\ Ready
  /\ query_count < MaxQueries
  /\ query_count' = query_count + 1
  /\ UNCHANGED <<round, submitted, quote_count, quotes, memory, accounts, portfolio, loop>>

(***************************************************************************)
(* The desk.  mandate and contract stand for the HARD and the CONTRACT     *)
(* checks that read only the term sheet and the client's profile; the      *)
(* checks on the accounts and on the portfolio are spelled out.            *)
(***************************************************************************)
\* Mutant: the stress limit is not lowered by what the dealer has lost.
FitsUnimpairedCapital(product, mark) ==
  /\ product.outlay <= client.available_cash
  /\ ActiveNotional + product.notional <= NotionalLimit
  /\ ActiveStress + Greater(mark.stress, 0) <= RiskLimit

FitsPortfolio(product, mark) ==
  /\ product.outlay <= client.available_cash
  /\ ActiveNotional + product.notional <= NotionalLimit
  /\ ActiveStress + Greater(mark.stress, 0) <= RiskCapital(dealer)

Quote(product, mark, mandate, contract) ==
  [ id        |-> <<round, quote_count + 1>>,
    version   |-> StateVersion,
    product   |-> product,
    mark      |-> mark,
    hard_pass |-> mandate /\ FitsPortfolio(product, mark),
    contract  |-> contract ]

CanQuote == Ready /\ ~ submitted /\ quote_count < MaxQuotes

RequestQuote(product, mark, mandate, contract) ==
  /\ CanQuote
  /\ quote_count' = quote_count + 1
  /\ quotes' = quotes \cup {Quote(product, mark, mandate, contract)}
  /\ UNCHANGED <<round, submitted, query_count, memory, accounts, portfolio, loop>>

\* The budget is spent before the desk raises.
QuoteNotConverged ==
  /\ CanQuote
  /\ quote_count' = quote_count + 1
  /\ UNCHANGED <<round, submitted, query_count, quotes, memory, accounts, portfolio, loop>>

-----------------------------------------------------------------------------
(* Settlement of a submission.                                             *)

Position(quote) ==
  [ id         |-> quote.id,
    notional   |-> quote.product.notional,
    outlay     |-> quote.product.outlay,
    exits      |-> quote.product.exits,
    remaining  |-> quote.product.term,
    seen       |-> round,
    fair_value |-> quote.mark.fair_value,
    stress     |-> quote.mark.stress,
    hedge_pnl  |-> 0,
    status     |-> "active" ]

\* PortfolioState.add
AddPosition(position) ==
  /\ client' = IssueClient(client, position.outlay)
  /\ dealer' = IssueDealer(dealer, position.outlay)
  /\ positions' = Append(positions, position)
  /\ ledger' = Append(ledger, Flow("client", "dealer", position.outlay))
  /\ revision' = revision + 1
  /\ UNCHANGED events

\* The HARD checks are those of the quote, the cash check is made again.
Accepted(quote) ==
  /\ quote.hard_pass
  /\ quote.contract
  /\ CanIssue(client, quote.product.outlay)

\* A static round is settled without touching the portfolio.
Settle(quote) ==
  /\ submitted' = TRUE
  /\ IF Accepted(quote)
     THEN /\ memory' = [memory EXCEPT !.accepted = @ + 1]
          /\ IF Dynamic THEN AddPosition(Position(quote))
             ELSE UNCHANGED <<accounts, portfolio>>
     ELSE /\ memory' = [memory EXCEPT !.rejected = @ + 1]
          /\ UNCHANGED <<accounts, portfolio>>

CanSubmit(quote) ==
  /\ Ready
  /\ ~ submitted
  /\ quote \in quotes
  /\ quote.version = StateVersion

SubmitDesign(quote) ==
  /\ CanSubmit(quote)
  /\ Settle(quote)
  /\ UNCHANGED <<round, quote_count, query_count, quotes, loop>>

\* request_quote and submit_design in one call: the quote is registered too.
SubmitProduct(product, mark, mandate, contract) ==
  LET quote == Quote(product, mark, mandate, contract)
  IN  /\ CanQuote
      /\ quote_count' = quote_count + 1
      /\ quotes' = quotes \cup {quote}
      /\ Settle(quote)
      /\ UNCHANGED <<round, query_count, loop>>

\* Skip, and a round whose policy never submitted: only the flag is set,
\* without a look at what it was.
CloseRound ==
  /\ Ready
  /\ submitted' = TRUE
  /\ UNCHANGED <<round, quote_count, query_count, quotes, memory, accounts, portfolio, loop>>

-----------------------------------------------------------------------------
(* The lifecycle of a contract.                                            *)

Statuses == {"active", "matured", "horizon_liquidated"} \cup EarlyExits

\* A position remembers the last spot it was observed at (hedge_last_spot):
\* a month begun again observes the same spot.
SeenAlready(p) == p.seen = round + 1

\* On the same spot a contract that stayed active does not exit.
Exits(p) == IF SeenAlready(p) THEN {"none"} ELSE {"none"} \cup p.exits

\* The state of a position after one month's observation: the hedge result
\* is accrued, which is nothing on the same spot, the month counted, which is
\* counted again; the barriers are looked at, then maturity, then it is marked.
Observed(p, exit, mark, hedge) ==
  LET status == CASE ~ Active(p) -> p.status
                  [] Active(p) /\ exit # "none" -> exit
                  [] Active(p) /\ exit = "none" /\ p.remaining <= 1 -> "matured"
                  [] OTHER -> "active"
  IN  [ p EXCEPT !.hedge_pnl  = @ + (IF SeenAlready(p) THEN 0 ELSE hedge),
                 !.seen       = round + 1,
                 !.remaining  = @ - 1,
                 !.status     = status,
                 !.fair_value = IF status = "active" THEN mark.fair_value ELSE 0,
                 !.stress     = IF status = "active" THEN mark.stress ELSE 0 ]

\* _close_position
ClosingEvent(p, payoff) ==
  LET settlement == Greater(payoff, 0)
      client_pnl == settlement - p.outlay
  IN  [ id            |-> p.id,
        attempt       |-> retries,
        reason        |-> p.status,
        outlay        |-> p.outlay,
        settlement    |-> settlement,
        client_pnl    |-> client_pnl,
        liability_pnl |-> - client_pnl,
        hedge_pnl     |-> p.hedge_pnl,
        hedged_pnl    |-> p.hedge_pnl - client_pnl ]

\* Mutant: a hedge loss is booked as money received.
HedgeFlowUnsigned(pnl) ==
  IF pnl = 0 THEN << >> ELSE << Flow("market", "dealer", Greater(pnl, - pnl)) >>

HedgeFlow(pnl) ==
  CASE pnl > 0 -> << Flow("market", "dealer", pnl) >>
    [] pnl < 0 -> << Flow("dealer", "market", - pnl) >>
    [] pnl = 0 -> << >>

\* The event and its flows are listed before the accounts are settled.
RecordEvent(event) ==
  /\ events' = Append(events, event)
  /\ ledger' = ledger \o << Flow("dealer", "client", event.settlement) >>
                      \o HedgeFlow(event.hedge_pnl)

\* Both accounts settle the event, in the loop of advance and of liquidation.
SettleEvent(event) ==
  /\ CanRelease(client, event.outlay)
  /\ RecordEvent(event)
  /\ client' = SettleClient(client, event.outlay, event.settlement)
  /\ dealer' = SettleDealer(dealer, event)

\* The client's account refuses to release more than is locked: what was
\* listed stays, neither account has moved, and the loop is left.
SettlementRefused(event) ==
  /\ ~ CanRelease(client, event.outlay)
  /\ RecordEvent(event)
  /\ phase' = "failed"
  /\ UNCHANGED <<accounts, cursor, kept, retries>>

-----------------------------------------------------------------------------
(* advance_round, dynamic: PortfolioState.advance_month over the open      *)
(* contracts, then the next round's capital and fresh budgets.  It looks   *)
(* only at the round; its callers advance one only once it is submitted.   *)

CanAdvance == Ready /\ submitted /\ round < Rounds

\* The bound on calls that are made again.
MayRetry == phase = "failed" => retries < MaxRetries

\* A loop over the contracts starts at the first one, whatever an earlier one
\* that raised has done to them.
Begin(activity) ==
  /\ Ready
  /\ MayRetry
  /\ phase' = activity
  /\ cursor' = 1
  /\ retries' = IF phase = "failed" THEN retries + 1 ELSE retries

\* Mutant: the quotes of the old round stay.
FreshToolsOldQuotes ==
  /\ submitted' = FALSE
  /\ quote_count' = 0
  /\ query_count' = 0
  /\ UNCHANGED quotes

FreshTools ==
  /\ submitted' = FALSE
  /\ quote_count' = 0
  /\ query_count' = 0
  /\ quotes' = {}

BeginAdvance ==
  /\ Dynamic
  /\ CanAdvance
  /\ Begin("advancing")
  /\ kept' = << >>
  /\ UNCHANGED <<round, tools, accounts, portfolio>>

AtPosition(activity) == phase = activity /\ cursor <= Len(positions)

AdvancePosition(exit, mark, hedge, payoff) ==
  LET p == Observed(positions[cursor], exit, mark, hedge)
  IN  /\ AtPosition("advancing")
      /\ exit \in Exits(positions[cursor])
      /\ positions' = [positions EXCEPT ![cursor] = p]
      /\ IF Active(p)
         THEN /\ kept' = Append(kept, p)
              /\ UNCHANGED <<accounts, events, ledger>>
         ELSE /\ SettleEvent(ClosingEvent(p, payoff))
              /\ UNCHANGED kept
      /\ cursor' = cursor + 1
      /\ UNCHANGED <<round, tools, revision, phase, retries>>

\* Pricing raises for a contract that stays active: its hedge and its month
\* are already counted, contracts before it are settled but still listed.
RevaluationFails(hedge) ==
  LET p == positions[cursor]
  IN  /\ AtPosition("advancing")
      /\ Active(p)
      /\ p.remaining > 1
      /\ positions' = [positions EXCEPT ![cursor].hedge_pnl = @ + (IF SeenAlready(p) THEN 0 ELSE hedge),
                                        ![cursor].seen = round + 1,
                                        ![cursor].remaining = @ - 1]
      /\ phase' = "failed"
      /\ UNCHANGED <<round, tools, accounts, events, ledger, revision, cursor, kept, retries>>

\* The client's account raises: only for a contract settled by an earlier call,
\* or for one whose lock such a settlement has released.
SettlementRaises(exit, mark, hedge, payoff) ==
  LET p == Observed(positions[cursor], exit, mark, hedge)
  IN  /\ AtPosition("advancing")
      /\ exit \in Exits(positions[cursor])
      /\ ~ Active(p)
      /\ positions' = [positions EXCEPT ![cursor] = p]
      /\ SettlementRefused(ClosingEvent(p, payoff))
      /\ UNCHANGED <<round, tools, revision>>

\* Mutant: the contracts settled in the loop stay listed.
CompleteAdvanceKeepingClosed(capital) ==
  /\ phase = "advancing"
  /\ cursor > Len(positions)
  /\ revision' = revision + 1
  /\ round' = round + 1
  /\ client' = ReconcileClient(client, capital)
  /\ FreshTools
  /\ phase' = "idle"
  /\ kept' = << >>
  /\ UNCHANGED <<positions, memory, dealer, events, ledger, cursor, retries>>

CompleteAdvance(capital) ==
  /\ phase = "advancing"
  /\ cursor > Len(positions)
  /\ positions' = kept
  /\ kept' = << >>
  /\ revision' = revision + 1
  /\ round' = round + 1
  /\ client' = ReconcileClient(client, capital)
  /\ FreshTools
  /\ phase' = "idle"
  /\ UNCHANGED <<memory, dealer, events, ledger, cursor, retries>>

\* Mutant: the client's account of the last round is carried over.
AdvanceStaticCarryingOver(capital) ==
  /\ ~ Dynamic
  /\ CanAdvance
  /\ positions' = << >> /\ events' = << >> /\ ledger' = << >>
  /\ revision' = revision + 1
  /\ memory' = [accepted |-> 0, rejected |-> 0]
  /\ round' = round + 1
  /\ client' = ReconcileClient(client, capital)
  /\ dealer' = ResetDealer(dealer)
  /\ FreshTools
  /\ UNCHANGED loop

\* advance_round, static: PortfolioState.reset, and a client without memory.
AdvanceStatic(capital) ==
  /\ ~ Dynamic
  /\ CanAdvance
  /\ positions' = << >> /\ events' = << >> /\ ledger' = << >>
  /\ revision' = revision + 1
  /\ memory' = [accepted |-> 0, rejected |-> 0]
  /\ round' = round + 1
  /\ client' = ReconcileClient(ResetClient(client), capital)
  /\ dealer' = ResetDealer(dealer)
  /\ FreshTools
  /\ UNCHANGED loop

-----------------------------------------------------------------------------
(* liquidate_horizon: on the last snapshot, every contract still open is   *)
(* closed at its mark.                                                     *)

BeginLiquidation ==
  /\ Dynamic
  /\ round = Rounds
  /\ Begin("liquidating")
  /\ UNCHANGED <<round, tools, accounts, portfolio, kept>>

LiquidatePosition ==
  LET p == [positions[cursor] EXCEPT !.status = "horizon_liquidated"]
  IN  /\ AtPosition("liquidating")
      /\ positions' = [positions EXCEPT ![cursor] = p]
      /\ SettleEvent(ClosingEvent(p, p.fair_value))
      /\ cursor' = cursor + 1
      /\ UNCHANGED <<round, tools, revision, phase, kept, retries>>

LiquidationRaises ==
  LET p == [positions[cursor] EXCEPT !.status = "horizon_liquidated"]
  IN  /\ AtPosition("liquidating")
      /\ positions' = [positions EXCEPT ![cursor] = p]
      /\ SettlementRefused(ClosingEvent(p, p.fair_value))
      /\ UNCHANGED <<round, tools, revision>>

CompleteLiquidation ==
  /\ phase = "liquidating"
  /\ cursor > Len(positions)
  /\ positions' = << >>
  /\ revision' = revision + 1
  /\ phase' = "closed"
  /\ UNCHANGED <<round, tools, accounts, events, ledger, cursor, kept, retries>>

-----------------------------------------------------------------------------
Tool ==
  \/ QueryClient
  \/ QuoteNotConverged
  \/ \E product \in Products, mark \in Marks, mandate, contract \in BOOLEAN :
       \/ RequestQuote(product, mark, mandate, contract)
       \/ SubmitProduct(product, mark, mandate, contract)
  \/ \E quote \in quotes : SubmitDesign(quote)
  \/ CloseRound

ObserveNextPosition ==
  \E exit \in {"none"} \cup EarlyExits, mark \in Marks, hedge \in HedgeMoves, payoff \in Payoffs :
     AdvancePosition(exit, mark, hedge, payoff)

\* What leaves advance_month, and with it advance_round, half way.
AdvanceRaises ==
  \/ \E hedge \in HedgeMoves : RevaluationFails(hedge)
  \/ \E exit \in {"none"} \cup EarlyExits, mark \in Marks, hedge \in HedgeMoves, payoff \in Payoffs :
       SettlementRaises(exit, mark, hedge, payoff)

Advance ==
  \/ BeginAdvance
  \/ ObserveNextPosition
  \/ AdvanceRaises
  \/ \E capital \in Capitals : CompleteAdvance(capital) \/ AdvanceStatic(capital)

Liquidate == BeginLiquidation \/ LiquidatePosition \/ LiquidationRaises \/ CompleteLiquidation

Next == Tool \/ Advance \/ Liquidate

Spec == Init /\ [][Next]_core

-----------------------------------------------------------------------------
(* Properties.                                                             *)

QuoteId == (1 .. Rounds) \X Nat

PositionRecord ==
  [ id : QuoteId, notional : Nat, outlay : Nat, exits : SUBSET EarlyExits,
    remaining : Int, seen : Nat, fair_value : Int, stress : Int, hedge_pnl : Int,
    status : Statuses ]

EventRecord ==
  [ id : QuoteId, attempt : Nat, reason : Statuses, outlay : Nat, settlement : Nat,
    client_pnl : Int, liability_pnl : Int, hedge_pnl : Int, hedged_pnl : Int ]

Parties == {"client", "dealer", "market"}
FlowRecord == [payer : Parties, receiver : Parties, amount : Nat]

\* A quote as the round stores it; its version is only ever compared.
QuoteOK(q) ==
  /\ q.id \in QuoteId
  /\ q.product \in Product
  /\ q.mark \in Mark
  /\ q.hard_pass \in BOOLEAN
  /\ q.contract \in BOOLEAN

ToolsOK ==
  /\ round \in 1 .. Rounds
  /\ submitted \in BOOLEAN
  /\ quote_count \in 0 .. MaxQuotes
  /\ query_count \in 0 .. MaxQueries
  /\ memory \in [accepted : Nat, rejected : Nat]
  /\ \A q \in quotes : QuoteOK(q)

AccountsOK == client \in ClientAccount /\ dealer \in DealerAccount

PortfolioOK ==
  /\ positions \in Seq(PositionRecord)
  /\ events \in Seq(EventRecord)
  /\ ledger \in Seq(FlowRecord)
  /\ revision \in Nat

LoopOK ==
  /\ phase \in {"idle", "advancing", "liquidating", "closed", "failed"}
  /\ cursor \in Nat \ {0}
  /\ kept \in Seq(PositionRecord)
  /\ retries \in 0 .. MaxRetries

\* Every variable holds a value of its type; in particular the client's cash,
\* what it has locked and what it owes never fall below zero.
TypeOK == ToolsOK /\ AccountsOK /\ PortfolioOK /\ LoopOK

\* Cash is neither made nor lost: the client's cash, schedule and result and
\* the dealer's cash are each what their movements add up to, however issues,
\* settlements, capital cuts that could not be paid and later payments of
\* what they left owing are interleaved, also when a month that raised is run
\* again (ClientAccount, DealerAccount).
BooksBalance == ClientBalances(client) /\ DealerBalances(dealer)

\* The two accounts mirror each other: the dealer received what the client
\* paid, paid what the client received, and lost what the client gained; its
\* hedged result adds exactly the hedges' result.
AccountsMirror == Mirrors(dealer, client)

\* Locked cash is the outlay of exactly the contracts still active, also half
\* way through the month's loop and after pricing raised in it; so no
\* settlement can ask for more than is locked (ClientAccount.settle raises).
\* It ends with a month that is run again: what was released before is
\* released once more, and what a refused settlement leaves locked stays so.
\* The client's result is that of the settlements booked in either case.
LockedBacksActive ==
  LET outlays == SumOf([i \in DOMAIN positions |->
                          IF Active(positions[i]) THEN positions[i].outlay ELSE 0])
  IN  /\ client.realised_pnl
           = client.settlement_inflows - client.issue_outflows + client.locked_cash
      /\ retries = 0 =>
           /\ client.locked_cash = outlays
           /\ \A i \in DOMAIN positions :
                Active(positions[i]) => CanRelease(client, positions[i].outlay)

Received(party) ==
  SumOf([i \in DOMAIN ledger |-> IF ledger[i].receiver = party THEN ledger[i].amount ELSE 0])
Paid(party) ==
  SumOf([i \in DOMAIN ledger |-> IF ledger[i].payer = party THEN ledger[i].amount ELSE 0])

\* The cashflow ledger explains the accounts: summed over every record, the
\* dealer's flows are its cash and the client's are what it received from
\* settlements less what it paid for issues.  Only until a month that raised is
\* run again: a settlement that is then refused has its flows listed already.
LedgerExplainsAccounts ==
  retries = 0 =>
    /\ Received("dealer") - Paid("dealer") = dealer.cash_balance
    /\ Received("client") - Paid("client") = client.settlement_inflows - client.issue_outflows

EventIds == { events[i].id : i \in DOMAIN events }

\* A contract is settled exactly once: no two closing events name the same
\* contract, and a listed contract has one exactly when it is no longer
\* active, also half way through a loop over the contracts.  If a month that
\* raised is run again, which nothing in the code prevents, a contract settled
\* before the raise is settled once more by every such call, never twice by
\* one; and none is settled while it stays active, nor closed without an event.
SettledOnce ==
  /\ \A i, j \in DOMAIN events :
       events[i].id = events[j].id => i = j \/ events[i].attempt # events[j].attempt
  /\ retries = 0 => \A i, j \in DOMAIN events : events[i].id = events[j].id => i = j
  /\ \A i, j \in DOMAIN positions : positions[i].id = positions[j].id => i = j
  /\ \A i \in DOMAIN positions : Active(positions[i]) <=> positions[i].id \notin EventIds

PositionIds == { positions[i].id : i \in DOMAIN positions }

\* At most one contract is issued per round, whatever quotes were asked for.
OneTradePerRound ==
  \A a, b \in EventIds \cup PositionIds : a[1] = b[1] => a = b

\* A quote that is stored in a round not yet submitted can be submitted: no
\* call a policy can make between the two changes the state it is bound to.
QuotesStayFresh ==
  phase = "idle" /\ ~ submitted => \A q \in quotes : q.version = StateVersion

\* Nothing a static round did reaches the next one: whatever was quoted and
\* accepted before, the accounts are those of an episode that starts with this
\* round's capital, no contract is open and at most this round's submission is
\* remembered (the reset branch of advance_round).
StaticRoundsStartFresh ==
  ~ Dynamic =>
    /\ client = ReconcileClient(OpenClient(client.initial_cash), client.scheduled_capital)
    /\ dealer = OpenDealer(RiskLimit)
    /\ positions = << >>
    /\ memory.accepted + memory.rejected <= (IF submitted THEN 1 ELSE 0)

\* A trade that is executed leaves the whole portfolio, not only the new
\* contract, within the limits of that moment: exposure, and the dealer's
\* stress against its limit plus everything it has realised so far.
TradesFitRiskCapital ==
  [][ Len(positions') > Len(positions)
        => /\ ActiveStress' <= RiskCapital(dealer)
           /\ ActiveNotional' <= NotionalLimit ]_core

\* A settlement pays what the client owes from an earlier capital cut before
\* any of it can be invested again.
OwedBeforeInvestable ==
  [][ Len(events') > Len(events) /\ client'.pending_withdrawal > 0
        => client'.available_cash = client.available_cash ]_core

=============================================================================
