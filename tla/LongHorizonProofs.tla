------------------------- MODULE LongHorizonProofs -------------------------
(***************************************************************************)
(* Proofs about LongHorizon, for any number of rounds, any budgets and     *)
(* limits, and any term sheets, marks, payoffs and capital schedules:      *)
(* types, accounts, quotes, settlement, locked cash, ledger and limits.    *)
(***************************************************************************)
EXTENDS LongHorizon, LedgerProofs, SequenceTheorems

-----------------------------------------------------------------------------
(* The types of what the actions build.                                    *)

\* A quote the desk gives within the budget is well-typed and named after its round.
LEMMA QuoteType ==
  ASSUME TypeOK, CanQuote, NEW product \in Products, NEW mark \in Marks,
         NEW mandate \in BOOLEAN, NEW contract \in BOOLEAN
  PROVE  QuoteOK(Quote(product, mark, mandate, contract))
<1>1. <<round, quote_count + 1>> \in QuoteId
  BY DEF TypeOK, ToolsOK, QuoteId
<1>2. (mandate /\ FitsPortfolio(product, mark)) \in BOOLEAN
  OBVIOUS
<1>3. product \in Product /\ mark \in Mark
  BY ContractAssumption
<1> QED
  BY <1>1, <1>2, <1>3 DEF Quote, QuoteOK

\* The contract a quote becomes is well-typed.
LEMMA PositionType ==
  ASSUME ToolsOK, NEW quote, QuoteOK(quote)
  PROVE  Position(quote) \in PositionRecord
<1>1. round \in Nat
  BY DEF ToolsOK
<1> QED
  BY <1>1 DEF QuoteOK, Position, PositionRecord, Product, Mark, Statuses

\* A month's observation of a contract leaves it well-typed, whatever it is
\* worth, also when it is a second one of the same month.
LEMMA ObservedType ==
  ASSUME ToolsOK, NEW p \in PositionRecord, NEW exit \in {"none"} \cup EarlyExits,
         NEW mark \in Mark, NEW hedge \in Int
  PROVE  Observed(p, exit, mark, hedge) \in PositionRecord
<1> DEFINE status == CASE ~ Active(p) -> p.status
                       [] Active(p) /\ exit # "none" -> exit
                       [] Active(p) /\ exit = "none" /\ p.remaining <= 1 -> "matured"
                       [] OTHER -> "active"
           accrued == IF SeenAlready(p) THEN 0 ELSE hedge
<1>1. status \in Statuses
  <2>1. p.status \in Statuses
    BY DEF PositionRecord
  <2> QED
    BY <2>1 DEF Statuses, EarlyExits
<1>2. accrued \in Int
  OBVIOUS
<1> HIDE DEF accrued
<1>3. /\ p.hedge_pnl + accrued \in Int
      /\ p.remaining - 1 \in Int
      /\ (IF status = "active" THEN mark.fair_value ELSE 0) \in Int
      /\ (IF status = "active" THEN mark.stress ELSE 0) \in Int
  BY <1>2 DEF PositionRecord, Mark
<1>4. round + 1 \in Nat
  BY DEF ToolsOK
<1>5. Observed(p, exit, mark, hedge)
        = [p EXCEPT !.hedge_pnl  = @ + accrued,
                    !.seen       = round + 1,
                    !.remaining  = @ - 1,
                    !.status     = status,
                    !.fair_value = IF status = "active" THEN mark.fair_value ELSE 0,
                    !.stress     = IF status = "active" THEN mark.stress ELSE 0]
  BY DEF Observed, accrued
<1> HIDE DEF status
<1> QED
  BY <1>1, <1>3, <1>4, <1>5 DEF PositionRecord

\* An observation never revives a contract that is closed.
LEMMA ObservedActive ==
  ASSUME NEW p \in PositionRecord, NEW exit \in {"none"} \cup EarlyExits, NEW mark, NEW hedge,
         Active(Observed(p, exit, mark, hedge))
  PROVE  Active(p)
<1>1. Observed(p, exit, mark, hedge).status
        = CASE ~ Active(p) -> p.status
            [] Active(p) /\ exit # "none" -> exit
            [] Active(p) /\ exit = "none" /\ p.remaining <= 1 -> "matured"
            [] OTHER -> "active"
  BY DEF Observed, PositionRecord
<1> QED
  BY <1>1 DEF Active

\* The closing event, and that it mirrors the client's result.
LEMMA ClosingEventType ==
  ASSUME retries \in Nat, NEW p \in PositionRecord, NEW payoff \in Int
  PROVE  LET event == ClosingEvent(p, payoff)
         IN  /\ event \in EventRecord
             /\ event.outlay = p.outlay
             /\ event.settlement \in Nat
             /\ event.hedge_pnl \in Int
             /\ event.liability_pnl \in Int
             /\ event.hedged_pnl \in Int
             /\ event.liability_pnl = p.outlay - event.settlement
             /\ event.hedged_pnl = event.hedge_pnl + event.liability_pnl
  BY GreaterZero DEF PositionRecord, ClosingEvent, EventRecord, Statuses

\* It names the contract and the attempt at the month that closed it.
LEMMA ClosingEventIs ==
  ASSUME LoopOK, NEW p \in PositionRecord, NEW payoff \in Int
  PROVE  LET event == ClosingEvent(p, payoff)
         IN  event \in EventRecord /\ event.id = p.id /\ event.attempt = retries
<1>1. retries \in Nat
  BY DEF LoopOK
<1> QED
  BY <1>1, ClosingEventType DEF ClosingEvent

\* The hedge's cashflow has a positive amount in the direction of its sign.
LEMMA HedgeFlowType ==
  ASSUME NEW pnl \in Int
  PROVE  HedgeFlow(pnl) \in Seq(FlowRecord)
<1>1. CASE pnl > 0
  <2>1. HedgeFlow(pnl) = << Flow("market", "dealer", pnl) >>
    BY <1>1 DEF HedgeFlow
  <2> QED
    BY <1>1, <2>1 DEF Flow, FlowRecord, Parties
<1>2. CASE pnl < 0
  <2>1. - pnl \in Nat
    BY <1>2
  <2>2. HedgeFlow(pnl) = << Flow("dealer", "market", - pnl) >>
    BY <1>2 DEF HedgeFlow
  <2> QED
    BY <2>1, <2>2 DEF Flow, FlowRecord, Parties
<1>3. CASE pnl = 0
  BY <1>3 DEF HedgeFlow
<1> QED
  BY <1>1, <1>2, <1>3

-----------------------------------------------------------------------------
(* The types of what the actions do to the accounts and the portfolio.     *)

\* Issuing a contract keeps accounts and portfolio well-typed.
LEMMA AddPositionType ==
  ASSUME AccountsOK, PortfolioOK, NEW position \in PositionRecord,
         AddPosition(position)
  PROVE  AccountsOK' /\ PortfolioOK'
<1>1. position.outlay \in Nat
  BY DEF PositionRecord
<1>2. AccountsOK'
  BY <1>1, IssueClientType, IssueDealerType DEF AccountsOK, AddPosition
<1>3. Flow("client", "dealer", position.outlay) \in FlowRecord
  BY <1>1 DEF Flow, FlowRecord, Parties
<1>4. PortfolioOK'
  BY <1>3, AppendProperties DEF PortfolioOK, AddPosition
<1> QED
  BY <1>2, <1>4

\* So does settling a submission, accepted or not.
LEMMA SettleType ==
  ASSUME TypeOK, NEW quote, QuoteOK(quote), Settle(quote)
  PROVE  /\ submitted' \in BOOLEAN
         /\ memory' \in [accepted : Nat, rejected : Nat]
         /\ AccountsOK'
         /\ PortfolioOK'
<1>1. memory \in [accepted : Nat, rejected : Nat]
  BY DEF TypeOK, ToolsOK
<1>2. CASE Accepted(quote)
  <2>1. memory' \in [accepted : Nat, rejected : Nat]
    BY <1>1, <1>2 DEF Settle
  <2>2. CASE Dynamic
    BY <1>2, <2>1, <2>2, PositionType, AddPositionType DEF Settle, TypeOK
  <2>3. CASE ~ Dynamic
    BY <1>2, <2>1, <2>3
    DEF Settle, TypeOK, AccountsOK, PortfolioOK, accounts, portfolio
  <2> QED
    BY <2>2, <2>3
<1>3. CASE ~ Accepted(quote)
  <2>1. memory' \in [accepted : Nat, rejected : Nat]
    BY <1>1, <1>3 DEF Settle
  <2> QED
    BY <1>3, <2>1
    DEF Settle, TypeOK, AccountsOK, PortfolioOK, accounts, portfolio
<1> QED
  BY <1>2, <1>3

\* What a closing contract lists is well-typed, whether it is then settled or not.
LEMMA RecordEventType ==
  ASSUME PortfolioOK, LoopOK, NEW p \in PositionRecord, NEW payoff \in Int,
         RecordEvent(ClosingEvent(p, payoff))
  PROVE  /\ events' \in Seq(EventRecord)
         /\ ledger' \in Seq(FlowRecord)
<1> DEFINE event == ClosingEvent(p, payoff)
<1>1. /\ event \in EventRecord
      /\ event.settlement \in Nat
      /\ event.hedge_pnl \in Int
  BY ClosingEventType DEF LoopOK
<1>2. RecordEvent(event)
  OBVIOUS
<1> HIDE DEF event
<1>3. events' \in Seq(EventRecord)
  BY <1>1, <1>2, AppendProperties DEF PortfolioOK, RecordEvent
<1>4. ledger' \in Seq(FlowRecord)
  <2>1. << Flow("dealer", "client", event.settlement) >> \in Seq(FlowRecord)
    BY <1>1 DEF Flow, FlowRecord, Parties
  <2>2. HedgeFlow(event.hedge_pnl) \in Seq(FlowRecord)
    BY <1>1, HedgeFlowType
  <2>3. ledger' = (ledger \o << Flow("dealer", "client", event.settlement) >>)
                    \o HedgeFlow(event.hedge_pnl)
    BY <1>2 DEF RecordEvent
  <2> QED
    BY <2>1, <2>2, <2>3, ConcatProperties DEF PortfolioOK
<1> QED
  BY <1>3, <1>4

\* Settling a contract that closed keeps accounts and portfolio well-typed.
LEMMA SettleEventType ==
  ASSUME AccountsOK, PortfolioOK, LoopOK, NEW p \in PositionRecord, NEW payoff \in Int,
         SettleEvent(ClosingEvent(p, payoff))
  PROVE  /\ AccountsOK'
         /\ events' \in Seq(EventRecord)
         /\ ledger' \in Seq(FlowRecord)
<1> DEFINE event == ClosingEvent(p, payoff)
<1>0. retries \in Nat /\ p.outlay \in Nat
  BY DEF LoopOK, PositionRecord
<1>1. /\ event \in EventRecord
      /\ event.outlay \in Nat
      /\ event.settlement \in Nat
      /\ event.hedge_pnl \in Int
      /\ event.liability_pnl \in Int
      /\ event.hedged_pnl \in Int
  BY <1>0, ClosingEventType
<1>2. SettleEvent(event)
  OBVIOUS
<1>3. events' \in Seq(EventRecord) /\ ledger' \in Seq(FlowRecord)
  BY <1>2, RecordEventType DEF SettleEvent
<1> HIDE DEF event
<1>4. /\ client' = SettleClient(client, event.outlay, event.settlement)
      /\ dealer' = SettleDealer(dealer, event)
  BY <1>2 DEF SettleEvent
<1>5. client' \in ClientAccount
  BY <1>1, <1>4, SettleClientType DEF AccountsOK
<1>6. dealer' \in DealerAccount
  BY <1>1, <1>4, SettleDealerType DEF AccountsOK
<1> QED
  BY <1>3, <1>5, <1>6 DEF AccountsOK

\* One contract of the list is replaced by what became of it.
LEMMA UpdatePositionType ==
  ASSUME PortfolioOK, NEW i \in Nat \ {0}, i <= Len(positions),
         NEW p \in PositionRecord, positions' = [positions EXCEPT ![i] = p]
  PROVE  positions' \in Seq(PositionRecord)
<1>1. i \in 1 .. Len(positions)
  BY LenProperties DEF PortfolioOK
<1> QED
  BY <1>1, ExceptSeq DEF PortfolioOK

\* A loop over the contracts is at a contract.
LEMMA AtPositionType ==
  ASSUME PortfolioOK, LoopOK, NEW activity, AtPosition(activity)
  PROVE  positions[cursor] \in PositionRecord
<1>1. cursor \in 1 .. Len(positions)
  BY LenProperties DEF PortfolioOK, LoopOK, AtPosition
<1> QED
  BY <1>1, ElementOfSeq DEF PortfolioOK

-----------------------------------------------------------------------------
(* Type correctness.  The month's loop only runs before the last snapshot: *)
(* that keeps round within the snapshots when the loop is over.            *)

MonthInv == phase = "advancing" => round < Rounds

TypeInv == TypeOK /\ MonthInv

\* The tools of a new round are well-typed.
LEMMA FreshToolsType ==
  ASSUME FreshTools
  PROVE  /\ submitted' \in BOOLEAN
         /\ quote_count' \in 0 .. MaxQuotes
         /\ query_count' \in 0 .. MaxQueries
         /\ \A q \in quotes' : QuoteOK(q)
<1>1. 0 \in 0 .. MaxQuotes /\ 0 \in 0 .. MaxQueries
  BY EpisodeAssumption
<1> QED
  BY <1>1 DEF FreshTools

\* A loop that starts, also one that starts again, is well-typed.
LEMMA BeginType ==
  ASSUME LoopOK, NEW activity \in {"advancing", "liquidating"}, Begin(activity),
         kept' \in Seq(PositionRecord)
  PROVE  LoopOK'
<1>1. retries' \in 0 .. MaxRetries
  <2>1. retries \in 0 .. MaxRetries /\ MaxRetries \in Nat
    BY EpisodeAssumption DEF LoopOK
  <2>2. CASE phase = "failed"
    BY <2>1, <2>2 DEF Begin, MayRetry
  <2>3. CASE phase # "failed"
    BY <2>1, <2>3 DEF Begin
  <2> QED
    BY <2>2, <2>3
<1> QED
  BY <1>1 DEF Begin, LoopOK

\* The type invariant holds initially,
LEMMA InitTypeInv == Init => TypeInv
<1> SUFFICES ASSUME Init PROVE TypeInv
  OBVIOUS
<1>1. AccountsOK
  BY MoneyAssumption, OpenClientType, OpenDealerType DEF Init, AccountsOK
<1>2. ToolsOK
  <2>1. 0 \in 0 .. MaxQuotes /\ 0 \in 0 .. MaxQueries /\ 1 \in 1 .. Rounds
    BY EpisodeAssumption
  <2> QED
    BY <2>1 DEF Init, ToolsOK
<1>3. PortfolioOK /\ LoopOK
  BY EmptySeq, EpisodeAssumption DEF Init, PortfolioOK, LoopOK
<1>4. MonthInv
  BY DEF Init, MonthInv
<1> QED
  BY <1>1, <1>2, <1>3, <1>4 DEF TypeOK, TypeInv

\* a settlement that is refused keeps it,
LEMMA RefusedType ==
  ASSUME TypeOK, MonthInv, cursor <= Len(positions),
         NEW p \in PositionRecord, NEW payoff \in Int,
         positions' = [positions EXCEPT ![cursor] = p],
         SettlementRefused(ClosingEvent(p, payoff)),
         UNCHANGED <<round, tools, revision>>
  PROVE  TypeOK' /\ MonthInv'
<1> USE DEF TypeOK, tools, accounts
<1>1. positions' \in Seq(PositionRecord)
  BY UpdatePositionType DEF LoopOK
<1>2. /\ RecordEvent(ClosingEvent(p, payoff))
      /\ phase' = "failed"
      /\ UNCHANGED <<accounts, cursor, kept, retries>>
  BY DEF SettlementRefused
<1>3. events' \in Seq(EventRecord) /\ ledger' \in Seq(FlowRecord)
  BY <1>2, RecordEventType
<1>4. ToolsOK' /\ AccountsOK' /\ LoopOK' /\ MonthInv'
  BY <1>2 DEF ToolsOK, QuoteOK, AccountsOK, LoopOK, MonthInv
<1> QED
  BY <1>1, <1>3, <1>4 DEF PortfolioOK

\* and every step keeps it.
LEMMA NextTypeInv == TypeInv /\ [Next]_core => TypeInv'
<1> SUFFICES ASSUME TypeOK, MonthInv, [Next]_core PROVE TypeOK' /\ MonthInv'
  BY DEF TypeInv
<1> USE DEF TypeOK, tools, accounts, portfolio, loop
<1>1. CASE QueryClient
  <2>1. ToolsOK'
    BY <1>1, EpisodeAssumption DEF ToolsOK, QueryClient, QuoteOK
  <2> QED
    BY <1>1, <2>1 DEF QueryClient, AccountsOK, PortfolioOK, LoopOK, MonthInv
<1>2. CASE QuoteNotConverged
  <2>1. ToolsOK'
    BY <1>2, EpisodeAssumption DEF ToolsOK, QuoteNotConverged, CanQuote, QuoteOK
  <2> QED
    BY <1>2, <2>1 DEF QuoteNotConverged, AccountsOK, PortfolioOK, LoopOK, MonthInv
<1>3. ASSUME NEW product \in Products, NEW mark \in Marks,
             NEW mandate \in BOOLEAN, NEW contract \in BOOLEAN,
             RequestQuote(product, mark, mandate, contract)
      PROVE  TypeOK' /\ MonthInv'
  <2> DEFINE quote == Quote(product, mark, mandate, contract)
  <2>1. QuoteOK(quote)
    BY <1>3, QuoteType DEF RequestQuote
  <2>2. /\ CanQuote
        /\ quote_count' = quote_count + 1
        /\ quotes' = quotes \cup {quote}
        /\ UNCHANGED <<round, submitted, query_count, memory, accounts, portfolio, loop>>
    BY <1>3 DEF RequestQuote
  <2> HIDE DEF quote
  <2>3. ToolsOK'
    BY <2>1, <2>2, EpisodeAssumption DEF ToolsOK, CanQuote, QuoteOK
  <2> QED
    BY <2>2, <2>3 DEF AccountsOK, PortfolioOK, LoopOK, MonthInv
<1>4. ASSUME NEW product \in Products, NEW mark \in Marks,
             NEW mandate \in BOOLEAN, NEW contract \in BOOLEAN,
             SubmitProduct(product, mark, mandate, contract)
      PROVE  TypeOK' /\ MonthInv'
  <2> DEFINE quote == Quote(product, mark, mandate, contract)
  <2>1. QuoteOK(quote)
    BY <1>4, QuoteType DEF SubmitProduct
  <2>2. /\ CanQuote
        /\ quote_count' = quote_count + 1
        /\ quotes' = quotes \cup {quote}
        /\ Settle(quote)
        /\ UNCHANGED <<round, query_count, loop>>
    BY <1>4 DEF SubmitProduct
  <2> HIDE DEF quote
  <2>3. /\ submitted' \in BOOLEAN
        /\ memory' \in [accepted : Nat, rejected : Nat]
        /\ AccountsOK' /\ PortfolioOK'
    BY <2>1, <2>2, SettleType
  <2>4. ToolsOK'
    BY <2>1, <2>2, <2>3, EpisodeAssumption DEF ToolsOK, CanQuote, QuoteOK
  <2> QED
    BY <2>2, <2>3, <2>4 DEF LoopOK, MonthInv
<1>5. ASSUME NEW quote \in quotes, SubmitDesign(quote)
      PROVE  TypeOK' /\ MonthInv'
  <2>1. QuoteOK(quote)
    BY DEF ToolsOK
  <2>2. /\ submitted' \in BOOLEAN
        /\ memory' \in [accepted : Nat, rejected : Nat]
        /\ AccountsOK' /\ PortfolioOK'
    BY <1>5, <2>1, SettleType DEF SubmitDesign
  <2>3. ToolsOK'
    BY <1>5, <2>2 DEF ToolsOK, SubmitDesign, QuoteOK
  <2> QED
    BY <1>5, <2>2, <2>3 DEF SubmitDesign, LoopOK, MonthInv
<1>6. CASE CloseRound
  BY <1>6 DEF CloseRound, ToolsOK, QuoteOK, AccountsOK, PortfolioOK, LoopOK, MonthInv
<1>7. CASE BeginAdvance
  <2>1. MonthInv'
    BY <1>7 DEF BeginAdvance, CanAdvance, MonthInv
  <2>2. LoopOK'
    BY <1>7, BeginType, EmptySeq DEF BeginAdvance
  <2> QED
    BY <1>7, <2>1, <2>2
    DEF BeginAdvance, ToolsOK, QuoteOK, AccountsOK, PortfolioOK
<1>8. ASSUME NEW exit \in {"none"} \cup EarlyExits, NEW mark \in Marks,
             NEW hedge \in HedgeMoves, NEW payoff \in Payoffs,
             AdvancePosition(exit, mark, hedge, payoff)
      PROVE  TypeOK' /\ MonthInv'
  <2> DEFINE p == Observed(positions[cursor], exit, mark, hedge)
  <2>1. positions[cursor] \in PositionRecord
    BY <1>8, AtPositionType DEF AdvancePosition
  <2>2. p \in PositionRecord
    BY <2>1, ObservedType, ContractAssumption, MoneyAssumption
  <2>3. /\ cursor <= Len(positions)
        /\ positions' = [positions EXCEPT ![cursor] = p]
        /\ IF Active(p)
           THEN /\ kept' = Append(kept, p)
                /\ UNCHANGED <<accounts, events, ledger>>
           ELSE /\ SettleEvent(ClosingEvent(p, payoff))
                /\ UNCHANGED kept
        /\ cursor' = cursor + 1
        /\ UNCHANGED <<round, tools, revision, phase, retries>>
    BY <1>8 DEF AdvancePosition, AtPosition
  <2> HIDE DEF p
  <2>4. positions' \in Seq(PositionRecord)
    BY <2>2, <2>3, UpdatePositionType DEF LoopOK
  <2>5. ToolsOK' /\ MonthInv'
    BY <2>3 DEF ToolsOK, QuoteOK, MonthInv
  <2>6. CASE Active(p)
    <3>1. LoopOK'
      BY <2>2, <2>3, <2>6, AppendProperties DEF LoopOK
    <3> QED
      BY <2>3, <2>4, <2>5, <2>6, <3>1 DEF AccountsOK, PortfolioOK
  <2>7. CASE ~ Active(p)
    <3>1. payoff \in Int
      BY MoneyAssumption
    <3>2. /\ AccountsOK'
          /\ events' \in Seq(EventRecord)
          /\ ledger' \in Seq(FlowRecord)
      BY <2>2, <2>3, <2>7, <3>1, SettleEventType
    <3>3. LoopOK'
      BY <2>3, <2>7 DEF LoopOK
    <3> QED
      BY <2>3, <2>4, <2>5, <3>2, <3>3 DEF PortfolioOK
  <2> QED
    BY <2>6, <2>7
<1>9. ASSUME NEW hedge \in HedgeMoves, RevaluationFails(hedge)
      PROVE  TypeOK' /\ MonthInv'
  <2> DEFINE accrued == IF SeenAlready(positions[cursor]) THEN 0 ELSE hedge
             p == [positions[cursor] EXCEPT !.hedge_pnl = @ + accrued,
                                            !.seen = round + 1,
                                            !.remaining = @ - 1]
  <2>1. positions[cursor] \in PositionRecord
    BY <1>9, AtPositionType DEF RevaluationFails
  <2>2. p \in PositionRecord
    <3>1. accrued \in Int /\ round + 1 \in Nat
      BY MoneyAssumption DEF ToolsOK
    <3> HIDE DEF accrued
    <3>2. /\ positions[cursor].hedge_pnl + accrued \in Int
          /\ positions[cursor].remaining - 1 \in Int
      BY <2>1, <3>1 DEF PositionRecord
    <3> QED
      BY <2>1, <3>1, <3>2 DEF PositionRecord
  <2>3. positions' = [positions EXCEPT ![cursor] = p]
    BY <1>9 DEF RevaluationFails
  <2> HIDE DEF p
  <2>4. positions' \in Seq(PositionRecord)
    BY <1>9, <2>2, <2>3, UpdatePositionType DEF LoopOK, RevaluationFails, AtPosition
  <2>5. ToolsOK' /\ MonthInv'
    BY <1>9 DEF RevaluationFails, ToolsOK, QuoteOK, MonthInv
  <2> QED
    BY <1>9, <2>4, <2>5 DEF RevaluationFails, AccountsOK, PortfolioOK, LoopOK
<1>10. ASSUME NEW capital \in Capitals, CompleteAdvance(capital)
       PROVE  TypeOK' /\ MonthInv'
  <2>1. AccountsOK'
    BY <1>10, ReconcileClientType, MoneyAssumption DEF AccountsOK, CompleteAdvance
  <2>2. round' \in 1 .. Rounds
    BY <1>10, EpisodeAssumption DEF ToolsOK, CompleteAdvance, MonthInv
  <2>3. ToolsOK'
    BY <1>10, <2>2, FreshToolsType DEF ToolsOK, CompleteAdvance, QuoteOK
  <2>4. PortfolioOK' /\ LoopOK' /\ MonthInv'
    BY <1>10, EmptySeq DEF PortfolioOK, LoopOK, CompleteAdvance, MonthInv
  <2> QED
    BY <2>1, <2>3, <2>4
<1>11. ASSUME NEW capital \in Capitals, AdvanceStatic(capital)
       PROVE  TypeOK' /\ MonthInv'
  <2>1. client' \in ClientAccount
    <3>1. ResetClient(client) \in ClientAccount
      BY OpenClientType DEF AccountsOK, ResetClient, ClientAccount
    <3> QED
      BY <1>11, <3>1, ReconcileClientType, MoneyAssumption DEF AdvanceStatic
  <2>2. dealer' \in DealerAccount
    BY <1>11, OpenDealerType DEF AccountsOK, AdvanceStatic, ResetDealer, DealerAccount
  <2>3. round' \in 1 .. Rounds
    BY <1>11, EpisodeAssumption DEF ToolsOK, AdvanceStatic, CanAdvance
  <2>4. ToolsOK'
    BY <1>11, <2>3, FreshToolsType DEF ToolsOK, AdvanceStatic, QuoteOK
  <2>5. PortfolioOK'
    BY <1>11, EmptySeq DEF PortfolioOK, AdvanceStatic
  <2>6. LoopOK'
    BY <1>11 DEF AdvanceStatic, LoopOK
  <2>7. MonthInv'
    BY <1>11 DEF AdvanceStatic, CanAdvance, Ready, MonthInv
  <2> QED
    BY <2>1, <2>2, <2>4, <2>5, <2>6, <2>7 DEF AccountsOK
<1>12. CASE BeginLiquidation
  <2>1. MonthInv'
    BY <1>12 DEF BeginLiquidation, Begin, MonthInv
  <2>2. LoopOK'
    BY <1>12, BeginType DEF BeginLiquidation, LoopOK
  <2> QED
    BY <1>12, <2>1, <2>2
    DEF BeginLiquidation, ToolsOK, QuoteOK, AccountsOK, PortfolioOK
<1>13. CASE LiquidatePosition
  <2> DEFINE p == [positions[cursor] EXCEPT !.status = "horizon_liquidated"]
  <2>1. positions[cursor] \in PositionRecord
    BY <1>13, AtPositionType DEF LiquidatePosition
  <2>2. p \in PositionRecord /\ p.fair_value \in Int
    BY <2>1 DEF PositionRecord, Statuses
  <2>3. /\ cursor <= Len(positions)
        /\ positions' = [positions EXCEPT ![cursor] = p]
        /\ SettleEvent(ClosingEvent(p, p.fair_value))
        /\ cursor' = cursor + 1
        /\ UNCHANGED <<round, tools, revision, phase, kept, retries>>
    BY <1>13 DEF LiquidatePosition, AtPosition
  <2> HIDE DEF p
  <2>4. positions' \in Seq(PositionRecord)
    BY <2>2, <2>3, UpdatePositionType DEF LoopOK
  <2>5. /\ AccountsOK'
        /\ events' \in Seq(EventRecord)
        /\ ledger' \in Seq(FlowRecord)
    BY <2>2, <2>3, SettleEventType
  <2>6. ToolsOK' /\ LoopOK' /\ MonthInv'
    BY <2>3 DEF ToolsOK, QuoteOK, LoopOK, MonthInv
  <2> QED
    BY <2>3, <2>4, <2>5, <2>6 DEF PortfolioOK
<1>14. CASE CompleteLiquidation
  BY <1>14, EmptySeq
  DEF CompleteLiquidation, ToolsOK, QuoteOK, AccountsOK, PortfolioOK, LoopOK, MonthInv
<1>15. CASE UNCHANGED core
  BY <1>15 DEF core, ToolsOK, QuoteOK, AccountsOK, PortfolioOK, LoopOK, MonthInv
<1>16. ASSUME NEW exit \in {"none"} \cup EarlyExits, NEW mark \in Marks,
              NEW hedge \in HedgeMoves, NEW payoff \in Payoffs,
              SettlementRaises(exit, mark, hedge, payoff)
       PROVE  TypeOK' /\ MonthInv'
  <2> DEFINE p == Observed(positions[cursor], exit, mark, hedge)
  <2>1. positions[cursor] \in PositionRecord
    BY <1>16, AtPositionType DEF SettlementRaises
  <2>2. p \in PositionRecord /\ payoff \in Int
    BY <2>1, ObservedType, ContractAssumption, MoneyAssumption
  <2>3. /\ cursor <= Len(positions)
        /\ positions' = [positions EXCEPT ![cursor] = p]
        /\ SettlementRefused(ClosingEvent(p, payoff))
        /\ UNCHANGED <<round, tools, revision>>
    BY <1>16 DEF SettlementRaises, AtPosition
  <2> HIDE DEF p
  <2> QED
    BY <2>2, <2>3, RefusedType
<1>17. CASE LiquidationRaises
  <2> DEFINE p == [positions[cursor] EXCEPT !.status = "horizon_liquidated"]
  <2>1. positions[cursor] \in PositionRecord
    BY <1>17, AtPositionType DEF LiquidationRaises
  <2>2. p \in PositionRecord /\ p.fair_value \in Int
    BY <2>1 DEF PositionRecord, Statuses
  <2>3. /\ cursor <= Len(positions)
        /\ positions' = [positions EXCEPT ![cursor] = p]
        /\ SettlementRefused(ClosingEvent(p, p.fair_value))
        /\ UNCHANGED <<round, tools, revision>>
    BY <1>17 DEF LiquidationRaises, AtPosition
  <2> HIDE DEF p
  <2> QED
    BY <2>2, <2>3, RefusedType
<1> QED
  BY <1>1, <1>2, <1>3, <1>4, <1>5, <1>6, <1>7, <1>8, <1>9, <1>10, <1>11, <1>12,
     <1>13, <1>14, <1>15, <1>16, <1>17
  DEF Next, Tool, Advance, ObserveNextPosition, AdvanceRaises, Liquidate

\* Every reachable state is well typed; in particular the client's cash, what
\* it has locked and what it owes never fall below zero, whatever is quoted,
\* settled, marked and withdrawn.
THEOREM TypeCorrect == Spec => []TypeOK
<1>1. Spec => []TypeInv
  BY InitTypeInv, NextTypeInv, PTL DEF Spec
<1>2. TypeInv => TypeOK
  BY DEF TypeInv
<1> QED
  BY <1>1, <1>2, PTL

-----------------------------------------------------------------------------
(* The five ways the accounts move in a step: not at all, an issue, a      *)
(* settlement, a round's capital, the reset of a static round.             *)

Issued == \E amount \in Nat : /\ CanIssue(client, amount)
                              /\ client' = IssueClient(client, amount)
                              /\ dealer' = IssueDealer(dealer, amount)
                              /\ UNCHANGED events

Settled == \E p \in PositionRecord, payoff \in Int : SettleEvent(ClosingEvent(p, payoff))

Reconciled == \E capital \in Nat : /\ client' = ReconcileClient(client, capital)
                                   /\ UNCHANGED <<dealer, events>>

Restarted == \E capital \in Nat : /\ client' = ReconcileClient(ResetClient(client), capital)
                                  /\ dealer' = ResetDealer(dealer)
                                  /\ events' = << >>

\* A submission issues one contract or leaves the accounts alone.
LEMMA SettleMoves ==
  ASSUME TypeOK, NEW quote, QuoteOK(quote), Settle(quote)
  PROVE  UNCHANGED <<accounts, events>> \/ Issued
<1>1. CASE Accepted(quote) /\ Dynamic
  <2>1. AddPosition(Position(quote))
    BY <1>1 DEF Settle
  <2>2. Position(quote).outlay = quote.product.outlay
    BY DEF Position
  <2>3. quote.product.outlay \in Nat /\ CanIssue(client, quote.product.outlay)
    BY <1>1 DEF QuoteOK, Product, Accepted
  <2> QED
    BY <2>1, <2>2, <2>3 DEF AddPosition, Issued
<1>2. CASE ~ (Accepted(quote) /\ Dynamic)
  BY <1>2 DEF Settle, portfolio
<1> QED
  BY <1>1, <1>2

\* Every step moves the accounts in one of four ways, or not at all: so an
\* invariant of the accounts is shown for an issue, a settlement, a change of the
\* scheduled capital and a restart.
LEMMA AccountsMove ==
  ASSUME TypeInv, [Next]_core
  PROVE  UNCHANGED accounts \/ Issued \/ Settled \/ Reconciled \/ Restarted
<1> USE DEF TypeInv, TypeOK
<1>1. CASE QueryClient \/ QuoteNotConverged \/ CloseRound \/ BeginAdvance
             \/ BeginLiquidation \/ CompleteLiquidation \/ UNCHANGED core
  BY <1>1 DEF QueryClient, QuoteNotConverged, CloseRound, BeginAdvance,
              BeginLiquidation, CompleteLiquidation, core, portfolio
<1>2. ASSUME NEW product \in Products, NEW mark \in Marks,
             NEW mandate \in BOOLEAN, NEW contract \in BOOLEAN,
             RequestQuote(product, mark, mandate, contract)
      PROVE  UNCHANGED accounts
  BY <1>2 DEF RequestQuote, portfolio
<1>3. ASSUME NEW product \in Products, NEW mark \in Marks,
             NEW mandate \in BOOLEAN, NEW contract \in BOOLEAN,
             SubmitProduct(product, mark, mandate, contract)
      PROVE  UNCHANGED accounts \/ Issued
  BY <1>3, QuoteType, SettleMoves DEF SubmitProduct
<1>4. ASSUME NEW quote \in quotes, SubmitDesign(quote)
      PROVE  UNCHANGED accounts \/ Issued
  BY <1>4, SettleMoves DEF SubmitDesign, ToolsOK
<1>5. ASSUME NEW exit \in {"none"} \cup EarlyExits, NEW mark \in Marks,
             NEW hedge \in HedgeMoves, NEW payoff \in Payoffs,
             AdvancePosition(exit, mark, hedge, payoff)
      PROVE  UNCHANGED accounts \/ Settled
  <2> DEFINE p == Observed(positions[cursor], exit, mark, hedge)
  <2>1. p \in PositionRecord
    BY <1>5, AtPositionType, ObservedType, ContractAssumption, MoneyAssumption
    DEF AdvancePosition
  <2>2. \/ UNCHANGED accounts
        \/ SettleEvent(ClosingEvent(p, payoff))
    BY <1>5 DEF AdvancePosition
  <2> HIDE DEF p
  <2> QED
    BY <2>1, <2>2, MoneyAssumption DEF Settled
<1>6. CASE AdvanceRaises
  <2>1. ASSUME NEW hedge \in HedgeMoves, RevaluationFails(hedge)
        PROVE  UNCHANGED accounts
    BY <2>1 DEF RevaluationFails
  <2>2. ASSUME NEW exit, NEW mark, NEW hedge, NEW payoff,
               SettlementRaises(exit, mark, hedge, payoff)
        PROVE  UNCHANGED accounts
    BY <2>2 DEF SettlementRaises, SettlementRefused
  <2> QED
    BY <1>6, <2>1, <2>2 DEF AdvanceRaises
<1>7. ASSUME NEW capital \in Capitals, CompleteAdvance(capital)
      PROVE  Reconciled
  BY <1>7, MoneyAssumption DEF CompleteAdvance, Reconciled
<1>8. ASSUME NEW capital \in Capitals, AdvanceStatic(capital)
      PROVE  Restarted
  BY <1>8, MoneyAssumption DEF AdvanceStatic, Restarted
<1>9. CASE LiquidatePosition
  <2> DEFINE p == [positions[cursor] EXCEPT !.status = "horizon_liquidated"]
  <2>1. positions[cursor] \in PositionRecord
    BY <1>9, AtPositionType DEF LiquidatePosition
  <2>2. p \in PositionRecord /\ p.fair_value \in Int
    BY <2>1 DEF PositionRecord, Statuses
  <2>3. SettleEvent(ClosingEvent(p, p.fair_value))
    BY <1>9 DEF LiquidatePosition
  <2> HIDE DEF p
  <2> QED
    BY <2>2, <2>3 DEF Settled
<1>10. CASE LiquidationRaises
  BY <1>10 DEF LiquidationRaises, SettlementRefused
<1> QED
  BY <1>1, <1>2, <1>3, <1>4, <1>5, <1>6, <1>7, <1>8, <1>9, <1>10
  DEF Next, Tool, Advance, ObserveNextPosition, Liquidate

-----------------------------------------------------------------------------
(* The books.                                                              *)

\* Each of the four keeps the books,
LEMMA NextBooksBalance ==
  ASSUME TypeInv, BooksBalance, [Next]_core
  PROVE  BooksBalance'
<1> USE DEF TypeInv, TypeOK, AccountsOK
<1>1. CASE UNCHANGED accounts
  BY <1>1 DEF accounts, BooksBalance, ClientBalances, DealerBalances
<1>2. CASE Issued
  BY <1>2, IssueClientBalances, IssueDealerBalances DEF Issued, BooksBalance
<1>3. CASE Settled
  <2>1. PICK p \in PositionRecord, payoff \in Int : SettleEvent(ClosingEvent(p, payoff))
    BY <1>3 DEF Settled
  <2> DEFINE event == ClosingEvent(p, payoff)
  <2>4. retries \in Nat /\ p.outlay \in Nat
    BY DEF LoopOK, PositionRecord
  <2>2. event.outlay \in Nat /\ event.settlement \in Nat /\ event.hedge_pnl \in Int
    BY <2>4, ClosingEventType
  <2>3. /\ client' = SettleClient(client, event.outlay, event.settlement)
        /\ dealer' = SettleDealer(dealer, event)
    BY <2>1 DEF SettleEvent
  <2> HIDE DEF event
  <2> QED
    BY <2>2, <2>3, SettleClientBalances, SettleDealerBalances DEF BooksBalance
<1>4. CASE Reconciled
  BY <1>4, ReconcileClientBalances DEF Reconciled, BooksBalance
<1>5. CASE Restarted
  <2>1. client.initial_cash \in Nat /\ dealer.risk_capital_limit \in Nat
    BY DEF ClientAccount, DealerAccount
  <2>2. /\ ResetClient(client) \in ClientAccount /\ ClientBalances(ResetClient(client))
        /\ DealerBalances(ResetDealer(dealer))
    BY <2>1, OpenClientType, OpenDealerType DEF ResetClient, ResetDealer
  <2> QED
    BY <1>5, <2>2, ReconcileClientBalances DEF Restarted, BooksBalance
<1> QED
  BY <1>1, <1>2, <1>3, <1>4, <1>5, AccountsMove

\* and the mirror.
LEMMA NextAccountsMirror ==
  ASSUME TypeInv, AccountsMirror, [Next]_core
  PROVE  AccountsMirror'
<1> USE DEF TypeInv, TypeOK, AccountsOK
<1>1. CASE UNCHANGED accounts
  BY <1>1 DEF accounts, AccountsMirror, Mirrors
<1>2. CASE Issued
  BY <1>2, IssueMirrors DEF Issued, AccountsMirror
<1>3. CASE Settled
  <2>1. PICK p \in PositionRecord, payoff \in Int : SettleEvent(ClosingEvent(p, payoff))
    BY <1>3 DEF Settled
  <2> DEFINE event == ClosingEvent(p, payoff)
  <2>4. retries \in Nat /\ p.outlay \in Nat
    BY DEF LoopOK, PositionRecord
  <2>2. /\ event.outlay \in Nat /\ event.settlement \in Nat /\ event.hedge_pnl \in Int
        /\ event.liability_pnl = event.outlay - event.settlement
        /\ event.hedged_pnl = event.hedge_pnl + event.liability_pnl
    BY <2>4, ClosingEventType
  <2>3. /\ client' = SettleClient(client, event.outlay, event.settlement)
        /\ dealer' = SettleDealer(dealer, event)
    BY <2>1 DEF SettleEvent
  <2> HIDE DEF event
  <2> QED
    BY <2>2, <2>3, SettleMirrors DEF AccountsMirror
<1>4. CASE Reconciled
  BY <1>4, ReconcileMirrors DEF Reconciled, AccountsMirror
<1>5. CASE Restarted
  <2>1. client.initial_cash \in Nat /\ dealer.risk_capital_limit \in Nat
    BY DEF ClientAccount, DealerAccount
  <2>2. /\ ResetClient(client) \in ClientAccount /\ ResetDealer(dealer) \in DealerAccount
        /\ Mirrors(ResetDealer(dealer), ResetClient(client))
    BY <2>1, OpenClientType, OpenDealerType, OpenAccountsMirror DEF ResetClient, ResetDealer
  <2> QED
    BY <1>5, <2>2, ReconcileMirrors DEF Restarted, AccountsMirror
<1> QED
  BY <1>1, <1>2, <1>3, <1>4, <1>5, AccountsMove

\* Both hold before the first round.
LEMMA InitBooks == Init => BooksBalance /\ AccountsMirror
  BY MoneyAssumption, OpenClientType, OpenDealerType, OpenAccountsMirror
  DEF Init, BooksBalance, AccountsMirror

\* Cash is neither made nor lost by any interleaving of issues, settlements,
\* capital increases, capital cuts that could not be paid and later payments
\* of what they left owing.
THEOREM BooksAlwaysBalance == Spec => []BooksBalance
<1>1. Init => TypeInv /\ BooksBalance
  BY InitTypeInv, InitBooks
<1>2. (TypeInv /\ BooksBalance) /\ [Next]_core => (TypeInv /\ BooksBalance)'
  BY NextTypeInv, NextBooksBalance
<1> QED
  BY <1>1, <1>2, PTL DEF Spec

\* The dealer's account is the mirror of the client's at every step.
THEOREM AccountsAlwaysMirror == Spec => []AccountsMirror
<1>1. Init => TypeInv /\ AccountsMirror
  BY InitTypeInv, InitBooks
<1>2. (TypeInv /\ AccountsMirror) /\ [Next]_core => (TypeInv /\ AccountsMirror)'
  BY NextTypeInv, NextAccountsMirror
<1> QED
  BY <1>1, <1>2, PTL DEF Spec

\* A settlement pays what the client owes before anything can be invested.
THEOREM OwedIsPaidFirst == Spec => OwedBeforeInvestable
<1>1. ASSUME TypeInv, [Next]_core
      PROVE  [Len(events') > Len(events) /\ client'.pending_withdrawal > 0
               => client'.available_cash = client.available_cash]_core
  <2> SUFFICES ASSUME Len(events') > Len(events), client'.pending_withdrawal > 0
               PROVE  client'.available_cash = client.available_cash
    OBVIOUS
  <2>1. Len(events) \in Nat
    BY <1>1, LenProperties DEF TypeInv, TypeOK, PortfolioOK
  <2>2. ~ UNCHANGED events /\ events' # << >>
    BY <2>1
  <2>3. UNCHANGED accounts \/ Settled
    BY <1>1, <2>2, AccountsMove DEF Issued, Reconciled, Restarted
  <2>4. CASE UNCHANGED accounts
    BY <2>4 DEF accounts
  <2>5. CASE Settled
    <3>1. PICK p \in PositionRecord, payoff \in Int : SettleEvent(ClosingEvent(p, payoff))
      BY <2>5 DEF Settled
    <3> DEFINE event == ClosingEvent(p, payoff)
    <3>2. event.outlay \in Nat /\ event.settlement \in Nat
      BY <1>1, ClosingEventType DEF PositionRecord, TypeInv, TypeOK, LoopOK
    <3>3. client' = SettleClient(client, event.outlay, event.settlement)
      BY <3>1 DEF SettleEvent
    <3> HIDE DEF event
    <3> QED
      BY <1>1, <3>2, <3>3, SettleClientPaysOwed DEF TypeInv, TypeOK, AccountsOK
  <2> QED
    BY <2>3, <2>4, <2>5
<1> QED
  BY <1>1, InitTypeInv, NextTypeInv, PTL DEF Spec, OwedBeforeInvestable

-----------------------------------------------------------------------------
(* Quotes.                                                                 *)

\* What a quote is bound to is unchanged when what it is computed from is.
LEMMA SameStateVersion ==
  ASSUME UNCHANGED <<round, memory, client, dealer, positions, events, revision>>
  PROVE  StateVersion' = StateVersion
  BY DEF StateVersion, ActiveNotional, ActiveFairValue, ActiveStress

\* What raises leaves the environment in the middle of a loop.
LEMMA RaisingFails ==
  ASSUME AdvanceRaises \/ LiquidationRaises
  PROVE  phase \in {"advancing", "liquidating"} /\ phase' = "failed"
<1>1. ASSUME NEW hedge \in HedgeMoves, RevaluationFails(hedge)
      PROVE  phase = "advancing" /\ phase' = "failed"
  BY <1>1 DEF RevaluationFails, AtPosition
<1>2. ASSUME NEW exit, NEW mark, NEW hedge, NEW payoff,
             SettlementRaises(exit, mark, hedge, payoff)
      PROVE  phase = "advancing" /\ phase' = "failed"
  BY <1>2 DEF SettlementRaises, SettlementRefused, AtPosition
<1>3. ASSUME LiquidationRaises
      PROVE  phase = "liquidating" /\ phase' = "failed"
  BY <1>3 DEF LiquidationRaises, SettlementRefused, AtPosition
<1> QED
  BY <1>1, <1>2, <1>3 DEF AdvanceRaises

\* Every step that changes what a quote is bound to has submitted the round, or
\* forgets its quotes.
LEMMA NextQuotesStayFresh ==
  ASSUME QuotesStayFresh, [Next]_core
  PROVE  QuotesStayFresh'
<1> USE DEF tools, accounts, portfolio, loop
<1>1. CASE QueryClient \/ QuoteNotConverged \/ UNCHANGED core
  <2>1. UNCHANGED <<round, memory, client, dealer, positions, events, revision>>
    BY <1>1 DEF QueryClient, QuoteNotConverged, core
  <2>2. UNCHANGED <<phase, submitted, quotes>>
    BY <1>1 DEF QueryClient, QuoteNotConverged, core
  <2> QED
    BY <2>1, <2>2, SameStateVersion DEF QuotesStayFresh
<1>2. ASSUME NEW product \in Products, NEW mark \in Marks,
             NEW mandate \in BOOLEAN, NEW contract \in BOOLEAN,
             RequestQuote(product, mark, mandate, contract)
      PROVE  QuotesStayFresh'
  <2>1. UNCHANGED <<round, memory, client, dealer, positions, events, revision>>
    BY <1>2 DEF RequestQuote
  <2>2. StateVersion' = StateVersion
    BY <2>1, SameStateVersion
  <2>3. Quote(product, mark, mandate, contract).version = StateVersion
    BY DEF Quote
  <2>4. /\ UNCHANGED phase /\ ~ submitted
        /\ quotes' = quotes \cup {Quote(product, mark, mandate, contract)}
    BY <1>2 DEF RequestQuote, CanQuote
  <2> QED
    BY <2>2, <2>3, <2>4 DEF QuotesStayFresh
<1>3. CASE submitted' \/ phase' # "idle" \/ quotes' = {}
  BY <1>3 DEF QuotesStayFresh
<1>4. ASSUME NEW product \in Products, NEW mark \in Marks,
             NEW mandate \in BOOLEAN, NEW contract \in BOOLEAN,
             SubmitProduct(product, mark, mandate, contract)
      PROVE  submitted'
  BY <1>4 DEF SubmitProduct, Settle
<1>5. ASSUME NEW quote \in quotes, SubmitDesign(quote)
      PROVE  submitted'
  BY <1>5 DEF SubmitDesign, Settle
<1>6. CASE CloseRound
  BY <1>3, <1>6 DEF CloseRound
<1>7. CASE BeginAdvance \/ BeginLiquidation \/ CompleteLiquidation
  BY <1>3, <1>7 DEF BeginAdvance, BeginLiquidation, CompleteLiquidation, Begin
<1>8. ASSUME NEW exit \in {"none"} \cup EarlyExits, NEW mark \in Marks,
             NEW hedge \in HedgeMoves, NEW payoff \in Payoffs,
             AdvancePosition(exit, mark, hedge, payoff)
      PROVE  phase' # "idle"
  BY <1>8 DEF AdvancePosition, AtPosition
<1>9. CASE AdvanceRaises
  <2>1. phase' # "idle"
    BY <1>9, RaisingFails
  <2> QED
    BY <1>3, <2>1
<1>10. ASSUME NEW capital \in Capitals,
              CompleteAdvance(capital) \/ AdvanceStatic(capital)
       PROVE  quotes' = {}
  BY <1>10 DEF CompleteAdvance, AdvanceStatic, FreshTools
<1>11. CASE LiquidatePosition \/ LiquidationRaises
  BY <1>3, <1>11, RaisingFails DEF LiquidatePosition, AtPosition
<1> QED
  BY <1>1, <1>2, <1>3, <1>4, <1>5, <1>6, <1>7, <1>8, <1>9, <1>10, <1>11
  DEF Next, Tool, Advance, ObserveNextPosition, Liquidate

\* A stored quote of a round that is not yet submitted never expires.
THEOREM QuotesNeverExpire == Spec => []QuotesStayFresh
<1>1. Init => QuotesStayFresh
  BY DEF Init, QuotesStayFresh
<1>2. QuotesStayFresh /\ [Next]_core => QuotesStayFresh'
  BY NextQuotesStayFresh
<1> QED
  BY <1>1, <1>2, PTL DEF Spec

-----------------------------------------------------------------------------
(* Static rounds.                                                          *)

StaticInv == StaticRoundsStartFresh /\ (~ Dynamic => phase = "idle")

\* An account that opens with the scheduled capital has nothing to reconcile.
LEMMA OpenIsReconciled ==
  ASSUME NEW cash \in Nat
  PROVE  ReconcileClient(OpenClient(cash), cash) = OpenClient(cash)
<1>1. cash - cash = 0 /\ cash + 0 = cash /\ 0 + 0 = 0 /\ 0 >= 0
  OBVIOUS
<1>2. OpenClient(cash).scheduled_capital = cash
  BY DEF OpenClient
<1>3. ReconcileClient(OpenClient(cash), cash)
        = [ OpenClient(cash) EXCEPT !.scheduled_capital = cash,
                                    !.available_cash    = @ + 0,
                                    !.external_inflows  = @ + 0 ]
  BY <1>1, <1>2 DEF ReconcileClient
<1> QED
  BY <1>1, <1>3 DEF OpenClient

\* What a reconciliation leaves of the account's opening cash, and what it records.
LEMMA ReconcileNamesCapital ==
  ASSUME NEW cash \in Nat, NEW capital \in Nat
  PROVE  LET acct == ReconcileClient(OpenClient(cash), capital)
         IN  acct.initial_cash = cash /\ acct.scheduled_capital = capital
  BY DEF ReconcileClient, OpenClient

\* The static condition's invariant holds initially,
LEMMA InitStaticInv == Init => StaticInv
<1> SUFFICES ASSUME Init, ~ Dynamic PROVE StaticInv
  BY DEF StaticInv, StaticRoundsStartFresh
<1>1. PICK cash \in Nat : client = OpenClient(cash)
  BY MoneyAssumption DEF Init
<1>2. client.initial_cash = cash /\ client.scheduled_capital = cash
  BY <1>1 DEF OpenClient
<1>3. client = ReconcileClient(OpenClient(client.initial_cash), client.scheduled_capital)
  BY <1>1, <1>2, OpenIsReconciled
<1> QED
  BY <1>3 DEF Init, StaticInv, StaticRoundsStartFresh

\* a submission keeps it, for it issues nothing,
LEMMA SettleStatic ==
  ASSUME TypeOK, StaticInv, ~ Dynamic, ~ submitted, NEW quote, Settle(quote)
  PROVE  StaticRoundsStartFresh'
<1>1. memory.accepted = 0 /\ memory.rejected = 0
  BY DEF StaticInv, StaticRoundsStartFresh, TypeOK, ToolsOK
<1>2. submitted' = TRUE /\ UNCHANGED <<client, dealer, positions>>
  BY DEF Settle, accounts, portfolio
<1>3. memory'.accepted + memory'.rejected = 1
  <2>1. CASE Accepted(quote)
    BY <1>1, <2>1 DEF Settle, TypeOK, ToolsOK
  <2>2. CASE ~ Accepted(quote)
    BY <1>1, <2>2 DEF Settle, TypeOK, ToolsOK
  <2> QED
    BY <2>1, <2>2
<1> QED
  BY <1>2, <1>3 DEF StaticInv, StaticRoundsStartFresh

\* and so does every step.
LEMMA NextStaticInv ==
  ASSUME TypeInv, StaticInv, [Next]_core
  PROVE  StaticInv'
<1> SUFFICES ASSUME ~ Dynamic PROVE StaticRoundsStartFresh' /\ phase' = "idle"
  BY DEF StaticInv, StaticRoundsStartFresh
<1> USE DEF tools, accounts, portfolio, loop
<1>1. phase = "idle"
  BY DEF StaticInv
<1>2. CASE QueryClient \/ QuoteNotConverged \/ UNCHANGED core
  BY <1>1, <1>2
  DEF QueryClient, QuoteNotConverged, core, StaticInv, StaticRoundsStartFresh
<1>3. ASSUME NEW product \in Products, NEW mark \in Marks,
             NEW mandate \in BOOLEAN, NEW contract \in BOOLEAN,
             RequestQuote(product, mark, mandate, contract)
      PROVE  StaticRoundsStartFresh' /\ phase' = "idle"
  BY <1>1, <1>3 DEF RequestQuote, StaticInv, StaticRoundsStartFresh
<1>4. ASSUME NEW product \in Products, NEW mark \in Marks,
             NEW mandate \in BOOLEAN, NEW contract \in BOOLEAN,
             SubmitProduct(product, mark, mandate, contract)
      PROVE  StaticRoundsStartFresh' /\ phase' = "idle"
  <2>1. StaticRoundsStartFresh'
    BY <1>4, SettleStatic DEF SubmitProduct, CanQuote, TypeInv
  <2> QED
    BY <1>1, <1>4, <2>1 DEF SubmitProduct
<1>5. ASSUME NEW quote \in quotes, SubmitDesign(quote)
      PROVE  StaticRoundsStartFresh' /\ phase' = "idle"
  <2>1. StaticRoundsStartFresh'
    BY <1>5, SettleStatic DEF SubmitDesign, CanSubmit, TypeInv
  <2> QED
    BY <1>1, <1>5, <2>1 DEF SubmitDesign
<1>6. CASE CloseRound
  <2>1. memory.accepted + memory.rejected <= 1
    <3>1. memory.accepted \in Nat /\ memory.rejected \in Nat
      BY DEF TypeInv, TypeOK, ToolsOK
    <3>2. memory.accepted + memory.rejected <= (IF submitted THEN 1 ELSE 0)
      BY DEF StaticInv, StaticRoundsStartFresh
    <3> QED
      BY <3>1, <3>2
  <2> QED
    BY <1>1, <1>6, <2>1 DEF CloseRound, StaticInv, StaticRoundsStartFresh
<1>7. ASSUME NEW capital \in Capitals, AdvanceStatic(capital)
      PROVE  StaticRoundsStartFresh' /\ phase' = "idle"
  <2>1. client.initial_cash \in Nat /\ capital \in Nat
    BY MoneyAssumption DEF TypeInv, TypeOK, AccountsOK, ClientAccount
  <2>2. client' = ReconcileClient(OpenClient(client.initial_cash), capital)
    BY <1>7 DEF AdvanceStatic, ResetClient
  <2>3. client'.initial_cash = client.initial_cash /\ client'.scheduled_capital = capital
    BY <2>1, <2>2, ReconcileNamesCapital
  <2>4. dealer' = OpenDealer(RiskLimit)
    BY <1>7 DEF AdvanceStatic, ResetDealer, OpenDealer, StaticInv, StaticRoundsStartFresh
  <2>5. memory'.accepted + memory'.rejected = 0 /\ positions' = << >> /\ phase' = "idle"
    BY <1>1, <1>7 DEF AdvanceStatic
  <2>6. submitted' = FALSE
    BY <1>7 DEF AdvanceStatic, FreshTools
  <2> QED
    BY <2>2, <2>3, <2>4, <2>5, <2>6 DEF StaticRoundsStartFresh
<1>8. /\ ~ BeginAdvance /\ ~ BeginLiquidation /\ ~ LiquidatePosition /\ ~ CompleteLiquidation
      /\ ~ ObserveNextPosition
      /\ ~ AdvanceRaises /\ ~ LiquidationRaises
      /\ \A capital \in Capitals : ~ CompleteAdvance(capital)
  BY <1>1, RaisingFails
  DEF BeginAdvance, BeginLiquidation, LiquidatePosition, CompleteLiquidation,
      ObserveNextPosition, AdvancePosition, CompleteAdvance, AtPosition
<1> QED
  BY <1>2, <1>3, <1>4, <1>5, <1>6, <1>7, <1>8 DEF Next, Tool, Advance, Liquidate

\* Static rounds are independent of each other.
THEOREM StaticRoundsAreIndependent == Spec => []StaticRoundsStartFresh
<1>1. Init => TypeInv /\ StaticInv
  BY InitTypeInv, InitStaticInv
<1>2. (TypeInv /\ StaticInv) /\ [Next]_core => (TypeInv /\ StaticInv)'
  BY NextTypeInv, NextStaticInv
<1>3. StaticInv => StaticRoundsStartFresh
  BY DEF StaticInv
<1> QED
  BY <1>1, <1>2, <1>3, PTL DEF Spec

-----------------------------------------------------------------------------
(* Every contract is settled exactly once, and a round issues at most one; *)
(* a month that raised and is run again settles anew what it had settled.  *)

\* Contracts are numbered by the round that issued them, and a round issues
\* only when it is submitted; quotes are numbered by their round.
RoundInv ==
  /\ \A id \in EventIds \cup PositionIds :
       id[1] <= round /\ (id[1] = round => submitted)
  /\ \A q \in quotes : q.id[1] = round

\* No call settles a contract twice; what is listed is there once, and is
\* active exactly as long as no event names it.
SettledPerCall ==
  /\ \A i, j \in DOMAIN events :
       events[i].id = events[j].id => i = j \/ events[i].attempt # events[j].attempt
  /\ \A i, j \in DOMAIN positions : positions[i].id = positions[j].id => i = j
  /\ \A i \in DOMAIN positions : Active(positions[i]) <=> positions[i].id \notin EventIds

\* An event of this attempt at the month that names the contract.
SettledNow(id) ==
  \E k \in DOMAIN events : events[k].id = id /\ events[k].attempt = retries

\* A loop settles no contract before it is there: what this attempt has not
\* reached it has not settled.  Between the loops everything listed is active.
ReachedInv ==
  /\ \A k \in DOMAIN events : events[k].attempt <= retries
  /\ phase = "idle" => \A i \in DOMAIN positions : Active(positions[i])
  /\ phase \in {"advancing", "liquidating"} =>
       \A i \in DOMAIN positions : i >= cursor => ~ SettledNow(positions[i].id)

\* What the month's loop keeps are listed contracts, each of them once.
KeptInv ==
  phase = "advancing" =>
    /\ \A k \in DOMAIN kept : \E i \in DOMAIN positions :
         i < cursor /\ kept[k] = positions[i] /\ Active(kept[k])
    /\ \A j, k \in DOMAIN kept : kept[j].id = kept[k].id => j = k

SettleInv == SettledPerCall /\ OneTradePerRound /\ RoundInv /\ ReachedInv /\ KeptInv

-----------------------------------------------------------------------------
(* Sequences of contracts and of events.                                   *)

\* The list of contracts as a function.
LEMMA PositionsDomain ==
  ASSUME PortfolioOK
  PROVE  /\ Len(positions) \in Nat
         /\ DOMAIN positions = 1 .. Len(positions)
         /\ \A i \in DOMAIN positions : positions[i] \in PositionRecord
  BY LenProperties, ElementOfSeq DEF PortfolioOK

\* The list of closing events as a function.
LEMMA EventsDomain ==
  ASSUME PortfolioOK
  PROVE  /\ Len(events) \in Nat
         /\ DOMAIN events = 1 .. Len(events)
         /\ \A k \in DOMAIN events : events[k] \in EventRecord
  BY LenProperties, ElementOfSeq DEF PortfolioOK

\* Every identifier in use is one of a quote.
LEMMA IdsAreQuoteIds ==
  ASSUME PortfolioOK
  PROVE  EventIds \cup PositionIds \subseteq QuoteId
<1>1. \A i \in DOMAIN events : events[i] \in EventRecord
  BY EventsDomain, ElementOfSeq DEF PortfolioOK
<1> QED
  BY <1>1, PositionsDomain DEF EventIds, PositionIds, EventRecord, PositionRecord

\* What appending a contract changes, and what it leaves.
LEMMA AppendedPosition ==
  ASSUME PortfolioOK, NEW p \in PositionRecord, positions' = Append(positions, p)
  PROVE  /\ DOMAIN positions' = 1 .. Len(positions) + 1
         /\ \A i \in DOMAIN positions : positions'[i] = positions[i]
         /\ positions'[Len(positions) + 1] = p
         /\ PositionIds' = PositionIds \cup {p.id}
<1> DEFINE n == Len(positions)
<1>1. n \in Nat /\ DOMAIN positions = 1 .. n
  BY PositionsDomain
<1>2. /\ positions' \in Seq(PositionRecord)
      /\ Len(positions') = n + 1
      /\ \A i \in 1 .. n : positions'[i] = positions[i]
      /\ positions'[n + 1] = p
  BY AppendProperties DEF PortfolioOK
<1>3. DOMAIN positions' = 1 .. n + 1
  BY <1>2, LenProperties
<1>4. 1 .. n + 1 = (1 .. n) \cup {n + 1}
  BY <1>1
<1> HIDE DEF n
<1>5. PositionIds' = PositionIds \cup {p.id}
  BY <1>1, <1>2, <1>3, <1>4 DEF PositionIds
<1> USE DEF n
<1> QED
  BY <1>1, <1>2, <1>3, <1>5

\* What replacing a contract by its later state changes, and what it leaves.
LEMMA ReplacedPosition ==
  ASSUME PortfolioOK, NEW c \in Nat \ {0}, c <= Len(positions), NEW p \in PositionRecord,
         p.id = positions[c].id, positions' = [positions EXCEPT ![c] = p]
  PROVE  /\ c \in DOMAIN positions
         /\ DOMAIN positions' = DOMAIN positions
         /\ \A i \in DOMAIN positions : positions'[i] = IF i = c THEN p ELSE positions[i]
         /\ \A i \in DOMAIN positions : positions'[i].id = positions[i].id
         /\ PositionIds' = PositionIds
<1>1. c \in DOMAIN positions
  BY PositionsDomain
<1>2. /\ DOMAIN positions' = DOMAIN positions
      /\ \A i \in DOMAIN positions : positions'[i] = IF i = c THEN p ELSE positions[i]
  BY <1>1
<1>3. \A i \in DOMAIN positions : positions'[i].id = positions[i].id
  BY <1>2
<1> QED
  BY <1>1, <1>2, <1>3 DEF PositionIds

\* What appending a closing event changes, and what it leaves.
LEMMA AppendedEvent ==
  ASSUME PortfolioOK, NEW event \in EventRecord, events' = Append(events, event)
  PROVE  /\ DOMAIN events' = DOMAIN events \cup {Len(events) + 1}
         /\ Len(events) + 1 \notin DOMAIN events
         /\ \A k \in DOMAIN events : events'[k] = events[k]
         /\ events'[Len(events) + 1] = event
         /\ EventIds' = EventIds \cup {event.id}
<1> DEFINE n == Len(events)
<1>1. n \in Nat /\ DOMAIN events = 1 .. n
  BY EventsDomain
<1>2. /\ events' \in Seq(EventRecord)
      /\ Len(events') = n + 1
      /\ \A i \in 1 .. n : events'[i] = events[i]
      /\ events'[n + 1] = event
  BY AppendProperties DEF PortfolioOK
<1>3. DOMAIN events' = 1 .. n + 1
  BY <1>2, LenProperties
<1>4. 1 .. n + 1 = (1 .. n) \cup {n + 1} /\ n + 1 \notin 1 .. n
  BY <1>1
<1> HIDE DEF n
<1>5. EventIds' = EventIds \cup {event.id}
  BY <1>1, <1>2, <1>3, <1>4 DEF EventIds
<1> USE DEF n
<1> QED
  BY <1>1, <1>2, <1>3, <1>4, <1>5

-----------------------------------------------------------------------------
(* What a step does to contracts and events: nothing, an issue, a month    *)
(* survived, a settlement.                                                 *)

\* A step that touches neither contracts nor events keeps the invariant.
LEMMA ContractsUntouched ==
  ASSUME SettleInv, UNCHANGED <<round, positions, events, loop>>,
         submitted => submitted', \A q \in quotes' : q.id[1] = round
  PROVE  SettleInv'
<1> USE DEF loop
<1>1. EventIds' = EventIds /\ PositionIds' = PositionIds
  BY DEF EventIds, PositionIds
<1>2. SettledPerCall' /\ OneTradePerRound'
  BY <1>1 DEF SettleInv, SettledPerCall, OneTradePerRound, Active
<1>3. RoundInv'
  BY <1>1 DEF SettleInv, RoundInv
<1>4. ReachedInv' /\ KeptInv'
  BY DEF SettleInv, ReachedInv, SettledNow, KeptInv, Active
<1> QED
  BY <1>2, <1>3, <1>4 DEF SettleInv

\* So does the start of a loop: what the first one finds is active, and the
\* events a later one finds are of earlier attempts.
LEMMA LoopBegins ==
  ASSUME TypeOK, SettleInv, NEW activity \in {"advancing", "liquidating"}, Begin(activity),
         activity = "advancing" => kept' = << >>,
         UNCHANGED <<round, submitted, quotes, positions, events>>
  PROVE  SettleInv'
<1>1. EventIds' = EventIds /\ PositionIds' = PositionIds
  BY DEF EventIds, PositionIds
<1>2. SettledPerCall' /\ OneTradePerRound' /\ RoundInv'
  BY <1>1 DEF SettleInv, SettledPerCall, OneTradePerRound, RoundInv, Active
<1>3. KeptInv'
  BY DEF Begin, KeptInv
<1>4. retries \in Nat /\ \A k \in DOMAIN events : events[k].attempt \in Nat
  BY EventsDomain DEF TypeOK, LoopOK, EventRecord
<1>5. ReachedInv'
  <2>1. CASE phase = "failed"
    <3>1. retries' = retries + 1
      BY <2>1 DEF Begin
    <3>2. \A k \in DOMAIN events : events[k].attempt < retries'
      BY <1>4, <3>1 DEF SettleInv, ReachedInv
    <3>3. phase' # "idle" /\ retries' \in Nat
      BY <1>4, <3>1 DEF Begin
    <3> QED
      BY <1>4, <3>2, <3>3 DEF ReachedInv, SettledNow
  <2>2. CASE phase = "idle"
    <3>1. retries' = retries /\ phase' # "idle"
      BY <2>2 DEF Begin
    <3>2. \A i \in DOMAIN positions : positions[i].id \notin EventIds
      BY <2>2 DEF SettleInv, ReachedInv, SettledPerCall
    <3>3. \A i \in DOMAIN positions, k \in DOMAIN events : events[k].id # positions[i].id
      BY <3>2 DEF EventIds
    <3> QED
      BY <3>1, <3>3 DEF SettleInv, ReachedInv, SettledNow
  <2> QED
    BY <2>1, <2>2 DEF Begin, Ready
<1> QED
  BY <1>2, <1>3, <1>5 DEF SettleInv

\* An issue in a round not yet submitted, that submits it.
LEMMA ContractIssued ==
  ASSUME TypeOK, SettleInv, Ready, ~ submitted, submitted',
         NEW p \in PositionRecord, Active(p), p.id[1] = round,
         positions' = Append(positions, p),
         UNCHANGED <<round, events, loop>>,
         \A q \in quotes' : q.id[1] = round
  PROVE  SettleInv'
<1> USE DEF TypeOK
<1> DEFINE n == Len(positions)
<1>1. /\ n \in Nat
      /\ DOMAIN positions = 1 .. n
      /\ DOMAIN positions' = 1 .. n + 1
      /\ \A i \in 1 .. n : positions'[i] = positions[i]
      /\ positions'[n + 1] = p
      /\ PositionIds' = PositionIds \cup {p.id}
  BY AppendedPosition, PositionsDomain
<1>2. 1 .. n + 1 = (1 .. n) \cup {n + 1}
  BY <1>1
<1> HIDE DEF n
<1>3. EventIds' = EventIds
  BY DEF EventIds
<1>4. \A id \in EventIds \cup PositionIds : id[1] # round
  BY DEF SettleInv, RoundInv
<1>5. p.id \notin EventIds \cup PositionIds
  BY <1>4
<1>6. SettledPerCall'
  <2>1. \A i, j \in DOMAIN events' :
          events'[i].id = events'[j].id => i = j \/ events'[i].attempt # events'[j].attempt
    BY DEF SettleInv, SettledPerCall
  <2>2. \A i \in 1 .. n : positions'[i].id \in PositionIds
    BY <1>1 DEF PositionIds
  <2>3. \A i, j \in DOMAIN positions' : positions'[i].id = positions'[j].id => i = j
    BY <1>1, <1>2, <1>5, <2>2 DEF SettleInv, SettledPerCall
  <2>4. \A i \in DOMAIN positions' : Active(positions'[i]) <=> positions'[i].id \notin EventIds'
    BY <1>1, <1>2, <1>3, <1>5 DEF SettleInv, SettledPerCall
  <2> QED
    BY <2>1, <2>3, <2>4 DEF SettledPerCall
<1>7. OneTradePerRound'
  BY <1>1, <1>3, <1>4 DEF SettleInv, OneTradePerRound
<1>8. RoundInv'
  BY <1>1, <1>3 DEF SettleInv, RoundInv, ToolsOK
<1>9. ReachedInv' /\ KeptInv'
  BY <1>1, <1>2 DEF SettleInv, ReachedInv, KeptInv, Ready, loop
<1> QED
  BY <1>6, <1>7, <1>8, <1>9 DEF SettleInv

\* The contract the loop is at stays active (or pricing it raises).
LEMMA ContractSurvives ==
  ASSUME TypeOK, SettleInv, phase = "advancing", cursor <= Len(positions),
         Active(positions[cursor]),
         NEW p \in PositionRecord, Active(p), p.id = positions[cursor].id,
         positions' = [positions EXCEPT ![cursor] = p],
         UNCHANGED <<round, submitted, quotes, events, retries>>,
         \/ /\ phase' = "advancing"
            /\ kept' = Append(kept, p)
            /\ cursor' = cursor + 1
         \/ phase' = "failed"
  PROVE  SettleInv'
<1> USE DEF TypeOK
<1>1. /\ cursor \in DOMAIN positions
      /\ DOMAIN positions' = DOMAIN positions
      /\ \A i \in DOMAIN positions : positions'[i] = IF i = cursor THEN p ELSE positions[i]
      /\ \A i \in DOMAIN positions : positions'[i].id = positions[i].id
      /\ PositionIds' = PositionIds
  BY ReplacedPosition DEF LoopOK
<1>2. DOMAIN positions \subseteq Nat /\ cursor \in Nat
  BY PositionsDomain DEF LoopOK
<1>3. EventIds' = EventIds
  BY DEF EventIds
<1>5. SettledPerCall'
  BY <1>1, <1>3 DEF SettleInv, SettledPerCall
<1>6. OneTradePerRound' /\ RoundInv'
  BY <1>1, <1>3 DEF SettleInv, OneTradePerRound, RoundInv
<1>7. ReachedInv'
  BY <1>1, <1>2 DEF SettleInv, ReachedInv, SettledNow
<1>8. KeptInv'
  <2> SUFFICES ASSUME phase' = "advancing", kept' = Append(kept, p), cursor' = cursor + 1
               PROVE  KeptInv'
    BY DEF KeptInv
  <2> DEFINE m == Len(kept)
  <2>1. /\ m \in Nat
        /\ DOMAIN kept = 1 .. m
        /\ DOMAIN kept' = 1 .. m + 1
        /\ \A k \in 1 .. m : kept'[k] = kept[k]
        /\ kept'[m + 1] = p
    BY LenProperties, AppendProperties DEF LoopOK
  <2>2. 1 .. m + 1 = (1 .. m) \cup {m + 1}
    BY <2>1
  <2> HIDE DEF m
  <2>3. \A k \in 1 .. m : \E i \in DOMAIN positions :
          i < cursor /\ kept[k] = positions[i] /\ Active(kept[k])
    BY <2>1 DEF SettleInv, KeptInv
  <2>4. \A k \in 1 .. m : \E i \in DOMAIN positions' :
          i < cursor' /\ kept'[k] = positions'[i] /\ Active(kept'[k])
    <3> TAKE k \in 1 .. m
    <3>1. PICK i \in DOMAIN positions :
            i < cursor /\ kept[k] = positions[i] /\ Active(kept[k])
      BY <2>3
    <3>2. i < cursor' /\ kept'[k] = positions'[i] /\ Active(kept'[k])
      BY <1>1, <1>2, <2>1, <3>1
    <3> QED
      BY <1>1, <3>2
  <2>5. cursor \in DOMAIN positions' /\ cursor < cursor' /\ p = positions'[cursor]
    BY <1>1, <1>2
  <2>6. \A k \in DOMAIN kept' : \E i \in DOMAIN positions' :
          i < cursor' /\ kept'[k] = positions'[i] /\ Active(kept'[k])
    BY <2>1, <2>2, <2>4, <2>5
  <2>7. \A k \in 1 .. m : kept[k].id # p.id
    <3> TAKE k \in 1 .. m
    <3>1. PICK i \in DOMAIN positions : i < cursor /\ kept[k] = positions[i]
      BY <2>3
    <3>2. i # cursor
      BY <1>2, <3>1
    <3> QED
      BY <1>1, <3>1, <3>2 DEF SettleInv, SettledPerCall
  <2>8. \A j, k \in DOMAIN kept' : kept'[j].id = kept'[k].id => j = k
    BY <2>1, <2>2, <2>7 DEF SettleInv, KeptInv
  <2> QED
    BY <2>6, <2>8 DEF KeptInv
<1> QED
  BY <1>5, <1>6, <1>7, <1>8 DEF SettleInv

\* The contract a loop is at is closed: this attempt has not settled it before.
\* If its settlement is refused the loop is left with the event listed.
LEMMA ContractSettled ==
  ASSUME TypeOK, SettleInv, phase \in {"advancing", "liquidating"},
         cursor <= Len(positions), NEW p \in PositionRecord, ~ Active(p),
         p.id = positions[cursor].id, positions' = [positions EXCEPT ![cursor] = p],
         NEW event \in EventRecord, event.id = p.id, event.attempt = retries,
         events' = Append(events, event),
         UNCHANGED <<round, submitted, quotes, kept, retries>>,
         (cursor' = cursor + 1 /\ UNCHANGED phase) \/ phase' = "failed"
  PROVE  SettleInv'
<1> USE DEF TypeOK
<1> DEFINE n == Len(events)
<1>1. /\ cursor \in DOMAIN positions
      /\ DOMAIN positions' = DOMAIN positions
      /\ \A i \in DOMAIN positions : positions'[i] = IF i = cursor THEN p ELSE positions[i]
      /\ \A i \in DOMAIN positions : positions'[i].id = positions[i].id
      /\ PositionIds' = PositionIds
  BY ReplacedPosition DEF LoopOK
<1>2. DOMAIN positions \subseteq Nat /\ cursor \in Nat /\ retries \in Nat
  BY PositionsDomain DEF LoopOK
<1>3. \A i \in DOMAIN positions : positions[i].id = p.id => i = cursor
  BY <1>1 DEF SettleInv, SettledPerCall
<1>4. /\ DOMAIN events' = DOMAIN events \cup {n + 1}
      /\ n + 1 \notin DOMAIN events
      /\ \A k \in DOMAIN events : events'[k] = events[k]
      /\ events'[n + 1] = event
      /\ EventIds' = EventIds \cup {p.id}
  BY AppendedEvent
<1> HIDE DEF n
<1>5. \A k \in DOMAIN events : events[k].id = p.id => events[k].attempt # retries
  BY <1>1, <1>2 DEF SettleInv, ReachedInv, SettledNow
<1>6. SettledPerCall'
  <2>1. \A i, j \in DOMAIN events' :
          events'[i].id = events'[j].id => i = j \/ events'[i].attempt # events'[j].attempt
    BY <1>4, <1>5 DEF SettleInv, SettledPerCall
  <2>2. \A i, j \in DOMAIN positions' : positions'[i].id = positions'[j].id => i = j
    BY <1>1 DEF SettleInv, SettledPerCall
  <2>3. ASSUME NEW i \in DOMAIN positions'
        PROVE  Active(positions'[i]) <=> positions'[i].id \notin EventIds'
    <3>1. CASE i = cursor
      BY <1>1, <1>4, <3>1
    <3>2. CASE i # cursor
      <4>1. positions'[i] = positions[i] /\ positions[i].id # p.id
        BY <1>1, <1>3, <3>2
      <4> QED
        BY <1>1, <1>4, <4>1 DEF SettleInv, SettledPerCall
    <3> QED
      BY <3>1, <3>2
  <2> QED
    BY <2>1, <2>2, <2>3 DEF SettledPerCall
<1>7. EventIds' \cup PositionIds' = EventIds \cup PositionIds
  BY <1>1, <1>4 DEF PositionIds
<1>8. OneTradePerRound' /\ RoundInv'
  BY <1>7 DEF SettleInv, OneTradePerRound, RoundInv
<1>9. ReachedInv'
  <2>1. \A k \in DOMAIN events' : events'[k].attempt <= retries'
    BY <1>2, <1>4 DEF SettleInv, ReachedInv
  <2>2. phase' # "idle"
    OBVIOUS
  <2>3. ASSUME phase' # "failed", NEW i \in DOMAIN positions', i >= cursor'
        PROVE  ~ SettledNow(positions[i].id)'
    <3>1. i \in DOMAIN positions /\ i >= cursor /\ i # cursor
      BY <1>1, <1>2, <2>3
    <3>2. ~ SettledNow(positions[i].id) /\ positions[i].id # p.id
      BY <1>3, <3>1 DEF SettleInv, ReachedInv
    <3>3. positions'[i].id = positions[i].id
      BY <1>1, <3>1
    <3> QED
      BY <1>4, <3>2, <3>3 DEF SettledNow
  <2> QED
    BY <2>1, <2>2, <2>3 DEF ReachedInv
<1>10. KeptInv'
  BY <1>1, <1>2 DEF SettleInv, KeptInv
<1> QED
  BY <1>6, <1>8, <1>9, <1>10 DEF SettleInv

-----------------------------------------------------------------------------
(* The invariant.                                                          *)

\* The invariant holds initially,
LEMMA InitSettleInv == Init => SettleInv
  BY DEF Init, SettleInv, SettledPerCall, OneTradePerRound, RoundInv, ReachedInv, KeptInv,
         EventIds, PositionIds

\* A submission issues one contract, in its own round, or none.
LEMMA SettleKeepsInv ==
  ASSUME TypeOK, SettleInv, Ready, ~ submitted,
         NEW quote, QuoteOK(quote), quote.id[1] = round, Settle(quote),
         UNCHANGED <<round, loop>>, \A q \in quotes' : q.id[1] = round
  PROVE  SettleInv'
<1>1. submitted'
  BY DEF Settle
<1>2. CASE Accepted(quote) /\ Dynamic
  <2> DEFINE p == Position(quote)
  <2>1. AddPosition(p)
    BY <1>2 DEF Settle
  <2>2. p \in PositionRecord
    BY PositionType DEF TypeOK
  <2>3. Active(p) /\ p.id[1] = round
    BY DEF Position, Active
  <2> HIDE DEF p
  <2>4. positions' = Append(positions, p) /\ UNCHANGED events
    BY <2>1 DEF AddPosition
  <2> QED
    BY <1>1, <2>2, <2>3, <2>4, ContractIssued
<1>3. CASE ~ (Accepted(quote) /\ Dynamic)
  <2>1. UNCHANGED <<positions, events>>
    BY <1>3 DEF Settle, portfolio
  <2> QED
    BY <1>1, <2>1, ContractsUntouched
<1> QED
  BY <1>2, <1>3

\* and every step keeps it.
LEMMA NextSettleInv ==
  ASSUME TypeInv, SettleInv, [Next]_core
  PROVE  SettleInv'
<1> USE DEF TypeInv, TypeOK, tools, accounts, portfolio, loop
<1>1. CASE \/ QueryClient \/ QuoteNotConverged \/ CloseRound \/ UNCHANGED core
  <2>1. /\ UNCHANGED <<round, positions, events, loop, quotes>>
        /\ submitted => submitted'
    BY <1>1 DEF QueryClient, QuoteNotConverged, CloseRound, core
  <2>2. \A q \in quotes' : q.id[1] = round
    BY <2>1 DEF SettleInv, RoundInv
  <2> QED
    BY <2>1, <2>2, ContractsUntouched
<1>2. ASSUME NEW product \in Products, NEW mark \in Marks,
             NEW mandate \in BOOLEAN, NEW contract \in BOOLEAN,
             RequestQuote(product, mark, mandate, contract)
      PROVE  SettleInv'
  <2>1. Quote(product, mark, mandate, contract).id[1] = round
    BY DEF Quote
  <2>2. \A q \in quotes' : q.id[1] = round
    BY <1>2, <2>1 DEF RequestQuote, SettleInv, RoundInv
  <2> QED
    BY <1>2, <2>2, ContractsUntouched DEF RequestQuote
<1>3. ASSUME NEW product \in Products, NEW mark \in Marks,
             NEW mandate \in BOOLEAN, NEW contract \in BOOLEAN,
             SubmitProduct(product, mark, mandate, contract)
      PROVE  SettleInv'
  <2> DEFINE quote == Quote(product, mark, mandate, contract)
  <2>1. QuoteOK(quote) /\ quote.id[1] = round
    BY <1>3, QuoteType DEF SubmitProduct, Quote
  <2>2. /\ Ready /\ ~ submitted
        /\ quotes' = quotes \cup {quote}
        /\ Settle(quote)
        /\ UNCHANGED <<round, loop>>
    BY <1>3 DEF SubmitProduct, CanQuote
  <2> HIDE DEF quote
  <2>3. \A q \in quotes' : q.id[1] = round
    BY <2>1, <2>2 DEF SettleInv, RoundInv
  <2> QED
    BY <2>1, <2>2, <2>3, SettleKeepsInv
<1>4. ASSUME NEW quote \in quotes, SubmitDesign(quote)
      PROVE  SettleInv'
  <2>1. QuoteOK(quote) /\ quote.id[1] = round
    BY DEF ToolsOK, SettleInv, RoundInv
  <2>2. \A q \in quotes' : q.id[1] = round
    BY <1>4 DEF SubmitDesign, SettleInv, RoundInv
  <2> QED
    BY <1>4, <2>1, <2>2, SettleKeepsInv DEF SubmitDesign, CanSubmit
<1>5. CASE BeginAdvance
  BY <1>5, LoopBegins DEF BeginAdvance
<1>6. ASSUME NEW exit \in {"none"} \cup EarlyExits, NEW mark \in Marks,
             NEW hedge \in HedgeMoves, NEW payoff \in Payoffs,
             AdvancePosition(exit, mark, hedge, payoff)
      PROVE  SettleInv'
  <2> DEFINE p == Observed(positions[cursor], exit, mark, hedge)
  <2>1. positions[cursor] \in PositionRecord
    BY <1>6, AtPositionType DEF AdvancePosition
  <2>2. p \in PositionRecord
    BY <2>1, ObservedType, ContractAssumption, MoneyAssumption
  <2>3. p.id = positions[cursor].id
    BY <2>1 DEF Observed, PositionRecord
  <2>4. /\ phase = "advancing" /\ cursor <= Len(positions)
        /\ positions' = [positions EXCEPT ![cursor] = p]
        /\ IF Active(p)
           THEN /\ kept' = Append(kept, p)
                /\ UNCHANGED <<accounts, events, ledger>>
           ELSE /\ SettleEvent(ClosingEvent(p, payoff))
                /\ UNCHANGED kept
        /\ cursor' = cursor + 1
        /\ UNCHANGED <<round, tools, revision, phase, retries>>
    BY <1>6 DEF AdvancePosition, AtPosition
  <2>7. Active(p) => Active(positions[cursor])
    BY <2>1, ObservedActive DEF Observed
  <2> HIDE DEF p
  <2>5. CASE Active(p)
    BY <2>2, <2>3, <2>4, <2>5, <2>7, ContractSurvives
  <2>6. CASE ~ Active(p)
    <3> DEFINE event == ClosingEvent(p, payoff)
    <3>1. event \in EventRecord /\ event.id = p.id /\ event.attempt = retries
      BY <2>2, ClosingEventIs, MoneyAssumption
    <3>2. events' = Append(events, event) /\ UNCHANGED kept
      BY <2>4, <2>6 DEF SettleEvent, RecordEvent
    <3> HIDE DEF event
    <3> QED
      BY <2>2, <2>3, <2>4, <2>6, <3>1, <3>2, ContractSettled
  <2> QED
    BY <2>5, <2>6
<1>7. ASSUME NEW hedge \in HedgeMoves, RevaluationFails(hedge)
      PROVE  SettleInv'
  <2> DEFINE accrued == IF SeenAlready(positions[cursor]) THEN 0 ELSE hedge
             p == [positions[cursor] EXCEPT !.hedge_pnl = @ + accrued,
                                            !.seen = round + 1,
                                            !.remaining = @ - 1]
  <2>1. positions[cursor] \in PositionRecord /\ Active(positions[cursor])
    BY <1>7, AtPositionType DEF RevaluationFails
  <2>2. p \in PositionRecord /\ p.id = positions[cursor].id
        /\ p.status = positions[cursor].status
    <3>1. accrued \in Int /\ round + 1 \in Nat
      BY MoneyAssumption DEF ToolsOK
    <3> HIDE DEF accrued
    <3>2. /\ positions[cursor].hedge_pnl + accrued \in Int
          /\ positions[cursor].remaining - 1 \in Int
      BY <2>1, <3>1 DEF PositionRecord
    <3> QED
      BY <2>1, <3>1, <3>2 DEF PositionRecord
  <2>3. /\ phase = "advancing" /\ cursor <= Len(positions)
        /\ positions' = [positions EXCEPT ![cursor] = p]
        /\ phase' = "failed"
        /\ UNCHANGED <<round, submitted, quotes, events, retries>>
    BY <1>7 DEF RevaluationFails, AtPosition
  <2> HIDE DEF p
  <2> QED
    BY <2>1, <2>2, <2>3, ContractSurvives DEF Active
<1>8. ASSUME NEW capital \in Capitals, CompleteAdvance(capital)
      PROVE  SettleInv'
  <2>1. /\ phase = "advancing" /\ cursor > Len(positions)
        /\ positions' = kept /\ kept' = << >> /\ phase' = "idle"
        /\ round' = round + 1 /\ quotes' = {}
        /\ UNCHANGED <<events, retries>>
    BY <1>8 DEF CompleteAdvance, FreshTools
  <2>2. \A k \in DOMAIN kept : /\ Active(kept[k])
                               /\ kept[k].id \in PositionIds
                               /\ kept[k].id \notin EventIds
    BY <2>1 DEF SettleInv, KeptInv, SettledPerCall, PositionIds
  <2>3. EventIds' = EventIds /\ PositionIds' \subseteq PositionIds
    BY <2>1, <2>2 DEF EventIds, PositionIds
  <2>4. SettledPerCall'
    BY <2>1, <2>2, <2>3 DEF SettleInv, KeptInv, SettledPerCall
  <2>5. OneTradePerRound'
    BY <2>3 DEF SettleInv, OneTradePerRound
  <2>6. RoundInv'
    <3>1. round \in Nat /\ \A id \in EventIds \cup PositionIds : id[1] \in Nat
      BY IdsAreQuoteIds, EpisodeAssumption DEF ToolsOK, QuoteId
    <3>2. \A id \in EventIds' \cup PositionIds' : id[1] <= round /\ id[1] \in Nat
      BY <2>3, <3>1 DEF SettleInv, RoundInv
    <3> QED
      BY <2>1, <3>1, <3>2 DEF RoundInv
  <2>7. ReachedInv' /\ KeptInv'
    BY <2>1, <2>2 DEF SettleInv, ReachedInv, KeptInv
  <2> QED
    BY <2>4, <2>5, <2>6, <2>7 DEF SettleInv
<1>9. ASSUME NEW capital \in Capitals, AdvanceStatic(capital)
      PROVE  SettleInv'
  <2>1. /\ positions' = << >> /\ events' = << >> /\ quotes' = {}
        /\ phase' \in {"idle", "failed"}
    BY <1>9 DEF AdvanceStatic, FreshTools, CanAdvance, Ready
  <2>2. EventIds' = {} /\ PositionIds' = {}
    BY <2>1 DEF EventIds, PositionIds
  <2> QED
    BY <2>1, <2>2
    DEF SettleInv, SettledPerCall, OneTradePerRound, RoundInv, ReachedInv, KeptInv
<1>10. CASE BeginLiquidation
  BY <1>10, LoopBegins DEF BeginLiquidation
<1>11. CASE LiquidatePosition
  <2> DEFINE p     == [positions[cursor] EXCEPT !.status = "horizon_liquidated"]
             event == ClosingEvent(p, p.fair_value)
  <2>1. positions[cursor] \in PositionRecord
    BY <1>11, AtPositionType DEF LiquidatePosition
  <2>2. p \in PositionRecord /\ p.fair_value \in Int /\ ~ Active(p)
        /\ p.id = positions[cursor].id
    BY <2>1 DEF PositionRecord, Statuses, Active
  <2>3. event \in EventRecord /\ event.id = p.id /\ event.attempt = retries
    BY <2>2, ClosingEventIs
  <2>4. /\ phase = "liquidating" /\ cursor <= Len(positions)
        /\ positions' = [positions EXCEPT ![cursor] = p]
        /\ events' = Append(events, event)
        /\ cursor' = cursor + 1
        /\ UNCHANGED <<round, submitted, quotes, phase, kept, retries>>
    BY <1>11 DEF LiquidatePosition, AtPosition, SettleEvent, RecordEvent
  <2> HIDE DEF p, event
  <2> QED
    BY <2>2, <2>3, <2>4, ContractSettled
<1>12. CASE CompleteLiquidation
  <2>1. /\ positions' = << >> /\ phase' = "closed"
        /\ UNCHANGED <<round, submitted, quotes, events, retries>>
    BY <1>12 DEF CompleteLiquidation
  <2>2. EventIds' = EventIds /\ PositionIds' = {}
    BY <2>1 DEF EventIds, PositionIds
  <2> QED
    BY <2>1, <2>2
    DEF SettleInv, SettledPerCall, OneTradePerRound, RoundInv, ReachedInv, KeptInv
<1>13. ASSUME NEW exit \in {"none"} \cup EarlyExits, NEW mark \in Marks,
              NEW hedge \in HedgeMoves, NEW payoff \in Payoffs,
              SettlementRaises(exit, mark, hedge, payoff)
       PROVE  SettleInv'
  <2> DEFINE p     == Observed(positions[cursor], exit, mark, hedge)
             event == ClosingEvent(p, payoff)
  <2>1. positions[cursor] \in PositionRecord
    BY <1>13, AtPositionType DEF SettlementRaises
  <2>2. p \in PositionRecord
    BY <2>1, ObservedType, ContractAssumption, MoneyAssumption
  <2>6. p.id = positions[cursor].id
    BY <2>1 DEF Observed, PositionRecord
  <2>3. ~ Active(p)
    BY <1>13 DEF SettlementRaises
  <2>4. event \in EventRecord /\ event.id = p.id /\ event.attempt = retries
    BY <2>2, ClosingEventIs, MoneyAssumption
  <2>5. /\ phase = "advancing" /\ cursor <= Len(positions)
        /\ positions' = [positions EXCEPT ![cursor] = p]
        /\ events' = Append(events, event)
        /\ phase' = "failed"
        /\ UNCHANGED <<round, submitted, quotes, kept, retries>>
    BY <1>13 DEF SettlementRaises, AtPosition, SettlementRefused, RecordEvent
  <2> HIDE DEF p, event
  <2> QED
    BY <2>2, <2>3, <2>4, <2>5, <2>6, ContractSettled
<1>14. CASE LiquidationRaises
  <2> DEFINE p     == [positions[cursor] EXCEPT !.status = "horizon_liquidated"]
             event == ClosingEvent(p, p.fair_value)
  <2>1. positions[cursor] \in PositionRecord
    BY <1>14, AtPositionType DEF LiquidationRaises
  <2>2. p \in PositionRecord /\ p.fair_value \in Int /\ ~ Active(p)
        /\ p.id = positions[cursor].id
    BY <2>1 DEF PositionRecord, Statuses, Active
  <2>3. event \in EventRecord /\ event.id = p.id /\ event.attempt = retries
    BY <2>2, ClosingEventIs
  <2>4. /\ phase = "liquidating" /\ cursor <= Len(positions)
        /\ positions' = [positions EXCEPT ![cursor] = p]
        /\ events' = Append(events, event)
        /\ phase' = "failed"
        /\ UNCHANGED <<round, submitted, quotes, kept, retries>>
    BY <1>14 DEF LiquidationRaises, AtPosition, SettlementRefused, RecordEvent
  <2> HIDE DEF p, event
  <2> QED
    BY <2>2, <2>3, <2>4, ContractSettled
<1> QED
  BY <1>1, <1>2, <1>3, <1>4, <1>5, <1>6, <1>7, <1>8, <1>9, <1>10, <1>11, <1>12,
     <1>13, <1>14
  DEF Next, Tool, Advance, ObserveNextPosition, AdvanceRaises, Liquidate

\* So it holds always, beside the type invariant.
LEMMA SettleInvHolds == Spec => [](TypeInv /\ SettleInv)
<1>1. Init => TypeInv /\ SettleInv
  BY InitTypeInv, InitSettleInv
<1>2. (TypeInv /\ SettleInv) /\ [Next]_core => (TypeInv /\ SettleInv)'
  BY NextTypeInv, NextSettleInv
<1> QED
  BY <1>1, <1>2, PTL DEF Spec

\* As long as no loop has been started again all events are of one attempt.
LEMMA SettleInvSettlesOnce ==
  ASSUME TypeInv, SettleInv
  PROVE  SettledOnce
<1>1. \A k \in DOMAIN events : events[k].attempt \in Nat
  BY EventsDomain DEF TypeInv, TypeOK, EventRecord
<1>2. retries = 0 => \A k \in DOMAIN events : events[k].attempt = 0
  BY <1>1 DEF SettleInv, ReachedInv
<1> QED
  BY <1>2 DEF SettleInv, SettledPerCall, SettledOnce

\* Every contract is settled exactly once, at maturity, at an early exit or at
\* the horizon, however many there are and wherever a month's loop stops; and if
\* a month that raised is run again, once more by each such call, never twice by
\* one, and never without an event of its own.
THEOREM EveryContractSettledOnce == Spec => []SettledOnce
<1>1. TypeInv /\ SettleInv => SettledOnce
  BY SettleInvSettlesOnce
<1> QED
  BY <1>1, SettleInvHolds, PTL

\* A round issues at most one contract, whatever it asks the desk for.
THEOREM NoRoundTradesTwice == Spec => []OneTradePerRound
<1>1. SettleInv => OneTradePerRound
  BY DEF SettleInv
<1> QED
  BY <1>1, SettleInvHolds, PTL

-----------------------------------------------------------------------------
(* What a step does to the money: nothing, an issue, a month survived, a   *)
(* settlement, a settlement refused, the end of a loop, the restart of a   *)
(* static round.                                                           *)

Waiting ==
  /\ UNCHANGED <<client, dealer, positions, events, ledger>>
  /\ \/ UNCHANGED loop
     \/ /\ \E activity \in {"advancing", "liquidating"} : Begin(activity)
        /\ phase' = "advancing" => kept' = << >>

Issuing(p) ==
  /\ Ready
  /\ Active(p)
  /\ CanIssue(client, p.outlay)
  /\ AddPosition(p)
  /\ UNCHANGED loop

\* The contract at the cursor is p now, which costs what it cost.
Replacing(p) ==
  /\ cursor <= Len(positions)
  /\ p.id = positions[cursor].id
  /\ p.outlay = positions[cursor].outlay
  /\ positions' = [positions EXCEPT ![cursor] = p]

Surviving(p) ==
  /\ phase = "advancing"
  /\ Active(p)
  /\ Replacing(p)
  /\ Active(positions[cursor])
  /\ UNCHANGED <<client, dealer, events, ledger, retries>>
  /\ \/ /\ cursor' = cursor + 1
        /\ kept' = Append(kept, p)
        /\ UNCHANGED phase
     \/ phase' = "failed"

Closing(p, payoff) ==
  /\ phase \in {"advancing", "liquidating"}
  /\ ~ Active(p)
  /\ Replacing(p)
  /\ SettleEvent(ClosingEvent(p, payoff))
  /\ cursor' = cursor + 1
  /\ UNCHANGED <<phase, kept, retries>>

Refusing(p, payoff) ==
  /\ phase \in {"advancing", "liquidating"}
  /\ ~ Active(p)
  /\ Replacing(p)
  /\ SettlementRefused(ClosingEvent(p, payoff))

MonthEnds ==
  /\ phase = "advancing"
  /\ cursor > Len(positions)
  /\ positions' = kept
  /\ phase' = "idle"
  /\ Reconciled
  /\ UNCHANGED <<ledger, retries>>

Restarting ==
  /\ positions' = << >>
  /\ ledger' = << >>
  /\ Ready
  /\ UNCHANGED loop
  /\ Restarted

HorizonEnds ==
  /\ phase = "liquidating"
  /\ cursor > Len(positions)
  /\ positions' = << >>
  /\ phase' = "closed"
  /\ UNCHANGED <<client, dealer, events, ledger, retries>>

MoneyMoves ==
  \/ Waiting
  \/ \E p \in PositionRecord : Issuing(p) \/ Surviving(p)
  \/ \E p \in PositionRecord, payoff \in Int : Closing(p, payoff) \/ Refusing(p, payoff)
  \/ MonthEnds
  \/ Restarting
  \/ HorizonEnds

\* A submission issues one contract or moves nothing.
LEMMA SubmissionMoves ==
  ASSUME TypeOK, Ready, NEW quote, QuoteOK(quote), Settle(quote), UNCHANGED loop
  PROVE  MoneyMoves
<1>1. CASE Accepted(quote) /\ Dynamic
  <2>1. Position(quote) \in PositionRecord
    BY PositionType DEF TypeOK
  <2>2. /\ Active(Position(quote))
        /\ Position(quote).outlay = quote.product.outlay
    BY DEF Position, Active
  <2>3. Issuing(Position(quote))
    BY <1>1, <2>2 DEF Settle, Accepted, Issuing
  <2> QED
    BY <2>1, <2>3 DEF MoneyMoves
<1>2. CASE ~ (Accepted(quote) /\ Dynamic)
  BY <1>2 DEF Settle, accounts, portfolio, MoneyMoves, Waiting
<1> QED
  BY <1>1, <1>2

\* Every step moves the money in one of these ways.
LEMMA NextMoneyMoves ==
  ASSUME TypeInv, [Next]_core
  PROVE  MoneyMoves
<1> USE DEF TypeInv, TypeOK, tools, accounts, portfolio, loop
<1>1. CASE QueryClient \/ QuoteNotConverged \/ CloseRound \/ UNCHANGED core
  <2>1. Waiting
    BY <1>1 DEF QueryClient, QuoteNotConverged, CloseRound, core, Waiting
  <2> QED
    BY <2>1 DEF MoneyMoves
<1>13. CASE BeginAdvance
  <2>1. Begin("advancing") /\ kept' = << >> /\ UNCHANGED <<client, dealer, positions, events, ledger>>
    BY <1>13 DEF BeginAdvance
  <2>2. Waiting
    BY <2>1 DEF Waiting
  <2> QED
    BY <2>2 DEF MoneyMoves
<1>14. CASE BeginLiquidation
  <2>1. Begin("liquidating") /\ UNCHANGED <<client, dealer, positions, events, ledger>>
    BY <1>14 DEF BeginLiquidation
  <2>2. phase' # "advancing"
    BY <2>1 DEF Begin
  <2>3. Waiting
    BY <2>1, <2>2 DEF Waiting
  <2> QED
    BY <2>3 DEF MoneyMoves
<1>2. ASSUME NEW product \in Products, NEW mark \in Marks,
             NEW mandate \in BOOLEAN, NEW contract \in BOOLEAN,
             RequestQuote(product, mark, mandate, contract)
      PROVE  MoneyMoves
  BY <1>2 DEF RequestQuote, MoneyMoves, Waiting
<1>3. ASSUME NEW product \in Products, NEW mark \in Marks,
             NEW mandate \in BOOLEAN, NEW contract \in BOOLEAN,
             SubmitProduct(product, mark, mandate, contract)
      PROVE  MoneyMoves
  BY <1>3, QuoteType, SubmissionMoves DEF SubmitProduct, CanQuote
<1>4. ASSUME NEW quote \in quotes, SubmitDesign(quote)
      PROVE  MoneyMoves
  BY <1>4, SubmissionMoves DEF SubmitDesign, CanSubmit, ToolsOK
<1>5. ASSUME NEW exit \in {"none"} \cup EarlyExits, NEW mark \in Marks,
             NEW hedge \in HedgeMoves, NEW payoff \in Payoffs,
             AdvancePosition(exit, mark, hedge, payoff)
      PROVE  MoneyMoves
  <2> DEFINE p == Observed(positions[cursor], exit, mark, hedge)
  <2>1. positions[cursor] \in PositionRecord
    BY <1>5, AtPositionType DEF AdvancePosition
  <2>2. p \in PositionRecord /\ payoff \in Int
    BY <2>1, ObservedType, ContractAssumption, MoneyAssumption
  <2>3. p.outlay = positions[cursor].outlay /\ p.id = positions[cursor].id
    BY <2>1 DEF Observed, PositionRecord
  <2>6. Active(p) => Active(positions[cursor])
    BY <2>1, ObservedActive
  <2>4. /\ phase = "advancing" /\ cursor <= Len(positions)
        /\ positions' = [positions EXCEPT ![cursor] = p]
        /\ IF Active(p)
           THEN /\ kept' = Append(kept, p)
                /\ UNCHANGED <<accounts, events, ledger>>
           ELSE /\ SettleEvent(ClosingEvent(p, payoff))
                /\ UNCHANGED kept
        /\ cursor' = cursor + 1
        /\ UNCHANGED <<phase, retries>>
    BY <1>5 DEF AdvancePosition, AtPosition
  <2> HIDE DEF p
  <2>5. Surviving(p) \/ Closing(p, payoff)
    BY <2>3, <2>4, <2>6 DEF Surviving, Closing, Replacing
  <2> QED
    BY <2>2, <2>5 DEF MoneyMoves
<1>6. ASSUME NEW hedge \in HedgeMoves, RevaluationFails(hedge)
      PROVE  MoneyMoves
  <2> DEFINE accrued == IF SeenAlready(positions[cursor]) THEN 0 ELSE hedge
             p == [positions[cursor] EXCEPT !.hedge_pnl = @ + accrued,
                                            !.seen = round + 1,
                                            !.remaining = @ - 1]
  <2>1. positions[cursor] \in PositionRecord /\ Active(positions[cursor])
    BY <1>6, AtPositionType DEF RevaluationFails
  <2>2. /\ p \in PositionRecord
        /\ p.outlay = positions[cursor].outlay
        /\ p.id = positions[cursor].id
        /\ p.status = positions[cursor].status
    <3>1. accrued \in Int /\ round + 1 \in Nat
      BY MoneyAssumption DEF ToolsOK
    <3> HIDE DEF accrued
    <3>2. /\ positions[cursor].hedge_pnl + accrued \in Int
          /\ positions[cursor].remaining - 1 \in Int
      BY <2>1, <3>1 DEF PositionRecord
    <3> QED
      BY <2>1, <3>1, <3>2 DEF PositionRecord
  <2>3. /\ phase = "advancing" /\ cursor <= Len(positions)
        /\ positions' = [positions EXCEPT ![cursor] = p]
        /\ phase' = "failed"
        /\ UNCHANGED <<client, dealer, events, ledger, retries>>
    BY <1>6 DEF RevaluationFails, AtPosition
  <2> HIDE DEF p
  <2>4. Surviving(p)
    BY <2>1, <2>2, <2>3 DEF Surviving, Replacing, Active
  <2> QED
    BY <2>2, <2>4 DEF MoneyMoves
<1>7. ASSUME NEW capital \in Capitals, CompleteAdvance(capital)
      PROVE  MoneyMoves
  BY <1>7, MoneyAssumption DEF CompleteAdvance, MoneyMoves, MonthEnds, Reconciled
<1>8. ASSUME NEW capital \in Capitals, AdvanceStatic(capital)
      PROVE  MoneyMoves
  <2>1. Restarting
    BY <1>8, MoneyAssumption DEF AdvanceStatic, CanAdvance, Restarting, Restarted
  <2> QED
    BY <2>1 DEF MoneyMoves
<1>9. CASE LiquidatePosition
  <2> DEFINE p == [positions[cursor] EXCEPT !.status = "horizon_liquidated"]
  <2>1. positions[cursor] \in PositionRecord
    BY <1>9, AtPositionType DEF LiquidatePosition
  <2>2. /\ p \in PositionRecord /\ p.fair_value \in Int /\ ~ Active(p)
        /\ p.outlay = positions[cursor].outlay /\ p.id = positions[cursor].id
    BY <2>1 DEF PositionRecord, Statuses, Active
  <2>3. /\ phase = "liquidating" /\ cursor <= Len(positions)
        /\ positions' = [positions EXCEPT ![cursor] = p]
        /\ SettleEvent(ClosingEvent(p, p.fair_value))
        /\ cursor' = cursor + 1
        /\ UNCHANGED <<phase, kept, retries>>
    BY <1>9 DEF LiquidatePosition, AtPosition
  <2> HIDE DEF p
  <2>4. Closing(p, p.fair_value)
    BY <2>2, <2>3 DEF Closing, Replacing
  <2> QED
    BY <2>2, <2>4 DEF MoneyMoves
<1>10. CASE CompleteLiquidation
  BY <1>10 DEF CompleteLiquidation, MoneyMoves, HorizonEnds
<1>11. ASSUME NEW exit \in {"none"} \cup EarlyExits, NEW mark \in Marks,
              NEW hedge \in HedgeMoves, NEW payoff \in Payoffs,
              SettlementRaises(exit, mark, hedge, payoff)
       PROVE  MoneyMoves
  <2> DEFINE p == Observed(positions[cursor], exit, mark, hedge)
  <2>1. positions[cursor] \in PositionRecord
    BY <1>11, AtPositionType DEF SettlementRaises
  <2>2. p \in PositionRecord /\ payoff \in Int
    BY <2>1, ObservedType, ContractAssumption, MoneyAssumption
  <2>3. p.outlay = positions[cursor].outlay /\ p.id = positions[cursor].id
    BY <2>1 DEF Observed, PositionRecord
  <2>4. /\ phase = "advancing" /\ cursor <= Len(positions) /\ ~ Active(p)
        /\ positions' = [positions EXCEPT ![cursor] = p]
        /\ SettlementRefused(ClosingEvent(p, payoff))
    BY <1>11 DEF SettlementRaises, AtPosition
  <2> HIDE DEF p
  <2>5. Refusing(p, payoff)
    BY <2>3, <2>4 DEF Refusing, Replacing
  <2> QED
    BY <2>2, <2>5 DEF MoneyMoves
<1>12. CASE LiquidationRaises
  <2> DEFINE p == [positions[cursor] EXCEPT !.status = "horizon_liquidated"]
  <2>1. positions[cursor] \in PositionRecord
    BY <1>12, AtPositionType DEF LiquidationRaises
  <2>2. /\ p \in PositionRecord /\ p.fair_value \in Int /\ ~ Active(p)
        /\ p.outlay = positions[cursor].outlay /\ p.id = positions[cursor].id
    BY <2>1 DEF PositionRecord, Statuses, Active
  <2>3. /\ phase = "liquidating" /\ cursor <= Len(positions)
        /\ positions' = [positions EXCEPT ![cursor] = p]
        /\ SettlementRefused(ClosingEvent(p, p.fair_value))
    BY <1>12 DEF LiquidationRaises, AtPosition
  <2> HIDE DEF p
  <2>4. Refusing(p, p.fair_value)
    BY <2>2, <2>3 DEF Refusing, Replacing
  <2> QED
    BY <2>2, <2>4 DEF MoneyMoves
<1> QED
  BY <1>1, <1>2, <1>3, <1>4, <1>5, <1>6, <1>7, <1>8, <1>9, <1>10, <1>11, <1>12,
     <1>13, <1>14
  DEF Next, Tool, Advance, ObserveNextPosition, AdvanceRaises, Liquidate

-----------------------------------------------------------------------------
(* Locked cash.  The month's loop settles contracts that stay listed until *)
(* it is over and then lists the kept ones, so the invariant follows both  *)
(* lists: the kept ones lock what the ones before the cursor do.           *)

Outlays(list) == [i \in DOMAIN list |-> IF Active(list[i]) THEN list[i].outlay ELSE 0]

LockedInv ==
  /\ client.locked_cash = SumOf(Outlays(positions))
  /\ phase = "advancing" => SumOf(Outlays(kept)) = SumTo(Outlays(positions), cursor - 1)
  /\ phase = "liquidating" =>
       \A i \in DOMAIN positions : i < cursor => ~ Active(positions[i])

\* The loops stay within the list, and the kept contracts are of it.
LoopInv ==
  /\ phase \in {"advancing", "liquidating"} => cursor <= Len(positions) + 1
  /\ phase = "advancing" => Len(kept) < cursor

RealisedInv ==
  client.realised_pnl
    = client.settlement_inflows - client.issue_outflows + client.locked_cash

\* All that is locked backs contracts as long as no loop was started again.
BackedInv == LoopInv /\ RealisedInv /\ (retries = 0 => LockedInv)

\* As long as no loop was started again what it has not reached is active.
AheadActive ==
  phase \in {"advancing", "liquidating"} =>
    \A i \in DOMAIN positions : i >= cursor => Active(positions[i])

LEMMA FirstLoopAhead ==
  ASSUME TypeOK, SettleInv, retries = 0
  PROVE  AheadActive
<1>1. \A k \in DOMAIN events : events[k].attempt = 0
  BY EventsDomain DEF TypeOK, EventRecord, SettleInv, ReachedInv
<1>2. SUFFICES ASSUME phase \in {"advancing", "liquidating"},
                      NEW i \in DOMAIN positions, i >= cursor
               PROVE  Active(positions[i])
  BY DEF AheadActive
<1>3. positions[i].id \notin EventIds
  BY <1>1, <1>2 DEF SettleInv, ReachedInv, SettledNow, EventIds
<1> QED
  BY <1>2, <1>3 DEF SettleInv, SettledPerCall

\* The outlays of a list of contracts are natural numbers, one per contract.
LEMMA OutlaysType ==
  ASSUME NEW list \in Seq(PositionRecord)
  PROVE  /\ Len(list) \in Nat
         /\ DOMAIN list = 1 .. Len(list)
         /\ Outlays(list) \in [1 .. Len(list) -> Nat]
         /\ Outlays(list) \in [1 .. Len(list) -> Int]
         /\ SumOf(Outlays(list)) = SumTo(Outlays(list), Len(list))
         /\ SumOf(Outlays(list)) \in Nat
         /\ \A i \in 1 .. Len(list) : Outlays(list)[i] <= SumOf(Outlays(list))
<1>1. /\ Len(list) \in Nat
      /\ DOMAIN list = 1 .. Len(list)
      /\ \A i \in 1 .. Len(list) : list[i] \in PositionRecord
  BY LenProperties, ElementOfSeq
<1>2. Outlays(list) \in [1 .. Len(list) -> Nat]
  BY <1>1 DEF Outlays, PositionRecord
<1>3. Outlays(list) \in [1 .. Len(list) -> Int]
  BY <1>2
<1>4. SumOf(Outlays(list)) = SumTo(Outlays(list), Len(list))
  BY <1>1, <1>2, SumOfList
<1>5. \A i \in 1 .. Len(list) : Outlays(list)[i] \in Nat
  BY <1>2
<1>6. /\ SumTo(Outlays(list), Len(list)) \in Nat
      /\ \A i \in 1 .. Len(list) : Outlays(list)[i] <= SumTo(Outlays(list), Len(list))
  BY <1>1, <1>5, SumBounds
<1> QED
  BY <1>1, <1>2, <1>3, <1>4, <1>6

\* A list to which an active contract is added locks its outlay too.
LEMMA OutlaysAppended ==
  ASSUME NEW list \in Seq(PositionRecord), NEW p \in PositionRecord, Active(p)
  PROVE  SumOf(Outlays(Append(list, p))) = SumOf(Outlays(list)) + p.outlay
<1> DEFINE n == Len(list)
           longer == Append(list, p)
<1>1. /\ longer \in Seq(PositionRecord)
      /\ Len(longer) = n + 1
      /\ \A i \in 1 .. n : longer[i] = list[i]
      /\ longer[n + 1] = p
  BY AppendProperties
<1>2. n \in Nat /\ DOMAIN list = 1 .. n /\ Outlays(list) \in [1 .. n -> Int]
  BY OutlaysType
<1>3. DOMAIN longer = 1 .. n + 1 /\ Outlays(longer) \in [1 .. n + 1 -> Int]
  BY <1>1, OutlaysType
<1> HIDE DEF n, longer
<1>4. \A i \in 1 .. n : i \in 1 .. n + 1 /\ Outlays(longer)[i] = Outlays(list)[i]
  BY <1>1, <1>2, <1>3 DEF Outlays
<1>5. Outlays(longer)[n + 1] = p.outlay
  BY <1>1, <1>2, <1>3 DEF Outlays
<1>6. SumOf(Outlays(longer)) = SumOf(Outlays(list)) + p.outlay
  BY <1>2, <1>3, <1>4, <1>5, SumAppend
<1> USE DEF longer
<1> QED
  BY <1>6

\* One contract is replaced by what became of it.
LEMMA OutlaysReplaced ==
  ASSUME TypeOK, NEW p \in PositionRecord, Replacing(p), Active(positions[cursor])
  PROVE  LET there == IF Active(p) THEN p.outlay ELSE 0
         IN  /\ positions' \in Seq(PositionRecord)
             /\ Len(positions') = Len(positions)
             /\ SumOf(Outlays(positions')) = SumOf(Outlays(positions)) + (there - p.outlay)
             /\ p.outlay <= SumOf(Outlays(positions))
             /\ SumTo(Outlays(positions'), cursor)
                  = SumTo(Outlays(positions), cursor - 1) + there
             /\ SumTo(Outlays(positions), cursor - 1) \in Int
<1> DEFINE n == Len(positions)
           there == IF Active(p) THEN p.outlay ELSE 0
           old == Outlays(positions)
           new == Outlays(positions')
<1>1. /\ n \in Nat /\ cursor \in 1 .. n /\ DOMAIN positions = 1 .. n
      /\ positions \in Seq(PositionRecord)
  BY PositionsDomain DEF TypeOK, LoopOK, PortfolioOK, Replacing
<1>2. positions' \in Seq(PositionRecord)
  BY <1>1, UpdatePositionType DEF Replacing, TypeOK
<1>3. /\ DOMAIN positions' = 1 .. n
      /\ \A i \in 1 .. n : positions'[i] = IF i = cursor THEN p ELSE positions[i]
      /\ positions[cursor].outlay = p.outlay
  BY <1>1 DEF Replacing
<1>4. Len(positions') = n
  <2>1. Len(positions') \in Nat /\ 1 .. Len(positions') = 1 .. n
    BY <1>2, <1>3, LenProperties
  <2> QED BY <1>1, <2>1
<1>5. /\ old \in [1 .. n -> Int] /\ SumOf(old) \in Nat
      /\ \A i \in 1 .. n : old[i] <= SumOf(old)
  BY <1>1, OutlaysType
<1>6. new \in [1 .. n -> Int]
  BY <1>2, <1>4, OutlaysType
<1>7. /\ \A i \in 1 .. n : i # cursor => new[i] = old[i]
      /\ new[cursor] = there
      /\ old[cursor] = p.outlay
  BY <1>1, <1>3 DEF Outlays
<1> HIDE DEF n, old, new
<1>8. SumOf(new) = SumOf(old) + (new[cursor] - old[cursor])
  BY <1>1, <1>5, <1>6, <1>7, SumReplace
<1>9. p.outlay <= SumOf(old)
  BY <1>1, <1>5, <1>7
<1>10. cursor - 1 \in Nat /\ cursor - 1 + 1 = cursor
  BY <1>1
<1>11. SumTo(new, cursor) = SumTo(new, cursor - 1) + new[cursor]
  BY <1>10, SumStep
<1>12. \A i \in 1 .. cursor - 1 : i \in 1 .. n /\ i # cursor
  BY <1>1
<1>13. SumTo(new, cursor - 1) = SumTo(old, cursor - 1)
  BY <1>7, <1>10, <1>12, SumSame
<1>14. SumTo(old, cursor - 1) \in Int
  BY <1>5, <1>10, <1>12, SumType
<1> USE DEF n, old, new
<1> HIDE DEF there
<1>15. /\ SumOf(new) = SumOf(old) + (there - p.outlay)
       /\ SumTo(new, cursor) = SumTo(old, cursor - 1) + there
  BY <1>7, <1>8, <1>11, <1>13
<1> USE DEF there
<1> QED
  BY <1>2, <1>4, <1>9, <1>14, <1>15

\* The invariant holds initially,
LEMMA InitBackedInv == Init => BackedInv
<1> SUFFICES ASSUME Init PROVE BackedInv
  OBVIOUS
<1>1. SumOf(Outlays(positions)) = 0
  <2>1. positions = << >> /\ Outlays(positions) \in [1 .. 0 -> Nat]
    BY DEF Init, Outlays
  <2>2. SumOf(Outlays(positions)) = SumTo(Outlays(positions), 0)
    BY <2>1, SumOfList
  <2> QED BY <2>2, SumStep
<1> QED
  BY <1>1 DEF Init, BackedInv, LoopInv, RealisedInv, LockedInv, OpenClient

\* The loops stay within the list whatever has happened to it.
LEMMA NextLoopInv ==
  ASSUME TypeInv, LoopInv, [Next]_core
  PROVE  LoopInv'
<1> USE DEF TypeInv, TypeOK
<1>1. Len(positions) \in Nat /\ cursor \in Nat \ {0} /\ Len(kept) \in Nat
  BY PositionsDomain, LenProperties DEF LoopOK
<1>2. CASE Waiting
  <2>1. CASE UNCHANGED loop
    BY <1>2, <2>1 DEF Waiting, LoopInv, loop
  <2>2. CASE /\ \E activity \in {"advancing", "liquidating"} : Begin(activity)
             /\ phase' = "advancing" => kept' = << >>
    <3>1. cursor' = 1 /\ positions' = positions
      BY <1>2, <2>2 DEF Waiting, Begin
    <3>2. phase' = "advancing" => Len(kept') = 0
      BY <2>2
    <3> QED
      BY <1>1, <3>1, <3>2 DEF LoopInv
  <2> QED
    BY <1>2, <2>1, <2>2 DEF Waiting
<1>3. ASSUME NEW p \in PositionRecord, Replacing(p)
      PROVE  Len(positions') = Len(positions) /\ cursor <= Len(positions)
  BY <1>1, <1>3, ExceptSeq DEF Replacing, PortfolioOK
<1>4. ASSUME NEW p \in PositionRecord, Surviving(p)
      PROVE  LoopInv'
  <2>1. CASE phase' = "failed"
    BY <2>1 DEF LoopInv
  <2>2. CASE cursor' = cursor + 1 /\ kept' = Append(kept, p) /\ UNCHANGED phase
    <3>1. Len(kept') = Len(kept) + 1
      BY <2>2, AppendProperties DEF LoopOK
    <3>2. Len(kept) < cursor
      BY <1>4 DEF Surviving, LoopInv
    <3> QED
      BY <1>1, <1>3, <1>4, <2>2, <3>1, <3>2 DEF Surviving, LoopInv
  <2> QED
    BY <1>4, <2>1, <2>2 DEF Surviving
<1>5. ASSUME NEW p \in PositionRecord, NEW payoff \in Int, Closing(p, payoff)
      PROVE  LoopInv'
  BY <1>1, <1>3, <1>5 DEF Closing, LoopInv
<1>6. CASE \/ \E p \in PositionRecord : Issuing(p)
           \/ \E p \in PositionRecord, payoff \in Int : Refusing(p, payoff)
           \/ MonthEnds \/ Restarting \/ HorizonEnds
  BY <1>6 DEF Issuing, Refusing, SettlementRefused, MonthEnds, Restarting, HorizonEnds,
              Ready, loop, LoopInv
<1> QED
  BY <1>2, <1>4, <1>5, <1>6, NextMoneyMoves DEF MoneyMoves

\* The client's result is that of the settlements its account has booked.
LEMMA NextRealisedInv ==
  ASSUME TypeInv, RealisedInv, [Next]_core
  PROVE  RealisedInv'
<1> USE DEF TypeInv, TypeOK, AccountsOK
<1>1. /\ client.locked_cash \in Nat /\ client.issue_outflows \in Int
      /\ client.settlement_inflows \in Int /\ client.realised_pnl \in Int
  BY DEF ClientAccount
<1>2. CASE UNCHANGED accounts
  BY <1>2 DEF accounts, RealisedInv
<1>3. CASE Issued
  <2>1. PICK amount \in Nat : client' = IssueClient(client, amount)
    BY <1>3 DEF Issued
  <2>2. /\ client'.locked_cash = client.locked_cash + amount
        /\ client'.issue_outflows = client.issue_outflows + amount
        /\ client'.realised_pnl = client.realised_pnl
        /\ client'.settlement_inflows = client.settlement_inflows
    BY <2>1 DEF IssueClient, ClientAccount
  <2> QED
    BY <1>1, <2>2 DEF RealisedInv
<1>4. CASE Settled
  <2>1. PICK p \in PositionRecord, payoff \in Int : SettleEvent(ClosingEvent(p, payoff))
    BY <1>4 DEF Settled
  <2> DEFINE event == ClosingEvent(p, payoff)
  <2>2. retries \in Nat /\ p.outlay \in Nat
    BY DEF LoopOK, PositionRecord
  <2>3. event.outlay \in Nat /\ event.settlement \in Nat
    BY <2>2, ClosingEventType
  <2>4. /\ CanRelease(client, event.outlay)
        /\ client' = SettleClient(client, event.outlay, event.settlement)
    BY <2>1 DEF SettleEvent
  <2> HIDE DEF event
  <2>5. /\ client'.locked_cash = Greater(client.locked_cash - event.outlay, 0)
        /\ client'.settlement_inflows = client.settlement_inflows + event.settlement
        /\ client'.realised_pnl = client.realised_pnl + (event.settlement - event.outlay)
        /\ client'.issue_outflows = client.issue_outflows
    BY <2>4 DEF SettleClient, ClientAccount
  <2>6. client'.locked_cash = client.locked_cash - event.outlay
    BY <1>1, <2>3, <2>4, <2>5 DEF Greater, CanRelease
  <2> QED
    BY <1>1, <2>3, <2>5, <2>6 DEF RealisedInv
<1>5. CASE Reconciled
  <2>1. /\ client'.locked_cash = client.locked_cash
        /\ client'.realised_pnl = client.realised_pnl
        /\ client'.settlement_inflows = client.settlement_inflows
        /\ client'.issue_outflows = client.issue_outflows
    BY <1>5 DEF Reconciled, ReconcileClient, ClientAccount
  <2> QED
    BY <2>1 DEF RealisedInv
<1>6. CASE Restarted
  <2>1. PICK capital \in Nat : client' = ReconcileClient(ResetClient(client), capital)
    BY <1>6 DEF Restarted
  <2>2. /\ client'.locked_cash = 0 /\ client'.realised_pnl = 0
        /\ client'.settlement_inflows = 0 /\ client'.issue_outflows = 0
    BY <2>1 DEF ReconcileClient, ResetClient, OpenClient
  <2> QED
    BY <2>2 DEF RealisedInv
<1> QED
  BY <1>2, <1>3, <1>4, <1>5, <1>6, AccountsMove

\* An issue locks what the client pays,
LEMMA IssueLocks ==
  ASSUME TypeOK, LockedInv, NEW p \in PositionRecord, Issuing(p)
  PROVE  LockedInv'
<1> USE DEF TypeOK, AccountsOK, PortfolioOK
<1>1. SumOf(Outlays(positions')) = SumOf(Outlays(positions)) + p.outlay
  BY OutlaysAppended DEF Issuing, AddPosition
<1>2. client'.locked_cash = client.locked_cash + p.outlay
  BY DEF Issuing, AddPosition, IssueClient, ClientAccount
<1> QED
  BY <1>1, <1>2 DEF LockedInv, Issuing, Ready, loop

\* a month survived locks as much as before,
LEMMA SurvivalLocks ==
  ASSUME TypeOK, LoopInv, LockedInv, NEW p \in PositionRecord, Surviving(p)
  PROVE  LockedInv'
<1> USE DEF TypeOK
<1>1. cursor \in DOMAIN positions /\ cursor \in Nat /\ Len(positions) \in Nat
  BY PositionsDomain DEF Surviving, Replacing, LoopOK
<1>2. Active(positions[cursor]) /\ Replacing(p) /\ Active(p)
  BY DEF Surviving
<1>3. /\ Len(positions') = Len(positions)
      /\ SumOf(Outlays(positions')) = SumOf(Outlays(positions)) + (p.outlay - p.outlay)
      /\ SumTo(Outlays(positions'), cursor)
           = SumTo(Outlays(positions), cursor - 1) + p.outlay
  BY <1>2, OutlaysReplaced
<1>4. p.outlay \in Nat /\ client.locked_cash \in Nat /\ client' = client
  BY DEF PositionRecord, AccountsOK, ClientAccount, Surviving
<1>5. client'.locked_cash = SumOf(Outlays(positions'))
  BY <1>3, <1>4 DEF LockedInv
<1>6. CASE phase' = "failed"
  BY <1>5, <1>6 DEF LockedInv
<1>7. CASE cursor' = cursor + 1 /\ kept' = Append(kept, p) /\ UNCHANGED phase
  <2>1. SumOf(Outlays(kept')) = SumOf(Outlays(kept)) + p.outlay
    BY <1>2, <1>7, OutlaysAppended DEF LoopOK
  <2>2. phase = "advancing" /\ cursor <= Len(positions) /\ cursor' - 1 = cursor
    BY <1>1, <1>7 DEF Surviving, Replacing
  <2>4. SumOf(Outlays(kept')) = SumTo(Outlays(positions'), cursor' - 1)
    BY <1>3, <2>1, <2>2 DEF LockedInv
  <2>5. phase' = "advancing"
    BY <1>7, <2>2
  <2> QED
    BY <1>5, <2>4, <2>5 DEF LockedInv
<1> QED
  BY <1>6, <1>7 DEF Surviving

\* a settlement releases the outlay, all of which is locked,
LEMMA SettlementReleases ==
  ASSUME TypeOK, AheadActive, LockedInv, NEW p \in PositionRecord, NEW payoff \in Int,
         Closing(p, payoff)
  PROVE  LockedInv'
<1> USE DEF TypeOK
<1> DEFINE event == ClosingEvent(p, payoff)
<1>1. /\ cursor \in DOMAIN positions /\ cursor \in Nat
      /\ Len(positions) \in Nat /\ DOMAIN positions = 1 .. Len(positions)
  BY PositionsDomain DEF Closing, Replacing, LoopOK
<1>2. Active(positions[cursor]) /\ Replacing(p) /\ ~ Active(p)
  BY <1>1 DEF Closing, AheadActive
<1>3. /\ Len(positions') = Len(positions)
      /\ SumOf(Outlays(positions')) = SumOf(Outlays(positions)) + (0 - p.outlay)
      /\ p.outlay <= SumOf(Outlays(positions))
      /\ SumTo(Outlays(positions'), cursor) = SumTo(Outlays(positions), cursor - 1) + 0
      /\ SumTo(Outlays(positions), cursor - 1) \in Int
  BY <1>2, OutlaysReplaced
<1>4. event.outlay = p.outlay /\ event.settlement \in Nat /\ p.outlay \in Nat
  <2>1. retries \in Nat /\ p.outlay \in Nat
    BY DEF LoopOK, PositionRecord
  <2> QED
    BY <2>1, ClosingEventType
<1>5. client' = SettleClient(client, p.outlay, event.settlement)
  BY <1>4 DEF Closing, SettleEvent
<1> HIDE DEF event
<1>6. client'.locked_cash = Greater(client.locked_cash - p.outlay, 0)
  BY <1>5 DEF SettleClient, AccountsOK, ClientAccount
<1>7. client.locked_cash \in Nat /\ p.outlay <= client.locked_cash
  BY <1>3 DEF LockedInv, AccountsOK, ClientAccount
<1>8. client'.locked_cash = client.locked_cash - p.outlay
  BY <1>4, <1>6, <1>7 DEF Greater
<1>9. client'.locked_cash = SumOf(Outlays(positions'))
  BY <1>3, <1>4, <1>7, <1>8 DEF LockedInv
<1>10. /\ cursor' = cursor + 1 /\ UNCHANGED <<phase, kept>>
       /\ phase \in {"advancing", "liquidating"}
       /\ cursor <= Len(positions) /\ cursor' - 1 = cursor
  BY <1>1 DEF Closing, Replacing
<1>11. ASSUME phase' = "advancing"
       PROVE  SumOf(Outlays(kept')) = SumTo(Outlays(positions'), cursor' - 1)
  BY <1>1, <1>3, <1>10, <1>11 DEF LockedInv
<1>12. ASSUME phase' = "liquidating"
       PROVE  \A i \in DOMAIN positions' : i < cursor' => ~ Active(positions'[i])
  <2>1. \A i \in DOMAIN positions : i < cursor => ~ Active(positions[i])
    BY <1>10, <1>12 DEF LockedInv
  <2>2. /\ DOMAIN positions' = DOMAIN positions
        /\ \A i \in DOMAIN positions : positions'[i] = IF i = cursor THEN p ELSE positions[i]
    BY <1>1, <1>2 DEF Replacing
  <2> QED BY <1>1, <1>2, <1>10, <2>1, <2>2
<1> QED
  BY <1>9, <1>11, <1>12 DEF LockedInv

\* none is refused,
LEMMA NothingRefused ==
  ASSUME TypeOK, AheadActive, LockedInv, NEW p \in PositionRecord, NEW payoff \in Int
  PROVE  ~ Refusing(p, payoff)
<1> SUFFICES ASSUME Refusing(p, payoff) PROVE FALSE
  OBVIOUS
<1>1. /\ cursor \in DOMAIN positions /\ cursor \in Nat
      /\ Len(positions) \in Nat /\ DOMAIN positions = 1 .. Len(positions)
      /\ positions \in Seq(PositionRecord)
  BY PositionsDomain DEF Refusing, Replacing, LoopOK, TypeOK, PortfolioOK
<1>2. Active(positions[cursor]) /\ p.outlay = positions[cursor].outlay
  BY <1>1 DEF Refusing, Replacing, AheadActive
<1>3. Outlays(positions)[cursor] = p.outlay
  BY <1>1, <1>2 DEF Outlays
<1>4. p.outlay <= client.locked_cash
  BY <1>1, <1>3, OutlaysType DEF LockedInv
<1>5. ~ CanRelease(client, ClosingEvent(p, payoff).outlay)
  BY DEF Refusing, SettlementRefused
<1> QED
  BY <1>4, <1>5 DEF ClosingEvent, CanRelease

\* and every step keeps it.
LEMMA NextLockedInv ==
  ASSUME TypeInv, AheadActive, LoopInv, LockedInv, [Next]_core
  PROVE  LockedInv'
<1> USE DEF TypeInv, TypeOK
<1>1. CASE Waiting
  <2>1. UNCHANGED <<client, positions>>
    BY <1>1 DEF Waiting
  <2>2. CASE UNCHANGED loop
    BY <2>1, <2>2 DEF LockedInv, loop
  <2>3. CASE /\ \E activity \in {"advancing", "liquidating"} : Begin(activity)
             /\ phase' = "advancing" => kept' = << >>
    <3>4. cursor' = 1
      BY <2>3 DEF Begin
    <3>1. Len(positions) \in Nat /\ DOMAIN positions = 1 .. Len(positions)
      BY PositionsDomain
    <3>2. SumTo(Outlays(positions'), cursor' - 1) = 0
      <4>1. cursor' - 1 = 0
        BY <3>4
      <4> QED BY <4>1, SumStep
    <3>3. phase' = "advancing" => SumOf(Outlays(kept')) = 0
      <4> SUFFICES ASSUME phase' = "advancing"
                   PROVE  SumOf(Outlays(kept')) = 0
        OBVIOUS
      <4>1. kept' = << >> /\ Outlays(kept') \in [1 .. 0 -> Nat]
        BY <2>3 DEF Outlays
      <4>2. SumOf(Outlays(kept')) = SumTo(Outlays(kept'), 0)
        BY <4>1, SumOfList
      <4> QED BY <2>3, <4>1, <4>2, SumStep
    <3> QED
      BY <2>1, <3>1, <3>2, <3>3, <3>4 DEF LockedInv
  <2> QED BY <1>1, <2>2, <2>3 DEF Waiting
<1>2. ASSUME NEW p \in PositionRecord, Issuing(p) \/ Surviving(p)
      PROVE  LockedInv'
  BY <1>2, IssueLocks, SurvivalLocks
<1>3. ASSUME NEW p \in PositionRecord, NEW payoff \in Int,
             Closing(p, payoff) \/ Refusing(p, payoff)
      PROVE  LockedInv'
  BY <1>3, SettlementReleases, NothingRefused
<1>4. CASE MonthEnds
  <2>1. /\ cursor - 1 = Len(positions)
        /\ SumOf(Outlays(kept)) = SumTo(Outlays(positions), cursor - 1)
    BY <1>4, PositionsDomain DEF MonthEnds, LockedInv, LoopInv, LoopOK
  <2>2. SumOf(Outlays(positions')) = SumOf(Outlays(positions))
    BY <1>4, <2>1, OutlaysType DEF MonthEnds, PortfolioOK
  <2>3. client'.locked_cash = client.locked_cash
    BY <1>4 DEF MonthEnds, Reconciled, ReconcileClient, AccountsOK, ClientAccount
  <2> QED
    BY <1>4, <2>2, <2>3 DEF LockedInv, MonthEnds
<1>5. CASE Restarting \/ HorizonEnds
  <2>1. /\ positions' = << >> /\ phase' \notin {"advancing", "liquidating"}
    BY <1>5 DEF Restarting, HorizonEnds, Ready, loop
  <2>2. SumOf(Outlays(positions')) = 0
    <3>1. Outlays(positions') \in [1 .. 0 -> Nat]
      BY <2>1 DEF Outlays
    <3>2. SumOf(Outlays(positions')) = SumTo(Outlays(positions'), 0)
      BY <3>1, SumOfList
    <3> QED BY <3>2, SumStep
  <2>3. CASE Restarting
    <3>1. PICK capital \in Nat : client' = ReconcileClient(ResetClient(client), capital)
      BY <2>3 DEF Restarting, Restarted
    <3>2. client'.locked_cash = 0
      BY <3>1 DEF ReconcileClient, ResetClient, OpenClient
    <3> QED
      BY <2>1, <2>2, <3>2 DEF LockedInv
  <2>4. CASE HorizonEnds
    <3>1. SumOf(Outlays(positions)) = 0
      <4>1. /\ Len(positions) \in Nat /\ DOMAIN positions = 1 .. Len(positions)
            /\ positions \in Seq(PositionRecord)
        BY PositionsDomain DEF PortfolioOK
      <4>2. \A i \in 1 .. Len(positions) : Outlays(positions)[i] = 0
        BY <2>4, <4>1 DEF HorizonEnds, LockedInv, LoopOK, Outlays
      <4> QED BY <4>1, <4>2, OutlaysType, SumZero
    <3>2. client' = client
      BY <2>4 DEF HorizonEnds
    <3> QED
      BY <2>1, <2>2, <3>1, <3>2 DEF LockedInv
  <2> QED BY <1>5, <2>3, <2>4
<1> QED
  BY <1>1, <1>2, <1>3, <1>4, <1>5, NextMoneyMoves DEF MoneyMoves

\* Only a loop that is started again counts as a retry.
LEMMA RetriesGrow ==
  ASSUME TypeInv, [Next]_core
  PROVE  retries' = retries \/ retries' = retries + 1
<1>1. CASE Waiting
  BY <1>1 DEF Waiting, Begin, loop
<1>2. CASE ~ Waiting
  BY <1>2, NextMoneyMoves
  DEF MoneyMoves, Issuing, Surviving, Closing, Refusing, SettlementRefused, MonthEnds,
      Restarting, HorizonEnds, loop
<1> QED
  BY <1>1, <1>2

\* The three together: no step lets a loop start again unnoticed.
LEMMA NextBackedInv ==
  ASSUME TypeInv, SettleInv, BackedInv, [Next]_core
  PROVE  BackedInv'
<1>1. LoopInv' /\ RealisedInv'
  BY NextLoopInv, NextRealisedInv DEF BackedInv
<1>2. retries' = retries \/ retries' = retries + 1
  BY RetriesGrow
<1>3. ASSUME retries' = 0
      PROVE  LockedInv'
  <2>1. retries = 0
    BY <1>2, <1>3 DEF TypeInv, TypeOK, LoopOK
  <2>2. AheadActive
    BY <2>1, FirstLoopAhead DEF TypeInv
  <2> QED
    BY <2>1, <2>2, NextLockedInv DEF BackedInv
<1> QED
  BY <1>1, <1>3 DEF BackedInv

\* So locked cash always backs the contracts: what is locked are their outlays,
\* and each of them alone is no more than that.
LEMMA LockedInvBacks ==
  ASSUME TypeOK, LockedInv
  PROVE  /\ client.locked_cash
              = SumOf([i \in DOMAIN positions |->
                         IF Active(positions[i]) THEN positions[i].outlay ELSE 0])
         /\ \A i \in DOMAIN positions :
              Active(positions[i]) => CanRelease(client, positions[i].outlay)
<1>1. /\ positions \in Seq(PositionRecord) /\ DOMAIN positions = 1 .. Len(positions)
      /\ client.locked_cash = SumOf(Outlays(positions))
      /\ \A i \in 1 .. Len(positions) : Outlays(positions)[i] <= SumOf(Outlays(positions))
  BY PositionsDomain, OutlaysType DEF TypeOK, PortfolioOK, LockedInv
<1>2. \A i \in DOMAIN positions : Active(positions[i]) => CanRelease(client, positions[i].outlay)
  BY <1>1 DEF Outlays, CanRelease
<1> QED
  BY <1>1, <1>2 DEF Outlays

\* So it holds always, beside the invariants of settlement.
LEMMA BackedInvHolds == Spec => [](TypeInv /\ SettleInv /\ BackedInv)
<1>1. Init => TypeInv /\ SettleInv /\ BackedInv
  BY InitTypeInv, InitSettleInv, InitBackedInv
<1>2. (TypeInv /\ SettleInv /\ BackedInv) /\ [Next]_core => (TypeInv /\ SettleInv /\ BackedInv)'
  BY NextTypeInv, NextSettleInv, NextBackedInv
<1> QED
  BY <1>1, <1>2, PTL DEF Spec

\* Locked cash is the outlay of exactly the contracts still active, however
\* many there are, also half way through the month's loop and after pricing
\* raised in it: ClientAccount.settle does not raise before a month that raised
\* is run again.  The client's result is that of its settlements always.
THEOREM LockedCashBacksContracts == Spec => []LockedBacksActive
<1>1. TypeInv /\ SettleInv /\ BackedInv => LockedBacksActive
  BY LockedInvBacks DEF TypeInv, BackedInv, RealisedInv, LockedBacksActive
<1> QED
  BY <1>1, BackedInvHolds, PTL

-----------------------------------------------------------------------------
(* The cashflow ledger.                                                    *)

ReceivedIn(flows, party) ==
  [i \in DOMAIN flows |-> IF flows[i].receiver = party THEN flows[i].amount ELSE 0]
PaidIn(flows, party) ==
  [i \in DOMAIN flows |-> IF flows[i].payer = party THEN flows[i].amount ELSE 0]

\* What a list of flows leaves a party with.
Net(flows, party) == SumOf(ReceivedIn(flows, party)) - SumOf(PaidIn(flows, party))

\* What one flow does to a party.
Effect(flow, party) == (IF flow.receiver = party THEN flow.amount ELSE 0)
                         - (IF flow.payer = party THEN flow.amount ELSE 0)

\* What a list of flows leaves a party with is a whole amount.
LEMMA NetType ==
  ASSUME NEW flows \in Seq(FlowRecord), NEW party
  PROVE  /\ ReceivedIn(flows, party) \in [1 .. Len(flows) -> Int]
         /\ PaidIn(flows, party) \in [1 .. Len(flows) -> Int]
         /\ SumOf(ReceivedIn(flows, party)) \in Int
         /\ SumOf(PaidIn(flows, party)) \in Int
         /\ Net(flows, party) \in Int
<1> DEFINE n == Len(flows)
           in == ReceivedIn(flows, party)
           out == PaidIn(flows, party)
<1>1. n \in Nat /\ DOMAIN flows = 1 .. n /\ \A i \in 1 .. n : flows[i].amount \in Int
  <2>1. n \in Nat /\ DOMAIN flows = 1 .. n
    BY LenProperties
  <2>2. \A i \in 1 .. n : flows[i] \in FlowRecord
    BY ElementOfSeq
  <2>3. \A flow \in FlowRecord : flow.amount \in Int
    BY DEF FlowRecord
  <2> QED BY <2>1, <2>2, <2>3
<1>2. in \in [1 .. n -> Int] /\ out \in [1 .. n -> Int]
  BY <1>1 DEF ReceivedIn, PaidIn
<1> HIDE DEF n, in, out
<1>3. SumOf(in) = SumTo(in, n) /\ SumOf(out) = SumTo(out, n)
  BY <1>1, <1>2, SumOfList
<1>4. (\A i \in 1 .. n : in[i] \in Int) /\ (\A i \in 1 .. n : out[i] \in Int)
  BY <1>2
<1>5. SumOf(in) \in Int /\ SumOf(out) \in Int
  BY <1>1, <1>3, <1>4, SumType
<1> USE DEF n, in, out
<1> QED
  BY <1>2, <1>5 DEF Net

\* One more flow does to a party what the flow does.
LEMMA NetAppended ==
  ASSUME NEW flows \in Seq(FlowRecord), NEW flow \in FlowRecord, NEW party
  PROVE  /\ Append(flows, flow) \in Seq(FlowRecord)
         /\ Net(Append(flows, flow), party) = Net(flows, party) + Effect(flow, party)
<1> DEFINE n == Len(flows)
           more == Append(flows, flow)
           in == ReceivedIn(flows, party)
           out == PaidIn(flows, party)
           in2 == ReceivedIn(more, party)
           out2 == PaidIn(more, party)
<1>1. /\ more \in Seq(FlowRecord) /\ Len(more) = n + 1
      /\ \A i \in 1 .. n : more[i] = flows[i]
      /\ more[n + 1] = flow
      /\ n \in Nat /\ DOMAIN flows = 1 .. n /\ DOMAIN more = 1 .. n + 1
  BY AppendProperties, LenProperties
<1>2. /\ in \in [1 .. n -> Int] /\ out \in [1 .. n -> Int]
      /\ SumOf(in) \in Int /\ SumOf(out) \in Int
  BY NetType
<1>3. in2 \in [1 .. n + 1 -> Int] /\ out2 \in [1 .. n + 1 -> Int]
  BY <1>1, NetType
<1> HIDE DEF n, more
<1>4. /\ \A i \in 1 .. n : i \in 1 .. n + 1
      /\ n + 1 \in 1 .. n + 1
  BY <1>1
<1>5. /\ \A i \in 1 .. n : in2[i] = in[i] /\ out2[i] = out[i]
      /\ in2[n + 1] = IF flow.receiver = party THEN flow.amount ELSE 0
      /\ out2[n + 1] = IF flow.payer = party THEN flow.amount ELSE 0
  BY <1>1, <1>4 DEF ReceivedIn, PaidIn
<1> HIDE DEF in, out, in2, out2
<1>6. SumOf(in2) = SumOf(in) + in2[n + 1] /\ SumOf(out2) = SumOf(out) + out2[n + 1]
  BY <1>1, <1>2, <1>3, <1>5, SumAppend
<1>7. in2[n + 1] \in Int /\ out2[n + 1] \in Int
  BY <1>3, <1>4
<1>8. SumOf(in2) - SumOf(out2)
        = (SumOf(in) - SumOf(out)) + (in2[n + 1] - out2[n + 1])
  BY <1>2, <1>6, <1>7
<1> USE DEF more, in, out, in2, out2
<1> QED
  BY <1>1, <1>5, <1>8 DEF Net, Effect

\* An empty list leaves everybody with nothing.
LEMMA NetOfNothing ==
  ASSUME NEW party
  PROVE  Net(<< >>, party) = 0
<1>1. /\ ReceivedIn(<< >>, party) \in [1 .. 0 -> Int]
      /\ PaidIn(<< >>, party) \in [1 .. 0 -> Int]
  BY DEF ReceivedIn, PaidIn
<1>2. /\ SumOf(ReceivedIn(<< >>, party)) = SumTo(ReceivedIn(<< >>, party), 0)
      /\ SumOf(PaidIn(<< >>, party)) = SumTo(PaidIn(<< >>, party), 0)
  BY <1>1, SumOfList
<1> QED
  BY <1>2, SumStep DEF Net

\* The hedge's flow brings the dealer the hedge's result, whatever its sign.
LEMMA NetHedged ==
  ASSUME NEW flows \in Seq(FlowRecord), NEW pnl \in Int
  PROVE  /\ flows \o HedgeFlow(pnl) \in Seq(FlowRecord)
         /\ Net(flows \o HedgeFlow(pnl), "dealer") = Net(flows, "dealer") + pnl
         /\ Net(flows \o HedgeFlow(pnl), "client") = Net(flows, "client")
<1>1. Net(flows, "dealer") \in Int /\ Net(flows, "client") \in Int
  BY NetType
<1>2. CASE pnl > 0
  <2> DEFINE flow == Flow("market", "dealer", pnl)
  <2>1. flow \in FlowRecord
    BY <1>2 DEF Flow, FlowRecord, Parties
  <2>2. Effect(flow, "dealer") = pnl /\ Effect(flow, "client") = 0
    BY <1>2 DEF Flow, Effect
  <2>3. HedgeFlow(pnl) = << flow >>
    BY <1>2 DEF HedgeFlow
  <2> HIDE DEF flow
  <2>4. flows \o HedgeFlow(pnl) = Append(flows, flow)
    BY <2>1, <2>3, AppendIsConcat
  <2> QED
    BY <1>1, <2>1, <2>2, <2>4, NetAppended
<1>3. CASE pnl < 0
  <2> DEFINE flow == Flow("dealer", "market", - pnl)
  <2>1. flow \in FlowRecord
    BY <1>3 DEF Flow, FlowRecord, Parties
  <2>2. Effect(flow, "dealer") = pnl /\ Effect(flow, "client") = 0
    BY <1>3 DEF Flow, Effect
  <2>3. HedgeFlow(pnl) = << flow >>
    BY <1>3 DEF HedgeFlow
  <2> HIDE DEF flow
  <2>4. flows \o HedgeFlow(pnl) = Append(flows, flow)
    BY <2>1, <2>3, AppendIsConcat
  <2> QED
    BY <1>1, <2>1, <2>2, <2>4, NetAppended
<1>4. CASE pnl = 0
  <2>1. HedgeFlow(pnl) = << >>
    BY <1>4 DEF HedgeFlow
  <2> DEFINE more == flows \o HedgeFlow(pnl)
  <2>2. more = flows
    BY <2>1, ConcatEmptySeq
  <2> SUFFICES /\ more \in Seq(FlowRecord)
               /\ Net(more, "dealer") = Net(flows, "dealer") + pnl
               /\ Net(more, "client") = Net(flows, "client")
    OBVIOUS
  <2> HIDE DEF more
  <2> QED
    BY <1>1, <1>4, <2>2
<1> QED
  BY <1>2, <1>3, <1>4

\* What a settlement writes to the ledger.
LEMMA NetSettled ==
  ASSUME PortfolioOK, NEW event, event.settlement \in Nat, event.hedge_pnl \in Int,
         SettleEvent(event)
  PROVE  /\ Net(ledger', "dealer") = Net(ledger, "dealer") + (event.hedge_pnl - event.settlement)
         /\ Net(ledger', "client") = Net(ledger, "client") + event.settlement
<1> DEFINE flow == Flow("dealer", "client", event.settlement)
           paid == Append(ledger, flow)
<1>1. flow \in FlowRecord
  BY DEF Flow, FlowRecord, Parties
<1>2. Effect(flow, "dealer") = - event.settlement /\ Effect(flow, "client") = event.settlement
  BY DEF Flow, Effect
<1>3. ledger' = (ledger \o << flow >>) \o HedgeFlow(event.hedge_pnl)
  BY DEF SettleEvent, RecordEvent
<1> HIDE DEF flow
<1>4. ledger \o << flow >> = paid
  BY <1>1, AppendIsConcat DEF PortfolioOK
<1>5. /\ paid \in Seq(FlowRecord)
      /\ Net(paid, "dealer") = Net(ledger, "dealer") - event.settlement
      /\ Net(paid, "client") = Net(ledger, "client") + event.settlement
  <2>1. Net(ledger, "dealer") \in Int /\ Net(ledger, "client") \in Int
    BY NetType DEF PortfolioOK
  <2> QED
    BY <1>1, <1>2, <2>1, NetAppended DEF PortfolioOK
<1>6. Net(ledger, "dealer") \in Int
  BY NetType DEF PortfolioOK
<1> HIDE DEF paid
<1>7. ledger' = paid \o HedgeFlow(event.hedge_pnl)
  BY <1>3, <1>4
<1>8. /\ Net(ledger', "dealer") = Net(paid, "dealer") + event.hedge_pnl
      /\ Net(ledger', "client") = Net(paid, "client")
  <2> DEFINE all == paid \o HedgeFlow(event.hedge_pnl)
  <2>1. /\ Net(all, "dealer") = Net(paid, "dealer") + event.hedge_pnl
        /\ Net(all, "client") = Net(paid, "client")
    BY <1>5, NetHedged
  <2>2. ledger' = all
    BY <1>7
  <2> HIDE DEF all
  <2> QED BY <2>1, <2>2
<1> QED
  BY <1>5, <1>6, <1>8

\* What the flows listed and the accounts have in common until a settlement is
\* refused whose flows are listed.
LedgerInv ==
  /\ Net(ledger, "dealer") = dealer.cash_balance
  /\ Net(ledger, "client") = client.settlement_inflows - client.issue_outflows

\* Whatever moves the money is written to the ledger.
LEMMA NextLedgerInv ==
  ASSUME TypeInv, AheadActive, LockedInv, LedgerInv, [Next]_core
  PROVE  LedgerInv'
<1> USE DEF TypeInv, TypeOK, AccountsOK
<1>1. CASE Waiting \/ HorizonEnds \/ \E p \in PositionRecord : Surviving(p)
  BY <1>1 DEF Waiting, HorizonEnds, Surviving, LedgerInv
<1>2. ASSUME NEW p \in PositionRecord, Issuing(p)
      PROVE  LedgerInv'
  <2> DEFINE flow == Flow("client", "dealer", p.outlay)
  <2>1. flow \in FlowRecord /\ p.outlay \in Nat
    BY DEF Flow, FlowRecord, Parties, PositionRecord
  <2>2. Effect(flow, "dealer") = p.outlay /\ Effect(flow, "client") = - p.outlay
    BY <2>1 DEF Flow, Effect
  <2>3. ledger' = Append(ledger, flow)
    BY <1>2 DEF Issuing, AddPosition
  <2> HIDE DEF flow
  <2>4. /\ Net(ledger', "dealer") = Net(ledger, "dealer") + p.outlay
        /\ Net(ledger', "client") = Net(ledger, "client") + (- p.outlay)
    BY <2>1, <2>2, <2>3, NetAppended DEF PortfolioOK
  <2>5. /\ dealer'.cash_balance = dealer.cash_balance + p.outlay
        /\ client'.issue_outflows = client.issue_outflows + p.outlay
        /\ client'.settlement_inflows = client.settlement_inflows
    BY <1>2 DEF Issuing, AddPosition, IssueClient, IssueDealer, ClientAccount, DealerAccount
  <2>6. client.issue_outflows \in Int /\ client.settlement_inflows \in Int
    BY DEF ClientAccount
  <2> QED
    BY <2>1, <2>4, <2>5, <2>6 DEF LedgerInv
<1>6. ASSUME NEW p \in PositionRecord, NEW payoff \in Int, Refusing(p, payoff)
      PROVE  LedgerInv'
  BY <1>6, NothingRefused
<1>3. ASSUME NEW p \in PositionRecord, NEW payoff \in Int, Closing(p, payoff)
      PROVE  LedgerInv'
  <2> DEFINE event == ClosingEvent(p, payoff)
  <2>1. event.outlay \in Nat /\ event.settlement \in Nat /\ event.hedge_pnl \in Int
    <3>1. retries \in Nat /\ p.outlay \in Nat
      BY DEF LoopOK, PositionRecord
    <3> QED
      BY <3>1, ClosingEventType
  <2>2. SettleEvent(event)
    BY <1>3 DEF Closing
  <2> HIDE DEF event
  <2>3. /\ Net(ledger', "dealer") = Net(ledger, "dealer") + (event.hedge_pnl - event.settlement)
        /\ Net(ledger', "client") = Net(ledger, "client") + event.settlement
    BY <2>1, <2>2, NetSettled
  <2>4. /\ dealer'.cash_balance = dealer.cash_balance + (event.hedge_pnl - event.settlement)
        /\ client'.settlement_inflows = client.settlement_inflows + event.settlement
        /\ client'.issue_outflows = client.issue_outflows
    BY <2>2 DEF SettleEvent, SettleClient, SettleDealer, ClientAccount, DealerAccount
  <2>5. client.issue_outflows \in Int /\ client.settlement_inflows \in Int
    BY DEF ClientAccount
  <2> QED
    BY <2>1, <2>3, <2>4, <2>5 DEF LedgerInv
<1>4. CASE MonthEnds
  <2>1. /\ client'.settlement_inflows = client.settlement_inflows
        /\ client'.issue_outflows = client.issue_outflows
        /\ dealer' = dealer /\ ledger' = ledger
    BY <1>4 DEF MonthEnds, Reconciled, ReconcileClient, ClientAccount
  <2> QED
    BY <2>1 DEF LedgerInv
<1>5. CASE Restarting
  <2>1. PICK capital \in Nat : client' = ReconcileClient(ResetClient(client), capital)
    BY <1>5 DEF Restarting, Restarted
  <2>2. client'.settlement_inflows = 0 /\ client'.issue_outflows = 0
    BY <2>1 DEF ReconcileClient, ResetClient, OpenClient
  <2>3. dealer'.cash_balance = 0 /\ ledger' = << >>
    BY <1>5 DEF Restarting, Restarted, ResetDealer, OpenDealer
  <2> QED
    BY <2>2, <2>3, NetOfNothing DEF LedgerInv
<1> QED
  BY <1>1, <1>2, <1>3, <1>4, <1>5, <1>6, NextMoneyMoves DEF MoneyMoves

\* The cashflow ledger explains the accounts until a month that raised is run
\* again: over every flow it lists, the dealer's add up to its cash and the
\* client's to what settlements brought it less what issues cost, also in the
\* middle of a loop and after pricing raised in it.
THEOREM LedgerAlwaysExplains == Spec => []LedgerExplainsAccounts
<1> DEFINE Explained == retries = 0 => LedgerInv
<1>1. Init => Explained
  BY NetOfNothing DEF Init, LedgerInv, OpenClient, OpenDealer
<1>2. ASSUME TypeInv, SettleInv, BackedInv, Explained, [Next]_core
      PROVE  Explained'
  <2> SUFFICES ASSUME retries' = 0 PROVE LedgerInv'
    OBVIOUS
  <2>1. retries = 0
    BY <1>2, RetriesGrow DEF TypeInv, TypeOK, LoopOK
  <2>2. AheadActive /\ LockedInv /\ LedgerInv
    BY <1>2, <2>1, FirstLoopAhead DEF TypeInv, BackedInv
  <2> QED
    BY <1>2, <2>2, NextLedgerInv
<1>3. Explained => LedgerExplainsAccounts
  BY DEF LedgerInv, LedgerExplainsAccounts, Net, ReceivedIn, PaidIn, Received, Paid
<1> HIDE DEF Explained
<1>4. Spec => []Explained
  BY <1>1, <1>2, BackedInvHolds, PTL DEF Spec
<1> QED
  BY <1>3, <1>4, PTL

-----------------------------------------------------------------------------
(* The limits.  A quote that passed the HARD checks names, in the state it *)
(* is bound to, the exposure, the stress and the dealer it was checked     *)
(* against; and it is executed in that state only.                         *)

FitsBound(quote) ==
  /\ quote.version[6] + quote.product.notional <= NotionalLimit
  /\ quote.version[8] + Greater(quote.mark.stress, 0) <= RiskCapital(quote.version[4])

QuotesFit == \A q \in quotes : q.hard_pass => FitsBound(q)

\* A quote of this state that passes fits this state.
LEMMA QuoteFitsBound ==
  ASSUME NEW product, NEW mark, NEW mandate \in BOOLEAN, NEW contract \in BOOLEAN,
         Quote(product, mark, mandate, contract).hard_pass
  PROVE  FitsBound(Quote(product, mark, mandate, contract))
<1>1. FitsPortfolio(product, mark)
  BY DEF Quote
<1>2. /\ StateVersion[6] = ActiveNotional
      /\ StateVersion[8] = ActiveStress
      /\ StateVersion[4] = dealer
  BY DEF StateVersion
<1>3. /\ Quote(product, mark, mandate, contract).version = StateVersion
      /\ Quote(product, mark, mandate, contract).product = product
      /\ Quote(product, mark, mandate, contract).mark = mark
  BY DEF Quote
<1> QED
  BY <1>1, <1>2, <1>3 DEF FitsPortfolio, FitsBound

\* Every stored quote keeps fitting what it is bound to.
LEMMA NextQuotesFit ==
  ASSUME QuotesFit, [Next]_core
  PROVE  QuotesFit'
<1> USE DEF tools
<1>1. CASE quotes' \subseteq quotes
  BY <1>1 DEF QuotesFit, FitsBound
<1>2. ASSUME NEW product \in Products, NEW mark \in Marks,
             NEW mandate \in BOOLEAN, NEW contract \in BOOLEAN,
             quotes' = quotes \cup {Quote(product, mark, mandate, contract)}
      PROVE  QuotesFit'
  <2> DEFINE quote == Quote(product, mark, mandate, contract)
  <2>1. quote.hard_pass => FitsBound(quote)
    BY QuoteFitsBound
  <2>2. \A q \in quotes' : q \in quotes \/ q = quote
    BY <1>2
  <2> HIDE DEF quote
  <2>3. \A q \in quotes' : q.hard_pass => FitsBound(q)
    BY <2>1, <2>2 DEF QuotesFit
  <2> QED
    BY <2>3 DEF QuotesFit, FitsBound
<1>3. \/ quotes' \subseteq quotes
      \/ \E product \in Products, mark \in Marks, mandate, contract \in BOOLEAN :
           quotes' = quotes \cup {Quote(product, mark, mandate, contract)}
  BY DEF Next, Tool, Advance, ObserveNextPosition, Liquidate, QueryClient, QuoteNotConverged,
         RequestQuote, SubmitProduct, SubmitDesign, CloseRound, BeginAdvance, AdvancePosition,
         AdvanceRaises, RevaluationFails, SettlementRaises, CompleteAdvance, AdvanceStatic,
         FreshTools, BeginLiquidation, LiquidatePosition, LiquidationRaises,
         CompleteLiquidation, core
<1> QED
  BY <1>1, <1>2, <1>3

FitsNow(quote) ==
  /\ ActiveNotional + quote.product.notional <= NotionalLimit
  /\ ActiveStress + Greater(quote.mark.stress, 0) <= RiskCapital(dealer)

\* A contract is added only for a quote that fits the portfolio as it is.
LEMMA OnlyFittingQuotesTrade ==
  ASSUME TypeInv, LoopInv, QuotesFit, [Next]_core,
         Len(positions') > Len(positions)
  PROVE  \E quote : /\ QuoteOK(quote)
                    /\ FitsNow(quote)
                    /\ positions' = Append(positions, Position(quote))
<1> USE DEF TypeInv, TypeOK
<1>1. /\ Len(positions) \in Nat /\ DOMAIN positions = 1 .. Len(positions)
      /\ positions \in Seq(PositionRecord)
  BY PositionsDomain DEF PortfolioOK
<1>2. positions' # positions
  BY <1>1
<1>3. ASSUME NEW p \in PositionRecord, Replacing(p)
      PROVE  FALSE
  <2>1. cursor \in 1 .. Len(positions)
    BY <1>1, <1>3 DEF Replacing, LoopOK
  <2>2. Len(positions') = Len(positions)
    BY <1>1, <1>3, <2>1, ExceptSeq DEF Replacing
  <2> QED BY <1>1, <2>2
<1>4. ~ MonthEnds
  <2> SUFFICES ASSUME MonthEnds PROVE FALSE
    OBVIOUS
  <2>1. Len(kept) \in Nat /\ cursor \in Nat
    BY LenProperties DEF LoopOK
  <2>2. Len(kept) < cursor /\ cursor <= Len(positions) + 1 /\ positions' = kept
    BY DEF MonthEnds, LoopInv
  <2> QED BY <1>1, <2>1, <2>2
<1>5. positions' # << >>
  BY <1>1, EmptySeq
<1>6. \E p \in PositionRecord : Issuing(p)
  BY <1>2, <1>3, <1>4, <1>5, NextMoneyMoves
  DEF MoneyMoves, Waiting, Surviving, Closing, Refusing, Restarting, HorizonEnds
<1>7. ASSUME NEW quote, Settle(quote)
      PROVE  quote.hard_pass /\ positions' = Append(positions, Position(quote))
  BY <1>2, <1>7 DEF Settle, Accepted, AddPosition, portfolio
<1>8. ASSUME NEW product \in Products, NEW mark \in Marks,
             NEW mandate \in BOOLEAN, NEW contract \in BOOLEAN,
             SubmitProduct(product, mark, mandate, contract)
      PROVE  \E quote : /\ QuoteOK(quote)
                        /\ FitsNow(quote)
                        /\ positions' = Append(positions, Position(quote))
  <2> DEFINE quote == Quote(product, mark, mandate, contract)
  <2>1. QuoteOK(quote) /\ Settle(quote)
    BY <1>8, QuoteType DEF SubmitProduct
  <2>2. quote.hard_pass /\ positions' = Append(positions, Position(quote))
    BY <1>7, <2>1
  <2>3. FitsPortfolio(product, mark) /\ quote.product = product /\ quote.mark = mark
    BY <2>2 DEF Quote
  <2>4. FitsNow(quote)
    BY <2>3 DEF FitsPortfolio, FitsNow
  <2> HIDE DEF quote
  <2> QED
    BY <2>1, <2>2, <2>4
<1>9. ASSUME NEW quote \in quotes, SubmitDesign(quote)
      PROVE  /\ QuoteOK(quote)
             /\ FitsNow(quote)
             /\ positions' = Append(positions, Position(quote))
  <2>1. QuoteOK(quote) /\ Settle(quote) /\ quote.version = StateVersion
    BY <1>9 DEF SubmitDesign, CanSubmit, ToolsOK
  <2>2. quote.hard_pass /\ positions' = Append(positions, Position(quote))
    BY <1>7, <2>1
  <2>3. /\ StateVersion[6] = ActiveNotional
        /\ StateVersion[8] = ActiveStress
        /\ StateVersion[4] = dealer
    BY DEF StateVersion
  <2>4. FitsBound(quote)
    BY <2>2 DEF QuotesFit
  <2>5. FitsNow(quote)
    BY <2>1, <2>3, <2>4 DEF FitsBound, FitsNow
  <2> QED
    BY <2>1, <2>2, <2>5
<1>10. ASSUME UNCHANGED positions
       PROVE  FALSE
  BY <1>2, <1>10
<1>11. ~ ObserveNextPosition /\ ~ LiquidatePosition /\ ~ AdvanceRaises /\ ~ LiquidationRaises
  <2>1. phase \notin {"advancing", "liquidating"}
    BY <1>6 DEF Issuing, Ready
  <2> QED
    BY <2>1, RaisingFails
    DEF ObserveNextPosition, AdvancePosition, LiquidatePosition, AtPosition
<1>12. \A capital \in Capitals : ~ CompleteAdvance(capital) /\ ~ AdvanceStatic(capital)
  <2>1. phase # "advancing"
    BY <1>6 DEF Issuing, Ready
  <2> QED
    BY <1>5, <2>1 DEF CompleteAdvance, AdvanceStatic
<1>13. /\ ~ QueryClient /\ ~ QuoteNotConverged /\ ~ CloseRound /\ ~ BeginAdvance
       /\ ~ BeginLiquidation /\ ~ CompleteLiquidation /\ ~ UNCHANGED core
       /\ \A product \in Products, mark \in Marks, mandate, contract \in BOOLEAN :
            ~ RequestQuote(product, mark, mandate, contract)
  BY <1>2, <1>5 DEF QueryClient, QuoteNotConverged, CloseRound, BeginAdvance,
                    BeginLiquidation, CompleteLiquidation, RequestQuote, core, portfolio
<1> QED
  BY <1>8, <1>9, <1>11, <1>12, <1>13 DEF Next, Tool, Advance, Liquidate

\* What a contract adds to the totals.
LEMMA TotalsAppended ==
  ASSUME PortfolioOK, NEW p \in PositionRecord, positions' = Append(positions, p)
  PROVE  /\ ActiveNotional' = ActiveNotional + p.notional
         /\ ActiveStress' = ActiveStress + Greater(p.stress, 0)
<1> DEFINE n == Len(positions)
           notionals == [i \in DOMAIN positions |-> positions[i].notional]
           stresses == [i \in DOMAIN positions |-> Greater(positions[i].stress, 0)]
<1>1. /\ n \in Nat /\ DOMAIN positions = 1 .. n /\ DOMAIN positions' = 1 .. n + 1
      /\ \A i \in 1 .. n : positions[i] \in PositionRecord /\ positions'[i] = positions[i]
      /\ positions'[n + 1] = p
  BY PositionsDomain, AppendedPosition
<1>2. \A i \in 1 .. n + 1 : positions'[i] \in PositionRecord
  <2> TAKE i \in 1 .. n + 1
  <2>1. CASE i = n + 1
    BY <1>1, <2>1
  <2>2. CASE i # n + 1
    <3>1. i \in 1 .. n
      BY <1>1, <2>2
    <3> QED BY <1>1, <3>1
  <2> QED BY <2>1, <2>2
<1>3. \A q \in PositionRecord : q.notional \in Int /\ Greater(q.stress, 0) \in Int
  BY GreaterZero DEF PositionRecord
<1> HIDE DEF n
<1>4. /\ notionals \in [1 .. n -> Int] /\ notionals' \in [1 .. n + 1 -> Int]
      /\ stresses \in [1 .. n -> Int] /\ stresses' \in [1 .. n + 1 -> Int]
  BY <1>1, <1>2, <1>3
<1>5. /\ \A i \in 1 .. n : i \in 1 .. n + 1
      /\ n + 1 \in 1 .. n + 1
  BY <1>1
<1>6. /\ \A i \in 1 .. n : notionals'[i] = notionals[i] /\ stresses'[i] = stresses[i]
      /\ notionals'[n + 1] = p.notional /\ stresses'[n + 1] = Greater(p.stress, 0)
  BY <1>1, <1>5
<1>7. ActiveNotional = SumOf(notionals) /\ ActiveStress = SumOf(stresses)
  BY DEF ActiveNotional, ActiveStress
<1>8. ActiveNotional' = SumOf(notionals') /\ ActiveStress' = SumOf(stresses')
  BY DEF ActiveNotional, ActiveStress
<1> HIDE DEF notionals, stresses
<1> QED
  BY <1>1, <1>4, <1>6, <1>7, <1>8, SumAppend

\* A trade leaves the whole portfolio within the limits of that moment: no
\* sequence of quotes, trades, months and losses executes one that does not.
THEOREM EveryTradeFits == Spec => TradesFitRiskCapital
<1>1. Init => QuotesFit
  BY DEF Init, QuotesFit
<1>2. ASSUME TypeInv, BackedInv, QuotesFit, [Next]_core
      PROVE  [Len(positions') > Len(positions)
               => /\ ActiveStress' <= RiskCapital(dealer)
                  /\ ActiveNotional' <= NotionalLimit]_core
  <2> SUFFICES ASSUME Len(positions') > Len(positions)
               PROVE  /\ ActiveStress' <= RiskCapital(dealer)
                      /\ ActiveNotional' <= NotionalLimit
    OBVIOUS
  <2>1. PICK quote : /\ QuoteOK(quote)
                     /\ FitsNow(quote)
                     /\ positions' = Append(positions, Position(quote))
    BY <1>2, OnlyFittingQuotesTrade DEF BackedInv
  <2>2. /\ Position(quote) \in PositionRecord
        /\ Position(quote).notional = quote.product.notional
        /\ Position(quote).stress = quote.mark.stress
    BY <1>2, <2>1, PositionType DEF Position, TypeInv, TypeOK
  <2>3. /\ ActiveNotional' = ActiveNotional + quote.product.notional
        /\ ActiveStress' = ActiveStress + Greater(quote.mark.stress, 0)
    BY <1>2, <2>1, <2>2, TotalsAppended DEF TypeInv, TypeOK
  <2> QED
    BY <2>1, <2>3 DEF FitsNow
<1>3. QuotesFit /\ [Next]_core => QuotesFit'
  BY NextQuotesFit
<1>4. Spec => []QuotesFit
  BY <1>1, <1>3, PTL DEF Spec
<1> QED
  BY <1>2, <1>4, BackedInvHolds, PTL DEF Spec, TradesFitRiskCapital

=============================================================================
