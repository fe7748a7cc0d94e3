------------------------------ MODULE RunProofs ------------------------------
(***************************************************************************)
(* The older runner, LegacyRun, is one more driver of the core: whatever a *)
(* model answers, its episode is a behaviour of LongHorizon, so that what  *)
(* is proved of the core holds of it.  Then what its traces say: the last  *)
(* chance is the last, a failed check is counted once, what is accepted is *)
(* what was issued, and no trade earns more than its round offered.        *)
(***************************************************************************)
EXTENDS LegacyRun, LongHorizonProofs, FiniteSetTheorems

MarketInv == market \in Markets

\* What a market makes of a product is what the desk may make of it.
LEMMA MarketFacts ==
  ASSUME market \in Markets, NEW product \in Products
  PROVE  /\ market[product].mark \in Marks
         /\ market[product].contract \in BOOLEAN
         /\ market[product].mandate \in BOOLEAN
<1>1. market[product] \in Fact
  BY RunAssumption
<1> QED BY <1>1 DEF Fact

\* Every step of the runner is one of the core, or leaves the core alone.
LEMMA RunStepIsCoreStep ==
  ASSUME market \in Markets, [RunNext]_all
  PROVE  [Next]_core
<1>1. CASE OpenRound
  BY <1>1 DEF OpenRound
<1>2. CASE ProtocolError
  BY <1>2 DEF ProtocolError
<1>3. CASE QueryTurn
  BY <1>3 DEF QueryTurn, Next, Tool
<1>4. ASSUME NEW role, NEW degraded, ConsultTurn(role, degraded) PROVE [Next]_core
  BY <1>4 DEF ConsultTurn
<1>5. ASSUME NEW product \in Products, QuoteTurn(product) PROVE [Next]_core
  BY <1>5, MarketFacts DEF QuoteTurn, Next, Tool
<1>7. ASSUME NEW product \in Products, QuoteAndSubmitTurn(product) PROVE [Next]_core
  BY <1>7, MarketFacts DEF QuoteAndSubmitTurn, Next, Tool
<1>8. ASSUME NEW quote \in quotes, SubmitTurn(quote) PROVE [Next]_core
  BY <1>8 DEF SubmitTurn, Next, Tool
<1>9. CASE SkipTurn
  BY <1>9 DEF SkipTurn, Next, Tool
<1>10. CASE ChatFails
  BY <1>10 DEF ChatFails
<1>11. ASSUME NEW quote \in quotes, ForcedSubmit(quote) PROVE [Next]_core
  BY <1>11 DEF ForcedSubmit, Next, Tool
<1>12. CASE ForcedPass
  BY <1>12 DEF ForcedPass, Next, Tool
<1>13. CASE StopActing
  BY <1>13 DEF StopActing, Next, Tool
<1>14. ASSUME NEW affirmed \in SUBSET Roles, Review(affirmed) PROVE [Next]_core
  BY <1>14 DEF Review
<1>15. CASE AdvanceRun
  BY <1>15 DEF AdvanceRun, Next
<1>16. CASE UNCHANGED all
  BY <1>16 DEF all
<1> QED
  BY <1>1, <1>2, <1>3, <1>4, <1>5, <1>7, <1>8, <1>9, <1>10, <1>11, <1>12, <1>13, <1>14,
     <1>15, <1>16 DEF RunNext, Turn, EndOfRound

\* The market of a round is one of the markets.
LEMMA MarketStays ==
  ASSUME market \in Markets, [RunNext]_all
  PROVE  market' \in Markets
  BY DEF RunNext, Turn, EndOfRound, OpenRound, ProtocolError, QueryTurn, ConsultTurn, QuoteTurn,
         QuoteAndSubmitTurn, SubmitTurn, SkipTurn, ChatFails, ForcedSubmit,
         ForcedPass, StopActing, Review, AdvanceRun, UseTurn, all, run

\* The older runner drives the core the way the core may be driven: each of
\* its turns, reviews and advances is an operation of LongHorizon, made when
\* that operation is allowed, or leaves the environment alone.
THEOREM RunDrivesCore == RunSpec => Spec
<1>1. RunInit => Init /\ MarketInv
  BY DEF RunInit, MarketInv
<1>2. MarketInv /\ [RunNext]_all => MarketInv'
  BY MarketStays DEF MarketInv
<1>3. MarketInv /\ [RunNext]_all => [Next]_core
  BY RunStepIsCoreStep DEF MarketInv
<1> QED BY <1>1, <1>2, <1>3, PTL DEF RunSpec, Spec

\* An exception leaves the run, so no month is run again.
OneAttempt == retries = 0 /\ (phase = "failed" => stage = "failed")

\* A month's step either raises or stays in an attempt that has not.
LEMMA AdvancesOnce ==
  ASSUME Advance, phase # "failed"
  PROVE  UNCHANGED retries /\ (phase' = "failed" => round' = round)
<1>1. CASE BeginAdvance
  BY <1>1 DEF BeginAdvance, Begin
<1>2. CASE ObserveNextPosition
  BY <1>2 DEF ObserveNextPosition, AdvancePosition
<1>3. ASSUME NEW hedge \in HedgeMoves, RevaluationFails(hedge)
      PROVE  UNCHANGED <<retries, round>>
  BY <1>3 DEF RevaluationFails
<1>4. ASSUME NEW exit, NEW mark, NEW hedge, NEW payoff,
             SettlementRaises(exit, mark, hedge, payoff)
      PROVE  UNCHANGED <<retries, round>>
  BY <1>4 DEF SettlementRaises, SettlementRefused
<1>5. ASSUME NEW capital \in Capitals, CompleteAdvance(capital) \/ AdvanceStatic(capital)
      PROVE  UNCHANGED retries /\ phase' # "failed"
  BY <1>5 DEF CompleteAdvance, AdvanceStatic, loop
<1> QED
  BY <1>1, <1>2, <1>3, <1>4, <1>5 DEF Advance, AdvanceRaises

\* Nothing is done in a run that has failed, and only its advance can fail
\* the environment.
LEMMA NextOneAttempt == OneAttempt /\ [RunNext]_all => OneAttempt'
<1> SUFFICES ASSUME OneAttempt, [RunNext]_all PROVE OneAttempt'
  OBVIOUS
<1>1. CASE AdvanceRun
  <2>1. phase # "failed"
    BY <1>1 DEF AdvanceRun, OneAttempt
  <2> QED
    BY <1>1, <2>1, AdvancesOnce DEF AdvanceRun, OneAttempt
<1>2. CASE UNCHANGED all
  BY <1>2 DEF all, run, core, loop, OneAttempt
<1>3. CASE RunNext /\ ~ AdvanceRun
  <2>1. UNCHANGED <<phase, retries>>
    BY <1>3 DEF RunNext, Turn, EndOfRound, OpenRound, ProtocolError, QueryTurn, QueryClient,
      ConsultTurn, QuoteTurn, RequestQuote, QuoteAndSubmitTurn, SubmitProduct, SubmitTurn,
      SubmitDesign, SkipTurn, CloseRound, ChatFails, ForcedSubmit, ForcedPass, StopActing,
      Review, core, loop
  <2>2. stage # "failed"
    BY <1>3 DEF RunNext, Turn, EndOfRound, OpenRound, ProtocolError, QueryTurn, ConsultTurn,
      QuoteTurn, QuoteAndSubmitTurn, SubmitTurn, SkipTurn, ChatFails, ForcedSubmit, ForcedPass,
      StopActing, Review, Acting, LastChance
  <2> QED
    BY <2>1, <2>2 DEF OneAttempt
<1> QED
  BY <1>1, <1>2, <1>3

\* What the interface allows the runner never does: it makes no further call
\* after one that raised, so that what the core's properties say until a month
\* is run again holds of the whole run.
THEOREM RunNeverRepeats == RunSpec => [](retries = 0)
<1>1. RunInit => OneAttempt
  BY DEF RunInit, Init, OneAttempt
<1>2. OneAttempt => retries = 0
  BY DEF OneAttempt
<1> QED
  BY <1>1, <1>2, NextOneAttempt, PTL DEF RunSpec

\* So no quote it stores in a round goes stale before the round is settled,
THEOREM RunQuotesStayFresh == RunSpec => []QuotesStayFresh
  BY RunDrivesCore, QuotesNeverExpire, PTL

\* the money of both accounts is accounted for,
THEOREM RunBooksBalance == RunSpec => []BooksBalance
  BY RunDrivesCore, BooksAlwaysBalance, PTL

\* its cashflow ledger explains them and locked cash backs the open contracts,
THEOREM RunLedgerExplains ==
  RunSpec => [](retries = 0 /\ LockedBacksActive /\ LedgerExplainsAccounts)
  BY RunNeverRepeats, RunDrivesCore, LockedCashBacksContracts, LedgerAlwaysExplains, PTL

\* no trade leaves the portfolio beyond its limits,
THEOREM RunTradesFit == RunSpec => TradesFitRiskCapital
  BY RunDrivesCore, EveryTradeFits, PTL

\* every contract is settled once: in a run that makes no second attempt at a
\* month no two events name one contract,
THEOREM RunSettlesOnce == RunSpec => [](retries = 0 /\ SettledOnce)
  BY RunNeverRepeats, RunDrivesCore, EveryContractSettledOnce, PTL

\* no round trades twice, its last chance included,
THEOREM RunTradesOnce == RunSpec => []OneTradePerRound
  BY RunDrivesCore, NoRoundTradesTwice, PTL

\* and in the static condition no round carries anything into the next.
THEOREM RunStaticRounds == RunSpec => []StaticRoundsStartFresh
  BY RunDrivesCore, StaticRoundsAreIndependent, PTL

-----------------------------------------------------------------------------
(* The last chance.  Only four fields of a trace matter.                   *)

IsTrace(r) == DOMAIN r = DOMAIN FreshTrace

IsSequence(s) == \E S : s \in Seq(S)

SameTurns(r, s) ==
  /\ IsTrace(r)
  /\ r.actions = s.actions /\ r.skipped = s.skipped
  /\ r.submitted = s.submitted /\ r.origin = s.origin

RowOK(r) ==
  /\ r.actions > Budget(strategy)
       => ForcedPrompt(strategy) /\ ~ r.skipped /\ r.origin # "voluntary"
  /\ r.origin = "forced_prompt" => r.actions = Budget(strategy) + 1
  /\ r.skipped => ~ r.submitted

Untouched(r) == ~ r.skipped /\ ~ r.submitted /\ r.origin = None

\* In the loop every turn used is counted; a round that comes out of it open
\* has used them all, and has neither skipped nor submitted.
TurnsInv ==
  /\ strategy \in Policies
  /\ turn \in Nat
  /\ IsTrace(trace) /\ trace.actions \in Nat
  /\ IsSequence(traces)
  /\ \A i \in DOMAIN traces : RowOK(traces[i])
  /\ RowOK(trace)
  /\ stage \in {"opening", "advancing"} => trace.actions = 0 /\ Untouched(trace)
  /\ stage = "acting" => /\ turn <= Budget(strategy) /\ trace.actions = turn - 1
                         /\ Untouched(trace)
  /\ stage = "closing" => /\ trace.actions <= Budget(strategy)
                          /\ ~ submitted => /\ trace.actions = Budget(strategy)
                                            /\ Untouched(trace)

\* Every protocol has at least one turn.
LEMMA BudgetPositive ==
  ASSUME strategy \in Policies
  PROVE  Budget(strategy) \in Nat \ {0}
  BY RunAssumption DEF Budget

\* A fresh trace has used no turn.
LEMMA FreshTurns ==
  /\ IsTrace(FreshTrace) /\ FreshTrace.actions = 0 /\ Untouched(FreshTrace)
  BY DEF IsTrace, FreshTrace, Untouched, None

\* Noting failed checks does not touch what counts turns,
LEMMA NotedTurns ==
  ASSUME NEW r, IsTrace(r), NEW quote
  PROVE  SameTurns(Failed(r, quote), r) /\ SameTurns(Quoted(r, quote), r)
<1>1. {"actions", "skipped", "submitted", "origin", "failures", "attempts"} \subseteq DOMAIN r
  BY DEF IsTrace, FreshTrace
<1>2. SameTurns(Failed(r, quote), r)
  BY <1>1 DEF Failed, SameTurns, IsTrace
<1>3. SameTurns(Quoted(r, quote), r)
  BY <1>1, <1>2 DEF Quoted, SameTurns, IsTrace
<1> QED BY <1>2, <1>3

\* and a submission is noted with its origin.
LEMMA RecordedTurns ==
  ASSUME NEW r, IsTrace(r), NEW quote, NEW origin
  PROVE  /\ IsTrace(Recorded(r, quote, origin))
         /\ Recorded(r, quote, origin).actions = r.actions
         /\ Recorded(r, quote, origin).skipped = r.skipped
         /\ Recorded(r, quote, origin).origin = origin
<1>1. {"actions", "skipped", "submitted", "accepted", "origin", "quote", "margin"} \subseteq DOMAIN r
  BY DEF IsTrace, FreshTrace
<1>2. SameTurns(Failed(r, quote), r)
  BY NotedTurns
<1> QED BY <1>1, <1>2 DEF Recorded, SameTurns, IsTrace

\* Using a turn counts it.
LEMMA UsedTurn ==
  ASSUME NEW r, IsTrace(r), UseTurn(r)
  PROVE  /\ IsTrace(trace') /\ trace'.actions = r.actions + 1
         /\ trace'.skipped = r.skipped /\ trace'.submitted = r.submitted
         /\ trace'.origin = r.origin
         /\ UNCHANGED <<strategy, traces>>
<1>1. {"actions", "skipped", "submitted", "origin"} \subseteq DOMAIN r
  BY DEF IsTrace, FreshTrace
<1>2. DOMAIN FreshTrace' = DOMAIN FreshTrace
  BY DEF FreshTrace
<1> QED BY <1>1, <1>2 DEF UseTurn, IsTrace

\* A turn that neither settles nor skips leaves an untouched round, with one
\* more turn used; after the last of them the loop is over.
LEMMA OpenTurn ==
  ASSUME TurnsInv, Acting, Continue, NEW r, SameTurns(r, trace), UseTurn(r)
  PROVE  TurnsInv'
<1>1. Budget(strategy) \in Nat \ {0} /\ Budget(strategy)' = Budget(strategy)
  BY BudgetPositive DEF TurnsInv, UseTurn, Budget
<1>2. /\ IsTrace(trace') /\ trace'.actions = turn /\ Untouched(trace')
      /\ UNCHANGED <<strategy, traces>>
  BY UsedTurn DEF TurnsInv, Acting, SameTurns, Untouched
<1>3. turn' = turn + 1 /\ stage' = IF turn < Budget(strategy) THEN "acting" ELSE "closing"
  BY DEF Continue
<1>4. turn \in Nat /\ turn <= Budget(strategy)
  BY DEF TurnsInv, Acting
<1>5. RowOK(trace)'
  BY <1>1, <1>2, <1>4 DEF RowOK, Untouched, None
<1>6. \A i \in DOMAIN traces' : RowOK(traces[i])'
  BY <1>2 DEF TurnsInv, RowOK, Budget, ForcedPrompt
<1>7. IsTrace(trace)'
  BY <1>2 DEF IsTrace, FreshTrace
<1>8. Untouched(trace)'
  BY <1>2 DEF Untouched
<1> QED
  BY <1>1, <1>2, <1>3, <1>4, <1>5, <1>6, <1>7, <1>8 DEF TurnsInv, IsSequence

\* A turn that settles or skips the round ends the loop within the budget.
LEMMA LastTurn ==
  ASSUME TurnsInv, Acting, Break, submitted',
         NEW r, IsTrace(r), r.actions = trace.actions,
         r.origin # "forced_prompt", r.skipped => ~ r.submitted,
         UseTurn(r)
  PROVE  TurnsInv'
<1>1. Budget(strategy) \in Nat \ {0} /\ Budget(strategy)' = Budget(strategy)
  BY BudgetPositive DEF TurnsInv, UseTurn, Budget
<1>2. /\ IsTrace(trace') /\ trace'.actions = turn
      /\ trace'.skipped = r.skipped /\ trace'.submitted = r.submitted /\ trace'.origin = r.origin
      /\ UNCHANGED <<strategy, traces>>
  BY UsedTurn DEF TurnsInv, Acting
<1>3. turn' = turn /\ stage' = "closing" /\ turn \in Nat /\ turn <= Budget(strategy)
  BY DEF Break, TurnsInv, Acting
<1>4. RowOK(trace)'
  BY <1>1, <1>2, <1>3 DEF RowOK
<1>5. \A i \in DOMAIN traces' : RowOK(traces[i])'
  BY <1>2 DEF TurnsInv, RowOK, Budget, ForcedPrompt
<1>6. IsTrace(trace)'
  BY <1>2 DEF IsTrace, FreshTrace
<1> QED
  BY <1>1, <1>2, <1>3, <1>4, <1>5, <1>6 DEF TurnsInv, IsSequence

\* The last chance is one turn beyond a budget that was used up untouched.
LEMMA ForcedTurn ==
  ASSUME TurnsInv, LastChance, stage' = "reviewing", UNCHANGED turn,
         NEW r, IsTrace(r), r.actions = trace.actions, ~ r.skipped,
         r.origin # "voluntary", UseTurn(r)
  PROVE  TurnsInv'
<1>1. Budget(strategy) \in Nat \ {0} /\ Budget(strategy)' = Budget(strategy)
  BY BudgetPositive DEF TurnsInv, UseTurn, Budget
<1>2. /\ IsTrace(trace') /\ trace'.actions = Budget(strategy) + 1
      /\ trace'.skipped = r.skipped /\ trace'.origin = r.origin
      /\ UNCHANGED <<strategy, traces>>
  BY UsedTurn, <1>1 DEF TurnsInv, LastChance
<1>3. ForcedPrompt(strategy)'
  BY <1>2 DEF LastChance, ForcedPrompt
<1>4. RowOK(trace)'
  BY <1>1, <1>2, <1>3 DEF RowOK
<1>5. \A i \in DOMAIN traces' : RowOK(traces[i])'
  BY <1>2 DEF TurnsInv, RowOK, Budget, ForcedPrompt
<1>6. IsTrace(trace)'
  BY <1>2 DEF IsTrace, FreshTrace
<1> QED
  BY <1>1, <1>2, <1>4, <1>5, <1>6 DEF TurnsInv, IsSequence

\* Keeping a trace keeps the traces a sequence of good rows.
LEMMA KeptTrace ==
  ASSUME NEW s, IsSequence(s), NEW r
  PROVE  /\ IsSequence(Append(s, r))
         /\ DOMAIN Append(s, r) = DOMAIN s \cup {Len(s) + 1}
         /\ Append(s, r)[Len(s) + 1] = r
         /\ \A i \in DOMAIN s : Append(s, r)[i] = s[i]
<1>1. PICK S : s \in Seq(S)
  BY DEF IsSequence
<1>2. s \in Seq(S \cup {r}) /\ r \in S \cup {r}
  BY <1>1
<1>3. Append(s, r) \in Seq(S \cup {r})
  BY <1>2
<1> QED BY <1>2, <1>3 DEF IsSequence

\* An episode starts with an untouched round.
LEMMA InitTurns == RunInit => TurnsInv
<1> SUFFICES ASSUME RunInit PROVE TurnsInv
  OBVIOUS
<1>1. IsSequence(<< >>) /\ DOMAIN << >> = {}
  BY DEF IsSequence
<1>2. Budget(strategy) \in Nat \ {0}
  BY BudgetPositive DEF RunInit
<1>3. RowOK(trace)
  BY <1>2, FreshTurns DEF RunInit, RowOK, Untouched, None
<1> QED BY <1>1, <1>3, FreshTurns DEF RunInit, TurnsInv

\* Every step of the runner keeps the invariant.
LEMMA NextTurns == TurnsInv /\ [RunNext]_all => TurnsInv'
<1> SUFFICES ASSUME TurnsInv, [RunNext]_all PROVE TurnsInv'
  OBVIOUS
<1> USE DEF None
<1>0. IsTrace(trace) /\ SameTurns(trace, trace)
  BY DEF TurnsInv, SameTurns
<1>1. CASE OpenRound
  <2>1. UNCHANGED <<strategy, traces>> /\ turn' = 1 /\ stage = "opening"
    BY <1>1 DEF OpenRound
  <2>2. stage' \in {"acting", "failed"}
    BY <1>1 DEF OpenRound
  <2>3. IsTrace(trace)' /\ Untouched(trace)' /\ trace'.actions = 0
    <3>1. CASE UNCHANGED trace
      BY <3>1, <2>1 DEF TurnsInv, IsTrace, FreshTrace, Untouched
    <3>2. CASE trace' = [FreshTrace EXCEPT !.frontier = Frontier]
      BY <3>2, FreshTurns DEF IsTrace, FreshTrace, Untouched
    <3> QED BY <3>1, <3>2, <1>1 DEF OpenRound
  <2>4. Budget(strategy) \in Nat \ {0}
    BY BudgetPositive DEF TurnsInv
  <2>5. RowOK(trace)'
    BY <2>1, <2>3, <2>4 DEF RowOK, Budget, Untouched
  <2>6. \A i \in DOMAIN traces' : RowOK(traces[i])'
    BY <2>1 DEF TurnsInv, RowOK, Budget, ForcedPrompt
  <2> QED BY <2>1, <2>2, <2>3, <2>4, <2>5, <2>6 DEF TurnsInv, Budget, IsSequence
<1>2. CASE ProtocolError
  BY <1>2, <1>0, OpenTurn DEF ProtocolError
<1>3. CASE QueryTurn
  BY <1>3, <1>0, OpenTurn DEF QueryTurn
<1>4. ASSUME NEW role, NEW degraded, ConsultTurn(role, degraded) PROVE TurnsInv'
  <2>1. PICK n, d : UseTurn([trace EXCEPT !.consults = n, !.degraded = d])
    BY <1>4 DEF ConsultTurn
  <2>2. SameTurns([trace EXCEPT !.consults = n, !.degraded = d], trace)
    BY <1>0 DEF SameTurns, IsTrace, FreshTrace
  <2> QED BY <1>4, <2>1, <2>2, OpenTurn DEF ConsultTurn
<1>5. ASSUME NEW product \in Products, QuoteTurn(product) PROVE TurnsInv'
  BY <1>5, <1>0, NotedTurns, OpenTurn DEF QuoteTurn
<1>7. ASSUME NEW product \in Products, QuoteAndSubmitTurn(product) PROVE TurnsInv'
  <2> DEFINE quote == NewQuote(product)
             noted == Quoted(trace, quote)
             r     == Recorded(noted, quote, "voluntary")
  <2>1. Acting /\ Break /\ UseTurn(r) /\ submitted'
    BY <1>7 DEF QuoteAndSubmitTurn, SubmitProduct, Settle
  <2>2. SameTurns(noted, trace)
    BY <1>0, NotedTurns
  <2>3. IsTrace(noted) /\ noted.actions = trace.actions /\ ~ noted.skipped
    BY <2>1, <2>2 DEF SameTurns, TurnsInv, Acting, Untouched
  <2> HIDE DEF noted, quote
  <2>4. IsTrace(r) /\ r.actions = trace.actions /\ ~ r.skipped /\ r.origin = "voluntary"
    BY <2>3, RecordedTurns
  <2> HIDE DEF r
  <2> QED BY <2>1, <2>4, LastTurn
<1>8. ASSUME NEW quote \in quotes, SubmitTurn(quote) PROVE TurnsInv'
  <2> DEFINE r == Recorded(trace, quote, "voluntary")
  <2>1. Acting /\ Break /\ UseTurn(r) /\ submitted'
    BY <1>8 DEF SubmitTurn, SubmitDesign, Settle
  <2>2. ~ trace.skipped
    BY <2>1 DEF TurnsInv, Acting, Untouched
  <2>3. IsTrace(r) /\ r.actions = trace.actions /\ ~ r.skipped /\ r.origin = "voluntary"
    BY <1>0, <2>2, RecordedTurns
  <2> HIDE DEF r
  <2> QED BY <2>1, <2>3, LastTurn
<1>9. CASE SkipTurn
  <2> DEFINE r == [trace EXCEPT !.skipped = TRUE]
  <2>1. Acting /\ Break /\ UseTurn(r) /\ submitted'
    BY <1>9 DEF SkipTurn, CloseRound
  <2>2. IsTrace(r) /\ r.actions = trace.actions /\ ~ r.submitted /\ r.origin = None
    BY <1>0, <2>1 DEF IsTrace, FreshTrace, TurnsInv, Acting, Untouched
  <2> HIDE DEF r
  <2> QED BY <2>1, <2>2, LastTurn
<1>10. CASE ChatFails
  BY <1>10 DEF ChatFails, TurnsInv, IsTrace, FreshTrace, RowOK, Budget, ForcedPrompt, IsSequence
<1>11. ASSUME NEW quote \in quotes, ForcedSubmit(quote) PROVE TurnsInv'
  <2> DEFINE r == Recorded(trace, quote, "forced_prompt")
  <2>1. LastChance /\ stage' = "reviewing" /\ UNCHANGED turn /\ UseTurn(r)
    BY <1>11 DEF ForcedSubmit
  <2>2. ~ trace.skipped
    BY <2>1 DEF TurnsInv, LastChance, Untouched
  <2>3. IsTrace(r) /\ r.actions = trace.actions /\ ~ r.skipped /\ r.origin = "forced_prompt"
    BY <1>0, <2>2, RecordedTurns
  <2> HIDE DEF r
  <2> QED BY <2>1, <2>3, ForcedTurn
<1>12. CASE ForcedPass
  <2>1. LastChance /\ stage' = "reviewing" /\ UNCHANGED turn /\ UseTurn(trace)
    BY <1>12 DEF ForcedPass
  <2>2. ~ trace.skipped /\ trace.origin = None
    BY <2>1 DEF TurnsInv, LastChance, Untouched
  <2> QED BY <1>0, <2>1, <2>2, ForcedTurn
<1>13. CASE StopActing
  BY <1>13 DEF StopActing, TurnsInv, IsTrace, FreshTrace, RowOK, Budget, ForcedPrompt, IsSequence
<1>14. ASSUME NEW affirmed \in SUBSET Roles, Review(affirmed) PROVE TurnsInv'
  <2>1. /\ \E w : traces' = Append(traces, [trace EXCEPT !.workflow = w])
        /\ trace' = FreshTrace /\ stage' \in {"advancing", "done"}
        /\ UNCHANGED <<strategy, turn, submitted, round>>
    BY <1>14 DEF Review, core, tools
  <2>2. PICK w : traces' = Append(traces, [trace EXCEPT !.workflow = w])
    BY <2>1
  <2> DEFINE r == [trace EXCEPT !.workflow = w]
  <2>3. SameTurns(r, trace)
    BY <1>0 DEF SameTurns, IsTrace, FreshTrace
  <2>4. RowOK(r)
    BY <2>3 DEF SameTurns, TurnsInv, RowOK
  <2> HIDE DEF r
  <2>5. IsSequence(traces') /\ \A i \in DOMAIN traces' : RowOK(traces'[i])
    BY <2>2, <2>4, KeptTrace DEF TurnsInv, r
  <2>6. \A i \in DOMAIN traces' : RowOK(traces[i])'
    BY <2>1, <2>5 DEF RowOK, Budget, ForcedPrompt
  <2>7. Budget(strategy) \in Nat \ {0}
    BY BudgetPositive DEF TurnsInv
  <2>8. IsTrace(trace)' /\ Untouched(trace)' /\ trace'.actions = 0
    BY <2>1, FreshTurns DEF IsTrace, FreshTrace, Untouched
  <2>9. RowOK(trace)'
    BY <2>1, <2>7, <2>8 DEF RowOK, Budget, Untouched
  <2> QED BY <2>1, <2>5, <2>6, <2>8, <2>9 DEF TurnsInv, IsSequence, Untouched
<1>15. CASE AdvanceRun
  <2>1. UNCHANGED <<strategy, turn, trace, traces>> /\ stage = "advancing"
        /\ stage' \in {"opening", "failed", "advancing"}
    BY <1>15 DEF AdvanceRun
  <2>2. IsTrace(trace)' /\ Untouched(trace)' /\ RowOK(trace)' /\ trace'.actions = 0
    BY <2>1 DEF TurnsInv, IsTrace, FreshTrace, Untouched, RowOK, Budget, ForcedPrompt
  <2>3. \A i \in DOMAIN traces' : RowOK(traces[i])'
    BY <2>1 DEF TurnsInv, RowOK, Budget, ForcedPrompt
  <2> QED BY <2>1, <2>2, <2>3 DEF TurnsInv, IsSequence
<1>16. CASE UNCHANGED all
  BY <1>16 DEF all, core, tools, run, TurnsInv, IsTrace, FreshTrace, RowOK, Budget, ForcedPrompt,
               IsSequence, Untouched
<1> QED
  BY <1>1, <1>2, <1>3, <1>4, <1>5, <1>7, <1>8, <1>9, <1>10, <1>11, <1>12, <1>13, <1>14,
     <1>15, <1>16 DEF RunNext, Turn, EndOfRound

\* The rows of the closed rounds and of the present one are good.
LEMMA TurnsRows == TurnsInv => ForcedIsLastChance
<1> SUFFICES ASSUME TurnsInv, NEW i \in DOMAIN Rows PROVE RowOK(Rows[i])
  BY DEF ForcedIsLastChance, RowOK
<1>1. PICK S : traces \in Seq(S)
  BY DEF TurnsInv, IsSequence
<1>2. traces \in Seq(S \cup {trace}) /\ <<trace>> \in Seq(S \cup {trace})
  BY <1>1
<1>3. /\ Len(Rows) = Len(traces) + 1 /\ i \in 1 .. Len(traces) + 1
      /\ i <= Len(traces) => Rows[i] = traces[i]
      /\ i > Len(traces) => Rows[i] = trace
  BY <1>2 DEF Rows
<1>4. i <= Len(traces) => i \in DOMAIN traces
  BY <1>2, <1>3
<1> QED BY <1>2, <1>3, <1>4 DEF TurnsInv

\* The last chance is given to open rounds of the protocols that have one, and
\* it is the only turn beyond the budget: for any budget and any answers.
THEOREM LastChanceIsLast == RunSpec => []ForcedIsLastChance
  BY InitTurns, NextTurns, TurnsRows, PTL DEF RunSpec

-----------------------------------------------------------------------------
(* The failed checks of a round.                                           *)

NoTwice(s) == \A j, k \in DOMAIN s : s[j] = s[k] => j = k

Elements(s) == { s[j] : j \in DOMAIN s }

FailedQuotes == { q.id : q \in { r \in quotes : ~ r.hard_pass } }

\* While a round is on, what its trace counts as failed is what its quotes
\* are; a round that opens has neither.
FailInv ==
  /\ IsSequence(trace.failures) /\ NoTwice(trace.failures)
  /\ \A i \in DOMAIN traces : NoTwice(traces[i].failures)
  /\ stage \in {"opening", "advancing"} => trace.failures = << >>
  /\ stage = "opening" => quotes = {}
  /\ stage \in {"acting", "closing", "reviewing"} => Elements(trace.failures) = FailedQuotes

\* The rows are the traces of the closed rounds and then the present one.
LEMMA RowsAre ==
  ASSUME IsSequence(traces)
  PROVE  /\ DOMAIN Rows = DOMAIN traces \cup {Len(traces) + 1}
         /\ Len(traces) + 1 \notin DOMAIN traces
         /\ Rows[Len(traces) + 1] = trace
         /\ \A i \in DOMAIN traces : Rows[i] = traces[i]
<1>1. PICK S : traces \in Seq(S)
  BY DEF IsSequence
<1>2. traces \in Seq(S \cup {trace}) /\ <<trace>> \in Seq(S \cup {trace})
  BY <1>1
<1> QED BY <1>2 DEF Rows

\* A failed quote is noted, once; a quote that passes leaves no note.
LEMMA FailedNotes ==
  ASSUME NEW r, IsTrace(r), IsSequence(r.failures), NoTwice(r.failures), NEW quote
  PROVE  /\ IsSequence(Failed(r, quote).failures)
         /\ NoTwice(Failed(r, quote).failures)
         /\ Elements(Failed(r, quote).failures)
              = Elements(r.failures) \cup (IF quote.hard_pass THEN {} ELSE {quote.id})
<1>1. CASE quote.hard_pass
  BY <1>1 DEF Failed
<1>2. CASE ~ quote.hard_pass /\ \E i \in DOMAIN r.failures : r.failures[i] = quote.id
  BY <1>2 DEF Failed, Elements
<1>3. CASE ~ quote.hard_pass /\ ~ \E i \in DOMAIN r.failures : r.failures[i] = quote.id
  <2> DEFINE s == r.failures
             t == Append(s, quote.id)
  <2>1. Failed(r, quote).failures = t
    BY <1>3 DEF Failed, IsTrace, FreshTrace
  <2> HIDE DEF s
  <2>2. /\ IsSequence(t) /\ DOMAIN t = DOMAIN s \cup {Len(s) + 1} /\ t[Len(s) + 1] = quote.id
        /\ \A i \in DOMAIN s : t[i] = s[i]
    BY KeptTrace DEF s
  <2> HIDE DEF t
  <2>3. \A i \in DOMAIN s : s[i] # quote.id
    BY <1>3 DEF s
  <2>4. NoTwice(t)
    BY <2>2, <2>3 DEF NoTwice, s
  <2>5. Elements(t) = Elements(s) \cup {quote.id}
    BY <2>2 DEF Elements
  <2> QED BY <2>1, <2>2, <2>4, <2>5, <1>3 DEF s
<1> QED BY <1>1, <1>2, <1>3

\* So does quoting it,
LEMMA QuotedNotes ==
  ASSUME NEW r, IsTrace(r), IsSequence(r.failures), NoTwice(r.failures), NEW quote
  PROVE  /\ IsSequence(Quoted(r, quote).failures)
         /\ NoTwice(Quoted(r, quote).failures)
         /\ Elements(Quoted(r, quote).failures)
              = Elements(r.failures) \cup (IF quote.hard_pass THEN {} ELSE {quote.id})
<1>1. CASE quote.hard_pass
  BY <1>1 DEF Quoted
<1>2. CASE ~ quote.hard_pass
  <2>1. Quoted(r, quote).failures = Failed(r, quote).failures
    BY <1>2 DEF Quoted, Failed, IsTrace, FreshTrace
  <2> QED BY <2>1, FailedNotes
<1> QED BY <1>1, <1>2

\* and submitting it.
LEMMA RecordedNotes ==
  ASSUME NEW r, IsTrace(r), NEW quote, NEW origin
  PROVE  Recorded(r, quote, origin).failures = Failed(r, quote).failures
<1>1. IsTrace(Failed(r, quote))
  BY NotedTurns DEF SameTurns
<1> QED BY <1>1 DEF Recorded, IsTrace, FreshTrace

\* Using a turn leaves the notes alone.
LEMMA UsedNotes ==
  ASSUME NEW r, IsTrace(r), UseTurn(r)
  PROVE  trace'.failures = r.failures /\ UNCHANGED <<strategy, market, traces>>
  BY DEF UseTurn, IsTrace, FreshTrace

\* A turn that notes what the quotes of the round now are keeps the invariant.
LEMMA NotedStep ==
  ASSUME FailInv, stage' \in {"acting", "closing", "reviewing"},
         NEW r, IsTrace(r), UseTurn(r), IsSequence(r.failures), NoTwice(r.failures),
         Elements(r.failures) = FailedQuotes'
  PROVE  FailInv'
<1>1. trace'.failures = r.failures /\ traces' = traces
  BY UsedNotes
<1> QED BY <1>1 DEF FailInv, NoTwice, Elements, IsSequence

\* Only a step that leaves the round behind takes its quotes away.
LEMMA NewRoundHasNoQuotes ==
  ASSUME Advance, round' # round
  PROVE  quotes' = {}
  BY DEF Advance, BeginAdvance, ObserveNextPosition, AdvancePosition, AdvanceRaises,
         RevaluationFails, SettlementRaises, CompleteAdvance, AdvanceStatic, FreshTools

\* Every step of the runner keeps the invariant.
LEMMA NextFail == TurnsInv /\ FailInv /\ [RunNext]_all => FailInv'
<1> SUFFICES ASSUME TurnsInv, FailInv, [RunNext]_all PROVE FailInv'
  OBVIOUS
<1>0. /\ IsTrace(trace) /\ IsSequence(trace.failures) /\ NoTwice(trace.failures)
      /\ stage \in {"acting", "closing", "reviewing"} => Elements(trace.failures) = FailedQuotes
  BY DEF TurnsInv, FailInv
<1>1. CASE OpenRound
  <2>1. UNCHANGED <<traces, quotes>> /\ stage = "opening" /\ stage' \in {"acting", "failed"}
    BY <1>1 DEF OpenRound, core, tools
  <2>2. trace.failures = << >> /\ quotes = {}
    BY <2>1 DEF FailInv
  <2>3. trace'.failures = << >>
    <3>1. CASE trace' = [FreshTrace EXCEPT !.frontier = Frontier]
      BY <3>1 DEF FreshTrace
    <3>2. CASE UNCHANGED trace
      BY <3>2, <2>2
    <3> QED BY <3>1, <3>2, <1>1 DEF OpenRound
  <2>4. IsSequence(<< >>) /\ NoTwice(<< >>) /\ Elements(<< >>) = {}
    BY DEF IsSequence, NoTwice, Elements
  <2>5. FailedQuotes' = {}
    BY <2>1, <2>2 DEF FailedQuotes
  <2> QED BY <2>1, <2>3, <2>4, <2>5 DEF FailInv, NoTwice, Elements, IsSequence
<1>2. ASSUME UseTurn(trace), UNCHANGED quotes, stage \in {"acting", "closing", "reviewing"},
             stage' \in {"acting", "closing", "reviewing"}
      PROVE  FailInv'
  <2>1. Elements(trace.failures) = FailedQuotes'
    BY <1>0, <1>2 DEF FailedQuotes
  <2> QED BY <1>0, <1>2, <2>1, NotedStep
<1>3. CASE ProtocolError
  BY <1>3, <1>2 DEF ProtocolError, Acting, Continue, core, tools
<1>4. CASE QueryTurn
  BY <1>4, <1>2 DEF QueryTurn, QueryClient, Acting, Continue
<1>5. ASSUME NEW role, NEW degraded, ConsultTurn(role, degraded) PROVE FailInv'
  <2>1. PICK n, d : UseTurn([trace EXCEPT !.consults = n, !.degraded = d])
    BY <1>5 DEF ConsultTurn
  <2> DEFINE r == [trace EXCEPT !.consults = n, !.degraded = d]
  <2>2. IsTrace(r) /\ r.failures = trace.failures
    BY <1>0 DEF IsTrace, FreshTrace
  <2>3. FailedQuotes' = FailedQuotes /\ stage = "acting" /\ stage' \in {"acting", "closing"}
    BY <1>5 DEF ConsultTurn, Acting, Continue, core, tools, FailedQuotes
  <2> HIDE DEF r
  <2>4. UseTurn(r)
    BY <2>1 DEF r
  <2> QED BY <1>0, <2>2, <2>3, <2>4, NotedStep
<1>6. ASSUME NEW product \in Products, QuoteTurn(product) PROVE FailInv'
  <2> DEFINE quote == NewQuote(product)
             r     == Quoted(trace, quote)
  <2>1. /\ stage = "acting" /\ stage' \in {"acting", "closing"} /\ UseTurn(r)
        /\ quotes' = quotes \cup {quote}
    BY <1>6 DEF QuoteTurn, Acting, Continue, RequestQuote, NewQuote
  <2>2. IsTrace(r)
    BY <1>0, NotedTurns DEF SameTurns
  <2>3. /\ IsSequence(r.failures) /\ NoTwice(r.failures)
        /\ Elements(r.failures) = Elements(trace.failures)
                                    \cup (IF quote.hard_pass THEN {} ELSE {quote.id})
    BY <1>0, QuotedNotes
  <2> HIDE DEF r, quote
  <2>4. FailedQuotes' = FailedQuotes \cup (IF quote.hard_pass THEN {} ELSE {quote.id})
    BY <2>1 DEF FailedQuotes
  <2> QED BY <1>0, <2>1, <2>2, <2>3, <2>4, NotedStep
<1>8. ASSUME NEW product \in Products, QuoteAndSubmitTurn(product) PROVE FailInv'
  <2> DEFINE quote == NewQuote(product)
             noted == Quoted(trace, quote)
             r     == Recorded(noted, quote, "voluntary")
             failed == IF quote.hard_pass THEN {} ELSE {quote.id}
  <2>1. /\ stage = "acting" /\ stage' = "closing" /\ UseTurn(r)
        /\ quotes' = quotes \cup {quote}
    BY <1>8 DEF QuoteAndSubmitTurn, Acting, Break, SubmitProduct, NewQuote
  <2>2. IsTrace(noted)
    BY <1>0, NotedTurns DEF SameTurns
  <2>3. /\ IsSequence(noted.failures) /\ NoTwice(noted.failures)
        /\ Elements(noted.failures) = Elements(trace.failures) \cup failed
    BY <1>0, QuotedNotes
  <2> HIDE DEF noted
  <2>4. IsTrace(r) /\ r.failures = Failed(noted, quote).failures
    BY <2>2, RecordedTurns, RecordedNotes
  <2>5. /\ IsSequence(r.failures) /\ NoTwice(r.failures)
        /\ Elements(r.failures) = Elements(noted.failures) \cup failed
    <3> HIDE DEF quote
    <3> QED BY <2>2, <2>3, <2>4, FailedNotes
  <2> HIDE DEF r, quote
  <2>6. FailedQuotes' = FailedQuotes \cup failed
    BY <2>1 DEF FailedQuotes
  <2> HIDE DEF failed
  <2> QED BY <1>0, <2>1, <2>3, <2>4, <2>5, <2>6, NotedStep
<1>9. ASSUME NEW quote \in quotes, NEW origin, UseTurn(Recorded(trace, quote, origin)),
             UNCHANGED quotes, stage \in {"acting", "closing"},
             stage' \in {"closing", "reviewing"}
      PROVE  FailInv'
  <2> DEFINE r == Recorded(trace, quote, origin)
             failed == IF quote.hard_pass THEN {} ELSE {quote.id}
  <2>1. IsTrace(r) /\ r.failures = Failed(trace, quote).failures
    BY <1>0, RecordedTurns, RecordedNotes
  <2>2. /\ IsSequence(r.failures) /\ NoTwice(r.failures)
        /\ Elements(r.failures) = Elements(trace.failures) \cup failed
    BY <1>0, <2>1, FailedNotes
  <2>3. failed \subseteq FailedQuotes
    BY DEF FailedQuotes
  <2>4. FailedQuotes' = FailedQuotes
    BY <1>9 DEF FailedQuotes
  <2>5. UseTurn(r)
    BY <1>9
  <2> HIDE DEF r, failed
  <2> QED BY <1>0, <1>9, <2>1, <2>2, <2>3, <2>4, <2>5, NotedStep
<1>10. ASSUME NEW quote \in quotes, SubmitTurn(quote) PROVE FailInv'
  BY <1>10, <1>9 DEF SubmitTurn, SubmitDesign, Acting, Break
<1>11. CASE SkipTurn
  <2> DEFINE r == [trace EXCEPT !.skipped = TRUE]
  <2>1. IsTrace(r) /\ r.failures = trace.failures
    BY <1>0 DEF IsTrace, FreshTrace
  <2>2. /\ UseTurn(r) /\ FailedQuotes' = FailedQuotes
        /\ stage = "acting" /\ stage' = "closing"
    BY <1>11 DEF SkipTurn, CloseRound, Acting, Break, FailedQuotes
  <2> HIDE DEF r
  <2> QED BY <1>0, <2>1, <2>2, NotedStep
<1>12. CASE ChatFails
  BY <1>12 DEF ChatFails, FailInv, NoTwice, IsSequence
<1>13. ASSUME NEW quote \in quotes, ForcedSubmit(quote) PROVE FailInv'
  BY <1>13, <1>9 DEF ForcedSubmit, SubmitDesign, LastChance
<1>14. CASE ForcedPass
  BY <1>14, <1>2 DEF ForcedPass, LastChance, CloseRound
<1>15. CASE StopActing
  BY <1>15 DEF StopActing, CloseRound, core, tools, FailInv, NoTwice, Elements, FailedQuotes,
               IsSequence
<1>16. ASSUME NEW affirmed \in SUBSET Roles, Review(affirmed) PROVE FailInv'
  <2>1. /\ \E w : traces' = Append(traces, [trace EXCEPT !.workflow = w])
        /\ trace' = FreshTrace /\ stage' \in {"advancing", "done"}
    BY <1>16 DEF Review
  <2>2. PICK w : traces' = Append(traces, [trace EXCEPT !.workflow = w])
    BY <2>1
  <2> DEFINE r == [trace EXCEPT !.workflow = w]
  <2>3. r.failures = trace.failures
    BY <1>0 DEF IsTrace, FreshTrace
  <2> HIDE DEF r
  <2>4. \A i \in DOMAIN traces' : traces'[i] = r \/ (i \in DOMAIN traces /\ traces'[i] = traces[i])
    BY <2>2, KeptTrace DEF TurnsInv, r
  <2>5. \A i \in DOMAIN traces' : NoTwice(traces[i].failures)'
    BY <1>0, <2>3, <2>4 DEF FailInv, NoTwice
  <2>6. trace'.failures = << >>
    BY <2>1 DEF FreshTrace
  <2>7. IsSequence(<< >>) /\ NoTwice(<< >>)
    BY DEF IsSequence, NoTwice
  <2> QED BY <2>1, <2>5, <2>6, <2>7 DEF FailInv, NoTwice, IsSequence
<1>17. CASE AdvanceRun
  <2>1. /\ UNCHANGED <<trace, traces>> /\ stage = "advancing" /\ Advance
        /\ stage' \in {"opening", "failed", "advancing"}
        /\ stage' = "opening" => round' # round
    BY <1>17 DEF AdvanceRun
  <2>2. stage' = "opening" => quotes' = {}
    BY <2>1, NewRoundHasNoQuotes
  <2> QED BY <2>1, <2>2 DEF FailInv, NoTwice, IsSequence
<1>18. CASE UNCHANGED all
  BY <1>18 DEF all, core, tools, run, FailInv, NoTwice, Elements, FailedQuotes, IsSequence
<1> QED
  BY <1>1, <1>3, <1>4, <1>5, <1>6, <1>8, <1>10, <1>11, <1>12, <1>13, <1>14,
     <1>15, <1>16, <1>17, <1>18 DEF RunNext, Turn, EndOfRound

\* The first round opens without quotes.
LEMMA InitFail == RunInit => FailInv
<1>1. IsSequence(<< >>) /\ NoTwice(<< >>) /\ DOMAIN << >> = {}
  BY DEF IsSequence, NoTwice
<1> QED BY <1>1 DEF RunInit, Init, FreshTrace, FailInv

\* The invariant holds row by row.
LEMMA FailRows == TurnsInv /\ FailInv => FailuresCountedOnce
<1> SUFFICES ASSUME TurnsInv, FailInv PROVE FailuresCountedOnce
  OBVIOUS
<1>1. \A i \in DOMAIN Rows : NoTwice(Rows[i].failures)
  BY RowsAre DEF TurnsInv, FailInv
<1> QED BY <1>1 DEF FailuresCountedOnce, NoTwice, FailInv, Elements, FailedQuotes

\* A failed check is counted once per quote, however often the quote is asked
\* for and submitted, and no failed quote of the round goes uncounted.
THEOREM FailedOnce == RunSpec => []FailuresCountedOnce
<1>1. RunInit => TurnsInv /\ FailInv
  BY InitTurns, InitFail
<1>2. TurnsInv /\ FailInv /\ [RunNext]_all => (TurnsInv /\ FailInv)'
  BY NextTurns, NextFail
<1>3. TurnsInv /\ FailInv => FailuresCountedOnce
  BY FailRows
<1> QED BY <1>1, <1>2, <1>3, PTL DEF RunSpec

-----------------------------------------------------------------------------
(* What the traces tell.                                                   *)

\* The month's loop keeps every contract it found still active.
KeptAll ==
  phase = "advancing" =>
    \A i \in DOMAIN positions :
      i < cursor /\ Active(positions[i]) => positions[i].id \in { kept[k].id : k \in DOMAIN kept }

IssuedIds == EventIds \cup PositionIds

AcceptedQuotes ==
  { traces[i].quote : i \in { j \in DOMAIN traces : traces[j].accepted } }
    \cup (IF trace.accepted THEN {trace.quote} ELSE {})

SubmittedTraces == { j \in DOMAIN traces : traces[j].submitted }

\* What the closed traces and the present one have accepted is what was
\* issued, and what they have submitted is what the client remembers.
ToldInv ==
  Dynamic =>
    /\ AcceptedQuotes = IssuedIds
    /\ Cardinality(SubmittedTraces) + (IF trace.submitted THEN 1 ELSE 0)
         = memory.accepted + memory.rejected
    /\ ~ trace.submitted => ~ trace.accepted

\* A step of the core keeps every contract that survives in its loop.
LEMMA NextKeptAll ==
  ASSUME TypeInv, SettleInv, KeptAll, [Next]_core
  PROVE  KeptAll'
<1> USE DEF TypeInv, TypeOK
<1>0. /\ Len(positions) \in Nat /\ DOMAIN positions = 1 .. Len(positions) /\ cursor \in Nat \ {0}
      /\ Len(kept) \in Nat /\ DOMAIN kept = 1 .. Len(kept)
  BY PositionsDomain, LenProperties DEF LoopOK
<1>1. CASE Waiting
  BY <1>0, <1>1 DEF Waiting, Begin, KeptAll, loop
<1>2. ASSUME NEW p \in PositionRecord, Surviving(p) PROVE KeptAll'
  <2>1. CASE phase' = "failed"
    BY <2>1 DEF KeptAll
  <2>2. CASE kept' = Append(kept, p) /\ cursor' = cursor + 1 /\ phase' = phase
    <3>1. /\ DOMAIN positions' = DOMAIN positions
          /\ \A i \in DOMAIN positions : positions'[i] = IF i = cursor THEN p ELSE positions[i]
      BY <1>2, <1>0, ReplacedPosition DEF Surviving, Replacing
    <3>2. DOMAIN kept' = 1 .. Len(kept) + 1 /\ kept'[Len(kept) + 1] = p
          /\ \A k \in 1 .. Len(kept) : kept'[k] = kept[k]
      BY <2>2, <1>0, AppendProperties, LenProperties DEF LoopOK
    <3>3. /\ p.id \in { kept'[k].id : k \in DOMAIN kept' }
          /\ { kept[k].id : k \in DOMAIN kept } \subseteq { kept'[k].id : k \in DOMAIN kept' }
      BY <3>2, <1>0
    <3>4. ASSUME NEW i \in DOMAIN positions', i < cursor', Active(positions'[i])
          PROVE  positions'[i].id \in { kept'[k].id : k \in DOMAIN kept' }
      <4>1. CASE i = cursor
        BY <4>1, <3>1, <3>3, <3>4
      <4>2. CASE i # cursor
        BY <4>2, <3>1, <3>3, <3>4, <2>2, <1>0, <1>2 DEF KeptAll, Surviving
      <4> QED BY <4>1, <4>2
    <3> QED BY <3>4 DEF KeptAll, Active
  <2> QED BY <1>2, <2>1, <2>2 DEF Surviving
<1>3. ASSUME NEW p \in PositionRecord, NEW payoff \in Int, Closing(p, payoff) PROVE KeptAll'
  <2>1. /\ DOMAIN positions' = DOMAIN positions
        /\ \A i \in DOMAIN positions : positions'[i] = IF i = cursor THEN p ELSE positions[i]
    BY <1>3, <1>0, ReplacedPosition DEF Closing, Replacing
  <2>2. kept' = kept /\ cursor' = cursor + 1 /\ phase' = phase /\ ~ Active(p)
    BY <1>3 DEF Closing
  <2> QED BY <2>1, <2>2, <1>0 DEF KeptAll, Active
<1>5. ASSUME NEW p \in PositionRecord, NEW payoff \in Int, Refusing(p, payoff) PROVE KeptAll'
  BY <1>5 DEF Refusing, SettlementRefused, KeptAll
<1>4. CASE \/ \E p \in PositionRecord : Issuing(p)
           \/ MonthEnds \/ Restarting \/ HorizonEnds
  BY <1>4 DEF Issuing, Ready, MonthEnds, Restarting, HorizonEnds, KeptAll, loop
<1> QED
  BY <1>1, <1>2, <1>3, <1>4, <1>5, NextMoneyMoves DEF MoneyMoves

\* A month issues nothing and forgets nothing that was issued: what it takes
\* off the list has its closing event.
LEMMA AdvanceKeepsIssued ==
  ASSUME TypeInv, SettleInv, KeptAll, Dynamic, Advance
  PROVE  IssuedIds' = IssuedIds /\ memory' = memory
<1> USE DEF TypeInv, TypeOK, tools, accounts, portfolio, loop
<1>0. PositionIds' = PositionIds /\ EventIds' = EventIds => IssuedIds' = IssuedIds
  BY DEF IssuedIds
<1>1. CASE BeginAdvance
  BY <1>1, <1>0 DEF BeginAdvance, PositionIds, EventIds
<1>2. ASSUME NEW hedge \in HedgeMoves, RevaluationFails(hedge)
      PROVE  IssuedIds' = IssuedIds /\ memory' = memory
  <2>1. memory' = memory /\ events' = events
    BY <1>2 DEF RevaluationFails
  <2>2. /\ cursor \in DOMAIN positions
        /\ DOMAIN positions' = DOMAIN positions
        /\ \A i \in DOMAIN positions : i # cursor => positions'[i] = positions[i]
    BY <1>2, PositionsDomain DEF RevaluationFails, AtPosition, LoopOK
  <2>3. positions[cursor] \in PositionRecord
    BY <2>2, PositionsDomain
  <2>4. positions'[cursor].id = positions[cursor].id
    BY <1>2, <2>2, <2>3 DEF RevaluationFails, PositionRecord
  <2>5. \A i \in DOMAIN positions : positions'[i].id = positions[i].id
    BY <2>2, <2>4
  <2> QED BY <2>1, <2>2, <2>5, <1>0 DEF PositionIds, EventIds
<1>3. ASSUME NEW exit \in {"none"} \cup EarlyExits, NEW mark \in Marks,
             NEW hedge \in HedgeMoves, NEW payoff \in Payoffs,
             \/ AdvancePosition(exit, mark, hedge, payoff)
             \/ SettlementRaises(exit, mark, hedge, payoff)
      PROVE  IssuedIds' = IssuedIds /\ memory' = memory
  <2> DEFINE p == Observed(positions[cursor], exit, mark, hedge)
  <2>1. positions[cursor] \in PositionRecord
    BY <1>3, AtPositionType DEF AdvancePosition, SettlementRaises
  <2>2. p \in PositionRecord /\ payoff \in Int
    BY <2>1, ObservedType, ContractAssumption, MoneyAssumption
  <2>3. p.id = positions[cursor].id
    BY <2>1 DEF Observed, PositionRecord
  <2>4. /\ cursor <= Len(positions) /\ cursor \in Nat \ {0}
        /\ positions' = [positions EXCEPT ![cursor] = p]
        /\ memory' = memory
        /\ events' = events \/ events' = Append(events, ClosingEvent(p, payoff))
    BY <1>3 DEF AdvancePosition, SettlementRaises, SettlementRefused, AtPosition, SettleEvent,
                RecordEvent, LoopOK
  <2> HIDE DEF p
  <2>5. PositionIds' = PositionIds /\ p.id \in PositionIds
    BY <2>2, <2>3, <2>4, ReplacedPosition DEF PositionIds
  <2>6. EventIds' = EventIds \/ EventIds' = EventIds \cup {p.id}
    <3>4. retries \in Nat
      BY DEF LoopOK
    <3>1. ClosingEvent(p, payoff) \in EventRecord /\ ClosingEvent(p, payoff).id = p.id
      BY <2>2, <3>4, ClosingEventType DEF ClosingEvent
    <3> DEFINE event == ClosingEvent(p, payoff)
    <3>2. events' = events \/ events' = Append(events, event)
      BY <2>4
    <3>3. event \in EventRecord /\ event.id = p.id
      BY <3>1
    <3> HIDE DEF event
    <3> QED BY <3>2, <3>3, AppendedEvent DEF EventIds
  <2> QED BY <2>4, <2>5, <2>6 DEF IssuedIds
<1>4. ASSUME NEW capital \in Capitals, CompleteAdvance(capital)
      PROVE  IssuedIds' = IssuedIds /\ memory' = memory
  <2>1. /\ phase = "advancing" /\ cursor > Len(positions) /\ positions' = kept
        /\ memory' = memory /\ events' = events
    BY <1>4 DEF CompleteAdvance
  <2>2. \A i \in DOMAIN positions : i < cursor
    BY <2>1, PositionsDomain DEF LoopOK
  <2> DEFINE keptIds == { kept[k].id : k \in DOMAIN kept }
  <2>3. keptIds \subseteq PositionIds
    BY <2>1 DEF SettleInv, KeptInv, PositionIds
  <2>4. \A i \in DOMAIN positions : positions[i].id \in keptIds \cup EventIds
    BY <2>1, <2>2 DEF KeptAll, SettleInv, SettledPerCall
  <2>5. PositionIds' = keptIds /\ EventIds' = EventIds
    BY <2>1 DEF PositionIds, EventIds
  <2>6. PositionIds \subseteq keptIds \cup EventIds
    BY <2>4 DEF PositionIds
  <2> HIDE DEF keptIds
  <2> QED BY <2>1, <2>3, <2>5, <2>6 DEF IssuedIds
<1>5. ASSUME NEW capital \in Capitals, AdvanceStatic(capital) PROVE FALSE
  BY <1>5 DEF AdvanceStatic
<1> QED
  BY <1>1, <1>2, <1>3, <1>4, <1>5 DEF Advance, AdvanceRaises, ObserveNextPosition

\* A step that neither issues nor submits leaves the account as it is.
LEMMA ToldUntouched ==
  ASSUME ToldInv, UNCHANGED <<traces, memory>>, Dynamic => IssuedIds' = IssuedIds,
         trace'.submitted = trace.submitted, trace'.accepted = trace.accepted,
         trace'.quote = trace.quote
  PROVE  ToldInv'
  BY DEF ToldInv, AcceptedQuotes, SubmittedTraces

\* The number of closed traces that submitted is a natural number.
LEMMA SubmittedCounted ==
  ASSUME IsSequence(traces)
  PROVE  IsFiniteSet(SubmittedTraces) /\ Cardinality(SubmittedTraces) \in Nat
<1>1. PICK S : traces \in Seq(S)
  BY DEF IsSequence
<1>2. DOMAIN traces = 1 .. Len(traces) /\ Len(traces) \in Nat
  BY <1>1
<1>3. IsFiniteSet(DOMAIN traces)
  BY <1>2, FS_Interval
<1>4. SubmittedTraces \subseteq DOMAIN traces
  BY DEF SubmittedTraces
<1> QED BY <1>3, <1>4, FS_Subset, FS_CardinalityType

\* A settlement is traced as the environment books it: one submission more,
\* and if it is accepted one contract more, under the quote's name.
LEMMA ToldSettlement ==
  ASSUME TypeInv, IsSequence(traces), ToldInv, ~ trace.submitted,
         NEW quote, QuoteOK(quote), Settle(quote), UNCHANGED traces,
         trace'.submitted = TRUE, trace'.accepted = Accepted(quote), trace'.quote = quote.id
  PROVE  ToldInv'
<1> SUFFICES ASSUME Dynamic PROVE ToldInv'
  BY DEF ToldInv
<1> USE DEF TypeInv, TypeOK, accounts, portfolio
<1>1. SubmittedTraces' = SubmittedTraces
  BY DEF SubmittedTraces
<1>2. memory.accepted \in Nat /\ memory.rejected \in Nat /\ Cardinality(SubmittedTraces) \in Nat
  BY SubmittedCounted DEF ToolsOK
<1>3. ~ trace.accepted
  BY DEF ToldInv
<1>4. AcceptedQuotes' = AcceptedQuotes \cup (IF Accepted(quote) THEN {quote.id} ELSE {})
  BY <1>3 DEF AcceptedQuotes
<1>5. IssuedIds' = IssuedIds \cup (IF Accepted(quote) THEN {quote.id} ELSE {})
  <2>1. CASE Accepted(quote)
    <3> DEFINE p == Position(quote)
    <3>1. p \in PositionRecord /\ p.id = quote.id
      BY PositionType DEF Position
    <3>2. positions' = Append(positions, p) /\ events' = events
      BY <2>1 DEF Settle, AddPosition
    <3> HIDE DEF p
    <3>3. PositionIds' = PositionIds \cup {quote.id}
      BY <3>1, <3>2, AppendedPosition
    <3>4. EventIds' = EventIds
      BY <3>2 DEF EventIds
    <3> QED BY <2>1, <3>3, <3>4 DEF IssuedIds
  <2>2. CASE ~ Accepted(quote)
    <3>1. UNCHANGED <<positions, events>>
      BY <2>2 DEF Settle
    <3> QED BY <2>2, <3>1 DEF IssuedIds, EventIds, PositionIds
  <2> QED BY <2>1, <2>2
<1>6. memory'.accepted + memory'.rejected = memory.accepted + memory.rejected + 1
  <2>1. \/ memory' = [memory EXCEPT !.accepted = @ + 1]
        \/ memory' = [memory EXCEPT !.rejected = @ + 1]
    BY DEF Settle
  <2>2. memory \in [accepted : Nat, rejected : Nat]
    BY DEF ToolsOK
  <2> QED BY <1>2, <2>1, <2>2
<1>7. AcceptedQuotes' = IssuedIds'
  BY <1>4, <1>5 DEF ToldInv
<1>8. Cardinality(SubmittedTraces') + 1 = memory'.accepted + memory'.rejected
  BY <1>1, <1>2, <1>6 DEF ToldInv
<1> QED BY <1>7, <1>8 DEF ToldInv

\* Keeping the trace of a round moves it to the closed ones.
LEMMA ToldReview ==
  ASSUME IsSequence(traces), ToldInv, NEW r, traces' = Append(traces, r),
         r.submitted = trace.submitted, r.accepted = trace.accepted, r.quote = trace.quote,
         ~ trace'.submitted, ~ trace'.accepted,
         UNCHANGED <<positions, events, memory>>
  PROVE  ToldInv'
<1> SUFFICES ASSUME Dynamic PROVE ToldInv'
  BY DEF ToldInv
<1> DEFINE n == Len(traces) + 1
<1>1. /\ DOMAIN traces' = DOMAIN traces \cup {n} /\ n \notin DOMAIN traces
      /\ traces'[n] = r /\ \A i \in DOMAIN traces : traces'[i] = traces[i]
  <2>1. n \notin DOMAIN traces
    BY RowsAre
  <2> QED BY <2>1, KeptTrace
<1> HIDE DEF n
<1>2. AcceptedQuotes' = AcceptedQuotes
  BY <1>1 DEF AcceptedQuotes
<1>3. IssuedIds' = IssuedIds
  BY DEF IssuedIds, EventIds, PositionIds
<1>4. SubmittedTraces' = SubmittedTraces \cup (IF trace.submitted THEN {n} ELSE {})
  BY <1>1 DEF SubmittedTraces
<1>5. n \notin SubmittedTraces
  BY <1>1 DEF SubmittedTraces
<1>6. IsFiniteSet(SubmittedTraces) /\ Cardinality(SubmittedTraces) \in Nat
  BY SubmittedCounted
<1>7. Cardinality(SubmittedTraces')
        = Cardinality(SubmittedTraces) + (IF trace.submitted THEN 1 ELSE 0)
  <2> DEFINE S == SubmittedTraces
  <2> HIDE DEF S
  <2>1. Cardinality(S \cup {n}) = Cardinality(S) + 1
    BY <1>5, <1>6, FS_AddElement DEF S
  <2>2. CASE trace.submitted
    <3>1. SubmittedTraces' = S \cup {n}
      BY <1>4, <2>2 DEF S
    <3> QED BY <2>1, <2>2, <3>1 DEF S
  <2>3. CASE ~ trace.submitted
    <3>1. SubmittedTraces' = SubmittedTraces
      BY <1>4, <2>3
    <3> QED BY <1>6, <2>3, <3>1
  <2> QED BY <2>2, <2>3
<1>8. Cardinality(SubmittedTraces') + 0 = memory'.accepted + memory'.rejected
  <2>1. Cardinality(SubmittedTraces') \in Nat
    BY <1>6, <1>7
  <2> QED BY <1>7, <2>1 DEF ToldInv
<1> QED BY <1>2, <1>3, <1>8 DEF ToldInv

\* Every step of the runner keeps the invariant.
LEMMA NextTold ==
  ASSUME TypeInv, SettleInv, KeptAll, MarketInv, TurnsInv, ToldInv, [RunNext]_all
  PROVE  ToldInv'
<1> USE DEF core, tools, accounts, portfolio
<1>0. IsTrace(trace) /\ IsSequence(traces)
  BY DEF TurnsInv
<1>1. UNCHANGED <<positions, events>> => IssuedIds' = IssuedIds
  BY DEF IssuedIds, EventIds, PositionIds
<1>2. CASE OpenRound
  <2>1. ~ trace.submitted /\ stage = "opening" /\ UNCHANGED <<positions, events, memory, traces>>
    BY <1>2 DEF OpenRound, TurnsInv, Untouched
  <2>2. CASE UNCHANGED trace
    BY <2>1, <2>2, <1>1, ToldUntouched
  <2>3. CASE trace' = [FreshTrace EXCEPT !.frontier = Frontier]
    <3>1. ~ trace'.submitted /\ ~ trace'.accepted
      BY <2>3 DEF FreshTrace
    <3>2. Dynamic => ~ trace.accepted
      BY <2>1 DEF ToldInv
    <3> QED BY <2>1, <3>1, <3>2, <1>1 DEF ToldInv, AcceptedQuotes, SubmittedTraces
  <2> QED BY <2>2, <2>3, <1>2 DEF OpenRound
<1>3. ASSUME NEW r, IsTrace(r), UseTurn(r), UNCHANGED <<positions, events, memory>>,
             r.submitted = trace.submitted, r.accepted = trace.accepted, r.quote = trace.quote
      PROVE  ToldInv'
  <2>1. /\ UNCHANGED traces /\ trace'.submitted = r.submitted
        /\ trace'.accepted = r.accepted /\ trace'.quote = r.quote
    BY <1>3 DEF UseTurn, IsTrace, FreshTrace
  <2> QED BY <1>3, <2>1, <1>1, ToldUntouched
<1>4. CASE ProtocolError
  BY <1>0, <1>3, <1>4 DEF ProtocolError
<1>5. CASE QueryTurn
  BY <1>0, <1>3, <1>5 DEF QueryTurn, QueryClient
<1>6. ASSUME NEW role, NEW degraded, ConsultTurn(role, degraded) PROVE ToldInv'
  <2>1. PICK n, d : UseTurn([trace EXCEPT !.consults = n, !.degraded = d])
    BY <1>6 DEF ConsultTurn
  <2> DEFINE r == [trace EXCEPT !.consults = n, !.degraded = d]
  <2>2. /\ IsTrace(r) /\ r.submitted = trace.submitted
        /\ r.accepted = trace.accepted /\ r.quote = trace.quote
    BY <1>0 DEF IsTrace, FreshTrace
  <2>3. UseTurn(r) /\ UNCHANGED <<positions, events, memory>>
    BY <1>6, <2>1 DEF ConsultTurn
  <2> HIDE DEF r
  <2> QED BY <1>3, <2>2, <2>3
<1>7. ASSUME NEW product \in Products, QuoteTurn(product) PROVE ToldInv'
  <2> DEFINE r == Quoted(trace, NewQuote(product))
  <2>1. UseTurn(r) /\ UNCHANGED <<positions, events, memory>>
    BY <1>7 DEF QuoteTurn, RequestQuote
  <2>2. /\ IsTrace(r) /\ r.submitted = trace.submitted
        /\ r.accepted = trace.accepted /\ r.quote = trace.quote
    BY <1>0 DEF Quoted, Failed, IsTrace, FreshTrace
  <2> HIDE DEF r
  <2> QED BY <1>3, <2>1, <2>2
<1>9. ASSUME NEW quote, QuoteOK(quote), NEW s, IsTrace(s), NEW origin,
             UseTurn(Recorded(s, quote, origin)), Settle(quote), ~ trace.submitted
      PROVE  ToldInv'
  <2> DEFINE r == Recorded(s, quote, origin)
             t == Failed(s, quote)
  <2>1. IsTrace(t)
    BY <1>9, NotedTurns DEF SameTurns
  <2>2. r = [t EXCEPT !.submitted = TRUE, !.accepted = Accepted(quote), !.origin = origin,
                      !.quote = quote.id, !.margin = MarginOf(quote.product)]
    BY DEF Recorded
  <2> DEFINE accepted == Accepted(quote)
             margin   == MarginOf(quote.product)
  <2> HIDE DEF t, accepted, margin
  <2>3. r = [t EXCEPT !.submitted = TRUE, !.accepted = accepted, !.origin = origin,
                      !.quote = quote.id, !.margin = margin]
    BY <2>2 DEF accepted, margin
  <2> HIDE DEF r
  <2>4. IsTrace(r) /\ r.submitted = TRUE /\ r.accepted = accepted /\ r.quote = quote.id
    BY <2>1, <2>3 DEF IsTrace, FreshTrace
  <2>5. trace' = [r EXCEPT !.actions = @ + 1] /\ traces' = traces
    BY <1>9 DEF UseTurn, r
  <2>6. /\ UNCHANGED traces /\ trace'.submitted = TRUE
        /\ trace'.accepted = accepted /\ trace'.quote = quote.id
    BY <2>4, <2>5 DEF IsTrace, FreshTrace
  <2> QED BY <1>0, <1>9, <2>6, ToldSettlement DEF accepted
<1>10. ASSUME NEW product \in Products, QuoteAndSubmitTurn(product) PROVE ToldInv'
  <2> DEFINE quote == NewQuote(product)
             noted == Quoted(trace, quote)
  <2>1. /\ ~ trace.submitted /\ UseTurn(Recorded(noted, quote, "voluntary")) /\ Settle(quote)
        /\ CanQuote
    BY <1>10 DEF QuoteAndSubmitTurn, SubmitProduct, NewQuote, TurnsInv, Acting, Untouched
  <2>2. IsTrace(noted)
    BY <1>0, NotedTurns DEF SameTurns
  <2>3. QuoteOK(quote)
    BY <2>1, QuoteType, MarketFacts DEF NewQuote, MarketInv, TypeInv, TypeOK, CanQuote
  <2> HIDE DEF quote, noted
  <2> QED BY <2>1, <2>2, <2>3, <1>9
<1>11. ASSUME NEW quote \in quotes, SubmitTurn(quote) PROVE ToldInv'
  <2>1. QuoteOK(quote) /\ ~ trace.submitted
    BY <1>11 DEF TypeInv, TypeOK, ToolsOK, SubmitTurn, TurnsInv, Acting, Untouched
  <2> QED BY <1>0, <1>9, <1>11, <2>1 DEF SubmitTurn, SubmitDesign
<1>12. CASE SkipTurn
  <2> DEFINE r == [trace EXCEPT !.skipped = TRUE]
  <2>1. UseTurn(r) /\ UNCHANGED <<positions, events, memory>>
    BY <1>12 DEF SkipTurn, CloseRound
  <2>2. /\ IsTrace(r) /\ r.submitted = trace.submitted
        /\ r.accepted = trace.accepted /\ r.quote = trace.quote
    BY <1>0 DEF IsTrace, FreshTrace
  <2> HIDE DEF r
  <2> QED BY <1>3, <2>1, <2>2
<1>13. CASE ChatFails
  BY <1>1, <1>13, ToldUntouched DEF ChatFails
<1>14. ASSUME NEW quote \in quotes, ForcedSubmit(quote) PROVE ToldInv'
  <2>1. QuoteOK(quote) /\ ~ trace.submitted
    BY <1>14 DEF TypeInv, TypeOK, ToolsOK, ForcedSubmit, LastChance, TurnsInv, Untouched
  <2> QED BY <1>0, <1>9, <1>14, <2>1 DEF ForcedSubmit, SubmitDesign
<1>15. CASE ForcedPass
  BY <1>0, <1>3, <1>15 DEF ForcedPass, CloseRound
<1>16. CASE StopActing
  BY <1>1, <1>16, ToldUntouched DEF StopActing, CloseRound
<1>17. ASSUME NEW affirmed \in SUBSET Roles, Review(affirmed) PROVE ToldInv'
  <2>1. /\ \E w : traces' = Append(traces, [trace EXCEPT !.workflow = w])
        /\ trace' = FreshTrace /\ UNCHANGED <<positions, events, memory>>
    BY <1>17 DEF Review
  <2>2. PICK w : traces' = Append(traces, [trace EXCEPT !.workflow = w])
    BY <2>1
  <2> DEFINE r == [trace EXCEPT !.workflow = w]
  <2>3. r.submitted = trace.submitted /\ r.accepted = trace.accepted /\ r.quote = trace.quote
    BY <1>0 DEF IsTrace, FreshTrace
  <2>4. ~ trace'.submitted /\ ~ trace'.accepted
    BY <2>1 DEF FreshTrace
  <2>5. traces' = Append(traces, r)
    BY <2>2
  <2> HIDE DEF r
  <2> QED BY <1>0, <2>1, <2>3, <2>4, <2>5, ToldReview
<1>18. CASE AdvanceRun
  <2>1. UNCHANGED <<trace, traces>> /\ Advance
    BY <1>18 DEF AdvanceRun
  <2>2. Dynamic => IssuedIds' = IssuedIds /\ memory' = memory
    BY <2>1, AdvanceKeepsIssued
  <2> QED BY <2>1, <2>2 DEF ToldInv, AcceptedQuotes, SubmittedTraces
<1>19. CASE UNCHANGED all
  BY <1>1, <1>19, ToldUntouched DEF all, run
<1> QED
  BY <1>2, <1>4, <1>5, <1>6, <1>7, <1>10, <1>11, <1>12, <1>13, <1>14,
     <1>15, <1>16, <1>17, <1>18, <1>19 DEF RunNext, Turn, EndOfRound

\* An episode starts with nothing issued and nothing told.
LEMMA InitTold == RunInit => ToldInv /\ KeptAll
<1>1. DOMAIN << >> = {}
  OBVIOUS
<1> SUFFICES ASSUME RunInit PROVE ToldInv /\ KeptAll
  OBVIOUS
<1>2. SubmittedTraces = {} /\ AcceptedQuotes = {} /\ IssuedIds = {}
  BY <1>1 DEF RunInit, Init, FreshTrace, SubmittedTraces, AcceptedQuotes, IssuedIds, EventIds,
              PositionIds
<1>3. Cardinality({}) = 0
  BY FS_EmptySet
<1> QED BY <1>2, <1>3 DEF RunInit, Init, FreshTrace, ToldInv, KeptAll

\* What the invariant says of closed traces and the present one apart, it says
\* of the rows.
LEMMA ToldRows == TurnsInv /\ ToldInv => TracesTellSettlement
<1> SUFFICES ASSUME TurnsInv, ToldInv, Dynamic PROVE TracesTellSettlement
  BY DEF TracesTellSettlement
<1> DEFINE n == Len(traces) + 1
           S == SubmittedTraces
<1>1. /\ DOMAIN Rows = DOMAIN traces \cup {n} /\ n \notin DOMAIN traces
      /\ Rows[n] = trace /\ \A i \in DOMAIN traces : Rows[i] = traces[i]
  BY RowsAre DEF TurnsInv
<1> HIDE DEF n, S
<1>2. { Rows[i].quote : i \in { j \in DOMAIN Rows : Rows[j].accepted } } = AcceptedQuotes
  BY <1>1 DEF AcceptedQuotes
<1>3. { j \in DOMAIN Rows : Rows[j].submitted } = S \cup (IF trace.submitted THEN {n} ELSE {})
  BY <1>1 DEF S, SubmittedTraces
<1>4. n \notin S /\ IsFiniteSet(S) /\ Cardinality(S) \in Nat
  BY <1>1, SubmittedCounted DEF S, SubmittedTraces, TurnsInv
<1>5. Cardinality(S \cup {n}) = Cardinality(S) + 1
  BY <1>4, FS_AddElement
<1>6. Cardinality({ j \in DOMAIN Rows : Rows[j].submitted })
        = Cardinality(S) + (IF trace.submitted THEN 1 ELSE 0)
  <2> DEFINE T == { j \in DOMAIN Rows : Rows[j].submitted }
  <2>1. trace.submitted => T = S \cup {n}
    BY <1>3
  <2>2. ~ trace.submitted => T = S
    BY <1>3
  <2> HIDE DEF T
  <2>3. Cardinality(T) = Cardinality(S) + (IF trace.submitted THEN 1 ELSE 0)
    <3>1. CASE trace.submitted
      BY <1>5, <2>1, <3>1
    <3>2. CASE ~ trace.submitted
      BY <1>4, <2>2, <3>2
    <3> QED BY <3>1, <3>2
  <2> QED BY <2>3 DEF T
<1> QED BY <1>2, <1>6 DEF ToldInv, IssuedIds, TracesTellSettlement, S

\* The traces of an episode of any length tell exactly what was settled: the
\* contracts they say were accepted are those issued, none more and none
\* fewer, and they submitted as often as the client remembers.
THEOREM TracesTellTheSettlements == RunSpec => []TracesTellSettlement
<1>1. RunInit => MarketInv /\ TurnsInv /\ ToldInv /\ KeptAll
  BY InitTurns, InitTold DEF RunInit, MarketInv
<1>2. TypeInv /\ SettleInv /\ (MarketInv /\ TurnsInv /\ ToldInv /\ KeptAll) /\ [RunNext]_all
        => (MarketInv /\ TurnsInv /\ ToldInv /\ KeptAll)'
  BY MarketStays, NextTurns, NextTold, NextKeptAll, RunStepIsCoreStep DEF MarketInv
<1>3. TurnsInv /\ ToldInv => TracesTellSettlement
  BY ToldRows
<1>4. RunSpec => [](TypeInv /\ SettleInv)
  BY RunDrivesCore, SettleInvHolds, PTL
<1> QED BY <1>1, <1>2, <1>3, <1>4, PTL DEF RunSpec

-----------------------------------------------------------------------------
(* What a trade earns of what the round offered.                           *)

Earned(r) == r.accepted /\ r.origin = "voluntary" => \E best \in r.frontier : r.margin <= best

\* What a quote that passes was checked against.
Offered(product) ==
  product \in Lattice /\ market[product].mandate /\ FitsPortfolio(product, market[product].mark)

\* While the model acts nothing it does changes what the round offers, and its
\* quotes that pass are among that.
AttainInv ==
  /\ \A i \in DOMAIN traces : Earned(traces[i])
  /\ Earned(trace)
  /\ stage = "acting" =>
       /\ trace.frontier = Frontier
       /\ \A q \in quotes : q.hard_pass => Offered(q.product)

\* A finite set of whole numbers that is not empty has a greatest.
LEMMA FiniteMax ==
  ASSUME NEW S \in SUBSET Int, IsFiniteSet(S), S # {}
  PROVE  \E best \in S : \A x \in S : x <= best
<1> DEFINE HasMax(U) == \E best \in U : \A x \in U : x <= best
           T == { n \in Nat : \A U \in SUBSET Int :
                    IsFiniteSet(U) /\ Cardinality(U) = n /\ U # {} => HasMax(U) }
<1>1. 0 \in T
  BY FS_EmptySet
<1>2. ASSUME NEW n \in T PROVE n + 1 \in T
  <2> SUFFICES ASSUME NEW U \in SUBSET Int, IsFiniteSet(U), Cardinality(U) = n + 1, U # {}
               PROVE  HasMax(U)
    OBVIOUS
  <2>1. PICK x : x \in U
    OBVIOUS
  <2> DEFINE V == U \ {x}
  <2>2. IsFiniteSet(V) /\ Cardinality(V) = Cardinality(U) - 1
    BY <2>1, FS_RemoveElement
  <2>3. U = V \cup {x} /\ V \in SUBSET Int /\ x \in Int
    BY <2>1
  <2>4. Cardinality(V) = n
    BY <2>2
  <2> HIDE DEF V
  <2>5. CASE V = {}
    BY <2>3, <2>5
  <2>6. CASE V # {}
    <3>1. PICK best \in V : \A y \in V : y <= best
      BY <2>2, <2>3, <2>4, <2>6
    <3>2. CASE x <= best
      BY <2>3, <3>1, <3>2
    <3>3. CASE ~ x <= best
      <4>1. \A y \in V : y <= x
        BY <2>3, <3>1, <3>3
      <4> QED BY <2>3, <4>1
    <3> QED BY <3>2, <3>3
  <2> QED BY <2>5, <2>6
<1> HIDE DEF T
<1>3. T = Nat
  <2>1. T \in SUBSET Nat
    BY DEF T
  <2> QED BY <1>1, <1>2, <2>1, Counting
<1>4. Cardinality(S) \in Nat
  BY FS_CardinalityType
<1> QED BY <1>3, <1>4 DEF T

\* The notional of the open contracts is a whole number.
LEMMA NotionalType ==
  ASSUME PortfolioOK
  PROVE  ActiveNotional \in Int
<1> DEFINE n == Len(positions)
           notionals == [i \in DOMAIN positions |-> positions[i].notional]
<1>1. n \in Nat /\ DOMAIN positions = 1 .. n /\ \A i \in 1 .. n : positions[i] \in PositionRecord
  BY PositionsDomain
<1> HIDE DEF n
<1>2. notionals \in [1 .. n -> Int]
  BY <1>1 DEF PositionRecord
<1>3. \A i \in 1 .. n : notionals[i] \in Int
  BY <1>2
<1>4. ActiveNotional = SumOf(notionals)
  BY DEF ActiveNotional
<1> HIDE DEF notionals
<1> QED BY <1>1, <1>2, <1>3, <1>4, SumOfList, SumType

\* What a product of a market earns is a whole number.
LEMMA MarginType ==
  ASSUME PortfolioOK, market \in Markets, NEW product \in Products
  PROVE  MarginOf(product) \in Int
<1>1. market[product] \in Fact /\ product \in Product
  BY RunAssumption, ContractAssumption
<1>2. market[product].margin \in Int /\ product.notional \in Int
  BY <1>1 DEF Fact, Product
<1>3. ActiveNotional \in Int
  BY NotionalType
<1> DEFINE post == ActiveNotional + product.notional
<1>4. post \in Int
  BY <1>2, <1>3
<1> HIDE DEF post
<1>5. market[product].margin - post * post \in Int
  BY <1>2, <1>4
<1> QED BY <1>5 DEF MarginOf, post

\* No product on offer earns more than the frontier, which is there as soon as
\* one is.
LEMMA FrontierBounds ==
  ASSUME PortfolioOK, market \in Markets, NEW product, Offered(product)
  PROVE  \E best \in Frontier : MarginOf(product) <= best
<1> DEFINE offered == { p \in Lattice : market[p].mandate /\ FitsPortfolio(p, market[p].mark) }
           margins == { MarginOf(p) : p \in offered }
           earns == [p \in offered |-> MarginOf(p)]
<1>1. product \in offered
  BY DEF Offered
<1>2. margins \in SUBSET Int
  BY MarginType, RunAssumption
<1>3. IsFiniteSet(offered)
  <2>1. offered \in SUBSET Lattice
    OBVIOUS
  <2> HIDE DEF offered
  <2> QED BY <2>1, RunAssumption, FS_Subset
<1>4. Frontier = { best \in margins : \A margin \in margins : margin <= best }
  BY DEF Frontier, Margins
<1>5. MarginOf(product) \in margins
  BY <1>1
<1>6. earns \in Surjection(offered, margins)
  BY DEF Surjection
<1> HIDE DEF offered, margins, earns
<1>7. IsFiniteSet(margins)
  BY <1>3, <1>6, FS_Surjection
<1>8. PICK best \in margins : \A margin \in margins : margin <= best
  BY <1>2, <1>5, <1>7, FiniteMax
<1> QED BY <1>4, <1>5, <1>8

\* The offer of a round depends on the accounts, the contracts and the market.
LEMMA OfferStays ==
  ASSUME UNCHANGED <<client, dealer, positions, market>>
  PROVE  /\ Frontier' = Frontier
         /\ \A product : Offered(product)' <=> Offered(product)
<1>1. ActiveNotional' = ActiveNotional /\ ActiveStress' = ActiveStress
  BY DEF ActiveNotional, ActiveStress
<1>3. \A product, mark : FitsPortfolio(product, mark)' <=> FitsPortfolio(product, mark)
  BY <1>1 DEF FitsPortfolio
<1>4. \A product : MarginOf(product)' = MarginOf(product)
  BY <1>1 DEF MarginOf
<1>5. Frontier' = Frontier
  BY <1>3, <1>4 DEF Frontier, Margins
<1> QED BY <1>3, <1>5 DEF Offered

\* A turn that earned what it may, and leaves the round as it was offered if
\* the model acts on, keeps the invariant.
LEMMA EarnedTurn ==
  ASSUME AttainInv, NEW r, IsTrace(r), UseTurn(r), Earned(r),
         stage' = "acting" => /\ r.frontier = Frontier'
                              /\ \A q \in quotes' : q.hard_pass => Offered(q.product)'
  PROVE  AttainInv'
<1>1. /\ traces' = traces /\ trace'.frontier = r.frontier /\ trace'.accepted = r.accepted
      /\ trace'.origin = r.origin /\ trace'.margin = r.margin
  BY DEF UseTurn, IsTrace, FreshTrace
<1>2. Earned(trace')
  BY <1>1 DEF Earned
<1>3. \A i \in DOMAIN traces' : Earned(traces'[i])
  BY <1>1 DEF AttainInv
<1> QED BY <1>1, <1>2, <1>3 DEF AttainInv

\* A turn that only uses up budget earns nothing and changes no offer.
LEMMA IdleTurn ==
  ASSUME AttainInv, TurnsInv, Acting, NEW r, IsTrace(r), UseTurn(r),
         r.frontier = trace.frontier, r.origin = trace.origin,
         UNCHANGED <<client, dealer, positions>>,
         \A q \in quotes' : q \in quotes \/ (q.hard_pass => Offered(q.product))
  PROVE  AttainInv'
<1>1. Earned(r)
  BY DEF TurnsInv, Acting, Untouched, None, Earned
<1>2. market' = market
  BY DEF UseTurn
<1>3. Frontier' = Frontier /\ \A product : Offered(product)' <=> Offered(product)
  BY <1>2, OfferStays
<1>4. r.frontier = Frontier'
  BY <1>3 DEF AttainInv, Acting
<1>5. \A q \in quotes' : q.hard_pass => Offered(q.product)
  BY DEF AttainInv, Acting
<1>6. \A q \in quotes' : q.hard_pass => Offered(q.product)'
  BY <1>3, <1>5
<1> QED BY <1>1, <1>4, <1>6, EarnedTurn

\* A submission that is accepted in time earns no more than the frontier.
LEMMA EarnedSubmission ==
  ASSUME AttainInv, PortfolioOK, market \in Markets, Acting, Break,
         NEW quote, quote.hard_pass => Offered(quote.product), NEW s, IsTrace(s),
         s.frontier = trace.frontier, UseTurn(Recorded(s, quote, "voluntary"))
  PROVE  AttainInv'
<1> DEFINE r == Recorded(s, quote, "voluntary")
           t == Failed(s, quote)
           accepted == Accepted(quote)
           margin   == MarginOf(quote.product)
<1>1. IsTrace(t) /\ t.frontier = s.frontier
  BY DEF Failed, IsTrace, FreshTrace
<1>2. r = [t EXCEPT !.submitted = TRUE, !.accepted = accepted, !.origin = "voluntary",
                    !.quote = quote.id, !.margin = margin]
  BY DEF Recorded
<1> HIDE DEF t, r, accepted, margin
<1>3. /\ IsTrace(r) /\ r.accepted = accepted /\ r.margin = margin /\ r.frontier = s.frontier
      /\ r.origin = "voluntary"
  BY <1>1, <1>2 DEF IsTrace, FreshTrace
<1>4. accepted => \E best \in Frontier : margin <= best
  BY FrontierBounds DEF accepted, margin, Accepted
<1>5. s.frontier = Frontier
  BY DEF AttainInv, Acting
<1>6. Earned(r)
  BY <1>3, <1>4, <1>5 DEF Earned
<1>7. stage' # "acting"
  BY DEF Break
<1>8. UseTurn(r)
  BY DEF r
<1> QED BY <1>3, <1>6, <1>7, <1>8, EarnedTurn

\* Every step of the runner keeps the invariant.
LEMMA NextAttain ==
  ASSUME TypeInv, MarketInv, TurnsInv, FailInv, AttainInv, [RunNext]_all
  PROVE  AttainInv'
<1> USE DEF core, tools, accounts, portfolio
<1>0. IsTrace(trace) /\ IsSequence(traces) /\ PortfolioOK /\ market \in Markets
  BY DEF TurnsInv, TypeInv, TypeOK, MarketInv
<1>1. CASE OpenRound
  <2>1. /\ stage = "opening" /\ UNCHANGED <<client, dealer, positions, quotes, market, traces>>
        /\ quotes = {}
    BY <1>1 DEF OpenRound, FailInv
  <2>2. \A i \in DOMAIN traces' : Earned(traces'[i])
    BY <2>1 DEF AttainInv
  <2>3. CASE stage' = "failed" /\ UNCHANGED trace
    BY <2>2, <2>3 DEF AttainInv
  <2>4. CASE trace' = [FreshTrace EXCEPT !.frontier = Frontier]
    <3>1. trace'.frontier = Frontier /\ ~ trace'.accepted
      BY <2>4 DEF FreshTrace
    <3>2. Earned(trace')
      BY <3>1 DEF Earned
    <3>3. Frontier' = Frontier
      BY <2>1, OfferStays
    <3> QED BY <2>1, <2>2, <3>1, <3>2, <3>3 DEF AttainInv
  <2> QED BY <2>3, <2>4, <1>1 DEF OpenRound
<1>2. CASE ProtocolError
  BY <1>0, <1>2, IdleTurn DEF ProtocolError
<1>3. CASE QueryTurn
  BY <1>0, <1>3, IdleTurn DEF QueryTurn, QueryClient
<1>4. ASSUME NEW role, NEW degraded, ConsultTurn(role, degraded) PROVE AttainInv'
  <2>1. PICK n, d : UseTurn([trace EXCEPT !.consults = n, !.degraded = d])
    BY <1>4 DEF ConsultTurn
  <2> DEFINE r == [trace EXCEPT !.consults = n, !.degraded = d]
  <2>2. IsTrace(r) /\ r.frontier = trace.frontier /\ r.origin = trace.origin
    BY <1>0 DEF IsTrace, FreshTrace
  <2>3. UseTurn(r) /\ Acting /\ UNCHANGED <<client, dealer, positions, quotes>>
    BY <1>4, <2>1 DEF ConsultTurn
  <2> HIDE DEF r
  <2> QED BY <2>2, <2>3, IdleTurn
<1>5. ASSUME NEW product, OnOffer(product)
      PROVE  NewQuote(product).hard_pass => Offered(NewQuote(product).product)
  BY <1>5 DEF OnOffer, NewQuote, Quote, Offered
<1>6. ASSUME NEW product \in Products, QuoteTurn(product) PROVE AttainInv'
  <2> DEFINE quote == NewQuote(product)
             r     == Quoted(trace, quote)
  <2>1. /\ UseTurn(r) /\ Acting /\ UNCHANGED <<client, dealer, positions>>
        /\ quotes' = quotes \cup {quote}
    BY <1>6 DEF QuoteTurn, RequestQuote, NewQuote
  <2>2. IsTrace(r) /\ r.frontier = trace.frontier /\ r.origin = trace.origin
    BY <1>0 DEF Quoted, Failed, IsTrace, FreshTrace
  <2>3. quote.hard_pass => Offered(quote.product)
    BY <1>5, <1>6 DEF QuoteTurn
  <2> HIDE DEF r, quote
  <2> QED BY <2>1, <2>2, <2>3, IdleTurn
<1>8. ASSUME NEW product \in Products, QuoteAndSubmitTurn(product) PROVE AttainInv'
  <2> DEFINE quote == NewQuote(product)
             noted == Quoted(trace, quote)
  <2>1. Acting /\ Break /\ UseTurn(Recorded(noted, quote, "voluntary"))
    BY <1>8 DEF QuoteAndSubmitTurn
  <2>2. IsTrace(noted) /\ noted.frontier = trace.frontier
    BY <1>0 DEF Quoted, Failed, IsTrace, FreshTrace
  <2>3. quote.hard_pass => Offered(quote.product)
    BY <1>5, <1>8 DEF QuoteAndSubmitTurn
  <2> HIDE DEF quote, noted
  <2> QED BY <1>0, <2>1, <2>2, <2>3, EarnedSubmission
<1>9. ASSUME NEW quote \in quotes, SubmitTurn(quote) PROVE AttainInv'
  BY <1>0, <1>9, EarnedSubmission DEF SubmitTurn, AttainInv, Acting
<1>10. ASSUME NEW r, IsTrace(r), UseTurn(r), r.origin # "voluntary", stage' # "acting"
       PROVE  AttainInv'
  BY <1>10, EarnedTurn DEF Earned
<1>11. CASE SkipTurn
  <2> DEFINE r == [trace EXCEPT !.skipped = TRUE]
  <2>1. UseTurn(r) /\ stage' # "acting"
    BY <1>11 DEF SkipTurn, Break
  <2>2. IsTrace(r) /\ r.origin # "voluntary"
    BY <1>0, <1>11 DEF IsTrace, FreshTrace, SkipTurn, TurnsInv, Acting, Untouched, None
  <2> HIDE DEF r
  <2> QED BY <1>10, <2>1, <2>2
<1>12. CASE ChatFails
  BY <1>12 DEF ChatFails, AttainInv, Earned
<1>13. ASSUME NEW quote \in quotes, ForcedSubmit(quote) PROVE AttainInv'
  <2> DEFINE r == Recorded(trace, quote, "forced_prompt")
  <2>1. UseTurn(r) /\ stage' # "acting"
    BY <1>13 DEF ForcedSubmit
  <2>2. IsTrace(r) /\ r.origin # "voluntary"
    BY <1>0, RecordedTurns
  <2> HIDE DEF r
  <2> QED BY <1>10, <2>1, <2>2
<1>14. CASE ForcedPass
  <2>1. UseTurn(trace) /\ stage' # "acting" /\ trace.origin # "voluntary"
    BY <1>14 DEF ForcedPass, LastChance, TurnsInv, Untouched, None
  <2> QED BY <1>0, <1>10, <2>1
<1>15. CASE StopActing
  BY <1>15 DEF StopActing, AttainInv, Earned
<1>16. ASSUME NEW affirmed \in SUBSET Roles, Review(affirmed) PROVE AttainInv'
  <2>1. /\ \E w : traces' = Append(traces, [trace EXCEPT !.workflow = w])
        /\ trace' = FreshTrace /\ stage' # "acting"
    BY <1>16 DEF Review
  <2>2. PICK w : traces' = Append(traces, [trace EXCEPT !.workflow = w])
    BY <2>1
  <2> DEFINE r == [trace EXCEPT !.workflow = w]
  <2>3. /\ r.accepted = trace.accepted /\ r.origin = trace.origin
        /\ r.frontier = trace.frontier /\ r.margin = trace.margin
    BY <1>0 DEF IsTrace, FreshTrace
  <2>4. traces' = Append(traces, r)
    BY <2>2
  <2> HIDE DEF r
  <2>5. Earned(r)
    BY <2>3 DEF Earned, AttainInv
  <2>6. \A i \in DOMAIN traces' : Earned(traces'[i])
    BY <1>0, <2>4, <2>5, KeptTrace DEF AttainInv
  <2>7. Earned(trace')
    BY <2>1 DEF Earned, FreshTrace
  <2> QED BY <2>1, <2>6, <2>7 DEF AttainInv
<1>17. CASE AdvanceRun
  <2>1. UNCHANGED <<trace, traces>> /\ stage' # "acting"
    BY <1>17 DEF AdvanceRun
  <2> QED BY <2>1 DEF AttainInv, Earned
<1>18. CASE UNCHANGED all
  <2>1. /\ UNCHANGED <<client, dealer, positions, quotes, market, traces, trace, stage>>
    BY <1>18 DEF all, run
  <2>2. Frontier' = Frontier /\ \A product : Offered(product)' <=> Offered(product)
    BY <2>1, OfferStays
  <2>3. \A q \in quotes' : stage = "acting" /\ q.hard_pass => Offered(q.product)'
    BY <2>1, <2>2 DEF AttainInv
  <2> QED BY <2>1, <2>2, <2>3 DEF AttainInv, Earned
<1> QED
  BY <1>1, <1>2, <1>3, <1>4, <1>6, <1>8, <1>9, <1>11, <1>12, <1>13, <1>14,
     <1>15, <1>16, <1>17, <1>18 DEF RunNext, Turn, EndOfRound

\* Nothing is earned before the first round.
LEMMA InitAttain == RunInit => AttainInv
<1>1. DOMAIN << >> = {}
  OBVIOUS
<1> QED BY <1>1 DEF RunInit, FreshTrace, AttainInv, Earned

\* The rows earn what the traces do.
LEMMA AttainRows == TurnsInv /\ AttainInv => AttainmentAtMostOne
<1> SUFFICES ASSUME TurnsInv, AttainInv PROVE \A i \in DOMAIN Rows : Earned(Rows[i])
  BY DEF AttainmentAtMostOne, Earned
<1> QED BY RowsAre DEF TurnsInv, AttainInv

\* What a voluntary trade attains of the frontier of its round is at most
\* one, for any lattice, any markets and any book: whatever is asked for
\* between the opening of the round and the trade, the frontier recorded at
\* the opening stays the best the round has to offer.
THEOREM AttainmentIsAtMostOne == RunSpec => []AttainmentAtMostOne
<1>1. RunInit => MarketInv /\ TurnsInv /\ FailInv /\ AttainInv
  BY InitTurns, InitFail, InitAttain DEF RunInit, MarketInv
<1>2. TypeInv /\ (MarketInv /\ TurnsInv /\ FailInv /\ AttainInv) /\ [RunNext]_all
        => (MarketInv /\ TurnsInv /\ FailInv /\ AttainInv)'
  BY MarketStays, NextTurns, NextFail, NextAttain DEF MarketInv
<1>3. TurnsInv /\ AttainInv => AttainmentAtMostOne
  BY AttainRows
<1>4. RunSpec => []TypeInv
  BY RunDrivesCore, SettleInvHolds, PTL
<1> QED BY <1>1, <1>2, <1>3, <1>4, PTL DEF RunSpec

=============================================================================
