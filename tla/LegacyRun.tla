------------------------------ MODULE LegacyRun ------------------------------
(***************************************************************************)
(* run_episode of stochopia/benchmark_runner.py: one frozen episode driven *)
(* through the strict text protocol of the older benchmark (v2), on top of *)
(* the environment of LongHorizon.                                         *)
(*                                                                         *)
(* A round opens with the one-step frontier: every product of the lattice  *)
(* is quoted and the best margin that passes the HARD checks is recorded.  *)
(* The model then has a budget of turns; whatever it answers uses up one.  *)
(* If the budget ran out and nothing was submitted or skipped, two of the  *)
(* three protocols grant one last turn.  Then the environment's roles      *)
(* review what was submitted, and the round is closed and advanced.        *)
(*                                                                         *)
(* The market of a round fixes what every product is quoted at, as the     *)
(* desk's pricing is deterministic.                                        *)
(***************************************************************************)
EXTENDS LongHorizon, FiniteSets

CONSTANTS
  Policies,       \* the protocols the episode may run under
  Markets,        \* what a snapshot makes of each product
  Lattice,        \* enumerate_domain: the products the frontier quotes
  MaxActions,     \* max_actions_per_round
  MaxConsults,    \* max_consults_per_round
  Roles           \* the environment roles that are wired

Fact == [mark : Marks, mandate : BOOLEAN, contract : BOOLEAN, margin : Int, converges : BOOLEAN]

ASSUME RunAssumption == /\ Policies \subseteq {"one_shot", "quote_and_revise", "ledger_archive"}
                        /\ Markets \subseteq [Products -> Fact]
                        /\ Lattice \subseteq Products /\ IsFiniteSet(Lattice)
                        /\ MaxActions \in Nat \ {0}
                        /\ MaxConsults \in Nat
                        /\ Roles \subseteq {"trading_desk", "risk_control", "client"}

VARIABLES
  strategy,       \* the protocol of this episode
  market,         \* the snapshot's quotes
  stage,          \* where run_episode is
  turn,           \* action_index
  consult_count,  \* consultations of the round
  trace,          \* the RoundTrace being filled in
  traces          \* the traces of the rounds closed so far

run == <<strategy, market, stage, turn, consult_count, trace, traces>>
all == <<core, run>>

None == "none"

Interactive(policy) == policy # "one_shot"
ForcedPrompt(policy) == policy # "one_shot"
Budget(policy) == IF policy = "one_shot" THEN 1 ELSE MaxActions

-----------------------------------------------------------------------------
(* The desk's deterministic quotes and the one-step frontier.              *)

\* The hedge costs more the larger the book already is (quote_economics).
MarginOf(product) ==
  LET post == ActiveNotional + product.notional IN market[product].margin - post * post

\* Mutant: a product off the lattice is quoted like any other.
OnOfferAny(product) == product \in Products

\* validate_domain, which request_quote asks before it counts the quote: any
\* other product is refused as a ProtocolError.  Those of the lattice have
\* been quoted when the round opened, so the desk does not raise for them.
OnOffer(product) == product \in Lattice

Margins(products) == { MarginOf(p) : p \in products }

\* oracle_best_quote: the best margin, if any product passes the HARD checks.
Frontier ==
  LET margins == Margins({ p \in Lattice : market[p].mandate /\ FitsPortfolio(p, market[p].mark) })
  IN  { best \in margins : \A margin \in margins : margin <= best }

FreshTrace ==
  [ round |-> round, actions |-> 0, skipped |-> FALSE, submitted |-> FALSE,
    accepted |-> FALSE, origin |-> None, quote |-> None, margin |-> 0,
    frontier |-> {}, failures |-> << >>, attempts |-> 0,
    consults |-> 0, degraded |-> 0, workflow |-> None ]

RunInit ==
  /\ Init
  /\ strategy \in Policies
  /\ market \in Markets
  /\ stage = "opening"
  /\ turn = 1
  /\ consult_count = 0
  /\ trace = FreshTrace
  /\ traces = << >>

\* The snapshot of this round: quoting the lattice raises when one of its
\* products does not converge, and nothing catches it.
OpenRound ==
  /\ stage = "opening"
  /\ turn' = 1
  /\ IF \A p \in Lattice : market[p].converges
     THEN stage' = "acting" /\ trace' = [FreshTrace EXCEPT !.frontier = Frontier]
     ELSE stage' = "failed" /\ UNCHANGED trace
  /\ UNCHANGED <<core, strategy, market, consult_count, traces>>

-----------------------------------------------------------------------------
(* One answer of the model.                                                *)

Acting == stage = "acting"

\* A turn is used up; the loop ends with the budget.
Continue ==
  /\ turn' = turn + 1
  /\ stage' = IF turn < Budget(strategy) THEN "acting" ELSE "closing"

\* The answer that settles or skips the round breaks the loop.
Break == stage' = "closing" /\ UNCHANGED turn

UseTurn(record) ==
  /\ trace' = [record EXCEPT !.actions = @ + 1]
  /\ UNCHANGED <<strategy, market, traces>>

\* An answer that cannot be parsed, that the protocol forbids, that asks for
\* what the environment refuses (a product off the lattice, a spent budget, an
\* unknown quote), or whose drafted quote raises in a consult.
ProtocolError ==
  /\ Acting
  /\ Continue
  /\ UseTurn(trace)
  /\ UNCHANGED <<core, consult_count>>

QueryTurn ==
  /\ Acting
  /\ Interactive(strategy)
  /\ QueryClient
  /\ Continue
  /\ UseTurn(trace)
  /\ UNCHANGED consult_count

\* A role that is missing and a spent budget answer with an error, which
\* counts as a degraded consultation but not against the budget.
ConsultTurn(role, degraded) ==
  LET served == role \in Roles /\ consult_count < MaxConsults
      failed == degraded \/ ~ served
  IN  /\ Acting
      /\ Interactive(strategy)
      /\ consult_count' = IF served THEN consult_count + 1 ELSE consult_count
      /\ Continue
      /\ UseTurn([trace EXCEPT !.consults = @ + 1,
                               !.degraded = IF failed THEN @ + 1 ELSE @])
      /\ UNCHANGED core

\* The event of a failed check is identified by its quote.
Failed(record, quote) ==
  IF quote.hard_pass \/ \E i \in DOMAIN record.failures : record.failures[i] = quote.id
  THEN record
  ELSE [record EXCEPT !.failures = Append(@, quote.id)]

NewQuote(product) ==
  LET fact == market[product] IN Quote(product, fact.mark, fact.mandate, fact.contract)

Quoted(record, quote) ==
  IF quote.hard_pass THEN record
  ELSE [Failed(record, quote) EXCEPT !.attempts = @ + 1]

QuoteTurn(product) ==
  LET fact == market[product]
  IN  /\ Acting
      /\ Interactive(strategy)
      /\ OnOffer(product)
      /\ RequestQuote(product, fact.mark, fact.mandate, fact.contract)
      /\ Continue
      /\ UseTurn(Quoted(trace, NewQuote(product)))
      /\ UNCHANGED consult_count

\* Mutants: a refused submission is traced like an accepted one; the event
\* of a failed check is added without looking for it.
RecordedAccepted(record, quote, origin) ==
  [ Failed(record, quote) EXCEPT
      !.submitted = TRUE,
      !.accepted  = quote.hard_pass,
      !.origin    = origin,
      !.quote     = quote.id,
      !.margin    = MarginOf(quote.product) ]
RecordedTwice(record, quote, origin) ==
  [ record EXCEPT
      !.submitted = TRUE,
      !.accepted  = Accepted(quote),
      !.origin    = origin,
      !.quote     = quote.id,
      !.margin    = MarginOf(quote.product),
      !.failures  = IF quote.hard_pass THEN @ ELSE Append(@, quote.id) ]

\* _record_submission_result
Recorded(record, quote, origin) ==
  [ Failed(record, quote) EXCEPT
      !.submitted = TRUE,
      !.accepted  = Accepted(quote),
      !.origin    = origin,
      !.quote     = quote.id,
      !.margin    = MarginOf(quote.product) ]

SubmitTurn(quote) ==
  /\ Acting
  /\ Interactive(strategy)
  /\ SubmitDesign(quote)
  /\ Break
  /\ UseTurn(Recorded(trace, quote, "voluntary"))
  /\ UNCHANGED consult_count

QuoteAndSubmitTurn(product) ==
  LET fact  == market[product]
      quote == NewQuote(product)
  IN  /\ Acting
      /\ OnOffer(product)
      /\ SubmitProduct(product, fact.mark, fact.mandate, fact.contract)
      /\ Break
      /\ UseTurn(Recorded(Quoted(trace, quote), quote, "voluntary"))
      /\ UNCHANGED consult_count

\* Mutant: a skip ends the turns but leaves the round open.
SkipTurnLeftOpen ==
  /\ Acting
  /\ Break
  /\ UseTurn([trace EXCEPT !.skipped = TRUE])
  /\ UNCHANGED <<core, consult_count>>

SkipTurn ==
  /\ Acting
  /\ CloseRound
  /\ Break
  /\ UseTurn([trace EXCEPT !.skipped = TRUE])
  /\ UNCHANGED consult_count

\* The model cannot be reached: the exception leaves run_episode.
ChatFails ==
  /\ stage = "acting" \/ (stage = "closing" /\ ~ submitted /\ ForcedPrompt(strategy))
  /\ stage' = "failed"
  /\ UNCHANGED <<core, strategy, market, turn, consult_count, trace, traces>>

-----------------------------------------------------------------------------
(* The last chance, the review and the end of the round.                   *)

LastChance == stage = "closing" /\ ~ submitted /\ ForcedPrompt(strategy)

ForcedSubmit(quote) ==
  /\ LastChance
  /\ SubmitDesign(quote)
  /\ stage' = "reviewing"
  /\ UseTurn(Recorded(trace, quote, "forced_prompt"))
  /\ UNCHANGED <<turn, consult_count>>

\* A skip, and any answer that is not one of the two allowed: no trade.
ForcedPass ==
  /\ LastChance
  /\ CloseRound
  /\ stage' = "reviewing"
  /\ UseTurn(trace)
  /\ UNCHANGED <<turn, consult_count>>

\* No last chance: the round is settled or skipped, or the protocol has none.
StopActing ==
  /\ stage = "closing"
  /\ ~ LastChance
  /\ IF submitted THEN UNCHANGED core ELSE CloseRound
  /\ stage' = "reviewing"
  /\ UNCHANGED <<strategy, market, turn, consult_count, trace, traces>>

\* settle_submission: a deal needs the HARD checks and all three roles.
Workflow(quote, affirmed) ==
  IF quote.hard_pass /\ affirmed = {"trading_desk", "risk_control", "client"}
  THEN "deal" ELSE "no_deal"

\* workflow_review reads the settled quote, then the trace is kept.
Review(affirmed) ==
  LET reviewed == Roles # {} /\ trace.submitted
      quote    == CHOOSE q \in quotes : q.id = trace.quote
      outcome  == IF reviewed THEN Workflow(quote, affirmed) ELSE None
  IN  /\ stage = "reviewing"
      /\ traces' = Append(traces, [trace EXCEPT !.workflow = outcome])
      /\ trace' = FreshTrace
      /\ stage' = IF round < Rounds THEN "advancing" ELSE "done"
      /\ UNCHANGED <<core, strategy, market, turn, consult_count>>

\* advance_round, and the next snapshot once it is through.
AdvanceRun ==
  /\ stage = "advancing"
  /\ Advance
  /\ IF round' # round
     THEN /\ stage' = "opening"
          /\ consult_count' = 0
          /\ market' \in Markets
     ELSE /\ stage' = IF phase' = "failed" THEN "failed" ELSE stage
          /\ UNCHANGED <<consult_count, market>>
  /\ UNCHANGED <<strategy, turn, trace, traces>>

Turn ==
  \/ ProtocolError
  \/ QueryTurn
  \/ \E role \in {"trading_desk", "risk_control", "client"}, degraded \in BOOLEAN :
       ConsultTurn(role, degraded)
  \/ \E product \in Products :
       QuoteTurn(product) \/ QuoteAndSubmitTurn(product)
  \/ \E quote \in quotes : SubmitTurn(quote)
  \/ SkipTurn

EndOfRound ==
  \/ \E quote \in quotes : ForcedSubmit(quote)
  \/ ForcedPass
  \/ StopActing
  \/ \E affirmed \in SUBSET Roles : Review(affirmed)
  \/ AdvanceRun

RunNext == OpenRound \/ Turn \/ ChatFails \/ EndOfRound

RunSpec == RunInit /\ [][RunNext]_all

-----------------------------------------------------------------------------
(* Properties.                                                             *)

Rows == traces \o << trace >>

\* What the metrics divide is never more than one: in every round a voluntary
\* trade that was accepted earned at most the frontier recorded when the round
\* opened, whatever was quoted in between and however full the book already
\* was (compute_metrics raises on the contrary, oracle_best_quote).
AttainmentAtMostOne ==
  \A i \in DOMAIN Rows :
    Rows[i].accepted /\ Rows[i].origin = "voluntary"
      => \E best \in Rows[i].frontier : Rows[i].margin <= best

\* The traces tell what the environment settled: the contracts accepted in
\* the traces are exactly those that are open or settled, and the rounds that
\* submitted are those the client remembers, whether the submission was made
\* in time or at the last chance (_record_submission_result, submit_design).
TracesTellSettlement ==
  Dynamic =>
    /\ { Rows[i].quote : i \in { j \in DOMAIN Rows : Rows[j].accepted } }
         = EventIds \cup PositionIds
    /\ Cardinality({ j \in DOMAIN Rows : Rows[j].submitted })
         = memory.accepted + memory.rejected

\* The last chance is one more turn after the whole budget, only for a round
\* that was neither settled nor skipped: a model that skipped is not made to
\* trade, and nobody else acts beyond the budget (_run_forced_prompt).
ForcedIsLastChance ==
  \A i \in DOMAIN Rows :
    /\ Rows[i].actions > Budget(strategy)
         => ForcedPrompt(strategy) /\ ~ Rows[i].skipped /\ Rows[i].origin # "voluntary"
    /\ Rows[i].origin = "forced_prompt" => Rows[i].actions = Budget(strategy) + 1
    /\ Rows[i].skipped => ~ Rows[i].submitted

\* A failed check is counted once: quoting a product and submitting that quote
\* later, in time or at the last chance, leaves one event for it, and every
\* quote of the round that failed has one (failure_events).
FailuresCountedOnce ==
  /\ \A i \in DOMAIN Rows : \A j, k \in DOMAIN Rows[i].failures :
       Rows[i].failures[j] = Rows[i].failures[k] => j = k
  /\ stage \in {"acting", "closing", "reviewing"} =>
       { trace.failures[j] : j \in DOMAIN trace.failures }
         = { q.id : q \in { r \in quotes : ~ r.hard_pass } }

=============================================================================
