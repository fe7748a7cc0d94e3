# A TLA+ model of Stochopia

Stochopia is a benchmark in which a language model structures derivatives for a
client over several months. Around the pricing formulas there is a stateful
program: accounts and a ledger, contracts that are quoted, issued, observed and
settled, a step interface that hands out rewards, an older runner with a text
protocol, a recorder of tamper-evident trajectories, commands that resume work
from a directory, and the services below them. This directory models that
program in TLA+, checks it with TLC and proves the properties that matter most
with TLAPS. All paths below are under `src/stochopia/` unless they say
otherwise.

## 1. Inventory

### The parts and how they interact

```
 run-v3-suite (benchmark_cli.py)              SuiteRun
   |  one rollout per task and replicate, resume, replay, aggregate
 run_agent_episode                            AgentRollout
   |  (environment/agent_runner.py) asks a policy, records and saves
 StochopiaStructurerEnv                       EpisodeProtocol <= StructurerEnv
   |  (environment/core.py) reset/step, rewards, disclosures, aliases
   |
   |   run-manifest, judge-runs, aggregate    Batch
   |     |  (benchmark_cli.py) a directory of results, gradings, a report
   |   run_episode (benchmark_runner.py)      LegacyRun
   |     |  turns, last chance, traces        EnvAgents: the roles it consults
   |     |
 LongHorizonEnvironment, TradingDesk,         LongHorizon
 PortfolioState (benchmark.py)
   |        |  quotes, contracts, month's advance, liquidation
   |        |
   |  parse_product_spec, lattice,            ContractLife over TermSheet,
   |  pricers, one position's month           Payoff and ClosedForms
   |        |
   |  solve_quote_equilibrium (pricing.py)    QuoteSolver over PriceCache
   |  behind BoundedLRUCache (cache.py)
 ClientAccount, DealerAccount                 Ledger
 (benchmark.py)

 below policies, judges and roles: chat (llm.py)        ModelClient
 before everything: market data (tushare_batch.py)      MarketBatch
```

Almost everything runs in one process and one thread. What makes it hard is not
parallelism but the length and order of legal calls, exceptions that leave a
month half advanced, policies that fail or time out between two steps, and
files that outlive the process that wrote them. And much is said twice: a
contract's cash is simulated by one function and settled by another, announced
in a table by a third; offers are counted by the interface and by the core;
a trace records what the environment also keeps. Most properties below hold two
such accounts against each other.

| Part | State it keeps | Operations | What makes it correct |
|---|---|---|---|
| Accounts | available and locked cash, capital, pending withdrawal, flows; the dealer's cash, profit, capital | `issue`, `settle`, `reconcile_scheduled_capital`, `reset` | no balance goes negative; every change has a movement; the two sides mirror each other; what is owed is paid first |
| Deterministic core | round, tool budgets, quotes, positions, lifecycle events, cash-flow ledger, revision | `query_client`, `request_quote`, `submit_design`, `advance_round`, `liquidate_horizon` | a contract is settled exactly once, and what a month that is run again breaks is known; locked cash backs active contracts; limits hold for the book as a whole; a quote is good for its round and only there |
| Products and pricing | a position's elapsed months, spot, touched barrier, knock-in, status | `parse_product_spec`, `enumerate_domain`, the pricers, `_process_position_observation`, `_position_settlement_amount`, payoff table | what is priced, announced and settled is the same contract; a protected principal comes back; the lattice is what can be drafted |
| Quote solver, bounded cache | bracket, candidates, ordered map | `solve_quote_equilibrium`, `BoundedLRUCache` | a converged quote reproduces itself; the least recently used goes |
| Step interface | the core plus step counters, public quote aliases, disclosures, rewards and summary | `reset`, `step` | rewards telescope to the wealth gained; what is on offer is served; every episode ends |
| Rollout, trajectory | loop, counters, hash-chained entries, temporary and final file | `run_agent_episode`, `record`, `save`, `verify` | a failed episode can still be saved; a saved file is whole |
| Suite runner | a directory of trajectories, summaries, evaluations and reports | `run-v3-suite` | nothing stale is collected; the report tells the truth about the directory; interrupted work is not repeated |
| Older runner (v2) | protocol, turns, consultations, a trace per round | `run_episode` | at most one last chance, and only where due; the traces tell what was settled; nobody beats the frontier |
| Batch commands | outputs, files moved aside, gradings, a report | `run-manifest`, `judge-runs`, `aggregate` | no result is lost; a clean exit means all is there; what a report pools is whole |
| Environment agents (LLM roles) | history per role, response cache and its file | `FrozenEnvAgent.respond`, `EnvResponseCache` | degraded answers are never cached; a reply once frozen is the one found |
| Model clients | two retry counters, the token budget | `chat` (`llm.py`) | one kind of retry does not use up the other |
| Market data batches | tables, metadata, a manifest, a stop flag | `tushare_batch.py` | half a pair is not complete; what is complete is never asked for again |
| Pure parts | none | market generation and construction, audits, statistics, judge prompts | numerical or text; outside this model |

`PROJECT.json` lists every part under "components", and under "hazards" what can
go wrong in this code that tests hardly reach, each at its line, with the
properties that watch it.

## 2. Modules

| Module | What it is |
|---|---|
| `Ledger` | the two accounts as records; one operator per method, no state of its own |
| `LongHorizon` | the core: state machine over rounds, quotes, contracts and the ledger |
| `StructurerEnv` | the step interface, on top of `LongHorizon` |
| `EpisodeProtocol` | what the step interface promises its driver; implemented by `StructurerEnv` |
| `AgentRollout` | the rollout loop and the trajectory file, on top of `EpisodeProtocol` |
| `SuiteRun` | run-v3-suite over a directory that outlives the process |
| `LegacyRun` | `run_episode` with its three protocols, on top of `LongHorizon` |
| `Batch` | run-manifest, judge-runs and aggregate around one directory |
| `EnvAgents` | a role-playing environment agent and the response cache it shares with other jobs |
| `TermSheet` | what a policy may draft, what the parser makes of it, the lattice of products |
| `Payoff` | the cash of a contract on a path: settled by the lifecycle month by month, counted by a simulation, priced by a closed form that watches the barrier throughout |
| `ClosedForms` | the closed forms for a barrier option and what their terms are worth, hurdle levels, payoff table and best case |
| `ContractLife` | the life of one contract, from the draft to the settlement, over the three modules above |
| `PriceCache` | the bounded cache as operators on a sequence |
| `QuoteSolver` | the quote equilibrium: bracketing, bisection, refinement, behind the cache |
| `ModelClient` | one call of `chat` with its two kinds of retry |
| `MarketBatch` | the resumable collection of market data |
| `MCLongHorizon`, `MCStructurerEnv`, `MCSuiteRun`, `MCEnvAgents`, `MCLegacyRun`, `MCBatch`, `MCContractLife`, `MCServices` | constants of the instances; `MCServices` puts `ModelClient`, `MarketBatch` and `QuoteSolver` side by side |
| `LedgerProofs` | lemmas about the accounts' methods, sums over sequences and counting |
| `LongHorizonProofs` | theorems about the core: types, accounts, quotes, settlement, locked cash, ledger, limits |
| `EnvProofs`, `RunProofs` | theorems about the step interface (aliases, offers, rewards, `EpisodeProtocol`) and the older runner (turns, failures, traces, attainment); both carry the core's over |
| `SuiteProofs`, `EnvAgentsProofs` | theorems about the suite and the rollouts in it, and about the roles' cache and its replay |
| `ContractProofs` | theorems about `ContractLife`: price, announcement and settlement of one contract |
| `ServicesProofs` | theorems about services (retries, collection, quote solver and its cache) and batch commands |

### How the code is abstracted

*Money* is an integer amount. In `LongHorizon` prices, stresses, hedge results
and payoffs come out of floating-point code and are any value of a constant set
(`Marks`, `HedgeMoves`, `Payoffs`). A product keeps what the core reads of it:
notional, cash outlay, term, and the barriers that can end it early. The
suitability and mandate checks, which read only the term sheet and the client's
profile, are one Boolean choice; the checks on cash, portfolio notional and
dealer stress are spelled out. `LegacyRun` narrows the choice: pricing is
deterministic, so the market of a round says what each product is quoted at,
whether it meets the mandate and whether its price converges. A product off the
lattice is refused before the quote is charged (`benchmark.py:2354-2357`), so
only what is `OnOffer` is ever quoted; asking for another is one of the protocol
errors, which use up the turn and nothing else. Two failure events are the same
if they are about the same quote.

*Loops over positions* are one step per contract (`AdvancePosition`,
`LiquidatePosition`), because pricing may raise between two of them
(`RevaluationFails`). The code moves cash inside the loop and rebuilds the list
and increments the revision after it; so does the model, which is what makes
the half-advanced month visible.

*A month that raised* leaves everything as it was at that moment, and nothing
remembers that it did. `step()` refuses only an episode that has terminated or
was truncated (`environment/core.py:266-268`), and finishes a round outside its
`try` (`core.py:332`); `advance_round` looks only at the round's number
(`benchmark.py:2730`). So a further call runs the month again over contracts
that were observed or settled already and are still listed: the second
observation finds the same spot, so it accrues no hedge and touches no new
barrier, but counts the month again; a contract settled before the raise is
settled again, until the client's account refuses to release more than is
locked (`benchmark.py:431-435`), after its event and its flows were listed.
`Begin`, `Observed`, `RevaluationFails`, `SettlementRaises` and
`LiquidationRaises` model that call; the ghost `retries` counts loops begun
again after a raise, `MaxRetries` bounds them, and every event carries the
`attempt` it belongs to. That a round is submitted before it is advanced is not
checked by `advance_round` but kept by both its callers, so `CanAdvance` asks
for it. The two drivers in the repository, `run_agent_episode` and
`run_episode`, never call again after an exception: `LegacyRun` and
`AgentRollout` have no such step.

*Hashes* are the values they are computed from: `StateVersion` is the tuple
that `state_version` hashes, `StateHash` the state itself. Equality is all the
code asks of them.

*`step()`* is a policy's action (`PolicyStep`), followed, if it ends the round,
by the stages of `_finish_round`. Handlers are complete: `SubmitQuoted`, for
example, settles, removes the quote, gives the reward and counts. In `LegacyRun`
a turn is the whole iteration of `run_episode`'s loop, with the trace it writes.

*The policy* is never trusted: in `AgentRollout` it may answer anything
available or not, produce malformed output, raise, time out or be cancelled; in
`LegacyRun` the model may break the protocol, ask for anything, or its client
may fail, at any turn.

*A contract's levels* (`TermSheet`, `Payoff`) are percentages of its fixing, and
an amount is in 1/120000 of its face, so that monthly coupons and
participations stay whole. A result of pricing is a mean over paths; the model
compares what is counted on *each* path and leaves discounting out. There are
three counts. *Settlement* looks at the spot of each month end. A *simulation*
sees the same spots: it prices notes, and for barrier options it yields the
diagnostics (`OptionCashflow`, from `_mc_vanilla_barrier_stats`). A *closed form*
prices barrier options as if the barrier were watched throughout
(`PricedCashflow`): a path is then its month ends together with the extreme it
reached in between, which may touch a barrier that no month end does. The
closed forms' four terms are values at the last spot and at its image in the
barrier, added over the walks of a symmetric market (`TermCash`), where
reflection in the barrier is exact; which of them a formula adds is the code's
table.

*The quote solver* works on whole prices from the fair value to the cap; the
probability of reaching the hurdle is a step function of the price, as it is on
a finite sample. Every monotone such function is a market.

*The disk*: every file of `SuiteRun` is replaced atomically (the code writes a
temporary file and renames it; `AgentRollout` models that step by step), but a
job's three files and the three reports are written one after the other, and
the command may stop between any two. A trajectory replays successfully under
the build that made it; under another build it may or may not. In `Batch` a
result is known by its job, the fingerprint of its run and its rollout, holds
one submission and is judged once per judge; outputs are replaced atomically,
but gradings are written in place and may be torn. In `MarketBatch` a table is
known by the number of the answer it holds, as the service may answer the same
request differently another day.

*Models behind roles* (`EnvAgents`) are as little trusted as policies: a call may
fail, give an answer that does not parse, one that names numbers it was not
given, or one of several good answers. A prompt is the list of its messages. The
cache's file is the set of entries that a new process would read, and whether
it ends in half a line or in half a character, which a failed append leaves.

*Bounds of the models* that are not parameters of the program: `MaxRetries` in
`LongHorizon` (2 in `long_horizon`, 1 in `structurer_env`, 0 where the driver
never calls again or a round has no loop), `MaxRollouts` and `MaxInterruptions` in `SuiteRun`, `MaxJobs` in `EnvAgents`, `MaxRollouts` and
`MaxCommands` in `Batch`, `MaxAnswers` in `MarketBatch`, `Quotes` in
`QuoteSolver`, and in `ContractLife` the sets `Drafts`, `Spots`, `Prices` and
`Hurdles`. All others (`Rounds`, `MaxQuotes`, `MaxActions`, `Jobs`, `Retries`)
are settings of the program.

## 3. What TLC checks

| Run | Question | Bounds |
|---|---|---|
| `long_horizon` | Does the money add up, is every contract settled exactly once, and does each trade fit, whatever is traded and priced, with the capital schedule moving and pricing raising mid-month; and what is left of all that when the month is run again? | 3 rounds, 1 quote per round, two one-month products and a two-month one, 2 calls again after a raise |
| `static` | Does the static condition carry anything from round to round? | 3 rounds, 2 quotes, moving capital |
| `structurer_env` | Do the rewards add up, is what the observation offers what the core serves, does the interface implement `EpisodeProtocol` with its fairness, and does every episode end, or raise, whose policy keeps acting? | 3 rounds, 2 quotes of which the desk may fail to price any, 3 steps per round, 1 call again after a raise |
| `agent_rollout` | Can every trajectory be saved, and is the file whole, whatever the policy does and whenever the process dies? | 3 rounds, 2 steps per round |
| `suite_run` | Does a command tell the truth, over directories left by other suites, policies, builds, `--force` and interruptions, without repeating work, and does it get to its end? | 2 jobs, 4 rollouts, 1 interruption |
| `env_agents` | Is a reply once accepted the reply to every later identical request, without a model, and where does a replay diverge, and what do failed appends to the file break? | 2 jobs, 2 requests in 2 rounds to a role that remembers the round or the episode, 2 contents, 2 good answers |
| `legacy` | Do the traces of the older runner tell what was settled, is the last chance the last, and is the frontier a bound? | 2 rounds, 2 quotes, 3 turns, 1 consultation, all three roles, 3 markets, 2 protocols |
| `batch` | Is no result lost, does a clean exit mean completeness, and does a report pool whole gradings only, for every order of commands and kills? | 2 jobs of two authors one of whom judges, 2 fingerprints, 1 retry of a judge, 3 rollouts, 4 commands |
| `services` | Do retries keep to their budgets, does completed collection stay, and is a converged quote a fixed point, behind a cache smaller than what it is asked for? | 3 delays, 2 raises, ceiling 16; a plan of 3 requests, 1 retry, 5 answers; 7 prices, 3 levels, 2 quotes, a cache of 3 |
| `contract_life` | Are price, announcement and settlement of a contract of every family the same, on every path, and where not, on which side is the difference? Do the closed forms value a barrier option as its paths do, on either side of the strike? | 2 and 3 months, walks of 4 steps, strikes 95 and 105, barriers 80, 103 and 110, spots from 70 to 112 |

Two more runs, `conversation_replay` and `knocked_in_note`, check sentences of
the documentation and the payoff table that the code does not keep (section 5).

**Why the bounds are enough to be interesting.** The episode has two decision
rounds and a horizon: contracts can be opened in two consecutive rounds, overlap,
mature at a month's end or at the horizon, be knocked out early, or still be
open when the horizon liquidates them. The client can afford the two-month note
with a one-month option beside it but not two notes, and only one of the options
fits beside the note under the notional limit, so the cash, notional and stress
limits all bind.
`Capitals = {1, 3}` lets the schedule cut capital below what is free (leaving a
pending withdrawal while cash is locked) and raise it again. `Marks` contains a
stress above and one below zero, `HedgeMoves` both signs, `Payoffs` a total loss
and a gain. Two quotes in `structurer_env` let an alias be used up while another
is open, and a quote fail after one succeeded.

Two suite jobs are enough for one to be resumed and one to be run with
different settings in one report, two builds for a replay that diverges, four
rollouts for each job to be run twice. Two jobs of `EnvAgents` are a recording
and its replay, and two requests are enough for the first to change the history
that the second is asked with, or for its entry to be in the file while the
append of the second fails. Two rounds let a role that remembers only the round
forget in between.

In `legacy` three turns allow a quote, a second thought and a submission, or a
budget used up by errors; two rounds give a book that the second frontier sees;
the first two products do not fit beside each other; the third is off the
lattice and would beat the frontier if it could be quoted; in one market the lattice does not converge, which
ends the episode. The protocol `ledger_archive` is `quote_and_revise` with
another prompt and is left out. Four batch commands are a run, a run under
changed inputs, a grading and a report, in any order and with results from
before fingerprints; three rollouts let one job be run twice. The budgets of
`services` lie on either side of a quarter, a half and the whole of the ceiling;
the plan has an optional request between two required ones; seven prices and
three levels give 3024 markets, with fixed points between, on and beside the
jumps and none at all. The spots of `contract_life` lie on and beside each
strike, barrier, call level and the fixing; one barrier lies between the levels
at which a snowball and an autocallable are called and one above both; three
months have an observation that is neither first nor last.

**Mutants.** Each property has a mutant in `PROJECT.json`: an operator in the
same module that states a plausible bug (a swapped order, a dropped guard, a
missing reset), under which TLC finds the property violated.

**Deadlock.** All runs say `CHECK_DEADLOCK FALSE`: an episode ends, a rollout or a
call returns and a contract is settled, and the code has no step after that
(`step` refuses an episode that is over). What raised may be called again, but
only `MaxRetries` times; the directories' modules stop at their bounds.

**Fairness.** `FairEnvSpec` and `FairEpisodeSpec` have weak fairness of the whole
next-state relation as long as no step has raised: the driver's loop
(`environment/agent_runner.py:799-898`) calls `step` until the episode is done,
and an exception leaves the loop, so that nobody is bound to call again.
Nothing is assumed of *which* action the policy picks, so `EpisodeEnds` (the
episode is done, or raised and is left there) rests on the step limit alone.
`FairSuiteSpec`
assumes that a command which is not stopped runs, and that a
stopped one is started again.

## 4. What is proved

For every value of the constants that satisfies the modules' assumptions
(in particular for any number of rounds, quotes, turns, contracts, jobs and
commands, any schedule of capitals, any prices and payoffs):

| Theorem | Says |
|---|---|
| `LongHorizonProofs!TypeCorrect` | `Spec => []TypeOK`: every variable keeps its type; in particular no cash balance, lock or debt of the client ever falls below zero |
| `LongHorizonProofs!BooksAlwaysBalance` | `Spec => []BooksBalance`: for every schedule of capitals, every price and every payoff, both accounts are what their movements add up to |
| `LongHorizonProofs!AccountsAlwaysMirror` | `Spec => []AccountsMirror`: the dealer's account is the mirror of the client's, whatever is issued and settled |
| `LongHorizonProofs!OwedIsPaidFirst` | `Spec => OwedBeforeInvestable`: no settlement can be invested while the client owes a withdrawal |
| `LongHorizonProofs!QuotesNeverExpire` | `Spec => []QuotesStayFresh`: a quote of a round not yet submitted is bound to the state of now |
| `LongHorizonProofs!StaticRoundsAreIndependent` | `Spec => []StaticRoundsStartFresh`: the static condition carries nothing from round to round |
| `LongHorizonProofs!EveryContractSettledOnce` | `Spec => []SettledOnce`: for any number of rounds, contracts and repeated calls: until a month that raised is run again no contract is settled twice, after that at most once by each call, and a listed contract is settled exactly when it is not active |
| `LongHorizonProofs!NoRoundTradesTwice` | `Spec => []OneTradePerRound`: at most one contract is issued per round, for any quote budget |
| `SuiteProofs!NothingStaleIsCollected` | `SuiteSpec => []CollectedIsCurrent`: whatever earlier commands left in the directory, a suite run collects only evaluations made under its suite of the trajectory that stands there and by its policy; for any number of jobs, settings and interruptions |
| `EnvAgentsProofs!RepliesAreFrozen` | `EnvAgentsSpec => []OneFrozenReply`: for any episode, any answers of the models, any number of jobs and any failures of the disk, a request has at most one reply in the cache's file and in memory |
| `EnvAgentsProofs!FoundIsGood` | `EnvAgentsSpec => []FoundNeedsNoModel`: a reply found in the cache is returned without calling a model: only what needs no repair is ever stored |
| `RunProofs!RunDrivesCore` | `RunSpec => Spec`: every behaviour of the older runner is one of the core: whatever the model answers, run_episode takes no step LongHorizon does not allow, so that every property of the core holds under it |
| `RunProofs!RunQuotesStayFresh` | `RunSpec => []QuotesStayFresh`: under the older runner too, with its three protocols and any number of rounds, a quote stays bound to the state until its round is closed |
| `RunProofs!RunNeverRepeats` | `RunSpec => [](retries = 0)`: the older runner stops at the first month that raises: none is ever begun again |
| `RunProofs!RunBooksBalance` | `RunSpec => []BooksBalance`: the books balance in every episode of the older runner |
| `RunProofs!RunSettlesOnce` | `RunSpec => [](retries = 0 /\ SettledOnce)`: the older runner never runs a month again, and so every contract of its episodes is settled once |
| `RunProofs!RunTradesOnce` | `RunSpec => []OneTradePerRound`: however submissions, skips and last chances follow each other, a round of the older runner issues at most one contract |
| `RunProofs!RunStaticRounds` | `RunSpec => []StaticRoundsStartFresh`: static rounds start fresh in every episode of the older runner |
| `RunProofs!LastChanceIsLast` | `RunSpec => []ForcedIsLastChance`: for every budget of turns and any number of rounds: only the last chance goes beyond the budget, by one turn, and only in a round that was neither submitted nor skipped |
| `EnvProofs!EnvDrivesCore` | `EnvSpec => Spec`: every behaviour of the reset/step interface is one of the core, whatever the policy asks for and wherever pricing fails |
| `EnvProofs!EnvBooksBalance` | `EnvSpec => []BooksBalance`: the books balance in every episode driven through the interface |
| `EnvProofs!EnvSettlesOnce` | `EnvSpec => []SettledOnce`: however steps that raised are followed by others, each call settles a contract at most once, and none is settled twice while no step follows one that raised |
| `EnvProofs!AliasesAlwaysMatch` | `EnvSpec => []AliasesMatchQuotes`: for any budgets and rounds, the public aliases name exactly the core's quotes, in both directions |
| `EnvProofs!OffersAreServed` | `EnvSpec => []OfferedActionsAreServed`: for any budgets and rounds, an action that the observation offers is one the core serves |
| `ServicesProofs!ChatBudgetsKept` | `ClientSpec => []ChatKeepsItsBudgets`: for any number of delays, raises, any ceiling and any first budget, network and truncation retries keep to their own counters and every answer is counted |
| `ServicesProofs!CompletedWorkIsKept` | `CollectSpec => CompletedEntriesStay`: for any plan, number of retries and sequence of failures, rate limits and kills, an entry of the collection once complete stays what it is |
| `ServicesProofs!FinishedRunsAreOnDisk` | `CollectSpec => []FinishedRunIsOnDisk`: a collection that got through has served exactly what lies complete on the disk and in the manifest, optional requests apart |
| `ServicesProofs!ConvergedQuotesAreFixed` | `SolverSpec => []ConvergedIsFixedPoint`: for every cap, tolerance, number of levels and of iterations, a quote reported as converged reproduces itself exactly |
| `ServicesProofs!ResultsAreKept` | `BatchSpec => []NoResultLost`: for any number of jobs, settings, commands and kills, no result that was ever written is lost |
| `ServicesProofs!CleanRunsAreComplete` | `BatchSpec => []CleanRunIsComplete`: a run that ended with status 0 has an output of its own for every job it was asked for |
| `LongHorizonProofs!LockedCashBacksContracts` | `Spec => []LockedBacksActive`: for any number of overlapping contracts, settled at maturity, knocked out or dropped at the horizon, the locked cash is what the active ones hold, until a month that raised is run again; the result booked is that of the settlements in either case |
| `LongHorizonProofs!LedgerAlwaysExplains` | `Spec => []LedgerExplainsAccounts`: for any number of rounds and contracts, any hedge results and payoffs, the cash-flow ledger adds up to what both accounts have gained, until a month that raised is run again |
| `LongHorizonProofs!EveryTradeFits` | `Spec => TradesFitRiskCapital`: whatever was lost before, every trade fits the stress and notional limits of the book it joins and the capital there then is |
| `EnvProofs!EnvLedgerExplains` | `EnvSpec => [](LockedBacksActive /\ LedgerExplainsAccounts)`: ledger and locked cash agree with accounts and contracts in every episode driven through the interface, until a step is called after one that raised |
| `EnvProofs!RewardsTelescope` | `EnvSpec => []RewardTelescopes`: for any number of rounds and steps and any schedule of capitals, the rewards of an episode in which no step raised add up to the client's wealth gained, external flows taken out |
| `EnvProofs!KeepsProtocol` | `EnvSpec => Protocol!EpisodeSpec`: every behaviour of the detailed interface is one of the abstract EpisodeProtocol: what the rollout relies on is what the interface does, fairness apart |
| `RunProofs!RunLedgerExplains` | `RunSpec => [](retries = 0 /\ LockedBacksActive /\ LedgerExplainsAccounts)`: ledger and locked cash agree with accounts and contracts at every moment of an episode of the older runner, also when pricing has raised |
| `RunProofs!RunTradesFit` | `RunSpec => TradesFitRiskCapital`: every trade of the older runner fits the limits |
| `RunProofs!FailedOnce` | `RunSpec => []FailuresCountedOnce`: for any budget of turns, a round's trace holds each failed check of a quote once, whatever is quoted and submitted again |
| `RunProofs!TracesTellTheSettlements` | `RunSpec => []TracesTellSettlement`: in a dynamic episode with any number of rounds, budget and sequence of turns, the contracts the traces call accepted are those the core holds open or settled, and the rounds they call submitted are as many as the client remembers |
| `RunProofs!AttainmentIsAtMostOne` | `RunSpec => []AttainmentAtMostOne`: for any finite lattice, markets and books, a voluntary trade never shows more margin than the frontier computed when its round was opened |
| `SuiteProofs!RolloutsAreKept` | `SuiteSpec => []InterruptionsCostOneRollout`: while the command is started again with the same settings, each interruption costs at most one complete rollout; for any number of jobs and interruptions and any directory it started from |
| `SuiteProofs!ManifestIsTrue` | `SuiteSpec => []ManifestTellsTheDisk`: for any number of jobs and any directory, a finished command's manifest counts the partial trajectories that lie on the disk, and manifest, table and aggregate are of the same evaluations, one per job |
| `SuiteProofs!TrajectoriesCanBeSaved` | `RolloutSpec => []TrajectoryCanBeSaved`: whatever the policy answers and wherever it fails, what has been recorded verifies as a trajectory |
| `SuiteProofs!FilesAreWhole` | `RolloutSpec => []FileIsWhole`: wherever the process dies or the disk fails, what stands at the destination is a whole trajectory that verifies, with every step recorded |
| `EnvAgentsProofs!RepeatedJobsReplay` | `EnvAgentsSpec => []ReplaysUntilRepair`: for any episode, number of jobs and models, a later job gets the recorded replies as long as no reply its role remembers was repaired or degraded and no append failed |
| `ServicesProofs!CacheIsRecent` | `SolverSpec => []CacheKeepsRecent`: for every market, sequence of quotes and size of the cache, it holds the prices used last, in that order, each with its probability |
| `ServicesProofs!GradingsAreWhole` | `BatchSpec => []PooledGradingsAreWhole`: for any number of judges, samples and retries, a grading that a report pools is of one result, with one entry of each judge and none by the result's author, whatever was killed or torn |
| `ContractProofs!PrincipalProtected` | `LifeSpec => []PrincipalIsProtected`: for every lattice, every term sheet and every path of spots, a protected contract pays at least its principal however it ends |
| `ContractProofs!PriceIsPaid` | `LifeSpec => []PricedAsSettled`: at issue and after every month, on every path that is left, what is simulated is what month by month observation settles, and what is priced is that too or, for a barrier touched only between two month ends, errs to the side the property says; two cases it names are left out |
| `ContractProofs!AnnouncementsHold` | `LifeSpec => []AnnouncedAsPaid`: for every term sheet and path, an option settles what its payoff table has for that ending, and no capped contract but an up-and-out put pays more than its best case |
| `ContractProofs!FormulasAndPathsAgree` | `LifeSpec => []FormulasTellThePaths`: for every strike and barrier, knock-in and knock-out terms add up to the vanilla option; where the choice has no terms the option pays on no path watched throughout, where it has the vanilla ones it pays like it on all; and the hurdle's spot is the one from which the outcome meets the hurdle |
| `ContractProofs!FrontierReached` | `ASSUME Drafts = Draft, WithinParser PROVE LifeSpec => []FrontierIsReachable`: if the lattice's terms are ones a term sheet may state and a policy may draft any term sheet, each product of the lattice is what the parser makes of some draft, and what is issued is in the lattice |

**Along which argument.**

*Sums and counts.* Many properties speak of folds over sequences or of
cardinalities, or of a recursion over months. The library's induction principles
take an operator as parameter and cannot be instantiated here; `Counting` in
`LedgerProofs` replaces them by an induction over *sets* of numbers, from the
fact that `<` is well-founded: a set with 0 that has n + 1 with each n has all.
From it come the lemmas that say what appending, replacing or removing one
element does to each sum of the model; no proof needs more of a sum than that.

*The core.* `LedgerProofs` shows, for each method of the accounts, that it keeps
an account well-typed and balanced. `LongHorizonProofs` first proves typing
(`TypeInv`: `TypeOK` together with `MonthInv`, that a month is only advanced
before the horizon). Accounts move in only four ways - issue, settle,
reconcile, reset - so one lemma says that every step of the core moves them in
one of these ways or not at all, and each property of the accounts needs four
small steps instead of one per action.

`SettledOnce` and `OneTradePerRound` are not inductive, not even together: that
a contract is not settled a second time depends on where the loop is, and, since a
month that raised can be run again, on which attempt the loop belongs to.
`SettleInv` adds `RoundInv` (ids of contracts and events name rounds up to the
present one, and the present one only once it is submitted, so an id that is
issued is new), `ReachedInv` (what a loop has not reached it has not settled in
this attempt, and between months everything listed is active) and `KeptInv` (what the month's loop keeps are listed, active contracts it has
passed, each once). `StaticInv` adds to `StaticRoundsStartFresh` that a static
round never starts a month's loop. The loop settles contracts that
stay listed until it is over, so `LockedInv` follows both lists: the contracts
it keeps lock what the listed ones it has passed do. It and `LedgerInv`, the sum
of the ledger for each side, hold only until a month that raised is run again,
and say so; `NothingRefused` shows that the account refuses nothing before
that, and `RetriesGrow` that there is no way back. What remains true of a
portfolio after any number of such calls is proved without that condition:
both accounts balance and mirror each other, no call settles a contract
twice, a contract is closed exactly if an event names it, the client's result is
that of its settlements, and every trade fits. A quote that passed fits the state it is bound to
(`QuotesFit`), and by `QuotesStayFresh` that is the state it is executed in.

*The programs above it.* The two that drive the core refine it: `EnvDrivesCore`
and `RunDrivesCore` show that every step of `StructurerEnv` and of `LegacyRun`
is a step of `LongHorizon` or leaves it alone. The core's theorems then hold
under both without a further proof. `RunNeverRepeats` adds what only the older
runner guarantees: it makes no call after one that raised (`OneAttempt`), so for
its episodes the core's conditions on `retries` are met throughout.

`OffersInv` strengthens `AliasesMatchQuotes` with the order of the aliases and
with what `CanStep` implies of the core (the round is not submitted); the step
that asks the desk is where both sides grow, and a lemma of its own.
`RewardInv` says that while a step finishes a round, the rewards add up to the
wealth that `before` remembers from its beginning, as long as no step has raised
(`Unbroken`): the one that did never gave its reward. With `StageInv`, the stages
of the episode and the counters behind them, each step of the interface is one
of `EpisodeProtocol` under the refinement mapping, or a stutter
(`KeepsProtocol`, without the fairness).

`TurnsInv` says of the trace being filled in what its properties need once it is
closed: in the loop every turn used is counted and nothing is submitted or
skipped, and a round that leaves the loop open has used them all. The steps read
only four fields of a trace; one lemma per place that fills it in says that
these are kept. `FailInv` ties the events of a trace to the quotes that failed;
`ToldInv` says the same of contracts and submissions with the round that is
still open, and needs `KeptAll`: a month's loop loses no active contract.
`AttainInv` says that while the model acts the frontier of the round stays what
it was, and every quote that passes is of a product it was taken over.

*Directories and files.* `SuiteInv` adds to `CollectedIsCurrent` that
evaluations are collected in the order of the jobs, so that the files of a job
already collected are not touched again, and that between rolling out a job and
evaluating it, the trajectory on disk is of the command's own policy. `CostInv`
pays for every complete rollout with a job that is done or with an
interruption; `TellingInv` counts failures over the jobs passed so far.
`RolloutInv` says of the recorder that the chain of entries ends in the state
the environment is in. `FilesInv` follows results from their output to where
they are moved aside, `ClaimInv` keeps the claim of a run in progress: each job
it has dealt with, if none failed, has an output of this run; and `JudgeInv`
says that the judges still to be called are the end of the list, and those
before them have one entry each.

*Roles.* `CacheInv` in `EnvAgentsProofs` says why a reply is never stored twice:
from the lookup to the acceptance of a reply, its key stays absent from the
cache, and only a good answer reaches the acceptance. `ReplayInv` adds what a
role's history is made of as long as no reply in it was repaired, that accepted
replies are in memory, and that two jobs that ask the same have the same keys.

*Services.* `ClientInv` ties the loop's two counters to what happened to the
call. `CollectInv` says that a request that was tried and is not served has
no complete entry, that no answer on the disk is newer than the last one
received - so an entry being written cannot look complete by accident - and
that what lies behind the process is served or was optional. `SolverInv` only
adds that no quote counts as converged before there was one: the last step of
the refinement alone sets it, after it has evaluated the price it reports.
`Recent` relates cache and history element by element; a lookup moves the same
element in both, or puts one at the end of both and drops the oldest of the
cache.

*One contract.* `LifeInv` says that what is issued comes from a sound term sheet
and that a contract still alive carries the flags its past spots left.
The recursive end of a path is a function over all months; `ContractProofs`
approximates it by walks of finite length and shows that a walk as long as the
contract's remaining life ends where the recursion does. `PriceIsPaid` then
goes family by family: what the simulation finds by looking at the whole path is
what the flags say at its end. A closed form sees more than that: if it finds
the barrier touched and no month end does, `UntouchedMatures` shows that the
contract is settled as untouched, so the difference has the sign of the
option's kind. The proof turned up a case no instance had contained, a barrier
exactly at the fixing (section 5), which `PricedAsSettled` names.

**From which assumptions.** The constants' assumptions are those the code
enforces when it validates its configuration (`EpisodeAssumption`,
`MoneyAssumption`, `ContractAssumption`, `SpineAssumption`,
`ProtocolAssumption`, `SuiteAssumption`, `EnvAgentsAssumption`, `RunAssumption`,
`BatchAssumption`, `ClientAssumption`, `CollectAssumption`, `SolverAssumption`,
`LifeAssumption`); TLC evaluates them in the runs. Among them: the lattice is
finite and the judges are distinct, as the code's are; a lattice's terms are
what `ProductDomainSpec` accepts and spots are positive.
`FrontierReached` has two hypotheses of its own. `Drafts = Draft`: a policy may
submit any term sheet, of which an instance only enumerates some. And
`WithinParser`: the lattice's terms lie in the ranges of `parse_product_spec`.
`ProductDomainSpec` alone does not say so - it would accept a maturity of a
hundred months, which no policy could draft - but the default lattice is well
within them.

**Only model-checked.** Liveness under fairness (`EpisodeEnds`, `SuiteFinishes`
and the fairness in `KeepsFairProtocol`, whose safety part is `KeepsProtocol`)
and ENABLED are out of the proof system's reach. `FormulasReflect` sums over all
walks of a fixed length, which no theorem generalises: that the reflection
principle holds for every length is an induction over the walk, with an image
under reflection as its step. Every other invariant and action property of the
passing runs has a theorem.

## 5. Where code and documentation disagree

**A repaired reply cannot be replayed** (`conversation_replay`).
`docs/BENCHMARK_PROTOCOL.md:762-767` promises that replaying the same requests
against the same cache file reproduces the same replies without calling a model.
When a reply is repaired, the agent's history keeps the bad reply and the repair
message, while the cache stores only the reply that was accepted. A replay finds
it, so its history is shorter, the next request has another cache key, and a
model is called. `ReplaysUntilRepair` is the part of the promise that holds: a
reply is replayed unless the role still remembers a repaired or degraded one, or
an append to the file failed.

**A knocked-in note that recovers** (`knocked_in_note`). The payoff table shown
with a quote says that a note which matures knocked in is settled by the final
spot, an autocallable at no more than its face (`pricing.py:1325-1328`).
`_position_settlement_amount` looks at the knock-in only below the fixing
(`benchmark.py:808`), and pays the face with the whole coupon otherwise. The
pricers side with the settlement for a snowball and with the table for an
autocallable, so that `PricedAsSettled` leaves out those autocallables.

**A barrier touched between two month ends.** No run refutes a sentence here,
because no document promises otherwise; but price and settlement differ by
design. A barrier option is priced by the closed form for a barrier that is
watched throughout (`pricing.py:668-695`, `745-799`), is settled by the spots of
month ends alone (`benchmark.py:662`). Both `pricing.py:970-971` and
`docs/BENCHMARK_PROTOCOL.md:36-37` call the monthly step an approximation.
`PricedAsSettled` says what follows: the two differ only on paths that touch
the barrier only in between (`TouchedBetween`), and on those a knock-in is
priced for at least what it settles, a knock-out for at most that. What this
comes to in money is the mean over paths, which the model leaves out.

Smaller things met on the way, which no run is about:

- `consult` is documented as never raising, but a desk that cannot price the
  product lets `PricingError` out of it (`benchmark.py:2512`, `2540`).
- `best_case_line` calls every knock-out option capped at its barrier; for an
  up-and-out put the figure is its worst case. `AnnouncedAsPaid` leaves these out.
- A snowball without a barrier is priced as if it had one at 75 %
  (`pricing.py:544`), although its lifecycle never knocks it in. The parser
  accepts such a term sheet; the lattice has none, so the desk does not quote it.
- A barrier exactly at the fixing, which `ProductDomainSpec` accepts, counts as
  touched at issue for the pricers (`tests/test_pricing.py:194`), but observation
  looks at month's ends only (`benchmark.py:662`) and finds it touched when a
  spot reaches it. `PricedAsSettled` leaves these out at issue.
- The bisection may pass by a fixed point that lies on a jump of the measured
  probability. The desk then refuses to quote; it never quotes wrongly.
- `aggregate` checks that the results of a report are of one run, but pools any
  `*.judges.json` it finds (`benchmark_cli.py:1599-1740`): also gradings made of
  results that another run has since replaced, or whose result is gone; a torn
  one makes it raise. What holds of a pooled grading is `PooledGradingsAreWhole`.
- A month that raised and is run again by a further `step()` settles a second
  time what it had settled (section 2). No document promises that a call which
  raised leaves nothing behind, and no driver in the repository calls again.
  `SettledOnce`, `LockedBacksActive` and `LedgerExplainsAccounts` say which of
  their parts survive it.
- A command killed between a trajectory and its summary leaves the old summary
  beside it (`benchmark_cli.py:928`) until the suite is run again.

## 6. What is not modelled, and why

- *Numbers.* Distributions, discounting, Greeks, stress losses, the calibration of
  risk budgets and margins, bootstrap and agreement statistics are floating-point
  computations without state. Where their result steers the program it is a
  choice over a set.
- *Markets and scenarios.* Generation, construction and audit of market data run
  once before an episode; their output is a constant of the model.
- *Text.* Prompts, parsing of JSON and of term sheets' spelling, redaction,
  formatting, the content of hashes. A parser is its verdict, except for
  `parse_product_spec`, whose rules are `TermSheet`.
- *Wrappers* of the environment and the first version's agents keep no state of
  their own.
- *Below a policy*: how a command policy speaks with its process and how a chat
  policy trims its history. Both only change what the policy answers, and
  `AgentRollout` lets it answer anything.
- *Time.* Delays of retries and of the rate limiter: the model keeps that a
  retry happens, not when.
- *Object identity*: why `request_quote` copies its argument, for instance. Values
  of the model are immutable.
- *Concurrency.* `BoundedLRUCache` has a lock; the commands modelled here use it
  from one thread.
