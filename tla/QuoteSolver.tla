----------------------------- MODULE QuoteSolver -----------------------------
(***************************************************************************)
(* The quote equilibrium of stochopia/pricing.py, solve_quote_equilibrium, *)
(* behind the desk's cache of hurdle probabilities.                        *)
(*                                                                         *)
(* The price of an option the client pays for depends on how likely it is  *)
(* to reach the client's hurdle, and that on the price.  The probability   *)
(* is measured on a finite sample of paths, so it is a step function of    *)
(* the price: here a level, and each level asks for one price.  A dearer   *)
(* option reaches the hurdle no more often, and a level further down asks  *)
(* for no higher price.                                                    *)
(*                                                                         *)
(* Prices are whole numbers from the fair value, 0, to the cap; halving an *)
(* interval rounds down.  Several quotes are solved with one cache.        *)
(***************************************************************************)
EXTENDS PriceCache

CONSTANTS
  Cap,            \* notional * client_cap above the fair value
  Levels,         \* the probabilities the sample can yield: 0 .. Levels
  Tolerance,      \* price_tolerance
  MaxIterations,  \* max_iterations
  Refinements,    \* the refinement's range(16)
  CacheSize,      \* BoundedLRUCache.maxsize
  Quotes          \* bound: quotes solved in a behaviour

ASSUME SolverAssumption == /\ Cap \in Nat \ {0}
                           /\ Levels \in Nat
                           /\ Tolerance \in Nat \ {0}
                           /\ MaxIterations \in Nat \ {0}
                           /\ Refinements \in Nat \ {0}
                           /\ CacheSize \in Nat \ {0}
                           /\ Quotes \in Nat

Price == 0 .. Cap
Level == 0 .. Levels

\* What a market may be: how often the sample reaches the hurdle at a price,
\* and the price that is then asked.
Samples == { f \in [Price -> Level] : \A a, b \in Price : a <= b => f[a] >= f[b] }
Markups == { f \in [Level -> Price] : \A a, b \in Level : a <= b => f[a] <= f[b] }

VARIABLES
  solving,      \* where the solver is
  market,       \* [probability, asked]
  quotes_left,  \* quotes that may still be asked for
  lower, upper, midpoint,
  residual,     \* midpoint_residual
  iterations,   \* of the loop at hand
  anchor,       \* anchor_price
  outcome,      \* price, probability and convergence of the last quote
  cache,        \* _HURDLE_CACHE of this market's structure
  uses          \* history: the keys in the order they were last used

bracket == <<lower, upper, midpoint, residual>>
caching == <<cache, uses>>
solver == <<solving, market, quotes_left, bracket, iterations, anchor, outcome, caching>>

Probability(price) == market.probability[price]
Asked(probability) == market.asked[probability]
Distance(a, b) == IF a < b THEN b - a ELSE a - b
NoQuote == [price |-> 0, probability |-> 0, converged |-> FALSE]

\* _cached_hurdle: hit, or compute and store.
Lookup(c, price) ==
  IF Holds(c, price) THEN Touch(c, price)
  ELSE Store(c, price, Probability(price), CacheSize)

\* A price used again moves to the end of the history.
Used(order, price) ==
  LET before == { i \in DOMAIN order : order[i] = price }
  IN  Append(IF before = {} THEN order ELSE RemoveAt(order, CHOOSE i \in before : TRUE), price)

\* The solver evaluates at a price, or at two, one after the other.
Evaluate(price) ==
  /\ cache' = Lookup(cache, price)
  /\ uses' = Used(uses, price)

EvaluateBoth(first, second) ==
  /\ cache' = Lookup(Lookup(cache, first), second)
  /\ uses' = Used(Used(uses, first), second)

SolverInit ==
  /\ solving = "idle"
  /\ market = [ probability |-> [p \in Price |-> 0], asked |-> [l \in Level |-> 0] ]
  /\ quotes_left = Quotes
  /\ lower = 0 /\ upper = Cap /\ midpoint = 0
  /\ residual = 0
  /\ iterations = 0
  /\ anchor = 0
  /\ outcome = NoQuote
  /\ cache = << >>
  /\ uses = << >>

\* Another market is another structure key: nothing cached is found again.
Quoted ==
  /\ solving = "idle"
  /\ quotes_left = Quotes
  /\ Quotes > 0
  /\ \E probability \in Samples, asking \in Markups :
       market' = [probability |-> probability, asked |-> asking]
  /\ solving' = "bracketing"
  /\ quotes_left' = quotes_left - 1
  /\ lower' = 0 /\ upper' = Cap
  /\ iterations' = 0
  /\ UNCHANGED <<midpoint, residual, anchor, outcome, caching>>

\* The same product is quoted again: the cache still knows some prices.
QuotedAgain ==
  /\ solving = "idle"
  /\ quotes_left \in 1 .. Quotes - 1
  /\ solving' = "bracketing"
  /\ quotes_left' = quotes_left - 1
  /\ lower' = 0 /\ upper' = Cap
  /\ iterations' = 0
  /\ UNCHANGED <<market, midpoint, residual, anchor, outcome, caching>>

\* The residual at both ends has to have the right sign; as the markup is
\* clipped to the cap it always has.
Bracket ==
  /\ solving = "bracketing"
  /\ EvaluateBoth(lower, upper)
  /\ Asked(Probability(lower)) - lower >= - Tolerance
  /\ Asked(Probability(upper)) - upper <= Tolerance
  /\ solving' = "halving"
  /\ UNCHANGED <<market, quotes_left, bracket, iterations, anchor, outcome>>

Halve ==
  LET mid   == (lower + upper) \div 2
      miss  == Asked(Probability(mid)) - mid
      found == Distance(miss, 0) <= Tolerance /\ upper - lower <= 2 * Tolerance
      ended == found \/ iterations + 1 = MaxIterations
  IN  /\ solving = "halving"
      /\ Evaluate(mid)
      /\ midpoint' = mid
      /\ residual' = miss
      /\ lower' = IF ~ found /\ miss > 0 THEN mid ELSE lower
      /\ upper' = IF ~ found /\ miss <= 0 THEN mid ELSE upper
      /\ solving' = IF ended THEN "refining" ELSE "halving"
      /\ iterations' = IF ended THEN 0 ELSE iterations + 1
      /\ anchor' = IF ended THEN Asked(Probability(mid)) ELSE anchor
      /\ UNCHANGED <<market, quotes_left, outcome>>

\* Mutant: the probability at the price that is returned is not looked at.
ReproducesPriceOnly(at, price) == Distance(price, at) <= Tolerance

\* The price is within the tolerance and its probability is the one it was
\* computed from.
Reproduces(at, price) ==
  Distance(price, at) <= Tolerance /\ Probability(price) = Probability(at)

Refine ==
  LET price == Asked(Probability(anchor))
      fixed == Reproduces(anchor, price)
      ended == fixed \/ iterations + 1 = Refinements
  IN  /\ solving = "refining"
      /\ EvaluateBoth(anchor, price)
      /\ anchor' = IF fixed THEN anchor ELSE price
      /\ iterations' = IF ended THEN 0 ELSE iterations + 1
      /\ solving' = IF ended THEN "idle" ELSE "refining"
      /\ outcome' = IF ended
                    THEN [ price       |-> price,
                           probability |-> Probability(price),
                           converged   |-> fixed /\ Distance(residual, 0) <= Tolerance ]
                    ELSE outcome
      /\ UNCHANGED <<market, quotes_left, bracket>>

SolverNext == Quoted \/ QuotedAgain \/ Bracket \/ Halve \/ Refine

SolverSpec == SolverInit /\ [][SolverNext]_solver

-----------------------------------------------------------------------------
\* A quote that is reported as converged reproduces itself exactly: pricing
\* the product with the probability measured at the quoted price asks for the
\* quoted price, although the search stopped at a tolerance and the measured
\* probability jumps (the desk refuses a quote that did not converge).
ConvergedIsFixedPoint ==
  outcome.converged => /\ Asked(Probability(outcome.price)) = outcome.price
                       /\ outcome.probability = Probability(outcome.price)

\* However quotes follow each other, the cache holds exactly the prices used
\* last, in that order and never more than its size, each with the
\* probability that was measured there (BoundedLRUCache, _cached_hurdle).
CacheKeepsRecent ==
  LET kept == IF Len(uses) < CacheSize THEN Len(uses) ELSE CacheSize
  IN  /\ Keys(cache) = SubSeq(uses, Len(uses) - kept + 1, Len(uses))
      /\ \A i \in DOMAIN cache : cache[i].value = Probability(cache[i].key)

=============================================================================
