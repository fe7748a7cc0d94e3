---------------------------- MODULE ContractLife ----------------------------
(***************************************************************************)
(* The life of one contract: a policy drafts a term sheet, the parser and  *)
(* the lattice accept or refuse it, it is issued and then observed once a  *)
(* month until it is knocked out, called or matured and is settled         *)
(* (stochopia/products.py, and the positions of stochopia/benchmark.py).   *)
(* At every month what is priced and simulated of it is held against what  *)
(* is still to come.                                                       *)
(***************************************************************************)
EXTENDS ClosedForms

CONSTANTS
  Domain,   \* the ProductDomainSpec of the lattice
  Drafts,   \* the term sheets a policy may submit
  Spots,    \* what a month's spot may be, in per cent of the fixing
  Prices,   \* issue prices for which hurdles are asked, in Par's unit
  Hurdles   \* returns a client may require, in per cent per year

ASSUME LifeAssumption ==
  /\ Domain \in DomainSpec
  /\ Drafts \subseteq Draft
  /\ Spots \subseteq Nat \ {0}
  /\ Prices \subseteq Nat \ {0}
  /\ Hurdles \subseteq Nat

VARIABLES
  stage,     \* "drafting", "refused", "issued" or "settled"
  contract,  \* the contract once it is issued
  paid       \* what its settlement paid

life == <<stage, contract, paid>>

None == "none"

Signatures == { Signature(c) : c \in Lattice(Domain) }

\* The drafts a desk can quote: parsed, and in the lattice.
Quotable(draft) ==
  /\ Parses(draft)
  /\ Signature(Parsed(draft)) \in Signatures

-----------------------------------------------------------------------------
LifeInit ==
  /\ stage = "drafting"
  /\ contract = None
  /\ paid = 0

Refuse(draft) ==
  /\ stage = "drafting"
  /\ ~ Quotable(draft)
  /\ stage' = "refused"
  /\ UNCHANGED <<contract, paid>>

Issue(draft) ==
  /\ stage = "drafting"
  /\ Quotable(draft)
  /\ stage' = "issued"
  /\ contract' = Issued(Parsed(draft))
  /\ UNCHANGED paid

\* A month that leaves the contract alive, and one that ends and settles it.
Live(spot) ==
  /\ stage = "issued"
  /\ contract' = ObserveMonth(contract, spot)
  /\ contract'.status = "active"
  /\ UNCHANGED <<stage, paid>>

Settle(spot) ==
  LET closed == ObserveMonth(contract, spot)
  IN  /\ stage = "issued"
      /\ closed.status # "active"
      /\ contract' = closed
      /\ paid' = Settlement(closed)
      /\ stage' = "settled"

LifeNext ==
  \/ \E draft \in Drafts : Refuse(draft) \/ Issue(draft)
  \/ \E spot \in Spots : Live(spot) \/ Settle(spot)

LifeSpec == LifeInit /\ [][LifeNext]_life

-----------------------------------------------------------------------------
(* Properties.                                                             *)

Paths == [1 .. Remaining(contract) -> Spots]

\* An autocallable that was knocked in and ends at or above its fixing.
EndsAbovePar(p) ==
  p.terms.family = "autocallable" /\ p.status = "matured" /\ p.knocked_in /\ p.spot >= Fixing

\* A contract just issued whose barrier is its fixing.
IssuedAtBarrier(p) == p.elapsed = 0 /\ p.terms.barrier = Fixing

\* The price errs on one side: at issue and after every month, whatever path
\* the spot then takes, what is simulated of a contract is what observing it
\* month by month settles, although one looks at the whole path from the current
\* spot and the other keeps flags; and what is priced is that too, except that a
\* barrier option touched only between two month ends is priced as touched and
\* settled as untouched, so that a knock-in never settles more than it was priced
\* for and a knock-out never less (_mc_stats, _mc_vanilla_barrier_stats and
\* price_product against _process_position_observation and
\* _position_settlement_amount).  Two more cases are left out: a knocked-in
\* autocallable that ends above its fixing, and an option whose barrier is its
\* fixing, which pricing finds touched at issue and observation does not.
PricedAsSettled ==
  stage = "issued" =>
    \A path \in Paths :
       LET end     == AtEnd(contract, path)
           settled == Settlement(end)
       IN  ~ EndsAbovePar(end) /\ ~ IssuedAtBarrier(contract) =>
             /\ PathCashflow(contract, path) = settled
             /\ \A extreme \in Spots :
                  LET priced == PricedCashflow(contract, path, extreme)
                  IN  IF ~ TouchedBetween(contract, path, extreme) THEN priced = settled
                      ELSE IF contract.terms.kind = "knock_in" THEN priced >= settled
                      ELSE priced <= settled

\* A contract that promises its principal pays at least that, whether it is
\* called, knocked out or matures.
PrincipalIsProtected ==
  stage = "settled" /\ contract.terms.protected => paid >= Par

\* What is priced by formula agrees with the paths: a knock-in and a
\* knock-out option add up to the vanilla one, an option for which the
\* formula has no terms pays on no path, watched throughout, and one for which
\* it is the vanilla option pays like it on all; the spot from which hurdle_hit_prob counts a
\* vanilla option as a hit is the one from which its outcome meets the hurdle.
FormulasTellThePaths ==
  /\ \A direction \in {"up", "down"}, call, high \in BOOLEAN :
       Plus(KnockInTerms(direction, call, high), KnockOutTerms(direction, call, high)) = VanillaTerms
  /\ stage = "issued" =>
       LET t == contract.terms
       IN  /\ t.family \in BarrierOptions =>
                \A path \in Paths, extreme \in Spots :
                   LET option == PricedCashflow(contract, path, extreme) - Protection(t)
                   IN  /\ BarrierTerms(contract) = NoTerms => option = 0
                       /\ BarrierTerms(contract) = VanillaTerms =>
                            option = OptionCash(t, Last(contract, path))
           /\ t.family \in Vanilla =>
                \A path \in Paths, price \in Prices, hurdle \in Hurdles :
                   ReachesHurdle(contract, price, hurdle, Last(contract, path))
                     <=> MeetsHurdle(PathOutcome(contract, path), price, hurdle)

\* The formulas are those of the reflection principle: on the walks that
\* go up or down by the distance to the barrier with equal chance, the terms
\* added for an option come to what it pays on the walks its barrier leaves it
\* alive on, whichever side of the barrier the strike is on.  The lattice has
\* knock-ins below and knock-outs above the fixing; the formulas of the others
\* are what these leave of the vanilla option (barrier_option).
FormulasReflect ==
  stage = "issued" /\ contract.terms.family \in BarrierOptions =>
    LET t     == contract.terms
        gap   == t.barrier - contract.spot
        Walks == [1 .. 4 -> {gap, - gap}]
        At(walk, m)   == contract.spot + MapThenSumSet(LAMBDA k : walk[k], 1 .. m)
        Touched(walk) == AlreadyTouched(contract) \/ \E m \in 1 .. 4 : Touches(t, At(walk, m))
        Cash(walk)    == IF Touched(walk) <=> t.kind = "knock_in"
                         THEN TermCash(t, At(walk, 4)).A ELSE 0
        Sum(Value(_)) == MapThenSumSet(Value, Walks)
        terms         == BarrierTerms(contract)
        Formula(walk) == LET cash == TermCash(t, At(walk, 4))
                         IN  MapThenSumSet(LAMBDA k : terms[k] * cash[k], DOMAIN terms)
    IN  Sum(Formula) = Sum(Cash)

\* The oracle compares a policy with products the policy could have had: each
\* of the lattice is what the parser makes of some draft, and a contract that
\* is issued is one of them (enumerate_domain, parse_product_spec and
\* validate_domain, which meet only in a signature).
FrontierIsReachable ==
  IF stage = "drafting"
  THEN Signatures \subseteq { Signature(Parsed(draft)) : draft \in { d \in Drafts : Parses(d) } }
  ELSE stage = "issued" => Signature(contract.terms) \in Signatures /\ ClaimConsistent(contract.terms)

\* What is shown with a quote is what happens: an option settles what its
\* payoff table has for its terminal spot in the column its barrier leaves it
\* in, and no path of a contract said to be capped pays more than its best
\* case (build_payoff_table, best_case_line); up-and-out puts, whose cap is
\* their worst case, left out.
AnnouncedAsPaid ==
  /\ stage = "settled" /\ contract.terms.family \notin Notes => paid = Tabled(contract)
  /\ stage = "issued" =>
       LET t == contract.terms
       IN  Capped(t) /\ ~ (t.family = "barrier_put" /\ Direction(t) = "up") =>
             \A path \in Paths : PathCashflow(contract, path) <= BestCase(t)

\* A note settles what its payoff table announced for the way it ended: called,
\* never knocked in, or knocked in (build_payoff_table).  The code breaks it.
NotesSettleAsTabled ==
  stage = "settled" /\ contract.terms.family \in Notes => paid = Tabled(contract)

=============================================================================
