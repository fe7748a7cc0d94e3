---------------------------- MODULE ClosedForms ----------------------------
(***************************************************************************)
(* What stochopia/pricing.py says of a contract without walking its paths: *)
(* the closed form of a barrier option as a combination of four terms, the *)
(* terminal spot at which a vanilla option reaches a client's hurdle, and  *)
(* the payoff table and best case shown with a quote.                      *)
(***************************************************************************)
EXTENDS Payoff

(***************************************************************************)
(* Reiner and Rubinstein's terms A, B, C and D of a barrier option: how    *)
(* often each is added.  A is the vanilla option.                          *)
(***************************************************************************)
Terms(a, b, c, d) == [A |-> a, B |-> b, C |-> c, D |-> d]

VanillaTerms == Terms(1, 0, 0, 0)
NoTerms      == Terms(0, 0, 0, 0)
Plus(x, y)   == [k \in {"A", "B", "C", "D"} |-> x[k] + y[k]]

\* Mutant: the knock-out terms of an up call and an up put are swapped.
KnockOutTermsSwapped(direction, call, high) ==
  CASE direction = "down" /\ call   -> IF high THEN Terms(1, 0, -1, 0) ELSE Terms(0, 1, 0, -1)
    [] direction = "up" /\ ~ call   -> IF high THEN NoTerms            ELSE Terms(1, -1, 1, -1)
    [] direction = "down" /\ ~ call -> IF high THEN Terms(1, -1, 1, -1) ELSE NoTerms
    [] direction = "up" /\ call     -> IF high THEN Terms(0, 1, 0, -1) ELSE Terms(1, 0, -1, 0)

\* barrier_option; high says that the strike is not below the barrier.
KnockInTerms(direction, call, high) ==
  CASE direction = "down" /\ call   -> IF high THEN Terms(0, 0, 1, 0) ELSE Terms(1, -1, 0, 1)
    [] direction = "up" /\ call     -> IF high THEN VanillaTerms       ELSE Terms(0, 1, -1, 1)
    [] direction = "down" /\ ~ call -> IF high THEN Terms(0, 1, -1, 1) ELSE VanillaTerms
    [] direction = "up" /\ ~ call   -> IF high THEN Terms(1, -1, 0, 1) ELSE Terms(0, 0, 1, 0)

KnockOutTerms(direction, call, high) ==
  CASE direction = "down" /\ call   -> IF high THEN Terms(1, 0, -1, 0) ELSE Terms(0, 1, 0, -1)
    [] direction = "up" /\ call     -> IF high THEN NoTerms            ELSE Terms(1, -1, 1, -1)
    [] direction = "down" /\ ~ call -> IF high THEN Terms(1, -1, 1, -1) ELSE NoTerms
    [] direction = "up" /\ ~ call   -> IF high THEN Terms(0, 1, 0, -1) ELSE Terms(1, 0, -1, 0)

\* Mutant: the two sides of the strike are confused, in all the formulas.
BarrierTermsMirrored(p) ==
  LET t    == p.terms
      high == t.strike <= t.barrier
  IN  CASE AlreadyTouched(p) -> IF t.kind = "knock_in" THEN VanillaTerms ELSE NoTerms
        [] ~ AlreadyTouched(p) /\ Remaining(p) = 0
             -> IF t.kind = "knock_in" THEN NoTerms ELSE VanillaTerms
        [] OTHER -> IF t.kind = "knock_in" THEN KnockInTerms(Direction(t), IsCall(t), high)
                    ELSE KnockOutTerms(Direction(t), IsCall(t), high)

\* What was touched before the valuation needs no formula.
BarrierTerms(p) ==
  LET t    == p.terms
      high == t.strike >= t.barrier
  IN  CASE AlreadyTouched(p) -> IF t.kind = "knock_in" THEN VanillaTerms ELSE NoTerms
        [] ~ AlreadyTouched(p) /\ Remaining(p) = 0
             -> IF t.kind = "knock_in" THEN NoTerms ELSE VanillaTerms
        [] OTHER -> IF t.kind = "knock_in" THEN KnockInTerms(Direction(t), IsCall(t), high)
                    ELSE KnockOutTerms(Direction(t), IsCall(t), high)

(***************************************************************************)
(* What each term stands for, at a last spot: the option, or the option    *)
(* beyond the barrier, at that spot (A and B) or at its image in the       *)
(* barrier (C and D).  The code weighs spots by the normal distribution;   *)
(* which of them a term counts, and with which sign, is the same for any.  *)
(***************************************************************************)
Image(t, last) == 2 * t.barrier - last

TermCash(t, last) ==
  LET phi(x) == IF IsCall(t) THEN x ELSE - x
      eta(x) == IF Direction(t) = "down" THEN x ELSE - x
      worth(spot) == phi(spot - t.strike)
      image == Image(t, last)
  IN  Terms(Positive(worth(last)),
            IF phi(last - t.barrier) > 0 THEN worth(last) ELSE 0,
            IF eta(image - t.strike) > 0 THEN worth(image) ELSE 0,
            IF eta(image - t.barrier) > 0 THEN worth(image) ELSE 0)

-----------------------------------------------------------------------------
(* hurdle_hit_prob for a vanilla option: the terminal spots that reach the *)
(* hurdle are those beyond one of them.  Amounts are times 1200, so that   *)
(* the return required for some months stays whole.                        *)

Required(p, price, hurdle) == price * (1200 + hurdle * Remaining(p))

\* What the option must pay beyond the protected floor.
Excess(p, price, hurdle) == Required(p, price, hurdle) - 1200 * Protection(p.terms)

\* The spot at which the option pays it is strike + excess / participation for
\* a call and strike - excess / participation for a put.
ReachesHurdle(p, price, hurdle, spot) ==
  LET t      == p.terms
      excess == Excess(p, price, hurdle)
      worth  == 1200 * 12 * t.participation
  IN  \/ excess <= 0
      \/ IsCall(t) /\ worth * (spot - t.strike) >= excess
      \/ ~ IsCall(t) /\ worth * t.strike > excess /\ worth * (t.strike - spot) >= excess

-----------------------------------------------------------------------------
(* What is shown with a quote.                                             *)

\* Mutant: the columns of an option that knocks in are those of one that
\* knocks out.
TabledOptionOneWay(t, spot, touched) ==
  LET floor == IF t.protected THEN Par ELSE 0
  IN  IF t.family \in Vanilla \/ ~ touched
      THEN floor + OptionCash(t, spot) ELSE floor

\* A row of build_payoff_table for an option: the terminal spot and whether
\* the barrier was touched.
TabledOption(t, spot, touched) ==
  LET floor == IF t.protected THEN Par ELSE 0
  IN  IF t.family \in Vanilla \/ (t.kind = "knock_in" <=> touched)
      THEN floor + OptionCash(t, spot) ELSE floor

\* Its lines for a note: called in some month, never knocked in, knocked in.
TabledNote(p) ==
  CASE p.status = "autocalled" -> WithCoupon(p.terms, p.elapsed)
    [] p.status = "matured" /\ ~ p.knocked_in -> WithCoupon(p.terms, p.terms.months)
    [] p.status = "matured" /\ p.knocked_in ->
         IF p.terms.family = "snowball" THEN Tracking(p.spot) ELSE Min({Tracking(p.spot), Par})

Tabled(p) ==
  IF p.terms.family \in Notes THEN TabledNote(p)
  ELSE TabledOption(p.terms, p.spot, p.touched)

\* best_case_line: a knock-out option is said to be capped at its barrier,
\* a note at its coupon.  Nothing caps the others.
Capped(t) == t.family \in Notes \/ (t.family \in BarrierOptions /\ t.kind = "knock_out")

BestCase(t) ==
  IF t.family \in Notes THEN WithCoupon(t, t.months)
  ELSE Protection(t) + OptionCash(t, t.barrier)

=============================================================================
