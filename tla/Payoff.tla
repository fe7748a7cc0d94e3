------------------------------- MODULE Payoff -------------------------------
(***************************************************************************)
(* What a contract pays, told three times: by the lifecycle of             *)
(* stochopia/benchmark.py, month by month; by the simulations of           *)
(* stochopia/pricing.py, path by path, which price the notes and give the  *)
(* risk figures of the options; and by the closed forms there, which price *)
(* the options and watch a barrier at every instant.                       *)
(*                                                                         *)
(* Spots are percentages of the issue fixing, where every level of a       *)
(* contract is anchored; an amount is in 1/120000 of the face value, so    *)
(* that coupons by the month and participations stay whole.  A path is the *)
(* sequence of spots still to come.  Probabilities and discounting are     *)
(* left out: a simulation's result is the mean of what it counts on each   *)
(* path, and a closed form is the limit of such a mean.                    *)
(***************************************************************************)
EXTENDS TermSheet, Sequences, FiniteSetsExt

Fixing == 100
Par == 120000

Positive(x) == IF x > 0 THEN x ELSE 0

\* Redemption with the coupon of so many months; a multiple of the spot.
WithCoupon(t, months) == 100 * (1200 + t.coupon * months)
Tracking(spot) == 1200 * spot

OptionCash(t, spot) ==
  12 * t.participation * Positive(IF IsCall(t) THEN spot - t.strike ELSE t.strike - spot)

Protection(t) == Par * ProtectedShare(t)

\* _barrier_is_touched, with the direction fixed at issue.
Touches(t, spot) ==
  /\ t.barrier # Absent
  /\ IF Direction(t) = "down" THEN spot <= t.barrier ELSE spot >= t.barrier

AutocallLevel(t) == IF t.family = "snowball" THEN 103 ELSE 105

-----------------------------------------------------------------------------
(* The lifecycle: a contract and one month's observation of it.            *)

\* A contract as issued: what the fixing itself touches is not looked at.
Issued(t) ==
  [ terms |-> t, elapsed |-> 0, spot |-> Fixing,
    touched |-> FALSE, knocked_in |-> FALSE, status |-> "active" ]

Remaining(p) == p.terms.months - p.elapsed

\* A knock-out ends only the option: a protected contract lives on.
NextStatus(p, spot) ==
  LET called == p.terms.family \in Notes /\ spot >= AutocallLevel(p.terms)
      out    == /\ p.terms.family \in BarrierOptions /\ p.terms.kind = "knock_out"
                /\ Touches(p.terms, spot) /\ ~ p.terms.protected
  IN  CASE called -> "autocalled"
        [] out    -> "knocked_out"
        [] ~ called /\ ~ out /\ Remaining(p) <= 1 -> "matured"
        [] OTHER  -> "active"

\* Options knock in at their barrier, notes whenever the spot is below it.
KnocksIn(t, spot) ==
  \/ t.family \in BarrierOptions /\ t.kind = "knock_in" /\ Touches(t, spot)
  \/ t.family \in Notes /\ t.barrier # Absent /\ spot <= t.barrier

\* _process_position_observation
ObserveMonth(p, spot) ==
  [ p EXCEPT !.elapsed    = @ + 1,
             !.spot       = spot,
             !.touched    = @ \/ Touches(p.terms, spot),
             !.knocked_in = @ \/ KnocksIn(p.terms, spot),
             !.status     = NextStatus(p, spot) ]

OptionAlive(t, touched) ==
  \/ t.family \in Vanilla
  \/ t.kind = "knock_out" /\ ~ touched
  \/ t.kind = "knock_in" /\ touched
  \/ t.kind = "absent"

\* Mutant: an option that is not alive pays nothing at all.
MaturityOfOptionOnly(p) ==
  IF OptionAlive(p.terms, p.touched)
  THEN Protection(p.terms) + OptionCash(p.terms, p.spot) ELSE 0

MaturityOfOption(p) ==
  Protection(p.terms)
    + (IF OptionAlive(p.terms, p.touched) THEN OptionCash(p.terms, p.spot) ELSE 0)

\* Only a knocked-in note that ends below its fixing loses.
MaturityOfNote(p) ==
  IF p.knocked_in /\ ~ (p.terms.family = "autocallable" /\ p.terms.protected) /\ p.spot < Fixing
  THEN Tracking(p.spot) ELSE WithCoupon(p.terms, p.terms.months)

\* _position_settlement_amount, of a contract no longer active.
Settlement(p) ==
  CASE p.status = "knocked_out" -> Protection(p.terms)
    [] p.status = "autocalled"  -> WithCoupon(p.terms, p.elapsed)
    [] p.status = "matured"     -> IF p.terms.family \in Notes THEN MaturityOfNote(p)
                                   ELSE MaturityOfOption(p)

\* The contract at the end of a path: what is no longer active is not observed.
AtEnd(p, path) ==
  LET after[m \in 0 .. Len(path)] ==
        IF m = 0 THEN p
        ELSE IF after[m - 1].status # "active" THEN after[m - 1]
        ELSE ObserveMonth(after[m - 1], path[m])
  IN  after[Len(path)]

-----------------------------------------------------------------------------
(* The simulations, on one path of month ends.                             *)

Last(p, path) == IF path = << >> THEN p.spot ELSE path[Len(path)]
Seen(p, path) == {p.spot} \cup { path[m] : m \in DOMAIN path }

\* The month that calls a note, 0 when none does.
CalledIn(p, path) ==
  LET hits == { m \in DOMAIN path : path[m] >= AutocallLevel(p.terms) }
  IN  IF hits = {} THEN 0 ELSE Min(hits)

\* A snowball without a barrier is priced as if it had one at 75.
NoteBarrier(t) ==
  IF t.family = "snowball" /\ t.barrier = Absent THEN 75 ELSE t.barrier

\* Knocked in before, now, or on the path.
NoteKnockedIn(p, path) ==
  \/ p.knocked_in
  \/ NoteBarrier(p.terms) # Absent /\ Min(Seen(p, path)) <= NoteBarrier(p.terms)

\* Mutant: the coupon is paid for the months simulated, not since issue.
NoteCashflowSimulated(p, path) ==
  LET t    == p.terms
      last == Last(p, path)
      lost == NoteKnockedIn(p, path)
  IN  CASE CalledIn(p, path) > 0 -> WithCoupon(t, CalledIn(p, path))
        [] CalledIn(p, path) = 0 /\ t.family = "snowball" /\ lost /\ last < Fixing -> Tracking(last)
        [] CalledIn(p, path) = 0 /\ t.family = "autocallable" /\ lost /\ ~ t.protected
             -> Min({Tracking(last), Par})
        [] OTHER -> WithCoupon(t, t.months)

\* _mc_stats
NoteCashflow(p, path) ==
  LET t    == p.terms
      last == Last(p, path)
      lost == NoteKnockedIn(p, path)
  IN  CASE CalledIn(p, path) > 0 -> WithCoupon(t, p.elapsed + CalledIn(p, path))
        [] CalledIn(p, path) = 0 /\ t.family = "snowball" /\ lost /\ last < Fixing -> Tracking(last)
        [] CalledIn(p, path) = 0 /\ t.family = "autocallable" /\ lost /\ ~ t.protected
             -> Min({Tracking(last), Par})
        [] OTHER -> WithCoupon(t, t.months)

\* Pricing and simulation look at the current spot too.
AlreadyTouched(p) == p.touched \/ Touches(p.terms, p.spot)

TouchedOn(p, path) == AlreadyTouched(p) \/ \E m \in DOMAIN path : Touches(p.terms, path[m])

\* A missing kind of barrier counts as knock_out.
OptionCashIf(touched, p, path) ==
  LET t     == p.terms
      alive == \/ t.family \in Vanilla
               \/ IF t.kind = "knock_in" THEN touched ELSE ~ touched
  IN  Protection(t) + (IF alive THEN OptionCash(t, Last(p, path)) ELSE 0)

\* _mc_vanilla_barrier_stats and _mc_hit_prob, which look at month ends.
OptionCashflow(p, path) == OptionCashIf(TouchedOn(p, path), p, path)

PathCashflow(p, path) ==
  IF p.terms.family \in Notes THEN NoteCashflow(p, path) ELSE OptionCashflow(p, path)

(***************************************************************************)
(* What the price is the price of.  barrier_option's closed form assumes   *)
(* that the spot moves continuously and is watched throughout: beside the  *)
(* month ends a path has an extreme, the spot furthest toward the barrier  *)
(* before maturity.                                                        *)
(***************************************************************************)
TouchedBetween(p, path, extreme) ==
  p.terms.family \in BarrierOptions /\ ~ TouchedOn(p, path) /\ Touches(p.terms, extreme)

\* price_product: notes by simulation, options by closed form.
PricedCashflow(p, path, extreme) ==
  IF p.terms.family \in Notes THEN NoteCashflow(p, path)
  ELSE OptionCashIf(TouchedOn(p, path) \/ Touches(p.terms, extreme), p, path)

\* _mc_hit_prob: the same cash, with the months it takes to come.
PathOutcome(p, path) ==
  [ cash   |-> PathCashflow(p, path),
    months |-> IF p.terms.family \in Notes /\ CalledIn(p, path) > 0
               THEN CalledIn(p, path) ELSE Remaining(p) ]

\* (cash - price) / price * 12 / months >= hurdle per cent
MeetsHurdle(outcome, price, hurdle) ==
  1200 * (outcome.cash - price) >= hurdle * price * outcome.months

=============================================================================
