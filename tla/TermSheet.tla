------------------------------ MODULE TermSheet ------------------------------
(***************************************************************************)
(* Term sheets: what parse_product_spec (stochopia/products.py) accepts    *)
(* from a policy, what it makes of it, and the finite lattice of products  *)
(* the desk quotes and the oracle enumerates (stochopia/benchmark.py).     *)
(*                                                                         *)
(* Percentages are integers, a field left out is Absent.  Notional and     *)
(* face value only ever matter through their ratio: `face` says whether a  *)
(* draft repeats the notional as its face value or names another one.      *)
(***************************************************************************)
EXTENDS Integers, FiniteSets

Absent == -1

Vanilla        == {"vanilla_call", "vanilla_put"}
BarrierOptions == {"barrier_call", "barrier_put"}
Notes          == {"autocallable", "snowball"}
Families       == Vanilla \cup BarrierOptions \cup Notes

IsCall(t) == t.family \in {"vanilla_call", "barrier_call"}

\* What a policy may write; notional, client and texts are left out.
Draft ==
  [ family : Families, months : Nat, strike : Nat, barrier : Nat \cup {Absent},
    kind : {"knock_in", "knock_out", "absent"}, direction : {"up", "down", "absent"},
    coupon : Nat \cup {Absent}, participation : Nat, protected : BOOLEAN,
    funding : {"premium_paid", "funded_note", "absent"}, face : {"notional", "other"} ]

-----------------------------------------------------------------------------
(* parse_product_spec.                                                     *)

InRange(d) ==
  /\ d.months \in 1 .. 60
  /\ d.strike \in 1 .. 1000
  /\ d.barrier # Absent => d.barrier \in 1 .. 1000
  /\ d.coupon # Absent => d.coupon \in 0 .. 500
  /\ d.participation \in 1 .. 1000

BarrierStated(d) ==
  /\ d.barrier = Absent <=> d.kind = "absent"
  /\ d.direction # "absent" => d.family \in BarrierOptions /\ d.barrier # Absent

\* A note is redeemed from its face, pays a coupon and has no leverage.
NoteStated(d) ==
  d.family \in Notes => d.coupon # Absent /\ d.participation = 100 /\ d.face = "notional"

\* An autocallable either protects its principal or has a barrier to lose it by.
LossStated(d) ==
  d.family = "autocallable" =>
    /\ d.protected <=> d.barrier = Absent
    /\ d.barrier # Absent => d.kind = "knock_in" /\ d.barrier < 100

Parses(d) == InRange(d) /\ BarrierStated(d) /\ NoteStated(d) /\ LossStated(d)

\* The direction is fixed at issue, from the side of the fixing it is on.
Direction(t) ==
  CASE t.direction # "absent" -> t.direction
    [] t.direction = "absent" /\ t.barrier = Absent -> "absent"
    [] OTHER                  -> IF t.barrier <= 100 THEN "down" ELSE "up"

\* ProductSpec.effective_funding_style
Funding(t) ==
  CASE t.funding # "absent" -> t.funding
    [] OTHER -> IF t.protected \/ t.family \in Notes THEN "funded_note" ELSE "premium_paid"

Parsed(d) ==
  [ d EXCEPT !.direction = IF d.family \in BarrierOptions THEN Direction(d) ELSE "absent",
             !.funding   = Funding(d) ]

\* ProductSpec.effective_protected_amount, per unit of face.
ProtectedShare(t) == IF t.protected THEN 1 ELSE 0

\* check_protection_claim
ClaimConsistent(t) ==
  t.protected => t.family # "snowball" /\ ~ (t.family = "autocallable" /\ t.barrier # Absent)

-----------------------------------------------------------------------------
(* The lattice.                                                            *)

\* What ProductDomainSpec accepts of the terms a lattice is built from.
DomainSpec ==
  [ families : SUBSET Families, maturities : SUBSET (Nat \ {0}), strikes : SUBSET (Nat \ {0}),
    participations : SUBSET (Nat \ {0}), protections : SUBSET BOOLEAN,
    barriers : SUBSET (Nat \ {0}), coupons : SUBSET Nat ]

\* enumerate_domain's _spec: what a candidate leaves out takes its default.
Candidate(family, months) ==
  [ family |-> family, months |-> months, strike |-> 100, barrier |-> Absent,
    kind |-> "absent", direction |-> "absent", coupon |-> Absent, participation |-> 100,
    protected |-> FALSE, funding |-> "absent", face |-> "notional" ]

WithBarrier(t, barrier, kind) ==
  [t EXCEPT !.barrier = barrier, !.kind = kind,
            !.direction = IF barrier <= 100 THEN "down" ELSE "up"]

\* A barrier option knocks in below the fixing and out above it.
OptionKind(barrier) == IF barrier > 100 THEN "knock_out" ELSE "knock_in"

WithTerms(t, strike, part, prot) ==
  [t EXCEPT !.strike = strike, !.participation = part, !.protected = prot]

OptionTerms(domain, t) ==
  { WithTerms(t, strike, part, prot) :
      strike \in domain.strikes, part \in domain.participations, prot \in domain.protections }

Lower(domain) == { b \in domain.barriers : b < 100 }

\* Mutant: a barrier above the fixing is enumerated for notes too.
LossBearingAnywhere(domain, t) ==
  { WithBarrier([t EXCEPT !.coupon = c], b, "knock_in") :
      c \in domain.coupons, b \in domain.barriers }

\* A note that can lose its principal has a barrier below the fixing.
LossBearing(domain, t) ==
  { WithBarrier([t EXCEPT !.coupon = c], b, "knock_in") :
      c \in domain.coupons, b \in Lower(domain) }

\* A protected note needs no barrier.
Protecting(domain, t) ==
  LET safe == [t EXCEPT !.protected = TRUE]
  IN  { [safe EXCEPT !.coupon = c] : c \in domain.coupons }

FamilyLattice(domain, t) ==
  CASE t.family \in Vanilla -> OptionTerms(domain, t)
    [] t.family \in BarrierOptions ->
         UNION { OptionTerms(domain, WithBarrier(t, b, OptionKind(b))) : b \in domain.barriers }
    [] t.family = "autocallable" ->
         UNION { IF prot THEN Protecting(domain, t) ELSE LossBearing(domain, t) :
                   prot \in domain.protections }
    [] t.family = "snowball" -> LossBearing(domain, t)

\* enumerate_domain
Lattice(domain) ==
  UNION { FamilyLattice(domain, Candidate(f, m)) : f \in domain.families, m \in domain.maturities }

\* _domain_signature: the fields a product is recognised by, with the direction
\* and the funding style that hold when none is given.
Signature(t) == [t EXCEPT !.direction = Direction(t), !.funding = Funding(t)]

=============================================================================
