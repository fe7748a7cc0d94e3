--------------------------- MODULE ContractProofs ---------------------------
(***************************************************************************)
(* Theorems about ContractLife, for every lattice, every set of term       *)
(* sheets and every set of spots: a path is observed to the end the        *)
(* pricers foresee, what is announced is paid, and principal that is       *)
(* promised is returned.                                                   *)
(***************************************************************************)
EXTENDS ContractLife, LedgerProofs

-----------------------------------------------------------------------------
(* Terms.                                                                  *)

Fields == { "family", "months", "strike", "barrier", "kind", "direction", "coupon",
            "participation", "protected", "funding", "face" }

\* A term sheet is a record of these fields.
IsRecord(t) == t = [k \in Fields |-> t[k]]

\* What the parser and the lattice together leave of a term sheet.
Sound(t) ==
  /\ IsRecord(t)
  /\ t.family \in Families
  /\ t.months \in 1 .. 60 /\ t.strike \in Nat \ {0} /\ t.participation \in Nat \ {0}
  /\ t.barrier \in Nat \cup {Absent} /\ t.protected \in BOOLEAN
  /\ t.family \in Notes => t.coupon \in Nat
  /\ t.family = "autocallable" =>
       (t.protected <=> t.barrier = Absent) /\ (t.barrier # Absent => t.barrier < 100)
  /\ t.family = "snowball" => ~ t.protected /\ t.barrier \in Nat /\ t.barrier < 100
  /\ t.family \in BarrierOptions =>
       /\ t.barrier \in Nat /\ t.kind = OptionKind(t.barrier)
       /\ t.direction = IF t.barrier <= 100 THEN "down" ELSE "up"

\* The same of what the lattice holds, as far as it is the lattice that says so.
Enumerated(t) ==
  /\ IsRecord(t)
  /\ t.family \in Families
  /\ t.family = "snowball" => ~ t.protected /\ t.barrier \in Nat /\ t.barrier < 100
  /\ t.family \in BarrierOptions =>
       /\ t.barrier \in Nat /\ t.kind = OptionKind(t.barrier)
       /\ t.direction = IF t.barrier <= 100 THEN "down" ELSE "up"

\* What varies a candidate's
\* strike, participation and protection keeps its family and its barrier,
LEMMA OptionFields ==
  ASSUME NEW t, IsRecord(t), NEW c \in OptionTerms(Domain, t)
  PROVE  /\ IsRecord(c) /\ c.family = t.family /\ c.barrier = t.barrier
         /\ c.kind = t.kind /\ c.direction = t.direction
         /\ c.months = t.months /\ c.coupon = t.coupon /\ c.funding = t.funding /\ c.face = t.face
         /\ c.strike \in Domain.strikes /\ c.participation \in Domain.participations
         /\ c.protected \in Domain.protections
<1>1. PICK strike \in Domain.strikes, part \in Domain.participations, prot \in Domain.protections :
        c = WithTerms(t, strike, part, prot)
  BY DEF OptionTerms
<1> QED BY <1>1 DEF WithTerms, IsRecord, Fields

\* and what gives it a barrier keeps the rest.
LEMMA BarrierFields ==
  ASSUME NEW t, IsRecord(t), NEW b, NEW kind
  PROVE  LET u == WithBarrier(t, b, kind)
         IN  /\ IsRecord(u)
             /\ u.family = t.family /\ u.protected = t.protected
             /\ u.barrier = b /\ u.kind = kind
             /\ u.direction = IF b <= 100 THEN "down" ELSE "up"
             /\ u.months = t.months /\ u.coupon = t.coupon /\ u.funding = t.funding
             /\ u.face = t.face /\ u.strike = t.strike /\ u.participation = t.participation
  BY DEF WithBarrier, IsRecord, Fields

\* What bears a loss is a candidate with a coupon and a barrier below 100.
LEMMA LossFields ==
  ASSUME NEW t, IsRecord(t), NEW c \in LossBearing(Domain, t)
  PROVE  /\ IsRecord(c) /\ c.family = t.family /\ c.protected = t.protected
         /\ c.barrier \in Domain.barriers /\ c.barrier < 100
         /\ c.kind = "knock_in" /\ c.direction = IF c.barrier <= 100 THEN "down" ELSE "up"
         /\ c.coupon \in Domain.coupons
         /\ c.months = t.months /\ c.funding = t.funding /\ c.face = t.face
         /\ c.participation = t.participation /\ c.strike = t.strike
<1>1. PICK x \in Domain.coupons, b \in Lower(Domain) :
        c = WithBarrier([t EXCEPT !.coupon = x], b, "knock_in")
  BY DEF LossBearing
<1> DEFINE u == [t EXCEPT !.coupon = x]
<1>2. /\ IsRecord(u) /\ u.family = t.family /\ u.protected = t.protected /\ u.coupon = x
      /\ u.months = t.months /\ u.funding = t.funding /\ u.face = t.face
      /\ u.participation = t.participation /\ u.strike = t.strike
  BY DEF IsRecord, Fields
<1> HIDE DEF u
<1>3. c = WithBarrier(u, b, "knock_in")
  BY <1>1 DEF u
<1>4. /\ IsRecord(c) /\ c.family = t.family /\ c.protected = t.protected /\ c.barrier = b
      /\ c.kind = "knock_in" /\ c.direction = (IF b <= 100 THEN "down" ELSE "up") /\ c.coupon = x
      /\ c.months = t.months /\ c.funding = t.funding /\ c.face = t.face
      /\ c.participation = t.participation /\ c.strike = t.strike
  BY <1>2, <1>3, BarrierFields
<1> QED BY <1>4 DEF Lower

\* The products of the lattice, family by family.
Listed(c) ==
  /\ IsRecord(c) /\ c.family \in Families /\ c.months \in Domain.maturities
  /\ c.funding = "absent" /\ c.face = "notional"
  /\ c.family \in Vanilla =>
       c.barrier = Absent /\ c.kind = "absent" /\ c.direction = "absent"
  /\ c.family \in BarrierOptions =>
       /\ c.barrier \in Domain.barriers /\ c.kind = OptionKind(c.barrier)
       /\ c.direction = IF c.barrier <= 100 THEN "down" ELSE "up"
  /\ c.family \notin Notes =>
       /\ c.coupon = Absent /\ c.strike \in Domain.strikes
       /\ c.participation \in Domain.participations /\ c.protected \in Domain.protections
  /\ c.family \in Notes =>
       /\ c.coupon \in Domain.coupons /\ c.strike = 100 /\ c.participation = 100
       /\ \/ /\ c.protected = TRUE /\ c.family = "autocallable"
             /\ c.barrier = Absent /\ c.kind = "absent" /\ c.direction = "absent"
          \/ /\ c.protected = FALSE /\ c.barrier \in Domain.barriers /\ c.barrier < 100
             /\ c.kind = "knock_in" /\ c.direction = IF c.barrier <= 100 THEN "down" ELSE "up"

\* Each product of the lattice is one of them.
LEMMA LatticeLists ==
  ASSUME NEW c \in Lattice(Domain)
  PROVE  Listed(c)
<1>1. PICK f \in Domain.families, m \in Domain.maturities : c \in FamilyLattice(Domain, Candidate(f, m))
  BY DEF Lattice
<1> DEFINE t == Candidate(f, m)
<1>2. f \in Families
  BY LifeAssumption DEF DomainSpec
<1>3. /\ IsRecord(t) /\ t.family = f /\ t.protected = FALSE
      /\ t.months = m /\ t.strike = 100 /\ t.participation = 100
      /\ t.barrier = Absent /\ t.kind = "absent" /\ t.direction = "absent"
      /\ t.coupon = Absent /\ t.funding = "absent" /\ t.face = "notional"
  BY DEF Candidate, IsRecord, Fields
<1>4. c \in FamilyLattice(Domain, t)
  BY <1>1
<1> HIDE DEF t
<1>5. CASE f \in Vanilla
  <2>1. c \in OptionTerms(Domain, t) /\ f \notin BarrierOptions /\ f \notin Notes
    BY <1>3, <1>4, <1>5 DEF FamilyLattice, Vanilla, BarrierOptions, Notes
  <2>2. /\ IsRecord(c) /\ c.family = f /\ c.months = m /\ c.funding = "absent" /\ c.face = "notional"
        /\ c.barrier = Absent /\ c.kind = "absent" /\ c.direction = "absent"
        /\ c.coupon = Absent /\ c.strike \in Domain.strikes
        /\ c.participation \in Domain.participations /\ c.protected \in Domain.protections
    BY <2>1, <1>3, OptionFields
  <2> QED BY <1>2, <2>1, <2>2 DEF Listed
<1>6. CASE f \in BarrierOptions
  <2>1. PICK b \in Domain.barriers : c \in OptionTerms(Domain, WithBarrier(t, b, OptionKind(b)))
    BY <1>3, <1>4, <1>6 DEF FamilyLattice, Vanilla, BarrierOptions
  <2> DEFINE u == WithBarrier(t, b, OptionKind(b))
  <2>2. /\ IsRecord(u)
        /\ u.family = f /\ u.barrier = b /\ u.kind = OptionKind(b)
        /\ u.direction = IF b <= 100 THEN "down" ELSE "up"
    BY <1>3, BarrierFields
  <2>3. /\ u.months = m /\ u.funding = "absent" /\ u.face = "notional" /\ u.coupon = Absent
    BY <1>3, BarrierFields
  <2>4. c \in OptionTerms(Domain, u)
    BY <2>1
  <2> HIDE DEF u
  <2>5. /\ IsRecord(c) /\ c.family = f /\ c.barrier = b /\ c.kind = OptionKind(b)
        /\ c.direction = IF b <= 100 THEN "down" ELSE "up"
    BY <2>2, <2>4, OptionFields
  <2>6. /\ c.months = m /\ c.funding = "absent" /\ c.face = "notional" /\ c.coupon = Absent
        /\ c.strike \in Domain.strikes
        /\ c.participation \in Domain.participations /\ c.protected \in Domain.protections
    BY <2>2, <2>3, <2>4, OptionFields
  <2>7. f \notin Vanilla /\ f \notin Notes
    BY <1>6 DEF Vanilla, BarrierOptions, Notes
  <2> QED BY <1>2, <1>6, <2>5, <2>6, <2>7 DEF Listed
<1> DEFINE Note(x) == /\ IsRecord(x) /\ x.family = f /\ x.months = m
                      /\ x.funding = "absent" /\ x.face = "notional"
                      /\ x.coupon \in Domain.coupons /\ x.strike = 100 /\ x.participation = 100
           Safe(x) == /\ x.protected = TRUE /\ x.barrier = Absent
                      /\ x.kind = "absent" /\ x.direction = "absent"
           Lossy(x) == /\ x.protected = FALSE /\ x.barrier \in Domain.barriers /\ x.barrier < 100
                       /\ x.kind = "knock_in"
                       /\ x.direction = IF x.barrier <= 100 THEN "down" ELSE "up"
<1>7. ASSUME c \in LossBearing(Domain, t) PROVE Note(c) /\ Lossy(c)
  BY <1>3, <1>7, LossFields
<1>8. ASSUME c \in Protecting(Domain, t) PROVE Note(c) /\ Safe(c)
  <2>1. PICK x \in Domain.coupons : c = [[t EXCEPT !.protected = TRUE] EXCEPT !.coupon = x]
    BY <1>8 DEF Protecting
  <2>2. /\ c.protected = TRUE /\ c.coupon = x /\ IsRecord(c)
        /\ c.family = t.family /\ c.months = t.months /\ c.funding = t.funding /\ c.face = t.face
        /\ c.strike = t.strike /\ c.participation = t.participation
        /\ c.barrier = t.barrier /\ c.kind = t.kind /\ c.direction = t.direction
    BY <1>3, <2>1 DEF IsRecord, Fields
  <2> QED BY <1>3, <2>2
<1>9. CASE f = "autocallable"
  <2>1. c \in UNION { IF prot THEN Protecting(Domain, t) ELSE LossBearing(Domain, t) :
                        prot \in Domain.protections }
    BY <1>3, <1>4, <1>9 DEF FamilyLattice, Vanilla, BarrierOptions
  <2>2. c \in Protecting(Domain, t) \/ c \in LossBearing(Domain, t)
    BY <2>1
  <2>3. f \in Notes /\ f \notin Vanilla /\ f \notin BarrierOptions
    BY <1>9 DEF Notes, Vanilla, BarrierOptions
  <2>4. Note(c) /\ (Safe(c) \/ Lossy(c))
    BY <1>7, <1>8, <2>2
  <2> QED BY <1>2, <1>9, <2>3, <2>4 DEF Listed
<1>10. CASE f = "snowball"
  <2>1. c \in LossBearing(Domain, t) /\ f \in Notes /\ f \notin Vanilla /\ f \notin BarrierOptions
    BY <1>3, <1>4, <1>10 DEF FamilyLattice, Vanilla, BarrierOptions, Notes
  <2>2. Note(c) /\ Lossy(c)
    BY <1>7, <2>1
  <2> QED BY <1>2, <2>1, <2>2 DEF Listed
<1> QED BY <1>2, <1>5, <1>6, <1>9, <1>10 DEF Families, Notes

\* What of it a term sheet's signature can tell.
LEMMA LatticeProducts ==
  ASSUME NEW c \in Lattice(Domain)
  PROVE  Enumerated(c)
<1>1. Listed(c)
  BY LatticeLists
<1>2. \A b \in Domain.barriers : b \in Nat
  BY LifeAssumption DEF DomainSpec
<1> QED BY <1>1, <1>2 DEF Listed, Enumerated, Notes

\* What a desk can quote is sound: the parser sees to the amounts, the lattice
\* to the barriers.
LEMMA QuotableSound ==
  ASSUME NEW d \in Drafts, Quotable(d)
  PROVE  Sound(Parsed(d))
<1> DEFINE t == Parsed(d)
<1>1. d \in Draft /\ Parses(d)
  BY LifeAssumption DEF Quotable
<1>2. PICK c \in Lattice(Domain) : Signature(t) = Signature(c)
  BY DEF Quotable, Signatures
<1>3. Enumerated(c)
  BY LatticeProducts
<1>4. IsRecord(d)
  BY <1>1 DEF Draft, IsRecord, Fields
<1>5. /\ IsRecord(t)
      /\ t.family = d.family /\ t.months = d.months /\ t.strike = d.strike
      /\ t.barrier = d.barrier /\ t.kind = d.kind /\ t.coupon = d.coupon
      /\ t.participation = d.participation /\ t.protected = d.protected
      /\ d.family \in BarrierOptions => t.direction = Direction(d)
  BY <1>4 DEF Parsed, IsRecord, Fields
<1> HIDE DEF t
<1>6. /\ c.family = t.family /\ c.barrier = t.barrier /\ c.kind = t.kind
      /\ c.protected = t.protected /\ Direction(c) = Direction(t)
  <2> DEFINE s == Signature(t)
  <2>1. /\ s.family = t.family /\ s.barrier = t.barrier /\ s.kind = t.kind
        /\ s.protected = t.protected /\ s.direction = Direction(t)
    BY <1>5 DEF Signature, IsRecord, Fields
  <2>2. s = Signature(c)
    BY <1>2
  <2> HIDE DEF s
  <2>3. /\ s.family = c.family /\ s.barrier = c.barrier /\ s.kind = c.kind
        /\ s.protected = c.protected /\ s.direction = Direction(c)
    BY <1>3, <2>2 DEF Enumerated, Signature, IsRecord, Fields
  <2> QED BY <2>1, <2>3
<1>7. t.family \in BarrierOptions => t.direction = IF t.barrier <= 100 THEN "down" ELSE "up"
  <2> SUFFICES ASSUME t.family \in BarrierOptions
               PROVE  t.direction = IF t.barrier <= 100 THEN "down" ELSE "up"
    OBVIOUS
  <2>1. c.direction = (IF t.barrier <= 100 THEN "down" ELSE "up") /\ t.barrier \in Nat
    BY <1>3, <1>6 DEF Enumerated
  <2>2. Direction(c) = c.direction
    BY <2>1 DEF Direction
  <2>3. t.direction # "absent"
    <3>1. d.barrier # Absent
      BY <1>5, <2>1 DEF Absent
    <3> QED BY <1>5, <3>1 DEF Direction
  <2>4. Direction(t) = t.direction
    BY <2>3 DEF Direction
  <2> QED BY <2>1, <2>2, <2>4, <1>6
<1>8. /\ t.months \in 1 .. 60 /\ t.strike \in Nat \ {0} /\ t.participation \in Nat \ {0}
      /\ t.barrier \in Nat \cup {Absent} /\ t.protected \in BOOLEAN
      /\ t.family \in Notes => t.coupon \in Nat
  <2>1. /\ d.barrier \in Nat \cup {Absent} /\ d.coupon \in Nat \cup {Absent}
        /\ d.protected \in BOOLEAN
    BY <1>1 DEF Draft
  <2>2. d.months \in 1 .. 60 /\ d.strike \in 1 .. 1000 /\ d.participation \in 1 .. 1000
    BY <1>1 DEF Parses, InRange
  <2>3. d.family \in Notes => d.coupon # Absent
    BY <1>1 DEF Parses, NoteStated
  <2>4. \A n \in 1 .. 1000 : n \in Nat \ {0}
    OBVIOUS
  <2>5. t.strike \in Nat \ {0} /\ t.participation \in Nat \ {0}
    <3>1. t.strike = d.strike /\ t.participation = d.participation
      BY <1>5
    <3>2. t.strike \in 1 .. 1000 /\ t.participation \in 1 .. 1000
      BY <2>2, <3>1, Zenon
    <3> QED BY <2>4, <3>2, Zenon
  <2>6. t.family \in Notes => t.coupon \in Nat
    BY <1>5, <2>1, <2>3
  <2> QED BY <1>5, <2>1, <2>2, <2>5, <2>6
<1>9. t.family = "autocallable" =>
        (t.protected <=> t.barrier = Absent) /\ (t.barrier # Absent => t.barrier < 100)
  BY <1>1, <1>5 DEF Parses, LossStated
<1> QED BY <1>3, <1>5, <1>6, <1>7, <1>8, <1>9 DEF Sound, Enumerated, t

-----------------------------------------------------------------------------
(* Months.                                                                 *)

\* A contract is a record of these fields.
IsContract(p) ==
  p = [ terms |-> p.terms, elapsed |-> p.elapsed, spot |-> p.spot, touched |-> p.touched,
        knocked_in |-> p.knocked_in, status |-> p.status ]

\* A contract under observation: what its last spot touched is recorded, except
\* at issue, where nothing is.
Alive(p) ==
  /\ IsContract(p) /\ Sound(p.terms) /\ p.status = "active"
  /\ p.elapsed \in Nat /\ p.elapsed < p.terms.months
  /\ p.spot \in Nat \ {0}
  /\ p.touched \in BOOLEAN /\ p.knocked_in \in BOOLEAN
  /\ p.elapsed = 0 => p.spot = Fixing /\ ~ p.touched /\ ~ p.knocked_in
  /\ p.elapsed > 0 =>
       /\ Touches(p.terms, p.spot) => p.touched
       /\ KnocksIn(p.terms, p.spot) => p.knocked_in

\* It has months left.
LEMMA AliveFacts ==
  ASSUME NEW p, Alive(p)
  PROVE  /\ Sound(p.terms) /\ p.elapsed \in Nat /\ p.terms.months \in Nat
         /\ Remaining(p) = p.terms.months - p.elapsed
         /\ Remaining(p) \in Nat \ {0}
         /\ p.elapsed < p.terms.months
<1>1. p.elapsed \in Nat /\ Sound(p.terms) /\ p.elapsed < p.terms.months
  BY DEF Alive
<1>2. p.terms.months \in Nat
  BY <1>1 DEF Sound
<1> QED BY <1>1, <1>2 DEF Remaining

\* What a month does to a contract, field by field,
LEMMA Observed ==
  ASSUME NEW p, IsContract(p), NEW spot
  PROVE  LET o == ObserveMonth(p, spot)
         IN  /\ IsContract(o) /\ o.terms = p.terms
             /\ o.elapsed = p.elapsed + 1 /\ o.spot = spot
             /\ o.touched = (p.touched \/ Touches(p.terms, spot))
             /\ o.knocked_in = (p.knocked_in \/ KnocksIn(p.terms, spot))
             /\ o.status = NextStatus(p, spot)
<1> DEFINE touched == p.touched \/ Touches(p.terms, spot)
           knocked == p.knocked_in \/ KnocksIn(p.terms, spot)
           status  == NextStatus(p, spot)
           elapsed == p.elapsed + 1
           o       == ObserveMonth(p, spot)
<1>1. o = [ terms |-> p.terms, elapsed |-> elapsed, spot |-> spot, touched |-> touched,
            knocked_in |-> knocked, status |-> status ]
  <2>1. o = [ p EXCEPT !.elapsed = elapsed, !.spot = spot, !.touched = touched,
                       !.knocked_in = knocked, !.status = status ]
    BY DEF ObserveMonth
  <2> HIDE DEF touched, knocked, status, elapsed, o
  <2> QED BY <2>1 DEF IsContract
<1> HIDE DEF touched, knocked, status, elapsed, o
<1>2. /\ IsContract(o) /\ o.terms = p.terms /\ o.elapsed = elapsed /\ o.spot = spot
      /\ o.touched = touched /\ o.knocked_in = knocked /\ o.status = status
  BY <1>1 DEF IsContract
<1> QED BY <1>2 DEF touched, knocked, status, elapsed, o

\* and how it leaves it.
LEMMA Statuses ==
  ASSUME NEW p, NEW spot, p.elapsed \in Int, p.terms.months \in Int
  PROVE  LET called == p.terms.family \in Notes /\ spot >= AutocallLevel(p.terms)
             out    == /\ p.terms.family \in BarrierOptions /\ p.terms.kind = "knock_out"
                       /\ Touches(p.terms, spot) /\ ~ p.terms.protected
             s      == NextStatus(p, spot)
         IN  \/ s = "autocalled" /\ called
             \/ s = "knocked_out" /\ out /\ ~ called
             \/ s = "matured" /\ ~ called /\ ~ out /\ p.elapsed + 1 >= p.terms.months
             \/ s = "active" /\ ~ called /\ ~ out /\ p.elapsed + 1 < p.terms.months
<1> DEFINE called == p.terms.family \in Notes /\ spot >= AutocallLevel(p.terms)
           out    == /\ p.terms.family \in BarrierOptions /\ p.terms.kind = "knock_out"
                     /\ Touches(p.terms, spot) /\ ~ p.terms.protected
           s      == NextStatus(p, spot)
<1>1. ~ (called /\ out)
  BY DEF Notes, BarrierOptions
<1>2. s = CASE called -> "autocalled"
            [] out    -> "knocked_out"
            [] ~ called /\ ~ out /\ Remaining(p) <= 1 -> "matured"
            [] OTHER  -> "active"
  BY DEF NextStatus
<1>3. Remaining(p) = p.terms.months - p.elapsed
  BY DEF Remaining
<1> HIDE DEF called, out, s
<1>4. \/ s = "autocalled" /\ called
      \/ s = "knocked_out" /\ out /\ ~ called
      \/ s = "matured" /\ ~ called /\ ~ out /\ p.elapsed + 1 >= p.terms.months
      \/ s = "active" /\ ~ called /\ ~ out /\ p.elapsed + 1 < p.terms.months
  BY <1>1, <1>2, <1>3
<1> QED BY <1>4 DEF called, out, s

\* A sound contract starts under observation,
LEMMA IssuedAlive ==
  ASSUME NEW t, Sound(t)
  PROVE  Alive(Issued(t))
  BY DEF Issued, Alive, IsContract, Sound, Fixing

\* and stays so through a month that leaves it active.
LEMMA ObservedAlive ==
  ASSUME NEW p, Alive(p), NEW spot \in Nat \ {0}, NextStatus(p, spot) = "active"
  PROVE  Alive(ObserveMonth(p, spot))
<1> DEFINE o == ObserveMonth(p, spot)
<1>1. /\ IsContract(o) /\ o.terms = p.terms
      /\ o.elapsed = p.elapsed + 1 /\ o.spot = spot
      /\ o.touched = (p.touched \/ Touches(p.terms, spot))
      /\ o.knocked_in = (p.knocked_in \/ KnocksIn(p.terms, spot))
      /\ o.status = NextStatus(p, spot)
  BY Observed DEF Alive
<1>2. /\ p.elapsed \in Nat /\ p.terms.months \in Nat /\ Sound(p.terms)
      /\ p.touched \in BOOLEAN /\ p.knocked_in \in BOOLEAN
  BY DEF Alive, Sound
<1>3. p.elapsed + 1 < p.terms.months
  BY <1>2, Statuses
<1> HIDE DEF o
<1>4. /\ o.touched \in BOOLEAN /\ o.knocked_in \in BOOLEAN
      /\ Touches(p.terms, spot) => o.touched
      /\ KnocksIn(p.terms, spot) => o.knocked_in
  BY <1>1, <1>2
<1>5. o.elapsed \in Nat /\ o.elapsed > 0 /\ o.elapsed # 0 /\ o.elapsed < o.terms.months
  BY <1>1, <1>2, <1>3
<1>6. Alive(o)
  BY <1>1, <1>2, <1>4, <1>5 DEF Alive
<1> QED BY <1>6 DEF o

-----------------------------------------------------------------------------
(* Lives.                                                                  *)

\* What the states of a life satisfy: a contract issued is under observation,
\* a settled one was until the month that settled it.
LifeInv ==
  /\ stage \in {"drafting", "refused", "issued", "settled"}
  /\ stage = "issued" => Alive(contract)
  /\ stage = "settled" =>
       \E p : \E spot \in Spots :
          /\ Alive(p)
          /\ contract = ObserveMonth(p, spot)
          /\ contract.status # "active"
          /\ paid = Settlement(contract)

\* It holds in every behaviour: issuing makes a sound contract, and a month
\* leaves one that lives on.
LEMMA LifeInvHolds == LifeSpec => []LifeInv
<1>1. LifeInit => LifeInv
  BY DEF LifeInit, LifeInv
<1>2. LifeInv /\ [LifeNext]_life => LifeInv'
  <2> SUFFICES ASSUME LifeInv, [LifeNext]_life PROVE LifeInv'
    OBVIOUS
  <2>1. ASSUME NEW d \in Drafts, Refuse(d) PROVE LifeInv'
    BY <2>1 DEF Refuse, LifeInv
  <2>2. ASSUME NEW d \in Drafts, Issue(d) PROVE LifeInv'
    <3>1. Alive(Issued(Parsed(d)))
      BY <2>2, QuotableSound, IssuedAlive DEF Issue
    <3> QED BY <2>2, <3>1 DEF Issue, LifeInv
  <2>3. ASSUME NEW s \in Spots, Live(s) PROVE LifeInv'
    <3>1. /\ s \in Nat \ {0} /\ Alive(contract) /\ IsContract(contract)
          /\ contract' = ObserveMonth(contract, s) /\ contract'.status = "active"
          /\ stage = "issued" /\ stage' = stage
      BY <2>3, LifeAssumption DEF Live, LifeInv, Alive
    <3>2. NextStatus(contract, s) = "active"
      BY <3>1, Observed
    <3>3. Alive(ObserveMonth(contract, s))
      BY <3>1, <3>2, ObservedAlive
    <3> QED BY <3>1, <3>3 DEF LifeInv
  <2>4. ASSUME NEW s \in Spots, Settle(s) PROVE LifeInv'
    BY <2>4 DEF Settle, LifeInv
  <2>5. CASE UNCHANGED life
    BY <2>5 DEF life, LifeInv
  <2> QED BY <2>1, <2>2, <2>3, <2>4, <2>5 DEF LifeNext
<1> QED BY <1>1, <1>2, PTL DEF LifeSpec

-----------------------------------------------------------------------------
(* Amounts.                                                                *)

\* Products of numbers are numbers,
LEMMA Products == \A a, b \in Nat : a * b \in Nat
<1> SUFFICES ASSUME NEW a \in Nat PROVE \A b \in Nat : a * b \in Nat
  OBVIOUS
<1> DEFINE T == { b \in Nat : a * b \in Nat }
<1>1. 0 \in T
  OBVIOUS
<1>2. ASSUME NEW b \in T PROVE b + 1 \in T
  <2>1. b \in Nat /\ a * b \in Nat
    OBVIOUS
  <2>2. a * (b + 1) = a * b + a
    BY <2>1
  <2>3. b + 1 \in Nat /\ a * (b + 1) \in Nat
    BY <2>1, <2>2
  <2> QED BY <2>3
<1> HIDE DEF T
<1>3. T \subseteq Nat
  BY DEF T
<1>4. T = Nat
  BY <1>1, <1>2, <1>3, Counting
<1> QED BY <1>4 DEF T

\* and grow with their factors.
LEMMA ProductsGrow ==
  ASSUME NEW a \in Nat, NEW b \in Int, NEW c \in Int, b <= c
  PROVE  a * b \in Int /\ a * c \in Int /\ a * b <= a * c
<1>1. a * (c - b) \in Nat
  BY Products
<1>2. a * (c - b) = a * c - a * b
  OBVIOUS
<1> QED BY <1>1, <1>2

\* The least of a set of numbers that has one.
LEMMA LeastOf ==
  ASSUME NEW S \in SUBSET Int, NEW x \in S, \A y \in S : x <= y
  PROVE  Min(S) = x
<1>1. Min(S) \in S /\ \A y \in S : Min(S) <= y
  BY DEF Min
<1>2. Min(S) \in Int /\ x \in Int /\ Min(S) <= x /\ x <= Min(S)
  BY <1>1
<1> QED BY <1>2

\* A redemption with coupons is not below par, and grows with its months.
LEMMA CouponsGrow ==
  ASSUME NEW t, t.coupon \in Nat, NEW m \in Nat, NEW n \in Nat, m <= n
  PROVE  WithCoupon(t, m) \in Nat /\ Par <= WithCoupon(t, m) /\ WithCoupon(t, m) <= WithCoupon(t, n)
<1> DEFINE a == t.coupon * m
           b == t.coupon * n
<1>1. a \in Nat /\ b \in Nat /\ a <= b
  BY Products, ProductsGrow
<1>2. WithCoupon(t, m) = 100 * (1200 + a) /\ WithCoupon(t, n) = 100 * (1200 + b)
  BY DEF WithCoupon
<1> HIDE DEF a, b
<1> QED BY <1>1, <1>2 DEF Par

\* An option pays more the more its spot is beyond its strike,
LEMMA OptionPays ==
  ASSUME NEW t, t.participation \in Nat, t.strike \in Nat, NEW x \in Nat, NEW y \in Nat,
         IF IsCall(t) THEN x <= y ELSE y <= x
  PROVE  OptionCash(t, x) \in Nat /\ OptionCash(t, y) \in Nat /\ OptionCash(t, x) <= OptionCash(t, y)
<1> DEFINE a == Positive(IF IsCall(t) THEN x - t.strike ELSE t.strike - x)
           b == Positive(IF IsCall(t) THEN y - t.strike ELSE t.strike - y)
           w == 12 * t.participation
<1>1. a \in Nat /\ b \in Nat /\ a <= b
  BY DEF Positive
<1>2. w \in Nat
  OBVIOUS
<1>3. OptionCash(t, x) = w * a /\ OptionCash(t, y) = w * b
  BY DEF OptionCash
<1> HIDE DEF a, b, w
<1> QED BY <1>1, <1>2, <1>3, Products, ProductsGrow

\* and never costs its holder.
LEMMA OptionIsNat ==
  ASSUME NEW t, t.participation \in Nat, t.strike \in Nat, NEW x \in Nat
  PROVE  OptionCash(t, x) \in Nat
<1>1. IF IsCall(t) THEN x <= x ELSE x <= x
  OBVIOUS
<1> QED BY <1>1, OptionPays

\* What is protected is the whole face or nothing.
LEMMA Protections ==
  ASSUME NEW t
  PROVE  (t.protected => Protection(t) = Par) /\ (~ t.protected => Protection(t) = 0)
<1>1. t.protected => Protection(t) = Par * 1
  BY DEF Protection, ProtectedShare
<1>2. ~ t.protected => Protection(t) = Par * 0
  BY DEF Protection, ProtectedShare
<1> QED BY <1>1, <1>2 DEF Par

-----------------------------------------------------------------------------
(* Principal.                                                              *)

\* The month that ends a contract under observation: the contract then is the
\* same but for what that month recorded, and its terms are sound.
LEMMA Closing ==
  ASSUME LifeInv, stage = "settled"
  PROVE  LET t == contract.terms
         IN  /\ Sound(t) /\ contract.elapsed \in 1 .. t.months
             /\ contract.spot \in Nat \ {0}
             /\ paid = Settlement(contract)
             /\ \/ contract.status = "autocalled" /\ t.family \in Notes
                \/ /\ contract.status = "knocked_out" /\ t.family \in BarrierOptions
                   /\ t.kind = "knock_out" /\ contract.touched /\ ~ t.protected
                \/ contract.status = "matured" /\ contract.elapsed = t.months
<1>0. PICK p : \E spot \in Spots :
        /\ Alive(p)
        /\ contract = ObserveMonth(p, spot)
        /\ contract.status # "active"
        /\ paid = Settlement(contract)
  BY DEF LifeInv
<1>1. PICK spot \in Spots :
        /\ Alive(p)
        /\ contract = ObserveMonth(p, spot)
        /\ contract.status # "active"
        /\ paid = Settlement(contract)
  BY <1>0
<1>2. /\ IsContract(p) /\ Sound(p.terms) /\ p.elapsed \in Nat /\ p.terms.months \in Nat
      /\ p.elapsed < p.terms.months /\ spot \in Nat \ {0}
  BY <1>1, LifeAssumption DEF Alive, Sound
<1>3. /\ contract.terms = p.terms /\ contract.elapsed = p.elapsed + 1 /\ contract.spot = spot
      /\ contract.touched = (p.touched \/ Touches(p.terms, spot))
      /\ contract.status = NextStatus(p, spot)
  BY <1>1, <1>2, Observed
<1>4. contract.elapsed \in 1 .. p.terms.months
  BY <1>2, <1>3
<1>5. \/ contract.status = "autocalled" /\ p.terms.family \in Notes
      \/ /\ contract.status = "knocked_out" /\ p.terms.family \in BarrierOptions
         /\ p.terms.kind = "knock_out" /\ Touches(p.terms, spot) /\ ~ p.terms.protected
      \/ contract.status = "matured" /\ p.elapsed + 1 >= p.terms.months
  BY <1>1, <1>2, <1>3, Statuses
<1>6. p.elapsed + 1 >= p.terms.months => contract.elapsed = p.terms.months
  BY <1>2, <1>3
<1> QED BY <1>1, <1>2, <1>3, <1>4, <1>5, <1>6

\* A contract that promises its principal pays at least that, however it ends,
\* for every lattice and every spot (_position_settlement_amount).
THEOREM PrincipalProtected == LifeSpec => []PrincipalIsProtected
<1>1. LifeInv => PrincipalIsProtected
  <2> SUFFICES ASSUME LifeInv, stage = "settled", contract.terms.protected
               PROVE  paid >= Par
    BY DEF PrincipalIsProtected
  <2> DEFINE t == contract.terms
  <2>1. /\ Sound(t) /\ contract.elapsed \in 1 .. t.months
        /\ contract.spot \in Nat \ {0} /\ paid = Settlement(contract)
        /\ \/ contract.status = "autocalled" /\ t.family \in Notes
           \/ contract.status = "matured"
    BY Closing
  <2>2. t.months \in Nat /\ contract.elapsed \in Nat /\ t.participation \in Nat /\ t.strike \in Nat
    BY <2>1 DEF Sound
  <2>3. t.family \in Notes => t.family = "autocallable" /\ t.coupon \in Nat
    BY <2>1 DEF Sound, Notes
  <2>4. CASE contract.status = "autocalled"
    BY <2>1, <2>2, <2>3, <2>4, CouponsGrow DEF Settlement, Par
  <2>5. CASE contract.status = "matured" /\ t.family \in Notes
    <3>1. paid = WithCoupon(t, t.months)
      BY <2>1, <2>3, <2>5 DEF Settlement, MaturityOfNote
    <3> QED BY <2>2, <2>3, <2>5, <3>1, CouponsGrow DEF Par
  <2>6. CASE contract.status = "matured" /\ t.family \notin Notes
    <3>1. paid = MaturityOfOption(contract)
      BY <2>1, <2>6 DEF Settlement
    <3>2. Protection(t) = Par
      <4>1. t.protected
        OBVIOUS
      <4> HIDE DEF t
      <4> QED BY <4>1, Protections, Zenon
    <3>3. OptionCash(t, contract.spot) \in Nat
      BY <2>1, <2>2, OptionIsNat
    <3> QED BY <3>1, <3>2, <3>3 DEF MaturityOfOption, Par
  <2> QED BY <2>1, <2>4, <2>5, <2>6
<1> QED BY <1>1, LifeInvHolds, PTL

-----------------------------------------------------------------------------
(* Paths.                                                                  *)

\* One step of AtEnd, and its finite approximations.
Step(x, spot) == IF x.status # "active" THEN x ELSE ObserveMonth(x, spot)

Walk(g, p, path, n) ==
  g = [m \in 0 .. n |-> IF m = 0 THEN p ELSE Step(g[m - 1], path[m])]

\* A walk exists up to every month.
LEMMA WalkExists ==
  ASSUME NEW p, NEW path, NEW n \in Nat
  PROVE  \E g : Walk(g, p, path, n)
<1> DEFINE T == { k \in Nat : \E g : Walk(g, p, path, k) }
<1>1. 0 \in T
  <2> DEFINE g == [m \in 0 .. 0 |-> p]
  <2>1. Walk(g, p, path, 0)
    BY DEF Walk
  <2> QED BY <2>1
<1>2. ASSUME NEW k \in T PROVE k + 1 \in T
  <2>1. PICK g : Walk(g, p, path, k)
    BY <1>2
  <2> DEFINE h == [m \in 0 .. k + 1 |-> IF m = k + 1 THEN Step(g[k], path[k + 1]) ELSE g[m]]
  <2>2. \A m \in 0 .. k : g[m] = IF m = 0 THEN p ELSE Step(g[m - 1], path[m])
    BY <2>1 DEF Walk
  <2>3. \A m \in 0 .. k + 1 : h[m] = IF m = 0 THEN p ELSE Step(h[m - 1], path[m])
    <3> SUFFICES ASSUME NEW m \in 0 .. k + 1
                 PROVE  h[m] = IF m = 0 THEN p ELSE Step(h[m - 1], path[m])
      OBVIOUS
    <3>1. CASE m = k + 1
      BY <3>1
    <3>2. CASE m = 0
      BY <3>2, <2>2
    <3>3. CASE m # k + 1 /\ m # 0
      <4>1. m \in 0 .. k /\ m - 1 \in 0 .. k
        BY <3>3
      <4>2. h[m] = g[m] /\ h[m - 1] = g[m - 1]
        BY <4>1
      <4> QED BY <2>2, <3>3, <4>1, <4>2
    <3> QED BY <3>1, <3>2, <3>3
  <2>4. h = [m \in 0 .. k + 1 |-> h[m]]
    OBVIOUS
  <2> HIDE DEF h
  <2>5. Walk(h, p, path, k + 1)
    BY <2>3, <2>4 DEF Walk
  <2> QED BY <2>5
<1> HIDE DEF T
<1>3. T \subseteq Nat
  BY DEF T
<1>4. T = Nat
  BY <1>1, <1>2, <1>3, Counting
<1> QED BY <1>4 DEF T

\* A walk of n months that leads to the contract at the end of the path.
Walks(p, path, n) ==
  \E g : /\ AtEnd(p, path) = g[n]
         /\ g[0] = p
         /\ \A m \in 1 .. n : g[m] = Step(g[m - 1], path[m])

\* The end of a path is where its walk leads.
LEMMA AtEndWalks ==
  ASSUME NEW p, NEW path, NEW n \in Nat, Len(path) = n
  PROVE  Walks(p, path, n)
<1> DEFINE g == CHOOSE g : Walk(g, p, path, n)
<1>1. Walk(g, p, path, n)
  BY WalkExists
<1>2. AtEnd(p, path) = g[n]
  BY DEF AtEnd, Walk, Step
<1> HIDE DEF g
<1>3. \A m \in 0 .. n : g[m] = IF m = 0 THEN p ELSE Step(g[m - 1], path[m])
  BY <1>1 DEF Walk
<1> QED BY <1>2, <1>3 DEF Walks

\* A contract alive after the first m months of a path has recorded what they
\* touched, and none of them called it.
Walked(p, path, x, m) ==
  /\ Alive(x) /\ x.terms = p.terms
  /\ x.elapsed = p.elapsed + m
  /\ x.touched <=> p.touched \/ \E k \in 1 .. m : Touches(p.terms, path[k])
  /\ x.knocked_in <=> p.knocked_in \/ \E k \in 1 .. m : KnocksIn(p.terms, path[k])
  /\ p.terms.family \in Notes => \A k \in 1 .. m : path[k] < AutocallLevel(p.terms)

\* Some month of a path as long as what remains ends a contract.
Ended(p, path, m, end) ==
  \E n \in 1 .. m : \E x :
     /\ Walked(p, path, x, n - 1)
     /\ end = ObserveMonth(x, path[n])
     /\ NextStatus(x, path[n]) # "active"

\* A month more of a contract still alive.
LEMMA WalkOn ==
  ASSUME NEW p, NEW R \in Nat, NEW path \in [1 .. R -> Spots], p.elapsed \in Nat,
         NEW k \in Nat, k < R, NEW x, Walked(p, path, x, k),
         NextStatus(x, path[k + 1]) = "active"
  PROVE  Walked(p, path, ObserveMonth(x, path[k + 1]), k + 1)
<1> DEFINE spot == path[k + 1]
           y == ObserveMonth(x, spot)
<1>1. spot \in Nat \ {0}
  <2>1. k + 1 \in 1 .. R
    OBVIOUS
  <2>2. spot \in Spots
    BY <2>1
  <2> QED BY <2>2, LifeAssumption
<1>2. /\ Alive(x) /\ IsContract(x) /\ x.terms = p.terms /\ x.elapsed = p.elapsed + k
      /\ x.elapsed \in Int /\ x.terms.months \in Int
      /\ x.touched <=> p.touched \/ \E m \in 1 .. k : Touches(p.terms, path[m])
      /\ x.knocked_in <=> p.knocked_in \/ \E m \in 1 .. k : KnocksIn(p.terms, path[m])
      /\ p.terms.family \in Notes => \A m \in 1 .. k : path[m] < AutocallLevel(p.terms)
  <2>1. /\ Alive(x) /\ x.terms = p.terms /\ x.elapsed = p.elapsed + k
        /\ x.touched <=> p.touched \/ \E m \in 1 .. k : Touches(p.terms, path[m])
        /\ x.knocked_in <=> p.knocked_in \/ \E m \in 1 .. k : KnocksIn(p.terms, path[m])
        /\ p.terms.family \in Notes => \A m \in 1 .. k : path[m] < AutocallLevel(p.terms)
    BY Zenon DEF Walked
  <2>2. IsContract(x) /\ x.elapsed \in Int /\ x.terms.months \in Int
    BY <2>1, AliveFacts DEF Alive
  <2> QED BY <2>1, <2>2
<1>3. NextStatus(x, spot) = "active"
  OBVIOUS
<1> HIDE DEF spot
<1>4. Alive(y)
  BY <1>1, <1>2, <1>3, ObservedAlive
<1>5. /\ y.terms = x.terms /\ y.elapsed = x.elapsed + 1
      /\ y.touched = (x.touched \/ Touches(x.terms, spot))
      /\ y.knocked_in = (x.knocked_in \/ KnocksIn(x.terms, spot))
  BY <1>2, Observed
<1>6. x.terms.family \in Notes => ~ (spot >= AutocallLevel(x.terms))
  BY <1>2, <1>3, Statuses
<1>7. \A m \in 1 .. k + 1 : m \in 1 .. k \/ m = k + 1
  OBVIOUS
<1>8. /\ \A m \in 1 .. k : m \in 1 .. k + 1
      /\ k + 1 \in 1 .. k + 1
  OBVIOUS
<1> HIDE DEF y
<1>9. y.touched <=> p.touched \/ \E m \in 1 .. k + 1 : Touches(p.terms, path[m])
  BY <1>2, <1>5, <1>7, <1>8, Zenon DEF spot
<1>10. y.knocked_in <=> p.knocked_in \/ \E m \in 1 .. k + 1 : KnocksIn(p.terms, path[m])
  BY <1>2, <1>5, <1>7, <1>8, Zenon DEF spot
<1>11. p.terms.family \in Notes => \A m \in 1 .. k + 1 : path[m] < AutocallLevel(p.terms)
  <2> SUFFICES ASSUME p.terms.family \in Notes, NEW m \in 1 .. k + 1
               PROVE  path[m] < AutocallLevel(p.terms)
    OBVIOUS
  <2>1. AutocallLevel(p.terms) \in Int
    BY DEF AutocallLevel
  <2>2. spot < AutocallLevel(p.terms)
    BY <1>1, <1>2, <1>6, <2>1
  <2> QED BY <1>2, <1>7, <2>2 DEF spot
<1>12. y.elapsed = p.elapsed + (k + 1)
  BY <1>2, <1>5
<1>13. Walked(p, path, y, k + 1)
  BY <1>2, <1>4, <1>5, <1>9, <1>10, <1>11, <1>12 DEF Walked
<1> QED BY <1>13 DEF y, spot

\* Every path ends the contract, with the month its observation ends it in.
LEMMA PathEnds ==
  ASSUME NEW p, Alive(p), NEW path \in [1 .. Remaining(p) -> Spots]
  PROVE  Remaining(p) \in Nat \ {0} /\ Ended(p, path, Remaining(p), AtEnd(p, path))
<1> DEFINE R == Remaining(p)
<1>1. /\ p.elapsed \in Nat /\ p.terms.months \in Nat /\ p.elapsed < p.terms.months
      /\ R = p.terms.months - p.elapsed /\ R \in Nat /\ R # 0
  BY AliveFacts
<1>2. path \in [1 .. R -> Spots]
  OBVIOUS
<1> HIDE DEF R
<1>3. Len(path) = R
  BY <1>1, <1>2, SumOfList
<1>4. PICK g : /\ AtEnd(p, path) = g[R]
               /\ g[0] = p
               /\ \A m \in 1 .. R : g[m] = Step(g[m - 1], path[m])
  <2>1. R \in Nat
    BY <1>1
  <2>2. Walks(p, path, R)
    BY <1>3, <2>1, AtEndWalks
  <2> QED BY <2>2 DEF Walks
<1> DEFINE Known(k) == Walked(p, path, g[k], k) \/ Ended(p, path, k, g[k])
           T == { k \in Nat : k <= R => Known(k) }
<1>5. 0 \in T
  <2>1. Walked(p, path, p, 0)
    BY <1>1 DEF Walked
  <2> QED BY <1>4, <2>1
<1>6. ASSUME NEW k \in T PROVE k + 1 \in T
  <2> SUFFICES ASSUME k + 1 <= R PROVE Known(k + 1)
    OBVIOUS
  <2>1. k \in Nat /\ k < R /\ k + 1 \in 1 .. R /\ Known(k)
    BY <1>1
  <2>2. g[k + 1] = Step(g[k], path[k + 1])
    BY <1>4, <2>1
  <2>3. CASE Walked(p, path, g[k], k)
    <3>1. g[k].status = "active"
      BY <2>3 DEF Walked, Alive
    <3>2. g[k + 1] = ObserveMonth(g[k], path[k + 1])
      BY <2>2, <3>1 DEF Step
    <3>3. CASE NextStatus(g[k], path[k + 1]) = "active"
      BY <1>1, <1>2, <2>1, <2>3, <3>2, <3>3, WalkOn
    <3>4. CASE NextStatus(g[k], path[k + 1]) # "active"
      <4>1. k + 1 \in 1 .. k + 1 /\ (k + 1) - 1 = k
        BY <2>1
      <4>2. Ended(p, path, k + 1, g[k + 1])
        BY <2>3, <3>2, <3>4, <4>1 DEF Ended
      <4> QED BY <4>2
    <3> QED BY <3>3, <3>4
  <2>4. CASE Ended(p, path, k, g[k])
    <3>1. PICK n \in 1 .. k : \E x :
             /\ Walked(p, path, x, n - 1)
             /\ g[k] = ObserveMonth(x, path[n])
             /\ NextStatus(x, path[n]) # "active"
      BY <2>4 DEF Ended
    <3>2. PICK x :
             /\ Walked(p, path, x, n - 1)
             /\ g[k] = ObserveMonth(x, path[n])
             /\ NextStatus(x, path[n]) # "active"
      BY <3>1
    <3>3. g[k].status = NextStatus(x, path[n])
      BY <3>2, Observed DEF Walked, Alive
    <3>4. g[k + 1] = g[k]
      BY <2>2, <3>2, <3>3 DEF Step
    <3>5. n \in 1 .. k + 1
      BY <2>1
    <3>6. Ended(p, path, k + 1, g[k + 1])
      BY <3>2, <3>4, <3>5 DEF Ended
    <3> QED BY <3>6
  <2> QED BY <2>1, <2>3, <2>4
<1> HIDE DEF T
<1>7. T \subseteq Nat
  BY DEF T
<1>8. T = Nat
  BY <1>5, <1>6, <1>7, Counting
<1>9. Known(R)
  BY <1>1, <1>8 DEF T
<1>10. ~ Walked(p, path, g[R], R)
  <2> SUFFICES ASSUME Walked(p, path, g[R], R) PROVE FALSE
    OBVIOUS
  <2>1. /\ g[R].elapsed = p.elapsed + R /\ g[R].terms = p.terms
        /\ g[R].elapsed < g[R].terms.months
    BY DEF Walked, Alive
  <2> QED BY <1>1, <2>1
<1> QED BY <1>1, <1>4, <1>9, <1>10 DEF R

-----------------------------------------------------------------------------
(* What the pricers see of a path.                                         *)

\* A set of numbers that is not empty has a least one.
LEMMA LeastExists ==
  ASSUME NEW S \in SUBSET Nat, S # {}
  PROVE  Min(S) \in S /\ \A y \in S : Min(S) <= y
<1>1. PICK x \in S : \A y \in S : <<y, x>> \notin Below
  BY BelowWF, WFMin
<1>2. \A y \in S : x <= y
  <2> SUFFICES ASSUME NEW y \in S, ~ (x <= y) PROVE FALSE
    OBVIOUS
  <2>1. x \in Nat /\ y \in Nat /\ y < x
    OBVIOUS
  <2> QED BY <1>1, <2>1 DEF Below
<1>3. S \in SUBSET Int
  OBVIOUS
<1>4. Min(S) = x
  BY <1>2, <1>3, LeastOf
<1> QED BY <1>2, <1>4

\* A path has a month for each that remains, and ends in the last of them.
LEMMA PathFacts ==
  ASSUME NEW p, Alive(p), NEW path \in [1 .. Remaining(p) -> Spots]
  PROVE  /\ DOMAIN path = 1 .. Remaining(p)
         /\ \A m \in 1 .. Remaining(p) : path[m] \in Nat \ {0}
         /\ Remaining(p) \in 1 .. Remaining(p)
         /\ Last(p, path) = path[Remaining(p)]
<1> DEFINE R == Remaining(p)
<1>1. R \in Nat \ {0}
  BY AliveFacts
<1>2. path \in [1 .. R -> Spots]
  OBVIOUS
<1> HIDE DEF R
<1>3. Len(path) = R
  BY <1>1, <1>2, SumOfList
<1>4. \A m \in 1 .. R : path[m] \in Nat \ {0}
  BY <1>2, LifeAssumption
<1>5. R \in 1 .. R
  BY <1>1
<1>6. DOMAIN path = 1 .. R
  BY <1>2
<1>7. path # << >>
  BY <1>5, <1>6
<1>8. Last(p, path) = path[R]
  BY <1>3, <1>7 DEF Last
<1> QED BY <1>4, <1>5, <1>6, <1>8 DEF R

\* A note is priced as called in the first month that calls it.
LEMMA CalledFacts ==
  ASSUME NEW p, Alive(p), NEW path \in [1 .. Remaining(p) -> Spots]
  PROVE  LET Calls(m) == path[m] >= AutocallLevel(p.terms)
         IN  /\ CalledIn(p, path) \in 0 .. Remaining(p)
             /\ (\A m \in 1 .. Remaining(p) : ~ Calls(m)) => CalledIn(p, path) = 0
             /\ \A n \in 1 .. Remaining(p) :
                  Calls(n) /\ (\A m \in 1 .. n - 1 : ~ Calls(m)) => CalledIn(p, path) = n
<1> DEFINE R == Remaining(p)
           Calls(m) == path[m] >= AutocallLevel(p.terms)
           hits == { m \in 1 .. R : Calls(m) }
<1>1. R \in Nat \ {0}
  BY AliveFacts
<1>2. CalledIn(p, path) = IF hits = {} THEN 0 ELSE Min(hits)
  BY PathFacts DEF CalledIn
<1> HIDE DEF R, Calls
<1>3. hits \in SUBSET Nat /\ hits \subseteq 1 .. R
  BY <1>1
<1>4. CalledIn(p, path) \in 0 .. R
  <2>1. CASE hits = {}
    BY <1>1, <1>2, <2>1
  <2>2. CASE hits # {}
    <3>1. Min(hits) \in hits
      BY <1>3, <2>2, LeastExists
    <3> HIDE DEF hits
    <3>2. Min(hits) \in 1 .. R
      BY <1>3, <3>1
    <3> QED BY <1>1, <1>2, <2>2, <3>2
  <2> QED BY <2>1, <2>2
<1>5. (\A m \in 1 .. R : ~ Calls(m)) => CalledIn(p, path) = 0
  BY <1>2
<1>6. ASSUME NEW n \in 1 .. R, Calls(n), \A m \in 1 .. n - 1 : ~ Calls(m)
      PROVE  CalledIn(p, path) = n
  <2>1. n \in hits
    BY <1>6
  <2>2. \A m \in hits : n <= m
    <3> SUFFICES ASSUME NEW m \in hits, m < n PROVE FALSE
      BY <1>1
    <3>1. m \in 1 .. n - 1 /\ Calls(m)
      BY <1>1
    <3> QED BY <1>6, <3>1
  <2>3. hits \in SUBSET Int
    BY <1>3
  <2> HIDE DEF hits
  <2>4. Min(hits) = n
    BY <2>1, <2>2, <2>3, LeastOf
  <2> QED BY <1>2, <2>1, <2>4
<1> QED BY <1>4, <1>5, <1>6 DEF R, Calls

\* A note is priced as knocked in when it was, or when a month of the path
\* knocks it in: at the current spot there is nothing left to see.
LEMMA KnockedInFacts ==
  ASSUME NEW p, Alive(p), p.terms.family \in Notes, NEW path \in [1 .. Remaining(p) -> Spots]
  PROVE  NoteKnockedIn(p, path) <=>
           p.knocked_in \/ \E m \in 1 .. Remaining(p) : KnocksIn(p.terms, path[m])
<1> DEFINE R == Remaining(p)
           t == p.terms
           seen == Seen(p, path)
<1>1. /\ DOMAIN path = 1 .. R
      /\ \A m \in 1 .. R : path[m] \in Nat \ {0}
      /\ p.spot \in Nat \ {0}
  BY PathFacts DEF Alive
<1>2. /\ t.family \in Notes /\ t.family \notin BarrierOptions
      /\ t.barrier \in Nat \cup {Absent}
      /\ t.barrier # Absent => t.barrier < 100
      /\ t.family = "snowball" => t.barrier # Absent
  BY DEF Alive, Sound, Notes, BarrierOptions, Absent
<1>3. NoteBarrier(t) = t.barrier
  BY <1>2 DEF NoteBarrier
<1>4. /\ p.elapsed \in Nat
      /\ p.elapsed = 0 => p.spot = Fixing
      /\ p.elapsed > 0 => (KnocksIn(t, p.spot) => p.knocked_in)
  BY DEF Alive
<1>5. \A s : KnocksIn(t, s) <=> t.barrier # Absent /\ s <= t.barrier
  BY <1>2 DEF KnocksIn
<1>6. NoteKnockedIn(p, path) <=> p.knocked_in \/ (t.barrier # Absent /\ Min(seen) <= t.barrier)
  BY <1>3 DEF NoteKnockedIn
<1> HIDE DEF t, R
<1>7. seen = {p.spot} \cup { path[m] : m \in 1 .. R }
  BY <1>1 DEF Seen
<1> HIDE DEF seen
<1>8. seen \in SUBSET Nat /\ p.spot \in seen /\ \A m \in 1 .. R : path[m] \in seen
  BY <1>1, <1>7
<1>9. Min(seen) \in seen /\ \A y \in seen : Min(seen) <= y
  BY <1>8, LeastExists
<1>10. t.barrier # Absent /\ p.spot <= t.barrier => p.knocked_in
  <2>1. CASE p.elapsed = 0
    BY <1>2, <1>4, <2>1 DEF Fixing, Absent
  <2>2. CASE p.elapsed > 0
    BY <1>4, <1>5, <2>2
  <2> QED BY <1>4, <2>1, <2>2
<1>11. ASSUME t.barrier # Absent, Min(seen) <= t.barrier
       PROVE  p.knocked_in \/ \E m \in 1 .. R : KnocksIn(t, path[m])
  <2>1. CASE Min(seen) = p.spot
    BY <1>10, <1>11, <2>1
  <2>2. CASE \E m \in 1 .. R : Min(seen) = path[m]
    BY <1>5, <1>11, <2>2
  <2> QED BY <1>7, <1>9, <2>1, <2>2
<1>12. ASSUME NEW m \in 1 .. R, KnocksIn(t, path[m])
       PROVE  t.barrier # Absent /\ Min(seen) <= t.barrier
  <2>1. t.barrier # Absent /\ path[m] <= t.barrier
    BY <1>5, <1>12
  <2>2. Min(seen) <= path[m] /\ Min(seen) \in Nat /\ path[m] \in Nat
    BY <1>8, <1>9
  <2>3. t.barrier \in Int
    BY <1>2, <2>1
  <2> QED BY <2>1, <2>2, <2>3
<1> QED BY <1>6, <1>11, <1>12 DEF t, R

-----------------------------------------------------------------------------
(* The price is the price of what is paid.                                 *)

\* Unless its barrier is its fixing, an option the pricers find touched was
\* found touched by the month that touched it.
LEMMA TouchedFacts ==
  ASSUME NEW p, Alive(p), p.terms.family \in BarrierOptions, ~ IssuedAtBarrier(p)
  PROVE  AlreadyTouched(p) <=> p.touched
<1> DEFINE t == p.terms
<1>1. /\ p.elapsed \in Nat
      /\ p.elapsed = 0 => p.spot = Fixing
      /\ p.elapsed > 0 => (Touches(t, p.spot) => p.touched)
      /\ p.touched \in BOOLEAN
  BY DEF Alive
<1>2. t.barrier \in Nat /\ t.direction = IF t.barrier <= 100 THEN "down" ELSE "up"
  BY DEF Alive, Sound
<1>3. p.elapsed = 0 => t.barrier # 100
  BY DEF IssuedAtBarrier, Fixing
<1>4. Direction(t) = t.direction
  BY <1>2 DEF Direction
<1> HIDE DEF t
<1>5. p.elapsed = 0 => ~ Touches(t, p.spot)
  BY <1>1, <1>2, <1>3, <1>4 DEF Touches, Fixing
<1>6. Touches(t, p.spot) => p.touched
  BY <1>1, <1>5
<1> QED BY <1>6, Zenon DEF AlreadyTouched, t

\* A month that ends a contract on its path: what the simulations count for the
\* path is what that month settles.
LEMMA EndSettles ==
  ASSUME NEW p, Alive(p), NEW path \in [1 .. Remaining(p) -> Spots],
         NEW n \in 1 .. Remaining(p), NEW x, Walked(p, path, x, n - 1),
         NextStatus(x, path[n]) # "active",
         ~ EndsAbovePar(ObserveMonth(x, path[n])), ~ IssuedAtBarrier(p)
  PROVE  PathCashflow(p, path) = Settlement(ObserveMonth(x, path[n]))
<1> DEFINE R == Remaining(p)
           t == p.terms
           end == ObserveMonth(x, path[n])
           Calls(m) == path[m] >= AutocallLevel(t)
<1>1. /\ Sound(t) /\ p.elapsed \in Nat /\ t.months \in Nat /\ R \in Nat \ {0}
      /\ R = t.months - p.elapsed /\ n \in 1 .. R
  BY AliveFacts
<1>2. /\ \A m \in 1 .. R : path[m] \in Nat \ {0}
      /\ Last(p, path) = path[R]
      /\ DOMAIN path = 1 .. R
  BY PathFacts
<1>3. /\ x.terms = t /\ x.elapsed = p.elapsed + (n - 1) /\ IsContract(x)
      /\ x.touched <=> p.touched \/ \E k \in 1 .. n - 1 : Touches(t, path[k])
      /\ x.knocked_in <=> p.knocked_in \/ \E k \in 1 .. n - 1 : KnocksIn(t, path[k])
      /\ t.family \in Notes => \A k \in 1 .. n - 1 : path[k] < AutocallLevel(t)
  BY Zenon DEF Walked, Alive
<1>4. /\ end.terms = t /\ end.elapsed = p.elapsed + n /\ end.spot = path[n]
      /\ end.touched = (x.touched \/ Touches(t, path[n]))
      /\ end.knocked_in = (x.knocked_in \/ KnocksIn(t, path[n]))
      /\ end.status = NextStatus(x, path[n])
  <2>1. end.elapsed = x.elapsed + 1
    BY <1>3, Observed
  <2>2. x.elapsed + 1 = p.elapsed + n
    BY <1>1, <1>3
  <2>3. /\ end.terms = x.terms /\ end.spot = path[n]
        /\ end.touched = (x.touched \/ Touches(x.terms, path[n]))
        /\ end.knocked_in = (x.knocked_in \/ KnocksIn(x.terms, path[n]))
        /\ end.status = NextStatus(x, path[n])
    BY <1>3, Observed
  <2> QED BY <1>3, <2>1, <2>2, <2>3
<1>5. \A k : k \in 1 .. n <=> k \in 1 .. n - 1 \/ k = n
  BY <1>1
<1>6. end.touched <=> p.touched \/ \E k \in 1 .. n : Touches(t, path[k])
  BY <1>3, <1>4, <1>5, Zenon
<1>7. end.knocked_in <=> p.knocked_in \/ \E k \in 1 .. n : KnocksIn(t, path[k])
  BY <1>3, <1>4, <1>5, Zenon
<1>8. AutocallLevel(t) \in Int
  BY DEF AutocallLevel
<1>9. t.family \in Notes => \A k \in 1 .. n - 1 : ~ Calls(k)
  <2> SUFFICES ASSUME t.family \in Notes, NEW k \in 1 .. n - 1 PROVE ~ Calls(k)
    OBVIOUS
  <2>1. path[k] < AutocallLevel(t) /\ path[k] \in Int
    BY <1>1, <1>2, <1>3
  <2> QED BY <1>8, <2>1
<1>10. \/ end.status = "autocalled" /\ t.family \in Notes /\ Calls(n)
       \/ /\ end.status = "knocked_out" /\ t.family \in BarrierOptions /\ t.kind = "knock_out"
          /\ Touches(t, path[n]) /\ ~ t.protected
       \/ /\ end.status = "matured" /\ n = R /\ ~ (t.family \in Notes /\ Calls(n))
  <2>1. x.elapsed \in Int /\ x.terms.months \in Int
    BY <1>1, <1>3
  <2>2. x.elapsed + 1 >= x.terms.months => n = R
    BY <1>1, <1>3
  <2> QED BY <1>3, <1>4, <2>1, <2>2, Statuses
<1>11. /\ CalledIn(p, path) \in 0 .. R
       /\ (\A m \in 1 .. R : ~ Calls(m)) => CalledIn(p, path) = 0
       /\ Calls(n) /\ (\A m \in 1 .. n - 1 : ~ Calls(m)) => CalledIn(p, path) = n
  BY CalledFacts
<1>12. ~ EndsAbovePar(end) /\ ~ IssuedAtBarrier(p)
  OBVIOUS
<1> HIDE DEF R, t, end, Calls
<1>13. CASE end.status = "autocalled"
  <2>1. t.family \in Notes /\ CalledIn(p, path) = n /\ n > 0 /\ n \in Nat
    BY <1>1, <1>9, <1>10, <1>11, <1>13
  <2>2. PathCashflow(p, path) = WithCoupon(t, p.elapsed + n)
    BY <2>1 DEF PathCashflow, NoteCashflow, t
  <2>3. Settlement(end) = WithCoupon(t, p.elapsed + n)
    BY <1>4, <1>13 DEF Settlement
  <2> QED BY <2>2, <2>3 DEF end
<1>14. CASE end.status = "knocked_out"
  <2>1. /\ t.family \in BarrierOptions /\ t.family \notin Notes /\ t.family \notin Vanilla
        /\ t.kind = "knock_out" /\ Touches(t, path[n])
    BY <1>10, <1>14 DEF BarrierOptions, Notes, Vanilla
  <2>2. \E m \in DOMAIN path : Touches(t, path[m])
    BY <1>1, <1>2, <2>1
  <2>3. Protection(t) \in Int
    BY <1>1, Protections DEF Sound, Par
  <2>4. PathCashflow(p, path) = Protection(t)
    BY <2>1, <2>2, <2>3 DEF PathCashflow, OptionCashflow, OptionCashIf, TouchedOn, t
  <2>5. Settlement(end) = Protection(t)
    BY <1>4, <1>14 DEF Settlement
  <2> QED BY <2>4, <2>5 DEF end
<1>15. CASE end.status = "matured"
  <2>1. n = R /\ end.spot = Last(p, path) /\ end.spot \in Nat
    BY <1>1, <1>2, <1>4, <1>10, <1>15
  <2>2. CASE t.family \in Notes
    <3>1. CalledIn(p, path) = 0
      BY <1>5, <1>9, <1>10, <1>11, <1>15, <2>1, <2>2
    <3>2. NoteKnockedIn(p, path) <=> end.knocked_in
      BY <1>7, <2>1, <2>2, KnockedInFacts DEF t, R
    <3>3. Settlement(end) = MaturityOfNote(end)
      BY <1>4, <1>15, <2>2 DEF Settlement
    <3>4. PathCashflow(p, path) = NoteCashflow(p, path)
      BY <2>2 DEF PathCashflow, t
    <3>5. CASE t.family = "snowball"
      BY <1>4, <2>1, <3>1, <3>2, <3>3, <3>4, <3>5
         DEF NoteCashflow, MaturityOfNote, Fixing, t, end
    <3>6. CASE t.family = "autocallable"
      <4>1. end.terms.protected <=> t.protected
        BY <1>4, Zenon
      <4>2. CASE t.protected
        <5>1. NoteCashflow(p, path) = WithCoupon(t, t.months)
          BY <3>1, <3>6, <4>2 DEF NoteCashflow, t
        <5>2. MaturityOfNote(end) = WithCoupon(t, t.months)
          BY <1>4, <3>6, <4>2 DEF MaturityOfNote
        <5> QED BY <3>3, <3>4, <5>1, <5>2 DEF end
      <4>3. CASE ~ t.protected /\ end.knocked_in
        <5>1. end.spot < Fixing
          BY <1>4, <1>12, <1>15, <2>1, <3>6, <4>3 DEF EndsAbovePar, Fixing
        <5>2. MaturityOfNote(end) = Tracking(end.spot)
          BY <1>4, <4>3, <5>1 DEF MaturityOfNote
        <5>3. NoteCashflow(p, path) = Min({Tracking(end.spot), Par})
          BY <2>1, <3>1, <3>2, <3>6, <4>3 DEF NoteCashflow, t
        <5>4. Tracking(end.spot) \in Int /\ Par \in Int /\ Tracking(end.spot) <= Par
          BY <2>1, <5>1 DEF Tracking, Par, Fixing
        <5>5. Min({Tracking(end.spot), Par}) = Tracking(end.spot)
          BY <5>4, LeastOf
        <5> QED BY <3>3, <3>4, <5>2, <5>3, <5>5 DEF end
      <4>4. CASE ~ end.knocked_in
        <5>1. NoteCashflow(p, path) = WithCoupon(t, t.months)
          BY <3>1, <3>2, <3>6, <4>4 DEF NoteCashflow, t
        <5>2. MaturityOfNote(end) = WithCoupon(t, t.months)
          BY <1>4, <4>4 DEF MaturityOfNote
        <5> QED BY <3>3, <3>4, <5>1, <5>2 DEF end
      <4> QED BY <4>2, <4>3, <4>4
    <3> QED BY <2>2, <3>5, <3>6 DEF Notes
  <2>3. CASE t.family \notin Notes
    <3> DEFINE onPath == AlreadyTouched(p) \/ \E m \in DOMAIN path : Touches(t, path[m])
    <3>1. t.family \in Vanilla \/ t.family \in BarrierOptions
      BY <1>1, <2>3 DEF Sound, Families
    <3>2. Settlement(end) = MaturityOfOption(end)
      BY <1>4, <1>15, <2>3 DEF Settlement
    <3>3. PathCashflow(p, path) = OptionCashflow(p, path)
      BY <2>3 DEF PathCashflow, t
    <3>4. CASE t.family \in Vanilla
      <4>1. MaturityOfOption(end) = Protection(t) + OptionCash(t, end.spot)
        BY <1>4, <3>4 DEF MaturityOfOption, OptionAlive
      <4>2. OptionCashflow(p, path) = Protection(t) + OptionCash(t, end.spot)
        BY <2>1, <3>4 DEF OptionCashflow, OptionCashIf, t
      <4> QED BY <3>2, <3>3, <4>1, <4>2 DEF end
    <3>5. CASE t.family \in BarrierOptions
      <4>1. t.kind \in {"knock_in", "knock_out"} /\ t.family \notin Vanilla
        BY <1>1, <3>5 DEF Sound, OptionKind, BarrierOptions, Vanilla
      <4>2. AlreadyTouched(p) <=> p.touched
        BY <1>12, <3>5, TouchedFacts DEF t
      <4>3. onPath <=> end.touched
        BY <1>2, <1>6, <2>1, <4>2, Zenon
      <4> HIDE DEF onPath
      <4>4. CASE end.touched
        <5>1. MaturityOfOption(end) =
                Protection(t) + (IF t.kind = "knock_in" THEN OptionCash(t, end.spot) ELSE 0)
          BY <1>4, <4>1, <4>4 DEF MaturityOfOption, OptionAlive
        <5>2. OptionCashflow(p, path) =
                Protection(t) + (IF t.kind = "knock_in" THEN OptionCash(t, end.spot) ELSE 0)
          BY <2>1, <4>1, <4>3, <4>4 DEF OptionCashflow, OptionCashIf, TouchedOn, onPath, t
        <5> QED BY <3>2, <3>3, <5>1, <5>2 DEF end
      <4>5. CASE ~ end.touched
        <5>1. MaturityOfOption(end) =
                Protection(t) + (IF t.kind = "knock_in" THEN 0 ELSE OptionCash(t, end.spot))
          BY <1>4, <4>1, <4>5 DEF MaturityOfOption, OptionAlive
        <5>2. OptionCashflow(p, path) =
                Protection(t) + (IF t.kind = "knock_in" THEN 0 ELSE OptionCash(t, end.spot))
          BY <2>1, <4>1, <4>3, <4>5 DEF OptionCashflow, OptionCashIf, TouchedOn, onPath, t
        <5> QED BY <3>2, <3>3, <5>1, <5>2 DEF end
      <4> QED BY <4>4, <4>5
    <3> QED BY <3>1, <3>4, <3>5
  <2> QED BY <2>2, <2>3
<1> QED BY <1>10, <1>13, <1>14, <1>15 DEF end

\* A barrier that is touched by no month end leaves the contract untouched
\* when it matures, whatever happened in between.
LEMMA UntouchedMatures ==
  ASSUME NEW p, Alive(p), NEW path \in [1 .. Remaining(p) -> Spots],
         NEW n \in 1 .. Remaining(p), NEW x, Walked(p, path, x, n - 1),
         NextStatus(x, path[n]) # "active",
         p.terms.family \in BarrierOptions, ~ TouchedOn(p, path)
  PROVE  LET end == ObserveMonth(x, path[n])
         IN  Settlement(end) =
               Protection(p.terms)
                 + (IF p.terms.kind = "knock_in" THEN 0 ELSE OptionCash(p.terms, Last(p, path)))
<1> DEFINE R == Remaining(p)
           t == p.terms
           end == ObserveMonth(x, path[n])
<1>1. /\ Sound(t) /\ p.elapsed \in Nat /\ t.months \in Nat /\ R \in Nat \ {0}
      /\ R = t.months - p.elapsed /\ n \in 1 .. R
  BY AliveFacts
<1>2. Last(p, path) = path[R] /\ DOMAIN path = 1 .. R
  BY PathFacts
<1>3. /\ x.terms = t /\ x.elapsed = p.elapsed + (n - 1) /\ IsContract(x)
      /\ x.touched <=> p.touched \/ \E k \in 1 .. n - 1 : Touches(t, path[k])
  BY Zenon DEF Walked, Alive
<1>4. \A m \in 1 .. R : ~ Touches(t, path[m])
  BY <1>2, Zenon DEF TouchedOn
<1>5. ~ p.touched
  BY Zenon DEF TouchedOn, AlreadyTouched
<1>6. t.family \notin Notes /\ t.family \notin Vanilla /\ t.kind \in {"knock_in", "knock_out"}
  BY <1>1 DEF Sound, OptionKind, BarrierOptions, Notes, Vanilla
<1>7. ~ x.touched
  <2>1. \A k : k \in 1 .. n - 1 => k \in 1 .. R
    BY <1>1
  <2> QED BY <1>3, <1>4, <1>5, <2>1, Zenon
<1>8. ~ Touches(t, path[n])
  BY <1>1, <1>4
<1>9. /\ end.terms = t /\ end.spot = path[n] /\ end.status = NextStatus(x, path[n])
      /\ end.touched = (x.touched \/ Touches(t, path[n]))
  BY <1>3, Observed
<1>10. ~ end.touched
  BY <1>7, <1>8, <1>9, Zenon
<1>11. NextStatus(x, path[n]) = "matured" /\ n = R
  <2>1. x.elapsed + 1 >= x.terms.months => n = R
    BY <1>1, <1>3
  <2>2. x.elapsed \in Int /\ x.terms.months \in Int /\ x.terms = t
    BY <1>1, <1>3
  <2> HIDE DEF t, R
  <2>3. NextStatus(x, path[n]) = "matured" /\ x.elapsed + 1 >= x.terms.months
    BY <1>6, <1>8, <2>2, Statuses DEF t
  <2> QED BY <2>1, <2>3
<1>12. Settlement(end) = MaturityOfOption(end)
  BY <1>6, <1>9, <1>11 DEF Settlement
<1>13. MaturityOfOption(end) =
         Protection(t) + (IF t.kind = "knock_in" THEN 0 ELSE OptionCash(t, end.spot))
  BY <1>6, <1>9, <1>10 DEF MaturityOfOption, OptionAlive
<1> QED BY <1>2, <1>9, <1>11, <1>12, <1>13 DEF end

\* The price errs on one side, whatever the lattice, the month and the path:
\* what is simulated is what month by month observation settles, and what is
\* priced is that too, or for a barrier option touched between month ends no
\* less for a knock-in and no more for a knock-out (_mc_stats,
\* _mc_vanilla_barrier_stats and price_product against
\* _process_position_observation and _position_settlement_amount).
THEOREM PriceIsPaid == LifeSpec => []PricedAsSettled
<1>1. LifeInv => PricedAsSettled
  <2> SUFFICES ASSUME LifeInv, stage = "issued", NEW path \in Paths,
                      ~ EndsAbovePar(AtEnd(contract, path)), ~ IssuedAtBarrier(contract)
               PROVE  /\ PathCashflow(contract, path) = Settlement(AtEnd(contract, path))
                      /\ \A extreme \in Spots :
                           IF ~ TouchedBetween(contract, path, extreme)
                           THEN PricedCashflow(contract, path, extreme)
                                  = Settlement(AtEnd(contract, path))
                           ELSE IF contract.terms.kind = "knock_in"
                           THEN PricedCashflow(contract, path, extreme)
                                  >= Settlement(AtEnd(contract, path))
                           ELSE PricedCashflow(contract, path, extreme)
                                  <= Settlement(AtEnd(contract, path))
    BY DEF PricedAsSettled
  <2> DEFINE t == contract.terms
             settled == Settlement(AtEnd(contract, path))
             cash == OptionCash(t, Last(contract, path))
  <2>1. Alive(contract) /\ path \in [1 .. Remaining(contract) -> Spots]
    BY DEF LifeInv, Paths
  <2>2. Ended(contract, path, Remaining(contract), AtEnd(contract, path))
    BY <2>1, PathEnds
  <2>3. PICK n \in 1 .. Remaining(contract) : \E x :
          /\ Walked(contract, path, x, n - 1)
          /\ AtEnd(contract, path) = ObserveMonth(x, path[n])
          /\ NextStatus(x, path[n]) # "active"
    BY <2>2 DEF Ended
  <2>4. PICK x :
          /\ Walked(contract, path, x, n - 1)
          /\ AtEnd(contract, path) = ObserveMonth(x, path[n])
          /\ NextStatus(x, path[n]) # "active"
    BY <2>3
  <2>5. ~ EndsAbovePar(ObserveMonth(x, path[n]))
    BY <2>4
  <2>6. PathCashflow(contract, path) = settled
    BY <2>1, <2>4, <2>5, EndSettles
  <2>7. ASSUME NEW extreme \in Spots, ~ TouchedBetween(contract, path, extreme)
        PROVE  PricedCashflow(contract, path, extreme) = settled
    <3>1. CASE t.family \in BarrierOptions
      <4>1. TouchedOn(contract, path) \/ Touches(t, extreme) <=> TouchedOn(contract, path)
        BY <2>7, <3>1, Zenon DEF TouchedBetween
      <4>2. PricedCashflow(contract, path, extreme) = PathCashflow(contract, path)
        <5>1. CASE TouchedOn(contract, path)
          BY <5>1 DEF PricedCashflow, PathCashflow, OptionCashflow, OptionCashIf
        <5>2. CASE ~ TouchedOn(contract, path)
          BY <4>1, <5>2 DEF PricedCashflow, PathCashflow, OptionCashflow, OptionCashIf
        <5> QED BY <5>1, <5>2
      <4> QED BY <2>6, <4>2
    <3>2. CASE t.family \in Notes
      BY <2>6, <3>2, Zenon DEF PricedCashflow, PathCashflow
    <3>3. CASE t.family \in Vanilla
      BY <2>6, <3>3, Zenon DEF PricedCashflow, PathCashflow, OptionCashflow, OptionCashIf
    <3>4. t.family \in Families
      BY <2>1, AliveFacts DEF Sound
    <3> QED BY <3>1, <3>2, <3>3, <3>4 DEF Families
  <2>8. ASSUME NEW extreme \in Spots, TouchedBetween(contract, path, extreme)
        PROVE  IF t.kind = "knock_in" THEN PricedCashflow(contract, path, extreme) >= settled
               ELSE PricedCashflow(contract, path, extreme) <= settled
    <3>1. t.family \in BarrierOptions /\ ~ TouchedOn(contract, path) /\ Touches(t, extreme)
      BY <2>8 DEF TouchedBetween
    <3>2. settled = Protection(t) + (IF t.kind = "knock_in" THEN 0 ELSE cash)
      BY <2>1, <2>4, <3>1, UntouchedMatures
    <3>3. t.family \notin Notes /\ t.family \notin Vanilla
      BY <3>1 DEF BarrierOptions, Notes, Vanilla
    <3>4. PricedCashflow(contract, path, extreme) =
            Protection(t) + (IF t.kind = "knock_in" THEN cash ELSE 0)
      BY <3>1, <3>3, Zenon DEF PricedCashflow, OptionCashIf
    <3>5. cash \in Nat /\ Protection(t) \in Int
      <4>1. Sound(t) /\ Last(contract, path) \in Nat
        BY <2>1, AliveFacts, PathFacts
      <4>2. t.participation \in Nat /\ t.strike \in Nat /\ t.protected \in BOOLEAN
        BY <4>1, <3>1, <3>3 DEF Sound
      <4> QED BY <4>1, <4>2, OptionIsNat, Protections DEF Par
    <3> HIDE DEF cash, settled, t
    <3> QED BY <3>2, <3>4, <3>5
  <2> QED BY <2>6, <2>7, <2>8
<1> QED BY <1>1, LifeInvHolds, PTL

-----------------------------------------------------------------------------
(* What is announced.                                                      *)

\* The row of a payoff table an option settles by.
LEMMA OptionsSettleAsTabled ==
  ASSUME LifeInv, stage = "settled", contract.terms.family \notin Notes
  PROVE  paid = Tabled(contract)
<1> DEFINE t == contract.terms
           floor == IF t.protected THEN Par ELSE 0
<1>1. /\ Sound(t) /\ contract.spot \in Nat \ {0} /\ paid = Settlement(contract)
      /\ \/ /\ contract.status = "knocked_out" /\ t.family \in BarrierOptions
            /\ t.kind = "knock_out" /\ contract.touched /\ ~ t.protected
         \/ contract.status = "matured"
  BY Closing
<1>2. t.family \in Vanilla \/ t.family \in BarrierOptions
  BY <1>1 DEF Sound, Families
<1>3. t.family \in BarrierOptions => t.kind \in {"knock_in", "knock_out"}
  BY <1>1 DEF Sound, OptionKind
<1>4. Protection(t) = floor
  BY Protections, Zenon
<1>5. floor \in Int
  BY DEF Par
<1>6. Tabled(contract) = TabledOption(t, contract.spot, contract.touched)
  BY DEF Tabled
<1>7. t.participation \in Nat /\ t.strike \in Nat /\ contract.spot \in Nat
  BY <1>1 DEF Sound
<1>8. OptionCash(t, contract.spot) \in Int
  BY <1>7, OptionIsNat
<1>9. CASE contract.status = "knocked_out"
  <2>1. t.family \notin Vanilla /\ t.kind # "knock_in" /\ contract.touched
    BY <1>1, <1>9 DEF BarrierOptions, Vanilla
  <2>2. TabledOption(t, contract.spot, contract.touched) = floor
    BY <2>1 DEF TabledOption
  <2>3. Settlement(contract) = Protection(t)
    BY <1>9 DEF Settlement
  <2> QED BY <1>1, <1>4, <1>6, <2>2, <2>3
<1>10. CASE contract.status = "matured"
  <2> DEFINE cash == OptionCash(t, contract.spot)
  <2>1. Settlement(contract) = MaturityOfOption(contract)
    BY <1>10 DEF Settlement
  <2>2. t.family \notin Vanilla =>
          (OptionAlive(t, contract.touched) <=> (t.kind = "knock_in" <=> contract.touched))
    BY <1>2, <1>3 DEF OptionAlive
  <2>3. t.family \in Vanilla => OptionAlive(t, contract.touched)
    BY DEF OptionAlive
  <2>4. MaturityOfOption(contract) =
          Protection(t) + (IF OptionAlive(t, contract.touched) THEN cash ELSE 0)
    BY DEF MaturityOfOption
  <2>5. TabledOption(t, contract.spot, contract.touched) =
          IF OptionAlive(t, contract.touched) THEN floor + cash ELSE floor
    BY <2>2, <2>3 DEF TabledOption
  <2> HIDE DEF floor, cash, t
  <2> QED BY <1>1, <1>4, <1>5, <1>6, <2>1, <2>4, <2>5
<1> QED BY <1>1, <1>9, <1>10

\* No path of a note pays more than its last coupon,
LEMMA NotesAreCapped ==
  ASSUME NEW p, Alive(p), p.terms.family \in Notes, NEW path \in [1 .. Remaining(p) -> Spots]
  PROVE  PathCashflow(p, path) <= BestCase(p.terms)
<1> DEFINE R == Remaining(p)
           t == p.terms
           last == Last(p, path)
           called == CalledIn(p, path)
           lost == NoteKnockedIn(p, path)
<1>1. /\ Sound(t) /\ p.elapsed \in Nat /\ t.months \in Nat /\ R \in Nat \ {0}
      /\ R = t.months - p.elapsed
  BY AliveFacts
<1>2. /\ called \in 0 .. R /\ last \in Nat \ {0}
  BY CalledFacts, PathFacts
<1>3. t.family \in {"snowball", "autocallable"} /\ t.coupon \in Nat
  BY <1>1 DEF Sound, Notes
<1>4. PathCashflow(p, path) =
        CASE called > 0 -> WithCoupon(t, p.elapsed + called)
          [] called = 0 /\ t.family = "snowball" /\ lost /\ last < Fixing -> Tracking(last)
          [] called = 0 /\ t.family = "autocallable" /\ lost /\ ~ t.protected
               -> Min({Tracking(last), Par})
          [] OTHER -> WithCoupon(t, t.months)
  BY DEF PathCashflow, NoteCashflow
<1>5. BestCase(t) = WithCoupon(t, t.months)
  BY DEF BestCase
<1> HIDE DEF R, t, last, called, lost
<1>6. WithCoupon(t, t.months) \in Nat /\ Par <= WithCoupon(t, t.months)
  BY <1>1, <1>3, CouponsGrow
<1>7. /\ p.elapsed + called \in Nat /\ p.elapsed + called <= t.months
      /\ called \in Nat
  BY <1>1, <1>2
<1>8. WithCoupon(t, p.elapsed + called) \in Nat /\ WithCoupon(t, p.elapsed + called) <= WithCoupon(t, t.months)
  BY <1>1, <1>3, <1>7, CouponsGrow
<1>9. Tracking(last) \in Nat /\ (last < Fixing => Tracking(last) <= Par)
  BY <1>2 DEF Tracking, Fixing, Par
<1>10. Min({Tracking(last), Par}) \in Nat /\ Min({Tracking(last), Par}) <= Par
  <2>1. {Tracking(last), Par} \in SUBSET Nat
    BY <1>9 DEF Par
  <2>2. /\ Min({Tracking(last), Par}) \in {Tracking(last), Par}
        /\ Min({Tracking(last), Par}) <= Par
    BY <2>1, LeastExists
  <2> QED BY <2>1, <2>2
<1>11. CASE called > 0
  BY <1>4, <1>5, <1>8, <1>11 DEF t
<1>12. CASE called = 0 /\ t.family = "snowball" /\ lost /\ last < Fixing
  BY <1>4, <1>5, <1>6, <1>9, <1>12 DEF t, Par
<1>13. CASE called = 0 /\ t.family = "autocallable" /\ lost /\ ~ t.protected
  BY <1>4, <1>5, <1>6, <1>10, <1>13 DEF t, Par
<1>14. CASE /\ called = 0
            /\ ~ (t.family = "snowball" /\ lost /\ last < Fixing)
            /\ ~ (t.family = "autocallable" /\ lost /\ ~ t.protected)
  BY <1>4, <1>5, <1>6, <1>14 DEF t
<1> QED BY <1>7, <1>11, <1>12, <1>13, <1>14

\* and none of a call that knocks out more than it would at its barrier.
LEMMA CallsAreCapped ==
  ASSUME NEW p, Alive(p), p.terms.family = "barrier_call", p.terms.kind = "knock_out",
         NEW path \in [1 .. Remaining(p) -> Spots]
  PROVE  PathCashflow(p, path) <= BestCase(p.terms)
<1> DEFINE R == Remaining(p)
           t == p.terms
           last == Last(p, path)
           touched == AlreadyTouched(p) \/ \E m \in DOMAIN path : Touches(t, path[m])
<1>1. Sound(t) /\ R \in 1 .. R /\ DOMAIN path = 1 .. R /\ last = path[R] /\ path[R] \in Nat
  BY AliveFacts, PathFacts
<1>2. t.family \in BarrierOptions /\ t.family \notin Notes /\ t.family \notin Vanilla /\ IsCall(t)
  BY DEF BarrierOptions, Notes, Vanilla, IsCall
<1>3. t.barrier \in Nat /\ t.barrier > 100 /\ Direction(t) = "up"
  BY <1>1, <1>2 DEF Sound, OptionKind, Direction
<1>4. t.participation \in Nat /\ t.strike \in Nat /\ t.protected \in BOOLEAN
  BY <1>1 DEF Sound
<1>5. PathCashflow(p, path) = Protection(t) + (IF ~ touched THEN OptionCash(t, last) ELSE 0)
  BY <1>2 DEF PathCashflow, OptionCashflow, OptionCashIf, TouchedOn
<1>6. BestCase(t) = Protection(t) + OptionCash(t, t.barrier)
  BY <1>2 DEF BestCase
<1>7. ~ touched => last <= t.barrier
  <2> SUFFICES ASSUME ~ touched PROVE last <= t.barrier
    OBVIOUS
  <2>1. ~ Touches(t, path[R])
    BY <1>1
  <2> HIDE DEF t
  <2> QED BY <1>1, <1>3, <2>1 DEF Touches, Absent
<1>8. Protection(t) \in Nat
  BY <1>4, Protections DEF Par
<1> HIDE DEF R, t, last, touched
<1>9. OptionCash(t, t.barrier) \in Nat
  BY <1>3, <1>4, OptionIsNat
<1>10. CASE ~ touched
  <2>1. OptionCash(t, last) \in Nat /\ OptionCash(t, last) <= OptionCash(t, t.barrier)
    BY <1>1, <1>2, <1>3, <1>4, <1>7, <1>10, OptionPays
  <2> QED BY <1>5, <1>6, <1>8, <1>9, <1>10, <2>1 DEF t
<1>11. CASE touched
  BY <1>5, <1>6, <1>8, <1>9, <1>11 DEF t
<1> QED BY <1>10, <1>11

\* What is shown with a quote is what happens: an option settles what its
\* payoff table has for it, and no path of a contract said to be capped pays
\* more than its best case (build_payoff_table, best_case_line).
THEOREM AnnouncementsHold == LifeSpec => []AnnouncedAsPaid
<1>1. LifeInv => AnnouncedAsPaid
  <2> SUFFICES ASSUME LifeInv PROVE AnnouncedAsPaid
    OBVIOUS
  <2>1. stage = "settled" /\ contract.terms.family \notin Notes => paid = Tabled(contract)
    BY OptionsSettleAsTabled
  <2>2. ASSUME stage = "issued", Capped(contract.terms),
               ~ (contract.terms.family = "barrier_put" /\ Direction(contract.terms) = "up"),
               NEW path \in Paths
        PROVE  PathCashflow(contract, path) <= BestCase(contract.terms)
    <3> DEFINE t == contract.terms
    <3>1. Alive(contract) /\ path \in [1 .. Remaining(contract) -> Spots]
      BY <2>2 DEF LifeInv, Paths
    <3>2. CASE t.family \in Notes
      BY <3>1, <3>2, NotesAreCapped
    <3>3. CASE t.family \notin Notes
      <4>1. t.family \in BarrierOptions /\ t.kind = "knock_out"
        BY <2>2, <3>3 DEF Capped
      <4>2. Direction(t) = "up"
        BY <3>1, <4>1 DEF Alive, Sound, OptionKind, Direction
      <4>3. t.family = "barrier_call"
        BY <2>2, <4>1, <4>2 DEF BarrierOptions
      <4> QED BY <3>1, <4>1, <4>3, CallsAreCapped
    <3> QED BY <3>2, <3>3
  <2> QED BY <2>1, <2>2 DEF AnnouncedAsPaid
<1> QED BY <1>1, LifeInvHolds, PTL

-----------------------------------------------------------------------------
(* Formulas.                                                               *)

\* Combinations of the four terms differ where a factor does.
LEMMA TermsDiffer ==
  ASSUME NEW a, NEW b, NEW c, NEW d, NEW w, NEW x, NEW y, NEW z,
         Terms(a, b, c, d) = Terms(w, x, y, z)
  PROVE  a = w /\ b = x /\ c = y /\ d = z
<1> DEFINE f == Terms(a, b, c, d)
           g == Terms(w, x, y, z)
<1>1. f.A = a /\ f.B = b /\ f.C = c /\ f.D = d
  BY DEF Terms
<1>2. g.A = w /\ g.B = x /\ g.C = y /\ g.D = z
  BY DEF Terms
<1>3. f = g
  OBVIOUS
<1> HIDE DEF f, g
<1> QED BY <1>1, <1>2, <1>3

\* Below the fixing an option knocks in: its formula always has terms, and is
\* the vanilla one for a put struck under its barrier;
LEMMA KnockInForms ==
  ASSUME NEW call, NEW high
  PROVE  /\ KnockInTerms("down", call, high) # NoTerms
         /\ KnockInTerms("down", call, high) = VanillaTerms => ~ call /\ ~ high
<1>1. CASE call
  <2>1. KnockInTerms("down", call, high) = IF high THEN Terms(0, 0, 1, 0) ELSE Terms(1, -1, 0, 1)
    BY <1>1 DEF KnockInTerms
  <2>2. /\ Terms(0, 0, 1, 0) # Terms(0, 0, 0, 0) /\ Terms(1, -1, 0, 1) # Terms(0, 0, 0, 0)
        /\ Terms(0, 0, 1, 0) # Terms(1, 0, 0, 0) /\ Terms(1, -1, 0, 1) # Terms(1, 0, 0, 0)
    BY TermsDiffer
  <2> QED BY <1>1, <2>1, <2>2 DEF NoTerms, VanillaTerms
<1>2. CASE ~ call
  <2>1. KnockInTerms("down", call, high) = IF high THEN Terms(0, 1, -1, 1) ELSE VanillaTerms
    BY <1>2 DEF KnockInTerms
  <2> QED BY <1>2, <2>1, TermsDiffer DEF NoTerms, VanillaTerms
<1> QED BY <1>1, <1>2

\* above it one knocks out: its formula is never the vanilla one, and has no
\* terms for a call struck beyond its barrier.
LEMMA KnockOutForms ==
  ASSUME NEW call, NEW high
  PROVE  /\ KnockOutTerms("up", call, high) # VanillaTerms
         /\ KnockOutTerms("up", call, high) = NoTerms => call /\ high
<1>1. CASE call
  <2>1. KnockOutTerms("up", call, high) = IF high THEN NoTerms ELSE Terms(1, -1, 1, -1)
    BY <1>1 DEF KnockOutTerms
  <2>2. /\ Terms(0, 0, 0, 0) # Terms(1, 0, 0, 0) /\ Terms(1, -1, 1, -1) # Terms(1, 0, 0, 0)
        /\ Terms(1, -1, 1, -1) # Terms(0, 0, 0, 0)
    BY TermsDiffer
  <2> QED BY <1>1, <2>1, <2>2 DEF NoTerms, VanillaTerms
<1>2. CASE ~ call
  <2>1. KnockOutTerms("up", call, high) = IF high THEN Terms(0, 1, 0, -1) ELSE Terms(1, 0, -1, 0)
    BY <1>2 DEF KnockOutTerms
  <2> QED BY <1>2, <2>1, TermsDiffer DEF NoTerms, VanillaTerms
<1> QED BY <1>1, <1>2

\* A knock-in and a knock-out option add up to the vanilla one.
LEMMA InAndOutIsVanilla ==
  ASSUME NEW direction \in {"up", "down"}, NEW call \in BOOLEAN, NEW high \in BOOLEAN
  PROVE  Plus(KnockInTerms(direction, call, high), KnockOutTerms(direction, call, high)) = VanillaTerms
<1>2. CASE direction = "down" /\ call
  <2>1. /\ KnockInTerms(direction, call, high) = IF high THEN Terms(0, 0, 1, 0) ELSE Terms(1, -1, 0, 1)
        /\ KnockOutTerms(direction, call, high) = IF high THEN Terms(1, 0, -1, 0) ELSE Terms(0, 1, 0, -1)
    BY <1>2 DEF KnockInTerms, KnockOutTerms
  <2> QED BY <2>1 DEF Plus, Terms, VanillaTerms
<1>3. CASE direction = "up" /\ call
  <2>1. /\ KnockInTerms(direction, call, high) = IF high THEN VanillaTerms ELSE Terms(0, 1, -1, 1)
        /\ KnockOutTerms(direction, call, high) = IF high THEN NoTerms ELSE Terms(1, -1, 1, -1)
    BY <1>3 DEF KnockInTerms, KnockOutTerms
  <2> QED BY <2>1 DEF Plus, Terms, VanillaTerms, NoTerms
<1>4. CASE direction = "down" /\ ~ call
  <2>1. /\ KnockInTerms(direction, call, high) = IF high THEN Terms(0, 1, -1, 1) ELSE VanillaTerms
        /\ KnockOutTerms(direction, call, high) = IF high THEN Terms(1, -1, 1, -1) ELSE NoTerms
    BY <1>4 DEF KnockInTerms, KnockOutTerms
  <2> QED BY <2>1 DEF Plus, Terms, VanillaTerms, NoTerms
<1>5. CASE direction = "up" /\ ~ call
  <2>1. /\ KnockInTerms(direction, call, high) = IF high THEN Terms(1, -1, 0, 1) ELSE Terms(0, 0, 1, 0)
        /\ KnockOutTerms(direction, call, high) = IF high THEN Terms(0, 1, 0, -1) ELSE Terms(1, 0, -1, 0)
    BY <1>5 DEF KnockInTerms, KnockOutTerms
  <2> QED BY <2>1 DEF Plus, Terms, VanillaTerms
<1> QED BY <1>2, <1>3, <1>4, <1>5

\* A vanilla option reaches a hurdle from one spot on: the outcome of a path
\* meets the hurdle if and only if the path ends there.
LEMMA HurdleAtOneSpot ==
  ASSUME NEW p, Alive(p), p.terms.family \in Vanilla,
         NEW path \in [1 .. Remaining(p) -> Spots], NEW price \in Prices, NEW hurdle \in Hurdles
  PROVE  ReachesHurdle(p, price, hurdle, Last(p, path))
           <=> MeetsHurdle(PathOutcome(p, path), price, hurdle)
<1> DEFINE R == Remaining(p)
           t == p.terms
           spot == Last(p, path)
           gain == IF IsCall(t) THEN spot - t.strike ELSE t.strike - spot
           back == Protection(t)
           part == t.participation
           owed == hurdle * (price * R)
           excess == Excess(p, price, hurdle)
           cash == OptionCash(t, spot)
<1>1. /\ Sound(t) /\ R \in Nat /\ spot \in Nat \ {0}
      /\ price \in Nat \ {0} /\ hurdle \in Nat
  BY AliveFacts, PathFacts, LifeAssumption
<1>2. part \in Nat \ {0} /\ t.strike \in Nat \ {0} /\ back \in Nat
  <2>1. part \in Nat \ {0} /\ t.strike \in Nat \ {0}
    BY <1>1 DEF Sound
  <2>2. back = Par \/ back = 0
    <3>1. (t.protected => back = Par) /\ (~ t.protected => back = 0)
      BY Protections, Zenon
    <3> QED BY <3>1
  <2> QED BY <2>1, <2>2 DEF Par
<1>3. price * R \in Nat /\ owed \in Nat
  BY <1>1, Products
<1>4. excess = (1200 * price + owed) - 1200 * back
  <2>1. price * (1200 + hurdle * R) = 1200 * price + price * (hurdle * R)
    <3>1. hurdle * R \in Nat
      BY <1>1, Products
    <3> QED BY <1>1, <3>1
  <2>2. price * (hurdle * R) = owed
    BY <1>1
  <2> DEFINE whole == price * (1200 + hurdle * R)
  <2>3. excess = whole - 1200 * back
    BY DEF Excess, Required
  <2>4. whole = 1200 * price + owed
    BY <2>1, <2>2
  <2> HIDE DEF excess, owed, back, R, whole
  <2> QED BY <2>3, <2>4
<1>5. /\ PathOutcome(p, path).cash = back + cash
      /\ PathOutcome(p, path).months = R
  <2>1. t.family \notin Notes
    BY DEF Vanilla, Notes
  <2> QED BY <2>1 DEF PathOutcome, PathCashflow, OptionCashflow, OptionCashIf
<1>6. gain \in Int
  BY <1>1, <1>2
<1>7. cash = 12 * part * Positive(gain)
  BY DEF OptionCash
<1>8. ReachesHurdle(p, price, hurdle, spot) <=>
        \/ excess <= 0
        \/ IsCall(t) /\ 1200 * 12 * part * gain >= excess
        \/ ~ IsCall(t) /\ 1200 * 12 * part * t.strike > excess /\ 1200 * 12 * part * gain >= excess
  BY DEF ReachesHurdle
<1>9. MeetsHurdle(PathOutcome(p, path), price, hurdle) <=> 1200 * ((back + cash) - price) >= hurdle * price * R
  BY <1>5 DEF MeetsHurdle
<1>10. hurdle * price * R = owed
  BY <1>1
<1>11. ~ IsCall(t) => gain < t.strike
  BY <1>1, <1>2
<1> HIDE DEF R, t, spot, gain, back, part, owed, excess, cash
<1> DEFINE a == part * gain
           b == part * t.strike
<1>12. a \in Int /\ b \in Int /\ (gain < t.strike => a < b)
  <2>1. a \in Int /\ b \in Int
    BY <1>2, <1>6
  <2>2. ASSUME gain < t.strike PROVE a < b
    <3>1. gain + 1 <= t.strike /\ gain + 1 \in Int
      BY <1>2, <1>6, <2>2
    <3>2. part * (gain + 1) <= b
      BY <1>2, <3>1, ProductsGrow
    <3>3. part * (gain + 1) = a + part
      BY <1>2, <1>6
    <3> QED BY <1>2, <2>1, <3>2, <3>3
  <2> QED BY <2>1, <2>2
<1>13. 1200 * 12 * part * gain = 14400 * a /\ 1200 * 12 * part * t.strike = 14400 * b
  BY <1>2, <1>6
<1>14. cash \in Nat /\ (gain > 0 => cash = 12 * a) /\ (gain <= 0 => cash = 0 /\ a <= 0)
  <2>1. CASE gain > 0
    <3>1. Positive(gain) = gain /\ gain \in Nat
      BY <1>6, <2>1 DEF Positive
    <3>2. a \in Nat
      BY <1>2, <3>1, Products
    <3>3. cash = 12 * a
      BY <1>2, <1>6, <1>7, <3>1
    <3> QED BY <1>6, <2>1, <3>2, <3>3
  <2>2. CASE gain <= 0
    <3>1. Positive(gain) = 0
      BY <1>6, <2>2 DEF Positive
    <3>2. cash = 0
      BY <1>2, <1>7, <3>1
    <3>3. part * gain <= part * 0
      BY <1>2, <1>6, <2>2, ProductsGrow
    <3> QED BY <1>2, <1>6, <2>2, <3>2, <3>3
  <2> QED BY <1>6, <2>1, <2>2
<1> HIDE DEF a, b
<1>15. 1200 * ((back + cash) - price) >= hurdle * price * R <=> 1200 * cash >= excess
  BY <1>1, <1>2, <1>3, <1>4, <1>10, <1>14
<1>16. excess \in Int
  BY <1>1, <1>2, <1>3, <1>4
<1>17. ReachesHurdle(p, price, hurdle, spot) <=>
         \/ excess <= 0
         \/ IsCall(t) /\ 14400 * a >= excess
         \/ ~ IsCall(t) /\ 14400 * b > excess /\ 14400 * a >= excess
  BY <1>8, <1>13
<1>18. 14400 * a >= excess /\ excess > 0 => (~ IsCall(t) => 14400 * b > excess)
  BY <1>11, <1>12, <1>16
<1>19. 1200 * cash >= excess <=> excess <= 0 \/ 14400 * a >= excess
  BY <1>6, <1>12, <1>14, <1>16
<1>20. ReachesHurdle(p, price, hurdle, spot) <=> 1200 * cash >= excess
  BY <1>12, <1>16, <1>17, <1>18, <1>19
<1> QED BY <1>9, <1>15, <1>20 DEF spot

\* Where the closed form of a barrier option has no terms it pays on no path,
\* and where it is the vanilla option's it pays like it on all.
LEMMA FormulasAgree ==
  ASSUME NEW p, Alive(p), p.terms.family \in BarrierOptions,
         NEW path \in [1 .. Remaining(p) -> Spots], NEW extreme \in Spots
  PROVE  LET option == PricedCashflow(p, path, extreme) - Protection(p.terms)
         IN  /\ BarrierTerms(p) = NoTerms => option = 0
             /\ BarrierTerms(p) = VanillaTerms => option = OptionCash(p.terms, Last(p, path))
<1> DEFINE R == Remaining(p)
           t == p.terms
           last == Last(p, path)
           cash == OptionCash(t, last)
           option == PricedCashflow(p, path, extreme) - Protection(t)
           onPath == (\E m \in DOMAIN path : Touches(t, path[m])) \/ Touches(t, extreme)
           high == t.strike >= t.barrier
<1>1. /\ Sound(t) /\ R \in Nat \ {0} /\ R \in 1 .. R /\ DOMAIN path = 1 .. R
      /\ last = path[R] /\ last \in Nat
  BY AliveFacts, PathFacts
<1>2. t.family \in BarrierOptions /\ t.family \notin Notes /\ t.family \notin Vanilla
  BY DEF BarrierOptions, Notes, Vanilla
<1>3. t.barrier \in Nat /\ t.participation \in Nat /\ t.strike \in Nat
  BY <1>1, <1>2 DEF Sound
<1>4. \/ t.barrier <= 100 /\ t.kind = "knock_in" /\ Direction(t) = "down"
      \/ t.barrier > 100 /\ t.kind = "knock_out" /\ Direction(t) = "up"
  BY <1>1, <1>2, <1>3 DEF Sound, OptionKind, Direction
<1>5. Protection(t) \in Int /\ cash \in Nat
  <2>1. (t.protected => Protection(t) = Par) /\ (~ t.protected => Protection(t) = 0)
    BY Protections, Zenon
  <2>2. t.protected \in BOOLEAN
    BY <1>1 DEF Sound
  <2>3. cash \in Nat
    BY <1>1, <1>3, OptionIsNat
  <2> QED BY <2>1, <2>2, <2>3 DEF Par
<1>6. PricedCashflow(p, path, extreme) =
        Protection(t) + (IF (IF t.kind = "knock_in" THEN AlreadyTouched(p) \/ onPath
                             ELSE ~ (AlreadyTouched(p) \/ onPath)) THEN cash ELSE 0)
  BY <1>2, Zenon DEF PricedCashflow, OptionCashIf, TouchedOn
<1>7. BarrierTerms(p) =
        IF AlreadyTouched(p) THEN IF t.kind = "knock_in" THEN VanillaTerms ELSE NoTerms
        ELSE IF t.kind = "knock_in" THEN KnockInTerms(Direction(t), IsCall(t), high)
             ELSE KnockOutTerms(Direction(t), IsCall(t), high)
  BY <1>1 DEF BarrierTerms
<1>8. ~ onPath => ~ Touches(t, last)
  BY <1>1
<1>9. Touches(t, last) <=> IF Direction(t) = "down" THEN last <= t.barrier ELSE last >= t.barrier
  BY <1>3 DEF Touches, Absent
<1>10. VanillaTerms # NoTerms
  <2>1. VanillaTerms.A = 1 /\ NoTerms.A = 0
    BY DEF VanillaTerms, NoTerms, Terms
  <2> QED BY <2>1
<1> HIDE DEF R, last, onPath
<1>11. option = IF (IF t.kind = "knock_in" THEN AlreadyTouched(p) \/ onPath
                    ELSE ~ (AlreadyTouched(p) \/ onPath)) THEN cash ELSE 0
  BY <1>5, <1>6
<1>12. (IF IsCall(t) THEN last <= t.strike ELSE t.strike <= last) => cash = 0
  <2> SUFFICES ASSUME IF IsCall(t) THEN last <= t.strike ELSE t.strike <= last PROVE cash = 0
    OBVIOUS
  <2>1. Positive(IF IsCall(t) THEN last - t.strike ELSE t.strike - last) = 0
    BY <1>1, <1>3 DEF Positive
  <2>2. cash = 12 * t.participation * 0
    BY <2>1 DEF OptionCash
  <2> QED BY <1>3, <2>2
<1> HIDE DEF cash, option
<1>13. CASE AlreadyTouched(p)
  BY <1>4, <1>7, <1>10, <1>11, <1>13 DEF option, cash, last
<1>14. CASE ~ AlreadyTouched(p) /\ t.kind = "knock_in"
  <2>1. Direction(t) = "down" /\ BarrierTerms(p) = KnockInTerms("down", IsCall(t), high)
    BY <1>4, <1>7, <1>14
  <2>2. /\ KnockInTerms("down", IsCall(t), high) # NoTerms
        /\ KnockInTerms("down", IsCall(t), high) = VanillaTerms => ~ IsCall(t) /\ ~ high
    <3> DEFINE call == IsCall(t)
    <3> HIDE DEF call, high
    <3>1. /\ KnockInTerms("down", call, high) # NoTerms
          /\ KnockInTerms("down", call, high) = VanillaTerms => ~ call /\ ~ high
      BY KnockInForms
    <3> QED BY <3>1 DEF call
  <2>3. ~ onPath /\ ~ IsCall(t) /\ ~ high => cash = 0
    BY <1>1, <1>3, <1>8, <1>9, <1>12, <2>1
  <2> QED BY <1>11, <1>14, <2>1, <2>2, <2>3 DEF option, cash, last
<1>15. CASE ~ AlreadyTouched(p) /\ t.kind # "knock_in"
  <2>1. Direction(t) = "up" /\ BarrierTerms(p) = KnockOutTerms("up", IsCall(t), high)
    BY <1>4, <1>7, <1>15
  <2>2. /\ KnockOutTerms("up", IsCall(t), high) # VanillaTerms
        /\ KnockOutTerms("up", IsCall(t), high) = NoTerms => IsCall(t) /\ high
    <3> DEFINE call == IsCall(t)
    <3> HIDE DEF call, high
    <3>1. /\ KnockOutTerms("up", call, high) # VanillaTerms
          /\ KnockOutTerms("up", call, high) = NoTerms => call /\ high
      BY KnockOutForms
    <3> QED BY <3>1 DEF call
  <2>3. ~ onPath /\ IsCall(t) /\ high => cash = 0
    BY <1>1, <1>3, <1>8, <1>9, <1>12, <2>1
  <2> QED BY <1>11, <1>15, <2>1, <2>2, <2>3 DEF option, cash, last
<1> QED BY <1>13, <1>14, <1>15

\* What is priced by formula agrees with the paths, whatever the lattice, the
\* month, the price and the hurdle (barrier_option, hurdle_hit_prob against
\* _mc_stats and _mc_hit_prob).
THEOREM FormulasAndPathsAgree == LifeSpec => []FormulasTellThePaths
<1>1. LifeInv => FormulasTellThePaths
  <2> SUFFICES ASSUME LifeInv PROVE FormulasTellThePaths
    OBVIOUS
  <2> DEFINE t == contract.terms
  <2>1. \A direction \in {"up", "down"}, call, high \in BOOLEAN :
          Plus(KnockInTerms(direction, call, high), KnockOutTerms(direction, call, high)) = VanillaTerms
    BY InAndOutIsVanilla
  <2>2. ASSUME stage = "issued", t.family \in BarrierOptions, NEW path \in Paths, NEW extreme \in Spots
        PROVE  LET option == PricedCashflow(contract, path, extreme) - Protection(t)
               IN  /\ BarrierTerms(contract) = NoTerms => option = 0
                   /\ BarrierTerms(contract) = VanillaTerms =>
                        option = OptionCash(t, Last(contract, path))
    <3>1. Alive(contract) /\ path \in [1 .. Remaining(contract) -> Spots]
      BY <2>2 DEF LifeInv, Paths
    <3> QED BY <2>2, <3>1, FormulasAgree
  <2>3. ASSUME stage = "issued", t.family \in Vanilla,
               NEW path \in Paths, NEW price \in Prices, NEW hurdle \in Hurdles
        PROVE  ReachesHurdle(contract, price, hurdle, Last(contract, path))
                 <=> MeetsHurdle(PathOutcome(contract, path), price, hurdle)
    <3>1. Alive(contract) /\ path \in [1 .. Remaining(contract) -> Spots]
      BY <2>3 DEF LifeInv, Paths
    <3> QED BY <2>3, <3>1, HurdleAtOneSpot
  <2> QED BY <2>1, <2>2, <2>3 DEF FormulasTellThePaths
<1> QED BY <1>1, LifeInvHolds, PTL

-----------------------------------------------------------------------------
(* The frontier.                                                           *)

\* The lattice is made of terms a policy may write down.
WithinParser ==
  /\ Domain.maturities \subseteq 1 .. 60 /\ Domain.strikes \subseteq 1 .. 1000
  /\ Domain.participations \subseteq 1 .. 1000 /\ Domain.barriers \subseteq 1 .. 1000
  /\ Domain.coupons \subseteq 0 .. 500

\* The draft of a product: a note says nothing of its direction.
DraftOf(c) == [c EXCEPT !.direction = IF c.family \in Notes THEN "absent" ELSE c.direction]

\* A product of the lattice is what the parser makes of its draft.
LEMMA DraftsParse ==
  ASSUME WithinParser, NEW c \in Lattice(Domain)
  PROVE  /\ DraftOf(c) \in Draft /\ Parses(DraftOf(c))
         /\ Signature(Parsed(DraftOf(c))) = Signature(c)
<1> DEFINE d == DraftOf(c)
           way == IF c.family \in Notes THEN "absent" ELSE c.direction
<1>1. Listed(c)
  BY LatticeLists
<1>2. /\ IsRecord(d) /\ d.family = c.family /\ d.months = c.months /\ d.strike = c.strike
      /\ d.barrier = c.barrier /\ d.kind = c.kind /\ d.coupon = c.coupon
      /\ d.participation = c.participation /\ d.protected = c.protected
      /\ d.funding = c.funding /\ d.face = c.face /\ d.direction = way
  BY <1>1 DEF Listed, DraftOf, IsRecord, Fields
<1>3. /\ c.months \in 1 .. 60 /\ c.strike \in 1 .. 1000 /\ c.participation \in 1 .. 1000
      /\ c.barrier = Absent \/ c.barrier \in 1 .. 1000
      /\ c.coupon = Absent \/ c.coupon \in 0 .. 500
      /\ c.protected \in BOOLEAN
  <2>1. Domain.protections \subseteq BOOLEAN
    BY LifeAssumption DEF DomainSpec
  <2>2. CASE c.family \in Notes
    <3>1. /\ c.months \in Domain.maturities /\ c.coupon \in Domain.coupons
          /\ c.strike = 100 /\ c.participation = 100
          /\ c.barrier = Absent \/ c.barrier \in Domain.barriers
          /\ c.protected \in BOOLEAN
      BY <1>1, <2>2 DEF Listed
    <3> DEFINE terms == 1 .. 60
               levels == 1 .. 1000
               rates == 0 .. 500
    <3>2. /\ Domain.maturities \subseteq terms /\ Domain.strikes \subseteq levels
          /\ Domain.participations \subseteq levels /\ Domain.barriers \subseteq levels
          /\ Domain.coupons \subseteq rates
      BY DEF WithinParser
    <3>3. 100 \in levels
      OBVIOUS
    <3> HIDE DEF terms, levels, rates
    <3>4. /\ c.months \in terms /\ c.strike \in levels /\ c.participation \in levels
          /\ c.barrier = Absent \/ c.barrier \in levels
          /\ c.coupon \in rates
      BY <3>1, <3>2, <3>3
    <3> QED BY <3>1, <3>4 DEF terms, levels, rates
  <2>3. CASE c.family \notin Notes
    <3>1. c.family \in Vanilla \/ c.family \in BarrierOptions
      BY <1>1, <2>3 DEF Listed, Families
    <3>2. /\ c.months \in 1 .. 60 /\ c.strike \in 1 .. 1000 /\ c.participation \in 1 .. 1000
          /\ c.coupon = Absent /\ c.protected \in BOOLEAN
      BY <1>1, <2>1, <2>3 DEF Listed, WithinParser
    <3>3. c.barrier = Absent \/ c.barrier \in 1 .. 1000
      BY <1>1, <3>1 DEF Listed, WithinParser
    <3> QED BY <3>2, <3>3
  <2> QED BY <2>2, <2>3
<1>4. /\ c.family \in Families /\ c.funding = "absent" /\ c.face = "notional"
      /\ c.kind \in {"knock_in", "knock_out", "absent"} /\ c.direction \in {"up", "down", "absent"}
  BY <1>1 DEF Listed, OptionKind, Families
<1> HIDE DEF d
<1>5. d \in Draft
  <2>0. /\ 1 .. 60 \subseteq Nat /\ 1 .. 1000 \subseteq Nat /\ 0 .. 500 \subseteq Nat
    OBVIOUS
  <2>1. /\ c.months \in Nat /\ c.strike \in Nat /\ c.participation \in Nat
        /\ c.barrier \in Nat \cup {Absent} /\ c.coupon \in Nat \cup {Absent}
    <3> DEFINE terms == 1 .. 60
               levels == 1 .. 1000
               rates == 0 .. 500
    <3>1. /\ c.months \in terms /\ c.strike \in levels /\ c.participation \in levels
          /\ c.barrier = Absent \/ c.barrier \in levels
          /\ c.coupon = Absent \/ c.coupon \in rates
          /\ terms \subseteq Nat /\ levels \subseteq Nat /\ rates \subseteq Nat
      BY <1>3, <2>0
    <3> HIDE DEF terms, levels, rates
    <3> QED BY <3>1
  <2>2. d = [k \in Fields |-> d[k]]
    BY <1>2 DEF IsRecord
  <2>3. way \in {"up", "down", "absent"}
    BY <1>4
  <2>4. /\ d.family \in Families /\ d.months \in Nat /\ d.strike \in Nat
        /\ d.barrier \in Nat \cup {Absent} /\ d.kind \in {"knock_in", "knock_out", "absent"}
        /\ d.direction \in {"up", "down", "absent"} /\ d.coupon \in Nat \cup {Absent}
        /\ d.participation \in Nat /\ d.protected \in BOOLEAN
        /\ d.funding \in {"premium_paid", "funded_note", "absent"} /\ d.face \in {"notional", "other"}
    BY <1>2, <1>3, <1>4, <2>1, <2>3
  <2> QED BY <2>2, <2>4 DEF Draft, Fields
<1>6. InRange(d)
  <2>1. d.barrier # Absent => d.barrier \in 1 .. 1000
    BY <1>2, <1>3
  <2>2. d.coupon # Absent => d.coupon \in 0 .. 500
    BY <1>2, <1>3
  <2>3. d.months \in 1 .. 60 /\ d.strike \in 1 .. 1000 /\ d.participation \in 1 .. 1000
    BY <1>2, <1>3
  <2> QED BY <2>1, <2>2, <2>3 DEF InRange
<1>7. BarrierStated(d)
  <2>1. c.barrier \in Domain.barriers => c.barrier # Absent
    BY LifeAssumption DEF DomainSpec, Absent
  <2>2. c.kind = "absent" <=> c.barrier = Absent
    BY <1>1, <1>4, <2>1 DEF Listed, OptionKind, Families
  <2>3. way # "absent" => c.family \in BarrierOptions /\ c.barrier # Absent
    BY <1>1, <1>4, <2>1 DEF Listed, Families
  <2> QED BY <1>2, <2>2, <2>3 DEF BarrierStated
<1>8. NoteStated(d)
  <2>1. c.family \in Notes => c.coupon # Absent /\ c.participation = 100
    BY <1>1, LifeAssumption DEF Listed, DomainSpec, Absent
  <2> QED BY <1>2, <1>4, <2>1 DEF NoteStated
<1>9. LossStated(d)
  <2>1. c.barrier \in Domain.barriers => c.barrier # Absent
    BY LifeAssumption DEF DomainSpec, Absent
  <2>2. c.family = "autocallable" =>
          \/ c.protected = TRUE /\ c.barrier = Absent
          \/ c.protected = FALSE /\ c.barrier # Absent /\ c.barrier < 100 /\ c.kind = "knock_in"
    BY <1>1, <2>1 DEF Listed, Notes
  <2>3. c.family = "autocallable" =>
          /\ c.protected <=> c.barrier = Absent
          /\ c.barrier # Absent => c.kind = "knock_in" /\ c.barrier < 100
    BY <2>2
  <2> QED BY <1>2, <2>3 DEF LossStated
<1>10. Signature(Parsed(d)) = Signature(c)
  <2> DEFINE u == Parsed(d)
             v == Signature(u)
             w == Signature(c)
  <2>1. /\ IsRecord(u) /\ u.family = d.family /\ u.months = d.months /\ u.strike = d.strike
        /\ u.barrier = d.barrier /\ u.kind = d.kind /\ u.coupon = d.coupon
        /\ u.participation = d.participation /\ u.protected = d.protected
        /\ u.funding = Funding(d) /\ u.face = d.face
        /\ u.direction = IF d.family \in BarrierOptions THEN Direction(d) ELSE "absent"
    BY <1>2 DEF Parsed, IsRecord, Fields
  <2> HIDE DEF u
  <2>2. /\ IsRecord(v) /\ v.family = u.family /\ v.months = u.months /\ v.strike = u.strike
        /\ v.barrier = u.barrier /\ v.kind = u.kind /\ v.coupon = u.coupon
        /\ v.participation = u.participation /\ v.protected = u.protected
        /\ v.funding = Funding(u) /\ v.face = u.face /\ v.direction = Direction(u)
    BY <2>1 DEF Signature, IsRecord, Fields
  <2>3. /\ IsRecord(w) /\ w.family = c.family /\ w.months = c.months /\ w.strike = c.strike
        /\ w.barrier = c.barrier /\ w.kind = c.kind /\ w.coupon = c.coupon
        /\ w.participation = c.participation /\ w.protected = c.protected
        /\ w.funding = Funding(c) /\ w.face = c.face /\ w.direction = Direction(c)
    BY <1>1 DEF Listed, Signature, IsRecord, Fields
  <2>4. Funding(d) = Funding(c) /\ Funding(d) # "absent"
    BY <1>2, <1>4 DEF Funding
  <2>5. Funding(u) = Funding(c)
    BY <2>1, <2>4 DEF Funding
  <2>6. Direction(u) = Direction(c)
    <3>1. CASE c.family \in BarrierOptions
      <4>1. c.family \notin Notes /\ way = c.direction /\ c.direction # "absent"
        BY <1>1, <3>1 DEF Listed, Notes, BarrierOptions
      <4>2. Direction(d) = c.direction /\ Direction(c) = c.direction
        BY <1>2, <4>1 DEF Direction
      <4>3. u.direction = c.direction
        BY <1>2, <2>1, <3>1, <4>2
      <4> QED BY <4>1, <4>2, <4>3 DEF Direction
    <3>2. CASE c.family \notin BarrierOptions
      <4>1. u.direction = "absent" /\ u.barrier = c.barrier
        BY <1>2, <2>1, <3>2
      <4>2. Direction(u) = IF c.barrier = Absent THEN "absent"
                           ELSE IF c.barrier <= 100 THEN "down" ELSE "up"
        BY <4>1 DEF Direction
      <4>3. \/ c.direction = "absent" /\ c.barrier = Absent
            \/ /\ c.direction = (IF c.barrier <= 100 THEN "down" ELSE "up")
               /\ c.barrier # Absent
        <5>1. c.barrier \in Domain.barriers => c.barrier # Absent
          BY LifeAssumption DEF DomainSpec, Absent
        <5>2. c.family \in Vanilla \/ c.family \in Notes
          BY <1>4, <3>2 DEF Families
        <5> QED BY <1>1, <5>1, <5>2 DEF Listed
      <4> QED BY <4>2, <4>3 DEF Direction
    <3> QED BY <3>1, <3>2
  <2> HIDE DEF v, w
  <2>7. v = w
    <3>1. \A k \in Fields : v[k] = w[k]
      BY <1>2, <2>1, <2>2, <2>3, <2>5, <2>6 DEF Fields
    <3> QED BY <2>2, <2>3, <3>1 DEF IsRecord
  <2> QED BY <2>7 DEF u, v, w
<1> QED BY <1>5, <1>6, <1>7, <1>8, <1>9, <1>10 DEF Parses, d

\* What is issued was quotable as it was drafted.
DraftedInv ==
  stage = "issued" => \E d \in Drafts : Quotable(d) /\ contract.terms = Parsed(d)

\* It holds in every behaviour: a month changes no term.
LEMMA DraftedInvHolds == LifeSpec => []DraftedInv
<1>1. LifeInit => DraftedInv
  BY DEF LifeInit, DraftedInv
<1>2. LifeInv /\ DraftedInv /\ [LifeNext]_life => DraftedInv'
  <2> SUFFICES ASSUME LifeInv, DraftedInv, [LifeNext]_life PROVE DraftedInv'
    OBVIOUS
  <2>1. ASSUME NEW d \in Drafts, Refuse(d) PROVE DraftedInv'
    BY <2>1 DEF Refuse, DraftedInv
  <2>2. ASSUME NEW d \in Drafts, Issue(d) PROVE DraftedInv'
    <3>1. contract'.terms = Parsed(d) /\ Quotable(d)
      BY <2>2 DEF Issue, Issued
    <3> QED BY <3>1 DEF DraftedInv
  <2>3. ASSUME NEW s \in Spots, Live(s) PROVE DraftedInv'
    <3>1. stage = "issued" /\ contract' = ObserveMonth(contract, s) /\ IsContract(contract)
      BY <2>3 DEF Live, LifeInv, Alive
    <3>2. contract'.terms = contract.terms
      BY <3>1, Observed
    <3> QED BY <3>1, <3>2 DEF DraftedInv
  <2>4. ASSUME NEW s \in Spots, Settle(s) PROVE DraftedInv'
    BY <2>4 DEF Settle, DraftedInv
  <2>5. CASE UNCHANGED life
    BY <2>5 DEF life, DraftedInv
  <2> QED BY <2>1, <2>2, <2>3, <2>4, <2>5 DEF LifeNext
<1> QED BY <1>1, <1>2, LifeInvHolds, PTL DEF LifeSpec

\* The oracle compares a policy with products the policy could have had: for
\* every lattice whose terms a policy may write down, each product is what the
\* parser makes of some draft, and what is issued is one of them
\* (enumerate_domain, parse_product_spec, validate_domain).
THEOREM FrontierReached ==
  ASSUME Drafts = Draft, WithinParser
  PROVE  LifeSpec => []FrontierIsReachable
<1>1. Signatures \subseteq { Signature(Parsed(draft)) : draft \in { d \in Drafts : Parses(d) } }
  <2> SUFFICES ASSUME NEW c \in Lattice(Domain)
               PROVE  \E d \in Drafts : Parses(d) /\ Signature(Parsed(d)) = Signature(c)
    BY DEF Signatures
  <2>1. /\ DraftOf(c) \in Draft /\ Parses(DraftOf(c))
        /\ Signature(Parsed(DraftOf(c))) = Signature(c)
    BY DraftsParse
  <2> QED BY <2>1
<1>2. LifeInv /\ DraftedInv => FrontierIsReachable
  <2> SUFFICES ASSUME LifeInv, DraftedInv, stage = "issued"
               PROVE  Signature(contract.terms) \in Signatures /\ ClaimConsistent(contract.terms)
    BY <1>1 DEF FrontierIsReachable
  <2>1. Signature(contract.terms) \in Signatures
    BY DEF DraftedInv, Quotable
  <2>2. Sound(contract.terms)
    BY DEF LifeInv, Alive
  <2>3. ClaimConsistent(contract.terms)
    BY <2>2 DEF ClaimConsistent, Sound
  <2> QED BY <2>1, <2>3
<1> QED BY <1>2, LifeInvHolds, DraftedInvHolds, PTL

=============================================================================
