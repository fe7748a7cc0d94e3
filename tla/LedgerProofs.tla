---------------------------- MODULE LedgerProofs ----------------------------
(***************************************************************************)
(* Sums of amounts, and what every operation on the two accounts preserves:*)
(* the type of the record, the balance of the account, and that the        *)
(* accounts mirror each other.  Only CanIssue and the type of the          *)
(* arguments are assumed.                                                  *)
(***************************************************************************)
EXTENDS Ledger, TLAPS, SequenceTheorems, WellFoundedInduction

-----------------------------------------------------------------------------
(* Counting.                                                               *)

\* One number below another; the relation is well-founded.
Below == {ss \in Nat \X Nat : ss[1] < ss[2]}

\* So every set of numbers that is not empty has a least one.
LEMMA BelowWF == IsWellFoundedOn(Below, Nat)
  BY NatLessThanWellFounded DEF OpToRel, Below

\* What holds of 0, and of n + 1 with n, holds of every number: T are the numbers
\* it holds of, and the least of the others would have a predecessor in T.
LEMMA Counting ==
  ASSUME NEW T \in SUBSET Nat, 0 \in T, \A n \in T : n + 1 \in T
  PROVE  T = Nat
<1> SUFFICES ASSUME Nat \ T # {} PROVE FALSE
  OBVIOUS
<1>2. PICK x \in Nat \ T : \A y \in Nat \ T : <<y, x>> \notin Below
  BY BelowWF, WFMin
<1>3. x - 1 \in Nat \ T
  OBVIOUS
<1>4. <<x - 1, x>> \in Below
  BY <1>3 DEF Below
<1> QED BY <1>2, <1>3, <1>4

-----------------------------------------------------------------------------
(* Sums.  SumTo is defined as a function on the numbers, by recursion: that *)
(* there is such a function is shown from its finite approximations.        *)

\* g sums the first 0, 1, ... m amounts.
SumsUpTo(g, amounts, m) ==
  g = [n \in 0 .. m |-> IF n = 0 THEN 0 ELSE g[n - 1] + amounts[n]]

\* Such a function exists for every m,
LEMMA SumsExist ==
  ASSUME NEW a, NEW m \in Nat
  PROVE  \E g : SumsUpTo(g, a, m)
<1> DEFINE T == { n \in Nat : \E g : SumsUpTo(g, a, n) }
<1>1. 0 \in T
  <2> DEFINE g == [n \in 0 .. 0 |-> 0]
  <2>1. SumsUpTo(g, a, 0)
    BY DEF SumsUpTo
  <2> QED BY <2>1
<1>2. ASSUME NEW n \in T PROVE n + 1 \in T
  <2>1. PICK g : SumsUpTo(g, a, n)
    OBVIOUS
  <2> DEFINE h == [k \in 0 .. n + 1 |-> IF k <= n THEN g[k] ELSE g[n] + a[n + 1]]
  <2>2. \A k \in 0 .. n : g[k] = IF k = 0 THEN 0 ELSE g[k - 1] + a[k]
    BY <2>1 DEF SumsUpTo
  <2>3. \A k \in 0 .. n + 1 : h[k] = IF k = 0 THEN 0 ELSE h[k - 1] + a[k]
    BY <2>2
  <2>4. SumsUpTo(h, a, n + 1)
    BY <2>3 DEF SumsUpTo
  <2> QED BY <2>4
<1> HIDE DEF T
<1>3. T = Nat
  BY <1>1, <1>2, Counting DEF T
<1> QED BY <1>3 DEF T

\* any two of them agree where both are defined,
LEMMA SumsAgree ==
  ASSUME NEW a, NEW m \in Nat, NEW n \in Nat, m <= n, NEW g, NEW h,
         SumsUpTo(g, a, m), SumsUpTo(h, a, n)
  PROVE  \A k \in 0 .. m : g[k] = h[k]
<1> DEFINE T == { k \in Nat : k <= m => g[k] = h[k] }
<1>1. /\ \A k \in 0 .. m : g[k] = IF k = 0 THEN 0 ELSE g[k - 1] + a[k]
      /\ \A k \in 0 .. n : h[k] = IF k = 0 THEN 0 ELSE h[k - 1] + a[k]
  BY DEF SumsUpTo
<1>2. 0 \in T
  BY <1>1
<1>3. ASSUME NEW k \in T PROVE k + 1 \in T
  BY <1>1
<1> HIDE DEF T
<1>4. T = Nat
  BY <1>2, <1>3, Counting DEF T
<1> QED BY <1>4 DEF T

\* and so the sum of n + 1 amounts is that of n and the next one.
LEMMA SumStep ==
  ASSUME NEW a
  PROVE  /\ SumTo(a, 0) = 0
         /\ \A n \in Nat : SumTo(a, n + 1) = SumTo(a, n) + a[n + 1]
<1> DEFINE G(m) == CHOOSE g : SumsUpTo(g, a, m)
           f == [n \in Nat |-> G(n)[n]]
<1>1. \A n \in Nat : SumsUpTo(G(n), a, n)
  BY SumsExist
<1> HIDE DEF G
<1>2. \A n \in Nat : f[n] = IF n = 0 THEN 0 ELSE f[n - 1] + a[n]
  <2> TAKE n \in Nat
  <2>1. G(n)[n] = IF n = 0 THEN 0 ELSE G(n)[n - 1] + a[n]
    BY <1>1 DEF SumsUpTo
  <2>2. CASE n = 0
    BY <2>1, <2>2
  <2>3. CASE n # 0
    <3>1. n - 1 \in Nat /\ n - 1 <= n /\ n - 1 \in 0 .. n - 1
      BY <2>3
    <3>2. G(n)[n - 1] = G(n - 1)[n - 1]
      BY <1>1, <3>1, SumsAgree
    <3> QED BY <2>1, <2>3, <3>1, <3>2
  <2> QED BY <2>2, <2>3
<1>3. f = [n \in Nat |-> IF n = 0 THEN 0 ELSE f[n - 1] + a[n]]
  BY <1>2
<1> HIDE DEF f
<1> DEFINE s == CHOOSE g : g = [k \in Nat |-> IF k = 0 THEN 0 ELSE g[k - 1] + a[k]]
<1>4. s = [k \in Nat |-> IF k = 0 THEN 0 ELSE s[k - 1] + a[k]]
  BY <1>3
<1>5. \A n : SumTo(a, n) = s[n]
  BY DEF SumTo
<1> HIDE DEF s
<1>6. \A n \in Nat : s[n] = IF n = 0 THEN 0 ELSE s[n - 1] + a[n]
  BY <1>4
<1> QED BY <1>5, <1>6

\* A sum depends on the amounts it adds only.
LEMMA SumSame ==
  ASSUME NEW a, NEW b, NEW n \in Nat, \A i \in 1 .. n : a[i] = b[i]
  PROVE  SumTo(a, n) = SumTo(b, n)
<1> DEFINE T == { k \in Nat : k <= n => SumTo(a, k) = SumTo(b, k) }
<1>1. 0 \in T
  BY SumStep
<1>2. ASSUME NEW k \in T PROVE k + 1 \in T
  <2> SUFFICES ASSUME k + 1 <= n PROVE SumTo(a, k + 1) = SumTo(b, k + 1)
    OBVIOUS
  <2>1. /\ SumTo(a, k + 1) = SumTo(a, k) + a[k + 1]
        /\ SumTo(b, k + 1) = SumTo(b, k) + b[k + 1]
    BY SumStep
  <2>2. k + 1 \in 1 .. n /\ SumTo(a, k) = SumTo(b, k)
    OBVIOUS
  <2> QED BY <2>1, <2>2
<1> HIDE DEF T
<1>3. T = Nat
  BY <1>1, <1>2, Counting DEF T
<1> QED BY <1>3 DEF T

\* A sum of whole amounts is whole.
LEMMA SumType ==
  ASSUME NEW a, NEW n \in Nat, \A i \in 1 .. n : a[i] \in Int
  PROVE  SumTo(a, n) \in Int
<1> DEFINE T == { k \in Nat : k <= n => SumTo(a, k) \in Int }
<1>1. 0 \in T
  BY SumStep
<1>2. ASSUME NEW k \in T PROVE k + 1 \in T
  <2> SUFFICES ASSUME k + 1 <= n PROVE SumTo(a, k + 1) \in Int
    OBVIOUS
  <2>1. SumTo(a, k + 1) = SumTo(a, k) + a[k + 1]
    BY SumStep
  <2>2. k + 1 \in 1 .. n /\ SumTo(a, k) \in Int
    OBVIOUS
  <2> QED BY <2>1, <2>2
<1> HIDE DEF T
<1>3. T = Nat
  BY <1>1, <1>2, Counting DEF T
<1> QED BY <1>3 DEF T

\* A sum of amounts none of which is negative bounds each of them.
LEMMA SumBounds ==
  ASSUME NEW a, NEW n \in Nat, \A i \in 1 .. n : a[i] \in Nat
  PROVE  /\ SumTo(a, n) \in Nat
         /\ \A i \in 1 .. n : a[i] <= SumTo(a, n)
<1> DEFINE P(k) == SumTo(a, k) \in Nat /\ \A i \in 1 .. k : a[i] <= SumTo(a, k)
           T == { k \in Nat : k <= n => P(k) }
<1>1. 0 \in T
  BY SumStep
<1>2. ASSUME NEW k \in T PROVE k + 1 \in T
  <2> SUFFICES ASSUME k + 1 <= n PROVE P(k + 1)
    OBVIOUS
  <2>1. SumTo(a, k + 1) = SumTo(a, k) + a[k + 1]
    BY SumStep
  <2>2. a[k + 1] \in Nat /\ SumTo(a, k) \in Nat
    OBVIOUS
  <2>3. ASSUME NEW i \in 1 .. k + 1 PROVE a[i] <= SumTo(a, k + 1)
    <3>1. CASE i = k + 1
      BY <2>1, <2>2, <3>1
    <3>2. CASE i # k + 1
      <4>1. i \in 1 .. k /\ i \in 1 .. n
        BY <3>2
      <4>2. a[i] <= SumTo(a, k) /\ a[i] \in Nat
        BY <4>1
      <4> QED BY <2>1, <2>2, <4>2
    <3> QED BY <3>1, <3>2
  <2> QED BY <2>1, <2>2, <2>3
<1> HIDE DEF T
<1>3. T = Nat
  BY <1>1, <1>2, Counting DEF T
<1> QED BY <1>3 DEF T

\* When one amount changes, the sum changes by as much.
LEMMA SumChange ==
  ASSUME NEW a, NEW b, NEW n \in Nat, NEW c \in 1 .. n,
         \A i \in 1 .. n : a[i] \in Int,
         \A i \in 1 .. n : i # c => b[i] = a[i], b[c] \in Int
  PROVE  SumTo(b, n) = SumTo(a, n) + (b[c] - a[c])
<1> DEFINE T == { k \in Nat : c <= k /\ k <= n => SumTo(b, k) = SumTo(a, k) + (b[c] - a[c]) }
<1>1. 0 \in T
  OBVIOUS
<1>2. ASSUME NEW k \in T PROVE k + 1 \in T
  <2> SUFFICES ASSUME c <= k + 1, k + 1 <= n
               PROVE  SumTo(b, k + 1) = SumTo(a, k + 1) + (b[c] - a[c])
    OBVIOUS
  <2>1. /\ SumTo(a, k + 1) = SumTo(a, k) + a[k + 1]
        /\ SumTo(b, k + 1) = SumTo(b, k) + b[k + 1]
    BY SumStep
  <2>2. \A i \in 1 .. k : i \in 1 .. n
    OBVIOUS
  <2>3. SumTo(a, k) \in Int
    BY <2>2, SumType
  <2>4. a[c] \in Int /\ a[k + 1] \in Int
    OBVIOUS
  <2>5. CASE c = k + 1
    <3>1. SumTo(b, k) = SumTo(a, k)
      BY <2>2, <2>5, SumSame
    <3> QED BY <2>1, <2>3, <2>4, <2>5, <3>1
  <2>6. CASE c # k + 1
    <3>1. SumTo(b, k) = SumTo(a, k) + (b[c] - a[c]) /\ b[k + 1] = a[k + 1]
      BY <2>6
    <3> QED BY <2>1, <2>3, <2>4, <3>1
  <2> QED BY <2>5, <2>6
<1> HIDE DEF T
<1>3. T = Nat
  BY <1>1, <1>2, Counting DEF T
<1> QED BY <1>3 DEF T

\* A sum of nothing but zeros is zero.
LEMMA SumZero ==
  ASSUME NEW a, NEW n \in Nat, \A i \in 1 .. n : a[i] = 0
  PROVE  SumTo(a, n) = 0
<1> DEFINE T == { k \in Nat : k <= n => SumTo(a, k) = 0 }
<1>1. 0 \in T
  BY SumStep
<1>2. ASSUME NEW k \in T PROVE k + 1 \in T
  <2> SUFFICES ASSUME k + 1 <= n PROVE SumTo(a, k + 1) = 0
    OBVIOUS
  <2>1. SumTo(a, k + 1) = SumTo(a, k) + a[k + 1]
    BY SumStep
  <2>2. k + 1 \in 1 .. n /\ SumTo(a, k) = 0
    OBVIOUS
  <2> QED BY <2>1, <2>2
<1> HIDE DEF T
<1>3. T = Nat
  BY <1>1, <1>2, Counting DEF T
<1> QED BY <1>3 DEF T

\* The sum of a list of n amounts is that of its first n.
LEMMA SumOfList ==
  ASSUME NEW n \in Nat, NEW S, NEW a \in [1 .. n -> S]
  PROVE  Len(a) = n /\ SumOf(a) = SumTo(a, n)
<1>1. a \in Seq(S)
  BY SeqDef
<1>2. Len(a) \in Nat /\ 1 .. Len(a) = 1 .. n
  BY <1>1, LenProperties
<1>3. Len(a) = n
  BY <1>2
<1> QED BY <1>3 DEF SumOf

\* A list one amount longer.
LEMMA SumAppend ==
  ASSUME NEW n \in Nat, NEW a \in [1 .. n -> Int], NEW b \in [1 .. n + 1 -> Int],
         \A i \in 1 .. n : b[i] = a[i]
  PROVE  SumOf(b) = SumOf(a) + b[n + 1]
<1>1. SumOf(a) = SumTo(a, n) /\ SumOf(b) = SumTo(b, n + 1)
  BY SumOfList
<1>2. SumTo(b, n + 1) = SumTo(b, n) + b[n + 1]
  BY SumStep
<1>3. SumTo(b, n) = SumTo(a, n)
  BY SumSame
<1> QED BY <1>1, <1>2, <1>3

\* A list of which one amount has changed.
LEMMA SumReplace ==
  ASSUME NEW n \in Nat, NEW a \in [1 .. n -> Int], NEW b \in [1 .. n -> Int], NEW c \in 1 .. n,
         \A i \in 1 .. n : i # c => b[i] = a[i]
  PROVE  SumOf(b) = SumOf(a) + (b[c] - a[c])
<1>1. SumOf(a) = SumTo(a, n) /\ SumOf(b) = SumTo(b, n)
  BY SumOfList
<1> QED BY <1>1, SumChange

-----------------------------------------------------------------------------
(* The accounts.                                                           *)

\* A balance floored at zero is a natural number.
LEMMA GreaterZero ==
  ASSUME NEW a \in Int
  PROVE  Greater(a, 0) \in Nat
  BY DEF Greater

\* A client's account opens well-typed and balanced.
LEMMA OpenClientType ==
  ASSUME NEW cash \in Nat
  PROVE  /\ OpenClient(cash) \in ClientAccount
         /\ ClientBalances(OpenClient(cash))
  BY DEF OpenClient, ClientAccount, ClientBalances

\* So does the dealer's.
LEMMA OpenDealerType ==
  ASSUME NEW limit \in Nat
  PROVE  /\ OpenDealer(limit) \in DealerAccount
         /\ DealerBalances(OpenDealer(limit))
  BY DEF OpenDealer, DealerAccount, DealerBalances

\* Before anything is issued the two accounts mirror each other.
LEMMA OpenAccountsMirror ==
  ASSUME NEW cash \in Nat, NEW limit \in Nat
  PROVE  Mirrors(OpenDealer(limit), OpenClient(cash))
  BY DEF OpenDealer, OpenClient, Mirrors

-----------------------------------------------------------------------------
(* Issuing a contract.                                                     *)

\* An issue keeps the client's account well-typed, even without the money for it.
LEMMA IssueClientType ==
  ASSUME NEW acct \in ClientAccount, NEW amount \in Nat
  PROVE  IssueClient(acct, amount) \in ClientAccount
<1>1. Greater(acct.available_cash - amount, 0) \in Nat
  BY DEF ClientAccount, Greater
<1>2. acct.locked_cash + amount \in Nat /\ acct.issue_outflows + amount \in Nat
  BY DEF ClientAccount
<1> QED
  BY <1>1, <1>2 DEF ClientAccount, IssueClient

\* Without CanIssue the balance would be lost: available_cash stops at zero.
LEMMA IssueClientBalances ==
  ASSUME NEW acct \in ClientAccount, NEW amount \in Nat,
         CanIssue(acct, amount), ClientBalances(acct)
  PROVE  ClientBalances(IssueClient(acct, amount))
<1> DEFINE next == IssueClient(acct, amount)
<1>1. Greater(acct.available_cash - amount, 0) = acct.available_cash - amount
  BY DEF CanIssue, Greater, ClientAccount
<1>2. /\ next.available_cash = acct.available_cash - amount
      /\ next.issue_outflows = acct.issue_outflows + amount
      /\ \A field \in {"initial_cash", "scheduled_capital", "settlement_inflows",
                       "external_inflows", "external_outflows", "pending_withdrawal"} :
           next[field] = acct[field]
  BY <1>1 DEF IssueClient, ClientAccount
<1> QED
  BY <1>2 DEF ClientBalances, ClientAccount

\* An issue keeps the dealer's account well-typed.
LEMMA IssueDealerType ==
  ASSUME NEW acct \in DealerAccount, NEW amount \in Nat
  PROVE  IssueDealer(acct, amount) \in DealerAccount
<1>1. acct.issue_proceeds + amount \in Nat /\ acct.cash_balance + amount \in Int
  BY DEF DealerAccount
<1> QED
  BY <1>1 DEF DealerAccount, IssueDealer

\* What the dealer receives for a contract is in its cash.
LEMMA IssueDealerBalances ==
  ASSUME NEW acct \in DealerAccount, NEW amount \in Nat, DealerBalances(acct)
  PROVE  DealerBalances(IssueDealer(acct, amount))
  BY DEF DealerAccount, DealerBalances, IssueDealer

\* An issue moves the same amount on both sides.
LEMMA IssueMirrors ==
  ASSUME NEW d \in DealerAccount, NEW c \in ClientAccount, NEW amount \in Nat,
         Mirrors(d, c)
  PROVE  Mirrors(IssueDealer(d, amount), IssueClient(c, amount))
  BY DEF DealerAccount, ClientAccount, Mirrors, IssueDealer, IssueClient

-----------------------------------------------------------------------------
(* Settling a contract.                                                    *)

\* A settlement keeps every balance of the client a natural number: what is
\* paid to a pending withdrawal is at most the settlement and at most the debt.
LEMMA SettleClientType ==
  ASSUME NEW acct \in ClientAccount, NEW outlay \in Nat, NEW settlement \in Nat
  PROVE  SettleClient(acct, outlay, settlement) \in ClientAccount
<1> DEFINE applied == Lesser(settlement, acct.pending_withdrawal)
<1>1. /\ applied \in Nat
      /\ applied <= settlement
      /\ applied <= acct.pending_withdrawal
  BY DEF ClientAccount, Lesser
<1>2. Greater(acct.locked_cash - outlay, 0) \in Nat
  BY DEF ClientAccount, Greater
<1>3. /\ acct.settlement_inflows + settlement \in Nat
      /\ acct.realised_pnl + (settlement - outlay) \in Int
      /\ acct.pending_withdrawal - applied \in Nat
      /\ acct.external_outflows + applied \in Nat
      /\ acct.available_cash + (settlement - applied) \in Nat
  <2> HIDE DEF applied
  <2> QED BY <1>1 DEF ClientAccount
<1> QED
  BY <1>2, <1>3 DEF ClientAccount, SettleClient

\* A settlement keeps the client's books: what it pays is available, or has left
\* as a withdrawal that was owed.
LEMMA SettleClientBalances ==
  ASSUME NEW acct \in ClientAccount, NEW outlay \in Nat, NEW settlement \in Nat,
         ClientBalances(acct)
  PROVE  ClientBalances(SettleClient(acct, outlay, settlement))
<1> DEFINE applied == Lesser(settlement, acct.pending_withdrawal)
           next    == SettleClient(acct, outlay, settlement)
<1>1. applied \in Int
  BY DEF ClientAccount, Lesser
<1>2. /\ next.settlement_inflows = acct.settlement_inflows + settlement
      /\ next.pending_withdrawal = acct.pending_withdrawal - applied
      /\ next.external_outflows = acct.external_outflows + applied
      /\ next.available_cash = acct.available_cash + (settlement - applied)
      /\ next.initial_cash = acct.initial_cash
      /\ next.scheduled_capital = acct.scheduled_capital
      /\ next.issue_outflows = acct.issue_outflows
      /\ next.external_inflows = acct.external_inflows
  BY DEF SettleClient, ClientAccount
<1>3. /\ acct.available_cash \in Int /\ acct.issue_outflows \in Int
      /\ acct.external_outflows \in Int /\ acct.initial_cash \in Int
      /\ acct.settlement_inflows \in Int /\ acct.external_inflows \in Int
  BY DEF ClientAccount
<1>4. acct.available_cash + acct.issue_outflows + acct.external_outflows
        = acct.initial_cash + acct.settlement_inflows + acct.external_inflows
  BY DEF ClientBalances
<1> SUFFICES ClientBalances(next)
  OBVIOUS
<1> HIDE DEF applied, next
<1>5. next.available_cash + next.issue_outflows + next.external_outflows
        = next.initial_cash + next.settlement_inflows + next.external_inflows
  BY <1>1, <1>2, <1>3, <1>4
<1>6. next.scheduled_capital + next.external_outflows + next.pending_withdrawal
        = next.initial_cash + next.external_inflows
  BY <1>1, <1>2 DEF ClientBalances, ClientAccount
<1> QED
  BY <1>5, <1>6 DEF ClientBalances

\* What the client owes is paid before anything becomes available.
LEMMA SettleClientPaysOwed ==
  ASSUME NEW acct \in ClientAccount, NEW outlay \in Nat, NEW settlement \in Nat,
         SettleClient(acct, outlay, settlement).pending_withdrawal > 0
  PROVE  SettleClient(acct, outlay, settlement).available_cash = acct.available_cash
<1>1. acct.pending_withdrawal - Lesser(settlement, acct.pending_withdrawal) > 0
  BY DEF SettleClient, ClientAccount
<1>2. Lesser(settlement, acct.pending_withdrawal) = settlement
  BY <1>1 DEF Lesser, ClientAccount
<1> QED
  BY <1>2 DEF SettleClient, ClientAccount

\* A settlement keeps the dealer's account well-typed; its cash may go negative.
LEMMA SettleDealerType ==
  ASSUME NEW acct \in DealerAccount, NEW event,
         event.settlement \in Nat, event.hedge_pnl \in Int,
         event.liability_pnl \in Int, event.hedged_pnl \in Int
  PROVE  SettleDealer(acct, event) \in DealerAccount
<1>1. /\ acct.settlement_payments + event.settlement \in Nat
      /\ acct.hedge_cash + event.hedge_pnl \in Int
      /\ acct.cash_balance + (event.hedge_pnl - event.settlement) \in Int
      /\ acct.realised_liability_pnl + event.liability_pnl \in Int
      /\ acct.realised_hedged_pnl + event.hedged_pnl \in Int
  BY DEF DealerAccount
<1> QED
  BY <1>1 DEF DealerAccount, SettleDealer

\* A settlement and the hedge's result are both in the dealer's cash.
LEMMA SettleDealerBalances ==
  ASSUME NEW acct \in DealerAccount, NEW event,
         event.settlement \in Nat, event.hedge_pnl \in Int, DealerBalances(acct)
  PROVE  DealerBalances(SettleDealer(acct, event))
  BY DEF DealerAccount, DealerBalances, SettleDealer

\* What the client realises on a contract is what the liability cost the dealer.
LEMMA SettleMirrors ==
  ASSUME NEW d \in DealerAccount, NEW c \in ClientAccount, Mirrors(d, c), NEW event,
         NEW outlay \in Nat, event.settlement \in Nat, event.hedge_pnl \in Int,
         event.liability_pnl = outlay - event.settlement,
         event.hedged_pnl = event.hedge_pnl + event.liability_pnl
  PROVE  Mirrors(SettleDealer(d, event), SettleClient(c, outlay, event.settlement))
  BY DEF DealerAccount, ClientAccount, Mirrors, SettleDealer, SettleClient

-----------------------------------------------------------------------------
(* The capital the client's schedule names for a new round.                *)

\* A change of the scheduled capital keeps every balance a natural number: a cut
\* takes what there is and owes the rest.
LEMMA ReconcileClientType ==
  ASSUME NEW acct \in ClientAccount, NEW next \in Nat
  PROVE  ReconcileClient(acct, next) \in ClientAccount
<1> DEFINE change == next - acct.scheduled_capital
           paid   == Lesser(acct.available_cash, - change)
<1>1. CASE change >= 0
  <2>1. acct.available_cash + change \in Nat /\ acct.external_inflows + change \in Nat
    BY <1>1 DEF ClientAccount
  <2> QED
    BY <1>1, <2>1 DEF ClientAccount, ReconcileClient
<1>2. CASE ~ (change >= 0)
  <2>1. /\ acct.available_cash - paid \in Nat
        /\ acct.external_outflows + paid \in Nat
        /\ acct.pending_withdrawal + (- change - paid) \in Nat
    BY <1>2 DEF ClientAccount, Lesser
  <2> QED
    BY <1>2, <2>1 DEF ClientAccount, ReconcileClient
<1> QED
  BY <1>1, <1>2

\* And it keeps the books: an increase is an inflow, a cut an outflow as far as
\* it was paid.
LEMMA ReconcileClientBalances ==
  ASSUME NEW acct \in ClientAccount, NEW next \in Nat, ClientBalances(acct)
  PROVE  ClientBalances(ReconcileClient(acct, next))
<1> DEFINE change == next - acct.scheduled_capital
           paid   == Lesser(acct.available_cash, - change)
<1>1. paid \in Int /\ change \in Int
  BY DEF ClientAccount, Lesser
<1>2. CASE change >= 0
  <2>1. ReconcileClient(acct, next)
          = [ acct EXCEPT !.scheduled_capital = next,
                          !.available_cash    = @ + change,
                          !.external_inflows  = @ + change ]
    BY <1>2 DEF ReconcileClient
  <2> QED
    BY <2>1 DEF ClientAccount, ClientBalances
<1>3. CASE ~ (change >= 0)
  <2>1. ReconcileClient(acct, next)
          = [ acct EXCEPT !.scheduled_capital  = next,
                          !.available_cash     = @ - paid,
                          !.external_outflows  = @ + paid,
                          !.pending_withdrawal = @ + (- change - paid) ]
    BY <1>3 DEF ReconcileClient
  <2> HIDE DEF paid
  <2> QED
    BY <1>1, <2>1 DEF ClientAccount, ClientBalances
<1> QED
  BY <1>2, <1>3

\* The dealer's account is not touched by the client's external money.
LEMMA ReconcileMirrors ==
  ASSUME NEW d \in DealerAccount, NEW c \in ClientAccount, NEW next \in Nat,
         Mirrors(d, c)
  PROVE  Mirrors(d, ReconcileClient(c, next))
  BY DEF ClientAccount, Mirrors, ReconcileClient

=============================================================================
