------------------------------- MODULE Ledger -------------------------------
(***************************************************************************)
(* The two money accounts of an episode, ClientAccount and DealerAccount   *)
(* of stochopia/benchmark.py, as records and as operators from one record  *)
(* to the next.  Amounts are whole currency units: the code's floating     *)
(* point tolerances (1e-9 when cash is checked, 1e-7 when it is released)  *)
(* vanish on integers, every other branch is kept.                         *)
(***************************************************************************)
EXTENDS Integers, Sequences

Lesser(a, b) == IF a <= b THEN a ELSE b
Greater(a, b) == IF a >= b THEN a ELSE b

\* The sum of the first n of a list of amounts, and of all of them.
SumTo(amounts, n) ==
  LET sum[k \in Nat] == IF k = 0 THEN 0 ELSE sum[k - 1] + amounts[k]
  IN  sum[n]

SumOf(amounts) == SumTo(amounts, Len(amounts))

(***************************************************************************)
(* The client.  available_cash can be invested; locked_cash is the issue   *)
(* outlay of the contracts still open; scheduled_capital is the capital    *)
(* the client's schedule names for the round; pending_withdrawal is the    *)
(* part of a scheduled capital cut the available cash could not pay.       *)
(***************************************************************************)
ClientAccount ==
  [ initial_cash       : Nat,  available_cash     : Nat,
    scheduled_capital  : Nat,  locked_cash        : Nat,
    realised_pnl       : Int,  issue_outflows     : Nat,
    settlement_inflows : Nat,  external_inflows   : Nat,
    external_outflows  : Nat,  pending_withdrawal : Nat ]

OpenClient(cash) ==
  [ initial_cash       |-> cash,  available_cash     |-> cash,
    scheduled_capital  |-> cash,  locked_cash        |-> 0,
    realised_pnl       |-> 0,     issue_outflows     |-> 0,
    settlement_inflows |-> 0,     external_inflows   |-> 0,
    external_outflows  |-> 0,     pending_withdrawal |-> 0 ]

\* ClientAccount.issue raises when this is FALSE.
CanIssue(acct, amount) == 0 <= amount /\ amount <= acct.available_cash

IssueClient(acct, amount) ==
  [ acct EXCEPT !.available_cash = Greater(@ - amount, 0),
                !.locked_cash    = @ + amount,
                !.issue_outflows = @ + amount ]

\* ClientAccount.settle raises when this is FALSE.
CanRelease(acct, outlay) == outlay <= acct.locked_cash

\* Mutants: the settlement releases itself instead of the outlay; it can be
\* invested although the client still owes a withdrawal.
SettleReleasingProceeds(acct, outlay, settlement) ==
  LET applied == Lesser(settlement, acct.pending_withdrawal)
  IN  [ acct EXCEPT !.locked_cash        = Greater(@ - settlement, 0),
                    !.settlement_inflows = @ + settlement,
                    !.realised_pnl       = @ + (settlement - outlay),
                    !.pending_withdrawal = @ - applied,
                    !.external_outflows  = @ + applied,
                    !.available_cash     = @ + (settlement - applied) ]
SettleOwingLater(acct, outlay, settlement) ==
  [ acct EXCEPT !.locked_cash        = Greater(@ - outlay, 0),
                !.settlement_inflows = @ + settlement,
                !.realised_pnl       = @ + (settlement - outlay),
                !.available_cash     = @ + settlement ]

\* A settlement first pays what an earlier capital cut still owes.
SettleClient(acct, outlay, settlement) ==
  LET applied == Lesser(settlement, acct.pending_withdrawal)
  IN  [ acct EXCEPT !.locked_cash        = Greater(@ - outlay, 0),
                    !.settlement_inflows = @ + settlement,
                    !.realised_pnl       = @ + (settlement - outlay),
                    !.pending_withdrawal = @ - applied,
                    !.external_outflows  = @ + applied,
                    !.available_cash     = @ + (settlement - applied) ]

\* Mutants: what a capital cut cannot take is forgotten; it is taken from cash
\* the client does not have.
ReconcileForgetting(acct, next) ==
  LET change == next - acct.scheduled_capital
      paid   == Lesser(acct.available_cash, - change)
  IN  IF change >= 0
      THEN [ acct EXCEPT !.scheduled_capital = next,
                         !.available_cash    = @ + change,
                         !.external_inflows  = @ + change ]
      ELSE [ acct EXCEPT !.scheduled_capital = next,
                         !.available_cash    = @ - paid,
                         !.external_outflows = @ + paid ]
ReconcileOverdrawing(acct, next) ==
  LET change == next - acct.scheduled_capital
  IN  [ acct EXCEPT !.scheduled_capital = next,
                    !.available_cash    = @ + change,
                    !.external_inflows  = @ + Greater(change, 0),
                    !.external_outflows = @ + Greater(- change, 0) ]

\* A capital increase is all available: it is not netted with what is owed.
ReconcileClient(acct, next) ==
  LET change == next - acct.scheduled_capital
      paid   == Lesser(acct.available_cash, - change)
  IN  IF change >= 0
      THEN [ acct EXCEPT !.scheduled_capital = next,
                         !.available_cash    = @ + change,
                         !.external_inflows  = @ + change ]
      ELSE [ acct EXCEPT !.scheduled_capital  = next,
                         !.available_cash     = @ - paid,
                         !.external_outflows  = @ + paid,
                         !.pending_withdrawal = @ + (- change - paid) ]

ResetClient(acct) == OpenClient(acct.initial_cash)

-----------------------------------------------------------------------------
(***************************************************************************)
(* The dealer.  realised_liability_pnl is the mirror of the client's       *)
(* realised result, realised_hedged_pnl adds the hedge's result; the stress*)
(* the dealer may carry is risk_capital_limit plus the latter.             *)
(***************************************************************************)
DealerAccount ==
  [ risk_capital_limit     : Nat,  cash_balance        : Int,
    issue_proceeds         : Nat,  settlement_payments : Nat,
    hedge_cash             : Int,  realised_liability_pnl : Int,
    realised_hedged_pnl    : Int ]

OpenDealer(limit) ==
  [ risk_capital_limit     |-> limit,  cash_balance        |-> 0,
    issue_proceeds         |-> 0,      settlement_payments |-> 0,
    hedge_cash             |-> 0,      realised_liability_pnl |-> 0,
    realised_hedged_pnl    |-> 0 ]

IssueDealer(acct, amount) ==
  [ acct EXCEPT !.issue_proceeds = @ + amount,
                !.cash_balance   = @ + amount ]

\* event is the LifecycleEvent of the closed contract.
SettleDealer(acct, event) ==
  [ acct EXCEPT
      !.settlement_payments    = @ + event.settlement,
      !.hedge_cash             = @ + event.hedge_pnl,
      !.cash_balance           = @ + (event.hedge_pnl - event.settlement),
      !.realised_liability_pnl = @ + event.liability_pnl,
      !.realised_hedged_pnl    = @ + event.hedged_pnl ]

ResetDealer(acct) == OpenDealer(acct.risk_capital_limit)

RiskCapital(acct) == acct.risk_capital_limit + acct.realised_hedged_pnl

-----------------------------------------------------------------------------
(* Double entry: what every movement of money leaves true of an account.   *)

ClientBalances(acct) ==
  /\ acct.available_cash + acct.issue_outflows + acct.external_outflows
       = acct.initial_cash + acct.settlement_inflows + acct.external_inflows
  /\ acct.scheduled_capital + acct.external_outflows + acct.pending_withdrawal
       = acct.initial_cash + acct.external_inflows

DealerBalances(acct) ==
  acct.cash_balance + acct.settlement_payments = acct.issue_proceeds + acct.hedge_cash

\* The dealer received what the client paid, paid what the client received,
\* lost what the client gained; its hedged result adds the hedges' result.
Mirrors(dealer_acct, client_acct) ==
  /\ dealer_acct.issue_proceeds = client_acct.issue_outflows
  /\ dealer_acct.settlement_payments = client_acct.settlement_inflows
  /\ dealer_acct.realised_liability_pnl + client_acct.realised_pnl = 0
  /\ dealer_acct.realised_hedged_pnl
       = dealer_acct.realised_liability_pnl + dealer_acct.hedge_cash

=============================================================================
