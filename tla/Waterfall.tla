----------------------------- MODULE Waterfall -----------------------------
(***************************************************************************)
(* The operating and debt projection of an underwriting case               *)
(* (underwriting_model_service.calculate_projection): period by period,    *)
(* the cash a company earns pays its interest and taxes, draws on          *)
(* revolvers, pays scheduled amortization and sweeps the rest.             *)
(*                                                                         *)
(* Money is in whole units, rates and thresholds in percent; a share of an *)
(* amount is rounded down.  A period is a year.  The operating build-up    *)
(* (revenue, margins, working capital) is data of the case:                *)
(*   [entry_ev, existing_debt, starting_cash, fees, rollover,              *)
(*    minimum_cash, sweep, base, tax, exit_multiple,                       *)
(*    revenue, gross, ebitda, da, capex, nwc : one number per period,      *)
(*    tranches : a sequence of                                             *)
(*      [revolver, initial, commitment, floor, spread, pik, amort,         *)
(*       priority, eligible, maturity]]                                    *)
(***************************************************************************)
EXTENDS Integers, Sequences, SequencesExt, FiniteSetsExt

Share(amount, percent) == (amount * percent) \div 100
Least(x, y) == IF x <= y THEN x ELSE y
Greatest(x, y) == IF x <= y THEN y ELSE x
Positive(x) == Greatest(0, x)
Total(f) == FoldFunction(+, 0, f)

Loans(case) == DOMAIN case.tranches
Periods(case) == DOMAIN case.ebitda

\* What the schemas let through.  Earnings, investments and reference rates
\* have any sign; a revolver without a commitment has that of its first draw.
Percent == 0..100
BaseRate == -5..100
Loan ==
  [revolver : BOOLEAN, initial : Nat, commitment : Nat, floor : BaseRate, spread : Percent, pik : Percent,
   amort : Percent, priority : Nat, eligible : BOOLEAN, maturity : Nat]

Terms ==
  [entry_ev : Int, existing_debt : Nat, starting_cash : Nat, fees : Nat, rollover : Nat,
   minimum_cash : Nat, sweep : Percent, base : BaseRate, tax : Percent, exit_multiple : Nat,
   revenue : Seq(Nat), gross : Seq(Int), ebitda : Seq(Int), da : Seq(Int), capex : Seq(Int), nwc : Seq(Int), tranches : Seq(Loan)]

\* A plan for every period, of which there is one at least; margins are within
\* 200% of revenue, and no company earns more than its gross profit.
WellFormed(case) ==
  /\ case \in Terms /\ case.ebitda # <<>>
  /\ \A plan \in {case.revenue, case.gross, case.da, case.capex, case.nwc} : DOMAIN plan = Periods(case)
  /\ \A p \in Periods(case) :
       /\ -2 * case.revenue[p] <= case.ebitda[p] /\ case.ebitda[p] <= case.gross[p]
       /\ case.gross[p] <= 2 * case.revenue[p]

-----------------------------------------------------------------------------
(* calculate_sources_uses: the sponsor pays what nothing else does.        *)

EquityPrice(case) == case.entry_ev - case.existing_debt + case.starting_cash
NewDebt(case) == Total([i \in Loans(case) |-> case.tranches[i].initial])

SponsorEquity(case) ==
  EquityPrice(case) + case.existing_debt + case.fees + case.minimum_cash
    - (case.starting_cash + NewDebt(case) + case.rollover)

Financed(case) ==
  /\ case.entry_ev > 0 /\ EquityPrice(case) >= 0
  /\ SponsorEquity(case) >= 0
  /\ SponsorEquity(case) + case.rollover > 0

-----------------------------------------------------------------------------
(* One period.                                                             *)

\* sorted(..., key=cash_sweep_priority): ties keep the order of the case, and
\* the k-th tranche has k - 1 before it.
Precedes(case, i, j) ==
  \/ case.tranches[i].priority < case.tranches[j].priority
  \/ case.tranches[i].priority = case.tranches[j].priority /\ i < j
Preceding(case, j) == {i \in Loans(case) : Precedes(case, i, j)}
ByPriority(case) ==
  [k \in Loans(case) |-> CHOOSE i \in Loans(case) : Cardinality(Preceding(case, i)) = k - 1]

DebtRow(case, i, p, opening) ==
  LET loan == case.tranches[i]
      prepayment == opening + Share(opening, loan.pik)
  IN [opening |-> opening,
      interest |-> Share(opening, Greatest(case.base, loan.floor) + loan.spread),
      pik |-> Share(opening, loan.pik),
      prepayment |-> prepayment,
      mature |-> loan.maturity = p,
      required |-> IF loan.maturity = p THEN prepayment
                   ELSE Least(prepayment, Share(loan.initial, loan.amort))]

Debts(case, p, balance) == [i \in Loans(case) |-> DebtRow(case, i, p, balance[i])]
Interest(debt) == Total([i \in DOMAIN debt |-> debt[i].interest])
Required(debt) == Total([i \in DOMAIN debt |-> debt[i].required])
PaidInKind(debt) == Total([i \in DOMAIN debt |-> debt[i].pik])

Taxes(case, p, debt) ==
  Share(Positive(case.ebitda[p] - case.da[p] - Interest(debt) - PaidInKind(debt)), case.tax)

BeforeService(case, p, cash, debt, distribution) ==
  cash + case.ebitda[p] - Taxes(case, p, debt) - case.capex[p] - case.nwc[p] - Interest(debt) - distribution

\* A flow of cash through the tranches: what was drawn, paid and swept, and
\* how much of the current purpose is left.
Flow(case, cash) ==
  LET nothing == [i \in Loans(case) |-> 0]
  IN [cash |-> cash, left |-> 0, draw |-> nothing, paid |-> nothing, sweep |-> nothing]

Room(loan, row) == IF loan.revolver /\ ~row.mature THEN Positive(loan.commitment - row.prepayment) ELSE 0

\* Mutated: a revolver that is needed is drawn in full.
DrawInFull(case, debt, flow) ==
  LET Borrow(f, i, amount) == [f EXCEPT !.cash = @ + amount, !.left = @ - amount, !.draw[i] = amount]
      Visit(f, i) == IF f.left > 0 THEN Borrow(f, i, Room(case.tranches[i], debt[i])) ELSE f
  IN FoldLeft(Visit, [flow EXCEPT !.left = Positive(case.minimum_cash + Required(debt) - flow.cash)], ByPriority(case))

\* Committed revolvers fund required debt service and the minimum cash.
Draw(case, debt, flow) ==
  LET Borrow(f, i, amount) == [f EXCEPT !.cash = @ + amount, !.left = @ - amount, !.draw[i] = amount]
      Visit(f, i) == Borrow(f, i, Least(Room(case.tranches[i], debt[i]), f.left))
  IN FoldLeft(Visit, [flow EXCEPT !.left = Positive(case.minimum_cash + Required(debt) - flow.cash)], ByPriority(case))

Pay(case, debt, flow) ==
  LET Spend(f, i, amount) == [f EXCEPT !.cash = @ - amount, !.paid[i] = amount]
      Visit(f, i) == Spend(f, i, Least(debt[i].required, Positive(f.cash)))
  IN FoldLeft(Visit, flow, ByPriority(case))

Balance(debt, flow, i) == debt[i].prepayment + flow.draw[i] - flow.paid[i] - flow.sweep[i]

\* Mutated: the minimum cash is swept too.
SweepAllCash(case, debt, flow) ==
  LET Prepay(f, i, amount) == [f EXCEPT !.cash = @ - amount, !.left = @ - amount, !.sweep[i] = amount]
      Visit(f, i) == IF case.tranches[i].eligible THEN Prepay(f, i, Least(Balance(debt, f, i), f.left)) ELSE f
  IN FoldLeft(Visit, [flow EXCEPT !.left = Share(Positive(flow.cash), case.sweep)], ByPriority(case))

\* What is left above the minimum prepays the eligible tranches.
Sweep(case, debt, flow) ==
  LET Prepay(f, i, amount) == [f EXCEPT !.cash = @ - amount, !.left = @ - amount, !.sweep[i] = amount]
      Visit(f, i) == IF case.tranches[i].eligible THEN Prepay(f, i, Least(Balance(debt, f, i), f.left)) ELSE f
  IN FoldLeft(Visit, [flow EXCEPT !.left = Share(Positive(flow.cash - case.minimum_cash), case.sweep)], ByPriority(case))

\* _apply_debt_service.  Ending cash may be negative: a deficit is carried.
DebtService(case, debt, cash) == Sweep(case, debt, Pay(case, debt, Draw(case, debt, Flow(case, cash))))

Ending(debt, flow) == [i \in DOMAIN debt |-> Positive(Balance(debt, flow, i))]

\* _covenant_results.  Liquidity counts the undrawn part of every revolver.
Undrawn(case, balance) ==
  Total([i \in Loans(case) |->
           IF case.tranches[i].revolver THEN Positive(case.tranches[i].commitment - balance[i]) ELSE 0])

Row(case, p, debt, before, flow, ending) ==
  [debt |-> debt, before |-> before, flow |-> flow, ending |-> ending,
   cash |-> flow.cash,
   owed |-> Total(ending),
   ebitda |-> case.ebitda[p],
   interest |-> Interest(debt),
   charges |-> Interest(debt) + Required(debt),
   covered |-> case.ebitda[p] - case.capex[p] - Taxes(case, p, debt),
   liquidity |-> flow.cash + Undrawn(case, ending)]

\* A row is computed in the order of the code, each amount from the ones before.
Serviced(case, p, debt, before, flow) == Row(case, p, debt, before, flow, Ending(debt, flow))
Afforded(case, p, debt, before) == Serviced(case, p, debt, before, DebtService(case, debt, before))
Accrued(case, p, cash, debt, distribution) ==
  Afforded(case, p, debt, BeforeService(case, p, cash, debt, distribution))
PeriodRow(case, p, cash, balance, distribution) ==
  Accrued(case, p, cash, Debts(case, p, balance), distribution)

(* calculate_projection, with a special distribution in one period.        *)
Projection(case, period, amount) ==
  LET Close(s, row) == [cash |-> row.cash, balance |-> row.ending, rows |-> Append(s.rows, row)]
      Year(s, p) == Close(s, PeriodRow(case, p, s.cash, s.balance, IF p = period THEN amount ELSE 0))
      opening == [cash |-> case.minimum_cash,
                  balance |-> [i \in Loans(case) |-> case.tranches[i].initial],
                  rows |-> <<>>]
  IN FoldLeft(Year, opening, [p \in Periods(case) |-> p]).rows

\* calculate_summary: the least cash plus undrawn revolver of any period.
MinimumLiquidity(rows) == Min({rows[p].liquidity : p \in DOMAIN rows})

\* calculate_returns: what the owners get at exit.
ExitEquity(case, exit) == case.exit_multiple * exit.ebitda - exit.owed + exit.cash
=============================================================================
