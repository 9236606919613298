------------------------ MODULE UnderwritingSolvers ------------------------
(***************************************************************************)
(* The two searches over the projection of a case: the largest special     *)
(* distribution a case can bear (solve_dividend_recap) and the driver      *)
(* value at which an output reaches a target (calculate_reverse_stress).   *)
(* Both bisect; a step of the specification is one evaluation of the       *)
(* projection.  The values searched are whole units, so a tolerance is at  *)
(* least 1.  A value the code refuses to evaluate ends the request with an *)
(* error, which is the status "refused" here.                              *)
(***************************************************************************)
EXTENDS Waterfall

CONSTANTS
  Recaps,        \* requests: [case, period, limits, tolerance, iterations]
  Stresses,      \* requests: [case, variable, objective, target, low, high, tolerance, iterations]
  MaxDoublings,  \* 40 in the code
  Absent,        \* a metric that cannot be computed: None
  Refused        \* a scenario that is not one: UnderwritingCalculationError

ASSUME SolverAssumption ==
  /\ MaxDoublings \in Nat
  /\ \A r \in Recaps \cup Stresses : r.tolerance \in Nat \ {0} /\ r.iterations \in Nat \ {0}
  /\ \A r \in Recaps : r.case.entry_ev \in Int
  /\ \A s \in Stresses : s.low \in Int /\ s.high \in Int /\ s.low < s.high /\ s.target \in Int
  /\ Recaps \cap Stresses = {}
  /\ Absent \notin Int /\ Refused \notin Int /\ Absent # Refused

ASSUME CaseAssumption == \A r \in Recaps \cup Stresses : WellFormed(r.case)

VARIABLES
  ask,       \* the request; it never changes
  at,        \* where the solver is
  low, high, \* the bracket
  tries,     \* doublings, then iterations
  answer     \* [status, value, high]: how it ended

vars == <<ask, at, low, high, tries, answer>>

-----------------------------------------------------------------------------
(* _recap_constraint_statuses.                                             *)

Constraints == {"max_total_leverage", "min_interest_coverage", "min_fixed_charge_coverage", "min_liquidity"}

\* Limits on ratios are positive; periods are counted from 1.
ASSUME LimitAssumption == \A r \in Recaps :
  /\ r.period \in Nat \ {0}
  /\ \A name \in DOMAIN r.limits : r.limits[name] \in Int /\ (name # "min_liquidity" => r.limits[name] > 0)

\* A ratio over nothing to cover is satisfied; leverage over no earnings is not.
Meets(name, limit, row) ==
  \/ /\ name = "max_total_leverage"
     /\ row.ebitda > 0
     /\ 100 * row.owed <= limit * row.ebitda
  \/ /\ name = "min_interest_coverage"
     /\ row.interest > 0 => 100 * row.ebitda >= limit * row.interest
  \/ /\ name = "min_fixed_charge_coverage"
     /\ row.charges > 0 => 100 * row.covered >= limit * row.charges
  \/ /\ name = "min_liquidity"
     /\ row.liquidity >= limit

Recapped(r, amount) == Projection(r.case, r.period, amount)

Satisfies(r, rows) ==
  \A name \in DOMAIN r.limits :
    \A p \in r.period..Len(rows) : Meets(name, r.limits[name], rows[p])

Feasible(r, amount) == Satisfies(r, Recapped(r, amount))

-----------------------------------------------------------------------------
(* _apply_variable and _result_metric.                                     *)

\* A shift of a margin, in percent, moves earnings by that share of revenue.
Shifted(s, value) ==
  IF s.variable = "base_rate_shift"
  THEN [s.case EXCEPT !.base = @ + value]
  ELSE [s.case EXCEPT !.ebitda = [p \in DOMAIN @ |-> @[p] + Share(s.case.revenue[p], value)]]

\* The IRR and the multiple of money grow with the exit equity, which stands
\* for them; there is neither when the sponsor paid nothing, and no IRR when
\* nothing comes back.
Output(s, case, rows) ==
  LET exit == ExitEquity(case, Last(rows))
  IN IF s.objective = "minimum_liquidity" THEN MinimumLiquidity(rows)
     ELSE IF SponsorEquity(case) > 0 /\ (s.objective = "irr" => exit > 0) THEN exit
     ELSE Absent

\* A scenario is validated as a case is, and financed, before it is projected.
Measured(s, case) ==
  IF WellFormed(case) /\ Financed(case) THEN Output(s, case, Projection(case, 0, 0)) ELSE Refused
Metric(s, value) == Measured(s, Shifted(s, value))

Near(s, x) == x - s.target \in -s.tolerance..s.tolerance
Opposed(s, x, y) == (x <= s.target /\ s.target <= y) \/ (y <= s.target /\ s.target <= x)

-----------------------------------------------------------------------------
Unanswered == [status |-> "none", value |-> 0, beyond |-> 0]

Init ==
  /\ \/ /\ ask \in Recaps
        /\ at = "recap" /\ low = 0 /\ high = 0
     \/ /\ ask \in Stresses
        /\ at = "stress" /\ low = ask.low /\ high = ask.high
  /\ tries = 0
  /\ answer = Unanswered

Conclude(status, value, beyond) ==
  /\ at' = "over"
  /\ answer' = [status |-> status, value |-> value, beyond |-> beyond]

(* solve_dividend_recap                                                    *)

RefuseRecap ==
  /\ at = "recap"
  /\ ~(Financed(ask.case) /\ ask.period \in Periods(ask.case))
  /\ Conclude("refused", 0, 0)
  /\ UNCHANGED <<ask, low, high, tries>>

TryZero ==
  /\ at = "recap"
  /\ Financed(ask.case) /\ ask.period \in Periods(ask.case)
  /\ IF Feasible(ask, 0)
     THEN /\ at' = "doubling"
          /\ high' = Greatest(10 * ask.tolerance, ask.case.entry_ev)
          /\ UNCHANGED answer
     ELSE /\ Conclude("infeasible", 0, 0)
          /\ UNCHANGED high
  /\ UNCHANGED <<ask, low, tries>>

Double ==
  /\ at = "doubling"
  /\ Feasible(ask, high) /\ tries < MaxDoublings
  /\ high' = 2 * high
  /\ tries' = tries + 1
  /\ UNCHANGED <<ask, at, low, answer>>

GiveUpDoubling ==
  /\ at = "doubling"
  /\ Feasible(ask, high) /\ tries = MaxDoublings
  /\ Conclude("unbounded", 0, high)
  /\ UNCHANGED <<ask, low, high, tries>>

Enclose ==
  /\ at = "doubling"
  /\ ~Feasible(ask, high)
  /\ at' = "bisecting"
  /\ low' = 0
  /\ tries' = 0
  /\ UNCHANGED <<ask, high, answer>>

Middle == (low + high) \div 2

Bisect ==
  /\ at = "bisecting"
  /\ high - low > ask.tolerance /\ tries < ask.iterations
  /\ IF Feasible(ask, Middle)
     THEN low' = Middle /\ UNCHANGED high
     ELSE high' = Middle /\ UNCHANGED low
  /\ tries' = tries + 1
  /\ UNCHANGED <<ask, at, answer>>

\* Mutated: the upper end of the bracket is reported.
ReportUpperEnd ==
  /\ at = "bisecting"
  /\ high - low <= ask.tolerance \/ tries = ask.iterations
  /\ Conclude(IF high - low <= ask.tolerance THEN "solved" ELSE "bounded", high, high)
  /\ UNCHANGED <<ask, low, high, tries>>

\* An exhausted search reports its lower end too, with a note.
ReportRecap ==
  /\ at = "bisecting"
  /\ high - low <= ask.tolerance \/ tries = ask.iterations
  /\ Conclude(IF high - low <= ask.tolerance THEN "solved" ELSE "bounded", low, high)
  /\ UNCHANGED <<ask, low, high, tries>>

(* calculate_reverse_stress                                                *)

Missing == {Absent, Refused}

\* An error ends the request; a scenario without a figure ends the search.
Without(x, y) == IF Refused \in {x, y} THEN "refused" ELSE "no_solution"

Compare(x, y) ==
  \/ /\ x \in Missing \/ y \in Missing
     /\ Conclude(Without(x, y), 0, 0)
  \/ /\ x \notin Missing /\ y \notin Missing /\ Near(ask, x)
     /\ Conclude("solved", low, low)
  \/ /\ x \notin Missing /\ y \notin Missing /\ ~Near(ask, x) /\ Near(ask, y)
     /\ Conclude("solved", high, high)
  \/ /\ x \notin Missing /\ y \notin Missing /\ ~Near(ask, x) /\ ~Near(ask, y)
     /\ IF Opposed(ask, x, y)
        THEN at' = "halving" /\ UNCHANGED answer
        ELSE Conclude("no_solution", 0, 0)

TryEnds ==
  /\ at = "stress"
  /\ Compare(Metric(ask, low), Metric(ask, high))
  /\ UNCHANGED <<ask, low, high, tries>>

Narrow(x, y) ==
  \/ /\ y \in Missing
     /\ Conclude(Without(y, y), 0, 0)
     /\ UNCHANGED <<low, high>>
  \/ /\ y \notin Missing
     /\ Near(ask, y) \/ high - low <= ask.tolerance
     /\ Conclude("solved", Middle, high)
     /\ UNCHANGED <<low, high>>
  \/ /\ y \notin Missing
     /\ ~Near(ask, y) /\ high - low > ask.tolerance
     /\ IF Opposed(ask, x, y)
        THEN high' = Middle /\ UNCHANGED low
        ELSE low' = Middle /\ UNCHANGED high
     /\ UNCHANGED <<at, answer>>

\* Mutated: the wrong end is compared with the middle.
HalveFromAbove ==
  /\ at = "halving"
  /\ tries < ask.iterations
  /\ tries' = tries + 1
  /\ Narrow(Metric(ask, high), Metric(ask, Middle))
  /\ UNCHANGED ask

Halve ==
  /\ at = "halving"
  /\ tries < ask.iterations
  /\ tries' = tries + 1
  /\ Narrow(Metric(ask, low), Metric(ask, Middle))
  /\ UNCHANGED ask

\* A search that ran out of iterations answers as one without a crossing does.
ReportStress ==
  /\ at = "halving"
  /\ tries = ask.iterations
  /\ Conclude("no_solution", 0, 0)
  /\ UNCHANGED <<ask, low, high, tries>>

RecapNext == RefuseRecap \/ TryZero \/ Double \/ GiveUpDoubling \/ Enclose \/ Bisect \/ ReportRecap
StressNext == TryEnds \/ Halve \/ ReportStress
Next == RecapNext \/ StressNext

Spec == Init /\ [][Next]_vars

-----------------------------------------------------------------------------
(* Safety.  What the searches never tried they infer from what they tried. *)
(* That is right where debt is no bargain, which a request shows of itself *)
(* in the rows compared: the schemas let through cases where it is one.    *)

\* The amounts and values the answers are compared with.
Ceiling == Greatest(ask.case.entry_ev, high) + ask.case.entry_ev \div 4

\* No more cash, no less debt in any tranche, no more liquidity.
NoBetter(row, than) ==
  /\ row.cash <= than.cash /\ row.liquidity <= than.liquidity
  /\ \A i \in DOMAIN row.ending : row.ending[i] >= than.ending[i]

\* Interest and taxes together take no less, and no revolver that can be drawn
\* is due more: amortization of a revolver is paid out of its own next draw.
NoBargain(case, row, than) ==
  /\ row.covered - row.interest <= than.covered - than.interest
  /\ \A i \in Loans(case) :
       case.tranches[i].revolver /\ ~row.debt[i].mature => row.debt[i].required = than.debt[i].required

\* Nor is what interest saves in taxes a reason to have more of it.
CostsMore(r, row, than) ==
  /\ NoBargain(r.case, row, than)
  /\ row.interest >= than.interest
  /\ "min_fixed_charge_coverage" \in DOMAIN r.limits =>
       100 * (row.covered - than.covered) <= r.limits["min_fixed_charge_coverage"] * (row.charges - than.charges)

\* Paying the owners more leaves a company no better off in the period of the
\* payout, nor in any later one as long as debt was no bargain: what is not
\* paid out is swept, drawn less or kept.  Without it a bisection over the
\* amount paid would find some crossing, not the last.
PayingNeverHelps ==
  at = "over" /\ ask \in Recaps =>
    \A amount \in 0..Ceiling :
      LET kept == Recapped(ask, amount)
          paid == Recapped(ask, amount + 1)
      IN \A p \in DOMAIN kept :
           (\A q \in ask.period + 1..p : NoBargain(ask.case, paid[q], kept[q])) => NoBetter(paid[p], kept[p])

\* What the answer of solve_dividend_recap says of the amounts it tried.
Tried ==
  CASE answer.status \in {"solved", "bounded"} ->
         /\ Feasible(ask, answer.value) /\ ~Feasible(ask, answer.beyond)
         /\ answer.status = "solved" => answer.beyond - answer.value <= ask.tolerance
    [] answer.status = "infeasible" -> ~Feasible(ask, 0)
    [] answer.status = "unbounded" -> Feasible(ask, answer.beyond)
    [] OTHER -> TRUE

\* The answer of solve_dividend_recap over all amounts, the ones it never
\* tried included: "maximum special distribution ..., infeasible,
\* unbounded" mean what they say, unbounded of "distributions up to" the last
\* one that was tried.
MaximumIsExact ==
  at = "over" /\ ask \in Recaps =>
    CASE answer.status = "solved" ->
           /\ Feasible(ask, answer.value)
           /\ \A amount \in answer.value + ask.tolerance..Ceiling : ~Feasible(ask, amount)
      [] answer.status = "bounded" -> Feasible(ask, answer.value) /\ ~Feasible(ask, answer.beyond)
      [] answer.status = "infeasible" -> \A amount \in 0..Ceiling : ~Feasible(ask, amount)
      [] answer.status = "unbounded" -> \A amount \in 0..answer.beyond : Feasible(ask, amount)
      [] OTHER -> TRUE

\* After the payout, debt costs more the more is paid out.
DebtCosts ==
  \A amount \in 0..Ceiling - 1 :
    LET less == Recapped(ask, amount)
        more == Recapped(ask, amount + 1)
    IN \A p \in ask.period + 1..Len(less) : CostsMore(ask, more[p], less[p])

\* The answer is what was tried, and where debt costs it is exact: a payout in
\* the last period always is.
MaximumWhereDebtCosts ==
  at = "over" /\ ask \in Recaps => Tried /\ (DebtCosts => MaximumIsExact)

\* _apply_debt_service, in every period of every projection at the ends of
\* the bracket: nothing is lost between cash and debt; amortization goes
\* unpaid only after every usable revolver is drawn to its commitment and
\* the cash is gone, the first in priority last; debt is prepaid only out of
\* cash nobody else has a claim on, and never with money just borrowed.
InOrder(case, row) ==
  LET by == row.flow
      loan == case.tranches
      Ahead(i, j) == loan[i].priority < loan[j].priority
      Unpaid(i) == by.paid[i] < row.debt[i].required
      Usable(i) == loan[i].revolver /\ ~row.debt[i].mature
  IN /\ row.cash - row.owed = row.before - Total([i \in Loans(case) |-> row.debt[i].prepayment])
     /\ \A i \in Loans(case) :
          /\ Unpaid(i) \/ row.cash < case.minimum_cash =>
               \A j \in Loans(case) :
                 /\ by.sweep[j] = 0
                 /\ Usable(j) => row.debt[j].prepayment + by.draw[j] >= loan[j].commitment
          /\ Unpaid(i) => row.cash <= 0 /\ \A j \in Loans(case) : Ahead(i, j) => by.paid[j] = 0
          /\ by.draw[i] > 0 =>
               /\ row.debt[i].prepayment + by.draw[i] <= loan[i].commitment
               /\ \A j \in Loans(case) : by.sweep[j] = 0
          /\ by.sweep[i] > 0 =>
               \A j \in Loans(case) : Ahead(j, i) /\ loan[j].eligible => row.ending[j] = 0

WaterfallHolds ==
  ask \in Recaps /\ at # "over" =>
    \A amount \in {low, high} :
      \A row \in Range(Recapped(ask, amount)) : InOrder(ask.case, row)

\* Debt is no bargain at any value of a driver compared with the next easier
\* one: a lower base rate, a higher margin.
Orderly(s) ==
  \A value \in s.low..s.high - 1 :
    LET lower == Projection(Shifted(s, value), 0, 0)
        upper == Projection(Shifted(s, value + 1), 0, 0)
    IN \A p \in DOMAIN lower :
         IF s.variable = "base_rate_shift" THEN NoBargain(s.case, upper[p], lower[p])
         ELSE NoBargain(s.case, lower[p], upper[p])

\* The answer of calculate_reverse_stress: a solved value is near the target
\* or within a tolerance of a crossing of it; a request is refused for one of
\* its bounds only, never for a value between them.  "no_solution" before any
\* halving: a bound has no figure or, where debt is no bargain, no value
\* between the bounds gives the target.  After halvings: the search ran out of
\* iterations around a crossing that is there; a missing IRR does not end it
\* where debt is no bargain.
StressVerdict ==
  at = "over" /\ ask \in Stresses =>
    CASE answer.status = "solved" ->
           \/ Near(ask, Metric(ask, answer.value))
           \/ high - low <= ask.tolerance /\ Opposed(ask, Metric(ask, low), Metric(ask, high))
      [] answer.status = "refused" ->
           Refused \in {Metric(ask, ask.low), Metric(ask, ask.high)}
      [] answer.status = "no_solution" /\ tries = 0 ->
           \/ Absent \in {Metric(ask, ask.low), Metric(ask, ask.high)}
           \/ Orderly(ask) => \A value \in ask.low..ask.high : Metric(ask, value) # ask.target
      [] answer.status = "no_solution" /\ tries > 0 ->
           /\ Opposed(ask, Metric(ask, low), Metric(ask, high))
           /\ Orderly(ask) =>
                tries = ask.iterations /\ \A value \in ask.low..ask.high : Metric(ask, value) # Absent
=============================================================================
