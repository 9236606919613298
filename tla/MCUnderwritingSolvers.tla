----------------------- MODULE MCUnderwritingSolvers -----------------------
(* Cases with a revolver, a senior loan and a mezzanine over three years.  *)
EXTENDS UnderwritingSolvers

Revolver(maturity, amort) ==
  [revolver |-> TRUE, initial |-> 4, commitment |-> 12, floor |-> 0, spread |-> 10, pik |-> 0,
   amort |-> amort, priority |-> 2, eligible |-> TRUE, maturity |-> maturity]
Senior(priority, amort, maturity) ==
  [revolver |-> FALSE, initial |-> 30, commitment |-> 0, floor |-> 15, spread |-> 5, pik |-> 0,
   amort |-> amort, priority |-> priority, eligible |-> TRUE, maturity |-> maturity]
Mezzanine(pik, eligible) ==
  [revolver |-> FALSE, initial |-> 10, commitment |-> 0, floor |-> 0, spread |-> 20, pik |-> pik,
   amort |-> 0, priority |-> 2, eligible |-> eligible, maturity |-> 3]

Plans == {<<20, 20, 20>>, <<60, 10, 40>>, <<45, 35, 18>>, <<14, -3, 12>>}

Case(plan, sweep, tax, tranches, rollover) ==
  [entry_ev |-> 40, existing_debt |-> 10, starting_cash |-> 5, fees |-> 3, rollover |-> rollover,
   minimum_cash |-> 5, sweep |-> sweep, base |-> 10, tax |-> tax, exit_multiple |-> 3,
   revenue |-> <<100, 100, 100>>, gross |-> <<70, 70, 70>>, ebitda |-> plan, da |-> <<4, 4, 4>>, capex |-> <<3, 3, 3>>, nwc |-> <<1, -1, 0>>,
   tranches |-> tranches]

\* The mezzanine of the repository's sample: cash interest of 12%, 4% in kind.
Sample == [Mezzanine(4, TRUE) EXCEPT !.initial = 25, !.spread = 8]

\* A sponsor who pays nothing, and a rollover that leaves no room for one;
\* interest in kind beside taxes, and a revolver that amortizes.
Cases ==
  {Case(plan, 100, 25, <<Revolver(rm, 0), Senior(sp, 40, sm), Mezzanine(0, TRUE)>>, 2) :
     plan \in Plans, rm \in {0, 2}, sp \in {1, 3}, sm \in {0, 2}}
  \cup {Case(plan, 50, 0, <<Mezzanine(10, FALSE), Revolver(0, 0), Senior(2, 40, 2)>>, 0) : plan \in Plans}
  \cup {Case(<<20, 20, 20>>, 100, 25, <<Senior(1, 10, 0)>>, rollover) : rollover \in {2, 18, 40}}
  \cup {[Case(plan, 100, 25, <<Revolver(0, 0), Sample>>, 2) EXCEPT !.base = 4] : plan \in Plans}
  \cup {Case(plan, 100, 25, tranches, 2) : plan \in {<<20, 20, 20>>, <<60, 10, 40>>},
          tranches \in {<<Mezzanine(10, TRUE), Senior(1, 0, 0)>>, <<Revolver(0, 50), Senior(3, 0, 3)>>}}

Limits ==
  {[max_total_leverage |-> 250], [min_liquidity |-> 0], [min_interest_coverage |-> 200],
   [min_fixed_charge_coverage |-> 110], [max_total_leverage |-> 300, min_liquidity |-> -40]}

Request(case, period, limits, tolerance, iterations) ==
  [case |-> case, period |-> period, limits |-> limits, tolerance |-> tolerance, iterations |-> iterations]

MCRecaps ==
  {Request(case, 1, limits, 1, 9) : case \in Cases, limits \in Limits}
  \cup {Request(case, period, [min_liquidity |-> 0], 2, 3) : case \in Cases, period \in {2, 4}}

MCStresses ==
  {[case |-> case, variable |-> variable, objective |-> objective, target |-> target,
    low |-> -8, high |-> 24, tolerance |-> 1, iterations |-> iterations] :
     case \in Cases, variable \in {"base_rate_shift", "ebitda_margin_shift"},
     objective \in {"minimum_liquidity", "moic", "irr"}, target \in {6, 30}, iterations \in {3, 9}}

\* Revolvers that amortize, beside a loan repaid at the end.
AmortizingRecaps ==
  {Request([Case(plan, 100, 25, <<Revolver(0, 50), Senior(3, 0, 3)>>, 2) EXCEPT !.entry_ev = ev],
           2, [min_liquidity |-> limit], 1, 9) :
     plan \in {<<20, 30, 6>>, <<20, 30, 12>>, <<20, 20, 12>>}, ev \in {36, 40}, limit \in 0..6}
NoStresses == {}
=============================================================================
