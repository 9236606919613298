---------------------------- MODULE MCQoEBridge ----------------------------
(* A pack with its corrections, a flash report and a pack to derive from.  *)
EXTENDS QoEBridge, TLC

Line(label, account, statement, period, type, currency, value) ==
  [label |-> label, account |-> account, statement |-> statement, period |-> period, type |-> type,
   unit |-> IF currency = "" THEN "percent" ELSE "currency", currency |-> currency, value |-> value]

Map(account, statement, status) ==
  [label |-> "Adj. EBITDA", account |-> account, statement |-> statement, sign |-> 1, status |-> status]

MCMappings == {Map("ebitda", "income_statement", "approved"), Map("ebitda", "balance_sheet", "approved")}

Income(label, account, period, type, value) == Line(label, account, "income_statement", period, type, "USD", value)
Balance(label, account, period, value) == Line(label, account, "balance_sheet", period, "instant", "USD", value)

MCFiles == {
  [source |-> "pack", rows |-> {Income("Adj. EBITDA", None, 1, "year", 20),
                                Balance("Assets", "total_assets", 1, 50),
                                Balance("Equity", "total_equity", 1, 20),
                                Balance("Debt", "total_liabilities", 1, 30)}],
  [source |-> "pack", rows |-> {Income("Adj. EBITDA", None, 1, "year", 22), Income("Q4 EBITDA", "ebitda", 1, "quarter", 6),
                                Balance("Assets", "total_assets", 1, 51)}],
  [source |-> "pack", rows |-> {Income("Net income", "net_income", 2, "year", 7),
                                Income("D&A", "depreciation_and_amortization", 2, "year", 4)}],
  [source |-> "flash", rows |-> {Line("Adj. EBITDA", None, "kpi", 1, "ltm", "EUR", 18),
                                 Income("Net income", "net_income", 2, "year", 6),
                                 Line("EBITDA margin", "ebitda", "kpi", 2, "year", "", 15)}]}

Adjustment(title, layer, currency, evidence) ==
  [title |-> title, period |-> 1, layer |-> layer, amount |-> 2, currency |-> currency, evidence |-> evidence]

MCClaims == {Adjustment("Owner pay", "management", "USD", TRUE), Adjustment("Covenant", "covenant", "USD", TRUE)}

Symmetry == Permutations(Requests)
=============================================================================
