SPECIFICATION Spec
CONSTANTS
  Recaps <- MCRecaps
  Stresses <- MCStresses
  MaxDoublings = 5
  Absent = Absent
  Refused = Refused
INVARIANTS PayingNeverHelps MaximumWhereDebtCosts WaterfallHolds StressVerdict
CHECK_DEADLOCK FALSE
