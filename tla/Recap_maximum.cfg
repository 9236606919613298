SPECIFICATION Spec
CONSTANTS
  Recaps <- AmortizingRecaps
  Stresses <- NoStresses
  MaxDoublings = 5
  Absent = Absent
  Refused = Refused
INVARIANTS MaximumIsExact
CHECK_DEADLOCK FALSE
