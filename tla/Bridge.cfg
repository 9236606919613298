SPECIFICATION Spec
CONSTANTS
  Requests = {r1, r2}
  People = {ann, bob}
  Mappings <- MCMappings
  Files <- MCFiles
  References = {"memo"}
  Claims <- MCClaims
  Components = {"net_income", "depreciation_and_amortization"}
  Bps = 50
  MaxMappings = 1
  MaxSnapshots = 2
  None = None
SYMMETRY Symmetry
INVARIANTS CorrectionWins AdjustmentsEarned DashboardHolds
CHECK_DEADLOCK FALSE
