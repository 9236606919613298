SPECIFICATION PipelineSpec
CONSTANTS
  Jobs = {j1, j2}
  Targets = {t1}
  Pollers = {p1, p2}
  Requests = {r1}
  Mortal = {p1, p2, r1}
  Slow = {p1, p2}
  MaxAttempts = 2
  Nobody = Nobody
  NoJob = NoJob
  NoTarget = NoTarget
  Expired = Expired
  Retriers = {r1}
SYMMETRY PipelineSymmetry
INVARIANTS BuildingIsBacked BurialEarned
PROPERTIES DeadJobFreesWorkspace RecoveryFailsOnlyExhausted
