SPECIFICATION FairPipelineSpec
CONSTANTS
  Jobs = {j1, j2}
  Targets = {t1}
  Pollers = {p1}
  Requests = {r1, r2}
  Mortal = {p1, r1, r2}
  Slow = {}
  MaxAttempts = 2
  Nobody = Nobody
  NoJob = NoJob
  NoTarget = NoTarget
  Expired = Expired
  Retriers = {r1, r2}

INVARIANTS  SoleExecutor WaitingIsClaimable
PROPERTIES ImplementsExclusiveWork WaitingBuildEnds
