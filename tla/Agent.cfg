SPECIFICATION FairSpec
CONSTANTS
  k1 = k1
  a1 = a1
  a2 = a2
  a3 = a3
  i1 = i1
  i2 = i2
  o1 = o1
  o2 = o2
  Consoles = {k1}
  Apis = {a1, a2, a3}
  Id <- MCId
  Objective <- MCObjective
  Crowds <- MCCrowds
  MaxFaults = 2
  NotRun = NotRun
INVARIANT OwnRunShown
PROPERTIES ImplementsIdempotentRuns EveryClickEnds
CHECK_DEADLOCK FALSE
