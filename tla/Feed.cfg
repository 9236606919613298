SPECIFICATION FairSpec
CONSTANTS
  c1 = c1
  c2 = c2
  worker = worker
  user = user
  s1 = s1
  s2 = s2
  Companies = {c1, c2}
  Workers = {worker}
  Requests = {user}
  Syncs = {s1, s2}
  Window = 2
  Agendas <- MCAgendas
  Other = Other
  NoCompany = NoCompany
INVARIANTS ReportedIsStored
PROPERTIES ImplementsFilingLog CatchesUp
CHECK_DEADLOCK FALSE
