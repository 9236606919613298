SPECIFICATION Spec
CONSTANTS
  A = A
  B = B
  Bot = Bot
  a1 = a1
  a2 = a2
  b1 = b1
  c1 = c1
  t1 = t1
  t2 = t2
  r1 = r1
  r2 = r2
  g1 = g1
  g2 = g2
  k1 = k1
  k2 = k2
  Users = {A, B, Bot}
  Humans = {A, B}
  Windows = {a1, a2, b1, c1}
  Person <- MCPerson
  Agendas <- RoomAgendas
  Texts = {t1, t2}
  Proposals = {r1, r2}
  Nobody = Nobody
  Nothing = Nothing
  MaxVersions = 4
  MaxRevisions = 3
  Gates = {g1, g2}
  StageOf <- MCStageOf
  Tasks = {k1, k2}
  Needs <- MCNeeds
  MaxWrites = 3
  MaxLedger = 3
  MaxPackets = 1
  MaxVerdicts = 3
  MaxVotes = 2
CHECK_DEADLOCK FALSE
INVARIANTS RedactionOnLatest
