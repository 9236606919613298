SPECIFICATION FairSpec
CONSTANTS
  a1 = a1
  a2 = a2
  p1 = p1
  p2 = p2
  e1 = e1
  e2 = e2
  e3 = e3
  u1 = u1
  u2 = u2
  u3 = u3
  ev = ev
  run = run
  pack = pack
  doc = doc
  base1 = base1
  upside = upside
  Writers = {a1, a2, p1, p2, e1, e2, e3, u1, u2, u3}
  Editors = {e1, e2, e3}
  Analysts = {a1, a2}
  Crews <- MCCrews
  Mortal = {a1, e1, u3}
  Streams = {ev, run, pack, doc, base1, upside}
  Evidence = ev
  Documents = doc
  Plan <- MCPlan
  Content <- MCContent
  Attempts = 2
INVARIANTS CitationsResolve NoLostUpdate NoEchoedUpload GiveUpEarned
PROPERTIES ImplementsVersionLog EveryWriteEnds
CHECK_DEADLOCK FALSE
