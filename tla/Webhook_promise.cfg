SPECIFICATION Spec
CONSTANTS
  Deliveries = {d1, d2}
  Endpoints = {n1}
  Switchable = {}
  Pollers = {p1, p2}
  Senders = {s1}
  Mortal = {p1, s1}
  Slow = {}
  Corrupt = {}
  MaxAttempts = 2
  AttemptCap = 4
  NoDelivery = NoDelivery
  NoEndpoint = NoEndpoint
SYMMETRY Symmetry
PROPERTIES NotSentAgain ImplementsReliableOutbox
INVARIANTS ExclusiveSend
