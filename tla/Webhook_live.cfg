SPECIFICATION FairSpec
CONSTANTS
  Deliveries = {d1, d2}
  Endpoints = {n1}
  Switchable = {n1}
  Pollers = {p1, p2}
  Senders = {}
  Mortal = {}
  Slow = {p1, p2}
  Corrupt = {d2}
  MaxAttempts = 2
  AttemptCap = 3
  NoDelivery = NoDelivery
  NoEndpoint = NoEndpoint
PROPERTIES DeliverySettles
INVARIANTS DeadLetterEarned
