SPECIFICATION FairSpec
CONSTANTS
  Webhooks = {w1}
  Peers = TRUE
  Requests = {r1, r2}
  k1 = k1
  Keys = {k1}
  Prefixes <- OneFamily
  BatchSize = 1
  MaxRefresh = 1
  Faults = TRUE
  None = None
  Err = Err
INVARIANTS TypeOK SingleFlight NoLostWaiter
PROPERTIES ImplementsContract EveryRequestAnswered InvalidationReturns
