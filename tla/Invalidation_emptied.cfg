SPECIFICATION HSpec
CONSTANTS
  Webhooks = {w1}
  Peers = FALSE
  Requests = {r1, r2}
  k1 = k1
  Keys = {k1}
  Prefixes <- OneFamily
  BatchSize = 2
  MaxRefresh = 1
  Faults = FALSE
  None = None
  Err = Err
PROPERTIES CachesEmptied
