SPECIFICATION CSpec
CONSTANTS
  Webhooks = {w1}
  Peers = FALSE
  Requests = {r1, r2}
  k1 = k1
  Keys = {k1}
  Prefixes <- OneFamily
  BatchSize = 1
  MaxRefresh = 0
  Faults = FALSE
  None = None
  Err = Err
PROPERTIES LoaderRunsOnce
