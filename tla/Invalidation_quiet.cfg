SPECIFICATION HSpec
CONSTANTS
  Webhooks = {w1, w2}
  Peers = TRUE
  Requests = {r1, r2}
  k1 = k1
  Keys = {k1}
  Prefixes <- OneFamily
  BatchSize = 2
  MaxRefresh = 1
  Faults = TRUE
  None = None
  Err = Err
SYMMETRY Symmetry
INVARIANTS FreshReplies NoStaleCopy PurgeInvariant
