SPECIFICATION ClockSpec
CONSTANTS
  Requests = {r1, r2}
  Instances = {i1, i2}
  TTL = 2
  Hold = 1
  Delay = 1
  None = None
  Expired = Expired
INVARIANTS EntriesExpire AgeBounded
