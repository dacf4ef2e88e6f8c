SPECIFICATION Spec
CONSTANTS
  k1 = k1
  k2 = k2
  c1 = c1
  c2 = c2
  NoClaim = NoClaim
  Callers = {c1, c2}
  Kids = {k1, k2}
  Bearers <- MCBearers
  MinRefresh = 1
  SoftTtl = 1
  MinRemaining = 1
  Lifetime = 3
  Skew = 1
  Latency = 1
  LastSecond = 4
CONSTRAINT OneCache
CHECK_DEADLOCK FALSE
INVARIANT CachesAreCurrent
